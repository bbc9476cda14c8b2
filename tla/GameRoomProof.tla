--------------------------- MODULE GameRoomProof ----------------------------
(***************************************************************************)
(* What the commands of a room do, as far as the proofs need to know it,   *)
(* and from that its type correctness.                                     *)
(*                                                                         *)
(* The first part gives the types of the amounts, rows and transactions    *)
(* the commands compute, and for each family of commands one summary of    *)
(* the step, so that the proof of an invariant argues about a few kinds    *)
(* of step and not about thirty commands.                                  *)
(*                                                                         *)
(* TypeOK is not inductive by itself: the walk to the next turn subtracts  *)
(* served turns from a counter, which stays natural only because the skip  *)
(* entries match it, and an approval reads the property of a request,      *)
(* which is one only because of the request's type. TypeInv adds both.     *)
(***************************************************************************)
EXTENDS RoomSafety, FiniteSetTheorems, SequenceTheorems, TLAPS

-----------------------------------------------------------------------------
(* The invariant every summary starts from *)

\* The inductive invariant: types, skip counters and the shape of requests.
TypeInv == TypeOK /\ SkipCounterMatches /\ RequestShape

\* The empty rows have the type of their table.
LEMMA NoRowTypes ==
  /\ NoLanding \in LandingRow
  /\ NoRequest \in RequestRow
  /\ NoFace \in Face
  BY DEF NoLanding, NoRequest, NoFace, LandingRow, RequestRow, Face

-----------------------------------------------------------------------------
(* Amounts, sums and transactions *)

\* The ledger entries of a payment are integers.
LEMMA FlowType ==
  ASSUME NEW from, NEW to, NEW a \in Int
  PROVE Flow(from, to, a) \in [Player -> Int]
  BY DEF Flow

\* A fresh transaction is a transaction row.
LEMMA TransactionTyped ==
  ASSUME NEW type \in TransactionType, NEW delta \in [Player -> Int]
  PROVE  Transaction(type, delta) \in TransactionRow
  BY NoRowTypes DEF Transaction, TransactionRow

\* A committed transaction about no property that undoes no other.
Plain(tx) == tx.prop = Nil /\ tx.status = "COMMITTED" /\ tx.undoes = 0

\* A fresh transaction, reversible or not, is one.
LEMMA PlainTransaction ==
  ASSUME NEW type \in TransactionType, NEW delta \in [Player -> Int]
  PROVE  /\ Transaction(type, delta) \in TransactionRow
         /\ Plain(Transaction(type, delta))
         /\ Transaction(type, delta).type = type
         /\ [Transaction(type, delta) EXCEPT !.reversible = FALSE] \in TransactionRow
         /\ Plain([Transaction(type, delta) EXCEPT !.reversible = FALSE])
         /\ [Transaction(type, delta) EXCEPT !.reversible = FALSE].type = type
<1> DEFINE tx == Transaction(type, delta)
<1>1. tx \in TransactionRow /\ Plain(tx) /\ tx.type = type
  BY TransactionTyped DEF Transaction, Plain
<1> HIDE DEF tx
<1>2. [tx EXCEPT !.reversible = FALSE] \in TransactionRow
  BY <1>1 DEF TransactionRow
<1>3. /\ Plain([tx EXCEPT !.reversible = FALSE])
      /\ [tx EXCEPT !.reversible = FALSE].type = type
  BY <1>1 DEF TransactionRow, Plain
<1> QED
  BY <1>1, <1>2, <1>3 DEF tx

\* A fresh request is a request row.
LEMMA NewRequestType ==
  ASSUME NEW type \in RequestType, NEW p \in Player, NEW a \in Nat
  PROVE  NewRequest(type, p, a) \in RequestRow
  BY NoRowTypes DEF NewRequest, RequestRow

\* Prices, fees and proceeds of a property are natural numbers.
LEMMA AmountType ==
  ASSUME NEW o \in Property
  PROVE  /\ Price[o] \in PriceRow
         /\ \A p : BuildPrice(p, o) \in Nat
         /\ \A m \in BOOLEAN : BankSaleAmount(o, m) \in Nat
         /\ Price[o].mortgage + RedemptionFee \in Nat
         /\ \A n \in Nat : n * Price[o].sell \in Nat
<1>1. /\ Price[o] \in PriceRow
      /\ RedemptionFee \in Nat
      /\ SkillConfig.discount \in Nat
  BY PriceAssumption
<1>2. /\ Price[o].purchase \in Nat /\ Price[o].mortgage \in Nat
      /\ Price[o].build \in Nat /\ Price[o].sell \in Nat
  BY <1>1 DEF PriceRow
<1>3. \A n \in Nat : n * Price[o].sell \in Nat
  BY <1>2
<1> QED
  BY <1>1, <1>2, <1>3 DEF BuildPrice, BankSaleAmount, AtLeastZero, SkillBonus

\* Skill bonuses and shortened stays are natural numbers.
LEMMA SkillNumbers ==
  ASSUME NEW p
  PROVE  /\ SkillBonus(p, "COMPANION_REWARD", SkillConfig.companionReward) \in Nat
         /\ PalaceReward(p) \in Nat
         /\ SkillBonus(p, "TOLL_BONUS", SkillConfig.bonus) \in Nat
         /\ \A n \in Nat : PalaceTurns(p, n) \in Nat
<1>1. /\ SkillConfig.companionReward \in Nat /\ SkillConfig.palaceReward \in Nat
      /\ SkillConfig.skipTurnsReduction \in Nat /\ SkillConfig.bonus \in Nat
  BY PriceAssumption
<1> QED
  BY <1>1 DEF SkillBonus, PalaceReward, PalaceTurns, AtLeastZero

\* What a payer is charged is never negative.
LEMMA ActualAmountType ==
  ASSUME NEW p, NEW a \in Nat, NEW fine \in BOOLEAN
  PROVE  ActualAmount(p, a, fine) \in Nat
<1>1. SkillConfig.reduction \in Nat
  BY PriceAssumption
<1> QED
  BY <1>1 DEF ActualAmount, AtLeastZero, SkillBonus

\* What a player is fined is an integer.
LEMMA FineAmountType ==
  ASSUME NEW p, NEW a \in Nat
  PROVE  ActualAmount(p, a, TRUE) \in Int
<1>1. SkillConfig.reduction \in Nat
  BY PriceAssumption
<1> QED
  BY <1>1 DEF ActualAmount, AtLeastZero, SkillBonus

\* A toll is a natural number.
LEMMA TollAmountType ==
  ASSUME TypeInv, NEW o \in Property
  PROVE  TollAmount(o) \in Nat
<1>1. prop[o].level \in 0..5
  BY DEF TypeInv, TypeOK, Deed
<1>2. Price[o].toll \in [0..5 -> Nat]
  BY PriceAssumption DEF PriceRow
<1> QED
  BY <1>1, <1>2, SkillNumbers DEF TollAmount

-----------------------------------------------------------------------------
(* Filing a request *)

\* row is a fresh pending request of player p for the amount a that names no
\* property yet.
Filed(row, type, p, a) ==
  /\ row \in RequestRow
  /\ row.type = type /\ row.status = "PENDING"
  /\ row.actor = p /\ row.prop = Nil /\ row.amount = a

\* A new request is one.
LEMMA BareRequestFields ==
  ASSUME NEW type \in RequestType, NEW p \in Player, NEW a \in Nat
  PROVE  /\ Filed(NewRequest(type, p, a), type, p, a)
         /\ NewRequest(type, p, a).landing = Nil
  BY DEF NewRequest, NoRequest, RequestRow, Filed

\* So it is with a count.
LEMMA CountRequestFields ==
  ASSUME NEW type \in RequestType, NEW p \in Player, NEW a \in Nat, NEW n \in Nat
  PROVE  /\ Filed([NewRequest(type, p, a) EXCEPT !.count = n], type, p, a)
         /\ [NewRequest(type, p, a) EXCEPT !.count = n].landing = Nil
         /\ [NewRequest(type, p, a) EXCEPT !.count = n].count = n
  BY DEF NewRequest, NoRequest, RequestRow, Filed

\* What PendingDeedStillValid asks of a request q about the property o with
\* the deed d.
DeedFits(q, o, d) ==
  /\ q.type = "BUY_PROPERTY" => d.owner = Nil
  /\ q.type \in DeedRequest \ {"BUY_PROPERTY"} => d.owner = q.actor
  /\ q.type \in {"BUILD_PROPERTY", "MORTGAGE_PROPERTY", "TRADE_PROPERTY"}
       => ~d.mortgaged
  /\ q.type = "BUILD_PROPERTY" => d.level < 5
  /\ q.type = "SELL_BUILDING" =>
       q.count <= d.level /\ q.amount = q.count * Price[o].sell
  /\ q.type = "REDEEM_PROPERTY" => d.mortgaged
  /\ q.type \in {"MORTGAGE_PROPERTY", "SELL_PROPERTY_TO_BANK", "TRADE_PROPERTY"}
       => d.level = 0
  /\ q.type = "SELL_PROPERTY_TO_BANK" => q.amount = BankSaleAmount(o, d.mortgaged)

\* A purchase or an upgrade is based on a landing, the other requests about a
\* property on none.
BasedOnLanding(row, p, o) ==
  IF row.type \in {"BUY_PROPERTY", "BUILD_PROPERTY"}
    THEN /\ row.landing \in LandingId /\ row.turn \in Nat
         /\ ActionLanding(row.landing, row.turn, p, o)
    ELSE row.landing = Nil

\* The step files a request about an unlocked property and locks it; the deed
\* fits the request, and so does the landing it is based on.
FilesDeedRequest ==
  \E p \in Player, o \in Property, r \in RequestId, row \in RequestRow :
    /\ MayFileFor(p, o, r)
    /\ row.type \in DeedRequest /\ row.status = "PENDING" /\ row.actor = p
    /\ row.type = "TRADE_PROPERTY" => row.target # Nil
    /\ DeedFits(row, o, prop[o])
    /\ BasedOnLanding(row, p, o)
    /\ FileFor(o, r, row)

\* That is what each of the seven property requests does.
LEMMA DeedRequestEffect ==
  ASSUME TypeInv, DeedRequestStep
  PROVE  FilesDeedRequest
<1>0. /\ DeedRequest \subseteq RequestType
      /\ \A o \in Property : prop[o] \in Deed
      /\ Len(turn) \in Nat
      /\ Player \cap {Nil} = {}
  BY NilAssumption DEF TypeInv, TypeOK, RequestType
<1>a. ASSUME NEW p \in Player, NEW o \in Property, NEW r \in RequestId, MayFileFor(p, o, r),
             NEW row \in RequestRow, row.type \in DeedRequest, row.status = "PENDING",
             row.actor = p, row.type = "TRADE_PROPERTY" => row.target # Nil,
             DeedFits(row, o, prop[o]), BasedOnLanding(row, p, o),
             FileFor(o, r, row)
      PROVE  FilesDeedRequest
  BY <1>a DEF FilesDeedRequest
<1>1. ASSUME NEW p \in Player, NEW o \in Property, NEW r \in RequestId, RequestBuy(p, o, r)
      PROVE  FilesDeedRequest
  <2>1. PICK l \in LandingId, n \in 0 .. Len(turn) :
          /\ ActionLanding(l, n, p, o)
          /\ FileFor(o, r, [NewRequest("BUY_PROPERTY", p, Price[o].purchase)
                              EXCEPT !.landing = l, !.turn = n])
    BY <1>1 DEF RequestBuy
  <2>2. MayFileFor(p, o, r) /\ prop[o].owner = Nil
    BY <1>1 DEF RequestBuy
  <2> DEFINE bare == NewRequest("BUY_PROPERTY", p, Price[o].purchase)
             row == [bare EXCEPT !.landing = l, !.turn = n]
  <2>3. n \in Nat /\ "BUY_PROPERTY" \in DeedRequest \cap RequestType
    BY <1>0 DEF DeedRequest
  <2>4. Price[o].purchase \in Nat
    BY AmountType DEF PriceRow
  <2>5. FileFor(o, r, row)
    BY <2>1
  <2>6. Filed(bare, "BUY_PROPERTY", p, Price[o].purchase)
    BY <2>3, <2>4, BareRequestFields
  <2> HIDE DEF bare
  <2>7. Filed(row, "BUY_PROPERTY", p, Price[o].purchase) /\ row.landing = l /\ row.turn = n
    BY <2>3, <2>6 DEF Filed, RequestRow
  <2> HIDE DEF row
  <2>8. DeedFits(row, o, prop[o])
    BY <2>2, <2>7 DEF DeedFits, Filed
  <2>9. BasedOnLanding(row, p, o)
    BY <2>1, <2>3, <2>7 DEF BasedOnLanding, Filed
  <2> QED
    BY <1>a, <2>2, <2>3, <2>5, <2>7, <2>8, <2>9 DEF Filed
<1>2. ASSUME NEW p \in Player, NEW o \in Property, NEW r \in RequestId, RequestBuild(p, o, r)
      PROVE  FilesDeedRequest
  <2>1. PICK l \in LandingId, n \in 0 .. Len(turn) :
          /\ ActionLanding(l, n, p, o)
          /\ FileFor(o, r, [NewRequest("BUILD_PROPERTY", p, BuildPrice(p, o))
                              EXCEPT !.landing = l, !.turn = n])
    BY <1>2 DEF RequestBuild
  <2>2. /\ MayFileFor(p, o, r)
        /\ prop[o].owner = p /\ ~prop[o].mortgaged /\ prop[o].level < 5
    BY <1>2 DEF RequestBuild
  <2> DEFINE bare == NewRequest("BUILD_PROPERTY", p, BuildPrice(p, o))
             row == [bare EXCEPT !.landing = l, !.turn = n]
  <2>3. n \in Nat /\ "BUILD_PROPERTY" \in DeedRequest \cap RequestType
    BY <1>0 DEF DeedRequest
  <2>4. BuildPrice(p, o) \in Nat
    BY AmountType DEF PriceRow
  <2>5. FileFor(o, r, row)
    BY <2>1
  <2>6. Filed(bare, "BUILD_PROPERTY", p, BuildPrice(p, o))
    BY <2>3, <2>4, BareRequestFields
  <2> HIDE DEF bare
  <2>7. Filed(row, "BUILD_PROPERTY", p, BuildPrice(p, o)) /\ row.landing = l /\ row.turn = n
    BY <2>3, <2>6 DEF Filed, RequestRow
  <2> HIDE DEF row
  <2>8. DeedFits(row, o, prop[o])
    BY <2>2, <2>7 DEF DeedFits, Filed
  <2>9. BasedOnLanding(row, p, o)
    BY <2>1, <2>3, <2>7 DEF BasedOnLanding, Filed
  <2> QED
    BY <1>a, <2>2, <2>3, <2>5, <2>7, <2>8, <2>9 DEF Filed
<1>3. ASSUME NEW p \in Player, NEW o \in Property, NEW n \in Count, NEW r \in RequestId,
             RequestSellBuilding(p, o, n, r)
      PROVE  FilesDeedRequest
  <2> DEFINE row == [NewRequest("SELL_BUILDING", p, n * Price[o].sell) EXCEPT !.count = n]
  <2>1. /\ MayFileFor(p, o, r) /\ FileFor(o, r, row)
        /\ prop[o].owner = p /\ n \in 1 .. prop[o].level
    BY <1>3 DEF RequestSellBuilding
  <2>2. n \in Nat /\ "SELL_BUILDING" \in DeedRequest \cap RequestType
    BY <1>0, InputAssumption DEF DeedRequest
  <2>3. n * Price[o].sell \in Nat
    BY <2>2, AmountType
  <2>4. Filed(row, "SELL_BUILDING", p, n * Price[o].sell) /\ row.landing = Nil /\ row.count = n
    BY <2>2, <2>3, CountRequestFields
  <2> HIDE DEF row
  <2>5. DeedFits(row, o, prop[o])
    BY <1>0, <2>1, <2>4 DEF DeedFits, Filed, Deed
  <2>6. BasedOnLanding(row, p, o)
    BY <2>4 DEF BasedOnLanding, Filed
  <2> QED
    BY <1>a, <2>1, <2>2, <2>4, <2>5, <2>6 DEF Filed
<1>4. ASSUME NEW p \in Player, NEW o \in Property, NEW r \in RequestId, RequestMortgage(p, o, r)
      PROVE  FilesDeedRequest
  <2> DEFINE row == NewRequest("MORTGAGE_PROPERTY", p, Price[o].mortgage)
  <2>1. /\ MayFileFor(p, o, r) /\ FileFor(o, r, row)
        /\ prop[o].owner = p /\ prop[o].level = 0 /\ ~prop[o].mortgaged
    BY <1>4 DEF RequestMortgage
  <2>2. Price[o].mortgage \in Nat /\ "MORTGAGE_PROPERTY" \in DeedRequest \cap RequestType
    BY <1>0, AmountType DEF DeedRequest, PriceRow
  <2>3. Filed(row, "MORTGAGE_PROPERTY", p, Price[o].mortgage) /\ row.landing = Nil
    BY <2>2, BareRequestFields
  <2> HIDE DEF row
  <2>4. DeedFits(row, o, prop[o])
    BY <2>1, <2>3 DEF DeedFits, Filed
  <2>5. BasedOnLanding(row, p, o)
    BY <2>3 DEF BasedOnLanding, Filed
  <2> QED
    BY <1>a, <2>1, <2>2, <2>3, <2>4, <2>5 DEF Filed
<1>5. ASSUME NEW p \in Player, NEW o \in Property, NEW r \in RequestId, RequestRedeem(p, o, r)
      PROVE  FilesDeedRequest
  <2> DEFINE cost == Price[o].mortgage + RedemptionFee
             row == NewRequest("REDEEM_PROPERTY", p, cost)
  <2>1. /\ MayFileFor(p, o, r) /\ FileFor(o, r, row)
        /\ prop[o].owner = p /\ prop[o].mortgaged
    BY <1>5 DEF RequestRedeem
  <2>2. cost \in Nat /\ "REDEEM_PROPERTY" \in DeedRequest \cap RequestType
    BY <1>0, AmountType DEF DeedRequest
  <2>3. Filed(row, "REDEEM_PROPERTY", p, cost) /\ row.landing = Nil
    BY <2>2, BareRequestFields
  <2> HIDE DEF row
  <2>4. DeedFits(row, o, prop[o])
    BY <2>1, <2>3 DEF DeedFits, Filed
  <2>5. BasedOnLanding(row, p, o)
    BY <2>3 DEF BasedOnLanding, Filed
  <2> QED
    BY <1>a, <2>1, <2>2, <2>3, <2>4, <2>5 DEF Filed
<1>6. ASSUME NEW p \in Player, NEW o \in Property, NEW r \in RequestId, RequestSellToBank(p, o, r)
      PROVE  FilesDeedRequest
  <2> DEFINE offer == BankSaleAmount(o, prop[o].mortgaged)
             row == NewRequest("SELL_PROPERTY_TO_BANK", p, offer)
  <2>1. /\ MayFileFor(p, o, r) /\ FileFor(o, r, row)
        /\ prop[o].owner = p /\ prop[o].level = 0
    BY <1>6 DEF RequestSellToBank
  <2>2. prop[o].mortgaged \in BOOLEAN
    BY <1>0 DEF Deed
  <2>3. offer \in Nat /\ "SELL_PROPERTY_TO_BANK" \in DeedRequest \cap RequestType
    BY <1>0, <2>2, AmountType DEF DeedRequest
  <2>4. Filed(row, "SELL_PROPERTY_TO_BANK", p, offer) /\ row.landing = Nil
    BY <2>3, BareRequestFields
  <2> HIDE DEF row
  <2>5. DeedFits(row, o, prop[o])
    BY <2>1, <2>4 DEF DeedFits, Filed
  <2>6. BasedOnLanding(row, p, o)
    BY <2>4 DEF BasedOnLanding, Filed
  <2> QED
    BY <1>a, <2>1, <2>3, <2>4, <2>5, <2>6 DEF Filed
<1>7. ASSUME NEW p \in Player, NEW o \in Property, NEW r \in RequestId, NEW b \in Player,
             NEW a \in Amount, RequestTrade(p, o, b, a, r)
      PROVE  FilesDeedRequest
  <2> DEFINE bare == NewRequest("TRADE_PROPERTY", p, a)
             row == [bare EXCEPT !.target = b]
  <2>1. /\ MayFileFor(p, o, r) /\ FileFor(o, r, row)
        /\ prop[o].owner = p /\ prop[o].level = 0 /\ ~prop[o].mortgaged
    BY <1>7 DEF RequestTrade
  <2>2. a \in Nat /\ "TRADE_PROPERTY" \in DeedRequest \cap RequestType
    BY <1>0, InputAssumption DEF DeedRequest
  <2>3. Filed(bare, "TRADE_PROPERTY", p, a) /\ bare.landing = Nil
    BY <2>2, BareRequestFields
  <2> HIDE DEF bare
  <2>4. Filed(row, "TRADE_PROPERTY", p, a) /\ row.landing = Nil /\ row.target = b
    BY <2>3 DEF Filed, RequestRow
  <2> HIDE DEF row
  <2>5. DeedFits(row, o, prop[o])
    BY <2>1, <2>4 DEF DeedFits, Filed
  <2>6. BasedOnLanding(row, p, o)
    BY <2>4 DEF BasedOnLanding, Filed
  <2>7. row.target # Nil
    BY <1>0, <2>4
  <2> QED
    BY <1>a, <2>1, <2>2, <2>4, <2>5, <2>6, <2>7 DEF Filed
<1> QED
  BY <1>1, <1>2, <1>3, <1>4, <1>5, <1>6, <1>7 DEF DeedRequestStep

\* A start reward is based on a confirmed START landing of the player, on his
\* turn if the dice are electronic; the other requests are based on none.
RewardOnLanding(row) ==
  IF row.type = "START_REWARD"
    THEN LET l == row.landing IN
         /\ l \in LandingId
         /\ landing[l].player = row.actor /\ landing[l].space = Nil
         /\ landing[l].status = "CONFIRMED" /\ landing[l].turn = row.turn
         /\ DiceMode = "ELECTRONIC" => OnTurn(row.turn, row.actor)
         /\ ~LandingUsed(l)
    ELSE row.landing = Nil

\* The step files a request about no property.
FilesCashRequest ==
  \E r \in RequestId, row \in RequestRow :
    /\ status = "PLAYING" /\ request[r].status = "NONE"
    /\ row.type \in RequestType \ DeedRequest /\ row.status = "PENDING"
    /\ row.actor \in Player /\ row.prop = Nil
    /\ RewardOnLanding(row)
    /\ File(r, row) /\ UNCHANGED prop

\* That is what each of the other requests does.
LEMMA CashRequestEffect ==
  ASSUME TypeInv, CashRequestStep
  PROVE  FilesCashRequest
<1>0. {"START_REWARD", "COLD_PALACE_EVENT", "PLOT_REST_EVENT", "CONSUME_SKIP_TURNS",
       "COMPANION_EVENT", "RETURN_COMPANION_EVENT", "BANK_PAYMENT", "PLAYER_TRANSFER"}
        \subseteq RequestType \ DeedRequest
  BY DEF RequestType, DeedRequest
<1>a. ASSUME NEW r \in RequestId, status = "PLAYING", request[r].status = "NONE",
             NEW row, NEW type \in RequestType \ DeedRequest, NEW p \in Player, NEW a,
             Filed(row, type, p, a), RewardOnLanding(row), File(r, row), UNCHANGED prop
      PROVE  FilesCashRequest
  BY <1>a DEF FilesCashRequest, Filed
<1>b. ASSUME NEW row, row.type # "START_REWARD", row.landing = Nil
      PROVE  RewardOnLanding(row)
  BY <1>b DEF RewardOnLanding
<1>1. ASSUME NEW p \in Player, NEW l \in LandingId, NEW r \in RequestId,
             RequestStartReward(p, l, r)
      PROVE  FilesCashRequest
  <2> DEFINE bare == NewRequest("START_REWARD", p, StartReward)
             row == [bare EXCEPT !.landing = l, !.turn = landing[l].turn]
  <2>1. landing[l].turn \in Nat /\ StartReward \in Nat
    BY PriceAssumption DEF TypeInv, TypeOK, LandingRow
  <2>2. Filed(bare, "START_REWARD", p, StartReward)
    BY <1>0, <2>1, BareRequestFields
  <2>3. /\ status = "PLAYING" /\ request[r].status = "NONE"
        /\ File(r, row) /\ UNCHANGED prop
        /\ landing[l].player = p /\ landing[l].space = Nil /\ landing[l].status = "CONFIRMED"
        /\ DiceMode = "ELECTRONIC" => OnTurn(landing[l].turn, p)
        /\ ~LandingUsed(l)
    BY <1>1 DEF RequestStartReward, MayFile
  <2> HIDE DEF bare
  <2>4. /\ Filed(row, "START_REWARD", p, StartReward)
        /\ row.landing = l /\ row.turn = landing[l].turn
    BY <2>1, <2>2 DEF Filed, RequestRow
  <2> HIDE DEF row
  <2>5. RewardOnLanding(row)
    BY <2>3, <2>4 DEF RewardOnLanding, Filed
  <2> QED
    BY <1>0, <1>a, <2>3, <2>4, <2>5
<1>2. ASSUME NEW p \in Player, NEW r \in RequestId, NEW n \in Count,
             NEW type \in {"COLD_PALACE_EVENT", "PLOT_REST_EVENT", "CONSUME_SKIP_TURNS"},
             RequestCount(p, type, n, r)
      PROVE  FilesCashRequest
  <2> DEFINE row == [NewRequest(type, p, 0) EXCEPT !.count = n]
  <2>1. n \in Nat
    BY InputAssumption
  <2>2. Filed(row, type, p, 0) /\ row.landing = Nil
    BY <1>0, <2>1, CountRequestFields
  <2>3. status = "PLAYING" /\ request[r].status = "NONE" /\ File(r, row) /\ UNCHANGED prop
    BY <1>2 DEF MayFile, RequestCount
  <2> HIDE DEF row
  <2> QED
    BY <1>0, <1>a, <1>b, <2>2, <2>3 DEF Filed
<1>3. ASSUME NEW p \in Player, NEW r \in RequestId, RequestCompanion(p, r)
      PROVE  FilesCashRequest
  <2> DEFINE row == NewRequest("COMPANION_EVENT", p, 0)
  <2>1. Filed(row, "COMPANION_EVENT", p, 0) /\ row.landing = Nil
    BY <1>0, BareRequestFields
  <2>2. status = "PLAYING" /\ request[r].status = "NONE" /\ File(r, row) /\ UNCHANGED prop
    BY <1>3 DEF MayFile, RequestCompanion
  <2> HIDE DEF row
  <2> QED
    BY <1>0, <1>a, <1>b, <2>1, <2>2 DEF Filed
<1>4. ASSUME NEW p \in Player, NEW r \in RequestId, RequestReturnCompanion(p, r)
      PROVE  FilesCashRequest
  <2> DEFINE row == [NewRequest("RETURN_COMPANION_EVENT", p, ReturnCompanionReward)
                       EXCEPT !.count = 1]
  <2>1. status = "PLAYING" /\ request[r].status = "NONE" /\ File(r, row) /\ UNCHANGED prop
    BY <1>4 DEF MayFile, RequestReturnCompanion
  <2>2. ReturnCompanionReward \in Nat /\ 1 \in Nat
    BY DEF ReturnCompanionReward
  <2>3. Filed(row, "RETURN_COMPANION_EVENT", p, ReturnCompanionReward) /\ row.landing = Nil
    BY <1>0, <2>2, CountRequestFields
  <2> HIDE DEF row
  <2> QED
    BY <1>0, <1>a, <1>b, <2>1, <2>3 DEF Filed
<1>5. ASSUME NEW p \in Player, NEW r \in RequestId, NEW a \in Amount,
             RequestBankPayment(p, a, r)
      PROVE  FilesCashRequest
  <2> DEFINE bare == NewRequest("BANK_PAYMENT", p, a)
             row == [bare EXCEPT !.target = p]
  <2>1. a \in Nat
    BY InputAssumption
  <2>2. Filed(bare, "BANK_PAYMENT", p, a) /\ bare.landing = Nil
    BY <1>0, <2>1, BareRequestFields
  <2>3. status = "PLAYING" /\ request[r].status = "NONE" /\ File(r, row) /\ UNCHANGED prop
    BY <1>5 DEF MayFile, RequestBankPayment
  <2> HIDE DEF bare
  <2>4. Filed(row, "BANK_PAYMENT", p, a) /\ row.landing = Nil
    BY <2>2 DEF Filed, RequestRow
  <2> HIDE DEF row
  <2> QED
    BY <1>0, <1>a, <1>b, <2>3, <2>4 DEF Filed
<1>6. ASSUME NEW p \in Player, NEW r \in RequestId, NEW q \in Player \cup {Nil},
             NEW a \in Amount, NEW f \in BOOLEAN, RequestTransfer(p, q, a, f, r)
      PROVE  FilesCashRequest
  <2> DEFINE bare == NewRequest("PLAYER_TRANSFER", p, ActualAmount(p, a, f))
             row == [bare EXCEPT !.target = q, !.original = a, !.fine = f]
  <2>1. a \in Nat
    BY InputAssumption
  <2>2. ActualAmount(p, a, f) \in Nat
    BY <2>1, ActualAmountType
  <2>3. Filed(bare, "PLAYER_TRANSFER", p, ActualAmount(p, a, f)) /\ bare.landing = Nil
    BY <1>0, <2>2, BareRequestFields
  <2>4. status = "PLAYING" /\ request[r].status = "NONE" /\ File(r, row) /\ UNCHANGED prop
    BY <1>6 DEF MayTransfer, RequestTransfer
  <2> HIDE DEF bare
  <2>5. Filed(row, "PLAYER_TRANSFER", p, ActualAmount(p, a, f)) /\ row.landing = Nil
    BY <2>1, <2>3 DEF Filed, RequestRow
  <2> HIDE DEF row
  <2> QED
    BY <1>0, <1>a, <1>b, <2>4, <2>5 DEF Filed
<1> QED
  BY <1>1, <1>2, <1>3, <1>4, <1>5, <1>6 DEF CashRequestStep

-----------------------------------------------------------------------------
(* Approving a request *)

\* The parties, amounts and property of a pending request are there.
LEMMA PartyType ==
  ASSUME TypeInv, NEW r \in RequestId, request[r].status = "PENDING"
  PROVE  /\ request[r] \in RequestRow
         /\ request[r].actor \in Player
         /\ request[r].amount \in Nat /\ request[r].count \in Nat
         /\ request[r].original \in Nat /\ request[r].fine \in BOOLEAN
         /\ request[r].type \in DeedRequest => prop[request[r].prop] \in Deed
<1>1. request[r] \in RequestRow /\ RowShape(request[r])
  BY DEF TypeInv, TypeOK, RequestShape
<1>2. request[r].actor \in Player
  BY <1>1 DEF RequestRow, RowShape
<1>3. request[r].type \in DeedRequest => prop[request[r].prop] \in Deed
  BY <1>1 DEF RequestRow, RowShape, TypeInv, TypeOK
<1> QED
  BY <1>1, <1>2, <1>3 DEF RequestRow

\* The changes approvals make to a deed leave a deed.
LEMMA DeedChange ==
  ASSUME NEW d \in Deed
  PROVE  /\ \A p \in Player \cup {Nil} : [d EXCEPT !.owner = p] \in Deed
         /\ \A k \in 0..5 : [d EXCEPT !.level = k] \in Deed
         /\ [d EXCEPT !.mortgaged = TRUE] \in Deed
         /\ [d EXCEPT !.mortgaged = FALSE] \in Deed
         /\ [d EXCEPT !.owner = Nil, !.mortgaged = FALSE] \in Deed
  BY DEF Deed

\* What a transaction records of a deed is a face of one.
LEMMA AfterType ==
  ASSUME NEW p \in Player \cup {Nil}
  PROVE  /\ After(p, 0, TRUE) \in Face /\ After(p, 0, FALSE) \in Face
         /\ \A k \in 0..5, b \in BOOLEAN : After(p, k, b) \in Face
  BY DEF After, Face

\* The approvals that change a deed.
ApproveDeed(r) ==
  \/ ApproveBuy(r) \/ ApproveBuild(r) \/ ApproveSellBuilding(r)
  \/ ApproveMortgage(r) \/ ApproveRedeem(r) \/ ApproveSellToBank(r)
  \/ ApproveTrade(r)

\* Deed e has the owner, level and mortgage of deed d.
SameFace(d, e) ==
  e.owner = d.owner /\ e.level = d.level /\ e.mortgaged = d.mortgaged

\* The step executes a pending property request; if the deed it found has the
\* shape of DeedShape, so has the deed it leaves, and the transaction records
\* the deed as it is left.
ExecutesDeed(r) ==
  /\ request[r].status = "PENDING" /\ request[r].type \in DeedRequest
  /\ \E delta \in [Player -> Int], deed \in Deed, after \in Face :
       /\ DeedShape => FaceShape(deed) /\ SameFace(deed, after)
       /\ ExecuteDeed(r, delta, deed, after)

\* That is what each of the seven approvals of a property request does.
LEMMA ApproveDeedEffect ==
  ASSUME TypeInv, NEW r \in RequestId,
         ApproveDeed(r)
  PROVE  ExecutesDeed(r)
<1> DEFINE q == request[r]
           d == prop[q.prop]
<1>0. ASSUME q.type \in DeedRequest, q.status = "PENDING"
      PROVE  /\ d \in Deed /\ q.actor \in Player /\ q.amount \in Nat /\ q.count \in Nat
             /\ q.target \in Player \cup {Nil}
             /\ q.type = "TRADE_PROPERTY" => q.target # Nil
             /\ (DeedShape => FaceShape(d))
  <2>1. q \in RequestRow /\ RowShape(q)
    BY DEF TypeInv, TypeOK, RequestShape
  <2>2. q.prop \in Property
    BY <1>0, <2>1 DEF RequestRow, RowShape
  <2>3. DeedShape => FaceShape(d)
    BY <2>2 DEF DeedShape, FaceShape
  <2> QED
    BY <1>0, <2>1, <2>3, PartyType DEF RequestRow, RowShape
<1>1. CASE ApproveBuy(r)
  <2>1. /\ q.type = "BUY_PROPERTY" /\ q.status = "PENDING"
        /\ d.owner = Nil
        /\ ExecuteDeed(r, Flow(q.actor, Nil, q.amount), [d EXCEPT !.owner = q.actor],
                       After(q.actor, d.level, FALSE))
    BY <1>1 DEF ApproveBuy, MayApprove
  <2>2. q.type \in DeedRequest
    BY <2>1 DEF DeedRequest
  <2>3. /\ d \in Deed /\ q.actor \in Player /\ q.amount \in Nat
        /\ q.target \in Player \cup {Nil} /\ (DeedShape => FaceShape(d)) /\ d.level \in 0..5
        /\ q.type = "TRADE_PROPERTY" => q.target # Nil
    BY <1>0, <2>1, <2>2 DEF Deed
  <2>4. Flow(q.actor, Nil, q.amount) \in [Player -> Int]
    BY <2>3, FlowType
  <2>5. [d EXCEPT !.owner = q.actor] \in Deed
    BY <2>3, DeedChange
  <2>6. After(q.actor, d.level, FALSE) \in Face
    BY <2>3, AfterType
  <2>7. DeedShape => FaceShape([d EXCEPT !.owner = q.actor])
                   /\ SameFace([d EXCEPT !.owner = q.actor], After(q.actor, d.level, FALSE))
    BY <2>1, <2>3, NilAssumption DEF FaceShape, SameFace, After, Deed
  <2> QED
    BY <2>1, <2>2, <2>4, <2>5, <2>6, <2>7 DEF ExecutesDeed
<1>2. CASE ApproveBuild(r)
  <2>1. /\ q.type = "BUILD_PROPERTY" /\ q.status = "PENDING"
        /\ d.owner = q.actor /\ ~d.mortgaged /\ d.level < 5
        /\ ExecuteDeed(r, Flow(q.actor, Nil, q.amount), [d EXCEPT !.level = @ + 1],
                       After(q.actor, d.level + 1, FALSE))
    BY <1>2 DEF ApproveBuild, MayApprove
  <2>2. q.type \in DeedRequest
    BY <2>1 DEF DeedRequest
  <2>3. /\ d \in Deed /\ q.actor \in Player /\ q.amount \in Nat
        /\ q.target \in Player \cup {Nil} /\ (DeedShape => FaceShape(d)) /\ d.level + 1 \in 0..5
        /\ q.type = "TRADE_PROPERTY" => q.target # Nil
    BY <1>0, <2>1, <2>2 DEF Deed
  <2>4. Flow(q.actor, Nil, q.amount) \in [Player -> Int]
    BY <2>3, FlowType
  <2>5. [d EXCEPT !.level = @ + 1] \in Deed
    BY <2>3, DeedChange
  <2>6. After(q.actor, d.level + 1, FALSE) \in Face
    BY <2>3, AfterType
  <2>7. DeedShape => FaceShape([d EXCEPT !.level = @ + 1])
                   /\ SameFace([d EXCEPT !.level = @ + 1], After(q.actor, d.level + 1, FALSE))
    BY <2>1, <2>3, NilAssumption DEF FaceShape, SameFace, After, Deed
  <2> QED
    BY <2>1, <2>2, <2>4, <2>5, <2>6, <2>7 DEF ExecutesDeed
<1>3. CASE ApproveSellBuilding(r)
  <2> DEFINE left == IF d.level = 5 THEN 0 ELSE d.level - q.count
  <2>1. /\ q.type = "SELL_BUILDING" /\ q.status = "PENDING"
        /\ d.owner = q.actor /\ left >= 0
        /\ ExecuteDeed(r, Flow(Nil, q.actor, q.amount), [d EXCEPT !.level = left],
                       After(q.actor, left, d.mortgaged))
    BY <1>3 DEF ApproveSellBuilding, MayApprove
  <2>2. q.type \in DeedRequest
    BY <2>1 DEF DeedRequest
  <2>3. /\ d \in Deed /\ q.actor \in Player /\ q.amount \in Nat /\ q.count \in Nat
        /\ (DeedShape => FaceShape(d))
    BY <1>0, <2>1, <2>2
  <2>4. left \in 0..5 /\ d.mortgaged \in BOOLEAN
    BY <2>1, <2>3 DEF Deed
  <2>5. d.level = 0 => left = 0
    BY <2>1, <2>3
  <2> HIDE DEF left
  <2>6. Flow(Nil, q.actor, q.amount) \in [Player -> Int]
    BY <2>3, FlowType
  <2>7. [d EXCEPT !.level = left] \in Deed
    BY <2>3, <2>4, DeedChange
  <2>8. After(q.actor, left, d.mortgaged) \in Face
    BY <2>3, <2>4, AfterType
  <2>9. DeedShape => FaceShape([d EXCEPT !.level = left])
                   /\ SameFace([d EXCEPT !.level = left], After(q.actor, left, d.mortgaged))
    BY <2>1, <2>3, <2>4, <2>5 DEF FaceShape, SameFace, After, Deed
  <2> QED
    BY <2>1, <2>2, <2>6, <2>7, <2>8, <2>9 DEF ExecutesDeed
<1>4. CASE ApproveMortgage(r)
  <2>1. /\ q.type = "MORTGAGE_PROPERTY" /\ q.status = "PENDING"
        /\ d.owner = q.actor /\ d.level = 0
        /\ ExecuteDeed(r, Flow(Nil, q.actor, q.amount), [d EXCEPT !.mortgaged = TRUE],
                       After(q.actor, 0, TRUE))
    BY <1>4 DEF ApproveMortgage, MayApprove
  <2>2. q.type \in DeedRequest
    BY <2>1 DEF DeedRequest
  <2>3. /\ d \in Deed /\ q.actor \in Player /\ q.amount \in Nat
        /\ q.target \in Player \cup {Nil} /\ (DeedShape => FaceShape(d))
        /\ q.type = "TRADE_PROPERTY" => q.target # Nil
    BY <1>0, <2>1, <2>2 DEF Deed
  <2>4. Flow(Nil, q.actor, q.amount) \in [Player -> Int]
    BY <2>3, FlowType
  <2>5. [d EXCEPT !.mortgaged = TRUE] \in Deed
    BY <2>3, DeedChange
  <2>6. After(q.actor, 0, TRUE) \in Face
    BY <2>3, AfterType
  <2>7. DeedShape => FaceShape([d EXCEPT !.mortgaged = TRUE])
                   /\ SameFace([d EXCEPT !.mortgaged = TRUE], After(q.actor, 0, TRUE))
    BY <2>1, <2>3, NilAssumption DEF FaceShape, SameFace, After, Deed
  <2> QED
    BY <2>1, <2>2, <2>4, <2>5, <2>6, <2>7 DEF ExecutesDeed
<1>5. CASE ApproveRedeem(r)
  <2>1. /\ q.type = "REDEEM_PROPERTY" /\ q.status = "PENDING"
        /\ d.owner = q.actor /\ d.mortgaged
        /\ ExecuteDeed(r, Flow(q.actor, Nil, q.amount), [d EXCEPT !.mortgaged = FALSE],
                       After(q.actor, 0, FALSE))
    BY <1>5 DEF ApproveRedeem, MayApprove
  <2>2. q.type \in DeedRequest
    BY <2>1 DEF DeedRequest
  <2>3. /\ d \in Deed /\ q.actor \in Player /\ q.amount \in Nat
        /\ q.target \in Player \cup {Nil} /\ (DeedShape => FaceShape(d))
        /\ q.type = "TRADE_PROPERTY" => q.target # Nil
    BY <1>0, <2>1, <2>2 DEF Deed
  <2>4. Flow(q.actor, Nil, q.amount) \in [Player -> Int]
    BY <2>3, FlowType
  <2>5. [d EXCEPT !.mortgaged = FALSE] \in Deed
    BY <2>3, DeedChange
  <2>6. After(q.actor, 0, FALSE) \in Face
    BY <2>3, AfterType
  <2>7. DeedShape => FaceShape([d EXCEPT !.mortgaged = FALSE])
                   /\ SameFace([d EXCEPT !.mortgaged = FALSE], After(q.actor, 0, FALSE))
    BY <2>1, <2>3, NilAssumption DEF FaceShape, SameFace, After, Deed
  <2> QED
    BY <2>1, <2>2, <2>4, <2>5, <2>6, <2>7 DEF ExecutesDeed
<1>6. CASE ApproveSellToBank(r)
  <2>1. /\ q.type = "SELL_PROPERTY_TO_BANK" /\ q.status = "PENDING"
        /\ d.level = 0
        /\ ExecuteDeed(r, Flow(Nil, q.actor, q.amount),
                       [d EXCEPT !.owner = Nil, !.mortgaged = FALSE],
                       After(Nil, 0, FALSE))
    BY <1>6 DEF ApproveSellToBank, MayApprove
  <2>2. q.type \in DeedRequest
    BY <2>1 DEF DeedRequest
  <2>3. /\ d \in Deed /\ q.actor \in Player /\ q.amount \in Nat
        /\ q.target \in Player \cup {Nil} /\ (DeedShape => FaceShape(d))
        /\ q.type = "TRADE_PROPERTY" => q.target # Nil
    BY <1>0, <2>1, <2>2 DEF Deed
  <2>4. Flow(Nil, q.actor, q.amount) \in [Player -> Int]
    BY <2>3, FlowType
  <2>5. [d EXCEPT !.owner = Nil, !.mortgaged = FALSE] \in Deed
    BY <2>3, DeedChange
  <2>6. After(Nil, 0, FALSE) \in Face
    BY <2>3, AfterType
  <2>7. DeedShape => FaceShape([d EXCEPT !.owner = Nil, !.mortgaged = FALSE])
                   /\ SameFace([d EXCEPT !.owner = Nil, !.mortgaged = FALSE], After(Nil, 0, FALSE))
    BY <2>1, <2>3, NilAssumption DEF FaceShape, SameFace, After, Deed
  <2> QED
    BY <2>1, <2>2, <2>4, <2>5, <2>6, <2>7 DEF ExecutesDeed
<1>7. CASE ApproveTrade(r)
  <2>1. /\ q.type = "TRADE_PROPERTY" /\ q.status = "PENDING"
        /\ d.level = 0 /\ ~d.mortgaged
        /\ ExecuteDeed(r, Flow(q.target, q.actor, q.amount), [d EXCEPT !.owner = q.target],
                       After(q.target, 0, FALSE))
    BY <1>7 DEF ApproveTrade, MayApprove
  <2>2. q.type \in DeedRequest
    BY <2>1 DEF DeedRequest
  <2>3. /\ d \in Deed /\ q.actor \in Player /\ q.amount \in Nat
        /\ q.target \in Player \cup {Nil} /\ (DeedShape => FaceShape(d))
        /\ q.type = "TRADE_PROPERTY" => q.target # Nil
    BY <1>0, <2>1, <2>2 DEF Deed
  <2>4. Flow(q.target, q.actor, q.amount) \in [Player -> Int]
    BY <2>3, FlowType
  <2>5. [d EXCEPT !.owner = q.target] \in Deed
    BY <2>3, DeedChange
  <2>6. After(q.target, 0, FALSE) \in Face
    BY <2>3, AfterType
  <2>7. DeedShape => FaceShape([d EXCEPT !.owner = q.target])
                   /\ SameFace([d EXCEPT !.owner = q.target], After(q.target, 0, FALSE))
    BY <2>1, <2>3, NilAssumption DEF FaceShape, SameFace, After, Deed
  <2> QED
    BY <2>1, <2>2, <2>4, <2>5, <2>6, <2>7 DEF ExecutesDeed
<1> QED
  BY <1>1, <1>2, <1>3, <1>4, <1>5, <1>6, <1>7 DEF ApproveDeed

\* The requests about no property.
CashTypes == {"START_REWARD", "BANK_PAYMENT", "PLAYER_TRANSFER", "COMPANION_EVENT",
              "RETURN_COMPANION_EVENT", "COLD_PALACE_EVENT", "PLOT_REST_EVENT",
              "CONSUME_SKIP_TURNS"}

\* Their approvals.
ApproveCash(r) ==
  \/ ApproveStartReward(r) \/ ApproveBankPayment(r) \/ ApproveTransfer(r)
  \/ ApproveCompanion(r) \/ ApproveReturnCompanion(r)
  \/ ApproveColdPalace(r) \/ ApprovePlotRest(r) \/ ApproveConsumeSkips(r)

\* The step executes a pending request and touches no property.
ExecutesPlainly(r) ==
  /\ request[r].status = "PENDING" /\ request[r].type \in CashTypes
  /\ UNCHANGED <<current, turn, prop>>
  /\ \E tx \in TransactionRow : Plain(tx) /\ tx.type # "TOLL" /\ Execute(r, tx)

\* That is what each of the eight other approvals does.
LEMMA ApproveCashEffect ==
  ASSUME TypeInv, NEW r \in RequestId, ApproveCash(r)
  PROVE  ExecutesPlainly(r)
<1> DEFINE q == request[r]
<1>0. /\ CashTypes \subseteq TransactionType
      /\ {"PLOT_FINE", "PLAYER_BANK_PAYMENT", "PLAYER_TRANSFER"} \subseteq TransactionType
  BY DEF CashTypes, TransactionType, RequestType
<1> USE DEF MayApprove, ExecuteCash, ExecutesPlainly, turnVars
<1>a. ASSUME NEW type \in TransactionType, NEW delta \in [Player -> Int],
             type # "TOLL",
             q.status = "PENDING", q.type \in CashTypes, UNCHANGED <<current, turn, prop>>,
             \/ Execute(r, Transaction(type, delta))
             \/ Execute(r, [Transaction(type, delta) EXCEPT !.reversible = FALSE])
      PROVE  ExecutesPlainly(r)
  BY <1>a, PlainTransaction
<1> HIDE DEF ExecutesPlainly
<1>1. CASE ApproveStartReward(r)
  <2>1. /\ q.status = "PENDING" /\ q.type = "START_REWARD"
        /\ UNCHANGED <<current, turn, prop>>
        /\ Execute(r, Transaction("START_REWARD", Flow(Nil, q.actor, q.amount)))
    BY <1>1 DEF ApproveStartReward
  <2>2. Flow(Nil, q.actor, q.amount) \in [Player -> Int]
    BY <2>1, PartyType, FlowType
  <2> QED
    BY <1>0, <1>a, <2>1, <2>2 DEF CashTypes
<1>2. CASE ApproveBankPayment(r)
  <2>1. /\ q.status = "PENDING" /\ q.type = "BANK_PAYMENT"
        /\ UNCHANGED <<current, turn, prop>>
        /\ Execute(r, Transaction("BANK_PAYMENT", Flow(Nil, q.target, q.amount)))
    BY <1>2 DEF ApproveBankPayment
  <2>2. Flow(Nil, q.target, q.amount) \in [Player -> Int]
    BY <2>1, PartyType, FlowType
  <2> QED
    BY <1>0, <1>a, <2>1, <2>2 DEF CashTypes
<1>3. CASE ApproveTransfer(r)
  <2> DEFINE delta == Flow(q.actor, q.target, ActualAmount(q.actor, q.original, q.fine))
  <2>1. /\ q.status = "PENDING" /\ q.type = "PLAYER_TRANSFER"
        /\ UNCHANGED <<current, turn, prop>>
        /\ Execute(r, Transaction(TransferType(q.target, q.fine), delta))
    BY <1>3 DEF ApproveTransfer
  <2>2. q.original \in Nat /\ q.fine \in BOOLEAN
    BY <2>1, PartyType
  <2>3. ActualAmount(q.actor, q.original, q.fine) \in Int
    BY <2>2, ActualAmountType
  <2>4. delta \in [Player -> Int]
    BY <2>3, FlowType
  <2>5. TransferType(q.target, q.fine) \in TransactionType \ {"TOLL"}
    BY <1>0, <2>2 DEF TransferType
  <2> QED
    BY <1>a, <2>1, <2>4, <2>5 DEF CashTypes
<1>4. CASE ApproveCompanion(r)
  <2> DEFINE delta == Flow(Nil, q.actor, SkillBonus(q.actor, "COMPANION_REWARD",
                                                    SkillConfig.companionReward))
  <2>1. /\ q.status = "PENDING" /\ q.type = "COMPANION_EVENT"
        /\ UNCHANGED <<current, turn, prop>>
        /\ Execute(r, [Transaction("COMPANION_EVENT", delta) EXCEPT !.reversible = FALSE])
    BY <1>4 DEF ApproveCompanion
  <2>2. delta \in [Player -> Int]
    BY SkillNumbers, FlowType
  <2> QED
    BY <1>0, <1>a, <2>1, <2>2 DEF CashTypes
<1>5. CASE ApproveReturnCompanion(r)
  <2> DEFINE delta == Flow(Nil, q.actor, ReturnCompanionReward)
  <2>1. /\ q.status = "PENDING" /\ q.type = "RETURN_COMPANION_EVENT"
        /\ UNCHANGED <<current, turn, prop>>
        /\ Execute(r, [Transaction("RETURN_COMPANION_EVENT", delta) EXCEPT !.reversible = FALSE])
    BY <1>5 DEF ApproveReturnCompanion
  <2>2. delta \in [Player -> Int]
    BY FlowType DEF ReturnCompanionReward
  <2> QED
    BY <1>0, <1>a, <2>1, <2>2 DEF CashTypes
<1>6. CASE ApproveColdPalace(r)
  <2> DEFINE delta == Flow(Nil, q.actor, PalaceReward(q.actor))
  <2>1. /\ q.status = "PENDING" /\ q.type = "COLD_PALACE_EVENT"
        /\ UNCHANGED <<current, turn, prop>>
        /\ Execute(r, [Transaction("COLD_PALACE_EVENT", delta) EXCEPT !.reversible = FALSE])
    BY <1>6 DEF ApproveColdPalace
  <2>2. delta \in [Player -> Int]
    BY SkillNumbers, FlowType
  <2> QED
    BY <1>0, <1>a, <2>1, <2>2 DEF CashTypes
<1>7. CASE ApprovePlotRest(r)
  <2>1. /\ q.status = "PENDING" /\ q.type = "PLOT_REST_EVENT"
        /\ UNCHANGED <<current, turn, prop>>
        /\ Execute(r, Transaction("PLOT_REST_EVENT", NoDelta))
    BY <1>7 DEF ApprovePlotRest
  <2>2. NoDelta \in [Player -> Int]
    BY DEF NoDelta
  <2> QED
    BY <1>0, <1>a, <2>1, <2>2 DEF CashTypes
<1>8. CASE ApproveConsumeSkips(r)
  <2>1. /\ q.status = "PENDING" /\ q.type = "CONSUME_SKIP_TURNS"
        /\ UNCHANGED <<current, turn, prop>>
        /\ Execute(r, Transaction("CONSUME_SKIP_TURNS", NoDelta))
    BY <1>8 DEF ApproveConsumeSkips
  <2>2. NoDelta \in [Player -> Int]
    BY DEF NoDelta
  <2> QED
    BY <1>0, <1>a, <2>1, <2>2 DEF CashTypes
<1> QED
  BY <1>1, <1>2, <1>3, <1>4, <1>5, <1>6, <1>7, <1>8 DEF ApproveCash

-----------------------------------------------------------------------------
(* Steps of the bank and the players that only move cash *)

\* The step commits at most one transaction, of no request and about no
\* property.
MovesCash ==
  /\ UNCHANGED <<roomVars, current, turn, prop, landing, request>>
  /\ \/ UNCHANGED <<moneyVars, settled>>
     \/ \E tx \in TransactionRow :
          /\ Plain(tx) /\ tx.request = Nil /\ Commit(tx)
          /\ \/ tx.type # "TOLL" /\ UNCHANGED settled
             \/ \E p \in Player, o \in Property : PayToll(p, o)

\* That is what transfers, tolls, corrections, fines and added skip turns do.
LEMMA MovesCashEffect ==
  ASSUME TypeInv,
         \/ \E p \in Player, q \in Player \cup {Nil}, a \in Amount, f \in BOOLEAN :
              TransferNow(p, q, a, f)
         \/ \E p \in Player, o \in Property : PayToll(p, o)
         \/ \E p \in Player, a \in Correction : AdjustBalance(p, a)
         \/ \E p \in Player, a \in Amount : PlotFine(p, a)
         \/ \E p \in Player, n \in Count, palace \in BOOLEAN : AddSkipTurns(p, n, palace)
  PROVE  MovesCash
<1>0. /\ {"PLOT_FINE", "PLAYER_BANK_PAYMENT", "PLAYER_TRANSFER", "TOLL",
           "MANUAL_BALANCE_CHANGE", "COLD_PALACE_EVENT"} \subseteq TransactionType
      /\ Amount \subseteq Nat /\ Correction \subseteq Int
  BY InputAssumption DEF TransactionType, RequestType
<1>a. ASSUME NEW type \in TransactionType, NEW delta \in [Player -> Int],
             type # "TOLL", Commit(Transaction(type, delta)),
             UNCHANGED <<roomVars, current, turn, prop, landing, request, settled>>
      PROVE  MovesCash
  <2>1. Transaction(type, delta).request = Nil
    BY DEF Transaction
  <2> QED
    BY <1>a, <2>1, PlainTransaction DEF MovesCash
<1>1. ASSUME NEW p \in Player, NEW q \in Player \cup {Nil}, NEW a \in Amount,
             NEW f \in BOOLEAN, TransferNow(p, q, a, f)
      PROVE  MovesCash
  <2> DEFINE delta == Flow(p, q, ActualAmount(p, a, f))
  <2>1. /\ Commit(Transaction(TransferType(q, f), delta))
        /\ UNCHANGED <<roomVars, current, turn, prop, landing, request, settled>>
    BY <1>1 DEF TransferNow, turnVars
  <2>2. ActualAmount(p, a, f) \in Int
    BY <1>0, ActualAmountType
  <2>3. delta \in [Player -> Int]
    BY <2>2, FlowType
  <2>4. TransferType(q, f) \in TransactionType \ {"TOLL"}
    BY <1>0 DEF TransferType
  <2> QED
    BY <1>a, <2>1, <2>3, <2>4
<1>2. ASSUME NEW p \in Player, NEW o \in Property, PayToll(p, o) PROVE MovesCash
  <2> DEFINE tx == Transaction("TOLL", Flow(p, prop[o].owner, TollAmount(o)))
  <2>1. PICK l \in LandingId : Commit([tx EXCEPT !.landing = l])
    BY <1>2 DEF PayToll
  <2>2. TollAmount(o) \in Int
    BY TollAmountType
  <2>3. Flow(p, prop[o].owner, TollAmount(o)) \in [Player -> Int]
    BY <2>2, FlowType
  <2>4. tx \in TransactionRow /\ Plain(tx)
    BY <1>0, <2>3, PlainTransaction
  <2>5. tx.request = Nil
    BY DEF Transaction
  <2> HIDE DEF tx
  <2>6. /\ [tx EXCEPT !.landing = l] \in TransactionRow
        /\ Plain([tx EXCEPT !.landing = l])
        /\ [tx EXCEPT !.landing = l].request = Nil
    BY <2>4, <2>5 DEF TransactionRow, Plain
  <2> QED
    BY <1>2, <2>1, <2>6 DEF MovesCash, PayToll, turnVars
<1>3. ASSUME NEW p \in Player, NEW a \in Correction, AdjustBalance(p, a) PROVE MovesCash
  <2>1. /\ Commit(Transaction("MANUAL_BALANCE_CHANGE", Flow(Nil, p, a)))
        /\ UNCHANGED <<roomVars, current, turn, prop, landing, request, settled>>
    BY <1>3 DEF AdjustBalance, turnVars
  <2>2. Flow(Nil, p, a) \in [Player -> Int]
    BY <1>0, FlowType
  <2> QED
    BY <1>0, <1>a, <2>1, <2>2
<1>4. ASSUME NEW p \in Player, NEW a \in Amount, PlotFine(p, a) PROVE MovesCash
  <2>1. /\ Commit(Transaction("PLOT_FINE", Flow(p, Nil, ActualAmount(p, a, TRUE))))
        /\ UNCHANGED <<roomVars, current, turn, prop, landing, request, settled>>
    BY <1>4 DEF PlotFine, turnVars
  <2>2. Flow(p, Nil, ActualAmount(p, a, TRUE)) \in [Player -> Int]
    <3>1. a \in Nat /\ TRUE \in BOOLEAN
      BY <1>0
    <3>2. ActualAmount(p, a, TRUE) \in Int
      BY <3>1, FineAmountType
    <3> QED
      BY <3>2, FlowType
  <2> QED
    BY <1>0, <1>a, <2>1, <2>2
<1>5. ASSUME NEW p \in Player, NEW n \in Count, NEW palace \in BOOLEAN,
             AddSkipTurns(p, n, palace)
      PROVE  MovesCash
  <2>1. /\ \/ Commit(Transaction("COLD_PALACE_EVENT", Flow(Nil, p, PalaceReward(p))))
           \/ UNCHANGED moneyVars
        /\ UNCHANGED <<roomVars, current, turn, prop, landing, request, settled>>
    BY <1>5 DEF AddSkipTurns
  <2>2. Flow(Nil, p, PalaceReward(p)) \in [Player -> Int]
    BY SkillNumbers, FlowType
  <2>3. CASE UNCHANGED moneyVars
    BY <2>1, <2>3 DEF MovesCash
  <2> QED
    BY <1>0, <1>a, <2>1, <2>2, <2>3
<1> QED
  BY <1>1, <1>2, <1>3, <1>4, <1>5

-----------------------------------------------------------------------------
(* Type correctness                                                        *)

\* Every column has its type when the room is created.
LEMMA InitTypeOK == Init => TypeOK
<1> SUFFICES ASSUME Init PROVE TypeOK
  OBVIOUS
<1>1. prop \in [Property -> Deed]
  <2>1. \A o \in Property : InitialOwner[o] \in Player \cup {Nil}
    BY SetupAssumption, PlayerAssumption
  <2>2. \A o \in Property : [owner |-> InitialOwner[o], level |-> 0, mortgaged |-> FALSE,
                            lock |-> Nil, version |-> 0] \in Deed
    BY <2>1 DEF Deed
  <2> QED
    BY <2>2 DEF Init
<1>2. /\ landing \in [LandingId -> LandingRow]
      /\ request \in [RequestId -> RequestRow]
  BY NoRowTypes DEF Init
<1>3. /\ turn \in Seq(TurnRow)
      /\ log \in Seq(TransactionRow)
      /\ skip \in [Player -> Seq(BOOLEAN)]
  BY DEF Init
<1>4. /\ owed \in [Player -> Nat]
      /\ balance \in [Player -> Nat]
      /\ settled \in [LandingId -> Nat]
  BY SetupAssumption DEF Init
<1> QED
  BY <1>1, <1>2, <1>3, <1>4, PlayerAssumption DEF Init, TypeOK

\* A function on the indices of a sequence is a sequence as long.
LEMMA FunctionIsSeq ==
  ASSUME NEW S, NEW s \in Seq(S), NEW f \in [DOMAIN s -> S]
  PROVE  f \in Seq(S) /\ Len(f) = Len(s)
  OBVIOUS

\* Ending, rolling or unrolling an active turn leaves turn rows.
LEMMA TurnRowChange ==
  ASSUME TypeOK, NEW n \in ActiveTurns
  PROVE  /\ [turn EXCEPT ![n].status = "ENDED"] \in Seq(TurnRow)
         /\ \A b \in BOOLEAN : [turn EXCEPT ![n].rolled = b] \in Seq(TurnRow)
<1>1. turn \in Seq(TurnRow) /\ n \in 1 .. Len(turn) /\ turn[n] \in TurnRow
  BY DEF TypeOK, ActiveTurns
<1>2. /\ [turn[n] EXCEPT !.status = "ENDED"] \in TurnRow
      /\ \A b \in BOOLEAN : [turn[n] EXCEPT !.rolled = b] \in TurnRow
  BY <1>1 DEF TurnRow
<1>3. \A e \in TurnRow : [turn EXCEPT ![n] = e] \in Seq(TurnRow)
  BY <1>1, ExceptSeq
<1> QED
  BY <1>2, <1>3

\* The log stays a log when endTurn() makes its tolls irreversible.
LEMMA FrozenType ==
  ASSUME TypeOK, NEW L
  PROVE  Frozen(L) \in Seq(TransactionRow)
<1>1. \A i \in DOMAIN log : log[i] \in TransactionRow
  BY DEF TypeOK
<1>2. \A t \in TransactionRow : [t EXCEPT !.reversible = FALSE] \in TransactionRow
  BY DEF TransactionRow
<1>3. Frozen(L) \in [DOMAIN log -> TransactionRow]
  BY <1>1, <1>2 DEF Frozen
<1> QED
  BY <1>3, FunctionIsSeq DEF TypeOK

\* A committed transaction leaves no negative balance and a typed log.
LEMMA CommitType ==
  ASSUME TypeOK, NEW tx \in TransactionRow, Commit(tx)
  PROVE  /\ balance' \in [Player -> Nat]
         /\ log' \in Seq(TransactionRow)
  BY DEF TypeOK, Commit, Affordable, ApplyToBalances, TransactionRow

\* Unlocking leaves deeds.
LEMMA UnlockedType ==
  ASSUME TypeOK, NEW S
  PROVE  Unlocked(S) \in [Property -> Deed]
  BY DEF TypeOK, Unlocked, Deed

\* Cancelling leaves requests.
LEMMA CancelledType ==
  ASSUME TypeOK, NEW S
  PROVE  Cancelled(S) \in [RequestId -> RequestRow]
<1>1. \A r \in RequestId : request[r] \in RequestRow
  BY DEF TypeOK
<1>2. ASSUME NEW q \in RequestRow
      PROVE  [q EXCEPT !.status = "CANCELLED"] \in RequestRow
  BY DEF RequestRow
<1> QED
  BY <1>1, <1>2 DEF Cancelled

\* Closing or invalidating landings leaves landings.
LEMMA WithStatusType ==
  ASSUME TypeOK, NEW L, NEW s \in {"CLOSED", "INVALIDATED"}
  PROVE  WithStatus(L, s) \in [LandingId -> LandingRow]
  BY DEF TypeOK, WithStatus, LandingRow

\* A fresh landing is a landing row.
LEMMA NewLandingType ==
  ASSUME NEW p \in Player, NEW o \in Property \cup {Nil}, NEW n \in Nat,
         NEW s \in {"DECLARED", "CONFIRMED"}
  PROVE  NewLanding(p, o, n, s) \in LandingRow
  BY DEF NewLanding, LandingRow

\* Advancing the physical landings of a player leaves landings.
LEMMA AdvancedLandingsType ==
  ASSUME TypeOK, NEW p
  PROVE  AdvancedLandings(p) \in [LandingId -> LandingRow]
  BY DEF TypeOK, AdvancedLandings, LandingRow

-----------------------------------------------------------------------------
(* Skip turns and the walk to the next turn *)

\* Owing more turns keeps counter and entries equal.
LEMMA OweType ==
  ASSUME TypeOK, SkipCounterMatches, NEW p \in Player, NEW n \in Nat,
         NEW b \in BOOLEAN, Owe(p, n, b)
  PROVE  /\ owed' \in [Player -> Nat]
         /\ skip' \in [Player -> Seq(BOOLEAN)]
         /\ SkipCounterMatches'
<1>1. [i \in 1..n |-> b] \in Seq(BOOLEAN) /\ Len([i \in 1..n |-> b]) = n
  OBVIOUS
<1>2. /\ skip[p] \in Seq(BOOLEAN)
      /\ skip' = [skip EXCEPT ![p] = skip[p] \o [i \in 1..n |-> b]]
      /\ owed' = [owed EXCEPT ![p] = owed[p] + n]
  BY DEF TypeOK, Owe
<1>3. /\ skip[p] \o [i \in 1..n |-> b] \in Seq(BOOLEAN)
      /\ Len(skip[p] \o [i \in 1..n |-> b]) = Len(skip[p]) + n
  BY <1>1, <1>2
<1>4. /\ owed \in [Player -> Nat]
      /\ skip \in [Player -> Seq(BOOLEAN)]
      /\ \A q \in Player : owed[q] = Len(skip[q])
  BY DEF TypeOK, SkipCounterMatches
<1>5. owed' \in [Player -> Nat]
  BY <1>2, <1>4
<1>6. skip' \in [Player -> Seq(BOOLEAN)]
  BY <1>2, <1>3, <1>4
<1>7. ASSUME NEW q \in Player PROVE owed'[q] = Len(skip'[q])
  <2>1. CASE q = p
    BY <2>1, <1>2, <1>3, <1>4
  <2>2. CASE q # p
    BY <2>2, <1>2, <1>4
  <2> QED
    BY <2>1, <2>2
<1> QED
  BY <1>5, <1>6, <1>7 DEF SkipCounterMatches

\* Serving owed turns keeps counter and entries equal.
LEMMA ConsumeType ==
  ASSUME TypeOK, SkipCounterMatches, NEW p \in Player, NEW n \in Nat, Consume(p, n)
  PROVE  /\ owed' \in [Player -> Nat]
         /\ skip' \in [Player -> Seq(BOOLEAN)]
         /\ SkipCounterMatches'
  BY DEF TypeOK, Consume, SkipCounterMatches

\* The playable seats are finitely many.
LEMMA SeatsType ==
  ASSUME TypeOK
  PROVE  Seats \in Nat /\ IsFiniteSet(playable)
  BY PlayerAssumption, FS_Subset, FS_CardinalityType DEF TypeOK, Seats

\* Every stop of the walk is a player.
LEMMA StopType ==
  ASSUME TypeOK, NEW players \in PlayersInOrder, NEW k \in Nat, Seats > 0
  PROVE  players[k % Seats] \in Player
<1>1. k % Seats \in 0 .. Seats - 1
  BY SeatsType
<1> QED
  BY <1>1 DEF PlayersInOrder, TypeOK

\* The visits to a seat are counted by a natural number.
LEMMA VisitsType ==
  ASSUME TypeOK, NEW players, NEW from \in Nat, NEW q, NEW k \in Nat
  PROVE  Visits(players, from, q, k) \in Nat
<1>1. IsFiniteSet(0 .. k - 1)
  BY FS_Interval
<1>2. IsFiniteSet({i \in 0 .. k - 1 : players[(from + i) % Seats] = q})
  BY <1>1, FS_Subset
<1> QED
  BY <1>2, FS_CardinalityType DEF Visits

\* The walk to the next actionable turn keeps the types, and takes as many
\* skip entries as it takes off the counter.
LEMMA WalkType ==
  ASSUME TypeOK, BoundAssumption,
         NEW players \in PlayersInOrder, NEW from \in Nat, Seats > 0,
         NEW rows \in Seq(TurnRow), NEW owes \in [Player -> Nat],
         NEW units \in [Player -> Seq(BOOLEAN)],
         \A q \in Player : owes[q] = Len(units[q]),
         NextActionableTurn(players, from, rows, owes, units)
  PROVE  /\ turn' \in Seq(TurnRow)
         /\ owed' \in [Player -> Nat]
         /\ skip' \in [Player -> Seq(BOOLEAN)]
         /\ current' \in Player
         /\ SkipCounterMatches'
<1> DEFINE at(k) == players[(from + k) % Seats]
           taken(q, k) == Visits(players, from, q, k)
<1>1. PICK steps \in 0 .. MaxTurn :
        /\ \A q \in Player : taken(q, steps) <= Len(units[q])
        /\ owed' = [q \in Player |-> owes[q] - taken(q, steps)]
        /\ skip' = [q \in Player |->
                      SubSeq(units[q], taken(q, steps) + 1, Len(units[q]))]
        /\ turn' = rows
             \o [k \in 1..steps |-> [player |-> at(k - 1),
                                     status |-> "ENDED", rolled |-> FALSE]]
             \o << [player |-> at(steps), status |-> "ACTIVE", rolled |-> FALSE] >>
        /\ current' = at(steps)
  BY DEF NextActionableTurn
<1>2. \A k \in Nat : at(k) \in Player
  <2> TAKE k \in Nat
  <2> QED
    BY StopType
<1>3. \A q \in Player : taken(q, steps) \in Nat
  BY VisitsType, BoundAssumption
<1> HIDE DEF at, taken
<1>4. steps \in Nat
  BY BoundAssumption
<1>5. turn' \in Seq(TurnRow)
  <2>1. [k \in 1..steps |-> [player |-> at(k - 1), status |-> "ENDED", rolled |-> FALSE]]
          \in Seq(TurnRow)
    BY <1>2, <1>4 DEF TurnRow
  <2>2. << [player |-> at(steps), status |-> "ACTIVE", rolled |-> FALSE] >> \in Seq(TurnRow)
    BY <1>2, <1>4 DEF TurnRow
  <2> QED
    BY <1>1, <2>1, <2>2
<1>6. ASSUME NEW q \in Player
      PROVE  /\ owed'[q] \in Nat
             /\ skip'[q] \in Seq(BOOLEAN)
             /\ owed'[q] = Len(skip'[q])
  <2> DEFINE n == taken(q, steps)
             u == units[q]
  <2>1. n \in Nat /\ n <= Len(u) /\ u \in Seq(BOOLEAN) /\ owes[q] = Len(u)
    BY <1>1, <1>3
  <2>2. owed'[q] = Len(u) - n /\ skip'[q] = SubSeq(u, n + 1, Len(u))
    BY <1>1, <2>1
  <2> HIDE DEF n, u
  <2>3. Len(u) \in Nat
    BY <2>1
  <2>4. SubSeq(u, n + 1, Len(u)) \in Seq(BOOLEAN)
    BY <2>1, <2>3, SubSeqProperties
  <2>5. Len(SubSeq(u, n + 1, Len(u))) = Len(u) - n
    BY <2>1, <2>3, SubSeqProperties
  <2> QED
    BY <2>1, <2>2, <2>3, <2>4, <2>5
<1>7. owed' \in [Player -> Nat] /\ skip' \in [Player -> Seq(BOOLEAN)]
  BY <1>1, <1>6
<1> QED
  BY <1>1, <1>2, <1>4, <1>5, <1>6, <1>7 DEF SkipCounterMatches

\* Ending a turn and walking on keeps the types.
LEMMA PassOnType ==
  ASSUME TypeOK, NEW n \in ActiveTurns, NEW p,
         NEW owes \in [Player -> Nat], NEW units \in [Player -> Seq(BOOLEAN)],
         \A q \in Player : owes[q] = Len(units[q]),
         PassOn(n, p, owes, units)
  PROVE  /\ turn' \in Seq(TurnRow)
         /\ owed' \in [Player -> Nat]
         /\ skip' \in [Player -> Seq(BOOLEAN)]
         /\ current' \in Player
         /\ SkipCounterMatches'
<1>1. PICK players \in PlayersInOrder, i \in 0 .. Seats - 1 :
        NextActionableTurn(players, i + 1, [turn EXCEPT ![n].status = "ENDED"],
                           owes, units)
  BY DEF PassOn
<1>2. Seats > 0 /\ i + 1 \in Nat
  BY SeatsType
<1>3. [turn EXCEPT ![n].status = "ENDED"] \in Seq(TurnRow)
  BY TurnRowChange
<1> QED
  BY <1>1, <1>2, <1>3, WalkType, BoundAssumption

-----------------------------------------------------------------------------
(* Turn commands *)

\* Cancelling pending requests keeps deeds, requests and their shape.
LEMMA CancelRequestsType ==
  ASSUME TypeInv, NEW S \in SUBSET Pending, CancelRequests(S)
  PROVE  /\ prop' \in [Property -> Deed]
         /\ request' \in [RequestId -> RequestRow]
         /\ RequestShape'
<1>1. \A r \in RequestId : request[r] \in RequestRow
  BY DEF TypeInv, TypeOK
<1>2. ASSUME NEW r \in RequestId PROVE RowShape(Cancelled(S)[r])
  BY <1>1 DEF TypeInv, RequestShape, RowShape, Cancelled, Pending, RequestRow
<1> QED
  BY <1>2, UnlockedType, CancelledType DEF CancelRequests, RequestShape, TypeInv

\* The turn commands keep TypeInv.
LEMMA TurnStepType ==
  ASSUME TypeInv, TurnStep
  PROVE  TypeInv'
<1> USE DEF TypeInv
<1>1. CASE Start
  <2>1. CASE DiceMode = "ELECTRONIC"
    <3>1. PICK players \in PlayersInOrder :
            NextActionableTurn(players, 0, <<>>, owed, skip)
      BY <1>1, <2>1 DEF Start
    <3>2. Seats > 0
      BY <1>1, SeatsType DEF Start
    <3>3. /\ <<>> \in Seq(TurnRow)
          /\ owed \in [Player -> Nat]
          /\ skip \in [Player -> Seq(BOOLEAN)]
          /\ \A q \in Player : owed[q] = Len(skip[q])
      BY DEF TypeOK, SkipCounterMatches
    <3>4. /\ turn' \in Seq(TurnRow)
          /\ owed' \in [Player -> Nat]
          /\ skip' \in [Player -> Seq(BOOLEAN)]
          /\ current' \in Player
          /\ SkipCounterMatches'
      BY <3>1, <3>2, <3>3, WalkType, BoundAssumption
    <3> QED
      BY <1>1, <3>4 DEF Start, TypeOK, RequestShape, moneyVars
  <2>2. CASE DiceMode # "ELECTRONIC"
    BY <1>1, <2>2 DEF Start, TypeOK, SkipCounterMatches, RequestShape, turnVars, moneyVars
  <2> QED
    BY <2>1, <2>2
<1>2. ASSUME NEW p \in Player, Roll(p) PROVE TypeInv'
  <2>1. turn' \in Seq(TurnRow)
    <3>1. PICK n \in ActiveTurns : turn' = [turn EXCEPT ![n].rolled = TRUE]
      BY <1>2 DEF Roll
    <3> QED
      BY <3>1, TurnRowChange
  <2> QED
    BY <1>2, <2>1 DEF Roll, TypeOK, SkipCounterMatches, RequestShape, roomVars, moneyVars
<1>3. ASSUME NEW p \in Player, EndTurn(p) PROVE TypeInv'
  <2>1. PICK n \in ActiveTurns :
          /\ log' = Frozen(TollLandings(n, p))
          /\ CancelRequests(PendingOfTurn(n))
          /\ PassOn(n, p, owed, skip)
    BY <1>3 DEF EndTurn
  <2>2. log' \in Seq(TransactionRow)
    BY <2>1, FrozenType
  <2>3. /\ prop' \in [Property -> Deed]
        /\ request' \in [RequestId -> RequestRow]
        /\ RequestShape'
    BY <2>1, CancelRequestsType DEF PendingOfTurn
  <2>4. /\ turn' \in Seq(TurnRow)
        /\ owed' \in [Player -> Nat]
        /\ skip' \in [Player -> Seq(BOOLEAN)]
        /\ current' \in Player
        /\ SkipCounterMatches'
    BY <2>1, PassOnType DEF TypeOK, SkipCounterMatches
  <2> QED
    BY <1>3, <2>2, <2>3, <2>4 DEF EndTurn, TypeOK, roomVars
<1>4. ASSUME NEW p \in Player, SkipTurn(p) PROVE TypeInv'
  <2> DEFINE owes == [owed EXCEPT ![p] = @ - 1]
             units == [skip EXCEPT ![p] = Tail(@)]
  <2>1. PICK n \in ActiveTurns : PassOn(n, p, owes, units)
    BY <1>4 DEF SkipTurn
  <2>2. /\ owed \in [Player -> Nat]
        /\ skip \in [Player -> Seq(BOOLEAN)]
        /\ \A q \in Player : owed[q] = Len(skip[q])
        /\ skip[p] # <<>>
    BY <1>4 DEF SkipTurn, TypeOK, SkipCounterMatches
  <2>3. Tail(skip[p]) \in Seq(BOOLEAN) /\ Len(Tail(skip[p])) = Len(skip[p]) - 1
    BY <2>2
  <2>4. owes \in [Player -> Nat]
    BY <1>4, <2>2 DEF SkipTurn
  <2>5. units \in [Player -> Seq(BOOLEAN)]
    BY <2>2, <2>3
  <2>6. \A q \in Player : owes[q] = Len(units[q])
    BY <2>2, <2>3
  <2> HIDE DEF owes, units
  <2>7. /\ turn' \in Seq(TurnRow)
        /\ owed' \in [Player -> Nat]
        /\ skip' \in [Player -> Seq(BOOLEAN)]
        /\ current' \in Player
        /\ SkipCounterMatches'
    BY <2>1, <2>4, <2>5, <2>6, PassOnType
  <2> QED
    BY <1>4, <2>7 DEF SkipTurn, TypeOK, RequestShape, roomVars, moneyVars
<1>5. CASE ForceNext
  <2>1. PICK n \in ActiveTurns :
          /\ CancelRequests(PendingOfTurn(n))
          /\ PassOn(n, turn[n].player, owed, skip)
    BY <1>5 DEF ForceNext
  <2>2. /\ prop' \in [Property -> Deed]
        /\ request' \in [RequestId -> RequestRow]
        /\ RequestShape'
    BY <2>1, CancelRequestsType DEF PendingOfTurn
  <2>3. /\ turn' \in Seq(TurnRow)
        /\ owed' \in [Player -> Nat]
        /\ skip' \in [Player -> Seq(BOOLEAN)]
        /\ current' \in Player
        /\ SkipCounterMatches'
    BY <2>1, PassOnType DEF TypeOK, SkipCounterMatches
  <2> QED
    BY <1>5, <2>2, <2>3 DEF ForceNext, TypeOK, roomVars, moneyVars
<1>6. CASE InvalidateRoll
  <2>1. PICK n \in ActiveTurns :
          /\ CancelRequests(PendingOfTurn(n))
          /\ landing' = WithStatus(LandingsOf(n, {"DECLARED", "CONFIRMED"}), "INVALIDATED")
          /\ turn' = [turn EXCEPT ![n].rolled = FALSE]
    BY <1>6 DEF InvalidateRoll
  <2>2. /\ prop' \in [Property -> Deed]
        /\ request' \in [RequestId -> RequestRow]
        /\ RequestShape'
    BY <2>1, CancelRequestsType DEF PendingOfTurn
  <2>3. turn' \in Seq(TurnRow) /\ landing' \in [LandingId -> LandingRow]
    BY <2>1, WithStatusType, TurnRowChange
  <2> QED
    BY <1>6, <2>2, <2>3 DEF InvalidateRoll, TypeOK, SkipCounterMatches, roomVars, moneyVars
<1> QED
  BY <1>1, <1>2, <1>3, <1>4, <1>5, <1>6 DEF TurnStep

-----------------------------------------------------------------------------
(* Landing and filing commands *)

\* Filing one more request keeps the types and shapes of all.
LEMMA FileType ==
  ASSUME TypeInv, NEW r \in RequestId, NEW row \in RequestRow, RowShape(row),
         NEW req \in [RequestId -> RequestRow], \A q \in RequestId : RowShape(req[q])
  PROVE  /\ [req EXCEPT ![r] = row] \in [RequestId -> RequestRow]
         /\ \A q \in RequestId : RowShape([req EXCEPT ![r] = row][q])
  OBVIOUS

\* Cancelled requests keep their shape.
LEMMA CancelledShape ==
  ASSUME TypeInv, NEW S \in SUBSET Pending
  PROVE  \A r \in RequestId : RowShape(Cancelled(S)[r])
<1>1. \A r \in RequestId : request[r] \in RequestRow
  BY DEF TypeInv, TypeOK
<1> QED
  BY <1>1 DEF TypeInv, RequestShape, RowShape, Cancelled, Pending, RequestRow

\* The start reward filed with a START landing is a well-shaped request.
LEMMA StartRewardRequestType ==
  ASSUME NEW p \in Player, NEW l \in LandingId, NEW n \in Nat
  PROVE  /\ StartRewardRequest(p, l, n) \in RequestRow
         /\ RowShape(StartRewardRequest(p, l, n))
<1>1. StartRewardRequest(p, l, n) \in RequestRow
  BY NoRowTypes, PriceAssumption DEF StartRewardRequest, RequestRow, RequestType
<1>2. RowShape(StartRewardRequest(p, l, n))
  BY NilAssumption DEF StartRewardRequest, NoRequest, RowShape, DeedRequest
<1> QED
  BY <1>1, <1>2

\* The landing commands keep TypeInv.
LEMMA LandingStepType ==
  ASSUME TypeInv, LandingStep
  PROVE  TypeInv'
<1> USE DEF TypeInv
<1>1. ASSUME NEW l \in LandingId, NEW p \in Player, NEW o \in Property,
             DeclareLandingOnTurn(p, o, l)
      PROVE  TypeInv'
  <2>1. PICK n \in DOMAIN turn :
          landing' = [WithStatus(LandingsOf(n, {"DECLARED"}), "INVALIDATED")
                        EXCEPT ![l] = NewLanding(p, o, n, "DECLARED")]
    BY <1>1 DEF DeclareLandingOnTurn
  <2>2. n \in Nat
    BY DEF TypeOK
  <2>3. landing' \in [LandingId -> LandingRow]
    BY <2>1, <2>2, WithStatusType, NewLandingType
  <2> QED
    BY <1>1, <2>3 DEF DeclareLandingOnTurn, TypeOK, SkipCounterMatches, RequestShape,
                      roomVars, turnVars, moneyVars
<1>2. ASSUME NEW l \in LandingId, NEW p \in Player, NEW o \in Property,
             DeclareLandingOnBoard(p, o, l)
      PROVE  TypeInv'
  <2>1. landing' \in [LandingId -> LandingRow]
    BY <1>2, AdvancedLandingsType, NewLandingType DEF DeclareLandingOnBoard
  <2>2. PendingOfLandings(CorrectedLandings(p)) \in SUBSET Pending
    BY DEF PendingOfLandings
  <2>3. /\ prop' \in [Property -> Deed]
        /\ request' \in [RequestId -> RequestRow]
        /\ RequestShape'
    BY <1>2, <2>2, CancelRequestsType DEF DeclareLandingOnBoard
  <2> QED
    BY <1>2, <2>1, <2>3 DEF DeclareLandingOnBoard, TypeOK, SkipCounterMatches,
                            roomVars, turnVars, moneyVars
<1>3. ASSUME NEW l \in LandingId, NEW p \in Player, NEW r \in RequestId,
             DeclareStartOnTurn(p, l, r)
      PROVE  TypeInv'
  <2>1. PICK n \in DOMAIN turn :
          LET dropped == PendingOfLandings(LandingsOf(n, {"CONFIRMED"})) IN
          /\ prop' = Unlocked(dropped)
          /\ request' = [Cancelled(dropped) EXCEPT ![r] = StartRewardRequest(p, l, n)]
          /\ landing' = [WithStatus(LandingsOf(n, {"DECLARED", "CONFIRMED"}), "INVALIDATED")
                           EXCEPT ![l] = NewLanding(p, Nil, n, "CONFIRMED")]
    BY <1>3 DEF DeclareStartOnTurn
  <2> DEFINE dropped == PendingOfLandings(LandingsOf(n, {"CONFIRMED"}))
  <2>2. n \in Nat /\ dropped \in SUBSET Pending
    BY DEF TypeOK, PendingOfLandings
  <2> HIDE DEF dropped
  <2>3. landing' \in [LandingId -> LandingRow]
    BY <2>1, <2>2, WithStatusType, NewLandingType
  <2>4. prop' \in [Property -> Deed]
    BY <2>1, UnlockedType
  <2>5. request' = [Cancelled(dropped) EXCEPT ![r] = StartRewardRequest(p, l, n)]
    BY <2>1 DEF dropped
  <2>6. request' \in [RequestId -> RequestRow] /\ RequestShape'
    BY <2>2, <2>5, CancelledType, CancelledShape, StartRewardRequestType, FileType
       DEF RequestShape
  <2> QED
    BY <1>3, <2>3, <2>4, <2>6 DEF DeclareStartOnTurn, TypeOK, SkipCounterMatches,
                                  roomVars, turnVars, moneyVars
<1>4. ASSUME NEW l \in LandingId, NEW p \in Player, NEW r \in RequestId,
             DeclareStartOnBoard(p, l, r)
      PROVE  TypeInv'
  <2> DEFINE dropped == PendingOfLandings(CorrectedLandings(p))
  <2>1. dropped \in SUBSET Pending
    BY DEF PendingOfLandings
  <2>2. /\ prop' = Unlocked(dropped)
        /\ request' = [Cancelled(dropped) EXCEPT ![r] = StartRewardRequest(p, l, 0)]
        /\ landing' = [AdvancedLandings(p) EXCEPT ![l] = NewLanding(p, Nil, 0, "CONFIRMED")]
    BY <1>4 DEF DeclareStartOnBoard
  <2> HIDE DEF dropped
  <2>3. landing' \in [LandingId -> LandingRow]
    BY <2>2, AdvancedLandingsType, NewLandingType
  <2>4. prop' \in [Property -> Deed]
    BY <2>2, UnlockedType
  <2>5. request' \in [RequestId -> RequestRow] /\ RequestShape'
    BY <2>1, <2>2, CancelledType, CancelledShape, StartRewardRequestType, FileType
       DEF RequestShape
  <2> QED
    BY <1>4, <2>3, <2>4, <2>5 DEF DeclareStartOnBoard, TypeOK, SkipCounterMatches,
                                  roomVars, turnVars, moneyVars
<1>5. ASSUME NEW l \in LandingId, NEW b \in BOOLEAN, ConfirmLanding(l, b)
      PROVE  TypeInv'
  <2> DEFINE row == [landing[l] EXCEPT !.status = "CONFIRMED", !.resolved = b]
  <2>0. landing' = [landing EXCEPT ![l] = row] /\ row \in LandingRow
    BY <1>5 DEF ConfirmLanding, TypeOK, LandingRow
  <2> HIDE DEF row
  <2>1. landing' \in [LandingId -> LandingRow]
    BY <2>0 DEF TypeOK
  <2> QED
    BY <1>5, <2>1 DEF ConfirmLanding, TypeOK, SkipCounterMatches, RequestShape,
                      roomVars, turnVars, moneyVars
<1>6. ASSUME NEW l \in LandingId, CancelLandingPropertyActions(l)
      PROVE  TypeInv'
  <2> DEFINE row == [landing[l] EXCEPT !.status = "INVALIDATED", !.cancelled = TRUE,
                                      !.resolved = TRUE]
  <2>0. landing' = [landing EXCEPT ![l] = row] /\ row \in LandingRow
    BY <1>6 DEF CancelLandingPropertyActions, TypeOK, LandingRow
  <2> HIDE DEF row
  <2>1. landing' \in [LandingId -> LandingRow]
    BY <2>0 DEF TypeOK
  <2>2. PendingOfLandings({l}) \in SUBSET Pending
    BY DEF PendingOfLandings
  <2>3. /\ prop' \in [Property -> Deed]
        /\ request' \in [RequestId -> RequestRow]
        /\ RequestShape'
    BY <1>6, <2>2, CancelRequestsType DEF CancelLandingPropertyActions
  <2> QED
    BY <1>6, <2>1, <2>3 DEF CancelLandingPropertyActions, TypeOK, SkipCounterMatches,
                            roomVars, turnVars, moneyVars
<1> QED
  BY <1>1, <1>2, <1>3, <1>4, <1>5, <1>6 DEF LandingStep

\* Filing a request about a property keeps TypeInv.
LEMMA FileForType ==
  ASSUME TypeInv, NEW o \in Property, NEW r \in RequestId, NEW row \in RequestRow,
         row.type \in DeedRequest, row.status = "PENDING", row.actor \in Player,
         row.type = "TRADE_PROPERTY" => row.target # Nil,
         FileFor(o, r, row)
  PROVE  TypeInv'
<1> USE DEF TypeInv
<1> DEFINE new == [row EXCEPT !.prop = o, !.mortgaged = prop[o].mortgaged]
<1>1. prop[o] \in Deed
  BY DEF TypeOK
<1>2. prop' \in [Property -> Deed]
  BY <1>1 DEF FileFor, TypeOK, Deed
<1>3. new \in RequestRow
  BY <1>1 DEF RequestRow, Deed
<1>4. RowShape(new)
  BY NilAssumption DEF RowShape, DeedRequest, RequestRow
<1>5. request' = [request EXCEPT ![r] = new]
  BY DEF FileFor, File
<1> HIDE DEF new
<1>6. request' \in [RequestId -> RequestRow] /\ RequestShape'
  BY <1>3, <1>4, <1>5, FileType DEF RequestShape, TypeOK
<1> QED
  BY <1>2, <1>6 DEF FileFor, File, TypeOK, SkipCounterMatches, roomVars, turnVars, moneyVars

\* The property requests keep TypeInv.
LEMMA DeedRequestStepType ==
  ASSUME TypeInv, DeedRequestStep
  PROVE  TypeInv'
  BY DeedRequestEffect, FileForType DEF FilesDeedRequest

\* Filing a request about no property keeps TypeInv.
LEMMA FilePlainType ==
  ASSUME TypeInv, NEW r \in RequestId, NEW row \in RequestRow,
         row.type \in RequestType \ DeedRequest, row.status = "PENDING",
         row.actor \in Player, row.prop = Nil,
         File(r, row), UNCHANGED prop
  PROVE  TypeInv'
<1> USE DEF TypeInv
<1>1. RowShape(row)
  BY NilAssumption DEF RowShape, RequestType, DeedRequest
<1>2. request' \in [RequestId -> RequestRow] /\ RequestShape'
  BY <1>1, FileType DEF File, RequestShape, TypeOK
<1> QED
  BY <1>2 DEF File, TypeOK, SkipCounterMatches, roomVars, turnVars, moneyVars

\* The other requests keep TypeInv.
LEMMA CashRequestStepType ==
  ASSUME TypeInv, CashRequestStep
  PROVE  TypeInv'
  BY CashRequestEffect, FilePlainType DEF FilesCashRequest

-----------------------------------------------------------------------------
(* Settling commands *)

\* A request may be moved to a settled status.
LEMMA StatusChange ==
  ASSUME TypeInv, NEW r \in RequestId,
         NEW s \in {"EXECUTED", "REJECTED", "CANCELLED", "REVERSED"},
         request' = [request EXCEPT ![r].status = s]
  PROVE  request' \in [RequestId -> RequestRow] /\ RequestShape'
<1> DEFINE row == [request[r] EXCEPT !.status = s]
<1>1. request[r] \in RequestRow /\ RowShape(request[r])
  BY DEF TypeInv, TypeOK, RequestShape
<1>2. row \in RequestRow /\ RowShape(row)
  <2>1. row \in RequestRow
    BY <1>1 DEF RequestRow
  <2>2. /\ row.type = request[r].type /\ row.prop = request[r].prop
        /\ row.actor = request[r].actor /\ row.target = request[r].target
        /\ row.status = s
    BY <1>1 DEF RequestRow
  <2> QED
    BY <1>1, <2>1, <2>2 DEF RowShape
<1>3. request' = [request EXCEPT ![r] = row]
  OBVIOUS
<1>4. /\ request \in [RequestId -> RequestRow]
      /\ \A q \in RequestId : RowShape(request[q])
  BY DEF TypeInv, TypeOK, RequestShape
<1> HIDE DEF row
<1> QED
  BY <1>2, <1>3, <1>4 DEF RequestShape

\* Executing a request keeps the types of what it touches.
LEMMA ExecuteType ==
  ASSUME TypeInv, NEW r \in RequestId, NEW tx \in TransactionRow,
         request[r].status = "PENDING", Execute(r, tx)
  PROVE  /\ status' \in {"LOBBY", "PLAYING", "FINISHED"} /\ approval' \in BOOLEAN
         /\ playable' \in SUBSET Player
         /\ balance' \in [Player -> Nat]
         /\ log' \in Seq(TransactionRow)
         /\ request' \in [RequestId -> RequestRow] /\ RequestShape'
         /\ landing' \in [LandingId -> LandingRow]
         /\ settled' \in [LandingId -> Nat]
<1>1. [tx EXCEPT !.request = r] \in TransactionRow
  BY DEF TransactionRow
<1>2. /\ balance' \in [Player -> Nat]
      /\ log' \in Seq(TransactionRow)
  BY <1>1, CommitType DEF Execute, TypeInv
<1>3. request' \in [RequestId -> RequestRow] /\ RequestShape'
  BY StatusChange DEF Execute
<1> QED
  BY <1>2, <1>3 DEF Execute, TypeInv, TypeOK, roomVars

\* Executing a property request keeps TypeInv.
LEMMA ExecuteDeedType ==
  ASSUME TypeInv, NEW r \in RequestId, request[r].status = "PENDING",
         request[r].type \in DeedRequest, NEW delta \in [Player -> Int],
         NEW deed \in Deed, NEW after \in Face,
         ExecuteDeed(r, delta, deed, after)
  PROVE  TypeInv'
<1> DEFINE q == request[r]
           d == prop[q.prop]
           tx == [Transaction(q.type, delta)
                    EXCEPT !.prop = q.prop, !.before = FaceOf(d),
                           !.after = [after EXCEPT !.version = d.version + 1]]
           new == [deed EXCEPT !.lock = Nil, !.version = d.version + 1]
<1>1. /\ q \in RequestRow /\ RowShape(q)
      /\ q.type \in TransactionType
  BY DEF TypeInv, TypeOK, RequestShape, TransactionType, RequestType
<1>2. q.prop \in Property
  BY <1>1 DEF RequestRow, RowShape
<1>3. d \in Deed /\ d.version + 1 \in Nat
  BY <1>2 DEF TypeInv, TypeOK, Deed
<1>4. /\ FaceOf(d) \in Face
      /\ [after EXCEPT !.version = d.version + 1] \in Face
      /\ new \in Deed
  BY <1>3 DEF FaceOf, Deed, Face
<1>5. tx \in TransactionRow
  <2>1. Transaction(q.type, delta) \in TransactionRow
    BY <1>1, TransactionTyped
  <2> HIDE DEF q, d
  <2> QED
    BY <2>1, <1>2, <1>4 DEF TransactionRow
<1>6. /\ prop' = [prop EXCEPT ![q.prop] = new]
      /\ Execute(r, tx)
      /\ UNCHANGED turnVars
  BY DEF ExecuteDeed
<1> HIDE DEF q, d, tx, new
<1>7. prop' \in [Property -> Deed]
  BY <1>2, <1>4, <1>6 DEF TypeInv, TypeOK
<1> QED
  BY <1>5, <1>6, <1>7, ExecuteType DEF TypeInv, TypeOK, SkipCounterMatches, turnVars

\* The approvals of property requests keep TypeInv.
LEMMA ApproveDeedType ==
  ASSUME TypeInv, NEW r \in RequestId, ApproveDeed(r)
  PROVE  TypeInv'
  BY ApproveDeedEffect, ExecuteDeedType DEF ExecutesDeed

\* The other approvals keep TypeInv.
LEMMA ApproveCashType ==
  ASSUME TypeInv, NEW r \in RequestId, ApproveCash(r)
  PROVE  TypeInv'
<1> DEFINE q == request[r]
<1>1. ExecutesPlainly(r)
  BY ApproveCashEffect
<1>2. /\ owed' \in [Player -> Nat]
      /\ skip' \in [Player -> Seq(BOOLEAN)]
      /\ SkipCounterMatches'
  <2>1. q.actor \in Player /\ q.count \in Nat /\ PalaceTurns(q.actor, q.count) \in Nat
    BY <1>1, PartyType, SkillNumbers DEF ExecutesPlainly
  <2>2. CASE ApproveColdPalace(r)
    BY <2>1, <2>2, OweType DEF ApproveColdPalace, TypeInv
  <2>3. CASE ApprovePlotRest(r)
    BY <2>1, <2>3, OweType DEF ApprovePlotRest, TypeInv
  <2>4. CASE ApproveConsumeSkips(r)
    BY <2>1, <2>4, ConsumeType DEF ApproveConsumeSkips, TypeInv
  <2>5. ASSUME UNCHANGED <<owed, skip>>
        PROVE  /\ owed' \in [Player -> Nat]
               /\ skip' \in [Player -> Seq(BOOLEAN)]
               /\ SkipCounterMatches'
    BY <2>5 DEF TypeInv, TypeOK, SkipCounterMatches
  <2> QED
    BY <2>2, <2>3, <2>4, <2>5
       DEF ApproveCash, ApproveStartReward, ApproveBankPayment, ApproveTransfer,
           ApproveCompanion, ApproveReturnCompanion, ExecuteCash, turnVars
<1> QED
  BY <1>1, <1>2, ExecuteType DEF ExecutesPlainly, TypeInv, TypeOK

\* Confirming, approving and rejecting keep TypeInv.
LEMMA SettleStepType ==
  ASSUME TypeInv, SettleStep
  PROVE  TypeInv'
<1>1. ASSUME NEW r \in RequestId, ConfirmTrade(r) PROVE TypeInv'
  <2> DEFINE row == [request[r] EXCEPT !.confirmed = TRUE]
  <2>1. request[r] \in RequestRow /\ RowShape(request[r])
    BY DEF TypeInv, TypeOK, RequestShape
  <2>2. row \in RequestRow
    BY <2>1 DEF RequestRow
  <2>3. /\ row.type = request[r].type /\ row.prop = request[r].prop
        /\ row.actor = request[r].actor /\ row.target = request[r].target
        /\ row.status = request[r].status
    BY <2>1 DEF RequestRow
  <2>4. RowShape(row)
    BY <2>1, <2>3 DEF RowShape
  <2>5. request' = [request EXCEPT ![r] = row]
    BY <1>1 DEF ConfirmTrade
  <2>6. /\ request \in [RequestId -> RequestRow]
        /\ \A q \in RequestId : RowShape(request[q])
    BY DEF TypeInv, TypeOK, RequestShape
  <2> HIDE DEF row
  <2>7. request' \in [RequestId -> RequestRow] /\ RequestShape'
    BY <2>2, <2>4, <2>5, <2>6 DEF RequestShape
  <2> QED
    BY <1>1, <2>7 DEF ConfirmTrade, TypeInv, TypeOK, SkipCounterMatches,
                      roomVars, turnVars, moneyVars
<1>2. ASSUME NEW r \in RequestId, Reject(r) PROVE TypeInv'
  <2>1. request' \in [RequestId -> RequestRow] /\ RequestShape'
    BY <1>2, StatusChange DEF Reject
  <2>2. prop' \in [Property -> Deed]
    BY <1>2, UnlockedType DEF Reject, TypeInv
  <2> QED
    BY <1>2, <2>1, <2>2 DEF Reject, TypeInv, TypeOK, SkipCounterMatches,
                            roomVars, turnVars, moneyVars
<1>3. ASSUME NEW r \in RequestId, Approve(r) PROVE TypeInv'
  BY <1>3, ApproveDeedType, ApproveCashType DEF Approve, ApproveDeed, ApproveCash
<1> QED
  BY <1>1, <1>2, <1>3 DEF SettleStep

-----------------------------------------------------------------------------
(* Money, bank and room commands *)

\* A step that only moves cash keeps the types it touches.
LEMMA MovesCashType ==
  ASSUME TypeInv, MovesCash
  PROVE  /\ status' \in {"LOBBY", "PLAYING", "FINISHED"} /\ approval' \in BOOLEAN
         /\ playable' \in SUBSET Player /\ current' \in Player \cup {Nil}
         /\ turn' \in Seq(TurnRow)
         /\ balance' \in [Player -> Nat] /\ log' \in Seq(TransactionRow)
         /\ prop' \in [Property -> Deed] /\ landing' \in [LandingId -> LandingRow]
         /\ request' \in [RequestId -> RequestRow] /\ RequestShape'
<1>1. balance' \in [Player -> Nat] /\ log' \in Seq(TransactionRow)
  BY CommitType DEF MovesCash, TypeInv, TypeOK, moneyVars
<1> QED
  BY <1>1 DEF MovesCash, TypeInv, TypeOK, RequestShape, roomVars

\* A reversal keeps TypeInv.
LEMMA ReverseLatestType ==
  ASSUME TypeInv, ReverseLatest
  PROVE  TypeInv'
<1>1. PICK i \in DOMAIN log :
        /\ Undoable(i)
        /\ ApplyToBalances(Negated(log[i].delta))
        /\ log' = Append([log EXCEPT ![i].status = "REVERSED"],
                         [Transaction("REVERSAL", Negated(log[i].delta))
                            EXCEPT !.reversible = FALSE, !.undoes = i])
        /\ prop' = IF log[i].prop = Nil THEN prop
                   ELSE [prop EXCEPT ![log[i].prop] = Restored(@, log[i].before)]
        /\ request' = IF log[i].request = Nil THEN request
                      ELSE [request EXCEPT ![log[i].request].status = "REVERSED"]
  BY DEF ReverseLatest, RequestReversed
<1> DEFINE t == log[i]
<1>2. t \in TransactionRow /\ log \in Seq(TransactionRow) /\ i \in 1 .. Len(log)
  BY DEF TypeInv, TypeOK
<1>3. balance' \in [Player -> Nat]
  <2>1. Negated(t.delta) \in [Player -> Int]
    BY <1>2 DEF Negated, TransactionRow
  <2> QED
    BY <1>1, <2>1 DEF Undoable, Affordable, ApplyToBalances, TypeInv, TypeOK
<1>4. log' \in Seq(TransactionRow)
  <2> DEFINE row == [t EXCEPT !.status = "REVERSED"]
             tx == Transaction("REVERSAL", Negated(t.delta))
             undo == [tx EXCEPT !.reversible = FALSE, !.undoes = i]
  <2>1. row \in TransactionRow
    BY <1>2 DEF TransactionRow
  <2>2. [log EXCEPT ![i] = row] \in Seq(TransactionRow)
    BY <1>2, <2>1, ExceptSeq
  <2>3. Negated(t.delta) \in [Player -> Int] /\ "REVERSAL" \in TransactionType
    BY <1>2 DEF Negated, TransactionRow, TransactionType
  <2>4. tx \in TransactionRow
    BY <2>3, TransactionTyped
  <2>5. log' = Append([log EXCEPT ![i] = row], undo)
    BY <1>1
  <2> HIDE DEF tx, row
  <2>6. undo \in TransactionRow
    <3>1. i \in Nat
      BY <1>2
    <3> QED
      BY <2>4, <3>1 DEF TransactionRow
  <2> QED
    BY <2>2, <2>5, <2>6, AppendProperties
<1>5. prop' \in [Property -> Deed]
  <2>1. CASE t.prop = Nil
    BY <1>1, <2>1 DEF TypeInv, TypeOK
  <2>2. CASE t.prop # Nil
    <3> DEFINE deed == Restored(prop[t.prop], t.before)
    <3>1. t.prop \in Property /\ t.before \in Face
      BY <1>2, <2>2 DEF TransactionRow
    <3>2. prop[t.prop] \in Deed
      BY <3>1 DEF TypeInv, TypeOK
    <3>3. deed \in Deed
      <4>1. /\ t.before.owner \in Player \cup {Nil} /\ t.before.level \in 0..5
            /\ t.before.mortgaged \in BOOLEAN
            /\ prop[t.prop].version + 1 \in Nat
        BY <3>1, <3>2 DEF Face, Deed
      <4> QED
        BY <3>2, <4>1 DEF Restored, Deed
    <3>4. prop' = [prop EXCEPT ![t.prop] = deed]
      BY <1>1, <2>2
    <3> HIDE DEF deed
    <3> QED
      BY <3>1, <3>3, <3>4 DEF TypeInv, TypeOK
  <2> QED
    BY <2>1, <2>2
<1>6. request' \in [RequestId -> RequestRow] /\ RequestShape'
  <2>1. CASE t.request = Nil
    BY <1>1, <2>1 DEF TypeInv, TypeOK, RequestShape
  <2>2. CASE t.request # Nil
    <3>1. t.request \in RequestId
      BY <1>2, <2>2 DEF TransactionRow
    <3>2. request' = [request EXCEPT ![t.request].status = "REVERSED"]
      BY <1>1, <2>2
    <3> QED
      BY <3>1, <3>2, StatusChange
  <2> QED
    BY <2>1, <2>2
<1> QED
  BY <1>3, <1>4, <1>5, <1>6 
     DEF ReverseLatest, TypeInv, TypeOK, SkipCounterMatches, roomVars, turnVars

\* The money commands keep TypeInv.
LEMMA MoneyStepType ==
  ASSUME TypeInv, MoneyStep
  PROVE  TypeInv'
<1>1. CASE ReverseLatest
  BY <1>1, ReverseLatestType
<1>2. CASE ~ReverseLatest
  <2>1. MovesCash
    BY <1>2, MovesCashEffect DEF MoneyStep
  <2>2. UNCHANGED <<owed, skip>>
    BY <1>2 DEF MoneyStep, TransferNow, PayToll, AdjustBalance, PlotFine, turnVars
  <2>3. settled' \in [LandingId -> Nat]
    <3>1. settled \in [LandingId -> Nat] /\ Len(log) + 1 \in Nat
      BY DEF TypeInv, TypeOK
    <3>2. \/ settled' = settled
          \/ \E i \in LandingId : settled' = [settled EXCEPT ![i] = Len(log) + 1]
      BY <1>2 DEF MoneyStep, TransferNow, PayToll, AdjustBalance, PlotFine
    <3> QED
      BY <3>1, <3>2
  <2> QED
    BY <2>1, <2>2, <2>3, MovesCashType DEF TypeInv, TypeOK, SkipCounterMatches
<1> QED
  BY <1>1, <1>2

\* The bank's own changes keep TypeInv.
LEMMA BankStepType ==
  ASSUME TypeInv, BankStep
  PROVE  TypeInv'
<1>1. ASSUME NEW o \in Property, NEW owner \in Player \cup {Nil}, NEW level \in Level,
             NEW m \in BOOLEAN, AdjustProperty(o, owner, level, m)
      PROVE  TypeInv'
  <2> DEFINE deed == [owner |-> owner, level |-> level, mortgaged |-> m, lock |-> Nil,
                      version |-> prop[o].version + 1]
  <2>1. prop' = [prop EXCEPT ![o] = deed]
    BY <1>1 DEF AdjustProperty
  <2>2. level \in 0..5 /\ prop[o].version + 1 \in Nat
    <3>1. prop[o] \in Deed
      BY DEF TypeInv, TypeOK
    <3> QED
      BY <3>1, InputAssumption DEF Deed
  <2>3. deed \in Deed
    BY <2>2 DEF Deed
  <2> HIDE DEF deed
  <2>4. prop' \in [Property -> Deed]
    BY <2>1, <2>3 DEF TypeInv, TypeOK
  <2> QED
    BY <1>1, <2>4 DEF AdjustProperty, TypeInv, TypeOK, SkipCounterMatches, RequestShape,
                      roomVars, turnVars, moneyVars
<1>2. ASSUME NEW p \in Player, NEW n \in Count, NEW palace \in BOOLEAN,
             AddSkipTurns(p, n, palace)
      PROVE  TypeInv'
  <2> DEFINE turns == IF palace THEN PalaceTurns(p, n) ELSE n
  <2>1. turns \in Nat /\ Owe(p, turns, palace)
    BY <1>2, InputAssumption, SkillNumbers DEF AddSkipTurns
  <2> HIDE DEF turns
  <2>2. /\ owed' \in [Player -> Nat]
        /\ skip' \in [Player -> Seq(BOOLEAN)]
        /\ SkipCounterMatches'
    BY <2>1, OweType DEF TypeInv
  <2>3. MovesCash
    BY <1>2, MovesCashEffect
  <2> QED
    BY <1>2, <2>2, <2>3, MovesCashType DEF AddSkipTurns, TypeInv, TypeOK
<1>3. ASSUME NEW p \in Player, NEW n \in Count, ConsumeSkip(p, n) PROVE TypeInv'
  <2>1. /\ owed' \in [Player -> Nat]
        /\ skip' \in [Player -> Seq(BOOLEAN)]
        /\ SkipCounterMatches'
    BY <1>3, ConsumeType, InputAssumption DEF ConsumeSkip, TypeInv
  <2> QED
    BY <1>3, <2>1 DEF ConsumeSkip, TypeInv, TypeOK, RequestShape, roomVars, moneyVars
<1> QED
  BY <1>1, <1>2, <1>3 DEF BankStep

\* Closing a room keeps the types it touches.
LEMMA CloseRoomType ==
  ASSUME TypeInv, CloseRoom
  PROVE  /\ status' \in {"LOBBY", "PLAYING", "FINISHED"} /\ approval' \in BOOLEAN
         /\ playable' \in SUBSET Player /\ current' \in Player \cup {Nil}
         /\ turn' \in Seq(TurnRow)
         /\ owed' \in [Player -> Nat] /\ skip' \in [Player -> Seq(BOOLEAN)]
         /\ balance' \in [Player -> Nat] /\ log' \in Seq(TransactionRow)
         /\ settled' \in [LandingId -> Nat]
         /\ SkipCounterMatches'
<1>1. turn' \in Seq(TurnRow)
  <2>1. \A n \in DOMAIN turn : turn[n] \in TurnRow
    BY DEF TypeInv, TypeOK
  <2>2. \A row \in TurnRow : [row EXCEPT !.status = "ENDED"] \in TurnRow
    BY DEF TurnRow
  <2>3. turn' \in [DOMAIN turn -> TurnRow]
    BY <2>1, <2>2 DEF CloseRoom
  <2> QED
    BY <2>3, FunctionIsSeq DEF TypeInv, TypeOK
<1> QED
  BY <1>1 DEF CloseRoom, TypeInv, TypeOK, SkipCounterMatches, moneyVars

\* Joining, switching the approval mode and finishing keep TypeInv.
LEMMA RoomStepType ==
  ASSUME TypeInv, RoomStep
  PROVE  TypeInv'
<1>1. CASE SetApprovalMode
  <2>1. approval' \in BOOLEAN
    BY <1>1 DEF SetApprovalMode
  <2> QED
    BY <1>1, <2>1 DEF SetApprovalMode, TypeInv, TypeOK, SkipCounterMatches, RequestShape,
                      turnVars, moneyVars
<1>2. ASSUME NEW p \in Player, JoinMidgame(p) PROVE TypeInv'
  BY <1>2 DEF JoinMidgame, TypeInv, TypeOK, SkipCounterMatches, RequestShape,
              turnVars, moneyVars
<1>3. CASE FinishNormal
  BY <1>3, CloseRoomType DEF FinishNormal, TypeInv, TypeOK, RequestShape
<1>4. CASE FinishForced
  <2>1. request' \in [RequestId -> RequestRow] /\ RequestShape'
    BY <1>4, CancelledType, CancelledShape DEF FinishForced, TypeInv, RequestShape
  <2>2. prop' \in [Property -> Deed]
    <3>1. \A o \in Property : prop[o] \in Deed
      BY DEF TypeInv, TypeOK
    <3>2. ASSUME NEW d \in Deed
          PROVE  [d EXCEPT !.lock = Nil, !.version = @ + 1] \in Deed
      <4>1. d.version + 1 \in Nat
        BY DEF Deed
      <4> QED
        BY <4>1 DEF Deed
    <3> QED
      BY <1>4, <3>1, <3>2 DEF FinishForced
  <2>3. landing' \in [LandingId -> LandingRow]
    <3>1. \A l \in LandingId : landing[l] \in LandingRow
      BY DEF TypeInv, TypeOK
    <3>2. \A row \in LandingRow :
            [row EXCEPT !.status = "INVALIDATED", !.cancelled = TRUE] \in LandingRow
      BY DEF LandingRow
    <3> QED
      BY <1>4, <3>1, <3>2 DEF FinishForced
  <2> QED
    BY <1>4, <2>1, <2>2, <2>3, CloseRoomType DEF FinishForced, TypeInv, TypeOK
<1> QED
  BY <1>1, <1>2, <1>3, <1>4 DEF RoomStep

-----------------------------------------------------------------------------
(* The theorems *)

\* Nothing changes in a stuttering step.
LEMMA StutterType ==
  ASSUME TypeInv, UNCHANGED vars
  PROVE  TypeInv'
  BY DEF TypeInv, TypeOK, SkipCounterMatches, RequestShape, vars

\* TypeInv holds when the room is created.
LEMMA InitTypeInv == Init => TypeInv
<1> SUFFICES ASSUME Init PROVE TypeInv
  OBVIOUS
<1>1. SkipCounterMatches
  BY DEF Init, SkipCounterMatches
<1>2. RequestShape
  BY NilAssumption DEF Init, RequestShape, RowShape, NoRequest, DeedRequest
<1> QED
  BY <1>1, <1>2, InitTypeOK DEF TypeInv

\* Every step keeps TypeInv.
LEMMA TypeInvStep == TypeInv /\ [Next]_vars => TypeInv'
  BY TurnStepType, LandingStepType, DeedRequestStepType, CashRequestStepType,
     SettleStepType, MoneyStepType, BankStepType, RoomStepType, StutterType DEF Next

\* TypeInv holds in every reachable state of every room, whatever its
\* players, prices and bounds.
THEOREM TypeInvariant == Spec => []TypeInv
  BY InitTypeInv, TypeInvStep, PTL DEF Spec

\* No command ever leaves a row of the wrong type: no balance and no skip
\* counter becomes negative (changeBalance, consumeSkipTurns and the turn
\* walk check first), no lock names a missing request.
THEOREM TypeCorrect == Spec => []TypeOK
<1>1. TypeInv => TypeOK
  BY DEF TypeInv
<1> QED
  BY <1>1, TypeInvariant, PTL

\* remainingSkipTurns always equals the units left in the skip entries, so
\* consumeSkipTurns and createNextActionableTurn never meet
\* SKIP_ENTRY_MISSING.
THEOREM SkipEntriesMatchCounter == Spec => []SkipCounterMatches
<1>1. TypeInv => SkipCounterMatches
  BY DEF TypeInv
<1> QED
  BY <1>1, TypeInvariant, PTL

=============================================================================
