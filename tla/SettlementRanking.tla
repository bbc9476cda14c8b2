-------------------------- MODULE SettlementRanking -------------------------
(***************************************************************************)
(* The final standings of a game: what a player is worth, and who stands   *)
(* where. Players are sorted and then ranked by comparing neighbours; the  *)
(* reference says which rank that is meant to give.                        *)
(***************************************************************************)
EXTENDS Integers, SequencesExt

\* buildPropertySettlementDetail: land is worth twice its mortgage, less the
\* mortgage that is on it, and a house what the bank pays for it
LandValue(p) == IF p.mortgaged THEN 2 * p.mortgagePrice - p.mortgagePrice ELSE 2 * p.mortgagePrice
BuildingValue(p) == p.level * p.sellPrice

\* the candidate that computeSettlement makes of a player and what he owns;
\* "account" is the order of the account ids
Candidate(account, cash, owned) ==
    [account |-> account,
     cash |-> cash,
     free |-> MapThenSumSet(LandValue, {p \in owned : ~ p.mortgaged}),
     pledged |-> MapThenSumSet(LandValue, {p \in owned : p.mortgaged}),
     buildings |-> MapThenSumSet(BuildingValue, owned)]

Wealth(c) == c.cash + c.free + c.pledged + c.buildings

\* comparisonKey
Key(c) == <<Wealth(c), c.cash, c.free>>

Above(key, other) ==
    \E i \in 1..3 : key[i] > other[i] /\ \A j \in 1..(i - 1) : key[j] = other[j]

Precedes(c, d) == Above(Key(c), Key(d)) \/ (Key(c) = Key(d) /\ c.account < d.account)

\* rankSettlementPlayers
Standings(candidates) ==
    LET sorted == SetToSortSeq(candidates, Precedes)
        rank[i \in 1..Len(sorted)] ==
            IF i > 1 /\ Key(sorted[i - 1]) = Key(sorted[i]) THEN rank[i - 1] ELSE i
    IN [i \in 1..Len(sorted) |-> [of |-> sorted[i], rank |-> rank[i], winner |-> rank[i] = 1]]

-----------------------------------------------------------------------------
(* The reference.                                                          *)

\* a player stands behind those who are better off, and wins with nobody
\* better off than he is
StandsBehindTheBetter(candidates) ==
    LET standings == Standings(candidates)
        better(c) == {d \in candidates : Above(Key(d), Key(c))}
    IN /\ {standings[i].of : i \in DOMAIN standings} = candidates
       /\ Len(standings) = Cardinality(candidates)
       /\ \A i \in DOMAIN standings :
            /\ standings[i].rank = 1 + Cardinality(better(standings[i].of))
            /\ standings[i].winner <=> better(standings[i].of) = {}

\* a mortgage that the owner takes leaves his wealth as it is, so that nobody
\* gains by one shortly before the end
MortgageKeepsWealth(account, cash, owned, p) ==
    LET pledged == (owned \ {p}) \cup {[p EXCEPT !.mortgaged = TRUE]}
    IN p \in owned /\ ~ p.mortgaged =>
         Wealth(Candidate(account, cash + p.mortgagePrice, pledged)) =
           Wealth(Candidate(account, cash, owned))
=============================================================================
