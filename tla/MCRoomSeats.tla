---------------------------- MODULE MCRoomSeats -----------------------------
(***************************************************************************)
(* Small instances of RoomSeats for TLC, and of the standings at the end   *)
(* of a game, which are computed from numbers alone.                       *)
(***************************************************************************)
EXTENDS RoomSeats, SettlementRanking, TLC

CONSTANTS m1, m2, m3, c1, c2, c3

Symmetry == Permutations(Member) \cup Permutations(Character)

Worth == [cash : -1..1, free : 0..1, pledged : 0..1, buildings : 0..1]

\* every standing of three players with small numbers, debts among them
ASSUME StandingsAssumption ==
    \A w \in [1..3 -> Worth] :
      StandsBehindTheBetter({[account |-> a, cash |-> w[a].cash, free |-> w[a].free,
                              pledged |-> w[a].pledged, buildings |-> w[a].buildings] : a \in 1..3})

Property == [name : {1, 2}, mortgaged : BOOLEAN, mortgagePrice : 1..2, level : 0..1,
             sellPrice : 1..2]

ASSUME WealthAssumption ==
    \A p, q \in Property : p.name # q.name => MortgageKeepsWealth(1, 0, {p, q}, p)
=============================================================================
