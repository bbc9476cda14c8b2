------------------------------- MODULE MCTabs -------------------------------
(***************************************************************************)
(* Small instances of Accounts and RoomChannel for TLC, side by side. They *)
(* share no variable, so that nothing is lost when a behaviour is about    *)
(* one of them only: "side" says which. The other one stays in an initial  *)
(* state. The channel has two sides, since together they are more than TLC *)
(* can explore: a user who only looks, and a user who writes, or takes     *)
(* control, while his session, his connection and the room hold.           *)
(***************************************************************************)
EXTENDS Accounts, RoomChannel, TLC

CONSTANTS admin, user, d1, d2, t1

Symmetry == Permutations(Device)

VARIABLE side

MCInit ==
    /\ AccountsInit
    /\ Init
    /\ side \in {"ACCOUNTS", "LOOKS", "WRITES"}
    /\ side # "ACCOUNTS" => \A a \in Account : account[a].status = "ACTIVE"

\* no write of the user; the tab loses its session or its control, not both:
\* either is enough to end its entitlement
OnlyLooks ==
    \A t \in Tab :
      /\ client'[t].presses = 0
      /\ authority'[t].control = "HERE" => authority[t].control = "HERE"
      /\ authority'[t].session \/ authority'[t].control = "HERE"

\* one wish of the socket, the one for the room; no eviction, no drop
Undisturbed ==
    /\ drops' = 0
    /\ ~ room'.trashed
    /\ \A t \in Tab : authority'[t].session /\ server'[t].intent + Len(wire'[t].up) <= 1

MCNext ==
    \/ side = "ACCOUNTS" /\ AccountsNext /\ UNCHANGED <<vars, side>>
    \/ side = "LOOKS" /\ Next /\ OnlyLooks /\ UNCHANGED <<accountVars, side>>
    \/ side = "WRITES" /\ Next /\ Undisturbed /\ UNCHANGED <<accountVars, side>>

MCSpec == MCInit /\ [][MCNext]_<<accountVars, vars, side>>
=============================================================================
