--------------------------- MODULE MCPressedAgain ---------------------------
(***************************************************************************)
(* What pressing a button again does, and what the tabs are told: small    *)
(* instances of IdempotentWrites, with two calls that may be open at a     *)
(* time, and of TransferToasts for TLC, side by side. They share no        *)
(* variable, so that nothing is lost when a behaviour is about one of them *)
(* only: "side" says which. The other one stays in an initial state.       *)
(***************************************************************************)
EXTENDS IdempotentWrites, TransferToasts, TLC

CONSTANTS t1, x1, x2, transfer, payer, receiver

\* one endpoint whose success is enough to forget the key, one whose success
\* must be seen in a refreshed view first
GameAndSeat == {"GAME", "SEAT"}

Symmetry == Permutations(Call)

VARIABLE side

ToastsRest ==
    /\ bank = payer
    /\ ~ approval
    /\ \A x \in Transfer : transfers[x].form.kind = "TOLL"
    /\ \A t \in Screen : screens[t].page = "PLAYER" /\ screens[t].workbench = "PLAYER"

MCInit ==
    /\ Init
    /\ ToastsInit
    /\ side \in {"WRITES", "TOASTS"}
    /\ side = "WRITES" => ToastsRest

MCNext ==
    \/ side = "WRITES" /\ Next /\ UNCHANGED <<toastVars, side>>
    \/ side = "TOASTS" /\ ToastsNext /\ UNCHANGED <<vars, side>>

MCSpec == MCInit /\ [][MCNext]_<<vars, toastVars, side>>
=============================================================================
