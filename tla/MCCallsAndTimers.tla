-------------------------- MODULE MCCallsAndTimers --------------------------
(***************************************************************************)
(* Small instances for TLC of what must come to an end: the calls of       *)
(* IdempotentWrites, of one tab with two calls that may be open at a time, *)
(* and the timers of RoomTrash and RouteSkeleton, side by side. They share *)
(* no variable, so that nothing is lost when a behaviour is about one of   *)
(* them only: "desk" says which. The others stay in an initial state.      *)
(***************************************************************************)
EXTENDS IdempotentWrites, RoomTrash, RouteSkeleton

CONSTANTS t1, x1, x2, palace, garden, stuck

VARIABLE desk

MCInit ==
    /\ Init
    /\ TrashInit
    /\ SkeletonInit
    /\ desk \in {"CALLS", "ROOMS", "BROWSER"}
    /\ desk # "BROWSER" => ui = Presented(Fresh("home", FALSE))

MCNext ==
    \/ desk = "CALLS" /\ Next /\ UNCHANGED <<trashVars, skeletonVars, desk>>
    \/ desk = "ROOMS" /\ TrashNext /\ UNCHANGED <<vars, skeletonVars, desk>>
    \/ desk = "BROWSER" /\ SkeletonNext /\ UNCHANGED <<vars, trashVars, desk>>

MCSpec == MCInit /\ [][MCNext]_<<vars, trashVars, skeletonVars, desk>>

\* the fairness of FairSpec, TrashFairness and SkeletonFairness, of the one
\* whose turn it is
MCFairSpec ==
    /\ MCSpec
    /\ \A x \in Call : WF_vars(desk = "CALLS" /\ Serve(x))
    /\ WF_trashVars(desk = "ROOMS" /\ ScanStep)
    /\ \A r \in Room \ Stuck : SF_trashVars(desk = "ROOMS" /\ PurgeClaimed(r))
    /\ WF_skeletonVars(desk = "BROWSER" /\ RestoreAccount)
    /\ WF_skeletonVars(desk = "BROWSER" /\ SettleLoad)
    /\ WF_skeletonVars(desk = "BROWSER" /\ Arrive)
    /\ WF_skeletonVars(desk = "BROWSER" /\ FireWatchdog)
    /\ WF_skeletonVars(desk = "BROWSER" /\ PassMinimum)
    /\ WF_skeletonVars(desk = "BROWSER" /\ FireRelease)
=============================================================================
