-------------------------- MODULE RequestLifecycle --------------------------
(***************************************************************************)
(* What the players and the bank are promised about a request: it is filed *)
(* once, settled once, and takes effect exactly while it is executed and   *)
(* not reversed.  Several requests may be cancelled together.              *)
(***************************************************************************)
EXTENDS Naturals

CONSTANT RequestId

VARIABLES phase,    \* the life of each request
          effect    \* how many of its transactions are in force

vars == <<phase, effect>>

Init ==
    /\ phase = [r \in RequestId |-> "NONE"]
    /\ effect = [r \in RequestId |-> 0]

\* some waiting requests are cancelled, and one more may be filed
Cancel(S) ==
    /\ S \subseteq {r \in RequestId : phase[r] = "PENDING"}
    /\ \E F \in SUBSET {r \in RequestId : phase[r] = "NONE"} :
         /\ \A f, g \in F : f = g
         /\ phase' = [r \in RequestId |-> IF r \in S THEN "CANCELLED"
                                          ELSE IF r \in F THEN "PENDING"
                                          ELSE phase[r]]
    /\ UNCHANGED effect

Reject(r) ==
    /\ phase[r] = "PENDING"
    /\ phase' = [phase EXCEPT ![r] = "REJECTED"]
    /\ UNCHANGED effect

Execute(r) ==
    /\ phase[r] = "PENDING"
    /\ phase' = [phase EXCEPT ![r] = "EXECUTED"]
    /\ effect' = [effect EXCEPT ![r] = 1]

Reverse(r) ==
    /\ phase[r] = "EXECUTED"
    /\ phase' = [phase EXCEPT ![r] = "REVERSED"]
    /\ effect' = [effect EXCEPT ![r] = 0]

Next ==
    \/ \E S \in SUBSET RequestId : Cancel(S)
    \/ \E r \in RequestId : Reject(r) \/ Execute(r) \/ Reverse(r)

Spec == Init /\ [][Next]_vars
=============================================================================
