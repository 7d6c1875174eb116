------------------------------ MODULE AtMostOnce ------------------------------
(***************************************************************************)
(* What the external effect gate promises of an idempotency key: whatever  *)
(* fails, the effect behind it happens at most once, and a result that is  *)
(* recorded is the result of that effect.                                  *)
(***************************************************************************)
EXTENDS Naturals

CONSTANTS Keys, Results

VARIABLES
    claimed,    \* keys that may never be claimed again
    pending,    \* claimed keys whose effect is still allowed
    effects,    \* key -> how often the effect happened
    observed,   \* <<key, result>> of the effects that answered
    settled     \* <<key, result>> that are recorded

vars == <<claimed, pending, effects, observed, settled>>

Init ==
    /\ claimed = {}
    /\ pending = {}
    /\ effects = [k \in Keys |-> 0]
    /\ observed = {}
    /\ settled = {}

Claim(k) ==
    /\ k \notin claimed
    /\ claimed' = claimed \cup {k}
    /\ pending' = pending \cup {k}
    /\ UNCHANGED <<effects, observed, settled>>

\* The effect happens; it answers with a result, or with none.
Perform(k) ==
    /\ k \in pending
    /\ effects[k] = 0
    /\ pending' = pending \ {k}
    /\ effects' = [effects EXCEPT ![k] = @ + 1]
    /\ observed' = observed \/ \E r \in Results : observed' = observed \cup {<<k, r>>}
    /\ UNCHANGED <<claimed, settled>>

Settle(k, r) ==
    /\ <<k, r>> \in observed
    /\ settled' = settled \cup {<<k, r>>}
    /\ UNCHANGED <<claimed, pending, effects, observed>>

\* A claimed effect is given up: nothing claims the key again.
GiveUp(k) ==
    /\ k \in pending
    /\ pending' = pending \ {k}
    /\ UNCHANGED <<claimed, effects, observed, settled>>

Next ==
    \E k \in Keys :
        Claim(k) \/ Perform(k) \/ GiveUp(k) \/ (\E r \in Results : Settle(k, r))

Spec == Init /\ [][Next]_vars
=============================================================================
