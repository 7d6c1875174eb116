----------------------------- MODULE DurableLife -----------------------------
(***************************************************************************)
(* What the persistence of Yamicha promises, without checkpoints, pruning, *)
(* lifecycles or entry points: a life works on information in memory,      *)
(* saves all of it at once, and tells its user of a request only what is   *)
(* saved.  A death loses what was not saved and nothing else.              *)
(*                                                                         *)
(* Some of the information is passing: it belongs to an occasion, and when *)
(* the user opens another one it makes room, except for what remains of it. *)
(* Nothing else ever leaves the memory of a life, or what it saved.        *)
(***************************************************************************)
CONSTANTS
    Requests,           \* what a user can ask for
    Facts,              \* the information a life can hold
    FactsOf(_),         \* the facts a served request leaves
    Openers,            \* the requests that open another occasion
    Passing,            \* the facts that last as long as their occasion
    Remains(_)          \* what remains of a passing fact

VARIABLES
    alive,      \* a process runs
    working,    \* facts in memory
    saved,      \* facts that survive a death
    delivered   \* requests whose outcome the user was told

vars == <<alive, working, saved, delivered>>

Init ==
    /\ alive = FALSE
    /\ working = {}
    /\ saved = {}
    /\ delivered = {}

\* A process begins with exactly what was saved.
Revive ==
    /\ ~alive
    /\ alive' = TRUE
    /\ working' = saved
    /\ UNCHANGED <<saved, delivered>>

\* Lifecycles add to the memory and forget nothing of it.
Work ==
    /\ alive
    /\ working \subseteq working'
    /\ working' \subseteq Facts
    /\ UNCHANGED <<alive, saved, delivered>>

\* Another occasion: of the passing facts there is left what remains of them.
BeginAnew(request) ==
    /\ alive
    /\ working' = (working \ Passing) \cup {Remains(fact) : fact \in working \cap Passing}
                      \cup FactsOf(request)
    /\ UNCHANGED <<alive, saved, delivered>>

\* All of the memory is saved, or nothing.  What was saved stays saved, as it
\* was or as what remains of it.
Save ==
    /\ alive
    /\ \A fact \in saved :
          fact \in working \/ (fact \in Passing /\ Remains(fact) \in working)
    /\ saved' = working
    /\ UNCHANGED <<alive, working, delivered>>

\* The outcome of a request is told once all it left is saved.
Deliver(request) ==
    /\ alive
    /\ FactsOf(request) \subseteq saved
    /\ delivered' = delivered \cup {request}
    /\ UNCHANGED <<alive, working, saved>>

Die ==
    /\ alive
    /\ alive' = FALSE
    /\ working' = {}
    /\ UNCHANGED <<saved, delivered>>

Next ==
    \/ Revive
    \/ Work
    \/ \E request \in Openers : BeginAnew(request)
    \/ Save
    \/ \E request \in Requests : Deliver(request)
    \/ Die

Spec == Init /\ [][Next]_vars
=============================================================================
