--------------------------- MODULE ConfirmedChange ---------------------------
(***************************************************************************)
(* What a change of a counterpart's information promises.  Nothing is held *)
(* to be true because it was said once: an input proposes it, and another, *)
(* later input confirms it before the proposal expires.  A proposal that   *)
(* replaces something only replaces the version it was made about.         *)
(***************************************************************************)
EXTENDS Integers

CONSTANTS
    Keys,            \* the versions of the items: pairs of an item and a version
    Facts,           \* what an item can say
    DirectWithdrawal \* whether one input is enough to withdraw

VARIABLES
    inputs,  \* number of inputs handled
    now,     \* time of the last one
    open,    \* the proposal that waits for its confirmation
    held     \* what is held to be true

abstractVars == <<inputs, now, open, held>>

Proposal(p) == /\ p.by \in Nat
               /\ p.over \subseteq Keys
               /\ \A k, l \in p.over : k = l
               /\ p.fact \in Facts

HeldKeys == {h.key : h \in held}

Init == inputs = 0 /\ now = 0 /\ open = {} /\ held = {}

Handled == /\ inputs' = inputs + 1
           /\ now' \in Nat
           /\ now' >= now

\* An expired proposal makes way for a new one.
Propose ==
    /\ Handled
    /\ \A q \in open : now' >= q.expires
    /\ \E p \in open' : /\ open' = {p}
                        /\ Proposal(p)
                        /\ p.by = inputs'
                        /\ p.over \subseteq HeldKeys
                        /\ p.expires > now'
    /\ UNCHANGED held

\* The confirmation takes effect or, for a proposal to give something up, ends
\* what the proposal was about.
Confirm ==
    /\ Handled
    /\ open' = {}
    /\ \E p \in open :
        /\ p.by < inputs'
        /\ now' < p.expires
        /\ p.over \subseteq HeldKeys
        /\ LET kept == {h \in held : h.key \notin p.over}
           IN  \/ \E h \in held' : /\ held' = kept \cup {h}
                                   /\ h.fact = p.fact
                                   /\ h.proposed = p.by
                                   /\ h.confirmed = inputs'
                                   /\ h.key \in Keys \ HeldKeys
               \/ p.over # {} /\ held' = kept

Drop == Handled /\ open # {} /\ open' = {} /\ UNCHANGED held

Withdraw ==
    /\ DirectWithdrawal
    /\ Handled
    /\ \E h \in held : held' = held \ {h}
    /\ UNCHANGED open

\* An input that is refused, or that is about something else.
Ignore == Handled /\ UNCHANGED <<open, held>>

Next == Ignore \/ Propose \/ Confirm \/ Drop \/ Withdraw

Spec == Init /\ [][Next]_abstractVars
==============================================================================
