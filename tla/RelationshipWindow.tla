-------------------------- MODULE RelationshipWindow --------------------------
(***************************************************************************)
(* Which relationship information, and which earlier exchanges, a reply is *)
(* made from, counted in characters.                                       *)
(*                                                                         *)
(* Three budgets meet here.  The model is given the newest applicable      *)
(* items that fit what the input leaves free; what is recorded as used is  *)
(* a second selection, under the full limit; and the earlier exchanges get *)
(* what remains.  An exchange is withheld unless everything recorded for   *)
(* it is given again, so withdrawn words must not come back as a quotation *)
(* of an earlier reply.                                                    *)
(*                                                                         *)
(* How items come to hold is module RelationshipChanges: an item appears,  *)
(* is corrected and is withdrawn here in one step, and the commands that   *)
(* do so, whose exchanges are always withheld, are left out.  Memory       *)
(* content takes further room from the window (module DialogueTaint).      *)
(* Every item has a topic of its own, so an input may speak of any of them;*)
(* an item for all dialogue is one that every input speaks of.             *)
(***************************************************************************)
EXTENDS Integers, Sequences, FiniteSets, FiniteSetsExt

CONSTANTS
    MaxSelected,   \* max_items: 5
    MaxCharacters, \* the limit of all selected items together: 512
    Sizes,         \* how long the content of an item is: at most 256
    InputLimits,   \* intelligence_max_input_characters of the sessions
    Lengths,       \* how long an input is
    Reply,         \* how long a reply is
    MaxExchanges,  \* dialogue_max_exchanges
    Experiences,   \* selectable experiences, a character each
    MaxItems,      \* bound: items
    MaxAltered,    \* bound: items that are corrected or withdrawn, once, or expire
    MaxLifecycles  \* bound: inputs in one dialogue context

ASSUME WindowBounds ==
    /\ {MaxSelected, MaxCharacters, Reply, MaxExchanges} \subseteq Nat
    /\ {MaxItems, MaxAltered, MaxLifecycles} \subseteq Nat
    /\ Sizes \cup Lengths \cup InputLimits \subseteq Nat \ {0}
    /\ IsFiniteSet(Experiences)
    /\ \A size \in Sizes : 2 * size <= MaxCharacters

VARIABLES
    contents,   \* the items, oldest first (_relationship_items)
    exchanges,  \* the inputs of the active dialogue context: what the reply was
                \* made from, and what is recorded of it
    limit,      \* max_input_characters of this session
    raised      \* history: has a restart raised it within the active context?

windowVars == <<contents, exchanges, limit, raised>>

Content == [size : Sizes, version : {1, 2}, active : BOOLEAN, expired : BOOLEAN]

\* given, dialogue: what the model was shown; used, experience: the usages
\* recorded.
Exchange == [length : Nat, given : SUBSET (Nat \X Nat), dialogue : SUBSET Nat,
             used : SUBSET (Nat \X Nat), experience : SUBSET Experiences]

WindowTypeOK ==
    /\ contents \in Seq(Content)
    /\ Len(contents) <= MaxItems
    /\ exchanges \in Seq(Exchange)
    /\ \A l \in DOMAIN exchanges : exchanges[l].dialogue \subseteq 1..l - 1
    /\ \A l \in DOMAIN exchanges :
        /\ Cardinality(exchanges[l].given) <= MaxSelected
        /\ Cardinality(exchanges[l].used) <= MaxSelected
    /\ limit \in InputLimits
    /\ raised \in BOOLEAN

Larger(a, b) == IF a >= b THEN a ELSE b
Smaller(a, b) == IF a <= b THEN a ELSE b

Applicable(i) == contents[i].active /\ ~contents[i].expired
Characters(S) == SumFunctionOnSet([i \in DOMAIN contents |-> contents[i].size], S)
Altered == {i \in DOMAIN contents : contents[i].version > 1 \/ contents[i].expired}
Alterable(i) == contents[i].version = 1 /\ Cardinality(Altered \ {i}) < MaxAltered
Current(S) == {<<i, contents[i].version>> : i \in S}

WindowInit == contents = <<>> /\ exchanges = <<>> /\ limit \in InputLimits /\ raised = FALSE

------------------------------------------------------------------------------
Fits(i, before, budget) ==
    /\ Cardinality(before) < MaxSelected
    /\ contents[i].size <= budget - Characters(before)

\* The newest first, passing over what does not fit any more.
Select(topics, budget) ==
    LET last == Len(contents)
        selected[k \in 0..last] ==
            IF k = 0 THEN {}
            ELSE LET i == last - k + 1
                     before == selected[k - 1]
                 IN  IF i \in topics /\ Applicable(i) /\ Fits(i, before, budget)
                     THEN before \cup {i}
                     ELSE before
    IN  selected[last]

\* dependent_dialogue_lifecycles, over what each exchange was shown.
Dependent(seeds) ==
    CHOOSE S \in SUBSET DOMAIN exchanges :
        /\ seeds \subseteq S
        /\ \A l \in DOMAIN exchanges : exchanges[l].dialogue \cap S # {} => l \in S
        /\ \A T \in SUBSET DOMAIN exchanges :
            (seeds \subseteq T /\ \A l \in DOMAIN exchanges :
                exchanges[l].dialogue \cap T # {} => l \in T) => S \subseteq T

\* A usage that names anything that is not given now, in the version it has now.
Withheld(given, experience) ==
    {l \in DOMAIN exchanges : \/ ~(exchanges[l].used \subseteq Current(given))
                              \/ ~(exchanges[l].experience \subseteq experience)}

\* Faulty variant of Room: the relationship information is not counted.
RoomForDialogue(length, given, experience) == limit - Cardinality(experience) - length

\* What the input and the selections leave for the earlier exchanges.
Room(length, given, experience) ==
    limit - Characters(given) - Cardinality(experience) - length

\* The newest of the remaining exchanges, as long as they fit.
Window(excluded, room) ==
    LET open == DOMAIN exchanges \ excluded
        newer(l) == {k \in open : k >= l}
        size == [l \in DOMAIN exchanges |-> exchanges[l].length + Reply]
    IN  {l \in open : /\ Cardinality(newer(l)) <= MaxExchanges
                      /\ SumFunctionOnSet(size, newer(l)) <= room}

------------------------------------------------------------------------------
Complete(length, given, dialogue, used, experience) ==
    exchanges' = Append(exchanges, [length |-> length, given |-> given, dialogue |-> dialogue,
                                    used |-> used, experience |-> experience])

Free(length) == Larger(0, limit - length)

\* The material consulted by Judgment.
RecordedAsUsed(topics) == Select(topics, MaxCharacters)

\* An answer of the model.
Assisted(topics, length, experience) ==
    /\ Len(exchanges) < MaxLifecycles
    /\ length <= limit
    /\ Cardinality(experience) <= Free(length)
    /\ LET given == Select(topics, Smaller(MaxCharacters, Free(length) - Cardinality(experience)))
           dialogue == Window(Dependent(Withheld(given, experience)),
                              Room(length, given, experience))
       IN  Complete(length, Current(given), dialogue, Current(RecordedAsUsed(topics)), experience)
    /\ UNCHANGED <<contents, limit, raised>>

\* The model is not asked, or does not answer: a fixed reply.
Unassisted(topics, length, experience) ==
    /\ Len(exchanges) < MaxLifecycles
    /\ Cardinality(experience) <= Free(length)
    /\ Complete(length, {}, {}, Current(RecordedAsUsed(topics)), experience)
    /\ UNCHANGED <<contents, limit, raised>>

Adopt(size) ==
    /\ Len(contents) < MaxItems
    /\ contents' = Append(contents, [size |-> size, version |-> 1, active |-> TRUE, expired |-> FALSE])
    /\ UNCHANGED <<exchanges, limit, raised>>

\* A correction may name a new limit of validity, also of an expired item.
Correct(i, size) ==
    /\ contents[i].active
    /\ Alterable(i)
    /\ contents' = [contents EXCEPT ![i] = [size |-> size, version |-> @.version + 1,
                                      active |-> TRUE, expired |-> FALSE]]
    /\ UNCHANGED <<exchanges, limit, raised>>

EndContent(i) ==
    /\ contents[i].active
    /\ Alterable(i)
    /\ contents' = [contents EXCEPT ![i].version = @ + 1, ![i].active = FALSE]
    /\ UNCHANGED <<exchanges, limit, raised>>

\* Its valid_until is reached.
Lapse(i) ==
    /\ Applicable(i)
    /\ Cardinality(Altered \ {i}) < MaxAltered
    /\ contents' = [contents EXCEPT ![i].expired = TRUE]
    /\ UNCHANGED <<exchanges, limit, raised>>

\* What is recorded of an earlier context is kept, and never shown again.
NewContext == exchanges' = <<>> /\ raised' = FALSE /\ UNCHANGED <<contents, limit>>

\* The next session restores all of it, and may be composed with another limit.
Restart(l) ==
    /\ l # limit
    /\ limit' = l
    /\ raised' = (raised \/ (l > limit /\ exchanges # <<>>))
    /\ UNCHANGED <<contents, exchanges>>

WindowNext ==
    \/ \E topics \in SUBSET {i \in DOMAIN contents : Applicable(i)}, length \in Lengths,
          experience \in SUBSET Experiences :
        \/ Assisted(topics, length, experience)
        \/ Unassisted(topics, length, experience)
    \/ \E size \in Sizes : Adopt(size)
    \/ \E i \in DOMAIN contents, size \in Sizes : Correct(i, size)
    \/ \E i \in DOMAIN contents : EndContent(i) \/ Lapse(i)
    \/ NewContext
    \/ \E l \in InputLimits : Restart(l)

WindowSpec == WindowInit /\ [][WindowNext]_windowVars

------------------------------------------------------------------------------
\* The versions of items whose words a reply may hold: those the model was
\* given, and those in the exchanges it was shown.
Words ==
    LET words[l \in DOMAIN exchanges] ==
            exchanges[l].given \cup UNION {words[k] : k \in exchanges[l].dialogue}
    IN  words

\* No reply is made from the words of an item that is not given for the
\* current input: not of one that was withdrawn, corrected, has expired, is
\* about another topic or did not fit, however many replies have passed them
\* on (dialogue_exclusions, dependent_dialogue_lifecycles and the character
\* budgets of _prepare_memory_context and _propose_dialogue_assistance).
NothingReturnsByQuotation ==
    \A l \in DOMAIN exchanges : Words[l] \subseteq exchanges[l].given

\* The same as long as no restart raises the limit during the dialogue: an input
\* that left no room for the newer item leaves none when both are to be given
\* together later, whatever was withdrawn, corrected or restarted in between.
NothingReturnsUnlessRaised == raised \/ NothingReturnsByQuotation

\* What the model was given is part of what is recorded as used (the comment of
\* _record_long_term_memory).
RecordCoversModelInput ==
    \A l \in DOMAIN exchanges : exchanges[l].given \subseteq exchanges[l].used
==============================================================================
