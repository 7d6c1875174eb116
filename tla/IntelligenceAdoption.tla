------------------------- MODULE IntelligenceAdoption -------------------------
(***************************************************************************)
(* What becomes of an answer of the auxiliary intelligence.                *)
(*                                                                         *)
(* One text input may ask the model twice: for a candidate of the reply,   *)
(* once Core has finalized that it responds, and, when that was answered,  *)
(* for an interpretation of the input, from which a memory may be formed.  *)
(* Each answer is a result, its review by Judgment and the adoption or     *)
(* rejection by Core, and leaves a trace in a table of its own.  The       *)
(* lifecycle and what it formed become durable with the next checkpoint.   *)
(*                                                                         *)
(* The organs keep a register of what they issued and accept nothing else; *)
(* a record is its place in its register here, as no other exists.  Other  *)
(* callers than the text runner may pass issued records to the organs, in  *)
(* any combination, between two inputs.                                    *)
(***************************************************************************)
EXTENDS Naturals, Sequences, FiniteSets

CONSTANTS
    Failures,    \* the failures a transport reports: unavailable, timeout, invalid_output
    MaxInputs,   \* bound: text inputs
    MaxDirect,   \* bound: calls of the organs in one process by another caller
    MaxFaults    \* bound: writes that fail, calls that raise and deaths

ASSUME IntelligenceBounds ==
    /\ Failures \subseteq {"unavailable", "timeout", "invalid_output"}
    /\ {MaxInputs, MaxDirect, MaxFaults} \subseteq Nat

Lifecycles == 1..MaxInputs
Directions == {"respond", "other"}
Purposes == {"reply", "memory"}

\* max_output_characters of a request: an experience may ask for brevity.
Limits == {"brief", "full"}

\* What an answer may hold: the text of a reply, or an interpretation.  What is
\* malformed for one purpose is any content of the other.
Replies == {"plain", "lengthy", "claiming", "impostor"}
Notes == {"note", "misquote"}
Contents == Replies \cup Notes

Statuses == {"success", "unavailable", "timeout", "invalid_output", "constraint_violation"}

VARIABLES
    inputs,     \* what Judgment finalized for every lifecycle so far, and how
                \* long a reply to it may be
    requests,   \* _intelligence_requests of Core, of this process
    results,    \* _results of AuxiliaryIntelligence
    reviews,    \* _intelligence_reviews of Judgment
    adoptions,  \* _intelligence_adoptions of Core
    turn,       \* the local variables of the running text input
    owned,      \* what the owners hold in memory
    saved,      \* what the newest checkpoint holds
    traces,     \* the table intelligence_trace
    healthy,    \* persistence_healthy
    told,       \* history: the outcomes that callers were given
    directs,    \* bound: calls by another caller in this process
    faults      \* bound

vars == <<inputs, requests, results, reviews, adoptions, turn, owned, saved, traces,
          healthy, told, directs, faults>>

None == "none"
Texts == Contents \cup {None}

\* The limit matters for a response only.
Input == {i \in [direction : Directions, limit : Limits] :
            i.direction = "other" => i.limit = "full"}
Request == [lifecycle : Lifecycles, purpose : Purposes, limit : Limits]
Result == [request : Nat, status : Statuses, text : Texts]
Review == [result : Nat, accepted : BOOLEAN]
Adoption == [request : Nat, result : Nat, review : Nat, adopted : BOOLEAN]
Trace == [lifecycle : Lifecycles, purpose : Purposes, status : Statuses, adopted : BOOLEAN]

\* An answer that was published: was the model asked, and its words in it,
\* None for the fixed reply.
Outcome == [lifecycle : Lifecycles, asked : BOOLEAN, text : Texts]
Owned == [answers : SUBSET Outcome, memories : SUBSET Lifecycles]

\* request: the one that waits for its answer; adoption: the decision on the reply.
Turn == [stage : {"idle", "asking", "deciding", "recorded", "noting", "noted", "traceable", "saving"},
         lifecycle : Nat, request : Nat, adoption : Nat]

TypeOK ==
    /\ inputs \in Seq(Input) /\ Len(inputs) <= MaxInputs
    /\ requests \in Seq(Request)
    /\ results \in Seq(Result)
    /\ \A k \in DOMAIN results : results[k].request \in DOMAIN requests
    /\ reviews \in Seq(Review)
    /\ \A v \in DOMAIN reviews : reviews[v].result \in DOMAIN results
    /\ adoptions \in Seq(Adoption)
    /\ turn \in Turn
    /\ turn.lifecycle <= Len(inputs) /\ turn.request <= Len(requests) /\ turn.adoption <= Len(adoptions)
    /\ owned \in Owned /\ saved \in Owned
    /\ traces \subseteq Trace
    /\ healthy \in BOOLEAN
    /\ told \subseteq Outcome
    /\ directs \in 0..MaxDirect /\ faults \in 0..MaxFaults

Waiting == [stage |-> "idle", lifecycle |-> 0, request |-> 0, adoption |-> 0]
Nothing == [answers |-> {}, memories |-> {}]

Init ==
    /\ inputs = <<>>
    /\ requests = <<>> /\ results = <<>> /\ reviews = <<>> /\ adoptions = <<>>
    /\ turn = Waiting
    /\ owned = Nothing /\ saved = Nothing
    /\ traces = {}
    /\ healthy = TRUE
    /\ told = {}
    /\ directs = 0 /\ faults = 0

Fault == faults < MaxFaults /\ faults' = faults + 1

------------------------------------------------------------------------------
(* The organs.                                                             *)

\* integrate_intelligence_request: only for a finalized response
MayUse(input) == input.direction = "respond"

\* The reply schema, or that of an interpretation.
Matches(purpose, content) ==
    \/ purpose = "reply" /\ content \in Replies
    \/ purpose = "memory" /\ content \in Notes

Violates(limit, content) == content = "claiming" \/ (content = "lengthy" /\ limit = "brief")

\* generate_candidate: the result of a response, which is a failure or a content
Answered(r, response) ==
    LET failed(status) == [request |-> r, status |-> status, text |-> None]
    IN  IF response \in Failures THEN failed(response)
        ELSE IF ~Matches(requests[r].purpose, response) THEN failed("invalid_output")
        ELSE IF Violates(requests[r].limit, response) THEN failed("constraint_violation")
        ELSE [request |-> r, status |-> "success", text |-> response]

\* review_intelligence_result
Reviewed(k, result) == [result |-> k, accepted |-> result.status = "success"]

\* Faulty variant of Identify: the result may answer another request.
IdentifyAnyResult(r, k, v, l) ==
    /\ reviews[v].result = k
    /\ requests[r].lifecycle = l
    /\ MayUse(inputs[l])

\* finalize_intelligence_adoption takes only inputs of one lifecycle.
Identify(r, k, v, l) ==
    /\ results[k].request = r
    /\ reviews[v].result = k
    /\ requests[r].lifecycle = l
    /\ MayUse(inputs[l])

\* _candidate_preserves_verified_identity; an interpretation has no speaker.
Eligible(r, text) == requests[r].purpose = "memory" \/ text # "impostor"

\* Its candidate must be the one that was reviewed.
Decided(r, k, v) ==
    [request |-> r, result |-> k, review |-> v,
     adopted |-> reviews[v].accepted /\ results[k].text # None /\ Eligible(r, results[k].text)]

\* express_adopted_candidate and review_intelligence_expression: the reply is
\* the adopted candidate, word for word, or the fixed one.
Expressed(d) == IF d.adopted THEN results[d.result].text ELSE None

Traced(d) ==
    [lifecycle |-> requests[d.request].lifecycle, purpose |-> requests[d.request].purpose,
     status |-> results[d.result].status, adopted |-> d.adopted]

------------------------------------------------------------------------------
(* The text runner.                                                        *)

At(stage) == turn.stage = stage
Raises == turn' = Waiting
Goes(stage, request, adoption) ==
    turn' = [stage |-> stage, lifecycle |-> turn.lifecycle, request |-> request, adoption |-> adoption]
Published(outcome) == [owned EXCEPT !.answers = @ \cup {outcome}]

\* accept_event to integrate_intelligence_request.  A long input and some
\* commands do without the model.
Begin(input, asks) ==
    /\ At("idle") /\ healthy
    /\ Len(inputs) < MaxInputs
    /\ inputs' = Append(inputs, input)
    /\ LET l == Len(inputs) + 1
           request == [lifecycle |-> l, purpose |-> "reply", limit |-> input.limit]
       IN  IF asks /\ MayUse(input)
           THEN /\ requests' = Append(requests, request)
                /\ turn' = [stage |-> "asking", lifecycle |-> l, request |-> Len(requests) + 1, adoption |-> 0]
                /\ owned' = owned
           ELSE /\ requests' = requests
                /\ turn' = [stage |-> "saving", lifecycle |-> l, request |-> 0, adoption |-> 0]
                /\ owned' = Published([lifecycle |-> l, asked |-> FALSE, text |-> None])
    /\ UNCHANGED <<results, reviews, adoptions, saved, traces, healthy, told, directs, faults>>

\* generate_candidate and review_intelligence_result
Answer(response) ==
    /\ At("asking") \/ At("noting")
    /\ LET result == Answered(turn.request, response)
       IN  /\ results' = Append(results, result)
           /\ reviews' = Append(reviews, Reviewed(Len(results) + 1, result))
    /\ Goes(IF At("asking") THEN "deciding" ELSE "noted", turn.request, turn.adoption)
    /\ UNCHANGED <<inputs, requests, adoptions, owned, saved, traces, healthy, told, directs, faults>>

\* The connection breaks in the middle of the answer: neither a timeout nor an
\* OSError, so it leaves generate as an exception.
Lost ==
    /\ At("asking") \/ At("noting")
    /\ Fault
    /\ Raises
    /\ UNCHANGED <<inputs, requests, results, reviews, adoptions, owned, saved, traces, healthy, told, directs>>

Current == Decided(turn.request, Len(results), Len(reviews))

\* finalize_intelligence_adoption to _record_dialogue_context
Decide ==
    /\ At("deciding")
    /\ adoptions' = Append(adoptions, Current)
    /\ owned' = Published([lifecycle |-> turn.lifecycle, asked |-> TRUE, text |-> Expressed(Current)])
    /\ Goes("recorded", turn.request, Len(adoptions) + 1)
    /\ UNCHANGED <<inputs, requests, results, reviews, saved, traces, healthy, told, directs, faults>>

\* A second request only after a first success.
Understood == results[adoptions[turn.adoption].result].status = "success"

\* _request_memory_interpretation, for an input that is not already a command
Interpret ==
    /\ At("recorded") /\ Understood
    /\ LET request == [lifecycle |-> turn.lifecycle, purpose |-> "memory", limit |-> "full"]
       IN  requests' = Append(requests, request)
    /\ Goes("noting", Len(requests) + 1, turn.adoption)
    /\ UNCHANGED <<inputs, results, reviews, adoptions, owned, saved, traces, healthy, told, directs, faults>>

\* Faulty variant of NoteTraces: only replies are traced.
NoteTracesNone(d) == {}

NoteTraces(d) == {Traced(d)}

\* interpret_adopted_memory_candidate: the quote is of this input.
Usable(d) == d.adopted /\ results[d.result].text = "note"

\* The trace of the interpretation is stored before it is used.
Note ==
    /\ At("noted")
    /\ adoptions' = Append(adoptions, Current)
    /\ traces' = traces \cup NoteTraces(Current)
    /\ owned' = IF Usable(Current) THEN [owned EXCEPT !.memories = @ \cup {turn.lifecycle}] ELSE owned
    /\ Goes("traceable", turn.request, turn.adoption)
    /\ UNCHANGED <<inputs, requests, results, reviews, saved, healthy, told, directs, faults>>

\* Outside the block that marks the store unhealthy.
NoteFails ==
    /\ At("noted")
    /\ Fault
    /\ adoptions' = Append(adoptions, Current)
    /\ Raises
    /\ UNCHANGED <<inputs, requests, results, reviews, owned, saved, traces, healthy, told, directs>>

\* _store_trace, of the reply
StoreTrace ==
    /\ At("recorded") \/ At("traceable")
    /\ traces' = traces \cup {Traced(adoptions[turn.adoption])}
    /\ Goes("saving", turn.request, turn.adoption)
    /\ UNCHANGED <<inputs, requests, results, reviews, adoptions, owned, saved, healthy, told, directs, faults>>

\* Faulty variant of AfterFailedTrace: the trace is taken for maintenance.
AfterFailedTraceGoesOn == Goes("saving", turn.request, turn.adoption) /\ healthy' = healthy

AfterFailedTrace == Raises /\ healthy' = FALSE

StoreTraceFails ==
    /\ At("recorded") \/ At("traceable")
    /\ Fault
    /\ AfterFailedTrace
    /\ UNCHANGED <<inputs, requests, results, reviews, adoptions, owned, saved, traces, told, directs>>

\* The checkpoint of the input; its outcome is returned.
Commit ==
    /\ At("saving")
    /\ saved' = owned
    /\ told' = told \cup {o \in owned.answers : o.lifecycle = turn.lifecycle}
    /\ turn' = Waiting
    /\ UNCHANGED <<inputs, requests, results, reviews, adoptions, owned, traces, healthy, directs, faults>>

CommitFails ==
    /\ At("saving")
    /\ Fault
    /\ Raises
    /\ healthy' = FALSE
    /\ UNCHANGED <<inputs, requests, results, reviews, adoptions, owned, saved, traces, told, directs>>

------------------------------------------------------------------------------
(* The process, and another caller of the organs.                          *)

\* The checkpoint of a time event or of a new dialogue context.
Checkpoint ==
    /\ At("idle") /\ healthy
    /\ saved' = owned
    /\ UNCHANGED <<inputs, requests, results, reviews, adoptions, turn, owned, traces, healthy, told, directs, faults>>

Restart ==
    /\ Fault
    /\ requests' = <<>> /\ results' = <<>> /\ reviews' = <<>> /\ adoptions' = <<>>
    /\ turn' = Waiting
    /\ owned' = saved
    /\ healthy' = TRUE
    /\ directs' = 0
    /\ UNCHANGED <<inputs, saved, traces, told>>

Direct ==
    /\ At("idle")
    /\ directs < MaxDirect /\ directs' = directs + 1
    /\ UNCHANGED <<inputs, requests, turn, owned, saved, traces, healthy, told, faults>>

\* Asks again, and has the answer reviewed.
DirectAnswer(r, response) ==
    /\ Direct
    /\ LET result == Answered(r, response)
       IN  /\ results' = Append(results, result)
           /\ reviews' = Append(reviews, Reviewed(Len(results) + 1, result))
    /\ UNCHANGED adoptions

DirectAdoption(r, k, v, l) ==
    /\ Direct
    /\ Identify(r, k, v, l)
    /\ adoptions' = Append(adoptions, Decided(r, k, v))
    /\ UNCHANGED <<results, reviews>>

------------------------------------------------------------------------------
TextInput ==
    \/ \E input \in Input, asks \in BOOLEAN : Begin(input, asks)
    \/ \E response \in Failures \cup Contents : Answer(response)
    \/ Lost \/ Decide \/ Interpret \/ Note \/ NoteFails
    \/ StoreTrace \/ StoreTraceFails \/ Commit \/ CommitFails

OtherCaller ==
    \/ \E r \in DOMAIN requests, response \in Failures \cup Contents : DirectAnswer(r, response)
    \/ \E r \in DOMAIN requests, k \in DOMAIN results, v \in DOMAIN reviews, l \in DOMAIN inputs :
        DirectAdoption(r, k, v, l)

Next == TextInput \/ OtherCaller \/ Checkpoint \/ Restart

Spec == Init /\ [][Next]_vars

------------------------------------------------------------------------------
\* Core adopts a candidate only if it answers that very request, was reviewed
\* itself, keeps within the limit of the request and the verified identity, and
\* belongs to a lifecycle that responds (finalize_intelligence_adoption), in
\* whatever combination issued records are passed to it.
AdoptionIsEarned ==
    \A a \in DOMAIN adoptions : adoptions[a].adopted =>
        LET d == adoptions[a]
            request == requests[d.request]
            result == results[d.result]
        IN  /\ result.request = d.request /\ result.status = "success"
            /\ reviews[d.review] = [result |-> d.result, accepted |-> TRUE]
            /\ inputs[request.lifecycle].direction = "respond"
            /\ result.text \in IF request.purpose = "memory" THEN Notes ELSE {"plain", "lengthy"}
            /\ result.text = "lengthy" => request.limit = "full"

ReplyTraces(l) == {t \in traces : t.lifecycle = l /\ t.purpose = "reply"}

\* The trace table tells whose words an answer holds.
Explained(o) ==
    IF o.asked
    THEN \E t \in ReplyTraces(o.lifecycle) :
            ReplyTraces(o.lifecycle) = {t} /\ (t.adopted <=> o.text # None)
    ELSE ReplyTraces(o.lifecycle) = {}

\* Words of the model are those of a reply, in a response, within its limit.
Fitting(o) ==
    o.text # None =>
        /\ o.asked
        /\ inputs[o.lifecycle].direction = "respond"
        /\ o.text \in {"plain", "lengthy"}
        /\ o.text = "lengthy" => inputs[o.lifecycle].limit = "full"

\* What a caller is told is saved, and the trace table explains it: also when an
\* answer failed, a memory was interpreted, a write failed or the process was
\* restarted.  Words of the model are told only if they fit (run, _store_trace).
ToldMeansTraced == \A o \in told : o \in saved.answers /\ Explained(o) /\ Fitting(o)

\* A memory that was formed from an interpretation, in memory or in a
\* checkpoint, has the trace of the adopted answer it came from, and the
\* lifecycle whose input it interprets is kept with it: also when the input was
\* broken off later and another entry point saved what it left behind
\* (_request_memory_interpretation).
MemoriesAreTraced ==
    \A o \in {owned, saved} : \A l \in o.memories :
        /\ [lifecycle |-> l, purpose |-> "memory", status |-> "success", adopted |-> TRUE] \in traces
        /\ \E answer \in o.answers : answer.lifecycle = l /\ answer.asked

\* "intelligence request cannot execute more than once" (the message of
\* generate_candidate).
RequestExecutesOnce ==
    \A j, k \in DOMAIN results : results[j].request = results[k].request => j = k

\* What is saved of an answer of the model has its trace (the purpose of the
\* trace in docs/03_design/015).
SavedMeansTraced ==
    \A o \in saved.answers : o.asked => \E t \in traces : t.lifecycle = o.lifecycle /\ t.purpose = "reply"
=============================================================================
