--------------------- MODULE IntelligenceAdoption_proofs ---------------------
(***************************************************************************)
(* Type correctness of IntelligenceAdoption, and its three invariants, for *)
(* all values of the constants.                                            *)
(*                                                                         *)
(* The registers are linked by their places: a successful result answers   *)
(* its request within the limit (ResultsFit), a review tells the status of *)
(* its result.  The local variables of the running input point to the last *)
(* entries (TurnLinked), which no other caller can disturb as it comes in  *)
(* only between inputs.  A lifecycle has one answer, and no trace of a     *)
(* reply until the input stores it (Untraced); so what is told is          *)
(* explained by exactly one trace, and stays so.                           *)
(***************************************************************************)
EXTENDS IntelligenceAdoption, TLAPS

RequestsRespond ==
    \A r \in DOMAIN requests :
        /\ requests[r].lifecycle \in DOMAIN inputs
        /\ inputs[requests[r].lifecycle].direction = "respond"

\* The limit of a reply is that of its input.
LimitsAgree ==
    \A r \in DOMAIN requests :
        requests[r].purpose = "reply" => requests[r].limit = inputs[requests[r].lifecycle].limit

Fits(result) ==
    LET request == requests[result.request]
    IN  /\ (result.status = "success") <=> (result.text # None)
        /\ result.status = "success" =>
            /\ Matches(request.purpose, result.text)
            /\ ~Violates(request.limit, result.text)

ResultsFit == \A k \in DOMAIN results : Fits(results[k])

ReviewsTell ==
    \A v \in DOMAIN reviews :
        reviews[v].accepted <=> results[reviews[v].result].status = "success"

\* What a decision decides on.
Linked(d) ==
    /\ d.request \in DOMAIN requests
    /\ d.result \in DOMAIN results
    /\ d.review \in DOMAIN reviews
    /\ results[d.result].request = d.request
    /\ reviews[d.review].result = d.result
    /\ d.adopted => /\ results[d.result].status = "success"
                    /\ Eligible(d.request, results[d.result].text)

AdoptionsLinked == \A a \in DOMAIN adoptions : Linked(adoptions[a])

Registers ==
    /\ RequestsRespond
    /\ LimitsAgree
    /\ ResultsFit
    /\ ReviewsTell
    /\ AdoptionsLinked

\* A request of the running input waits, or was just answered.
Waits(purpose) ==
    /\ turn.request \in DOMAIN requests
    /\ requests[turn.request].lifecycle = turn.lifecycle
    /\ requests[turn.request].purpose = purpose

JustAnswered ==
    /\ Len(results) \in DOMAIN results
    /\ Len(reviews) \in DOMAIN reviews
    /\ results[Len(results)].request = turn.request
    /\ reviews[Len(reviews)].result = Len(results)

Answering == {"asking", "deciding"}
Recorded == {"recorded", "noting", "noted", "traceable"}

\* The decision on the reply of the running input, and the answer it became.
ReplyDecided ==
    /\ turn.adoption \in DOMAIN adoptions
    /\ LET d == adoptions[turn.adoption]
       IN  /\ requests[d.request].lifecycle = turn.lifecycle
           /\ requests[d.request].purpose = "reply"
           /\ [lifecycle |-> turn.lifecycle, asked |-> TRUE, text |-> Expressed(d)] \in owned.answers

TurnLinked ==
    /\ turn.stage # "idle" => turn.lifecycle = Len(inputs) /\ turn.lifecycle \in DOMAIN inputs
    /\ turn.stage \in {"asking", "deciding"} => Waits("reply")
    /\ turn.stage \in {"noting", "noted"} => Waits("memory")
    /\ turn.stage \in {"deciding", "noted"} => JustAnswered
    /\ turn.stage \in Recorded => ReplyDecided

Answers ==
    /\ saved.answers \subseteq owned.answers
    /\ \A o \in owned.answers : o.lifecycle \in DOMAIN inputs /\ Fitting(o)
    /\ \A o, p \in owned.answers : o.lifecycle = p.lifecycle => o = p
    /\ turn.stage \in Answering => \A o \in owned.answers : o.lifecycle # turn.lifecycle
    /\ turn.stage # "idle" => \A o \in saved.answers : o.lifecycle # turn.lifecycle

Untraced ==
    /\ \A t \in traces : t.lifecycle \in DOMAIN inputs
    /\ turn.stage \in Answering \cup Recorded => ReplyTraces(turn.lifecycle) = {}
    /\ turn.stage = "saving" =>
        \A o \in owned.answers : o.lifecycle = turn.lifecycle => Explained(o)

IInv ==
    /\ TypeOK
    /\ Registers
    /\ TurnLinked
    /\ Answers
    /\ Untraced
    /\ ToldMeansTraced
    /\ MemoriesAreTraced

------------------------------------------------------------------------------
LEMMA Constants == MaxInputs \in Nat /\ MaxDirect \in Nat /\ MaxFaults \in Nat
BY IntelligenceBounds

LEMMA WaitingIsTurn == Waiting \in Turn /\ Waiting.stage = "idle" /\ Waiting.request = 0 /\ Waiting.adoption = 0 /\ Waiting.lifecycle = 0
BY DEF Waiting, Turn

LEMMA Initially == Init => IInv
<1> SUFFICES ASSUME Init PROVE IInv
  OBVIOUS
<1>1. TypeOK
  <2>1. Nothing \in Owned
    BY DEF Nothing, Owned
  <2> QED
    BY <2>1, WaitingIsTurn, Constants DEF Init, TypeOK
<1>2. Registers
  BY DEF Init, Registers, RequestsRespond, LimitsAgree, ResultsFit, ReviewsTell, AdoptionsLinked
<1>3. TurnLinked /\ Answers /\ Untraced
  BY WaitingIsTurn DEF Init, TurnLinked, Answers, Untraced, Nothing, Answering, Recorded
<1>4. ToldMeansTraced /\ MemoriesAreTraced
  BY DEF Init, ToldMeansTraced, MemoriesAreTraced, Nothing
<1> QED
  BY <1>1, <1>2, <1>3, <1>4 DEF IInv

------------------------------------------------------------------------------
(* Type correctness, in three parts.                                       *)

RegistersTyped ==
    /\ inputs \in Seq(Input) /\ Len(inputs) <= MaxInputs
    /\ requests \in Seq(Request)
    /\ results \in Seq(Result)
    /\ \A k \in DOMAIN results : results[k].request \in DOMAIN requests
    /\ reviews \in Seq(Review)
    /\ \A v \in DOMAIN reviews : reviews[v].result \in DOMAIN results
    /\ adoptions \in Seq(Adoption)

TurnTyped ==
    /\ turn \in Turn
    /\ turn.lifecycle <= Len(inputs) /\ turn.request <= Len(requests) /\ turn.adoption <= Len(adoptions)

StoresTyped ==
    /\ owned \in Owned /\ saved \in Owned
    /\ traces \subseteq Trace
    /\ healthy \in BOOLEAN
    /\ told \subseteq Outcome
    /\ directs \in 0..MaxDirect /\ faults \in 0..MaxFaults

LEMMA TypesSplit == TypeOK <=> RegistersTyped /\ TurnTyped /\ StoresTyped
BY DEF TypeOK, RegistersTyped, TurnTyped, StoresTyped

LEMMA TypesSplitNext == TypeOK' <=> RegistersTyped' /\ TurnTyped' /\ StoresTyped'
BY TypesSplit, PTL

\* What an answer of the model becomes is a result of its request.
LEMMA AnsweredIsResult ==
    ASSUME TypeOK, NEW r \in DOMAIN requests, NEW response \in Failures \cup Contents
    PROVE  /\ Answered(r, response) \in Result
           /\ Answered(r, response).request = r
           /\ Fits(Answered(r, response))
<1>1. Failures \subseteq Statuses /\ "success" \notin Failures
  BY IntelligenceBounds DEF Statuses
<1>2. r \in Nat
  BY DEF TypeOK
<1>3. CASE response \in Failures
  BY <1>1, <1>2, <1>3 DEF Answered, Result, Fits, Texts
<1>4. CASE response \notin Failures /\ ~Matches(requests[r].purpose, response)
  BY <1>2, <1>4 DEF Answered, Result, Fits, Texts, Statuses
<1>5. CASE /\ response \notin Failures /\ Matches(requests[r].purpose, response)
           /\ Violates(requests[r].limit, response)
  BY <1>2, <1>5 DEF Answered, Result, Fits, Texts, Statuses
<1>6. CASE /\ response \notin Failures /\ Matches(requests[r].purpose, response)
           /\ ~Violates(requests[r].limit, response)
  BY <1>2, <1>6 DEF Answered, Result, Fits, Texts, Statuses, Contents, None, Replies, Notes
<1> QED
  BY <1>3, <1>4, <1>5, <1>6

LEMMA DecidedIsAdoption ==
    ASSUME TypeOK, NEW r \in DOMAIN requests, NEW k \in DOMAIN results, NEW v \in DOMAIN reviews
    PROVE  Decided(r, k, v) \in Adoption
<1>1. r \in Nat /\ k \in Nat /\ v \in Nat
  BY DEF TypeOK
<1>3. (reviews[v].accepted /\ results[k].text # None /\ Eligible(r, results[k].text)) \in BOOLEAN
  OBVIOUS
<1> QED
  BY <1>1, <1>3 DEF Decided, Adoption

\* A place in a register stays one when the register grows.
LEMMA Grows ==
    ASSUME NEW S, NEW s \in Seq(S), NEW x \in S
    PROVE  /\ Append(s, x) \in Seq(S)
           /\ DOMAIN Append(s, x) = DOMAIN s \cup {Len(s) + 1}
           /\ Len(Append(s, x)) = Len(s) + 1
           /\ Append(s, x)[Len(s) + 1] = x
           /\ \A i \in DOMAIN s : i # Len(s) + 1 /\ Append(s, x)[i] = s[i]
           /\ Len(s) \in Nat
           /\ DOMAIN s = 1..Len(s)
OBVIOUS

LEMMA PublishedIsOwned ==
    ASSUME TypeOK, NEW o \in Outcome
    PROVE  /\ Published(o) \in Owned
           /\ Published(o).answers = owned.answers \cup {o}
           /\ Published(o).memories = owned.memories
BY DEF TypeOK, Published, Owned

\* The decision of the running input, when an answer was just received.
LEMMA CurrentIsAdoption ==
    ASSUME TypeOK, TurnLinked, turn.stage \in {"deciding", "noted"}
    PROVE  /\ Current \in Adoption
           /\ turn.request \in DOMAIN requests
           /\ Len(results) \in DOMAIN results
           /\ Len(reviews) \in DOMAIN reviews
<1>1. /\ turn.request \in DOMAIN requests
      /\ Len(results) \in DOMAIN results
      /\ Len(reviews) \in DOMAIN reviews
  BY DEF TurnLinked, Waits, JustAnswered
<1> QED
  BY <1>1, DecidedIsAdoption DEF Current

\* The words of a decision are words.
LEMMA ExpressedIsText ==
    ASSUME TypeOK, NEW d, d.adopted => d.result \in DOMAIN results
    PROVE  Expressed(d) \in Texts
<1>1. \A k \in DOMAIN results : results[k] \in Result
  BY DEF TypeOK
<1>2. \A k \in DOMAIN results : results[k].text \in Texts
  BY <1>1 DEF Result
<1>3. "none" \in Texts
  BY DEF Texts, None
<1> QED
  BY <1>2, <1>3 DEF Expressed, None

LEMMA TracedIsTrace ==
    ASSUME TypeOK, NEW d \in Adoption, d.request \in DOMAIN requests, d.result \in DOMAIN results
    PROVE  Traced(d) \in Trace
<1>1. requests[d.request] \in Request /\ results[d.result] \in Result
  BY DEF TypeOK
<1> QED
  BY <1>1 DEF Traced, Trace, Request, Result, Adoption

LEMMA GoesIsTurn ==
    ASSUME TurnTyped, NEW stage, NEW r, NEW a, Goes(stage, r, a), turn.stage # "idle",
           stage \in {"asking", "deciding", "recorded", "noting", "noted", "traceable", "saving"},
           r \in 0..Len(requests'), a \in 0..Len(adoptions'),
           Len(requests') \in Nat, Len(adoptions') \in Nat, inputs' = inputs
    PROVE  TurnTyped'
<1>1. turn.lifecycle \in Nat /\ turn.lifecycle <= Len(inputs)
  BY DEF TurnTyped, Turn
<1>2. turn' = [stage |-> stage, lifecycle |-> turn.lifecycle, request |-> r, adoption |-> a]
  BY DEF Goes
<1> QED
  BY <1>1, <1>2 DEF TurnTyped, Turn

LEMMA RaisesIsTurn ==
    ASSUME IInv, Raises, Len(inputs') \in Nat, Len(requests') \in Nat, Len(adoptions') \in Nat
    PROVE  TurnTyped'
BY WaitingIsTurn DEF Raises, TurnTyped

\* Both registers grow by the answer and its review.
LEMMA AnswerIsTyped ==
    ASSUME TypeOK, NEW r \in DOMAIN requests, NEW response \in Failures \cup Contents,
           results' = Append(results, Answered(r, response)),
           reviews' = Append(reviews, Reviewed(Len(results) + 1, Answered(r, response))),
           inputs' = inputs, requests' = requests, adoptions' = adoptions
    PROVE  RegistersTyped'
<1> DEFINE result == Answered(r, response)
           review == Reviewed(Len(results) + 1, result)
<1>a. /\ results \in Seq(Result) /\ Len(results) \in Nat
      /\ reviews \in Seq(Review) /\ Len(reviews) \in Nat
  BY DEF TypeOK
<1>1. result \in Result /\ result.request = r
  BY AnsweredIsResult
<1>2. review \in Review /\ review.result = Len(results) + 1
  BY <1>a DEF Reviewed, Review
<1>3. results' = Append(results, result) /\ reviews' = Append(reviews, review)
  OBVIOUS
<1> HIDE DEF result, review
<1>4. /\ results' \in Seq(Result)
      /\ DOMAIN results' = DOMAIN results \cup {Len(results) + 1}
      /\ results'[Len(results) + 1] = result
      /\ \A k \in DOMAIN results : results'[k] = results[k]
  BY <1>1, <1>3, <1>a, Grows
<1>5. /\ reviews' \in Seq(Review)
      /\ DOMAIN reviews' = DOMAIN reviews \cup {Len(reviews) + 1}
      /\ reviews'[Len(reviews) + 1] = review
      /\ \A v \in DOMAIN reviews : reviews'[v] = reviews[v]
  BY <1>2, <1>3, <1>a, Grows
<1>6. \A k \in DOMAIN results' : results'[k].request \in DOMAIN requests'
  BY <1>1, <1>4 DEF TypeOK
<1>7. \A v \in DOMAIN reviews' : reviews'[v].result \in DOMAIN results'
  BY <1>2, <1>4, <1>5 DEF TypeOK
<1> QED
  BY <1>4, <1>5, <1>6, <1>7 DEF TypeOK, RegistersTyped

LEMMA StepKeepsRegistersTyped ==
    ASSUME IInv, [Next]_vars
    PROVE  RegistersTyped'
<1> USE DEF IInv
<1>a. /\ inputs \in Seq(Input) /\ Len(inputs) \in Nat
      /\ requests \in Seq(Request) /\ Len(requests) \in Nat
      /\ results \in Seq(Result) /\ Len(results) \in Nat
      /\ reviews \in Seq(Review) /\ Len(reviews) \in Nat
      /\ adoptions \in Seq(Adoption) /\ Len(adoptions) \in Nat
  BY DEF TypeOK
<1>b. RegistersTyped
  BY TypesSplit
<1>1. ASSUME UNCHANGED <<inputs, requests, results, reviews, adoptions>>
      PROVE  RegistersTyped'
  BY <1>1, <1>b DEF RegistersTyped
<1>2. ASSUME UNCHANGED <<inputs, results, reviews, adoptions>>,
             NEW request \in Request, requests' = Append(requests, request)
      PROVE  RegistersTyped'
  <2>1. requests' \in Seq(Request) /\ DOMAIN requests \subseteq DOMAIN requests'
    BY <1>2, <1>a, Grows
  <2> QED
    BY <1>2, <1>b, <2>1 DEF RegistersTyped
<1>3. ASSUME UNCHANGED <<inputs, requests, results, reviews>>,
             NEW d \in Adoption, adoptions' = Append(adoptions, d)
      PROVE  RegistersTyped'
  <2>1. adoptions' \in Seq(Adoption)
    BY <1>3, <1>a, Grows
  <2> QED
    BY <1>3, <1>b, <2>1 DEF RegistersTyped
<1>4. ASSUME NEW input \in Input, NEW asks \in BOOLEAN, Begin(input, asks)
      PROVE  RegistersTyped'
  <2> DEFINE l == Len(inputs) + 1
             request == [lifecycle |-> l, purpose |-> "reply", limit |-> input.limit]
  <2>1. Len(inputs) < MaxInputs /\ inputs' = Append(inputs, input)
        /\ results' = results /\ reviews' = reviews /\ adoptions' = adoptions
    BY <1>4 DEF Begin
  <2>2. l \in Lifecycles
    BY <2>1, <1>a, Constants DEF Lifecycles
  <2>3. input.limit \in Limits
    BY DEF Input
  <2>4. request \in Request
    BY <2>2, <2>3 DEF Request, Purposes
  <2>5. inputs' \in Seq(Input) /\ Len(inputs') <= MaxInputs
    BY <2>1, <1>a, Grows, Constants
  <2>6. requests' = requests \/ requests' = Append(requests, request)
    BY <1>4 DEF Begin
  <2> HIDE DEF request
  <2>7. requests' \in Seq(Request) /\ DOMAIN requests \subseteq DOMAIN requests'
    <3>1. CASE requests' = requests
      BY <3>1, <1>a
    <3>2. CASE requests' = Append(requests, request)
      BY <2>4, <3>2, <1>a, Grows
    <3> QED
      BY <2>6, <3>1, <3>2
  <2> QED
    BY <2>1, <2>5, <2>7, <1>b DEF RegistersTyped
<1>5. ASSUME NEW response \in Failures \cup Contents, Answer(response)
      PROVE  RegistersTyped'
  <2>1. turn.request \in DOMAIN requests
    BY <1>5 DEF Answer, At, TurnLinked, Waits
  <2> QED
    BY <1>5, <2>1, AnswerIsTyped DEF Answer
<1>6. CASE Decide
  BY <1>3, <1>6, CurrentIsAdoption DEF Decide, At
<1>7. CASE Interpret
  <2> DEFINE request == [lifecycle |-> turn.lifecycle, purpose |-> "memory", limit |-> "full"]
  <2>1. turn.lifecycle \in Lifecycles
    <3>1. turn.lifecycle = Len(inputs) /\ turn.lifecycle \in DOMAIN inputs
      BY <1>7 DEF Interpret, At, TurnLinked
    <3> QED
      BY <3>1, <1>a, Constants DEF Lifecycles, TypeOK
  <2>2. request \in Request
    BY <2>1 DEF Request, Purposes, Limits
  <2>3. requests' = Append(requests, request)
    BY <1>7 DEF Interpret
  <2> HIDE DEF request
  <2> QED
    BY <1>2, <1>7, <2>2, <2>3 DEF Interpret
<1>8. CASE Note
  BY <1>3, <1>8, CurrentIsAdoption DEF Note, At
<1>9. CASE NoteFails
  BY <1>3, <1>9, CurrentIsAdoption DEF NoteFails, At
<1>10. CASE Restart
  <2>1. requests' = <<>> /\ results' = <<>> /\ reviews' = <<>> /\ adoptions' = <<>> /\ inputs' = inputs
    BY <1>10 DEF Restart
  <2> QED
    BY <2>1, <1>b DEF RegistersTyped
<1>11. ASSUME NEW r \in DOMAIN requests, NEW response \in Failures \cup Contents,
              DirectAnswer(r, response)
       PROVE  RegistersTyped'
  BY <1>11, AnswerIsTyped DEF DirectAnswer, Direct
<1>12. ASSUME NEW r \in DOMAIN requests, NEW k \in DOMAIN results, NEW v \in DOMAIN reviews,
              NEW l \in DOMAIN inputs, DirectAdoption(r, k, v, l)
       PROVE  RegistersTyped'
  BY <1>3, <1>12, DecidedIsAdoption DEF DirectAdoption, Direct
<1>13. CASE Lost \/ StoreTrace \/ StoreTraceFails \/ Commit \/ CommitFails \/ Checkpoint \/ UNCHANGED vars
  BY <1>1, <1>13 DEF Lost, StoreTrace, StoreTraceFails, Commit, CommitFails, Checkpoint, vars
<1> QED
  BY <1>4, <1>5, <1>6, <1>7, <1>8, <1>9, <1>10, <1>11, <1>12, <1>13 DEF Next, TextInput, OtherCaller
LEMMA StepKeepsTurnTyped ==
    ASSUME IInv, [Next]_vars
    PROVE  TurnTyped'
<1> USE DEF IInv
<1>a. /\ inputs \in Seq(Input) /\ Len(inputs) \in Nat
      /\ requests \in Seq(Request) /\ Len(requests) \in Nat /\ DOMAIN requests = 1..Len(requests)
      /\ adoptions \in Seq(Adoption) /\ Len(adoptions) \in Nat /\ DOMAIN adoptions = 1..Len(adoptions)
  BY DEF TypeOK
<1>b. TurnTyped
  BY TypesSplit
<1>c. turn.request \in 0..Len(requests) /\ turn.adoption \in 0..Len(adoptions)
  BY <1>b, <1>a DEF TurnTyped, Turn
<1>1. ASSUME NEW input \in Input, NEW asks \in BOOLEAN, Begin(input, asks)
      PROVE  TurnTyped'
  <2>1. inputs' = Append(inputs, input) /\ adoptions' = adoptions
    BY <1>1 DEF Begin
  <2>2. Len(inputs') = Len(inputs) + 1
    BY <2>1, <1>a
  <2>3. CASE asks /\ MayUse(input)
    <3>1. turn' = [stage |-> "asking", lifecycle |-> Len(inputs) + 1, request |-> Len(requests) + 1, adoption |-> 0]
      BY <1>1, <2>3 DEF Begin
    <3>2. Len(requests') = Len(requests) + 1
      BY <1>1, <2>3, <1>a DEF Begin
    <3> QED
      BY <2>1, <2>2, <3>1, <3>2, <1>a DEF TurnTyped, Turn
  <2>4. CASE ~(asks /\ MayUse(input))
    <3>1. turn' = [stage |-> "saving", lifecycle |-> Len(inputs) + 1, request |-> 0, adoption |-> 0]
          /\ requests' = requests
      BY <1>1, <2>4 DEF Begin
    <3> QED
      BY <2>1, <2>2, <3>1, <1>a DEF TurnTyped, Turn
  <2> QED
    BY <2>3, <2>4
<1>2. ASSUME Goes("deciding", turn.request, turn.adoption) \/ Goes("noted", turn.request, turn.adoption)
             \/ Goes("traceable", turn.request, turn.adoption) \/ Goes("saving", turn.request, turn.adoption),
             turn.stage # "idle", Len(adoptions') \in Nat, Len(adoptions) <= Len(adoptions'),
             UNCHANGED <<inputs, requests>>
      PROVE  TurnTyped'
  <2>1. turn.request \in 0..Len(requests') /\ turn.adoption \in 0..Len(adoptions') /\ Len(requests') \in Nat
    BY <1>2, <1>a, <1>c
  <2> QED
    BY <1>2, <1>b, <2>1, GoesIsTurn
<1>3. CASE \E response \in Failures \cup Contents : Answer(response)
  <2>1. turn.stage # "idle" /\ UNCHANGED <<inputs, requests, adoptions>>
        /\ (Goes("deciding", turn.request, turn.adoption) \/ Goes("noted", turn.request, turn.adoption))
    BY <1>3 DEF Answer, At
  <2> QED
    BY <1>2, <2>1, <1>a
<1>4. CASE Decide
  <2>1. Len(adoptions') = Len(adoptions) + 1
    BY <1>4, CurrentIsAdoption, <1>a, Grows DEF Decide, At
  <2>2. turn.stage # "idle" /\ UNCHANGED <<inputs, requests>>
        /\ Goes("recorded", turn.request, Len(adoptions) + 1)
    BY <1>4 DEF Decide, At
  <2>3. turn.request \in 0..Len(requests') /\ Len(adoptions) + 1 \in 0..Len(adoptions')
        /\ Len(requests') \in Nat /\ Len(adoptions') \in Nat
    BY <2>1, <2>2, <1>a, <1>c
  <2> QED
    BY <2>2, <2>3, <1>b, GoesIsTurn
<1>5. CASE Interpret
  <2>1. Len(requests') = Len(requests) + 1
    BY <1>5, <1>a DEF Interpret
  <2>2. turn.stage # "idle" /\ UNCHANGED <<inputs, adoptions>>
        /\ Goes("noting", Len(requests) + 1, turn.adoption)
    BY <1>5 DEF Interpret, At
  <2>3. Len(requests) + 1 \in 0..Len(requests') /\ turn.adoption \in 0..Len(adoptions')
        /\ Len(requests') \in Nat /\ Len(adoptions') \in Nat
    BY <2>1, <2>2, <1>a, <1>c
  <2> QED
    BY <2>2, <2>3, <1>b, GoesIsTurn
<1>6. CASE Note
  <2>1. Len(adoptions') = Len(adoptions) + 1
    BY <1>6, CurrentIsAdoption, <1>a, Grows DEF Note, At
  <2>2. turn.stage # "idle" /\ UNCHANGED <<inputs, requests>>
        /\ Goes("traceable", turn.request, turn.adoption)
    BY <1>6 DEF Note, At
  <2>3. Len(adoptions') \in Nat /\ Len(adoptions) <= Len(adoptions')
    BY <2>1, <1>a
  <2> QED
    BY <1>2, <2>2, <2>3
<1>7. CASE NoteFails
  <2>1. Len(adoptions') = Len(adoptions) + 1
    BY <1>7, CurrentIsAdoption, <1>a, Grows DEF NoteFails, At
  <2>2. UNCHANGED <<inputs, requests>> /\ Raises
    BY <1>7 DEF NoteFails
  <2> QED
    BY <2>1, <2>2, <1>a, RaisesIsTurn
<1>8. CASE StoreTrace
  <2>1. turn.stage # "idle" /\ UNCHANGED <<inputs, requests, adoptions>>
        /\ Goes("saving", turn.request, turn.adoption)
    BY <1>8 DEF StoreTrace, At
  <2> QED
    BY <1>2, <2>1, <1>a
<1>9. CASE Lost \/ StoreTraceFails \/ CommitFails \/ Commit
  <2>1. UNCHANGED <<inputs, requests, adoptions>> /\ Raises
    BY <1>9 DEF Lost, StoreTraceFails, AfterFailedTrace, CommitFails, Commit, Raises
  <2> QED
    BY <2>1, <1>a, RaisesIsTurn
<1>10. CASE Restart
  <2>1. Raises /\ inputs' = inputs /\ requests' = <<>> /\ adoptions' = <<>>
    BY <1>10 DEF Restart, Raises
  <2> QED
    BY <2>1, <1>a, RaisesIsTurn
<1>11. ASSUME NEW r \in DOMAIN requests, NEW response \in Failures \cup Contents,
              DirectAnswer(r, response)
       PROVE  TurnTyped'
  BY <1>11, <1>b DEF DirectAnswer, Direct, TurnTyped
<1>12. ASSUME NEW r \in DOMAIN requests, NEW k \in DOMAIN results, NEW v \in DOMAIN reviews,
              NEW l \in DOMAIN inputs, DirectAdoption(r, k, v, l)
       PROVE  TurnTyped'
  <2>1. Len(adoptions') = Len(adoptions) + 1
    BY <1>12, DecidedIsAdoption, <1>a, Grows DEF DirectAdoption
  <2>2. turn' = turn /\ inputs' = inputs /\ requests' = requests
    BY <1>12 DEF DirectAdoption, Direct
  <2> QED
    BY <2>1, <2>2, <1>a, <1>b DEF TurnTyped, Turn
<1>13. CASE Checkpoint \/ UNCHANGED vars
  BY <1>13, <1>b DEF Checkpoint, vars, TurnTyped
<1> QED
  BY <1>1, <1>3, <1>4, <1>5, <1>6, <1>7, <1>8, <1>9, <1>10, <1>11, <1>12, <1>13
     DEF Next, TextInput, OtherCaller

LEMMA StepKeepsStoresTyped ==
    ASSUME IInv, [Next]_vars
    PROVE  StoresTyped'
<1> USE DEF IInv
<1>a. inputs \in Seq(Input) /\ Len(inputs) \in Nat /\ Len(inputs) <= MaxInputs
  BY DEF TypeOK
<1>b. StoresTyped
  BY TypesSplit
<1>c. turn.stage # "idle" => turn.lifecycle \in Lifecycles
  BY <1>a, Constants DEF TurnLinked, Lifecycles
<1>1. Fault => faults' \in 0..MaxFaults
  BY <1>b, Constants DEF Fault, StoresTyped
<1>2. ASSUME NEW input \in Input, NEW asks \in BOOLEAN, Begin(input, asks)
      PROVE  StoresTyped'
  <2> DEFINE unasked == [lifecycle |-> Len(inputs) + 1, asked |-> FALSE, text |-> None]
  <2>1. Len(inputs) < MaxInputs /\ (owned' = owned \/ owned' = Published(unasked))
    BY <1>2 DEF Begin
  <2>2. unasked \in Outcome
    BY <2>1, <1>a, Constants DEF Outcome, Lifecycles, Texts
  <2> HIDE DEF unasked
  <2>3. owned' \in Owned
    BY <2>1, <2>2, <1>b, PublishedIsOwned DEF StoresTyped
  <2> QED
    BY <1>2, <2>3, <1>b DEF Begin, StoresTyped
<1>3. CASE Decide
  <2> DEFINE outcome == [lifecycle |-> turn.lifecycle, asked |-> TRUE, text |-> Expressed(Current)]
  <2>1. Current.result = Len(results) /\ Len(results) \in DOMAIN results
    BY <1>3, CurrentIsAdoption DEF Decide, At, Current, Decided
  <2>2. Expressed(Current) \in Texts
    BY <2>1, ExpressedIsText
  <2>3. outcome \in Outcome
    BY <1>3, <1>c, <2>2 DEF Outcome, Decide, At
  <2>4. owned' = Published(outcome)
    BY <1>3 DEF Decide
  <2> HIDE DEF outcome
  <2>5. owned' \in Owned
    BY <2>3, <2>4, PublishedIsOwned
  <2> QED
    BY <1>3, <2>5, <1>b DEF Decide, StoresTyped
<1>4. CASE Note
  <2>1. Current \in Adoption /\ Current.result \in DOMAIN results /\ Current.request \in DOMAIN requests
    BY <1>4, CurrentIsAdoption DEF Note, At, Current, Decided
  <2>2. traces' \subseteq Trace
    <3>1. Traced(Current) \in Trace
      BY <2>1, TracedIsTrace
    <3> QED
      BY <1>4, <3>1, <1>b DEF Note, NoteTraces, StoresTyped
  <2>3. owned' \in Owned
    <3>1. turn.lifecycle \in Lifecycles
      BY <1>4, <1>c DEF Note, At
    <3>2. owned' = owned \/ owned' = [owned EXCEPT !.memories = @ \cup {turn.lifecycle}]
      BY <1>4 DEF Note
    <3> QED
      BY <3>1, <3>2, <1>b DEF StoresTyped, Owned
  <2> QED
    BY <1>4, <2>2, <2>3, <1>b DEF Note, StoresTyped
<1>5. CASE StoreTrace
  <2>1. turn.adoption \in DOMAIN adoptions
    BY <1>5 DEF StoreTrace, At, TurnLinked, Recorded, ReplyDecided
  <2>2. Traced(adoptions[turn.adoption]) \in Trace
    <3>1. adoptions[turn.adoption] \in Adoption /\ Linked(adoptions[turn.adoption])
      BY <2>1 DEF TypeOK, Registers, AdoptionsLinked
    <3> QED
      BY <3>1, TracedIsTrace DEF Linked
  <2> QED
    BY <1>5, <2>2, <1>b DEF StoreTrace, StoresTyped
<1>6. CASE Commit
  BY <1>6, <1>b DEF Commit, StoresTyped, Owned
<1>7. CASE Lost \/ NoteFails
  BY <1>7, <1>1, <1>b DEF Lost, NoteFails, StoresTyped
<1>8. CASE StoreTraceFails \/ CommitFails
  BY <1>8, <1>1, <1>b DEF StoreTraceFails, AfterFailedTrace, CommitFails, StoresTyped
<1>9. CASE Restart
  BY <1>9, <1>1, <1>b, Constants DEF Restart, StoresTyped
<1>10. CASE OtherCaller
  <2>1. Direct
    BY <1>10 DEF OtherCaller, DirectAnswer, DirectAdoption
  <2> QED
    BY <2>1, <1>b, Constants DEF Direct, StoresTyped
<1>11. CASE (\E response \in Failures \cup Contents : Answer(response)) \/ Interpret
  BY <1>11, <1>b DEF Answer, Interpret, StoresTyped
<1>12. CASE Checkpoint \/ UNCHANGED vars
  BY <1>12, <1>b DEF Checkpoint, vars, StoresTyped
<1> QED
  BY <1>2, <1>3, <1>4, <1>5, <1>6, <1>7, <1>8, <1>9, <1>10, <1>11, <1>12
     DEF Next, TextInput

LEMMA StepKeepsTypes ==
    ASSUME IInv, [Next]_vars
    PROVE  TypeOK'
BY StepKeepsRegistersTyped, StepKeepsTurnTyped, StepKeepsStoresTyped, TypesSplitNext
------------------------------------------------------------------------------
(* The registers stay linked.                                              *)

\* Every entry keeps its place.
Kept(s, t) == \A i \in DOMAIN s : i \in DOMAIN t /\ t[i] = s[i]

AllKept ==
    /\ Kept(inputs, inputs')
    /\ Kept(requests, requests')
    /\ Kept(results, results')
    /\ Kept(reviews, reviews')
    /\ Kept(adoptions, adoptions')

LEMMA AppendKeeps ==
    ASSUME NEW S, NEW s \in Seq(S), NEW x \in S
    PROVE  Kept(s, Append(s, x))
BY Grows DEF Kept

\* It is enough to look at what a step appends.
LEMMA RegistersGrow ==
    ASSUME TypeOK, Registers, AllKept,
           \A r \in DOMAIN requests' \ DOMAIN requests :
              /\ requests'[r].lifecycle \in DOMAIN inputs'
              /\ inputs'[requests'[r].lifecycle].direction = "respond"
              /\ requests'[r].purpose = "reply" => requests'[r].limit = inputs'[requests'[r].lifecycle].limit,
           \A k \in DOMAIN results' \ DOMAIN results : Fits(results[k])',
           \A v \in DOMAIN reviews' \ DOMAIN reviews :
              reviews'[v].accepted <=> results'[reviews'[v].result].status = "success",
           \A a \in DOMAIN adoptions' \ DOMAIN adoptions : Linked(adoptions[a])'
    PROVE  Registers'
<1>1. RequestsRespond'
  BY DEF Registers, RequestsRespond, AllKept, Kept
<1>2. LimitsAgree'
  BY DEF Registers, RequestsRespond, LimitsAgree, AllKept, Kept
<1>3. ResultsFit'
  <2>1. SUFFICES ASSUME NEW k \in DOMAIN results' PROVE Fits(results[k])'
    BY DEF ResultsFit
  <2>2. CASE k \in DOMAIN results
    <3>1. Fits(results[k]) /\ results'[k] = results[k]
          /\ results[k].request \in DOMAIN requests
          /\ requests'[results[k].request] = requests[results[k].request]
      BY <2>2 DEF Registers, ResultsFit, TypeOK, AllKept, Kept
    <3> QED
      BY <3>1 DEF Fits
  <2> QED
    BY <2>1, <2>2
<1>4. ReviewsTell'
  BY DEF Registers, ReviewsTell, TypeOK, AllKept, Kept
<1>5. AdoptionsLinked'
  <2>1. SUFFICES ASSUME NEW a \in DOMAIN adoptions' PROVE Linked(adoptions[a])'
    BY DEF AdoptionsLinked
  <2>2. CASE a \in DOMAIN adoptions
    <3>1. Linked(adoptions[a]) /\ adoptions'[a] = adoptions[a]
      BY <2>2 DEF Registers, AdoptionsLinked, AllKept, Kept
    <3> QED
      BY <3>1 DEF Linked, Eligible, AllKept, Kept
  <2> QED
    BY <2>1, <2>2
<1> QED
  BY <1>1, <1>2, <1>3, <1>4, <1>5 DEF Registers

\* A decision on a result and its review, whoever asks for it.
LEMMA DecidedIsLinked ==
    ASSUME TypeOK, Registers, NEW r \in DOMAIN requests, NEW k \in DOMAIN results, NEW v \in DOMAIN reviews,
           results[k].request = r, reviews[v].result = k
    PROVE  Linked(Decided(r, k, v))
<1>1. reviews[v].accepted <=> results[k].status = "success"
  BY DEF Registers, ReviewsTell
<1> QED
  BY <1>1 DEF Linked, Decided

LEMMA CurrentIsLinked ==
    ASSUME IInv, turn.stage \in {"deciding", "noted"}
    PROVE  Linked(Current) /\ Current.request = turn.request /\ Current \in Adoption
<1>1. /\ turn.request \in DOMAIN requests
      /\ Len(results) \in DOMAIN results /\ Len(reviews) \in DOMAIN reviews
      /\ results[Len(results)].request = turn.request /\ reviews[Len(reviews)].result = Len(results)
  BY DEF IInv, TurnLinked, Waits, JustAnswered
<1> QED
  BY <1>1, DecidedIsLinked, CurrentIsAdoption DEF IInv, Current, Decided

LEMMA ReviewedTells ==
    ASSUME NEW k \in Nat, NEW result
    PROVE  /\ Reviewed(k, result) \in Review
           /\ Reviewed(k, result).result = k
           /\ Reviewed(k, result).accepted <=> result.status = "success"
BY DEF Reviewed, Review

\* The answer and its review, appended.
LEMMA AnswerIsLinked ==
    ASSUME IInv, NEW r \in DOMAIN requests, NEW response \in Failures \cup Contents,
           results' = Append(results, Answered(r, response)),
           reviews' = Append(reviews, Reviewed(Len(results) + 1, Answered(r, response))),
           inputs' = inputs, requests' = requests, adoptions' = adoptions
    PROVE  /\ AllKept /\ Registers'
           /\ Len(results') \in DOMAIN results' /\ Len(reviews') \in DOMAIN reviews'
           /\ results'[Len(results')].request = r
           /\ reviews'[Len(reviews')].result = Len(results')
<1> USE DEF IInv
<1> DEFINE result == Answered(r, response)
           review == Reviewed(Len(results) + 1, result)
<1>a. /\ results \in Seq(Result) /\ Len(results) \in Nat
      /\ reviews \in Seq(Review) /\ Len(reviews) \in Nat
  BY DEF TypeOK
<1>1. result \in Result /\ result.request = r /\ Fits(result)
  BY AnsweredIsResult
<1>2. review \in Review /\ review.result = Len(results) + 1
      /\ (review.accepted <=> result.status = "success")
  <2> HIDE DEF result
  <2>1. Len(results) + 1 \in Nat
    BY <1>a
  <2> QED
    BY <2>1, ReviewedTells
<1>3. results' = Append(results, result) /\ reviews' = Append(reviews, review)
  OBVIOUS
<1> HIDE DEF result, review
<1>4. /\ DOMAIN results' = DOMAIN results \cup {Len(results) + 1}
      /\ Len(results') = Len(results) + 1
      /\ results'[Len(results) + 1] = result
      /\ \A k \in DOMAIN results : results'[k] = results[k]
  BY <1>1, <1>3, <1>a, Grows
<1>5. /\ DOMAIN reviews' = DOMAIN reviews \cup {Len(reviews) + 1}
      /\ Len(reviews') = Len(reviews) + 1
      /\ reviews'[Len(reviews) + 1] = review
      /\ \A v \in DOMAIN reviews : reviews'[v] = reviews[v]
  BY <1>2, <1>3, <1>a, Grows
<1>6. AllKept
  BY <1>4, <1>5 DEF AllKept, Kept
<1>7. \A k \in DOMAIN results' \ DOMAIN results : Fits(results[k])'
  BY <1>1, <1>4 DEF Fits
<1>8. \A v \in DOMAIN reviews' \ DOMAIN reviews :
         reviews'[v].accepted <=> results'[reviews'[v].result].status = "success"
  BY <1>2, <1>4, <1>5
<1>9. Registers'
  BY <1>6, <1>7, <1>8, RegistersGrow
<1> QED
  BY <1>1, <1>2, <1>4, <1>5, <1>6, <1>9

\* A decision, appended.
LEMMA DecisionIsLinked ==
    ASSUME IInv, NEW d \in Adoption, Linked(d), adoptions' = Append(adoptions, d),
           UNCHANGED <<inputs, requests, results, reviews>>
    PROVE  AllKept /\ Registers'
<1>1. AllKept
  BY AppendKeeps DEF IInv, TypeOK, AllKept, Kept
<1>2. adoptions \in Seq(Adoption)
  BY DEF IInv, TypeOK
<1>3. \A a \in DOMAIN adoptions' \ DOMAIN adoptions : adoptions'[a] = d
  BY <1>2, Grows
<1>4. \A a \in DOMAIN adoptions' \ DOMAIN adoptions : Linked(adoptions[a])'
  BY <1>3 DEF Linked, Eligible
<1> QED
  BY <1>1, <1>4, RegistersGrow DEF IInv

\* A request, appended, of an input that responds.
LEMMA RequestIsLinked ==
    ASSUME IInv, NEW request \in Request, requests' = Append(requests, request),
           Kept(inputs, inputs'), UNCHANGED <<results, reviews, adoptions>>,
           request.lifecycle \in DOMAIN inputs',
           inputs'[request.lifecycle].direction = "respond",
           request.purpose = "reply" => request.limit = inputs'[request.lifecycle].limit
    PROVE  /\ AllKept /\ Registers'
           /\ Len(requests') \in DOMAIN requests' /\ requests'[Len(requests')] = request
           /\ Len(requests') = Len(requests) + 1
<1>1. AllKept
  BY AppendKeeps DEF IInv, TypeOK, AllKept, Kept
<1>2. requests \in Seq(Request)
  BY DEF IInv, TypeOK
<1>3. \A r \in DOMAIN requests' \ DOMAIN requests : requests'[r] = request
  BY <1>2, Grows
<1>4. /\ Len(requests') \in DOMAIN requests' /\ requests'[Len(requests')] = request
      /\ Len(requests') = Len(requests) + 1
  BY <1>2, Grows
<1> QED
  BY <1>1, <1>3, <1>4, RegistersGrow DEF IInv

\* Only a restart forgets registers; nothing forgets an input.
LEMMA StepKeepsRegisters ==
    ASSUME IInv, [Next]_vars
    PROVE  Registers' /\ Kept(inputs, inputs') /\ (~Restart => AllKept)
<1> USE DEF IInv
<1>a. inputs \in Seq(Input) /\ Len(inputs) \in Nat
  BY DEF TypeOK
<1>1. ASSUME NEW input \in Input, NEW asks \in BOOLEAN, Begin(input, asks)
      PROVE  Registers' /\ Kept(inputs, inputs') /\ AllKept
  <2> DEFINE l == Len(inputs) + 1
             request == [lifecycle |-> l, purpose |-> "reply", limit |-> input.limit]
  <2>1. inputs' = Append(inputs, input) /\ UNCHANGED <<results, reviews, adoptions>> /\ l \in Lifecycles
    BY <1>1, <1>a, Constants DEF Begin, Lifecycles
  <2>2. Kept(inputs, inputs') /\ l \in DOMAIN inputs' /\ inputs'[l] = input
    BY <2>1, <1>a, AppendKeeps, Grows
  <2>3. CASE asks /\ MayUse(input)
    <3>1. requests' = Append(requests, request)
      BY <1>1, <2>3 DEF Begin
    <3>2. request \in Request /\ request.lifecycle = l /\ request.limit = input.limit
      BY <2>1 DEF Request, Purposes, Input
    <3>3. input.direction = "respond"
      BY <2>3 DEF MayUse
    <3> HIDE DEF request
    <3> QED
      BY <2>1, <2>2, <3>1, <3>2, <3>3, RequestIsLinked
  <2>4. CASE ~(asks /\ MayUse(input))
    <3>1. requests' = requests
      BY <1>1, <2>4 DEF Begin
    <3>2. AllKept
      BY <2>1, <2>2, <3>1 DEF AllKept, Kept
    <3> QED
      BY <2>1, <2>2, <3>1, <3>2, RegistersGrow
  <2> QED
    BY <2>3, <2>4
<1>2. ASSUME NEW response \in Failures \cup Contents, Answer(response)
      PROVE  Registers' /\ Kept(inputs, inputs') /\ AllKept
  <2>1. turn.request \in DOMAIN requests
    BY <1>2 DEF Answer, At, TurnLinked, Waits
  <2>2. AllKept /\ Registers'
    BY <1>2, <2>1, AnswerIsLinked DEF Answer
  <2> QED
    BY <2>2 DEF AllKept
<1>3. CASE Decide \/ Note \/ NoteFails
  <2>1. turn.stage \in {"deciding", "noted"} /\ adoptions' = Append(adoptions, Current)
        /\ UNCHANGED <<inputs, requests, results, reviews>>
    BY <1>3 DEF Decide, Note, NoteFails, At
  <2>2. AllKept /\ Registers'
    BY <2>1, CurrentIsLinked, DecisionIsLinked
  <2> QED
    BY <2>2 DEF AllKept
<1>4. CASE Interpret
  <2> DEFINE request == [lifecycle |-> turn.lifecycle, purpose |-> "memory", limit |-> "full"]
  <2>1. turn.stage = "recorded" /\ requests' = Append(requests, request)
        /\ UNCHANGED <<inputs, results, reviews, adoptions>>
    BY <1>4 DEF Interpret, At
  <2>2. turn.lifecycle \in DOMAIN inputs /\ inputs[turn.lifecycle].direction = "respond"
    <3>1. ReplyDecided
      BY <2>1 DEF TurnLinked, Recorded
    <3>2. turn.adoption \in DOMAIN adoptions
          /\ requests[adoptions[turn.adoption].request].lifecycle = turn.lifecycle
      BY <3>1 DEF ReplyDecided
    <3>3. adoptions[turn.adoption].request \in DOMAIN requests
      BY <3>2 DEF Registers, AdoptionsLinked, Linked
    <3> QED
      BY <3>2, <3>3 DEF Registers, RequestsRespond
  <2>3. request \in Request /\ request.lifecycle = turn.lifecycle /\ request.purpose = "memory"
    <3>1. turn.lifecycle \in Lifecycles
      BY <2>2, <1>a, Constants DEF TypeOK, Lifecycles
    <3> QED
      BY <3>1 DEF Request, Purposes, Limits
  <2>4. Kept(inputs, inputs')
    BY <2>1 DEF Kept
  <2> HIDE DEF request
  <2>5. AllKept /\ Registers'
    BY <2>1, <2>2, <2>3, <2>4, RequestIsLinked
  <2> QED
    BY <2>4, <2>5
<1>5. CASE Restart
  <2>1. requests' = <<>> /\ results' = <<>> /\ reviews' = <<>> /\ adoptions' = <<>> /\ inputs' = inputs
    BY <1>5 DEF Restart
  <2>2. Registers'
    BY <2>1 DEF Registers, RequestsRespond, LimitsAgree, ResultsFit, ReviewsTell, AdoptionsLinked
  <2> QED
    BY <1>5, <2>1, <2>2 DEF Kept
<1>6. ASSUME NEW r \in DOMAIN requests, NEW response \in Failures \cup Contents,
             DirectAnswer(r, response)
      PROVE  Registers' /\ Kept(inputs, inputs') /\ AllKept
  <2>1. AllKept /\ Registers'
    BY <1>6, AnswerIsLinked DEF DirectAnswer, Direct
  <2> QED
    BY <2>1 DEF AllKept
<1>7. ASSUME NEW r \in DOMAIN requests, NEW k \in DOMAIN results, NEW v \in DOMAIN reviews,
             NEW l \in DOMAIN inputs, DirectAdoption(r, k, v, l)
      PROVE  Registers' /\ Kept(inputs, inputs') /\ AllKept
  <2>1. Linked(Decided(r, k, v)) /\ Decided(r, k, v) \in Adoption
    BY <1>7, DecidedIsLinked, DecidedIsAdoption DEF DirectAdoption, Identify
  <2>2. AllKept /\ Registers'
    BY <1>7, <2>1, DecisionIsLinked DEF DirectAdoption, Direct
  <2> QED
    BY <2>2 DEF AllKept
<1>8. CASE Lost \/ StoreTrace \/ StoreTraceFails \/ Commit \/ CommitFails \/ Checkpoint \/ UNCHANGED vars
  <2>1. UNCHANGED <<inputs, requests, results, reviews, adoptions>>
    BY <1>8 DEF Lost, StoreTrace, StoreTraceFails, Commit, CommitFails, Checkpoint, vars
  <2>2. AllKept
    BY <2>1 DEF AllKept, Kept
  <2> QED
    BY <2>1, <2>2, RegistersGrow DEF AllKept
<1> QED
  BY <1>1, <1>2, <1>3, <1>4, <1>5, <1>6, <1>7, <1>8 DEF Next, TextInput, OtherCaller

\* What Core adopted was earned.
LEMMA EarnedFollows == IInv => AdoptionIsEarned
<1> SUFFICES ASSUME IInv, NEW a \in DOMAIN adoptions, adoptions[a].adopted
             PROVE  LET d == adoptions[a]
                        request == requests[d.request]
                        result == results[d.result]
                    IN  /\ result.request = d.request /\ result.status = "success"
                        /\ reviews[d.review] = [result |-> d.result, accepted |-> TRUE]
                        /\ inputs[request.lifecycle].direction = "respond"
                        /\ result.text \in IF request.purpose = "memory" THEN Notes ELSE {"plain", "lengthy"}
                        /\ result.text = "lengthy" => request.limit = "full"
  BY DEF AdoptionIsEarned
<1> USE DEF IInv
<1> DEFINE d == adoptions[a]
<1>1. Linked(d)
  BY DEF Registers, AdoptionsLinked
<1>2. /\ d.request \in DOMAIN requests /\ d.result \in DOMAIN results /\ d.review \in DOMAIN reviews
      /\ results[d.result].request = d.request /\ results[d.result].status = "success"
      /\ reviews[d.review].result = d.result /\ Eligible(d.request, results[d.result].text)
  BY <1>1 DEF Linked
<1>3. reviews[d.review] = [result |-> d.result, accepted |-> TRUE]
  <2>1. reviews[d.review] \in Review
    BY <1>2 DEF TypeOK
  <2>2. reviews[d.review].accepted
    BY <1>2 DEF Registers, ReviewsTell
  <2> QED
    BY <1>2, <2>1, <2>2 DEF Review
<1>4. inputs[requests[d.request].lifecycle].direction = "respond"
  BY <1>2 DEF Registers, RequestsRespond
<1>5. /\ Matches(requests[d.request].purpose, results[d.result].text)
      /\ ~Violates(requests[d.request].limit, results[d.result].text)
  BY <1>2 DEF Registers, ResultsFit, Fits
<1>6. requests[d.request] \in Request
  BY <1>2 DEF TypeOK
<1>7. /\ results[d.result].text \in IF requests[d.request].purpose = "memory" THEN Notes ELSE {"plain", "lengthy"}
      /\ results[d.result].text = "lengthy" => requests[d.request].limit = "full"
  BY <1>2, <1>5, <1>6 DEF Matches, Violates, Eligible, Replies, Request, Purposes, Limits
<1> QED
  BY <1>2, <1>3, <1>4, <1>7
------------------------------------------------------------------------------
(* The running input.                                                      *)

LEMMA WaitsStays ==
    ASSUME AllKept, NEW purpose, Waits(purpose),
           turn'.request = turn.request, turn'.lifecycle = turn.lifecycle
    PROVE  Waits(purpose)'
BY DEF AllKept, Kept, Waits

LEMMA ReplyStays ==
    ASSUME IInv, AllKept, ReplyDecided, owned.answers \subseteq owned'.answers,
           turn'.adoption = turn.adoption, turn'.lifecycle = turn.lifecycle
    PROVE  ReplyDecided'
<1> DEFINE d == adoptions[turn.adoption]
<1>1. /\ turn.adoption \in DOMAIN adoptions
      /\ requests[d.request].lifecycle = turn.lifecycle /\ requests[d.request].purpose = "reply"
      /\ [lifecycle |-> turn.lifecycle, asked |-> TRUE, text |-> Expressed(d)] \in owned.answers
  BY DEF ReplyDecided
<1>2. d.request \in DOMAIN requests /\ d.result \in DOMAIN results
  BY <1>1 DEF IInv, Registers, AdoptionsLinked, Linked
<1>3. /\ turn'.adoption \in DOMAIN adoptions' /\ adoptions'[turn'.adoption] = d
      /\ requests'[d.request] = requests[d.request] /\ results'[d.result] = results[d.result]
  BY <1>1, <1>2 DEF AllKept, Kept
<1> HIDE DEF d
<1> QED
  BY <1>1, <1>3 DEF ReplyDecided, Expressed

LEMMA StepKeepsTurn ==
    ASSUME IInv, [Next]_vars
    PROVE  TurnLinked'
<1> USE DEF IInv
<1>a. inputs \in Seq(Input) /\ Len(inputs) \in Nat /\ adoptions \in Seq(Adoption)
      /\ requests \in Seq(Request)
  BY DEF TypeOK
<1>b. ~Restart => AllKept
  BY StepKeepsRegisters
<1>1. ASSUME Raises
      PROVE  TurnLinked'
  BY <1>1, WaitingIsTurn DEF Raises, TurnLinked, Recorded
<1>2. ASSUME turn.stage = "idle", turn' = turn
      PROVE  TurnLinked'
  BY <1>2 DEF TurnLinked, Recorded
<1>3. ASSUME NEW input \in Input, NEW asks \in BOOLEAN, Begin(input, asks)
      PROVE  TurnLinked'
  <2> DEFINE l == Len(inputs) + 1
             request == [lifecycle |-> l, purpose |-> "reply", limit |-> input.limit]
  <2>1. inputs' = Append(inputs, input)
    BY <1>3 DEF Begin
  <2>2. Len(inputs') = l /\ l \in DOMAIN inputs'
    BY <2>1, <1>a, Grows
  <2>3. CASE asks /\ MayUse(input)
    <3>1. /\ requests' = Append(requests, request)
          /\ turn' = [stage |-> "asking", lifecycle |-> l, request |-> Len(requests) + 1, adoption |-> 0]
      BY <1>3, <2>3 DEF Begin
    <3>2. request \in Request /\ request.lifecycle = l /\ request.purpose = "reply"
      <4>1. l \in Lifecycles
        BY <1>3, <1>a, Constants DEF Begin, Lifecycles
      <4> QED
        BY <4>1 DEF Request, Purposes, Input
    <3> HIDE DEF request
    <3>3. Len(requests) + 1 \in DOMAIN requests' /\ requests'[Len(requests) + 1] = request
      BY <3>1, <3>2, <1>a, Grows
    <3>4. Waits("reply")'
      BY <3>1, <3>2, <3>3 DEF Waits
    <3> QED
      BY <2>2, <3>1, <3>4 DEF TurnLinked, Recorded
  <2>4. CASE ~(asks /\ MayUse(input))
    <3>1. turn' = [stage |-> "saving", lifecycle |-> l, request |-> 0, adoption |-> 0]
      BY <1>3, <2>4 DEF Begin
    <3> QED
      BY <2>2, <3>1 DEF TurnLinked, Recorded
  <2> QED
    BY <2>3, <2>4
<1>4. ASSUME NEW response \in Failures \cup Contents, Answer(response)
      PROVE  TurnLinked'
  <2>1. /\ turn.request \in DOMAIN requests /\ turn.stage \in {"asking", "noting"}
        /\ UNCHANGED <<inputs, requests, adoptions, owned>>
    BY <1>4 DEF Answer, At, TurnLinked, Waits
  <2>2. /\ AllKept
        /\ Len(results') \in DOMAIN results' /\ Len(reviews') \in DOMAIN reviews'
        /\ results'[Len(results')].request = turn.request
        /\ reviews'[Len(reviews')].result = Len(results')
    BY <1>4, <2>1, AnswerIsLinked DEF Answer
  <2>3. /\ turn'.lifecycle = turn.lifecycle /\ turn'.request = turn.request
        /\ turn'.adoption = turn.adoption
        /\ turn'.stage = IF turn.stage = "asking" THEN "deciding" ELSE "noted"
    BY <1>4 DEF Answer, Goes, At
  <2>4. JustAnswered'
    BY <2>2, <2>3 DEF JustAnswered
  <2>5. CASE turn.stage = "asking"
    <3>1. Waits("reply")'
      BY <2>2, <2>3, <2>5, WaitsStays DEF TurnLinked
    <3> QED
      BY <2>1, <2>3, <2>4, <2>5, <3>1 DEF TurnLinked, Recorded
  <2>6. CASE turn.stage = "noting"
    <3>1. Waits("memory")'
      BY <2>2, <2>3, <2>6, WaitsStays DEF TurnLinked
    <3>2. ReplyDecided'
      BY <2>1, <2>2, <2>3, <2>6, ReplyStays DEF TurnLinked, Recorded
    <3> QED
      BY <2>1, <2>3, <2>4, <2>6, <3>1, <3>2 DEF TurnLinked, Recorded
  <2> QED
    BY <2>1, <2>5, <2>6
<1>5. CASE Decide
  <2> DEFINE d == Current
  <2>1. /\ turn.stage = "deciding" /\ adoptions' = Append(adoptions, d)
        /\ owned' = Published([lifecycle |-> turn.lifecycle, asked |-> TRUE, text |-> Expressed(d)])
        /\ UNCHANGED <<inputs, requests, results>>
    BY <1>5 DEF Decide, At
  <2>2. /\ turn'.stage = "recorded" /\ turn'.lifecycle = turn.lifecycle
        /\ turn'.adoption = Len(adoptions) + 1
    BY <1>5 DEF Decide, Goes
  <2>3. d \in Adoption /\ Linked(d) /\ d.request = turn.request
    BY <2>1, CurrentIsLinked
  <2>4. requests[turn.request].lifecycle = turn.lifecycle /\ requests[turn.request].purpose = "reply"
    BY <2>1 DEF TurnLinked, Waits
  <2>5. [lifecycle |-> turn.lifecycle, asked |-> TRUE, text |-> Expressed(d)] \in owned'.answers
    BY <2>1 DEF Published, TypeOK, Owned
  <2> HIDE DEF d
  <2>6. Len(adoptions) + 1 \in DOMAIN adoptions' /\ adoptions'[Len(adoptions) + 1] = d
    BY <2>1, <2>3, <1>a, Grows
  <2>7. ReplyDecided'
    BY <2>1, <2>2, <2>3, <2>4, <2>5, <2>6 DEF ReplyDecided, Expressed
  <2> QED
    BY <2>1, <2>2, <2>7 DEF TurnLinked, Recorded
<1>6. CASE Interpret
  <2> DEFINE request == [lifecycle |-> turn.lifecycle, purpose |-> "memory", limit |-> "full"]
  <2>1. turn.stage = "recorded" /\ requests' = Append(requests, request)
        /\ UNCHANGED <<inputs, results, reviews, adoptions, owned>>
    BY <1>6 DEF Interpret, At
  <2>2. /\ turn'.stage = "noting" /\ turn'.lifecycle = turn.lifecycle
        /\ turn'.request = Len(requests) + 1 /\ turn'.adoption = turn.adoption
    BY <1>6 DEF Interpret, Goes
  <2>3. request \in Request /\ request.lifecycle = turn.lifecycle /\ request.purpose = "memory"
    <3>1. turn.lifecycle \in Lifecycles
      BY <2>1, <1>a, Constants DEF TurnLinked, TypeOK, Lifecycles
    <3> QED
      BY <3>1 DEF Request, Purposes, Limits
  <2> HIDE DEF request
  <2>4. Len(requests) + 1 \in DOMAIN requests' /\ requests'[Len(requests) + 1] = request
    BY <2>1, <2>3, <1>a, Grows
  <2>5. Waits("memory")'
    BY <2>2, <2>3, <2>4 DEF Waits
  <2>6. ~Restart
    BY <1>6, WaitingIsTurn, <2>2 DEF Restart
  <2>7. ReplyDecided'
    BY <2>1, <2>2, <2>6, <1>b, ReplyStays DEF TurnLinked, Recorded
  <2> QED
    BY <2>1, <2>2, <2>5, <2>7 DEF TurnLinked, Recorded
<1>7. CASE Note
  <2>1. turn.stage = "noted" /\ UNCHANGED <<inputs, requests, results>>
        /\ (owned' = owned \/ owned' = [owned EXCEPT !.memories = @ \cup {turn.lifecycle}])
    BY <1>7 DEF Note, At
  <2>2. /\ turn'.stage = "traceable" /\ turn'.lifecycle = turn.lifecycle /\ turn'.adoption = turn.adoption
    BY <1>7 DEF Note, Goes
  <2>3. owned'.answers = owned.answers
    BY <2>1 DEF TypeOK, Owned
  <2>4. ~Restart
    BY WaitingIsTurn, <2>2 DEF Restart
  <2>5. ReplyDecided'
    BY <2>1, <2>2, <2>3, <2>4, <1>b, ReplyStays DEF TurnLinked, Recorded
  <2> QED
    BY <2>1, <2>2, <2>5 DEF TurnLinked, Recorded
<1>8. CASE StoreTrace
  <2>1. turn.stage # "idle" /\ inputs' = inputs /\ turn'.stage = "saving" /\ turn'.lifecycle = turn.lifecycle
    BY <1>8 DEF StoreTrace, At, Goes
  <2> QED
    BY <2>1 DEF TurnLinked, Recorded
<1>9. CASE Lost \/ NoteFails \/ StoreTraceFails \/ Commit \/ CommitFails \/ Restart
  BY <1>1, <1>9 DEF Lost, NoteFails, StoreTraceFails, AfterFailedTrace, Commit, CommitFails, Restart, Raises
<1>10. CASE OtherCaller \/ Checkpoint
  BY <1>2, <1>10 DEF OtherCaller, DirectAnswer, DirectAdoption, Direct, Checkpoint, At
<1>11. CASE UNCHANGED vars
  BY <1>11 DEF vars, TurnLinked, Waits, JustAnswered, ReplyDecided, Expressed
<1> QED
  BY <1>3, <1>4, <1>5, <1>6, <1>7, <1>8, <1>9, <1>10, <1>11 DEF Next, TextInput
------------------------------------------------------------------------------
(* Answers and traces.                                                     *)

\* What Decide publishes: words only if they fit.
LEMMA ExpressedFits ==
    ASSUME IInv, NEW d, Linked(d), requests[d.request].lifecycle = turn.lifecycle,
           requests[d.request].purpose = "reply"
    PROVE  /\ d.adopted <=> Expressed(d) # None
           /\ Fitting([lifecycle |-> turn.lifecycle, asked |-> TRUE, text |-> Expressed(d)])
<1> USE DEF IInv
<1>1. d.request \in DOMAIN requests /\ d.result \in DOMAIN results
  BY DEF Linked
<1>2. CASE ~d.adopted
  BY <1>2 DEF Expressed, Fitting
<1>3. CASE d.adopted
  <2>1. results[d.result].request = d.request /\ results[d.result].status = "success"
        /\ results[d.result].text # "impostor"
    BY <1>3 DEF Linked, Eligible
  <2>2. /\ results[d.result].text # None
        /\ Matches("reply", results[d.result].text)
        /\ ~Violates(requests[d.request].limit, results[d.result].text)
    BY <1>1, <2>1 DEF Registers, ResultsFit, Fits
  <2>3. inputs[turn.lifecycle].direction = "respond"
        /\ requests[d.request].limit = inputs[turn.lifecycle].limit
    BY <1>1 DEF Registers, RequestsRespond, LimitsAgree
  <2>4. requests[d.request].limit \in Limits
    <3>1. requests[d.request] \in Request
      BY <1>1 DEF TypeOK
    <3> QED
      BY <3>1 DEF Request
  <2>5. Expressed(d) = results[d.result].text
    BY <1>3 DEF Expressed
  <2> QED
    BY <1>3, <2>1, <2>2, <2>3, <2>4, <2>5 DEF Fitting, Matches, Violates, Replies, Limits
<1> QED
  BY <1>2, <1>3

\* Fitting does not change, as inputs stay.
LEMMA FittingStays ==
    ASSUME IInv, Kept(inputs, inputs')
    PROVE  \A o \in owned.answers : Fitting(o)' /\ o.lifecycle \in DOMAIN inputs'
BY DEF IInv, Answers, Kept, Fitting

\* A step that adds no answer.
LEMMA AnswersStay ==
    ASSUME IInv, Kept(inputs, inputs'), owned'.answers \subseteq owned.answers,
           saved'.answers \subseteq owned'.answers,
           turn'.stage = "idle"
              \/ (/\ turn'.lifecycle = turn.lifecycle /\ turn.stage # "idle" /\ saved' = saved
                  /\ turn'.stage \in Answering => turn.stage \in Answering)
    PROVE  Answers'
<1>1. \A o \in owned'.answers : Fitting(o)' /\ o.lifecycle \in DOMAIN inputs'
  BY FittingStays
<1>2. Answering' = Answering
  BY DEF Answering
<1> QED
  BY <1>1, <1>2 DEF IInv, Answers, Answering

WouldFit(o, register) ==
    o.text # None =>
        /\ o.asked
        /\ register[o.lifecycle].direction = "respond"
        /\ o.text \in {"plain", "lengthy"}
        /\ o.text = "lengthy" => register[o.lifecycle].limit = "full"

\* A step that adds the answer of the running input.
LEMMA AnswersGrow ==
    ASSUME IInv, Kept(inputs, inputs'), NEW o \in Outcome, owned'.answers = owned.answers \cup {o},
           saved' = saved, o.lifecycle \in DOMAIN inputs', WouldFit(o, inputs'),
           \A p \in owned.answers : p.lifecycle # o.lifecycle,
           turn'.lifecycle = o.lifecycle, turn'.stage \notin Answering
    PROVE  Answers'
<1>1. \A p \in owned.answers : Fitting(p)' /\ p.lifecycle \in DOMAIN inputs'
  BY FittingStays
<1>2. saved'.answers \subseteq owned'.answers
  BY DEF IInv, Answers
<1>3. \A p, q \in owned'.answers : p.lifecycle = q.lifecycle => p = q
  BY DEF IInv, Answers
<1>4. \A p \in saved'.answers : p.lifecycle # turn'.lifecycle
  BY DEF IInv, Answers
<1>5. \A p \in owned'.answers : p.lifecycle \in DOMAIN inputs' /\ Fitting(p)'
  BY <1>1 DEF Fitting, WouldFit
<1> QED
  BY <1>2, <1>3, <1>4, <1>5 DEF Answers, Answering

\* A new input has a lifecycle of its own.
LEMMA BeginIsNew ==
    ASSUME IInv, NEW input \in Input, NEW asks \in BOOLEAN, Begin(input, asks)
    PROVE  /\ Len(inputs) + 1 \notin DOMAIN inputs
           /\ Len(inputs) + 1 \in DOMAIN inputs'
           /\ turn'.lifecycle = Len(inputs) + 1
           /\ \A o \in owned.answers : o.lifecycle # Len(inputs) + 1
           /\ \A o \in saved.answers : o.lifecycle # Len(inputs) + 1
           /\ ReplyTraces(Len(inputs) + 1) = {}
           /\ traces' = traces /\ saved' = saved /\ told' = told
           /\ turn'.stage \in {"asking", "saving"}
           /\ turn'.stage = "asking" => owned' = owned
           /\ turn'.stage = "saving" =>
                /\ owned'.answers = owned.answers
                     \cup {[lifecycle |-> Len(inputs) + 1, asked |-> FALSE, text |-> None]}
                /\ owned'.memories = owned.memories
           /\ [lifecycle |-> Len(inputs) + 1, asked |-> FALSE, text |-> None] \in Outcome
<1> USE DEF IInv
<1>1. inputs \in Seq(Input) /\ Len(inputs) \in Nat
  BY DEF TypeOK
<1>2. inputs' = Append(inputs, input) /\ Len(inputs) < MaxInputs
      /\ traces' = traces /\ saved' = saved /\ told' = told
  BY DEF Begin
<1>3. Len(inputs) + 1 \notin DOMAIN inputs /\ Len(inputs) + 1 \in DOMAIN inputs'
  BY <1>1, <1>2, Grows
<1>4. /\ \A o \in owned.answers : o.lifecycle # Len(inputs) + 1
      /\ \A o \in saved.answers : o.lifecycle # Len(inputs) + 1
  BY <1>3 DEF Answers
<1>5. ReplyTraces(Len(inputs) + 1) = {}
  BY <1>3 DEF Untraced, ReplyTraces
<1>6. [lifecycle |-> Len(inputs) + 1, asked |-> FALSE, text |-> None] \in Outcome
  BY <1>1, <1>2, Constants DEF Outcome, Lifecycles, Texts
<1>7. \/ /\ owned' = owned
         /\ turn' = [stage |-> "asking", lifecycle |-> Len(inputs) + 1, request |-> Len(requests) + 1, adoption |-> 0]
      \/ /\ owned' = Published([lifecycle |-> Len(inputs) + 1, asked |-> FALSE, text |-> None])
         /\ turn' = [stage |-> "saving", lifecycle |-> Len(inputs) + 1, request |-> 0, adoption |-> 0]
  BY DEF Begin
<1>8. turn'.lifecycle = Len(inputs) + 1 /\ turn'.stage \in {"asking", "saving"}
      /\ (turn'.stage = "asking" => owned' = owned)
  BY <1>7
<1>9. turn'.stage = "saving" =>
        owned' = Published([lifecycle |-> Len(inputs) + 1, asked |-> FALSE, text |-> None])
  BY <1>7
<1>10. turn'.stage = "saving" =>
         /\ owned'.answers = owned.answers
              \cup {[lifecycle |-> Len(inputs) + 1, asked |-> FALSE, text |-> None]}
         /\ owned'.memories = owned.memories
  BY <1>6, <1>9, PublishedIsOwned
<1> QED
  BY <1>2, <1>3, <1>4, <1>5, <1>6, <1>8, <1>10

\* What Decide does to the answers.
LEMMA DecideAnswers ==
    ASSUME IInv, Decide
    PROVE  /\ Linked(Current)
           /\ requests[Current.request].lifecycle = turn.lifecycle
           /\ requests[Current.request].purpose = "reply"
           /\ [lifecycle |-> turn.lifecycle, asked |-> TRUE, text |-> Expressed(Current)] \in Outcome
           /\ owned'.answers = owned.answers
                \cup {[lifecycle |-> turn.lifecycle, asked |-> TRUE, text |-> Expressed(Current)]}
           /\ owned'.memories = owned.memories
<1> USE DEF IInv
<1>1. turn.stage = "deciding"
  BY DEF Decide, At
<1>2. Linked(Current) /\ Current.request = turn.request
  BY <1>1, CurrentIsLinked
<1>3. requests[turn.request].lifecycle = turn.lifecycle /\ requests[turn.request].purpose = "reply"
  BY <1>1 DEF TurnLinked, Waits
<1>4. Expressed(Current) \in Texts
  BY <1>2, ExpressedIsText DEF Linked
<1>5. turn.lifecycle \in Lifecycles
  BY <1>1, Constants DEF TurnLinked, TypeOK, Lifecycles
<1>6. [lifecycle |-> turn.lifecycle, asked |-> TRUE, text |-> Expressed(Current)] \in Outcome
  BY <1>4, <1>5 DEF Outcome
<1>7. owned' = Published([lifecycle |-> turn.lifecycle, asked |-> TRUE, text |-> Expressed(Current)])
  BY DEF Decide
<1> QED
  BY <1>2, <1>3, <1>6, <1>7, PublishedIsOwned

LEMMA StepKeepsAnswers ==
    ASSUME IInv, [Next]_vars
    PROVE  Answers'
<1> USE DEF IInv
<1>a. Kept(inputs, inputs')
  BY StepKeepsRegisters
<1>1. ASSUME NEW input \in Input, NEW asks \in BOOLEAN, Begin(input, asks)
      PROVE  Answers'
  <2> DEFINE unasked == [lifecycle |-> Len(inputs) + 1, asked |-> FALSE, text |-> None]
  <2>1. CASE turn'.stage = "asking"
    <3>1. owned' = owned /\ saved' = saved /\ turn'.lifecycle = Len(inputs) + 1
          /\ (\A o \in owned.answers : o.lifecycle # Len(inputs) + 1)
      BY <1>1, <2>1, BeginIsNew
    <3>2. \A o \in owned.answers : Fitting(o)' /\ o.lifecycle \in DOMAIN inputs'
      BY <1>a, FittingStays
    <3> QED
      BY <3>1, <3>2 DEF Answers
  <2>2. CASE turn'.stage = "saving"
    <3>1. WouldFit(unasked, inputs')
      BY DEF WouldFit
    <3>2. /\ unasked \in Outcome /\ owned'.answers = owned.answers \cup {unasked}
          /\ saved' = saved /\ unasked.lifecycle \in DOMAIN inputs'
          /\ \A p \in owned.answers : p.lifecycle # unasked.lifecycle
          /\ turn'.lifecycle = unasked.lifecycle
      BY <1>1, <2>2, BeginIsNew
    <3>3. turn'.stage \notin Answering
      BY <2>2 DEF Answering
    <3> HIDE DEF unasked
    <3> QED
      BY <1>a, <3>1, <3>2, <3>3, AnswersGrow
  <2> QED
    BY <1>1, <2>1, <2>2, BeginIsNew
<1>2. CASE Decide
  <2> DEFINE o == [lifecycle |-> turn.lifecycle, asked |-> TRUE, text |-> Expressed(Current)]
  <2>1. /\ turn.stage = "deciding" /\ inputs' = inputs /\ saved' = saved
        /\ turn'.lifecycle = turn.lifecycle /\ turn'.stage = "recorded"
    BY <1>2 DEF Decide, At, Goes
  <2>2. o \in Outcome /\ owned'.answers = owned.answers \cup {o} /\ o.lifecycle = turn.lifecycle
    BY <1>2, DecideAnswers
  <2>3. Fitting(o)
    BY <1>2, DecideAnswers, ExpressedFits
  <2> HIDE DEF o
  <2>4. WouldFit(o, inputs')
    BY <2>1, <2>3 DEF Fitting, WouldFit
  <2>5. turn.lifecycle \in DOMAIN inputs
    BY <2>1 DEF TurnLinked
  <2>6. \A p \in owned.answers : p.lifecycle # turn.lifecycle
    BY <2>1 DEF Answers, Answering
  <2> QED
    BY <1>a, <2>1, <2>2, <2>4, <2>5, <2>6, AnswersGrow DEF Answering
<1>3. CASE (\E response \in Failures \cup Contents : Answer(response)) \/ Interpret \/ StoreTrace
  <2>1. /\ owned' = owned /\ saved' = saved /\ turn'.lifecycle = turn.lifecycle /\ turn.stage # "idle"
        /\ turn'.stage \in Answering => turn.stage \in Answering
    BY <1>3 DEF Answer, Interpret, StoreTrace, Goes, At, Answering
  <2> QED
    BY <1>a, <2>1, AnswersStay DEF Answers
<1>4. CASE Note
  <2>1. /\ saved' = saved /\ turn'.lifecycle = turn.lifecycle /\ turn.stage # "idle"
        /\ turn'.stage = "traceable"
        /\ (owned' = owned \/ owned' = [owned EXCEPT !.memories = @ \cup {turn.lifecycle}])
    BY <1>4 DEF Note, Goes, At
  <2>2. owned'.answers = owned.answers
    BY <2>1 DEF TypeOK, Owned
  <2> QED
    BY <1>a, <2>1, <2>2, AnswersStay DEF Answers, Answering
<1>5. CASE Lost \/ NoteFails \/ StoreTraceFails \/ CommitFails
  <2>1. owned' = owned /\ saved' = saved /\ turn'.stage = "idle"
    BY <1>5, WaitingIsTurn DEF Lost, NoteFails, StoreTraceFails, AfterFailedTrace, CommitFails, Raises
  <2> QED
    BY <1>a, <2>1, AnswersStay DEF Answers
<1>6. CASE Commit \/ Checkpoint
  <2>1. owned' = owned /\ saved' = owned /\ turn'.stage = "idle"
    BY <1>6, WaitingIsTurn DEF Commit, Checkpoint, At
  <2> QED
    BY <1>a, <2>1, AnswersStay
<1>7. CASE Restart
  <2>1. owned' = saved /\ saved' = saved /\ turn'.stage = "idle"
    BY <1>7, WaitingIsTurn DEF Restart
  <2> QED
    BY <1>a, <2>1, AnswersStay DEF Answers
<1>8. CASE OtherCaller
  <2>1. owned' = owned /\ saved' = saved /\ turn'.stage = "idle"
    BY <1>8 DEF OtherCaller, DirectAnswer, DirectAdoption, Direct, At
  <2> QED
    BY <1>a, <2>1, AnswersStay DEF Answers
<1>9. CASE UNCHANGED vars
  BY <1>9 DEF vars, Answers, Fitting
<1> QED
  BY <1>1, <1>2, <1>3, <1>4, <1>5, <1>6, <1>7, <1>8, <1>9 DEF Next, TextInput
\* What a step adds to the trace table: nothing, the trace of an interpretation
\* of the running input, or the trace of its reply.
LEMMA StepTraces ==
    ASSUME IInv, [Next]_vars
    PROVE  \/ traces' = traces
           \/ /\ Note
              /\ traces' = traces \cup {Traced(Current)}
              /\ Traced(Current).lifecycle = turn.lifecycle /\ Traced(Current).purpose = "memory"
              /\ Current.adopted => Traced(Current) =
                    [lifecycle |-> turn.lifecycle, purpose |-> "memory", status |-> "success", adopted |-> TRUE]
           \/ /\ StoreTrace
              /\ traces' = traces \cup {Traced(adoptions[turn.adoption])}
              /\ Traced(adoptions[turn.adoption]).lifecycle = turn.lifecycle
              /\ Traced(adoptions[turn.adoption]).purpose = "reply"
<1> USE DEF IInv
<1>1. CASE Note
  <2>1. turn.stage = "noted" /\ traces' = traces \cup {Traced(Current)}
    BY <1>1 DEF Note, At, NoteTraces
  <2>2. Linked(Current) /\ Current.request = turn.request
    BY <2>1, CurrentIsLinked
  <2>3. requests[turn.request].lifecycle = turn.lifecycle /\ requests[turn.request].purpose = "memory"
    BY <2>1 DEF TurnLinked, Waits
  <2>4. Traced(Current).lifecycle = turn.lifecycle /\ Traced(Current).purpose = "memory"
    BY <2>2, <2>3 DEF Traced
  <2>5. Current.adopted => Traced(Current) =
          [lifecycle |-> turn.lifecycle, purpose |-> "memory", status |-> "success", adopted |-> TRUE]
    <3>1. SUFFICES ASSUME Current.adopted
                   PROVE  Traced(Current) =
                      [lifecycle |-> turn.lifecycle, purpose |-> "memory", status |-> "success", adopted |-> TRUE]
      OBVIOUS
    <3>2. results[Current.result].status = "success"
      BY <2>2, <3>1 DEF Linked
    <3>3. Current.adopted = TRUE
      BY <3>1 DEF Current, Decided
    <3> QED
      BY <2>2, <2>3, <3>2, <3>3 DEF Traced
  <2> QED
    BY <1>1, <2>1, <2>4, <2>5
<1>2. CASE StoreTrace
  <2>1. /\ turn.stage \in {"recorded", "traceable"}
        /\ traces' = traces \cup {Traced(adoptions[turn.adoption])}
    BY <1>2 DEF StoreTrace, At
  <2>2. ReplyDecided
    BY <2>1 DEF TurnLinked, Recorded
  <2> QED
    BY <1>2, <2>1, <2>2 DEF ReplyDecided, Traced
<1>3. CASE ~Note /\ ~StoreTrace
  <2>1. ASSUME \/ \E input \in Input, asks \in BOOLEAN : Begin(input, asks)
               \/ \E response \in Failures \cup Contents : Answer(response)
               \/ Lost \/ Decide \/ Interpret \/ NoteFails
        PROVE  traces' = traces
    BY <2>1 DEF Begin, Answer, Lost, Decide, Interpret, NoteFails
  <2>2. ASSUME StoreTraceFails \/ Commit \/ CommitFails \/ OtherCaller \/ Checkpoint \/ Restart \/ UNCHANGED vars
        PROVE  traces' = traces
    BY <2>2 DEF StoreTraceFails, Commit, CommitFails, OtherCaller, DirectAnswer, DirectAdoption, Direct,
                Checkpoint, Restart, vars
  <2> QED
    BY <1>3, <2>1, <2>2 DEF Next, TextInput
<1> QED
  BY <1>1, <1>2, <1>3

\* Traces of replies: only the running input gets one, when it stores it.
LEMMA ReplyTracesStay ==
    ASSUME IInv, [Next]_vars
    PROVE  /\ traces \subseteq traces'
           /\ \A l : l # turn.lifecycle \/ ~StoreTrace => ReplyTraces(l)' = ReplyTraces(l)
<1>1. CASE traces' = traces
  BY <1>1 DEF ReplyTraces
<1>2. CASE Note /\ traces' # traces
  <2>1. traces' = traces \cup {Traced(Current)} /\ Traced(Current).purpose = "memory"
    BY <1>2, StepTraces DEF Note, StoreTrace, At
  <2> QED
    BY <2>1 DEF ReplyTraces
<1>3. CASE StoreTrace /\ traces' # traces
  <2>1. /\ traces' = traces \cup {Traced(adoptions[turn.adoption])}
        /\ Traced(adoptions[turn.adoption]).lifecycle = turn.lifecycle
    BY <1>3, StepTraces DEF Note, StoreTrace, At
  <2> QED
    BY <1>3, <2>1 DEF ReplyTraces
<1> QED
  BY <1>1, <1>2, <1>3, StepTraces

\* The answer of the running input when its trace was stored.
LEMMA StoredExplains ==
    ASSUME IInv, StoreTrace
    PROVE  \A o \in owned.answers : o.lifecycle = turn.lifecycle => Explained(o)'
<1> USE DEF IInv
<1> DEFINE d == adoptions[turn.adoption]
           answer == [lifecycle |-> turn.lifecycle, asked |-> TRUE, text |-> Expressed(d)]
<1>1. /\ turn.stage \in {"recorded", "traceable"} /\ traces' = traces \cup {Traced(d)}
  BY DEF StoreTrace, At
<1>2. /\ turn.adoption \in DOMAIN adoptions
      /\ requests[d.request].lifecycle = turn.lifecycle /\ requests[d.request].purpose = "reply"
      /\ answer \in owned.answers
  BY <1>1 DEF TurnLinked, Recorded, ReplyDecided
<1>3. Linked(d)
  BY <1>2 DEF Registers, AdoptionsLinked
<1>4. d.adopted <=> Expressed(d) # None
  BY <1>2, <1>3, ExpressedFits
<1>5. /\ Traced(d).lifecycle = turn.lifecycle /\ Traced(d).purpose = "reply" /\ Traced(d).adopted = d.adopted
  BY <1>2 DEF Traced
<1>6. ReplyTraces(turn.lifecycle) = {}
  BY <1>1 DEF Untraced, Recorded
<1> DEFINE t == Traced(d)
<1>7. /\ traces' = traces \cup {t} /\ t.lifecycle = turn.lifecycle /\ t.purpose = "reply"
      /\ (t.adopted <=> answer.text # None) /\ answer.asked /\ answer.lifecycle = turn.lifecycle
  BY <1>1, <1>4, <1>5
<1>8. \A o \in owned.answers : o.lifecycle = turn.lifecycle => o = answer
  BY <1>2 DEF Answers
<1> HIDE DEF t, answer, d
<1>9. \A l : l = turn.lifecycle => ReplyTraces(l)' = {t}
  BY <1>6, <1>7 DEF ReplyTraces
<1> QED
  BY <1>7, <1>8, <1>9 DEF Explained

LEMMA StepKeepsUntraced ==
    ASSUME IInv, [Next]_vars
    PROVE  Untraced'
<1> USE DEF IInv
<1>1. \A t \in traces' : t.lifecycle \in DOMAIN inputs'
  <2>1. \A t \in traces : t.lifecycle \in DOMAIN inputs'
    BY StepKeepsRegisters DEF Untraced, Kept
  <2>2. CASE traces' = traces
    BY <2>1, <2>2
  <2>3. ASSUME NEW t, traces' = traces \cup {t}, t.lifecycle = turn.lifecycle, turn.stage # "idle"
        PROVE  \A u \in traces' : u.lifecycle \in DOMAIN inputs'
    <3>1. t.lifecycle \in DOMAIN inputs'
      BY <2>3, StepKeepsRegisters DEF TurnLinked, Kept
    <3> QED
      BY <2>1, <2>3, <3>1
  <2>4. Note \/ StoreTrace => turn.stage # "idle"
    BY DEF Note, StoreTrace, At
  <2> QED
    BY <2>2, <2>3, <2>4, StepTraces
<1>2. ASSUME turn'.stage = "idle"
      PROVE  Untraced'
  BY <1>1, <1>2 DEF Untraced, Answering, Recorded
<1>3. ASSUME ~StoreTrace, turn'.lifecycle = turn.lifecycle, turn'.stage # "saving",
             turn'.stage \in Answering \cup Recorded => turn.stage \in Answering \cup Recorded
      PROVE  Untraced'
  <2>1. \A l : ReplyTraces(l)' = ReplyTraces(l)
    BY <1>3, ReplyTracesStay
  <2>2. turn'.stage \in Answering \cup Recorded => \A l : l = turn'.lifecycle => ReplyTraces(l)' = {}
    BY <1>3, <2>1 DEF Untraced
  <2>3. (turn.stage \in Answering \cup Recorded => ReplyTraces(turn.lifecycle) = {})'
    BY <2>2 DEF Answering, Recorded, ReplyTraces
  <2> QED
    BY <1>1, <1>3, <2>3 DEF Untraced
<1>4. ASSUME NEW input \in Input, NEW asks \in BOOLEAN, Begin(input, asks)
      PROVE  Untraced'
  <2> DEFINE l == Len(inputs) + 1
  <2>1. /\ turn'.lifecycle = l /\ ReplyTraces(l) = {} /\ traces' = traces
        /\ turn'.stage \in {"asking", "saving"}
    BY <1>4, BeginIsNew
  <2>2. \A m : m = l => ReplyTraces(m)' = {}
    BY <2>1 DEF ReplyTraces
  <2>3. ReplyTraces(turn.lifecycle)' = {}
    BY <2>1, <2>2 DEF ReplyTraces
  <2>4. turn'.stage = "saving" => \A o \in owned'.answers : o.lifecycle = l => ~o.asked
    BY <1>4, BeginIsNew
  <2>5. turn'.stage = "saving" => \A o \in owned'.answers : o.lifecycle = l => Explained(o)'
    BY <2>2, <2>4 DEF Explained
  <2> QED
    BY <1>1, <2>1, <2>3, <2>5 DEF Untraced
<1>5. CASE (\E response \in Failures \cup Contents : Answer(response)) \/ Decide \/ Interpret \/ Note
  <2>1. /\ turn'.lifecycle = turn.lifecycle /\ turn'.stage # "saving"
        /\ turn.stage \in Answering \cup Recorded /\ ~StoreTrace
    BY <1>5 DEF Answer, Decide, Interpret, Note, Goes, At, Answering, Recorded, StoreTrace
  <2> QED
    BY <1>3, <2>1
<1>6. CASE StoreTrace
  <2>1. turn'.stage = "saving" /\ turn'.lifecycle = turn.lifecycle /\ owned' = owned
    BY <1>6 DEF StoreTrace, Goes
  <2>2. \A o \in owned'.answers : o.lifecycle = turn'.lifecycle => Explained(o)'
    BY <1>6, <2>1, StoredExplains
  <2> QED
    BY <1>1, <2>1, <2>2 DEF Untraced, Answering, Recorded
<1>7. CASE Lost \/ NoteFails \/ StoreTraceFails \/ CommitFails \/ Commit \/ Restart
  <2>1. turn'.stage = "idle"
    BY <1>7, WaitingIsTurn DEF Lost, NoteFails, StoreTraceFails, AfterFailedTrace, CommitFails, Commit, Restart, Raises
  <2> QED
    BY <1>2, <2>1
<1>8. CASE OtherCaller \/ Checkpoint
  <2>1. turn'.stage = "idle"
    BY <1>8 DEF OtherCaller, DirectAnswer, DirectAdoption, Direct, Checkpoint, At
  <2> QED
    BY <1>2, <2>1
<1>9. CASE UNCHANGED vars
  BY <1>9 DEF vars, Untraced, ReplyTraces, Explained
<1> QED
  BY <1>4, <1>5, <1>6, <1>7, <1>8, <1>9 DEF Next, TextInput

\* What was told before stays saved and explained.
LEMMA ToldStays ==
    ASSUME IInv, [Next]_vars, saved.answers \subseteq saved'.answers
    PROVE  \A o \in told : o \in saved'.answers /\ Explained(o)' /\ Fitting(o)'
<1> USE DEF IInv
<1> SUFFICES ASSUME NEW o \in told
             PROVE  o \in saved'.answers /\ Explained(o)' /\ Fitting(o)'
  OBVIOUS
<1>1. o \in saved.answers /\ Explained(o) /\ o \in owned.answers
  BY DEF ToldMeansTraced, Answers
<1>2. Fitting(o)'
  BY <1>1, FittingStays, StepKeepsRegisters
<1>3. o.lifecycle # turn.lifecycle \/ ~StoreTrace
  BY <1>1 DEF Answers, StoreTrace, At
<1>4. ReplyTraces(o.lifecycle)' = ReplyTraces(o.lifecycle)
  BY <1>3, ReplyTracesStay
<1>5. Explained(o)'
  BY <1>1, <1>4 DEF Explained
<1> QED
  BY <1>1, <1>2, <1>5

LEMMA StepKeepsTold ==
    ASSUME IInv, [Next]_vars
    PROVE  ToldMeansTraced'
<1> USE DEF IInv
<1>1. ASSUME told' = told, saved.answers \subseteq saved'.answers
      PROVE  ToldMeansTraced'
  BY <1>1, ToldStays DEF ToldMeansTraced
<1>2. CASE Commit
  <2>1. /\ turn.stage = "saving" /\ saved' = owned /\ owned' = owned /\ traces' = traces /\ inputs' = inputs
        /\ told' = told \cup {o \in owned.answers : o.lifecycle = turn.lifecycle}
    BY <1>2 DEF Commit, At
  <2>2. \A o \in told : o \in saved'.answers /\ Explained(o)' /\ Fitting(o)'
    BY <2>1, ToldStays DEF Answers
  <2>3. \A o \in owned.answers : o.lifecycle = turn.lifecycle =>
            o \in saved'.answers /\ Explained(o)' /\ Fitting(o)'
    <3>1. \A o \in owned.answers : o.lifecycle = turn.lifecycle => Explained(o) /\ Fitting(o)
      BY <2>1 DEF Untraced, Answers
    <3> QED
      BY <2>1, <3>1 DEF Explained, Fitting, ReplyTraces
  <2> QED
    BY <2>1, <2>2, <2>3 DEF ToldMeansTraced
<1>3. CASE Checkpoint
  <2>1. told' = told /\ saved' = owned
    BY <1>3 DEF Checkpoint
  <2> QED
    BY <1>1, <2>1 DEF Answers
<1>4. ASSUME \/ \E input \in Input, asks \in BOOLEAN : Begin(input, asks)
             \/ \E response \in Failures \cup Contents : Answer(response)
             \/ Lost \/ Decide \/ Interpret \/ Note \/ NoteFails \/ StoreTrace
      PROVE  ToldMeansTraced'
  <2>1. told' = told /\ saved' = saved
    BY <1>4 DEF Begin, Answer, Lost, Decide, Interpret, Note, NoteFails, StoreTrace
  <2> QED
    BY <1>1, <2>1
<1>5. ASSUME StoreTraceFails \/ CommitFails \/ OtherCaller \/ Restart \/ UNCHANGED vars
      PROVE  ToldMeansTraced'
  <2>1. told' = told /\ saved' = saved
    BY <1>5 DEF StoreTraceFails, CommitFails, OtherCaller, DirectAnswer, DirectAdoption, Direct, Restart, vars
  <2> QED
    BY <1>1, <2>1
<1> QED
  BY <1>2, <1>3, <1>4, <1>5 DEF Next, TextInput

MemoryTraced(o, l, table) ==
    /\ [lifecycle |-> l, purpose |-> "memory", status |-> "success", adopted |-> TRUE] \in table
    /\ \E answer \in o.answers : answer.lifecycle = l /\ answer.asked

LEMMA StepKeepsMemories ==
    ASSUME IInv, [Next]_vars
    PROVE  MemoriesAreTraced'
<1> USE DEF IInv
<1>a. /\ \A l \in owned.memories : MemoryTraced(owned, l, traces)
      /\ \A l \in saved.memories : MemoryTraced(saved, l, traces)
  BY DEF MemoriesAreTraced, MemoryTraced
<1>b. traces \subseteq traces'
  BY ReplyTracesStay
<1>1. ASSUME owned.answers \subseteq owned'.answers,
             owned'.memories = owned.memories, saved' = saved
      PROVE  MemoriesAreTraced'
  <2>1. \A l \in owned'.memories : MemoryTraced(owned', l, traces')
    BY <1>1, <1>a, <1>b DEF MemoryTraced
  <2>2. \A l \in saved'.memories : MemoryTraced(saved', l, traces')
    BY <1>1, <1>a, <1>b DEF MemoryTraced
  <2> QED
    BY <2>1, <2>2 DEF MemoriesAreTraced, MemoryTraced
<1>2. ASSUME owned' \in {owned, saved}, saved' \in {owned, saved}
      PROVE  MemoriesAreTraced'
  <2>1. \A l \in owned'.memories : MemoryTraced(owned', l, traces')
    BY <1>2, <1>a, <1>b DEF MemoryTraced
  <2>2. \A l \in saved'.memories : MemoryTraced(saved', l, traces')
    BY <1>2, <1>a, <1>b DEF MemoryTraced
  <2> QED
    BY <2>1, <2>2 DEF MemoriesAreTraced, MemoryTraced
<1>3. ASSUME NEW input \in Input, NEW asks \in BOOLEAN, Begin(input, asks)
      PROVE  MemoriesAreTraced'
  <2>1. owned.answers \subseteq owned'.answers /\ owned'.memories = owned.memories /\ saved' = saved
    BY <1>3, BeginIsNew
  <2> QED
    BY <1>1, <2>1
<1>4. CASE Decide
  <2>1. owned.answers \subseteq owned'.answers /\ owned'.memories = owned.memories /\ saved' = saved
    BY <1>4, DecideAnswers DEF Decide
  <2> QED
    BY <1>1, <2>1
<1>5. CASE Note
  <2>1. turn.stage = "noted" /\ saved' = saved
        /\ owned' = IF Usable(Current) THEN [owned EXCEPT !.memories = @ \cup {turn.lifecycle}] ELSE owned
    BY <1>5 DEF Note, At
  <2>2. CASE ~Usable(Current)
    BY <1>2, <2>1, <2>2
  <2>3. CASE Usable(Current)
    <3>1. owned'.answers = owned.answers /\ owned'.memories = owned.memories \cup {turn.lifecycle}
      BY <2>1, <2>3 DEF TypeOK, Owned
    <3>2. Current.adopted
      BY <2>3 DEF Usable
    <3>3. [lifecycle |-> turn.lifecycle, purpose |-> "memory", status |-> "success", adopted |-> TRUE] \in traces'
      <4>1. Linked(Current) /\ Current.request = turn.request
        BY <2>1, CurrentIsLinked
      <4>2. requests[turn.request].lifecycle = turn.lifecycle /\ requests[turn.request].purpose = "memory"
        BY <2>1 DEF TurnLinked, Waits
      <4>3. results[Current.result].status = "success"
        BY <3>2, <4>1 DEF Linked
      <4>4. Current.adopted = TRUE
        BY <3>2 DEF Current, Decided
      <4>5. Traced(Current) =
              [lifecycle |-> turn.lifecycle, purpose |-> "memory", status |-> "success", adopted |-> TRUE]
        BY <4>1, <4>2, <4>3, <4>4 DEF Traced
      <4> QED
        BY <1>5, <4>5 DEF Note, NoteTraces
    <3>4. \E answer \in owned'.answers : answer.lifecycle = turn.lifecycle /\ answer.asked
      BY <2>1, <3>1 DEF TurnLinked, Recorded, ReplyDecided
    <3>5. \A l \in owned'.memories : MemoryTraced(owned', l, traces')
      BY <1>a, <1>b, <3>1, <3>3, <3>4 DEF MemoryTraced
    <3>6. \A l \in saved'.memories : MemoryTraced(saved', l, traces')
      BY <1>a, <1>b, <2>1 DEF MemoryTraced
    <3> QED
      BY <3>5, <3>6 DEF MemoriesAreTraced, MemoryTraced
  <2> QED
    BY <2>2, <2>3
<1>6. ASSUME \/ \E response \in Failures \cup Contents : Answer(response)
             \/ Lost \/ Interpret \/ NoteFails \/ StoreTrace \/ StoreTraceFails
      PROVE  MemoriesAreTraced'
  <2>1. owned' = owned /\ saved' = saved
    BY <1>6 DEF Answer, Lost, Interpret, NoteFails, StoreTrace, StoreTraceFails
  <2> QED
    BY <1>2, <2>1
<1>7. ASSUME Commit \/ CommitFails \/ OtherCaller \/ Checkpoint \/ Restart \/ UNCHANGED vars
      PROVE  MemoriesAreTraced'
  <2>1. owned' \in {owned, saved} /\ saved' \in {owned, saved}
    BY <1>7 DEF Commit, CommitFails, OtherCaller, DirectAnswer, DirectAdoption, Direct, Checkpoint, Restart, vars
  <2> QED
    BY <1>2, <2>1
<1> QED
  BY <1>3, <1>4, <1>5, <1>6, <1>7 DEF Next, TextInput

------------------------------------------------------------------------------
\* The invariant that is inductive: types, the links of the registers, the
\* answers of the inputs and their traces.
THEOREM Inductive == Spec => []IInv
<1>1. Init => IInv
  BY Initially
<1>2. IInv /\ [Next]_vars => IInv'
  BY StepKeepsTypes, StepKeepsRegisters, StepKeepsTurn, StepKeepsAnswers, StepKeepsUntraced,
     StepKeepsTold, StepKeepsMemories DEF IInv
<1> QED
  BY <1>1, <1>2, PTL DEF Spec

\* Every variable keeps its type, whatever other callers pass to the organs and
\* wherever a write fails (integrate_intelligence_request to _store_trace).
THEOREM TypeCorrect == Spec => []TypeOK
<1>1. IInv => TypeOK
  BY DEF IInv
<1> QED
  BY <1>1, Inductive, PTL

\* Core adopts only what answers that request, was reviewed, fits and responds
\* (finalize_intelligence_adoption), for every sequence of calls.
THEOREM AdoptionsAreEarned == Spec => []AdoptionIsEarned
<1> QED
  BY EarnedFollows, Inductive, PTL

\* What a caller is told is saved and explained by exactly one trace
\* (run, _store_trace), through failures and restarts.
THEOREM TellsAreTraced == Spec => []ToldMeansTraced
<1>1. IInv => ToldMeansTraced
  BY DEF IInv
<1> QED
  BY <1>1, Inductive, PTL

\* A memory formed from an interpretation has the trace of the adopted answer
\* (_request_memory_interpretation), whichever entry point saves it.
THEOREM MemoriesStayTraced == Spec => []MemoriesAreTraced
<1>1. IInv => MemoriesAreTraced
  BY DEF IInv
<1> QED
  BY <1>1, Inductive, PTL
=============================================================================
