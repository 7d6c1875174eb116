# A TLA+ verification of Yamicha

Yamicha is a single-process Python program that keeps one artificial *life*
across many runs: it takes text from one counterpart, judges, answers,
remembers, and saves itself in a SQLite database. It is built in stages; the
composition verified here is the last one, `make_stage16_system`
(`src/src/yamicha/bootstrap/stage16.py`), driven by the interactive console or
by a caller of the system object.

Everything below is about what cannot be seen in one call: what is left after
an exception or a death in the middle of a call, what a later process makes of
it, and what a user was told in the meantime.

## 1. Inventory

Paths are relative to `src/src/yamicha/`.

| part | state | operations | what makes it correct | module |
|---|---|---|---|---|
| persistence store (`body/persistence/sqlite.py`) | tables `checkpoints`, `metadata`, `identity`, `sessions`, protection, capability and trace tables | open, commit, prune, compact, mark normal, close | the newest checkpoint survives everything; an abnormal end is reported; one database is one life | `LifeContinuity`, `MemoryGovernance`, `StoreBoot` |
| snapshot codec (`body/persistence/codec.py`) | none | encode, decode | what is restored is what was saved | not modelled |
| runtime and clock (`body/runtime/`) | status, last clock observation | start, periodic opportunity, wait, stop | one lifecycle per opportunity; internal time follows the life's age and never runs back; a discontinuity does not end it | `RuntimeClock`, `LifeContinuity` |
| entry points (`bootstrap/stage7`, `8`, `12`, `14`, `16`) | persistence health, pending startup opportunity | start, time cycle, text, new context, capability, shutdown, abandon | nothing is served by an unhealthy, protected or unresumed process; outcomes are durable | `LifeContinuity` |
| text lifecycle (`bootstrap/stage10`, `13`, `15`, `16`) | owners' information in memory | one run per input | record, exchange and memory of one input are saved together; an answer that was told is explained by its trace | `LifeContinuity`, `IntelligenceAdoption` |
| console (`bootstrap/interactive_console.py`) | none of its own | run, quit, unwinding | how a session ended is recorded | `LifeContinuity` |
| protection boundary (`body/protection_boundary/stage8.py`) | control row, reservations, audit; issued evidence in memory | reserve, authorize, execute, observe, evaluate, verify, release | NORMAL comes back only with complete evidence; the audit tells the control row | `ProtectionControl` |
| external effect gate (`body/external_effect_gate/stage9.py`, `life/stage9/`) | table `capability_executions`; evidence in Memory | authorize, execute, record, receive | an idempotency key is read at most once | `CapabilityGate` |
| conversation memory (`life/stage13/memory.py`, `life/stage14/`) | items, candidates, governance records, pending confirmation | retain, correct, re-evaluate, withdraw, request, confirm, finalize | a completed deletion left no copy; a confirmation deletes what was asked about | `MemoryGovernance` |
| dialogue context (`life/stage12`, `life/stage13/core.py`, `life/stage14/relationship.py`) | active context with its turns, lifecycle records | new context, record exchange, select window, redact | withdrawn memory does not come back through old turns, a deletion reaches every turn that holds the content | `DialogueTaint` |
| relationship continuity (`life/stage15/`) | items, changes, pending confirmation, usages | propose, confirm, cancel, withdraw, select, record use | nothing holds without a separate confirmation in time; a withdrawal is final; what is not given does not come back as a quotation | `RelationshipChanges`, `RelationshipWindow` |
| experience (`life/stage16/`) | evidence, items, changes, pending confirmation, usages | register evidence, react, confirm, reassess, reject, select, ask first | a reaction binds to the last reply; nothing adapts without a separate confirmation; a question is asked once | `ExperienceDialogue` |
| retention review (`life/stage6/`) | memory items, reviews | propose, review | planned | - |
| Sensation, State (`life/stage3`, `life/stage7/materials.py`) | seen input IDs; operating state, internal time | receive, observe, restore | an input is judged once and on a resumed State; stopped time is counted once | `LifeContinuity`, `RuntimeClock` |
| auxiliary intelligence (`life/stage10/`, `adapters/intelligence/ollama.py`) | issued requests, results, reviews and adoptions; table `intelligence_trace` | request, generate, review, adopt, express, trace | what is adopted is the reviewed answer of that very request; what is told or remembered of it is traced | `IntelligenceAdoption` |
| Core, Judgment, Language (stages 3-5) | lifecycle counters | pure selection and text | no multi-step hazard | - |
| contracts | none | validation of immutable records | - | the type definitions |

How they interact: a caller enters through one of the entry points; the entry
point checks protection, health and runtime, may first run the startup cycle,
and then calls the organs in a fixed order. The owners (Core, Memory,
Relationship) change their information *in memory*, and one
`Stage7SnapshotCoordinator.commit` saves all of it as one checkpoint. The
protection and capability tables are written directly, outside checkpoints.
There are no threads and no callbacks from outside; the hard behaviour comes
from **exceptions and deaths between two writes**, from **several stores of
truth** (memory, checkpoint, direct tables, database pages) that are updated at
different times, and from **protocols that span inputs and processes** (a
confirmation, a release, a retry). `PROJECT.json` lists the hazards line by line.

## 2. Modules

| module | what it is |
|---|---|
| `DurableLife` | abstract: information is worked on in memory, saved all at once, told only when saved; a death loses the unsaved, another occasion puts away what belonged to the one before |
| `LifeContinuity` | the stage-16 system over the checkpoint store, at the granularity of writes and exceptions; refines `DurableLife` |
| `LifeContinuity_proofs` | its inductive invariant and theorems |
| `ProtectionControl` | the protection boundary with its durable rows, its issuers in memory, and a caller free to call the parts in any order |
| `AtMostOnce` | abstract: the effect behind a key happens at most once, and a settled result is an observed one |
| `CapabilityGate` | one capability call over the execution table and the checkpoint; refines `AtMostOnce` |
| `ProtectionBoundary_proofs` | the inductive invariants and theorems of `ProtectionControl` and `CapabilityGate` |
| `MemoryGovernance` | conversation memory with physical deletion down to the pages of the file |
| `MemoryGovernance_proofs` | its inductive invariant and theorems |
| `StoreBoot` | opening the database statement by statement: first boot, identity, upgrades, validation, restored owners |
| `DialogueTaint` | what the turns of the dialogue may hold, which exchanges are withheld from a window and which a deletion redacts |
| `DialogueTaint_proofs` | its inductive invariant and theorems |
| `ConfirmedChange` | abstract: one input proposes, a later one confirms in time, about the version it was proposed for |
| `RelationshipChanges` | the commands about the counterpart's preferences and agreements, and their records; refines `ConfirmedChange` |
| `RelationshipWindow` | which relationship items and which earlier exchanges the model is given, counted in characters |
| `Relationship_proofs` | the inductive invariants and theorems of `RelationshipChanges` and `RelationshipWindow` |
| `ExperienceDialogue` | evidence, reactions, experience items, their selection and the question they ask for; refines `ConfirmedChange` |
| `ExperienceDialogue_proofs` | its inductive invariant and theorems |
| `RuntimeClock` | clock readings, opportunities and internal time over processes, with clocks that are set, stand still and restart |
| `StoreAndClock_proofs` | the inductive invariants and theorems of `StoreBoot` and `RuntimeClock` |
| `IntelligenceAdoption` | what becomes of an answer of the auxiliary intelligence: result, review, adoption, expression, memory, trace, checkpoint |
| `IntelligenceAdoption_proofs` | its inductive invariant and theorems |
| `MC*` | instances for TLC: model values and symmetry, no definition of the system |

Three pairs of modules share a proof module: the parts that write tables of
their own, what opens a life and keeps its time, and the two about the
relationship. For that `ProtectionControl`, `RuntimeClock` and `RelationshipWindow`
carry their name in their general definitions (`ProtectionInit`, `ClockNext`,
`WindowInit`, ...), and the items of `RelationshipWindow` are its `contents`.

Each module is split at the points where the code can stop: one action
is the code between two such points, with every call it makes.

### LifeContinuity

`checkpoints`, `marked`, `sessions` and `mode` are the durable rows. `runtime`,
`startup`, `state`, `restored`, `healthy`, `seen` are the fields of the same
meaning in `Stage2Runtime`, `Stage7System`, `Stage7State`,
`Stage7TextInputRunner` and `Sensation`. `material` is what the owners hold:
the content is abstracted to *facts*, four for a text input (lifecycle record,
turns, retention candidates, memory decision) so that a half-applied input can
be told from a whole one, and one for a new context or a capability result.
`StartNewContext` is the one step that takes facts out of memory:
`start_new_context` replaces the active dialogue context by an empty one, and a
snapshot holds the turns of the active context only. What is left of the turns is the
ID of their context among the retired ones; `PutAway` turns each `"turns"` fact into
the `"retired"` fact that stands for this ID. So the next checkpoint drops the turns
of inputs that were answered long ago, as it should, while a new context whose save
fails or that dies with its process drops nothing. `call`, `pc` and
`raised` are the call in progress, its next step, and the exception on its way
out. `answered`, `failedSave`, `lastSaved` and `endings` are history variables.

`BeginTimeCycle` and `BeginRequest` are the entry points with their checks;
`Observe`..`EndTimeCycle` the time cycle; `Accept`..`EndRequest` the text
lifecycle, the context change and the capability; each has its failing
counterpart (`AuditFails`, `InterpretationTraceFails`, `CommitFails`,
`CapabilityStoreFails`, ...), because *where* an exception comes from decides
whether the process is marked unhealthy. Under protection a text input is
rejected rather than refused (`RejectUnderProtection`). `Quit`, `ConsoleUnwinds`,
`CallerCatches` and `Crash` are the ways out.

### ProtectionControl

The control row, the reservations and the COMPLETED audit rows are durable; the
registries of the five issuing responsibilities and the permits die with the
process. A caller may call every part at any time and with every record the
contracts allow it to build, so the checks have to stand on their own. The history
variable `before` tells the audit rows of earlier processes from those of this one:
nothing consumes a reservation, so within its process it may be used again, and
`ReservationsEndWithTheProcess` says that it cannot be used beyond.

### CapabilityGate

`executions` is the table (a set of rows, because at most one row per key is
something to be *proved*, as part of the refinement), `saved` the keys whose evidence is in the last checkpoint,
`evidence` those in Memory. `reads`, `answers` and `told` are history.

### MemoryGovernance

`memory` is what the stage-14 Memory would snapshot, `checkpoints` the retained
snapshots, `pages` the items whose content SQLite may still hold in free pages
or the WAL after a DELETE. A text input is one change of `memory` followed by
the durable steps that `Stage14TextInputRunner.run` takes: save, and for a
confirmed deletion prune to one generation, rebuild, finalize, save again.

### StoreBoot

`script` counts the executed statements of `_create_schema`, which runs in
autocommit mode; `identity`, `rows`, `marker` and `control` are the rows of the
tables. `program` is the version of the program that runs now, `newSchema` its
local variable, `content` what its owners hold. One action is one statement or
one check of `SQLitePersistenceStore.open`; `Stop` may follow any of them, so a
boot is cut off anywhere. `Damage` stands for what happens to a file outside
the program: all checkpoints gone, the identity gone, one checkpoint no longer
matching its checksum. The loss of the newest checkpoint alone, with older ones
kept, is not among them: no check of the code can see it.

The model shows one thing a reader may not expect: a first boot that is cut off
before the identity is written leaves a database that every later open refuses,
for ever. No life is lost by that, and no document promises otherwise;
`BornMeansOpenable` is therefore stated for lives that were born.

### DialogueTaint

A reply of the auxiliary intelligence may repeat anything it was shown: the
selected memories, and earlier exchanges that repeat other memories. The code
never looks at that content again; Core notes *which* materials went into a
lifecycle, and works with these entries alone. `records` holds the entries of a
lifecycle (memories used, exchanges shown, targets of a governance request,
affected items), `items` the memories with what they say in each version,
`context` and `redacted` the active dialogue. `taint` is a history variable:
the contents the turns of a lifecycle *may* hold, computed from what flowed and
not from the entries. The properties compare the two: the entries must say
enough (`WindowsHoldNothingWithdrawn`, `DeletedMeansRedacted`) and not too much
(`RedactionIsPrecise`).

A content is named by its item and by the version that first said it, so a
correction makes a new content and a re-evaluation does not. One action is one
text input with its lifecycle record, its exchange and its effect on memory;
they are saved in one checkpoint, so a crash between them is a matter of
`LifeContinuity`. Replies come from a window (`Assisted`), are the fixed
question of an experience (`Clarification`), or answer a management command,
which is shown no window (`Command`). `Init` includes a life whose last
exchanges were recorded before materials were; nothing leads to what they hold,
and the code withholds and redacts all of them.

What the model shows beyond the properties: with the entries complete, direct
exclusion alone would already clean most windows, because a reply that repeats
a memory has that memory selected. The closure over dialogue (`Dependent`) is
needed for the replies built on exchanges without materials and on the exchange
that `_validated_confirmation_exchange` lets back in although its memory is not
selected.

Left out: a relationship or experience item only removes exchanges from a
window, and the budget keeps the last ones, so both are the arbitrary `first`
and `selected`. A human may say again anything he said before; only what an
input takes effect with is tracked. A command repeated while a deletion is
pending leaves no entry for its target, and a second call to the intelligence
may derive a new memory from an old one; both are listed as hazards that no
property covers.

### RelationshipChanges and ConfirmedChange

`items`, `pending` and `changes` are the fields of `Stage15Relationship`. One
action is one command with its record; every request comes from an input of its
own, so a request is its place in `changes`, and the check that a confirmation
is another input than the proposal holds by that. `Withdraw` takes effect at
once, also while a correction of the same item waits (`Overtaken` is what the
confirmation then meets). A proposal that has expired is still in the way of a
new one (`Blocked`); a late confirmation removes it (`Expire`).

`ConfirmedChange` is what both this module and `ExperienceDialogue` promise:
what is held was proposed by one input and confirmed by a later one before the
proposal expired, and a change replaces the version it was proposed for. It
knows no commands and no records.

### RelationshipWindow

Three character budgets meet in one input: the items given to the model fit
what the input leaves free (`Assisted`), the items recorded as used are a second
selection under the full limit (`RecordedAsUsed`), and earlier exchanges share what is
left (`Room`). Sizes and limits are a scale model: contents of at most half of
`MaxCharacters` as in the code (256 of 512). `Words` computes which items the
words of a reply may come from, over all replies it was shown.

As long as no restart raises the limit nothing comes back, but not because the
record is complete: an input near the limit gives the model an item that is not
recorded (`RecordCoversModelInput`), and only the arithmetic keeps that exchange
out of later windows. An input that left no room for the newer item leaves none
when the two are to be given together later (`NothingReturnsUnlessRaised`; a
window that did not count the relationship information would break it). A
session composed with a larger `intelligence_max_input_characters` has the room,
and the words of a withdrawn item come back (`QuotedUnderAnotherLimit`).

### ExperienceDialogue

`events` are the inputs and capability results in order; one event carries its
kind (what Judgment decided and what was released), its usage, and stands for
its evidence. `LastReply` is `_current_experience_evidence`, `Selected` the
selection with its budget (the lengths are those of the instructions), `Answered`
is `_validated_confirmation_exchange`, `Valid` is
`_validate_experience_proposal`, used at the proposal and again at the
confirmation. What memory or relationship do to the exchange of a question, and
whether it fits the input, is the free choice `intact`. Commands that are
refused change nothing but the record and are one action, `Manage`.

A confirmed proposal makes the item it says (`Formed`) or ends the one it is
about (`Ended`); `Completed` is the record of it. The second validation can never
fail (`PendingStaysValid`), because only one proposal waits and only its
confirmation changes items; `Confirm` has it nevertheless, as the code does.

The snapshot has rules of its own: `MemoryPersistenceSnapshot` checks items,
open proposal and usage against the history of changes, at every save and at
every start. `changes` is that history, `Savable` those rules, conjunct by
conjunct; they are the second half of the module and refer to the history only,
where `Valid` refers to the items. `EveryStateCanBeSaved` compares the two. What
the validator asks of the record of a capability result
(`contracts/persistence.py:577`), of IDs and of the counterpart is no part of them.

### RuntimeClock

`wall` and `mono` are the two clocks, moved by `Tick`, `Adjust` (the wall clock
is set, or the machine was suspended) and `Reboot`. `status`, `last`, `pending`
are fields of `Stage2Runtime` and `Stage7System`; `state` is what State holds of
time, `saved` its part of the newest checkpoint. `Start`, `BeginStartup` and
`BeginPeriodic` make the opportunities, `RunLifecycle` is the input-free
lifecycle from the observation to `runtime.wait`, `Checkpoint` its checkpoint;
`RefuseCycle`, `RefuseRestart` and `CheckpointFails` are what can go wrong, each
with what it leaves behind: an old observation, a runtime that stays active, a
process that saves nothing more. Elapsed times are counted in ticks; the code's
tolerance of five seconds is `Tolerance`. Text inputs save State as the last
cycle left it and are no action here.

Internal time is advanced by the monotonic clock while a process runs, and by
the wall clock over a stop. `uneven` counts the cycles whose two clocks differed
at all: `InternalFollowsWall` bounds the error by one tolerance for each of
them, so neither refused cycles, nor failed checkpoints, nor restarts lose or
repeat any time. A refused cycle costs nothing, because the next one is measured
from the old observation.

### IntelligenceAdoption

The four registers of issued records are sequences, and a record is its place
there. `turn` is the text input in progress with its local variables, one action
per stretch of `Stage10TextInputRunner.run` up to the next point that can raise:
`Begin`, `Answer`, `Decide`, then possibly `Interpret`, `Answer`, `Note` (the
memory interpretation of `Stage13TextInputRunner` that forms a memory; the request
to forget that it may interpret instead, `bootstrap/stage13.py:209`, is left out),
`StoreTrace`, `Commit`. `owned`
is what the owners hold (answers and memories), `saved` the checkpoint, `traces`
the table. An answer is a member of a small set named after what the checks tell
apart: too long for a request that asks for brevity, claiming an effect,
speaking as somebody else, quoting what was not said.

`Lost` is a connection that breaks in the middle of an answer. The adapter turns
timeouts, `OSError` and undecodable answers into results; `http.client`'s own
exceptions (an incomplete body) are none of these and leave `receive_text`.
`Checkpoint` is any other entry point that saves what such an input left behind.
`Direct` is a caller that passes issued records to the organs himself, between
two inputs: a request once more, a result with the review of another, a request
with the finalization of another lifecycle; `AdoptionIsEarned` says that the
checks of Core stand on their own. Not modelled for such callers:
`review_intelligence_expression` does not compare the lifecycle of the adoption
with that of the expression; the runner always passes its own.

## 3. Runs

The longest runs take about three minutes on two cores, most a few seconds.

| run | instance | shows |
|---|---|---|
| `LifeContinuity` | 2 inputs, 1 context, 1 key, 2 generations, 2 processes, 4 checkpoints | answers are durable up to the turns a saved new context put away, abnormal exits are reported, nothing is saved once unhealthy or served while protected, and the refinement of `DurableLife` |
| `ProtectionControl` | 2 fixed observations, 2 activations, 3 recovery observations and 1 evaluation per process | audit and control row agree; a release is earned; what activated protection in one process does so in no later one |
| `CapabilityGate` | 2 keys, 2 targets, 2 authorities, 1 grant, 3 calls | at-most-once over failures and restarts, only under a grant for the request; outcomes and evidence are true |
| `MemoryGovernance` | 2 meanings, 5 inputs, 3 items, 2 generations | a completed deletion left nothing; pins, versions and redaction are stable |
| `StoreBoot` | 3 versions, 4 opens, 5 sequence numbers, 2 generations, 1 damage | one subject per database, nothing committed is lost silently, upgrades are whole |
| `DialogueTaint` | 4 lifecycles, 2 memories | windows hold only current, selected content; a deletion redacts all that holds the content and nothing else |
| `RelationshipChanges` | 2 contents, expiry after 2, clock of 3, limits 2 and none, 6 commands, 1 of them refused | confirmation apart and in time, a final withdrawal, records that tell every version |
| `RelationshipWindow` | 2 items of 1 or 3 characters, 1 of them selected, limits 3 and 8, inputs of 1 or 6, 1 experience, 3 inputs | nothing comes back as a quotation, over two replies and restarts, unless a restart raised the limit |
| `ExperienceDialogue` | 2 values, 1 topic, 1 object, 2 dialogues, 6 events, 1 of them aside, clock of 1 | reactions bind to the last reply and are confirmed apart; cross-dialogue reviews; a question is asked once; every reachable state is one the snapshot accepts |
| `RuntimeClock` | tolerance 1, wall clock up to 4, set by at most 2 at a time, 3 faults | internal time follows the wall clock and never runs back; cycles complete again and again |
| `IntelligenceAdoption` | 2 inputs, 2 faults, 1 call by another caller in each process, 1 reported failure | adoptions are earned; what is told or remembered is traced and saved |
| `SaveFailureStopsSession` | as `LifeContinuity` | a disagreement between a design document and the code, see section 6 |

Why the bounds are enough. *LifeContinuity*: two inputs give one that fails and
one that saves after it; two processes give a restart; four checkpoints with
two kept give prunings that remove something; the theorems lift the invariants
to all values. Deadlock is not checked there because the system really stops:
all processes are used up or the sequence bound is reached.
*ProtectionControl*: two activations let evidence of the first meet the second.
*CapabilityGate*: three calls over two keys give a retry and an unrelated key.
*MemoryGovernance*: remember, merge or correct, request, something in between,
confirm are five inputs; two generations and a bound of three when a time cycle
begins give failed prunings that leave an older copy.

*StoreBoot*: three versions give an upgrade of an upgraded database and a
program that is too old; four opens give a cut-off boot, an upgrade and a
restart after it. Deadlock is not checked there because opens are used up.

*DialogueTaint*: remember, answer from it, build on the answer, delete or show
again are four inputs; after the two exchanges of a legacy start two inputs are
left, to request a deletion and confirm it or to answer from what is withheld;
two memories give one that stays while the other goes. Deadlock is not checked
because inputs are used up.

*RelationshipChanges*: propose, confirm, propose a correction, withdraw, confirm
are five commands, a sixth may follow or be refused; the clock lets a proposal
expire by its time to live and by `valid_until`. *RelationshipWindow*: three
inputs give a quotation of a quotation; two items of which one is selected are
enough for two selections that differ (the newest too long for this input, the
older one short enough); with these lengths a window that forgets one of its
terms shows what it must withhold. *ExperienceDialogue*: reply, reaction,
confirmation, and the same once more in another dialogue, are six events; a
capability result, a reaction, its confirmation and a use in each dialogue are
five. Deadlock is not checked in these runs because commands and inputs are
used up.

*RuntimeClock*: three faults let a wall clock that was set back meet a death or a
failed checkpoint and then be set again, and a step of two is more than the
tolerance; the clock stops at its bound, after which cycles without elapsed time
still have to complete. *IntelligenceAdoption*: two inputs give an input that
fails and one that saves after it, two faults a lost write and a restart, and one
direct call meets the records of two lifecycles; the registers start anew with
each process. The three reported failures differ in a name only, so the run has
one of them. Deadlock is not checked because inputs and faults are used up.

The symmetry sets only permute model values that occur in no constant
expression: inputs, keys, meanings, observation and activation IDs. Only
`RuntimeClock` checks liveness, and it has no symmetry.

**Mutants.** Every property of a passing run has a *faulty variant* in its
module, a plausible bug of the mapped definition (an entry point that forgets a
check, pruning from the wrong end, a merge that forgets its source). They are
never used by the specifications; with one of them in place TLC finds the
property violated.

Type invariants: `ExperienceDialogue` has its type invariant checked by its
run; in every module with theorems the type invariant is one of them
(`TypeCorrect`, `ProtectionTypeCorrect`, `ClockTypeCorrect`, `WindowTypeCorrect`),
proved for all values. Two properties have a theorem and no run of their own, as what breaks them in the
code also breaks a property that is checked: `NewestCheckpointsSurvive` (see
`ImplementsDurableLife`) and `VersionsAgree` (see `BornMeansOpenable`).

**Fairness.** Most modules assume none: a call that is never made, a deletion
that is never resumed and a process that is never restarted are behaviours of
the code, and their properties are safety. `RuntimeClock` asks the one question
of progress the code raises: can the time of a life get stuck, on a clock
discontinuity that no cycle repairs, on a restart behind the saved time, or on a
startup opportunity that was spent? `LifeGoesOn` says no, under `Fairness`: a call
that has begun goes on (one thread that waits for nothing: weak fairness of
`Program`); time passes, as long as the bounded clock has any left (weak, `Tick`);
a life that is down is opened again (weak, `ProcessOpens`); time cycles are asked for again
and again, although a call in progress makes the request impossible now and then
(strong, `RunTimeCycle`); and a caller who gets a refusal does not catch it for
ever, so that the process ends (strong, `Unwind`: `CallerCatches` disables it each
time). Without the last the wedge after a refused restart is for good, which the
console avoids by ending the session. No fairness is assumed for faults, which
are bounded.

## 4. What is proved

Every state machine has its theorems in a proof module
(`LifeContinuity_proofs`, `ProtectionBoundary_proofs`, `StoreAndClock_proofs`,
`DialogueTaint_proofs`, `Relationship_proofs`, `IntelligenceAdoption_proofs`,
`MemoryGovernance_proofs`, `ExperienceDialogue_proofs`). They hold for every value of
the constants that satisfies the named assumptions, and are listed in
`PROJECT.json`. Each proof follows one pattern: an inductive invariant, the
lemmas that it holds initially and is kept by every step, with one step per
action, and the properties from it. Those of `MemoryGovernance`,
`ExperienceDialogue`, `IntelligenceAdoption`, `RelationshipChanges` and
`RelationshipWindow` TLC also finds to hold on the instance of the run (for the
first three one replaces the module by its proof module in the `EXTENDS` of
`MC...`, and the invariants of the configuration by `IInv`; for the two that share a
proof module one copies `HistoryInv` or `WindowInv`, with the definitions before
it that it names, into `MC...`); the others quantify over sets that it cannot enumerate.

* *LifeContinuity*: `IInv` adds to the properties that `material` holds what is in
  `LatestFacts` while a process is up, as it is or as what remains of it (so a save
  drops nothing but turns that were put away), which facts of
  the current call are in `material` at each `pc` (so what is saved is whole),
  and how `sessions` and `endings` run in step. Assumptions:
  `KeepLatest >= 1`, and that requests of different kinds are different. The
  refinement is proved step by step: `Open` is `Revive`, `Commit` is `Save`,
  `StartNewContext` is `BeginAnew`, `EndRequest` is `Deliver`, ways out are `Die`,
  everything else is `Work` or a stutter. `WaitingIsResumed` needs no more than itself: one step makes
  the runtime wait, and that step leaves State with the stopped time taken in.
* *ProtectionControl*: `ProtectionInv` adds that every issued permit, proposal and
  verification names activations the audit knows, and that permits lie within
  verified activations; alternation of the audit rows is then inductive. That
  reservations end with their process needs that every activation row has its
  reservation in the table, so that it is not made again, and that this process
  knows none of those of earlier rows (`ReservationInv`).
* *CapabilityGate*: `IInv` adds what the row of the current key looks like at
  each `pc`, that request IDs are not reused, and that every answer belongs to
  a row. `GateIsAtMostOnce` maps `Reserve` to `Claim`, `Execute` to `Perform`,
  `RecordResult` to `Settle`, and raising or dying to `GiveUp`.
* *StoreBoot*: `IInv` adds which part of a first boot can be unfinished (a
  database whose script is incomplete has no life), that an intact newest
  checkpoint holds what was committed, and that there is a newest sequence
  number at all: "a finite set has a greatest element" is an induction, so the
  invariant carries it.

* *DialogueTaint*: that content reaches a reply over a chain of replies asks for
  an induction over the chain. `TaintInv` avoids it: *every* set of lifecycles
  that is closed under "was shown" and has the exchanges whose records lead to
  a content directly, has all exchanges that may hold it. What the code
  computes is the least such set, so the windows and the redaction follow
  (`LeftIsCurrent`, `LeftHoldsNoTarget`); precision follows because the
  exchanges that hold content of a target form such a set themselves
  (`TakenHoldsTarget`). `IInv` adds that an exchange is shown only to later
  ones, that every entry stands for content the exchange holds, and that the
  last exchange, if the context has any, is that of the last lifecycle, so that
  nothing rests yet on a question when it is answered.
  `Takes` is what each of the ten kinds of input is shown to satisfy.

* *RelationshipChanges*: `Kinds` sorts the commands by what they leave behind
  (nothing, a proposal dropped, one made, a withdrawal, a confirmation), and each
  theorem has one step per kind. That the history explains the items becomes
  inductive with `Known`: no record is ahead of its item, so the record of the
  next version is the only one of it. `ConfirmedApart` maps these kinds to
  `Ignore`, `Drop`, `Propose`, `Withdraw` and `Confirm` of `ConfirmedChange`; the
  lemmas about `HeldOf` say what one changed item does to what is held.

* *RelationshipWindow*: a reply quotes an exchange only if everything recorded
  for that exchange is given now; but what was *given* to it may be more than was
  recorded, since the two selections have different budgets. `WindowInv` says
  why this does no harm. Either the record covers what was given, or the exchange
  is `Crowded`: as long as what was recorded is unchanged, that and the exchange
  itself are together longer than the limit, so that no window has room for
  the exchange beside it. Items only grow in versions and a version keeps its
  length (`Altering`), so an exchange stays crowded until the limit is raised,
  which is the condition of the theorem. That a record which does have room
  covers what is given is `SelectAlike`: a budget with room for what a larger
  one selects, selects the same. By `Passed` each reply then quotes only exchanges
  that were given no more than itself, and `WordsAreGiven` follows the quotations
  of quotations. The lengths are sums over sets, which the prover knows
  nothing about: `SumIsTotal` unfolds `SumFunctionOnSet` into the recursive function
  it stands for, `TotalExists` shows that there is one, layer by layer of
  cardinality, and `SumTakesOut` that a sum does not depend on the order in
  which its elements are taken. `SelectionExists` does the same for the selection
  of items. The induction is over sets of numbers (`AllNumbers`, from the
  well-foundedness of `<`), because the library's induction theorems cannot be
  instantiated. Assumption: `WindowBounds` (lengths and bounds are natural
  numbers, and there are finitely many experiences).

* *RuntimeClock*: `ClockInv` adds that a restored State is the newest checkpoint until
  its first cycle (`Resuming`), that the observation the next cycle is measured
  from is the one State has taken in (`Synchronised`; this is why refused cycles
  and failed checkpoints lose no time), and the bound for the time a running
  cycle will lead to (`Ahead`). The bound is linear in `uneven`; `OneMore` and
  `DistanceAdds` are all the arithmetic it takes. Assumptions: the constants are
  natural numbers.
* *IntelligenceAdoption*: `Registers` links each record to those it was made from,
  `TurnLinked` says that the local variables of the running input point at the
  records it just made, `Answers` that a lifecycle has one answer, which is not
  in a checkpoint before its turn ends, `Untraced` that no reply is traced before
  its input does it. What is told is then explained by exactly one trace and
  stays so. Assumption: the failures a transport reports are three of the
  result's statuses.

* *MemoryGovernance*: `Sound` says of one state of Memory that a deleted item has
  left nothing in it; it needs that every candidate naming an item is among the
  item's sources, since the redaction goes through the sources. `Later` orders the
  states of Memory (no item lost, a version names one content, deletion is for
  good), and memory and checkpoints are a chain of it (`OrderInv`). `GoneInv` is
  inductive only with what the steps of a running deletion know of the
  checkpoints (`DeletionInv`: before the rebuild there is one generation left,
  and it is the memory in use). Every kind of input is shown to lead to a sound,
  later memory (the lemmas `...Served`); saving, pruning, resolving, dying and
  restarting have a lemma each. `DeletionIsFinal` is about the states an outside
  reader sees, the newest checkpoints: along a step each is `Later` than the one
  before. Assumption: `Redacted` is no meaning, and the bounds are natural
  numbers.
* *ExperienceDialogue*: events only grow and their dialogues do not go back, so what
  was the last reply at a reaction stays what it was (`EventsInv`, `LastBefore`).
  The last record of an item is the item itself and no record is of a version it
  does not have yet (`RecordsInv`), so a version that was used, or that a proposal
  is about, keeps naming the same record; this makes `HistorySavable` inductive,
  where a new event must not make an earlier record look different. That the
  confirmation of a proposal can always be saved (`EveryStateIsSavable`) is the
  place where the two rule sets meet: each conjunct of `Follows` and `Begins` is
  shown from the conjunct of `Valid` that corresponds to it. `PendingIsValid` has
  one step per event, since only resolving a proposal changes an item and it ends
  the proposal. `ConfirmedApart` maps proposing to `Propose`, confirming to
  `Confirm`, cancelling, a late answer or a proposal that makes way to `Drop`, the
  rest to `Ignore`. `Max` of a set of places is a finite-set induction; `Greatest`
  gets it from the well-foundedness of `<` instead. Assumption: `DialogueBounds`
  (the four values of `REACTION_EFFECTS`, at least one dialogue, a positive time
  to live).

Only model-checked: `LifeGoesOn`, which is liveness under fairness and out of the
prover's reach with `ENABLED`. No module uses `RECURSIVE`.

## 5. What is abstracted or left out

* Texts, parsing and wording: an input is what it asks for. The search of
  memory by text fragments is the set of meanings it matches.
* Time: outside `RuntimeClock` an owner refuses a time before its own (`RestartPrecedesState`,
  `ExchangePrecedesContext`, `NewContextPrecedes`), nondeterministically.
* `LifeContinuity` tells facts by the request that left them: the redaction of a
  turn or an item keeps the fact, and an input ID that is used again after a
  restart leaves the same facts again. What a deletion takes out of the content
  is the matter of `MemoryGovernance` and `DialogueTaint`.
* Checksums and hashes of rows: outside `StoreBoot` the store is assumed to
  return what was written. SQLite transactions are atomic and durable.
* The auxiliary intelligence: `IntelligenceAdoption` has its answers as members of
  a small set, without prompts and JSON schemas; in the other modules it is a
  source of accepted or refused answers.
* Not modelled: the snapshot codec (a pure, versioned conversion without state;
  modelled by what it does, a snapshot comes back as it was written), what
  Judgment selects and Language says of a text (pure functions of one input),
  console commands, structured logging, and the review of retention candidates,
  of which only the fact that it was recorded is kept.
* Held candidates of conversation memory: the Judgment of this composition
  never proposes one of unknown retention, so they are unreachable.
* Several processes on one database are out of scope of the design
  (`docs/03_design/016`), and of the models.

## 6. Disagreements found between documents and code

With a run in `PROJECT.json`:

* `SaveFailureStopsSession` - a failed trace write in the memory
  interpretation does not stop the session (`bootstrap/stage13.py:267`).

With a configuration of the same name beside the modules, to be run by hand:

* `EvidenceIsOfThisActivation` - recovery observations are not bound to the
  activation (`body/protection_boundary/stage8.py:490`); `docs/03_design/013`
  line 63 asks for all evidence to be bound to the same activation ID.
* `NothingReturnsByQuotation` (`QuotedUnderAnotherLimit.cfg`) - after a restart
  with a larger input limit, a withdrawn item comes back through an earlier reply
  (`bootstrap/stage15.py:203`), against `docs/03_design/021` line 58.
* `RequestExecutesOnce` - the once-only check of `generate_candidate` looks up the
  request ID in a register keyed by result IDs
  (`life/stage10/auxiliary_intelligence.py:67` and `:89`), so its message at
  line 68 never appears and a request is executed as often as it is passed in;
  compare `life/stage9/capability.py:52`. The text runner asks once, and
  `AdoptionIsEarned` holds all the same.
* `SavedMeansTraced` - an answer that was broken off by a failed interpretation is
  saved by a later entry point without a trace; it was not told to anybody.
* `NormalMeansQuit` - an exception that unwinds the console is recorded as a
  normal exit (`bootstrap/interactive_console.py:152`); `docs/03_design/012`
  line 43 reserves `normal` for `/quit`, the end of input and an explicit stop.
* `OneExecutionPerReservation` - a reservation is never consumed
  (`body/persistence/sqlite.py:367`); `docs/03_design/013` line 12 calls it one
  for a single execution.
* `ShownDeletedMeansGone` - an item reads "physically deleted" while its
  deletion is partial (`life/stage14/memory.py:456`), against
  `docs/03_design/020` line 80.
* `RecordCoversModelInput` - the model may be given a relationship item whose
  use is not recorded (`bootstrap/stage15.py:203`), against the comment two
  lines above; the cause of `QuotedUnderAnotherLimit`.

One more has no configuration, because it is a step of the model and no state:
an answer that breaks off in the middle raises out of `receive_text`
(`adapters/intelligence/ollama.py:164`, action `Lost`), while
`docs/03_design/015` lines 60-71 promise the fixed reply for a model that cannot
be reached.

Two more observations contradict no document: an expired relationship proposal
still blocks the next one, while an expired experience proposal makes way; and
an addition of an experience is refused when an active one covers the same
range, but a reassessment that names other topics may create such a pair.

## 7. Plan

Done, in this order: `LifeContinuity` with `DurableLife` (the core: every call
goes through it), `ProtectionControl`, `CapabilityGate` with `AtMostOnce`,
`MemoryGovernance`, `StoreBoot`, `DialogueTaint`, `ConfirmedChange` with
`RelationshipChanges`, `RelationshipWindow`, `ExperienceDialogue` with the rules of
its snapshot, `RuntimeClock` with its liveness, `IntelligenceAdoption`, and the
proofs of all of these.

Next:

1. A composition of the three pending confirmations (memory, relationship,
   experience) over one input: which of them an input may answer.
2. `RetentionReview`, and the validation of conversation memory and relationship
   snapshots against the rules of their owners, as for experience.
