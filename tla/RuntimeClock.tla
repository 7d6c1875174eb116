---------------------------- MODULE RuntimeClock ----------------------------
(***************************************************************************)
(* The time of one life.  The runtime pairs readings of the wall clock and *)
(* of the monotonic clock into execution opportunities; State advances its *)
(* internal time by them, by the monotonic clock while a process runs and  *)
(* by the wall clock over the time the life was stopped; the checkpoints   *)
(* carry it from process to process.  Text inputs leave State alone: their *)
(* checkpoints save it as the last cycle left it.                          *)
(*                                                                         *)
(* The clocks belong to the environment: both tick, the wall clock may be  *)
(* set by MaxStep at a time in either direction (a suspended machine is    *)
(* such a step forward, the monotonic clock stands still), and a machine   *)
(* that starts again begins its monotonic clock at zero.                   *)
(***************************************************************************)
EXTENDS Integers

CONSTANTS
    Tolerance,      \* Stage2Runtime._clock_tolerance, in ticks
    MaxWall,        \* bound: the wall clock
    MaxStep,        \* bound: how far one adjustment moves the wall clock
    MaxFaults,      \* bound: adjustments, deaths and failed checkpoints
    None            \* an optional value that is absent

ASSUME ToleranceAssumption == Tolerance \in Nat
ASSUME ClockBounds == MaxWall \in Nat /\ MaxStep \in Nat /\ MaxFaults \in Nat

VARIABLES
    wall, mono,     \* what Clock.observe would read
    faults,         \* faults still to come
    saved,          \* the State of the newest checkpoint
    up,             \* a process holds the store open
    status,         \* Stage2Runtime._status
    last,           \* Stage2Runtime._last_observation
    pending,        \* Stage7System._startup_opportunity
    running,        \* the opportunity whose lifecycle runs
    state,          \* State: operating state and internal time
    restored,       \* Stage7State._restored_for_restart
    healthy,        \* Stage7TextInputRunner._persistence_healthy
    step,           \* the next step of the call being served
    raised,         \* an exception has left run_time_cycle
    bornAt,         \* history: external time of the life's first observation
    uneven          \* history: cycles whose two elapsed times differed

clocks == <<wall, mono>>
inProcess == <<up, status, last, pending, running, state, restored, healthy>>
clockVars == <<clocks, faults, saved, inProcess, step, raised, bornAt, uneven>>

Observations == [wall : Nat, mono : Nat]
Opportunities == [kind : {"startup", "periodic"}, wall : Nat, elapsed : Nat]
States == [operating : {"not_started", "active", "waiting"}, elapsed : Nat, updatedAt : Nat]

ASSUME NoneAssumption == None \notin Observations \cup Opportunities \cup States

ClockTypeOK ==
    /\ wall \in Nat /\ mono \in Nat /\ faults \in Nat
    /\ saved \in States \cup {None}
    /\ up \in BOOLEAN
    /\ status \in {"not_started", "active", "waiting", "stopped"}
    /\ last \in Observations \cup {None}
    /\ pending \in Opportunities \cup {None}
    /\ running \in Opportunities \cup {None}
    /\ state \in States
    /\ restored \in BOOLEAN
    /\ healthy \in BOOLEAN
    /\ step \in {"idle", "observe", "save"}
    /\ raised \in BOOLEAN
    /\ bornAt \in Nat /\ uneven \in Nat

-----------------------------------------------------------------------------
(* The clocks *)

\* Clock.observe
Now == [wall |-> wall, mono |-> mono]

Distance(a, b) == IF a >= b THEN a - b ELSE b - a

Fault == faults > 0 /\ faults' = faults - 1

Tick ==
    /\ wall < MaxWall
    /\ wall' = wall + 1
    /\ mono' = mono + 1
    /\ UNCHANGED <<faults, saved, inProcess, step, raised, bornAt, uneven>>

Adjust ==
    /\ Fault
    /\ wall' \in {w \in 0..MaxWall : Distance(w, wall) \in 1..MaxStep}
    /\ UNCHANGED <<mono, saved, inProcess, step, raised, bornAt, uneven>>

Reboot ==
    /\ ~up
    /\ mono # 0
    /\ mono' = 0
    /\ UNCHANGED <<wall, faults, saved, inProcess, step, raised, bornAt, uneven>>

-----------------------------------------------------------------------------
(* A process begins and ends *)

\* The internal time of a State that has observed nothing is None in the
\* code; here its zeros are not read before they are set.
Fresh == [operating |-> "not_started", elapsed |-> 0, updatedAt |-> 0]

ClockInit ==
    /\ wall = 0 /\ mono = 0 /\ faults = MaxFaults
    /\ saved = None
    /\ up = FALSE
    /\ status = "not_started" /\ last = None /\ pending = None /\ running = None
    /\ state = Fresh /\ restored = FALSE /\ healthy = TRUE
    /\ step = "idle" /\ raised = FALSE
    /\ bornAt = 0 /\ uneven = 0

\* make_stage7_system: fresh owners, and the saved State into State.
ProcessOpens ==
    /\ ~up
    /\ up' = TRUE
    /\ status' = "not_started" /\ last' = None /\ pending' = None /\ running' = None
    /\ IF saved = None
       THEN state' = Fresh /\ restored' = FALSE
       ELSE state' = saved /\ restored' = TRUE
    /\ healthy' = TRUE
    /\ step' = "idle" /\ raised' = FALSE
    /\ UNCHANGED <<clocks, faults, saved, bornAt, uneven>>

\* The store is closed; what the process held is not used again.
Down ==
    /\ up' = FALSE
    /\ status' = "stopped" /\ last' = None /\ pending' = None /\ running' = None
    /\ state' = Fresh /\ restored' = FALSE /\ healthy' = TRUE
    /\ step' = "idle" /\ raised' = FALSE
    /\ UNCHANGED <<clocks, saved, bornAt, uneven>>

\* shutdown, asked for between two calls.
Quit == up /\ step = "idle" /\ ~raised /\ Down /\ UNCHANGED faults

\* The exception unwinds the session, which shuts down.
Unwind == up /\ raised /\ Down /\ UNCHANGED faults

\* A caller of the system object catches the exception and goes on.
CallerCatches ==
    /\ up
    /\ raised
    /\ raised' = FALSE
    /\ UNCHANGED <<clocks, faults, saved, inProcess, step, bornAt, uneven>>

Die == up /\ Fault /\ Down

-----------------------------------------------------------------------------
(* Opportunities *)

Idle == up /\ step = "idle" /\ ~raised

Startup == [kind |-> "startup", wall |-> wall, elapsed |-> 0]

\* Stage2Runtime.start, by Stage7System.start.
Start ==
    /\ Idle
    /\ status = "not_started"
    /\ last' = Now
    /\ status' = "active"
    /\ pending' = Startup
    /\ UNCHANGED <<clocks, faults, saved, up, running, state, restored, healthy,
                   step, raised, bornAt, uneven>>

\* The lifecycle of the opportunity begins.
Runs(opportunity) ==
    /\ running' = opportunity
    /\ pending' = None
    /\ status' = "active"
    /\ step' = "observe"

\* run_time_cycle with the startup opportunity, starting the runtime first if
\* start was not called; receive_text and the others begin with it too.
BeginStartup ==
    /\ Idle
    /\ healthy
    /\ \/ status = "not_started" /\ last' = Now /\ Runs(Startup)
       \/ pending # None /\ Runs(pending) /\ UNCHANGED last
    /\ UNCHANGED <<clocks, faults, saved, up, state, restored, healthy,
                   raised, bornAt, uneven>>

\* Faulty variant of Agrees: a wall clock that lags behind is not noticed.
AgreesIfNotAhead == wall - last.wall <= mono - last.mono + Tolerance

\* periodic_opportunity: the monotonic clock did not go back, and the wall
\* clock went with it.
Agrees ==
    /\ mono >= last.mono
    /\ Distance(wall - last.wall, mono - last.mono) <= Tolerance

\* run_time_cycle of a runtime that waits: internal time will advance by the
\* monotonic clock.
BeginPeriodic ==
    /\ Idle
    /\ healthy
    /\ status = "waiting"
    /\ Agrees
    /\ Runs([kind |-> "periodic", wall |-> wall, elapsed |-> mono - last.mono])
    /\ last' = Now
    /\ uneven' = IF wall - last.wall = mono - last.mono THEN uneven ELSE uneven + 1
    /\ UNCHANGED <<clocks, faults, saved, up, state, restored, healthy, raised, bornAt>>

\* The store is unhealthy, the startup opportunity is spent and the runtime
\* never came to wait, or the clocks disagree.  The last observation stays.
RefuseCycle ==
    /\ Idle
    /\ \/ ~healthy
       \/ status = "active" /\ pending = None
       \/ status = "waiting" /\ ~Agrees
    /\ raised' = TRUE
    /\ UNCHANGED <<clocks, faults, saved, inProcess, step, bornAt, uneven>>

-----------------------------------------------------------------------------
(* The input-free lifecycle *)

\* Faulty variant of AcceptsRestart: a saved time in the future is accepted.
AcceptsAnyRestart == TRUE

\* A restored State takes in the startup opportunity of a wall clock that is
\* not behind its own last update.
AcceptsRestart == running.kind = "startup" /\ running.wall >= state.updatedAt

\* What the internal time advances by.
Passed == IF restored THEN running.wall - state.updatedAt ELSE running.elapsed

\* Faulty variant of AfterLifecycle: State is saved before it waits.
AfterObservation == "active"

\* State.enter_waiting, from the finalized decision to do nothing.
AfterLifecycle == "waiting"

\* State observes, Judgment proposes no action for an active State without
\* pending items, Core finalizes, State waits, the runtime waits.
RunLifecycle ==
    /\ step = "observe"
    /\ state.operating \in {"not_started", "waiting"}
    /\ restored => AcceptsRestart
    /\ state' = [operating |-> AfterLifecycle,
                 elapsed |-> IF state.operating = "not_started"
                             THEN 0 ELSE state.elapsed + Passed,
                 updatedAt |-> running.wall]
    /\ bornAt' = IF state.operating = "not_started" THEN running.wall ELSE bornAt
    /\ restored' = FALSE
    /\ status' = "waiting"
    /\ running' = None
    /\ step' = "save"
    /\ UNCHANGED <<clocks, faults, saved, up, last, pending, healthy, raised, uneven>>

\* The opportunity is lost; the runtime stays active and nothing revives it.
RefuseRestart ==
    /\ step = "observe"
    /\ restored /\ ~AcceptsRestart
    /\ running' = None
    /\ step' = "idle"
    /\ raised' = TRUE
    /\ UNCHANGED <<clocks, faults, saved, up, status, last, pending, state, restored,
                   healthy, bornAt, uneven>>

\* StatePersistenceSnapshot: only a waiting State can be saved.
Savable == state.operating = "waiting"

Checkpoint ==
    /\ step = "save"
    /\ Savable
    /\ saved' = state
    /\ step' = "idle"
    /\ UNCHANGED <<clocks, faults, inProcess, raised, bornAt, uneven>>

\* The checkpoint is refused or cannot be written.
CheckpointFails ==
    /\ step = "save"
    /\ IF Savable THEN Fault ELSE UNCHANGED faults
    /\ healthy' = FALSE
    /\ step' = "idle"
    /\ raised' = TRUE
    /\ UNCHANGED <<clocks, saved, up, status, last, pending, running, state, restored,
                   bornAt, uneven>>

-----------------------------------------------------------------------------

Program == RunLifecycle \/ RefuseRestart \/ Checkpoint \/ CheckpointFails

RunTimeCycle == BeginStartup \/ BeginPeriodic \/ RefuseCycle

ClockNext ==
    \/ Tick \/ Adjust \/ Reboot
    \/ ProcessOpens \/ Quit \/ Unwind \/ CallerCatches \/ Die
    \/ Start \/ RunTimeCycle \/ Program

ClockSpec == ClockInit /\ [][ClockNext]_clockVars

\* A call that has begun goes on by itself (one thread, no waiting), and time
\* passes.  The owner opens the store again after the end of a process, asks
\* for time cycles again and again, and does not catch the refusals for ever.
Fairness ==
    /\ WF_clockVars(Program)
    /\ WF_clockVars(Tick)
    /\ WF_clockVars(ProcessOpens)
    /\ SF_clockVars(RunTimeCycle)
    /\ SF_clockVars(Unwind)

FairSpec == ClockSpec /\ Fairness

-----------------------------------------------------------------------------
(* Properties *)

\* How far an internal time is from the wall clock's count of the same life.
Drift(s) == Distance(s.elapsed, s.updatedAt - bornAt)

\* The internal time is the wall-clock age of the life, whatever was set,
\* suspended, crashed or restarted, up to the tolerance of each cycle whose
\* two clocks did not agree exactly: stopped time is counted once, lost cycles
\* are made up for, and the tolerated differences do not add up beyond that
\* (Stage2Runtime.periodic_opportunity, Stage7State.observe_internal_event).
InternalFollowsWall ==
    /\ saved # None => Drift(saved) <= Tolerance * uneven
    /\ up /\ state.operating = "waiting" => Drift(state) <= Tolerance * uneven

\* A step takes neither State nor the newest checkpoint back in time.
GoesForward ==
    /\ saved # None => saved' # None /\ saved'.elapsed >= saved.elapsed
    /\ up /\ up' /\ state.operating = "waiting" =>
          state'.operating = "waiting" /\ state'.elapsed >= state.elapsed

\* Internal time never runs back: not in State, and not from one checkpoint
\* to the next, over any number of processes and settings of the clock.
TimeNeverRunsBack == [][GoesForward]_clockVars

\* Neither a discontinuity, nor a restart behind the saved time, nor a failed
\* checkpoint ends the time of the life: an owner who restarts what refuses
\* sees cycles complete again and again.
LifeGoesOn == []<><<Checkpoint>>_clockVars
=============================================================================
