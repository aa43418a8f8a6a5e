----------------------------- MODULE TestSuite ------------------------------
(***************************************************************************)
(* RunSuite of internal/testrunner: the runner is set up, the testers that *)
(* allow it run in parallel, each in a goroutine that a buffered channel   *)
(* used as a semaphore (sem) admits, the other testers run one by one, and *)
(* the runner is torn down.                                                *)
(*                                                                         *)
(* The main goroutine is pc; state[t] is the progress of tester t, moved   *)
(* by its own goroutine or, if it is sequential, by the main one.  Testers *)
(* are taken in any order, which covers the order of GetTests.             *)
(***************************************************************************)
EXTENDS Naturals, FiniteSets

CONSTANTS
    Testers,          \* the testers GetTests may return
    ParallelTesters,  \* the ones whose Parallel() is true
    MaxRoutines       \* maxNumberRoutines(), the capacity of sem

ASSUME SuiteAssumption ==
    /\ IsFiniteSet(Testers)
    /\ ParallelTesters \subseteq Testers
    /\ MaxRoutines \in Nat

VARIABLES
    pc,         \* step of the main goroutine
    testers,    \* what GetTests returned
    runner,     \* global resources of the runner
    state,      \* progress of each tester
    outcome,    \* what its run ended with
    sem,        \* number of tokens in the semaphore
    cancelled,  \* the context was cancelled (SIGINT)
    parallelErr, sequentialErr,
    reported,   \* testers with their results in allResults
    verdict     \* the error RunSuite returns

vars == <<pc, testers, runner, state, outcome, sem, cancelled, parallelErr, sequentialErr,
          reported, verdict>>

errors == <<parallelErr, sequentialErr>>

Parallel == testers \cap ParallelTesters
Sequential == testers \ ParallelTesters

\* A goroutine holds its token from the time it is spawned until it has put its
\* result into the results channel and leaves.
Holding == {"spawned", "running", "ran", "reported"}
Active == {"running", "ran"}
States == Holding \cup {"waiting", "released", "finished"}
Outcomes == {"none", "ok", "runError", "tearDownError", "cancelled"}

TypeOK ==
    /\ pc \in {"getTests", "setupRunner", "abort", "readMaximum", "parallel",
               "sequential", "tearDownRunner", "done"}
    /\ testers \in SUBSET Testers
    /\ runner \in {"new", "up", "broken", "down"}
    /\ state \in [Testers -> States]
    /\ outcome \in [Testers -> Outcomes]
    /\ sem \in Nat
    /\ cancelled \in BOOLEAN /\ parallelErr \in BOOLEAN /\ sequentialErr \in BOOLEAN
    /\ reported \in SUBSET Testers
    /\ verdict \in {"none", "ok", "getTests", "setup", "tearDown", "parallel",
                    "sequential"}

Init ==
    /\ pc = "getTests" /\ testers = {} /\ runner = "new"
    /\ state = [t \in Testers |-> "waiting"]
    /\ outcome = [t \in Testers |-> "none"]
    /\ sem = 0 /\ cancelled = FALSE
    /\ parallelErr = FALSE /\ sequentialErr = FALSE
    /\ reported = {} /\ verdict = "none"

-----------------------------------------------------------------------------
(***************************************************************************)
(* The main goroutine.                                                     *)
(***************************************************************************)
GetTests ==
    /\ pc = "getTests"
    /\ \/ pc' = "done" /\ verdict' = "getTests" /\ UNCHANGED testers
       \/ pc' = "done" /\ verdict' = "ok" /\ testers' = {}
       \/ /\ testers' \in SUBSET Testers \ {{}}
          /\ pc' = "setupRunner" /\ UNCHANGED verdict
    /\ UNCHANGED <<runner, state, outcome, sem, cancelled, errors, reported>>

SetupRunnerIgnoringError ==    \* mutant
    /\ pc = "setupRunner" /\ pc' = "readMaximum"
    /\ runner' \in {"up", "broken"}
    /\ UNCHANGED <<testers, state, outcome, sem, cancelled, errors, reported, verdict>>

SetupRunner ==
    /\ pc = "setupRunner"
    /\ \/ pc' = "readMaximum" /\ runner' = "up"
       \/ pc' = "abort" /\ runner' = "broken"
    /\ UNCHANGED <<testers, state, outcome, sem, cancelled, errors, reported, verdict>>

\* The set-up failed: the runner is torn down, its error is only logged.
Abort ==
    /\ pc = "abort" /\ pc' = "done"
    /\ runner' = "down" /\ verdict' = "setup"
    /\ UNCHANGED <<testers, state, outcome, sem, cancelled, errors, reported>>

\* The maximum comes from an environment variable, which may not be a number.
\* The parallel testers are then left out and the sequential ones run.
ReadMaximum ==
    /\ pc = "readMaximum"
    /\ \/ pc' = "parallel" /\ UNCHANGED parallelErr
       \/ pc' = "sequential" /\ parallelErr' = TRUE /\ Parallel # {}
    /\ UNCHANGED <<testers, runner, state, outcome, sem, cancelled, sequentialErr, reported, verdict>>

SpawnOneMore(t) ==    \* mutant: the capacity is off by one
    /\ pc = "parallel" /\ t \in Parallel /\ state[t] = "waiting"
    /\ sem <= MaxRoutines
    /\ sem' = sem + 1
    /\ state' = [state EXCEPT ![t] = "spawned"]
    /\ UNCHANGED <<pc, testers, runner, outcome, cancelled, errors, reported, verdict>>

\* sem <- 1 blocks the loop while the channel is full.  A capacity of zero makes
\* it wait for a receiver, and the receivers are the goroutines it has yet to
\* start: a full channel in either case.
Spawn(t) ==
    /\ pc = "parallel" /\ t \in Parallel /\ state[t] = "waiting"
    /\ sem < MaxRoutines
    /\ sem' = sem + 1
    /\ state' = [state EXCEPT ![t] = "spawned"]
    /\ UNCHANGED <<pc, testers, runner, outcome, cancelled, errors, reported, verdict>>

\* Mutants: no wg.Wait; results dropped with the error that came with them.
JoinRoutinesWithoutWait ==
    /\ pc = "parallel" /\ pc' = "sequential"
    /\ \A t \in Parallel : state[t] # "waiting"
    /\ parallelErr' = (\E t \in Parallel : outcome[t] # "ok")
    /\ reported' = {t \in Parallel : outcome[t] \in {"ok", "tearDownError"}}
    /\ UNCHANGED <<testers, runner, state, outcome, sem, cancelled, sequentialErr, verdict>>
JoinRoutinesDroppingResults ==
    /\ pc = "parallel" /\ pc' = "sequential"
    /\ \A t \in Parallel : state[t] = "finished"
    /\ parallelErr' = (\E t \in Parallel : outcome[t] # "ok")
    /\ reported' = {t \in Parallel : outcome[t] = "ok"}
    /\ UNCHANGED <<testers, runner, state, outcome, sem, cancelled, sequentialErr, verdict>>

\* wg.Wait, then the results channel is drained: errors are joined, results are
\* kept, also those of a tester that failed to tear down.
JoinRoutines ==
    /\ pc = "parallel" /\ pc' = "sequential"
    /\ \A t \in Parallel : state[t] = "finished"
    /\ parallelErr' = (\E t \in Parallel : outcome[t] # "ok")
    /\ reported' = {t \in Parallel : outcome[t] \in {"ok", "tearDownError"}}
    /\ UNCHANGED <<testers, runner, state, outcome, sem, cancelled, sequentialErr, verdict>>

\* runSuite: one tester at a time, the first error ends the loop and drops the
\* results of the tester that failed.
StartSequential(t) ==
    /\ pc = "sequential" /\ ~sequentialErr
    /\ t \in Sequential /\ state[t] = "waiting"
    /\ \A u \in Sequential : state[u] \notin Active
    /\ state' = [state EXCEPT ![t] = "running"]
    /\ UNCHANGED <<pc, testers, runner, outcome, sem, cancelled, errors, reported, verdict>>

EndSequential ==
    /\ pc = "sequential" /\ pc' = "tearDownRunner"
    /\ sequentialErr \/ \A t \in Sequential : state[t] = "finished"
    /\ UNCHANGED <<testers, runner, state, outcome, sem, cancelled, errors, reported, verdict>>

TearDownRunnerForgettingParallel ==    \* mutant
    /\ pc = "tearDownRunner" /\ pc' = "done"
    /\ runner' = "down"
    /\ verdict' \in {"tearDown", IF sequentialErr THEN "sequential" ELSE "ok"}
    /\ UNCHANGED <<testers, state, outcome, sem, cancelled, errors, reported>>

TearDownRunner ==
    /\ pc = "tearDownRunner" /\ pc' = "done"
    /\ runner' = "down"
    /\ verdict' \in {"tearDown", IF parallelErr THEN "parallel"
                                 ELSE IF sequentialErr THEN "sequential" ELSE "ok"}
    /\ UNCHANGED <<testers, state, outcome, sem, cancelled, errors, reported>>

-----------------------------------------------------------------------------
(***************************************************************************)
(* The goroutine of a parallel tester, and run() for every tester.         *)
(***************************************************************************)
BeginRoutineLeakingToken(t) ==    \* mutant: leaves before the token is deferred
    /\ state[t] = "spawned"
    /\ IF cancelled
       THEN /\ state' = [state EXCEPT ![t] = "finished"]
            /\ outcome' = [outcome EXCEPT ![t] = "cancelled"]
       ELSE /\ state' = [state EXCEPT ![t] = "running"]
            /\ UNCHANGED outcome
    /\ UNCHANGED <<pc, testers, runner, sem, cancelled, errors, reported, verdict>>

\* The goroutine looks at the context before it runs the tester.
BeginRoutine(t) ==
    /\ state[t] = "spawned"
    /\ IF cancelled
       THEN /\ state' = [state EXCEPT ![t] = "reported"]
            /\ outcome' = [outcome EXCEPT ![t] = "cancelled"]
       ELSE /\ state' = [state EXCEPT ![t] = "running"]
            /\ UNCHANGED outcome
    /\ UNCHANGED <<pc, testers, runner, sem, cancelled, errors, reported, verdict>>

\* tester.Run returns.
RunReturns(t) ==
    /\ state[t] = "running"
    /\ state' = [state EXCEPT ![t] = "ran"]
    /\ \E result \in {"ok", "runError"} : outcome' = [outcome EXCEPT ![t] = result]
    /\ UNCHANGED <<pc, testers, runner, sem, cancelled, errors, reported, verdict>>

\* tester.TearDown returns; an error of Run hides one of TearDown.
TearDownReturns(t) ==
    /\ state[t] = "ran"
    /\ \E result \in {outcome[t], IF outcome[t] = "ok" THEN "tearDownError" ELSE outcome[t]} :
          /\ outcome' = [outcome EXCEPT ![t] = result]
          /\ IF t \in ParallelTesters
             THEN /\ state' = [state EXCEPT ![t] = "reported"]
                  /\ UNCHANGED <<sequentialErr, reported>>
             ELSE /\ state' = [state EXCEPT ![t] = "finished"]
                  /\ sequentialErr' = (result # "ok")
                  /\ reported' = IF result = "ok" THEN reported \cup {t} ELSE reported
    /\ UNCHANGED <<pc, testers, runner, sem, cancelled, parallelErr, verdict>>

\* The deferred calls, last one first: the token, then wg.Done.
ReleaseToken(t) ==
    /\ state[t] = "reported"
    /\ sem' = sem - 1
    /\ state' = [state EXCEPT ![t] = "released"]
    /\ UNCHANGED <<pc, testers, runner, outcome, cancelled, errors, reported, verdict>>

RoutineDone(t) ==
    /\ state[t] = "released"
    /\ state' = [state EXCEPT ![t] = "finished"]
    /\ UNCHANGED <<pc, testers, runner, outcome, sem, cancelled, errors, reported, verdict>>

\* SIGINT.  Only goroutines that have not begun look at it here; it reaches the
\* others through the context that Run was given.
Interrupt ==
    /\ ~cancelled /\ pc # "done"
    /\ cancelled' = TRUE
    /\ UNCHANGED <<pc, testers, runner, state, outcome, sem, errors, reported, verdict>>

Main ==
    \/ GetTests \/ SetupRunner \/ Abort \/ ReadMaximum \/ JoinRoutines \/ EndSequential
    \/ TearDownRunner
    \/ \E t \in Testers : Spawn(t) \/ StartSequential(t)

Tester(t) ==
    \/ BeginRoutine(t) \/ RunReturns(t) \/ TearDownReturns(t)
    \/ ReleaseToken(t) \/ RoutineDone(t)

Next == Main \/ (\E t \in Testers : Tester(t)) \/ Interrupt

\* Go schedules every goroutine that can run, and the waits of a tester end:
\* they are polls with a timeout (wait.UntilTrue, WaitForHealthy).
Fairness == WF_vars(Main) /\ \A t \in Testers : WF_vars(Tester(t))

Spec == Init /\ [][Next]_vars
FairSpec == Spec /\ Fairness

-----------------------------------------------------------------------------
(***************************************************************************)
(* Properties.                                                             *)
(***************************************************************************)
Holders == {t \in ParallelTesters : state[t] \in Holding}

\* The semaphore counts the goroutines that are at work, and no more than the
\* configured number of them are at work at any time.
ParallelismIsBounded == sem = Cardinality(Holders) /\ sem <= MaxRoutines

\* A sequential tester never runs next to another tester.
SequentialRunsAlone ==
    \A t \in Testers \ ParallelTesters, u \in Testers :
        state[t] \in Active /\ u # t => state[u] \in {"waiting", "finished"}

\* No failure is swallowed: a suite that returns no error ran every tester it
\* found to a good end and tore its runner down.
SuccessIsComplete ==
    verdict = "ok" =>
        /\ \A t \in testers : outcome[t] = "ok"
        /\ testers # {} => runner = "down" /\ reported = testers

\* Results are those of testers that ended well, whatever else went wrong, and
\* of parallel testers that failed to tear down.
ResultsAreKept ==
    pc = "done" /\ verdict \notin {"getTests", "setup"} =>
        reported = {t \in Testers : \/ outcome[t] = "ok"
                                    \/ outcome[t] = "tearDownError" /\ t \in ParallelTesters}

\* Whoever reads what RunSuite returns learns of every failure and of every result.
OutcomesAreReported == SuccessIsComplete /\ ResultsAreKept

\* Testers run between the set-up and the tear-down of the runner.
Lifecycle == INSTANCE SuiteLifecycle
    WITH active <- {t \in Testers : state[t] \in Active},
         over <- {t \in Testers : /\ state[t] \in {"reported", "released", "finished"}
                                  /\ outcome[t] # "cancelled"}

ImplementsLifecycle == Lifecycle!Spec

\* The suite returns, after interruption too, if the semaphore admits anybody.
SuiteReturns == <>(pc = "done")
=============================================================================
