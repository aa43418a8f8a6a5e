-------------------------- MODULE TestSuiteProofs ---------------------------
(***************************************************************************)
(* Proofs about TestSuite for any finite set of testers and any capacity   *)
(* of the semaphore.                                                       *)
(***************************************************************************)
EXTENDS TestSuite, FiniteSetTheorems, TLAPS

(***************************************************************************)
(* The inductive invariant, in parts.                                      *)
(***************************************************************************)
BeforeTesters == {"getTests", "setupRunner", "abort", "readMaximum"}
AfterTesters == {"tearDownRunner", "done"}

\* Only testers that were found move, and a sequential one never holds a token.
Movers ==
    \A t \in Testers :
        /\ state[t] # "waiting" => t \in testers
        /\ t \notin ParallelTesters => state[t] \notin {"spawned", "reported", "released"}

\* Which testers can be at work at each step of the main goroutine.
Phases ==
    /\ pc \in BeforeTesters => \A t \in Testers : state[t] = "waiting"
    /\ pc = "parallel" => \A t \in Testers \ ParallelTesters : state[t] = "waiting"
    /\ pc \in {"sequential"} \cup AfterTesters =>
            \A t \in ParallelTesters : state[t] \in {"waiting", "finished"}
    /\ pc \in AfterTesters => \A t \in Testers : state[t] \in {"waiting", "finished"}

\* The sequential testers run one at a time, and none runs after an error.
OneAtATime ==
    /\ \A t, u \in Testers \ ParallelTesters :
            state[t] \in Active /\ state[u] \in Active => t = u
    /\ sequentialErr => \A t \in Testers \ ParallelTesters : state[t] \notin Active

\* The runner follows the main goroutine.
RunnerPhases ==
    /\ pc \in {"getTests", "setupRunner"} => runner = "new"
    /\ pc = "abort" => runner = "broken"
    /\ pc \in {"readMaximum", "parallel", "sequential", "tearDownRunner"} => runner = "up"

\* Outcomes follow the testers.
OutcomePhases ==
    \A t \in Testers :
        /\ state[t] \in {"waiting", "spawned", "running"} => outcome[t] = "none"
        /\ state[t] = "ran" => outcome[t] \in {"ok", "runError"}
        /\ state[t] = "finished" /\ t \notin ParallelTesters => outcome[t] # "cancelled"

IInv ==
    /\ TypeOK /\ Movers /\ Phases /\ OneAtATime /\ RunnerPhases /\ OutcomePhases
    /\ ParallelismIsBounded

-----------------------------------------------------------------------------
(***************************************************************************)
(* The steps that leave the state of the testers alone, and the ones that  *)
(* move one tester.                                                        *)
(***************************************************************************)
MainStep ==
    GetTests \/ SetupRunner \/ Abort \/ ReadMaximum \/ JoinRoutines \/ EndSequential
        \/ TearDownRunner

TesterStep(t) ==
    \/ Spawn(t) \/ StartSequential(t) \/ BeginRoutine(t) \/ RunReturns(t)
    \/ TearDownReturns(t) \/ ReleaseToken(t) \/ RoutineDone(t)

\* A step is one of RunSuite, one of a tester, or an interrupt.
LEMMA StepCases ==
    ASSUME [Next]_vars
    PROVE  \/ MainStep \/ Interrupt \/ UNCHANGED vars
           \/ \E t \in Testers : TesterStep(t)
BY DEF Next, Main, Tester, MainStep, TesterStep

\* The parts of the invariant other than the semaphore.
Progress ==
    TypeOK /\ Movers /\ Phases /\ OneAtATime /\ RunnerPhases /\ OutcomePhases

\* Before RunSuite is called nothing has moved.
LEMMA InitProgress == Init => Progress
<1> SUFFICES ASSUME Init PROVE Progress
  OBVIOUS
<1>1. TypeOK
  BY DEF Init, TypeOK, States, Holding, Outcomes
<1>2. Movers /\ Phases /\ OneAtATime /\ RunnerPhases /\ OutcomePhases
  BY SuiteAssumption DEF Init, Movers, Phases, OneAtATime, RunnerPhases, OutcomePhases, BeforeTesters,
         AfterTesters, Active
<1> QED
  BY <1>1, <1>2 DEF Progress

\* A step of RunSuite: it waits for the testers it started.
LEMMA MainKeepsProgress ==
    ASSUME Progress, MainStep
    PROVE  Progress'
<1> USE SuiteAssumption
        DEF Progress, TypeOK, Movers, Phases, OneAtATime, RunnerPhases, OutcomePhases,
            BeforeTesters, AfterTesters, Active, States, Holding, Outcomes, errors
<1>1. CASE GetTests
  BY <1>1 DEF GetTests
<1>2. CASE SetupRunner
  BY <1>2 DEF SetupRunner
<1>3. CASE Abort
  BY <1>3 DEF Abort
<1>4. CASE ReadMaximum
  BY <1>4 DEF ReadMaximum, Parallel, Sequential
<1>5. CASE JoinRoutines
  BY <1>5 DEF JoinRoutines, Parallel, Sequential
<1>6. CASE EndSequential
  BY <1>6 DEF EndSequential, Parallel, Sequential
<1>7. CASE TearDownRunner
  BY <1>7 DEF TearDownRunner
<1> QED
  BY <1>1, <1>2, <1>3, <1>4, <1>5, <1>6, <1>7 DEF MainStep

\* A step of a tester, as long as the semaphore is counted right.
LEMMA TesterKeepsProgress ==
    ASSUME Progress, NEW t \in Testers, TesterStep(t), sem' \in Nat
    PROVE  Progress'
<1> USE SuiteAssumption
        DEF Progress, TypeOK, Movers, Phases, OneAtATime, RunnerPhases, OutcomePhases,
            BeforeTesters, AfterTesters, Active, States, Holding, Outcomes, errors
<1>1. CASE Spawn(t)
  BY <1>1 DEF Spawn, Parallel
<1>2. CASE StartSequential(t)
  BY <1>2 DEF StartSequential, Sequential
<1>3. CASE BeginRoutine(t)
  BY <1>3 DEF BeginRoutine
<1>4. CASE RunReturns(t)
  BY <1>4 DEF RunReturns
<1>5. CASE TearDownReturns(t)
  <2>1. PICK result \in {"ok", "runError", "tearDownError"} :
            outcome' = [outcome EXCEPT ![t] = result]
            /\ (t \notin ParallelTesters => sequentialErr' = (result # "ok"))
    BY <1>5 DEF TearDownReturns
  <2>2. CASE t \in ParallelTesters
    BY <1>5, <2>1, <2>2 DEF TearDownReturns
  <2>3. CASE t \notin ParallelTesters
    BY <1>5, <2>1, <2>3 DEF TearDownReturns
  <2> QED
    BY <2>2, <2>3
<1>6. CASE ReleaseToken(t)
  BY <1>6 DEF ReleaseToken
<1>7. CASE RoutineDone(t)
  BY <1>7 DEF RoutineDone
<1> QED
  BY <1>1, <1>2, <1>3, <1>4, <1>5, <1>6, <1>7 DEF TesterStep

-----------------------------------------------------------------------------
(***************************************************************************)
(* The semaphore.  A step of one tester adds it to the holders, takes it   *)
(* out, or leaves the holders as they were.                                *)
(***************************************************************************)
\* The holders of a token can be counted.
LEMMA HoldersFinite == IsFiniteSet(Holders) /\ Cardinality(Holders) \in Nat
BY SuiteAssumption, FS_Subset, FS_CardinalityType DEF Holders

\* RunSuite itself takes and returns no token.
LEMMA MainKeepsSemaphore ==
    ASSUME ParallelismIsBounded, MainStep \/ Interrupt \/ UNCHANGED vars
    PROVE  ParallelismIsBounded'
BY DEF ParallelismIsBounded, Holders, MainStep, GetTests, SetupRunner, Abort, ReadMaximum,
       JoinRoutines, EndSequential, TearDownRunner, Interrupt, vars

\* A tester takes a token if one is left, and returns the one it has.
LEMMA TesterKeepsSemaphore ==
    ASSUME TypeOK, Movers, ParallelismIsBounded, NEW t \in Testers, TesterStep(t)
    PROVE  sem' \in Nat /\ ParallelismIsBounded'
<1> USE SuiteAssumption DEF TypeOK, Movers, Holding, Active, States
<1>1. CASE Spawn(t)
  <2>1. Holders' = Holders \cup {t} /\ t \notin Holders
    BY <1>1 DEF Spawn, Parallel, Holders
  <2>2. Cardinality(Holders') = Cardinality(Holders) + 1
    BY <2>1, HoldersFinite, FS_AddElement
  <2> QED
    BY <1>1, <2>2, SuiteAssumption DEF Spawn, ParallelismIsBounded
<1>2. CASE ReleaseToken(t)
  <2>1. Holders' = Holders \ {t} /\ t \in Holders
    BY <1>2 DEF ReleaseToken, Holders
  <2>2. Cardinality(Holders') = Cardinality(Holders) - 1
    BY <2>1, HoldersFinite, FS_RemoveElement
  <2>3. Cardinality(Holders') \in Nat
    BY <2>1, HoldersFinite, FS_Subset, FS_CardinalityType
  <2> QED
    BY <1>2, <2>2, <2>3, SuiteAssumption DEF ReleaseToken, ParallelismIsBounded
<1>3. CASE \/ StartSequential(t) \/ BeginRoutine(t) \/ RunReturns(t) \/ TearDownReturns(t)
           \/ RoutineDone(t)
  <2>1. Holders' = Holders
    BY <1>3 DEF StartSequential, Sequential, BeginRoutine, RunReturns, TearDownReturns,
                RoutineDone, Holders
  <2>2. sem' = sem
    BY <1>3 DEF StartSequential, BeginRoutine, RunReturns, TearDownReturns, RoutineDone
  <2> QED
    BY <2>1, <2>2 DEF ParallelismIsBounded
<1> QED
  BY <1>1, <1>2, <1>3 DEF TesterStep

-----------------------------------------------------------------------------
(***************************************************************************)
(* The invariant is inductive, and what follows from it.                   *)
(***************************************************************************)
\* The invariant holds before RunSuite is called.
LEMMA InitIInv == Init => IInv
<1> SUFFICES ASSUME Init PROVE IInv
  OBVIOUS
<1>1. Holders = {}
  BY SuiteAssumption DEF Init, Holders, Holding
<1>2. ParallelismIsBounded
  BY <1>1, FS_EmptySet, SuiteAssumption DEF Init, ParallelismIsBounded
<1> QED
  BY <1>2, InitProgress DEF IInv, Progress

\* Every step keeps it.
LEMMA StepIInv == IInv /\ [Next]_vars => IInv'
<1> SUFFICES ASSUME IInv, [Next]_vars PROVE IInv'
  OBVIOUS
<1>1. CASE MainStep
  BY <1>1, MainKeepsProgress, MainKeepsSemaphore DEF IInv, Progress
<1>2. CASE \E t \in Testers : TesterStep(t)
  <2>1. PICK t \in Testers : TesterStep(t)
    BY <1>2
  <2>2. sem' \in Nat /\ ParallelismIsBounded'
    BY <2>1, TesterKeepsSemaphore DEF IInv
  <2>3. Progress'
    BY <2>1, <2>2, TesterKeepsProgress DEF IInv, Progress
  <2> QED
    BY <2>2, <2>3 DEF IInv, Progress
<1>3. CASE Interrupt \/ UNCHANGED vars
  <2>1. ParallelismIsBounded'
    BY <1>3, MainKeepsSemaphore DEF IInv
  <2>2. UNCHANGED <<pc, testers, runner, state, outcome, sem, errors, reported, verdict>>
        /\ cancelled' \in BOOLEAN
    BY <1>3 DEF IInv, TypeOK, Interrupt, vars, errors
  <2>3. TypeOK' /\ Movers' /\ Phases'
    BY <2>2 DEF IInv, TypeOK, Movers, Phases, errors
  <2>4. OneAtATime' /\ RunnerPhases' /\ OutcomePhases'
    BY <2>2 DEF IInv, OneAtATime, RunnerPhases, OutcomePhases, errors
  <2> QED
    BY <2>1, <2>3, <2>4 DEF IInv
<1> QED
  BY <1>1, <1>2, <1>3, StepCases

\* So it holds throughout.
LEMMA Invariance == Spec => []IInv
BY InitIInv, StepIInv, PTL DEF Spec

\* Every variable of the suite keeps its type; that the token counter stays a
\* natural number needs the semaphore to be counted right.
THEOREM TypeCorrect == Spec => []TypeOK
<1>1. IInv => TypeOK
  BY DEF IInv
<1> QED
  BY <1>1, Invariance, PTL

\* However many testers there are and whatever the capacity, the semaphore
\* counts the goroutines at work and they are no more than the capacity.
THEOREM BoundedParallelism == Spec => []ParallelismIsBounded
<1>1. IInv => ParallelismIsBounded
  BY DEF IInv
<1> QED
  BY <1>1, Invariance, PTL

\* No sequential tester ever runs next to another tester: the goroutines of the
\* parallel ones have ended before the first sequential one starts.
THEOREM SequentialExclusion == Spec => []SequentialRunsAlone
<1>1. IInv => SequentialRunsAlone
  <2> SUFFICES ASSUME IInv, NEW t \in Testers \ ParallelTesters, NEW u \in Testers,
                      state[t] \in Active, u # t
               PROVE  state[u] \in {"waiting", "finished"}
    BY DEF SequentialRunsAlone
  <2> USE DEF IInv, TypeOK, Phases, BeforeTesters, AfterTesters, Active
  <2>1. pc = "sequential"
    OBVIOUS
  <2>2. CASE u \in ParallelTesters
    BY <2>1, <2>2
  <2>3. CASE u \notin ParallelTesters
    BY <2>3 DEF OneAtATime, Movers, States, Holding
  <2> QED
    BY <2>2, <2>3
<1> QED
  BY <1>1, Invariance, PTL

-----------------------------------------------------------------------------
(***************************************************************************)
(* The results and the verdict.                                            *)
(***************************************************************************)
\* What the main goroutine has collected, and what its error flags tell.
Collected ==
    /\ pc \in BeforeTesters \cup {"parallel"} => reported = {} /\ ~sequentialErr
    /\ pc \in {"sequential", "tearDownRunner"} =>
        /\ reported = {t \in Testers : IF t \in ParallelTesters
                                       THEN outcome[t] \in {"ok", "tearDownError"}
                                       ELSE state[t] = "finished" /\ outcome[t] = "ok"}
        /\ ~parallelErr => \A t \in Parallel : outcome[t] = "ok"
        /\ ~sequentialErr => \A t \in Sequential : state[t] = "finished" => outcome[t] = "ok"

Ended ==
    /\ verdict = "none" <=> pc # "done"
    /\ pc = "tearDownRunner" /\ ~sequentialErr => \A t \in Sequential : state[t] = "finished"
    /\ SuccessIsComplete /\ ResultsAreKept

Results == Collected /\ Ended

\* No result is in before RunSuite is called.
LEMMA InitResults == Init => Results
BY DEF Init, Results, Collected, Ended, SuccessIsComplete, ResultsAreKept, BeforeTesters

\* RunSuite collects what its goroutines sent, and ends with it.
LEMMA MainKeepsResults ==
    ASSUME IInv, Results, MainStep
    PROVE  Results'
<1> USE SuiteAssumption
        DEF IInv, TypeOK, Movers, Phases, OneAtATime, RunnerPhases, OutcomePhases,
            BeforeTesters, AfterTesters, Active, States, Holding, Outcomes, errors, Results,
            Collected, Ended, SuccessIsComplete, ResultsAreKept, Parallel, Sequential
<1>1. CASE GetTests
  BY <1>1 DEF GetTests
<1>2. CASE SetupRunner
  BY <1>2 DEF SetupRunner
<1>3. CASE Abort
  BY <1>3 DEF Abort
<1>4. CASE ReadMaximum
  BY <1>4 DEF ReadMaximum
<1>5. CASE JoinRoutines
  BY <1>5 DEF JoinRoutines
<1>6. CASE EndSequential
  BY <1>6 DEF EndSequential
<1>7. CASE TearDownRunner
  BY <1>7 DEF TearDownRunner
<1> QED
  BY <1>1, <1>2, <1>3, <1>4, <1>5, <1>6, <1>7 DEF MainStep

\* A tester ends with an outcome of its own, which RunSuite has not collected.
LEMMA TesterKeepsResults ==
    ASSUME IInv, Results, NEW t \in Testers, TesterStep(t)
    PROVE  Results'
<1> USE SuiteAssumption
        DEF IInv, TypeOK, Movers, Phases, OneAtATime, RunnerPhases, OutcomePhases,
            BeforeTesters, AfterTesters, Active, States, Holding, Outcomes, errors, Results,
            Collected, Ended, SuccessIsComplete, ResultsAreKept, Parallel, Sequential
<1>1. CASE Spawn(t)
  BY <1>1 DEF Spawn
<1>2. CASE StartSequential(t)
  BY <1>2 DEF StartSequential
<1>3. CASE BeginRoutine(t)
  BY <1>3 DEF BeginRoutine
<1>4. CASE RunReturns(t)
  BY <1>4 DEF RunReturns
<1>5. CASE TearDownReturns(t)
  <2>1. CASE t \in ParallelTesters
    BY <1>5, <2>1 DEF TearDownReturns
  <2>2. CASE t \notin ParallelTesters
    <3>1. pc = "sequential" /\ state[t] = "ran"
      BY <1>5, <2>2 DEF TearDownReturns
    <3>2. PICK result \in {"ok", "runError", "tearDownError"} :
            /\ outcome' = [outcome EXCEPT ![t] = result]
            /\ sequentialErr' = (result # "ok")
            /\ reported' = IF result = "ok" THEN reported \cup {t} ELSE reported
      BY <1>5, <2>2 DEF TearDownReturns
    <3>3. /\ state' = [state EXCEPT ![t] = "finished"]
          /\ UNCHANGED <<pc, testers, runner, parallelErr, verdict>>
      BY <1>5, <2>2 DEF TearDownReturns
    <3>4. ~sequentialErr
      BY <3>1, <2>2
    <3>5. Ended'
      BY <3>1, <3>3
    <3>6. reported' = {u \in Testers : IF u \in ParallelTesters
                                      THEN outcome'[u] \in {"ok", "tearDownError"}
                                      ELSE state'[u] = "finished" /\ outcome'[u] = "ok"}
      <4> HIDE DEF Ended, Phases, OneAtATime, RunnerPhases
      <4> QED
        BY <2>2, <3>1, <3>2, <3>3
    <3>7. ~parallelErr' => \A u \in Parallel' : outcome'[u] = "ok"
      BY <2>2, <3>1, <3>2, <3>3
    <3>8. ~sequentialErr' => \A u \in Sequential' : state'[u] = "finished" => outcome'[u] = "ok"
      BY <2>2, <3>1, <3>2, <3>3, <3>4
    <3> QED
      BY <3>1, <3>3, <3>5, <3>6, <3>7, <3>8
  <2> QED
    BY <2>1, <2>2
<1>6. CASE ReleaseToken(t)
  BY <1>6 DEF ReleaseToken
<1>7. CASE RoutineDone(t)
  BY <1>7 DEF RoutineDone
<1> QED
  BY <1>1, <1>2, <1>3, <1>4, <1>5, <1>6, <1>7 DEF TesterStep

\* So the results are kept throughout.
LEMMA ResultsInvariance == Spec => []Results
<1>1. IInv /\ Results /\ [Next]_vars => Results'
  <2> SUFFICES ASSUME IInv, Results, [Next]_vars PROVE Results'
    OBVIOUS
  <2>1. CASE MainStep
    BY <2>1, MainKeepsResults
  <2>2. CASE \E t \in Testers : TesterStep(t)
    BY <2>2, TesterKeepsResults
  <2>3. CASE Interrupt \/ UNCHANGED vars
    BY <2>3 DEF Interrupt, vars, errors, Results, Collected, Ended, SuccessIsComplete,
                ResultsAreKept, Parallel, Sequential
  <2> QED
    BY <2>1, <2>2, <2>3, StepCases
<1> QED
  BY <1>1, InitResults, Invariance, PTL DEF Spec

\* RunSuite returns no error only if every tester it found came to a good end,
\* its results are in, and the runner was torn down.
THEOREM NoFailureSwallowed == Spec => []SuccessIsComplete
<1>1. Results => SuccessIsComplete
  BY DEF Results, Ended
<1> QED
  BY <1>1, ResultsInvariance, PTL

\* The results RunSuite returns are those of the testers that ended well and of
\* the parallel ones that failed to tear down, whatever failed besides.
THEOREM ResultsComplete == Spec => []ResultsAreKept
<1>1. Results => ResultsAreKept
  BY DEF Results, Ended
<1> QED
  BY <1>1, ResultsInvariance, PTL

\* Whoever reads what RunSuite returns learns of every failure and of every result.
THEOREM OutcomesReported == Spec => []OutcomesAreReported
  BY NoFailureSwallowed, ResultsComplete, PTL DEF OutcomesAreReported

-----------------------------------------------------------------------------
(***************************************************************************)
(* The suite implements its lifecycle.                                     *)
(***************************************************************************)
\* A step of RunSuite is a step of the lifecycle, or none.
LEMMA MainMapsToLifecycle ==
    ASSUME IInv, MainStep
    PROVE  [Lifecycle!Next]_(Lifecycle!vars)
<1> USE DEF IInv, TypeOK, Phases, RunnerPhases, BeforeTesters, AfterTesters, Active, errors,
            Lifecycle!Next, Lifecycle!SetUp, Lifecycle!TearDown, Lifecycle!vars
<1>1. CASE GetTests
  BY <1>1 DEF GetTests
<1>2. CASE SetupRunner
  BY <1>2 DEF SetupRunner
<1>3. CASE Abort
  BY <1>3 DEF Abort
<1>4. CASE ReadMaximum
  BY <1>4 DEF ReadMaximum
<1>5. CASE JoinRoutines
  BY <1>5 DEF JoinRoutines
<1>6. CASE EndSequential
  BY <1>6 DEF EndSequential
<1>7. CASE TearDownRunner
  BY <1>7 DEF TearDownRunner
<1> QED
  BY <1>1, <1>2, <1>3, <1>4, <1>5, <1>6, <1>7 DEF MainStep

\* So is a step of a tester.
LEMMA TesterMapsToLifecycle ==
    ASSUME IInv, NEW t \in Testers, TesterStep(t)
    PROVE  [Lifecycle!Next]_(Lifecycle!vars)
<1> USE SuiteAssumption
        DEF IInv, TypeOK, Movers, Phases, RunnerPhases, OutcomePhases, BeforeTesters,
            AfterTesters, Active, States, Holding, Outcomes, errors,
            Lifecycle!Next, Lifecycle!Begin, Lifecycle!End, Lifecycle!vars
<1>1. CASE Spawn(t)
  BY <1>1 DEF Spawn, Parallel, Sequential
<1>2. CASE StartSequential(t)
  BY <1>2 DEF StartSequential, Parallel, Sequential
<1>3. CASE BeginRoutine(t)
  BY <1>3 DEF BeginRoutine, Parallel, Sequential
<1>4. CASE RunReturns(t)
  BY <1>4 DEF RunReturns, Parallel, Sequential
<1>5. CASE TearDownReturns(t)
  BY <1>5 DEF TearDownReturns, Parallel, Sequential
<1>6. CASE ReleaseToken(t)
  BY <1>6 DEF ReleaseToken, Parallel, Sequential
<1>7. CASE RoutineDone(t)
  BY <1>7 DEF RoutineDone, Parallel, Sequential
<1> QED
  BY <1>1, <1>2, <1>3, <1>4, <1>5, <1>6, <1>7 DEF TesterStep

\* RunSuite keeps what the interfaces promise to a runner: testers run and are
\* torn down between its set-up and its tear-down, each at most once.
THEOREM SuiteImplementsLifecycle == Spec => ImplementsLifecycle
<1>1. Init => Lifecycle!Init
  BY DEF Init, Lifecycle!Init, Active
<1>2. IInv /\ [Next]_vars => [Lifecycle!Next]_(Lifecycle!vars)
  <2> SUFFICES ASSUME IInv, [Next]_vars PROVE [Lifecycle!Next]_(Lifecycle!vars)
    OBVIOUS
  <2>1. CASE MainStep
    BY <2>1, MainMapsToLifecycle
  <2>2. CASE \E t \in Testers : TesterStep(t)
    BY <2>2, TesterMapsToLifecycle
  <2>3. CASE Interrupt \/ UNCHANGED vars
    BY <2>3 DEF Interrupt, vars, Lifecycle!vars
  <2> QED
    BY <2>1, <2>2, <2>3, StepCases
<1> QED
  BY <1>1, <1>2, Invariance, PTL DEF Spec, ImplementsLifecycle, Lifecycle!Spec
=============================================================================
