--------------------------- MODULE SuiteLifecycle ---------------------------
(***************************************************************************)
(* What running a suite of tests promises to the runner that owns its      *)
(* global resources: the runner is set up once, every tester runs and is   *)
(* torn down between the set-up and the tear-down of the runner, none runs *)
(* twice, and a runner that was set up, or failed to, is torn down once.   *)
(* The comments of the Tester and TestRunner interfaces (testrunner.go)    *)
(* state this; TestSuite shows how RunSuite keeps it.                      *)
(***************************************************************************)
CONSTANT Testers

VARIABLES
    runner,   \* "new", "up", "broken" (its set-up failed) or "down"
    active,   \* testers between the start of Run and the end of TearDown
    over      \* testers that were torn down

vars == <<runner, active, over>>

Init == runner = "new" /\ active = {} /\ over = {}

SetUp == runner = "new" /\ runner' \in {"up", "broken"} /\ UNCHANGED <<active, over>>

Begin(t) ==
    /\ runner = "up" /\ t \notin active \cup over
    /\ active' = active \cup {t}
    /\ UNCHANGED <<runner, over>>

End(t) ==
    /\ t \in active
    /\ active' = active \ {t} /\ over' = over \cup {t}
    /\ UNCHANGED runner

TearDown ==
    /\ runner \in {"up", "broken"} /\ active = {}
    /\ runner' = "down"
    /\ UNCHANGED <<active, over>>

Next == SetUp \/ (\E t \in Testers : Begin(t) \/ End(t)) \/ TearDown

Spec == Init /\ [][Next]_vars
=============================================================================
