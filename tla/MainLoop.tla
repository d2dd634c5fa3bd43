------------------------------ MODULE MainLoop ------------------------------
(***************************************************************************)
(* main of main.cpp: starting the server, the loop that waits for a stop   *)
(* request and reports metrics, and RequestStop, run by the console        *)
(* handler on a thread of its own for every signal.                        *)
(*                                                                         *)
(* RequestStop notifies without stop_mutex: a notification that comes      *)
(* between main's test of stop_requested and its wait wakes nobody.        *)
(***************************************************************************)
EXTENDS Naturals

CONSTANTS Signals       \* the signals that arrive, each on its thread

VARIABLES
    stop_requested,
    main,               \* where main is
    handler,            \* where the handler of each signal is
    serving             \* the server runs

mainVars == <<stop_requested, main, handler, serving>>

\* SetConsoleCtrlHandler comes before Initialize: a signal may arrive from here on.
MainInit ==
    /\ stop_requested = FALSE /\ serving = FALSE
    /\ main = "starting"
    /\ handler = [s \in Signals |-> "none"]

Goto(from, to) == main = from /\ main' = to

\* RequestStop: the store, then notify_all, which wakes main if it waits.
SetFlag(s) ==
    /\ handler[s] = "none"
    /\ handler' = [handler EXCEPT ![s] = "notify"]
    /\ stop_requested' = TRUE
    /\ UNCHANGED <<main, serving>>

Notify(s) ==
    /\ handler[s] = "notify"
    /\ handler' = [handler EXCEPT ![s] = "done"]
    /\ main' = IF main = "waiting" THEN "awake" ELSE main
    /\ UNCHANGED <<stop_requested, serving>>

\* Initialize and Start, or exit code 1.
Startup ==
    /\ \/ Goto("starting", "test") /\ serving' = TRUE
       \/ Goto("starting", "failed") /\ UNCHANGED serving
    /\ UNCHANGED <<stop_requested, handler>>

\* The loop's condition.
Test ==
    /\ Goto("test", IF stop_requested THEN "stopping" ELSE "to wait")
    /\ UNCHANGED <<stop_requested, handler, serving>>

\* wait_for begins: from here on main is notified.
Wait ==
    /\ Goto("to wait", "waiting")
    /\ UNCHANGED <<stop_requested, handler, serving>>

\* Mutant: wait instead of wait_for.
MutantWaitForever == FALSE /\ UNCHANGED mainVars

\* wait_for ends by itself when metrics_interval is over.
IntervalOver ==
    /\ Goto("waiting", "awake")
    /\ UNCHANGED <<stop_requested, handler, serving>>

\* The test inside the loop; without a request, the metrics are printed.
Awake ==
    /\ Goto("awake", IF stop_requested THEN "stopping" ELSE "test")
    /\ UNCHANGED <<stop_requested, handler, serving>>

\* server.Stop.
Stop ==
    /\ Goto("stopping", "stopped")
    /\ serving' = FALSE
    /\ UNCHANGED <<stop_requested, handler>>

Main == Startup \/ Test \/ Wait \/ Awake \/ Stop

MainNext ==
    \/ \E s \in Signals : SetFlag(s) \/ Notify(s)
    \/ Main \/ IntervalOver

\* main and a handler that runs are scheduled, and the interval ends.
MainFairness ==
    /\ WF_mainVars(Main) /\ WF_mainVars(IntervalOver)
    /\ \A s \in Signals : WF_mainVars(Notify(s))

MainSpec == MainInit /\ [][MainNext]_mainVars

-----------------------------------------------------------------------------
\* A stop request stops the server whenever it comes: during startup, while main
\* waits, or in the gap before the wait, where its notification is lost and only
\* the end of the interval saves it.
RequestStops == stop_requested ~> ~serving /\ main \in {"stopped", "failed"}
=============================================================================
