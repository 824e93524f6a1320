------------------------- MODULE RouteCoreRefinement -------------------------
(***************************************************************************)
(* The kernel implements RoutePromise.  A task is open while it is queued,  *)
(* suspended, executed, waiting or staged; the runs working on it are those *)
(* that may still have a native process behind them.                        *)
(***************************************************************************)
EXTENDS RouteCore

PhaseOf(t) ==
  CASE taskState[t] = "NONE"            -> "none"
    [] taskState[t] = "NEEDS_ATTENTION" -> "stuck"
    [] taskState[t] \in Final           -> "closed"
    [] OTHER                            -> "open"

\* The task a held request waits behind: the one of the run in after_run_id.
Behind(t) == IF heldBy[t] = NoRun THEN NoTask ELSE runTask[heldBy[t]]

Promise == INSTANCE RoutePromise WITH
  phase   <- [t \in Task |-> PhaseOf(t)],
  after   <- [t \in Task |-> Behind(t)],
  working <- [t \in Task |-> {r \in Run : Occupying(r) /\ runTask[r] = t}],
  shown   <- [t \in Task |-> result[t] = "PUBLISHED"]

\* Every step of the kernel is a step of the promise or invisible to it.
ImplementsPromise == Promise!Spec
=============================================================================
