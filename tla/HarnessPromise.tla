---------------------------- MODULE HarnessPromise ----------------------------
(***************************************************************************)
(* What a harness adapter and its backend promise the coordinator about one *)
(* prompt: an execution is reported as accepted only when the agent has     *)
(* begun the turn of that prompt, and as settled only when that turn has    *)
(* ended, with the outcome it ended with.  Otherwise it is reported as      *)
(* broken.  Nothing is reported after that.                                 *)
(***************************************************************************)
CONSTANT
  Outcome    \* outcomes the coordinator understands

VARIABLES
  turn,      \* the turn of the prompt: "none", "running" or "ended"
  ending,    \* what is to be read into the way it ended, or "none"
  told       \* what the coordinator was told: accepted, outcome, end

Silent == [accepted |-> FALSE, outcome |-> "none", end |-> "no"]

Init == turn = "none" /\ ending = "none" /\ told = Silent

Begins ==
  /\ turn = "none"
  /\ turn' = "running"
  /\ UNCHANGED <<ending, told>>

Ends ==
  /\ turn = "running"
  /\ turn' = "ended"
  /\ ending' \in Outcome \cup {"none"}
  /\ UNCHANGED told

Accepts ==
  /\ told.end = "no" /\ turn # "none"
  /\ told' = [told EXCEPT !.accepted = TRUE]
  /\ UNCHANGED <<turn, ending>>

Settles ==
  /\ told.end = "no" /\ turn = "ended" /\ ending \in Outcome
  /\ told' = [accepted |-> TRUE, outcome |-> ending, end |-> "clean"]
  /\ UNCHANGED <<turn, ending>>

\* What it was doing is not known.
Breaks ==
  /\ told.end = "no"
  /\ told' = [told EXCEPT !.end = "broken"]
  /\ UNCHANGED <<turn, ending>>

Next == Begins \/ Ends \/ Accepts \/ Settles \/ Breaks

Spec == Init /\ [][Next]_<<turn, ending, told>>
=============================================================================
