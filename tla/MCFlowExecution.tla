--------------------------- MODULE MCFlowExecution ---------------------------
(***************************************************************************)
(* Small processes for TLC.                                                *)
(***************************************************************************)
EXTENDS FlowExecution, TLC

CONSTANTS w1, w2, a1, a2

\* Sequential: start -> list (forEach, people) -> auto (system) -> end, with a
\* condition after the start that may end the execution at once.
SequentialSteps == {"start", "list", "auto"}
SequentialFlows == {"start-list", "list-auto"}
SequentialSource == [f \in SequentialFlows |->
                       IF f = "start-list" THEN "start" ELSE "list"]
SequentialTarget == [f \in SequentialFlows |->
                       IF f = "start-list" THEN "list" ELSE "auto"]
SequentialKind == [f \in SequentialFlows |->
                       IF f = "start-list" THEN "conditional" ELSE "plain"]

\* Parallel: a person is asked in any case, a timer may ask again.
ParallelSteps == {"start", "review", "remind"}
ParallelFlows == {"start-review", "start-remind"}
ParallelTarget == [f \in ParallelFlows |->
                     IF f = "start-review" THEN "review" ELSE "remind"]
ParallelKind == [f \in ParallelFlows |->
                     IF f = "start-review" THEN "plain" ELSE "scheduled"]
ParallelSource == [f \in ParallelFlows |-> "start"]

\* Join: two people's steps lead to the same forEach step.
JoinSteps == {"start", "a", "b", "list"}
JoinFlows == {"start-a", "start-b", "a-list", "b-list"}
JoinSource == [f \in JoinFlows |->
                 CASE f = "a-list" -> "a" [] f = "b-list" -> "b"
                   [] OTHER -> "start"]
JoinTarget == [f \in JoinFlows |->
                 CASE f = "start-a" -> "a" [] f = "start-b" -> "b"
                   [] OTHER -> "list"]
JoinKind == [f \in JoinFlows |-> "plain"]

\* Branching: a condition chooses between a forEach of system steps and an else
\* branch, a timer runs beside them, one error of the system step has a branch.
BranchingSteps == {"start", "poll", "fix"}
BranchingFlows == {"start-poll", "start-else", "start-timer", "poll-error"}
BranchingSource == [f \in BranchingFlows |->
                      IF f = "poll-error" THEN "poll" ELSE "start"]
BranchingTarget == [f \in BranchingFlows |->
                      IF f = "start-poll" THEN "poll" ELSE "fix"]
BranchingKind == [f \in BranchingFlows |->
                    CASE f = "start-poll" -> "conditional"
                      [] f = "start-else" -> "fallback"
                      [] f = "start-timer" -> "scheduled"
                      [] f = "poll-error" -> "onError"]
BranchingCatches == [f \in BranchingFlows |->
                       IF f = "poll-error" THEN {"timeout"} ELSE {}]

\* No flow names an error.
SequentialCatches == [f \in SequentialFlows |-> {}]
ParallelCatches == [f \in ParallelFlows |-> {}]
JoinCatches == [f \in JoinFlows |-> {}]

Symmetry == Permutations(Workers)
=============================================================================
