---------------------------- MODULE MCActionClient ----------------------------
(***************************************************************************)
(* Instances of ActionClient for TLC: t1 and t2 share the client c1, and   *)
(* t3 calls c2, another client of the same action.                         *)
(***************************************************************************)
EXTENDS ActionClient, TLC

CONSTANTS t1, t2, t3, c1, c2, actA

MCClientOf == [t \in Threads |-> IF t = t3 THEN c2 ELSE c1]

MCActionOf == [c \in Clients |-> actA]

\* c2 sends one goal: c1's first shares its id, c1's second does not.
MCGoalsOf == [c \in Clients |-> IF c = c1 THEN MaxGoals ELSE 1]

\* t1 and t2 are interchangeable: every constant treats them alike.
MCSymmetry == Permutations({t1, t2})

Seen(h) == IF h = NoHandle THEN h ELSE <<h.status, h.result>>

\* What tells two states apart.  Left out is what no guard and none of the
\* properties of the run reads: the results that get_result returned, the cancel
\* messages, cancel_requested_, and the goal id of a thread at rest.
MCView ==
    <<nextGoalId, [c \in Clients |-> [g \in GoalIds |-> Seen(handles[c][g])]],
      mutex, storing, listening, overtaken, pc,
      [t \in Threads |-> IF pc[t] = "idle" THEN 0 ELSE goalId[t]],
      feedbackVars, goals, results>>

=============================================================================
