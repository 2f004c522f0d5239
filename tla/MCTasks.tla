------------------------------ MODULE MCTasks -------------------------------
(***************************************************************************)
(* Tasks for TLC.  Names of address spaces are interchangeable, so a state *)
(* is told apart by which tasks share a space, which only a futex asks;    *)
(* slots other than 0 are interchangeable too.  A report counter matters   *)
(* only while its slot is in use.                                          *)
(***************************************************************************)
EXTENDS Tasks, TLC

In(s) == {t \in Used(task) : "futex" \in Waits /\ task[t].space = s}
\* task = task brings the state into TLC's normal form.
MCView == <<task = task,
            [t \in Task |-> [task[t] EXCEPT !.space = In(@)]],
            current, mode, [t \in Used(task) |-> reported[t]], forced>>
MCSym == Permutations(Task \ {Root})
=============================================================================
