----------------------------- MODULE MCJobQueue -----------------------------
(* Instances of JobQueue for TLC. *)
EXTENDS JobQueue, TLC

CONSTANTS j1, j2, t1, t2, t3, w1, w2

MCOneJob   == {j1}
MCTwoJobs  == {j1, j2}
MCTwoTasks == {t1, t2}
MCTasks    == {t1, t2, t3}
MCWorkers  == {w1, w2}

(* Tasks are interchangeable, and so are workers: every operator treats *)
(* them by equality only.                                               *)
MCSymmetry == Permutations(Task) \cup Permutations(Worker)
=============================================================================
