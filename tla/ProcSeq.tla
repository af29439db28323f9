------------------------------ MODULE ProcSeq -------------------------------
(***************************************************************************)
(* What the process list of proc.c promises: the children started and not  *)
(* yet freed, the latest first, each with the mark of its death.           *)
(***************************************************************************)
EXTENDS SequencesExt

CONSTANT Pids

VARIABLE jobs

Job == [pid : Pids, alive : BOOLEAN]

Listed == {jobs[i].pid : i \in DOMAIN jobs}

Init == jobs = <<>>

\* A new child comes in front.
Fork(p) == /\ p \notin Listed
           /\ jobs' = <<[pid |-> p, alive |-> TRUE]>> \o jobs

\* A child is found dead.
Die(p) == \E i \in DOMAIN jobs :
             /\ jobs[i] = [pid |-> p, alive |-> TRUE]
             /\ jobs' = [jobs EXCEPT ![i].alive = FALSE]

\* A child is forgotten; the others stay as they are.
Free(p) == \E i \in DOMAIN jobs :
              /\ jobs[i].pid = p
              /\ jobs' = RemoveAt(jobs, i)

Next == \E p \in Pids : Fork(p) \/ Die(p) \/ Free(p)

Spec == Init /\ [][Next]_jobs
=============================================================================
