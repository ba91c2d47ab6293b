---------------------------- MODULE MCCollection ----------------------------
(* Two workers and two sources whose names may resolve to the same of two   *)
(* repositories.                                                            *)
EXTENDS Collection

MCWorkers == {"w1", "w2"}
MCSources == {"s1", "s2"}
MCRepositories == {"r1", "r2"}

\* Workers, sources and repositories are interchangeable: the first collection
\* is of the first source, claimed by the first worker, and first answered with
\* the first repository.  The second collection reads one page at most
\* and is claimed once: the first one goes through the rest.
Canonical ==
    /\ job[1].source # "s2"
    /\ job[1].fence = 1 => job[1].owner # "w2"
    /\ job[1].repository # "r2"
    /\ \A w \in Workers : worker[w].job = 1 => worker[w].repository # "r2"
    /\ job[2].fence <= 1 /\ job[2].lease # "expired"
    /\ \A w \in Workers : worker[w].job = 2 => worker[w].records <= 2
=============================================================================
