------------------------------ MODULE MCJournal ------------------------------
(* The replay journal with two processes, one of them with two threads.    *)
EXTENDS ReplayJournalProofs, TLC

CONSTANTS t1, t2, t3, p1, p2
TwoAndOne == (t1 :> p1) @@ (t2 :> p1) @@ (t3 :> p2)

Interchangeable == Permutations(Digests) \cup Permutations({t1, t2})

=============================================================================
