---------------------------- MODULE MC_JobQueue ----------------------------
(* The queue with two note files, so that one job can be mistaken for      *)
(* another; two row ids, so that a row is deleted and inserted again under *)
(* a worker; two goroutines, the least that can overlap; one crash.        *)
EXTENDS JobQueue

MCPaths      == {"a.note", "b.note"}
MCWorkers    == {"run1", "run2"}
MCMaxId      == 2
MCMaxCrashes == 1
=============================================================================
