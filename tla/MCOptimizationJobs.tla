------------------------ MODULE MCOptimizationJobs ------------------------
(* Small instances of OptimizationJobs for TLC. *)
EXTENDS OptimizationJobs

EveryFault == AllFaults
CrashOnly == {"workerCrash"}
RefusalOnly == {"dbRefused"}
=============================================================================
