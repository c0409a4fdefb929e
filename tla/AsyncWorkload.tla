---------------------------- MODULE AsyncWorkload ---------------------------
(***************************************************************************)
(* The workload over abstract workers: async_worker yields its argument,   *)
(* is resumed, uses its stack and returns 1.  midway holds the workers     *)
(* that have yielded.                                                      *)
(***************************************************************************)
EXTENDS AsyncDriver

VARIABLES midway, answer   \* answer: what the last resume returned

workloadVars == <<driverVars, midway, answer>>

WorkloadInit == DriverInit /\ midway = {} /\ answer = 0

Alloc == CallAlloc /\ midway' = midway \ {j} /\ UNCHANGED answer

(* The first resume runs the worker to its yield, the second to its end.   *)
Start == CallStart /\ midway' = midway \cup {j} /\ answer' = Kb

Work == /\ CallWork(1)
        /\ j \in midway
        /\ midway' = midway \ {j}
        /\ answer' = 1

Free == CallFree /\ UNCHANGED <<midway, answer>>

WorkloadNext == Alloc \/ Start \/ Work \/ Free

WorkloadSafety == WorkloadInit /\ [][WorkloadNext]_workloadVars

WorkloadSpec == WorkloadSafety /\ WF_workloadVars(WorkloadNext)

-----------------------------------------------------------------------------
(* Only the worker that the loop is serving is ever in the middle of its   *)
(* work.                                                                   *)
OneMidway == midway = IF call = "work" THEN {j} ELSE {}

(* The benchmark finishes: main gets to verify.                            *)
WorkloadEnds == <>DriverEnd
=============================================================================
