--------------------------- MODULE WorkloadProofs ---------------------------
(***************************************************************************)
(* The c10m workload for every total_conn and active_conn: the count that  *)
(* verify compares, and that the hand-written state machine and the        *)
(* WasmFX continuations implement the abstract workload.                   *)
(***************************************************************************)
EXTENDS AsyncWorkload, BespokeWorkers, WasmfxWorkers, TLAPS

(* The invariant of async_wl.                                              *)
DriverInv == DriverTypeOK /\ Counted

(* The sizes of a run are natural numbers.                                 *)
LEMMA SizesAreNumbers ==
  ASSUME DriverTypeOK
  PROVE  /\ total \in Nat /\ active \in Nat /\ active > 0
         /\ total + active < Word /\ Word \in Nat /\ Kb \in Nat /\ Kb < Word
         /\ j \in Nat
<1>1. /\ total \in Nat /\ active \in Nat /\ active > 0
      /\ total + active < Word /\ Word \in Nat /\ Kb \in Nat /\ Kb < Word
      /\ i \in Nat
  BY DriverAssumption DEF DriverTypeOK
<1>2. i % active \in Nat
  BY <1>1
<1> QED
  BY <1>1, <1>2 DEF j

(* The counter of async_wl starts at nothing counted.                      *)
LEMMA DriverStarts == DriverInit => DriverInv
<1> SUFFICES ASSUME DriverInit PROVE DriverInv
  OBVIOUS
<1>1. PICK s \in Sizes : total = s[1] /\ active = s[2]
  BY DEF DriverInit
<1>2. s \in Nat \X Nat /\ s[2] > 0
  BY DriverAssumption
<1>3. <<total, active>> = s /\ active \in Nat /\ active > 0
  BY <1>1, <1>2
<1>4. 0 \in 0 .. Word - 1
  BY DriverAssumption
<1>5. <<total, active>> \in Sizes
  BY <1>3
<1> QED
  BY <1>3, <1>4, <1>5 DEF DriverInit, DriverInv, DriverTypeOK, Counted

(* The loop that allocates counts nothing.                                 *)
LEMMA AllocCounts == DriverInv /\ CallAlloc => DriverInv'
<1> SUFFICES ASSUME DriverInv, CallAlloc PROVE DriverInv'
  OBVIOUS
<1> USE DEF DriverInv
<1>1. /\ total \in Nat /\ active \in Nat /\ active > 0 /\ i \in Nat
      /\ <<total', active'>> \in Sizes /\ total' = total /\ active' = active
      /\ count' = count /\ count \in 0 .. Word - 1
  BY SizesAreNumbers DEF DriverTypeOK, CallAlloc
<1>2. CASE phase = "fill"
  BY <1>1, <1>2 DEF CallAlloc, EndIteration, AfterFill, DriverTypeOK, Counted
<1>3. CASE phase = "serve"
  BY <1>1, <1>3 DEF CallAlloc, EndIteration, DriverTypeOK, Counted
<1>4. CASE phase = "drain"
  BY <1>4 DEF CallAlloc, Counted
<1> QED
  BY <1>2, <1>3, <1>4 DEF CallAlloc, DriverTypeOK

(* The first loop over the workers counts nothing.                         *)
LEMMA StartCounts == DriverInv /\ CallStart => DriverInv'
BY SizesAreNumbers DEF DriverInv, DriverTypeOK, Counted, CallStart

(* The second loop counts the 1 each worker answers.                       *)
LEMMA WorkCounts == DriverInv /\ CallWork(1) => DriverInv'
<1> SUFFICES ASSUME DriverInv, CallWork(1) PROVE DriverInv'
  OBVIOUS
<1> USE DEF DriverInv
<1>1. /\ total \in Nat /\ active \in Nat /\ active > 0 /\ i \in Nat
      /\ total + active < Word /\ Word \in Nat
      /\ count \in Nat
  BY SizesAreNumbers DEF DriverTypeOK
<1>2. phase \in {"serve", "drain"}
  BY DEF CallWork, Counted, DriverTypeOK
<1>3. count + 1 \in Nat /\ count + 1 < Word
  BY <1>1, <1>2 DEF Counted, CallWork
<1>4. count' = count + 1
  BY <1>1, <1>3 DEF CallWork
<1> QED
  BY <1>1, <1>2, <1>3, <1>4 DEF CallWork, Counted, DriverTypeOK

(* The loop that frees counts nothing.                                     *)
LEMMA FreeCounts == DriverInv /\ CallFree => DriverInv'
<1> SUFFICES ASSUME DriverInv, CallFree PROVE DriverInv'
  OBVIOUS
<1> USE DEF DriverInv
<1>1. /\ total \in Nat /\ active \in Nat /\ active > 0 /\ i \in Nat
      /\ <<total', active'>> \in Sizes /\ total' = total /\ active' = active
      /\ count' = count /\ count \in 0 .. Word - 1
  BY SizesAreNumbers DEF DriverTypeOK, CallFree
<1>2. CASE phase = "serve"
  BY <1>1, <1>2 DEF CallFree, DriverTypeOK, Counted
<1>3. CASE phase = "drain"
  BY <1>1, <1>3 DEF CallFree, EndIteration, DriverTypeOK, Counted
<1> QED
  BY <1>2, <1>3 DEF CallFree, DriverTypeOK, Counted

-----------------------------------------------------------------------------
(* verify succeeds at the end of the abstract workload, for every size     *)
(* whose sum fits a uint32_t.                                              *)
THEOREM WorkloadVerifies == WorkloadSpec => []VerifyPasses
<1>1. WorkloadInit => DriverInv
  BY DriverStarts DEF WorkloadInit
<1>2. DriverInv /\ [WorkloadNext]_workloadVars => DriverInv'
  <2> SUFFICES ASSUME DriverInv, [WorkloadNext]_workloadVars PROVE DriverInv'
    OBVIOUS
  <2>1. CASE UNCHANGED workloadVars
    BY <2>1 DEF workloadVars, driverVars, DriverInv, DriverTypeOK, Counted
  <2> QED
    BY <2>1, AllocCounts, StartCounts, WorkCounts, FreeCounts
       DEF WorkloadNext, Alloc, Start, Work, Free
<1>3. DriverInv => VerifyPasses
  BY DEF DriverInv, Counted, VerifyPasses, DriverEnd
<1> QED
  BY <1>1, <1>2, <1>3, PTL DEF WorkloadSpec, WorkloadSafety

(* In the abstract workload a worker is in the middle of its work only     *)
(* between the two resumes that the loop makes of it, for every size.      *)
THEOREM WorkloadOneMidway == WorkloadSpec => []OneMidway
<1>1. WorkloadInit => OneMidway
  BY DEF WorkloadInit, DriverInit, OneMidway
<1>2. OneMidway /\ [WorkloadNext]_workloadVars => OneMidway'
  <2> SUFFICES ASSUME OneMidway, [WorkloadNext]_workloadVars PROVE OneMidway'
    OBVIOUS
  <2>1. CASE Alloc
    BY <2>1 DEF OneMidway, Alloc, CallAlloc, EndIteration
  <2>2. CASE Start
    BY <2>2 DEF OneMidway, Start, CallStart, j
  <2>3. CASE Work
    BY <2>3 DEF OneMidway, Work, CallWork
  <2>4. CASE Free
    BY <2>4 DEF OneMidway, Free, CallFree, EndIteration
  <2>5. CASE UNCHANGED workloadVars
    BY <2>5 DEF OneMidway, workloadVars, driverVars, j
  <2> QED
    BY <2>1, <2>2, <2>3, <2>4, <2>5 DEF WorkloadNext
<1> QED
  BY <1>1, <1>2, PTL DEF WorkloadSpec, WorkloadSafety

-----------------------------------------------------------------------------
(* The hand-written workers.                                               *)

(* A state machine is YIELDING exactly between its two resumes.            *)
BespokeInv ==
  /\ DriverInv
  /\ BespokeTypeOK
  /\ \A k \in Key : workers[k].state = "YIELDING" <=> call = "work" /\ k = j

(* While async_wl runs, the loop index is that of a worker.                *)
LEMMA LoopIndexIsAKey == DriverInv /\ phase # "end" => j \in Key
<1> SUFFICES ASSUME DriverInv, phase # "end" PROVE j \in Key
  OBVIOUS
<1>1. /\ active \in Nat /\ active > 0 /\ i \in Nat
  BY SizesAreNumbers DEF DriverInv, DriverTypeOK
<1>2. i % active \in 0 .. active - 1
  BY <1>1
<1> QED
  BY <1>1, <1>2 DEF j, Key, DriverInv, DriverTypeOK, Counted

(* What resume_async_worker makes of a state machine in either state.      *)
LEMMA ResumedWorker ==
  ASSUME NEW w \in Sm, Kb \in 0 .. Word - 1
  PROVE  /\ Resumed(w, Kb).sm \in Sm
         /\ w.state = "NORMAL" => /\ Resumed(w, Kb).answer = Kb
                                  /\ Resumed(w, Kb).sm.state = "YIELDING"
         /\ w.state = "YIELDING" => /\ Resumed(w, Kb).answer = 1
                                    /\ Resumed(w, Kb).sm.state = "NORMAL"
<1>1. CASE w.state = "NORMAL"
  BY <1>1, Zenon DEF Sm, Resumed, Worker, WorkerRewound, Yield
<1>2. CASE w.state = "YIELDING"
  BY <1>2, Zenon DEF Sm, Resumed, Worker, WorkerRewound, Yield
<1> QED
  BY <1>1, <1>2 DEF Sm

(* No worker exists when async_wl starts.                                  *)
LEMMA BespokeStarts == BespokeInit => BespokeInv
<1> SUFFICES ASSUME BespokeInit PROVE BespokeInv
  OBVIOUS
<1>1. DriverInv
  BY DriverStarts DEF BespokeInit
<1>2. 0 \in 0 .. Word - 1
  BY DriverAssumption
<1> QED
  BY <1>1, <1>2 DEF BespokeInit, BespokeInv, BespokeTypeOK, DriverInv, Sm, Cleared, DriverInit

(* One step of the hand-written workers keeps the invariant and is a step  *)
(* of the abstract workload.                                               *)
BespokeStepGoal == BespokeInv' /\ BespokeWorkload!WorkloadNext

(* alloc of c10m_bespoke.c is a step of the abstract worker.               *)
LEMMA BespokeAllocStep == BespokeInv /\ BespokeAlloc => BespokeStepGoal
<1> SUFFICES ASSUME BespokeInv, BespokeAlloc PROVE BespokeStepGoal
  OBVIOUS
<1>1. DriverInv'
  BY AllocCounts DEF BespokeInv, BespokeAlloc
<1>2. j \in Key /\ Key' = Key /\ 0 \in 0 .. Word - 1
  BY LoopIndexIsAKey, DriverAssumption DEF BespokeInv, BespokeAlloc, CallAlloc, Key
<1>3. Cleared \in Sm
  BY <1>2 DEF Cleared, Sm
<1>4. BespokeTypeOK'
  BY <1>1, <1>2, <1>3 DEF BespokeInv, BespokeTypeOK, BespokeAlloc, DriverInv
<1>5. call # "work" /\ call' # "work"
  BY DEF BespokeAlloc, CallAlloc, EndIteration
<1>6. \A k \in Key : workers'[k].state # "YIELDING"
  BY <1>2, <1>5 DEF BespokeInv, BespokeTypeOK, BespokeAlloc, Cleared
<1>7. BespokeWorkload!Alloc
  <2>1. BespokeWorkload!CallAlloc
    BY DEF BespokeAlloc, CallAlloc, BespokeWorkload!CallAlloc, EndIteration,
           BespokeWorkload!EndIteration, AfterFill, BespokeWorkload!AfterFill
  <2>2. {k \in Key : workers[k].state = "YIELDING"} = {}
    BY <1>5 DEF BespokeInv
  <2>3. {k \in Key : workers[k].state = "YIELDING"}' = {}
    BY <1>2, <1>6
  <2> QED
    BY <2>1, <2>2, <2>3 DEF BespokeWorkload!Alloc, BespokeAlloc
<1> QED
  BY <1>1, <1>2, <1>4, <1>5, <1>6, <1>7
     DEF BespokeStepGoal, BespokeInv, BespokeWorkload!WorkloadNext

(* So is the first resume of a worker, which yields.                       *)
LEMMA BespokeStartStep == BespokeInv /\ BespokeStart => BespokeStepGoal
<1> SUFFICES ASSUME BespokeInv, BespokeStart PROVE BespokeStepGoal
  OBVIOUS
<1>1. DriverInv'
  BY StartCounts DEF BespokeInv, BespokeStart
<1>2. /\ j \in Key /\ Key' = Key /\ j' = j /\ call = "start" /\ call' = "work"
      /\ phase # "end"
  BY LoopIndexIsAKey DEF BespokeInv, BespokeStart, CallStart, Key, j
<1>3. Kb \in 0 .. Word - 1
  BY SizesAreNumbers DEF BespokeInv, DriverInv
<1>4. workers[j] \in Sm /\ workers[j].state = "NORMAL"
  BY <1>2 DEF BespokeInv, BespokeTypeOK, Sm
<1>5. /\ workers' \in [Key -> Sm] /\ workers'[j].state = "YIELDING"
      /\ \A k \in Key : k # j => workers'[k] = workers[k]
      /\ result' = Kb
  BY <1>2, <1>3, <1>4, ResumedWorker
     DEF BespokeInv, BespokeTypeOK, BespokeStart, BespokeResume
<1>6. BespokeTypeOK'
  BY <1>1, <1>2, <1>3, <1>5
     DEF BespokeInv, BespokeTypeOK, BespokeStart, BespokeResume, DriverInv
<1>7. \A k \in Key : workers'[k].state = "YIELDING" <=> k = j
  BY <1>2, <1>5 DEF BespokeInv
<1>8. BespokeWorkload!Start
  <2>1. BespokeWorkload!CallStart /\ BespokeWorkload!j = j
    BY DEF BespokeStart, CallStart, BespokeWorkload!CallStart, BespokeWorkload!j, j
  <2>2. {k \in Key : workers[k].state = "YIELDING"} = {}
    BY <1>2 DEF BespokeInv
  <2>3. {k \in Key : workers[k].state = "YIELDING"}' = {j}
    BY <1>2, <1>7
  <2> QED
    BY <1>5, <2>1, <2>2, <2>3 DEF BespokeWorkload!Start
<1> QED
  BY <1>1, <1>2, <1>6, <1>7, <1>8
     DEF BespokeStepGoal, BespokeInv, BespokeWorkload!WorkloadNext

(* So is the second resume, which answers 1.                               *)
LEMMA BespokeWorkStep == BespokeInv /\ BespokeWork => BespokeStepGoal
<1> SUFFICES ASSUME BespokeInv, BespokeWork PROVE BespokeStepGoal
  OBVIOUS
<1>2. /\ j \in Key /\ Key' = Key /\ j' = j /\ call = "work" /\ call' = "free"
      /\ phase # "end"
  BY LoopIndexIsAKey DEF BespokeInv, BespokeWork, CallWork, Key, j
<1>3. Kb \in 0 .. Word - 1 /\ 1 \in 0 .. Word - 1
  BY SizesAreNumbers DEF BespokeInv, DriverInv
<1>4. workers[j] \in Sm /\ workers[j].state = "YIELDING"
  BY <1>2 DEF BespokeInv, BespokeTypeOK
<1>5. /\ workers' \in [Key -> Sm] /\ workers'[j].state = "NORMAL"
      /\ \A k \in Key : k # j => workers'[k] = workers[k]
      /\ result' = 1
  BY <1>2, <1>3, <1>4, ResumedWorker
     DEF BespokeInv, BespokeTypeOK, BespokeWork, BespokeResume
<1>1. DriverInv' /\ CallWork(1)
  BY <1>5, WorkCounts DEF BespokeInv, BespokeWork
<1>6. BespokeTypeOK'
  BY <1>1, <1>2, <1>3, <1>5
     DEF BespokeInv, BespokeTypeOK, BespokeWork, BespokeResume, DriverInv
<1>7. \A k \in Key : workers'[k].state # "YIELDING"
  BY <1>2, <1>5 DEF BespokeInv
<1>8. BespokeWorkload!Work
  <2>1. BespokeWorkload!CallWork(1) /\ BespokeWorkload!j = j
    BY <1>1 DEF CallWork, BespokeWorkload!CallWork, BespokeWorkload!j, j
  <2>2. {k \in Key : workers[k].state = "YIELDING"} = {j}
    BY <1>2 DEF BespokeInv
  <2>3. {k \in Key : workers[k].state = "YIELDING"}' = {}
    BY <1>2, <1>7
  <2> QED
    BY <1>5, <2>1, <2>2, <2>3 DEF BespokeWorkload!Work
<1> QED
  BY <1>1, <1>2, <1>6, <1>7, <1>8
     DEF BespokeStepGoal, BespokeInv, BespokeWorkload!WorkloadNext

(* So is free.                                                             *)
LEMMA BespokeFreeStep == BespokeInv /\ BespokeFree => BespokeStepGoal
<1> SUFFICES ASSUME BespokeInv, BespokeFree PROVE BespokeStepGoal
  OBVIOUS
<1>1. DriverInv'
  BY FreeCounts DEF BespokeInv, BespokeFree
<1>2. Key' = Key /\ call # "work" /\ call' # "work"
  BY DEF BespokeFree, CallFree, EndIteration, Key
<1>3. BespokeTypeOK'
  BY <1>1, <1>2 DEF BespokeInv, BespokeTypeOK, BespokeFree, DriverInv
<1>4. BespokeWorkload!Free
  <2>1. BespokeWorkload!CallFree
    BY DEF BespokeFree, CallFree, BespokeWorkload!CallFree, EndIteration,
           BespokeWorkload!EndIteration
  <2>2. UNCHANGED {k \in Key : workers[k].state = "YIELDING"}
    BY <1>2 DEF BespokeFree
  <2> QED
    BY <2>1, <2>2 DEF BespokeWorkload!Free, BespokeFree
<1> QED
  BY <1>1, <1>2, <1>3, <1>4
     DEF BespokeStepGoal, BespokeInv, BespokeFree, BespokeWorkload!WorkloadNext

(* Every step of the program keeps the invariant and is an abstract step.  *)
LEMMA BespokeStep == BespokeInv /\ [BespokeNext]_bespokeVars
    => BespokeInv' /\ [BespokeWorkload!WorkloadNext]_(BespokeWorkload!workloadVars)
<1> SUFFICES ASSUME BespokeInv, [BespokeNext]_bespokeVars
    PROVE BespokeInv' /\ [BespokeWorkload!WorkloadNext]_(BespokeWorkload!workloadVars)
  OBVIOUS
<1>1. CASE BespokeNext
  BY <1>1, BespokeAllocStep, BespokeStartStep, BespokeWorkStep, BespokeFreeStep
     DEF BespokeNext, BespokeStepGoal
<1>2. CASE UNCHANGED bespokeVars
  <2>1. /\ UNCHANGED driverVars /\ workers' = workers /\ result' = result
        /\ active_worker' = active_worker
    BY <1>2 DEF bespokeVars
  <2>2. BespokeInv'
    BY <2>1 DEF driverVars, BespokeInv, DriverInv, DriverTypeOK, Counted,
                BespokeTypeOK, Key, j
  <2>3. UNCHANGED BespokeWorkload!workloadVars
    BY <2>1 DEF driverVars, Key, BespokeWorkload!workloadVars, BespokeWorkload!driverVars
  <2> QED
    BY <2>2, <2>3
<1> QED
  BY <1>1, <1>2

-----------------------------------------------------------------------------
(* c10m_bespoke.c implements the abstract workload (the safety part of     *)
(* BespokeImplements), for every size.                                     *)
THEOREM BespokeRefines == BespokeSpec => BespokeImplements
<1>1. BespokeInit => BespokeWorkload!WorkloadInit
  BY BespokeStarts DEF BespokeInit, BespokeWorkload!WorkloadInit, DriverInit,
       BespokeWorkload!DriverInit, Key, Cleared
<1> QED
  BY <1>1, BespokeStarts, BespokeStep, PTL
       DEF BespokeSpec, BespokeImplements, BespokeWorkload!WorkloadSafety

(* main of c10m_bespoke.c returns 0: its count is the reference, for every *)
(* size whose sum fits a uint32_t.                                         *)
THEOREM BespokeVerifies == BespokeSpec => []VerifyPasses
<1>1. BespokeInv => VerifyPasses
  BY DEF BespokeInv, DriverInv, Counted, VerifyPasses, DriverEnd
<1> QED
  BY <1>1, BespokeStarts, BespokeStep, PTL DEF BespokeSpec

(* For every size, the loop index names a worker, and the one state        *)
(* machine that is YIELDING is that of the worker whose second resume is   *)
(* due: no other is left midway, and resume_async_worker never takes the   *)
(* wrong branch of its switch.                                             *)
THEOREM BespokeOneMidway ==
  BespokeSpec =>
    [](/\ BespokeTypeOK
       /\ \A k \in Key : workers[k].state = "YIELDING" <=> call = "work" /\ k = j)
<1>1. BespokeInv => /\ BespokeTypeOK
                    /\ \A k \in Key :
                         workers[k].state = "YIELDING" <=> call = "work" /\ k = j
  BY DEF BespokeInv
<1> QED
  BY <1>1, BespokeStarts, BespokeStep, PTL DEF BespokeSpec

-----------------------------------------------------------------------------
(* The continuations of c10m_wasmfx.wast.                                  *)

(* Where the loops of async_wl have brought worker k.                      *)
StageAt(p, n, c, w, k) ==
  IF p = "fill" THEN (IF k < n THEN "fresh" ELSE "none")
  ELSE IF p = "end" THEN "none"
  ELSE IF k = w THEN [start |-> "fresh", work |-> "midway", free |-> "done", alloc |-> "none"][c]
  ELSE IF p = "drain" /\ k < n THEN "none"
  ELSE "fresh"

(* It is there now.                                                        *)
Stage(k) == StageAt(phase, i, call, j, k)

(* alloc_async_worker is called for a worker that is not there, and the    *)
(* others stay where they are.                                             *)
LEMMA StageAlloc ==
  ASSUME DriverInv, CallAlloc
  PROVE  /\ j \in Key /\ Stage(j) = "none"
         /\ \A k \in Key : Stage(k)' = IF k = j THEN "fresh" ELSE Stage(k)
<1>1. j \in Key
  BY LoopIndexIsAKey DEF CallAlloc
<1>2. active \in Nat /\ active > 0 /\ i \in Nat /\ total \in Nat
  BY SizesAreNumbers DEF DriverInv, DriverTypeOK
<1>3. call = "alloc" /\ phase # "end" /\ phase # "drain"
  BY DEF CallAlloc, DriverInv, Counted
<1>4. CASE phase = "fill"
  <2>1. j = i /\ i < active
    BY <1>4 DEF j, DriverInv, Counted
  <2>2. Stage(j) = "none"
    BY <1>2, <1>4, <2>1 DEF Stage, StageAt
  <2>3. CASE i + 1 < active
    <3>1. i' = i + 1 /\ phase' = "fill"
      BY <1>4, <2>3 DEF CallAlloc, EndIteration
    <3> QED BY <1>1, <1>2, <1>4, <2>1, <2>2, <3>1 DEF Stage, StageAt, Key
  <2>4. CASE ~ (i + 1 < active)
    <3>1. i' = 0 /\ phase' \in {"serve", "drain"} /\ call' = "start"
      BY <1>4, <2>4 DEF CallAlloc, EndIteration, AfterFill
    <3>2. \A k \in Key : Stage(k)' = "fresh"
      BY <1>2, <3>1 DEF Stage, StageAt, Key
    <3>3. \A k \in Key : k # i => k < i
      BY <1>2, <2>1, <2>4 DEF Key
    <3> QED BY <1>1, <1>4, <2>1, <2>2, <3>2, <3>3 DEF Stage, StageAt
  <2> QED BY <2>3, <2>4
<1>5. CASE phase = "serve"
  <2>1. /\ call' = "start" /\ phase' \in {"serve", "drain"}
        /\ i' = 0 \/ phase' = "serve"
    BY <1>3, <1>5 DEF CallAlloc, EndIteration
  <2>2. \A k \in Key : Stage(k)' = "fresh"
    BY <1>2, <2>1 DEF Stage, StageAt, Key
  <2>3. \A k \in Key : k # j => Stage(k) = "fresh"
    BY <1>5 DEF Stage, StageAt
  <2>4. Stage(j) = "none"
    BY <1>3, <1>5 DEF Stage, StageAt
  <2> QED BY <1>1, <2>2, <2>3, <2>4
<1>6. QED
  BY <1>3, <1>4, <1>5 DEF DriverInv, DriverTypeOK

(* The first resume of a worker.                                           *)
LEMMA StageStart ==
  ASSUME DriverInv, CallStart
  PROVE  /\ j \in Key /\ Stage(j) = "fresh"
         /\ \A k \in Key : Stage(k)' = IF k = j THEN "midway" ELSE Stage(k)
<1>1. j \in Key /\ j' = j
  BY LoopIndexIsAKey DEF CallStart, j
<1>2. /\ call = "start" /\ call' = "work" /\ phase \in {"serve", "drain"}
      /\ UNCHANGED <<phase, i>>
  BY DEF CallStart, DriverInv, DriverTypeOK, Counted
<1>3. QED
  BY <1>1, <1>2 DEF Stage, StageAt

(* The second.                                                             *)
LEMMA StageWork ==
  ASSUME DriverInv, CallWork(1)
  PROVE  /\ j \in Key /\ Stage(j) = "midway"
         /\ \A k \in Key : Stage(k)' = IF k = j THEN "done" ELSE Stage(k)
<1>1. j \in Key /\ j' = j
  BY LoopIndexIsAKey DEF CallWork, j
<1>2. /\ call = "work" /\ call' = "free" /\ phase \in {"serve", "drain"}
      /\ UNCHANGED <<phase, i>>
  BY DEF CallWork, DriverInv, DriverTypeOK, Counted
<1>3. QED
  BY <1>1, <1>2 DEF Stage, StageAt

(* free_async_worker is called for a worker that has returned.             *)
LEMMA StageFree ==
  ASSUME DriverInv, CallFree
  PROVE  /\ j \in Key /\ Stage(j) = "done"
         /\ \A k \in Key : Stage(k)' = IF k = j THEN "none" ELSE Stage(k)
<1>1. j \in Key
  BY LoopIndexIsAKey DEF CallFree
<1>2. active \in Nat /\ active > 0 /\ i \in Nat /\ total \in Nat
  BY SizesAreNumbers DEF DriverInv, DriverTypeOK
<1>3. call = "free" /\ phase \in {"serve", "drain"}
  BY DEF CallFree, DriverInv, DriverTypeOK, Counted
<1>4. Stage(j) = "done"
  BY <1>3 DEF Stage, StageAt
<1>5. CASE phase = "serve"
  <2>1. call' = "alloc" /\ phase' = phase /\ i' = i /\ j' = j
    BY <1>5 DEF CallFree, j
  <2> QED BY <1>1, <1>4, <1>5, <2>1 DEF Stage, StageAt
<1>6. CASE phase = "drain"
  <2>1. j = i /\ i < active
    BY <1>6 DEF j, DriverInv, Counted
  <2>2. CASE i + 1 < active
    <3>1. i' = i + 1 /\ phase' = "drain" /\ call' = "start" /\ j' = i + 1
      BY <1>6, <2>2 DEF CallFree, EndIteration, j
    <3> QED BY <1>1, <1>2, <1>4, <1>6, <2>1, <3>1 DEF Stage, StageAt, Key
  <2>3. CASE ~ (i + 1 < active)
    <3>1. phase' = "end"
      BY <1>6, <2>3 DEF CallFree, EndIteration
    <3>2. \A k \in Key : k # i => k < i
      BY <1>2, <2>1, <2>3 DEF Key
    <3> QED BY <1>1, <1>4, <1>6, <2>1, <3>1, <3>2 DEF Stage, StageAt
  <2> QED BY <2>2, <2>3
<1>7. QED
  BY <1>3, <1>5, <1>6

(* A table c of references over the keys K owns the references p.          *)
Owns(c, p, K) ==
  /\ p \in Seq({"entry", "yield", "dead"})
  /\ c \in [K -> 0 .. Len(p)]
  /\ \A k, l \in K : k # l /\ c[k] # 0 => c[k] # c[l]
  /\ \A r \in 1 .. Len(p) : p[r] # "dead" => \E k \in K : c[k] = r

(* What the slot of k holds.                                               *)
SlotOf(c, p, k) == IF c[k] = 0 THEN "null" ELSE p[c[k]]

(* The three things that happen to the table.                              *)
Stores(c, p, K, a, x, d, q) ==
  /\ Owns(c, p, K) /\ a \in K /\ x \in {"entry", "yield"}
  /\ SlotOf(c, p, a) \in {"null", "dead"}
  /\ d = [c EXCEPT ![a] = Len(p) + 1] /\ q = Append(p, x)

Uses(c, p, K, a, q) ==
  Owns(c, p, K) /\ a \in K /\ c[a] # 0 /\ q = [p EXCEPT ![c[a]] = "dead"]

Clears(c, p, K, a, d) ==
  Owns(c, p, K) /\ a \in K /\ SlotOf(c, p, a) = "dead" /\ d = [c EXCEPT ![a] = 0]

(* A new reference goes into a slot that holds none that is alive.         *)
LEMMA TableStore ==
  ASSUME NEW K, NEW c, NEW p, NEW a, NEW x, NEW d, NEW q, Stores(c, p, K, a, x, d, q)
  PROVE  /\ Owns(d, q, K)
         /\ \A k \in K : SlotOf(d, q, k) = IF k = a THEN x ELSE SlotOf(c, p, k)
<1>0. /\ Owns(c, p, K) /\ a \in K /\ x \in {"entry", "yield"}
      /\ SlotOf(c, p, a) \in {"null", "dead"}
      /\ d = [c EXCEPT ![a] = Len(p) + 1] /\ q = Append(p, x)
  BY DEF Stores
<1>1. /\ Len(p) \in Nat /\ q \in Seq({"entry", "yield", "dead"}) /\ Len(q) = Len(p) + 1
      /\ q[Len(p) + 1] = x /\ \A r \in 1 .. Len(p) : q[r] = p[r]
  BY <1>0 DEF Owns
<1>2. /\ \A k \in K : c[k] \in 0 .. Len(p)
      /\ d \in [K -> 0 .. Len(p) + 1] /\ d[a] = Len(p) + 1
      /\ \A k \in K : k # a => d[k] = c[k]
  BY <1>0, <1>1 DEF Owns
<1>3. \A k, l \in K : k # l /\ d[k] # 0 => d[k] # d[l]
  <2> SUFFICES ASSUME NEW k \in K, NEW l \in K, k # l, d[k] # 0 PROVE d[k] # d[l]
    OBVIOUS
  <2>1. CASE k = a \/ l = a
    <3>1. \A m \in K : c[m] # Len(p) + 1
      BY <1>0, <1>1, <1>2
    <3> QED BY <1>0, <1>2, <2>1, <3>1
  <2>2. CASE k # a /\ l # a
    BY <1>0, <1>2, <2>2 DEF Owns
  <2> QED BY <1>0, <2>1, <2>2
<1>4. ASSUME NEW r \in 1 .. Len(q), q[r] # "dead" PROVE \E k \in K : d[k] = r
  <2>1. CASE r = Len(p) + 1
    BY <1>0, <1>2, <2>1
  <2>2. CASE r # Len(p) + 1
    <3>1. r \in 1 .. Len(p)
      BY <1>0, <1>1, <2>2
    <3>2. PICK k \in K : c[k] = r
      BY <1>0, <1>1, <1>4, <3>1 DEF Owns
    <3>3. r # 0
      BY <1>0, <3>1, <1>1
    <3>4. k # a
      BY <1>0, <1>1, <1>4, <3>1, <3>2, <3>3 DEF SlotOf
    <3> QED BY <1>0, <1>2, <3>2, <3>4
  <2> QED BY <1>0, <2>1, <2>2
<1>5. Owns(d, q, K)
  BY <1>0, <1>1, <1>2, <1>3, <1>4 DEF Owns
<1>6. ASSUME NEW k \in K PROVE SlotOf(d, q, k) = IF k = a THEN x ELSE SlotOf(c, p, k)
  <2>1. CASE k = a
    BY <1>0, <1>1, <1>2, <2>1 DEF SlotOf
  <2>2. CASE k # a
    <3>1. c[k] # 0 => c[k] \in 1 .. Len(p)
      BY <1>0, <1>1, <1>2
    <3> QED BY <1>0, <1>1, <1>2, <2>2, <3>1 DEF SlotOf
  <2> QED BY <1>0, <2>1, <2>2
<1>7. QED
  BY <1>0, <1>5, <1>6, Zenon

(* A resume uses the reference in a slot, and the slots have no other.     *)
LEMMA TableUse ==
  ASSUME NEW K, NEW c, NEW p, NEW a, NEW q, Uses(c, p, K, a, q)
  PROVE  /\ Owns(c, q, K) /\ Len(q) = Len(p)
         /\ \A k \in K : SlotOf(c, q, k) = IF k = a THEN "dead" ELSE SlotOf(c, p, k)
<1>9. Owns(c, p, K) /\ a \in K /\ c[a] # 0 /\ q = [p EXCEPT ![c[a]] = "dead"]
  BY DEF Uses
<1>0. Len(p) \in Nat /\ \A k \in K : c[k] \in 0 .. Len(p)
  BY <1>9 DEF Owns
<1>1. c[a] \in 1 .. Len(p)
  BY <1>9, <1>0
<1>2. /\ q \in Seq({"entry", "yield", "dead"}) /\ Len(q) = Len(p)
      /\ q[c[a]] = "dead" /\ \A r \in 1 .. Len(p) : r # c[a] => q[r] = p[r]
  BY <1>9, <1>1 DEF Owns
<1>3. Owns(c, q, K)
  BY <1>9, <1>1, <1>2 DEF Owns
<1>4. ASSUME NEW k \in K PROVE SlotOf(c, q, k) = IF k = a THEN "dead" ELSE SlotOf(c, p, k)
  <2>1. c[k] # 0 => c[k] \in 1 .. Len(p)
    BY <1>9, <1>0
  <2>2. k # a /\ c[k] # 0 => c[k] # c[a]
    BY <1>9 DEF Owns
  <2> QED BY <1>9, <1>1, <1>2, <2>1, <2>2 DEF SlotOf
<1>5. QED
  BY <1>9, <1>2, <1>3, <1>4, Zenon

(* A used reference is taken out of its slot.                              *)
LEMMA TableClear ==
  ASSUME NEW K, NEW c, NEW p, NEW a, NEW d, Clears(c, p, K, a, d)
  PROVE  /\ Owns(d, p, K)
         /\ \A k \in K : SlotOf(d, p, k) = IF k = a THEN "null" ELSE SlotOf(c, p, k)
<1>0. Owns(c, p, K) /\ a \in K /\ SlotOf(c, p, a) = "dead" /\ d = [c EXCEPT ![a] = 0]
  BY DEF Clears
<1>1. /\ d \in [K -> 0 .. Len(p)] /\ d[a] = 0 /\ \A k \in K : k # a => d[k] = c[k]
  BY <1>0 DEF Owns
<1>2. \A k, l \in K : k # l /\ d[k] # 0 => d[k] # d[l]
  BY <1>0, <1>1 DEF Owns
<1>3. ASSUME NEW r \in 1 .. Len(p), p[r] # "dead" PROVE \E k \in K : d[k] = r
  <2>1. PICK k \in K : c[k] = r
    BY <1>0, <1>3 DEF Owns
  <2>2. r # 0
    OBVIOUS
  <2>3. k # a
    BY <1>0, <1>3, <2>1, <2>2 DEF SlotOf
  <2> QED BY <1>0, <1>1, <2>1, <2>3
<1>4. Owns(d, p, K)
  BY <1>0, <1>1, <1>2, <1>3 DEF Owns
<1>5. \A k \in K : SlotOf(d, p, k) = IF k = a THEN "null" ELSE SlotOf(c, p, k)
  BY <1>0, <1>1 DEF SlotOf
<1>6. QED
  BY <1>0, <1>4, <1>5, Zenon

(* What the table holds for a worker at each stage.                        *)
SlotFor(s) == [none |-> "null", fresh |-> "entry", midway |-> "yield", done |-> "dead"][s]

(* Every slot holds what the stage of its worker says.                     *)
FxSlots == \A k \in Key : SlotOf(conts, point, k) = SlotFor(Stage(k))

(* The invariant of the WasmFX version.                                    *)
FxInv ==
  /\ DriverInv
  /\ Owns(conts, point, Key)
  /\ FxSlots

(* The workers in the middle of their work.                                *)
FxYielded == {k \in Key : conts[k] # 0 /\ point[conts[k]] = "yield"}

(* They are the workers whose slot holds a reference that has yielded.     *)
LEMMA YieldedSlots ==
  /\ FxYielded = {k \in Key : SlotOf(conts, point, k) = "yield"}
  /\ FxYielded' = {k \in Key' : SlotOf(conts', point', k) = "yield"}
  BY DEF FxYielded, SlotOf

(* A step that changes the slot of worker j and its stage alike.           *)
LEMMA SlotsFollow ==
  ASSUME FxSlots, Key' = Key, NEW stage, NEW slot, slot = SlotFor(stage),
         \A k \in Key : Stage(k)' = IF k = j THEN stage ELSE Stage(k),
         \A k \in Key : SlotOf(conts', point', k) = IF k = j THEN slot ELSE SlotOf(conts, point, k)
  PROVE  FxSlots'
<1>1. \A k \in Key : SlotOf(conts', point', k) = SlotFor(Stage(k)')
  BY DEF FxSlots
<1>2. QED
  BY <1>1 DEF FxSlots

(* What is shown of every step.                                            *)
FxStepGoal == FxInv' /\ FxWorkload!WorkloadNext

(* alloc_async_worker puts a new continuation into an empty slot.          *)
LEMMA FxAllocStep == FxInv /\ FxAlloc => FxStepGoal
<1> SUFFICES ASSUME FxInv, FxAlloc PROVE FxStepGoal
  OBVIOUS
<1>1. /\ DriverInv /\ Owns(conts, point, Key) /\ FxSlots /\ CallAlloc
      /\ point' = Append(point, "entry") /\ conts' = [conts EXCEPT ![j] = Len(point) + 1]
      /\ reply' = reply
  BY DEF FxInv, FxAlloc
<1>2. DriverInv' /\ Key' = Key
  BY <1>1, AllocCounts DEF CallAlloc, Key
<1>3. /\ j \in Key /\ Stage(j) = "none"
      /\ \A k \in Key : Stage(k)' = IF k = j THEN "fresh" ELSE Stage(k)
  BY <1>1, StageAlloc
<1>4. SlotOf(conts, point, j) = "null"
  BY <1>1, <1>3 DEF FxSlots, SlotFor
<1>5. /\ Owns(conts', point', Key)
      /\ \A k \in Key : SlotOf(conts', point', k)
                           = IF k = j THEN "entry" ELSE SlotOf(conts, point, k)
  <2>1. Stores(conts, point, Key, j, "entry", conts', point')
    BY <1>1, <1>3, <1>4 DEF Stores
  <2> QED BY <2>1, TableStore
<1>6. FxSlots'
  <2>1. "entry" = SlotFor("fresh")
    BY DEF SlotFor
  <2> QED BY <1>1, <1>2, <1>3, <1>5, <2>1, SlotsFollow, Zenon
<1>7. FxYielded' = FxYielded \ {j}
  BY <1>2, <1>3, <1>5, YieldedSlots
<1>8. FxWorkload!Alloc
  <2>1. FxWorkload!CallAlloc /\ FxWorkload!j = j
    BY <1>1 DEF CallAlloc, FxWorkload!CallAlloc, EndIteration,
           FxWorkload!EndIteration, AfterFill, FxWorkload!AfterFill, FxWorkload!j, j
  <2> QED BY <1>1, <1>7, <2>1, Zenon DEF FxWorkload!Alloc, FxYielded
<1>9. QED
  BY <1>2, <1>5, <1>6, <1>8 DEF FxStepGoal, FxInv, FxWorkload!WorkloadNext

(* The first resume suspends, and $on_yield stores the new reference.      *)
LEMMA FxStartStep == FxInv /\ FxStart => FxStepGoal
<1> SUFFICES ASSUME FxInv, FxStart PROVE FxStepGoal
  OBVIOUS
<1>1. /\ DriverInv /\ Owns(conts, point, Key) /\ FxSlots /\ CallStart
      /\ Resumable /\ (ResumeToYield \/ ResumeToEnd)
  BY DEF FxInv, FxStart, FxResume
<1>2. DriverInv' /\ Key' = Key
  BY <1>1, StartCounts DEF CallStart, Key
<1>3. /\ j \in Key /\ Stage(j) = "fresh"
      /\ \A k \in Key : Stage(k)' = IF k = j THEN "midway" ELSE Stage(k)
  BY <1>1, StageStart
<1>4. conts[j] # 0 /\ point[conts[j]] = "entry"
  <2>1. SlotOf(conts, point, j) = "entry"
    BY <1>1, <1>3 DEF FxSlots, SlotFor
  <2> QED BY <2>1 DEF SlotOf
<1>12. PICK p : p = [point EXCEPT ![conts[j]] = "dead"]
  BY Zenon
<1>5. /\ point' = Append(p, "yield") /\ conts' = [conts EXCEPT ![j] = Len(point) + 1]
      /\ reply' = Kb
  BY <1>1, <1>4, <1>12 DEF ResumeToYield, ResumeToEnd
<1>6. /\ Owns(conts, p, Key) /\ Len(p) = Len(point)
      /\ \A k \in Key : SlotOf(conts, p, k) = IF k = j THEN "dead" ELSE SlotOf(conts, point, k)
  <2>1. Uses(conts, point, Key, j, p)
    BY <1>1, <1>3, <1>4, <1>12 DEF Uses
  <2> QED BY <2>1, TableUse
<1>7. /\ Owns(conts', point', Key)
      /\ \A k \in Key : SlotOf(conts', point', k)
                           = IF k = j THEN "yield" ELSE SlotOf(conts, point, k)
  <2>1. /\ Owns(conts', point', Key)
        /\ \A k \in Key : SlotOf(conts', point', k)
                             = IF k = j THEN "yield" ELSE SlotOf(conts, p, k)
    <3>1. Stores(conts, p, Key, j, "yield", conts', point')
      BY <1>3, <1>5, <1>6 DEF Stores
    <3> QED BY <3>1, TableStore
  <2> QED BY <1>6, <2>1
<1>8. FxSlots'
  <2>1. "yield" = SlotFor("midway")
    BY DEF SlotFor
  <2> QED BY <1>1, <1>2, <1>3, <1>7, <2>1, SlotsFollow
<1>9. FxYielded' = FxYielded \cup {j}
  BY <1>2, <1>3, <1>7, YieldedSlots
<1>10. FxWorkload!Start
  <2>1. FxWorkload!CallStart /\ FxWorkload!j = j
    BY <1>1 DEF CallStart, FxWorkload!CallStart, FxWorkload!j, j
  <2> QED BY <1>5, <1>9, <2>1, Zenon DEF FxWorkload!Start, FxYielded
<1>11. QED
  BY <1>2, <1>7, <1>8, <1>10 DEF FxStepGoal, FxInv, FxWorkload!WorkloadNext

(* The second resume returns, and the slot keeps the used reference.       *)
LEMMA FxWorkStep == FxInv /\ FxWork => FxStepGoal
<1> SUFFICES ASSUME FxInv, FxWork PROVE FxStepGoal
  OBVIOUS
<1>1. /\ DriverInv /\ Owns(conts, point, Key) /\ FxSlots /\ CallWork(reply')
      /\ Resumable /\ (ResumeToYield \/ ResumeToEnd) /\ call = "work" /\ phase # "end"
  BY DEF FxInv, FxWork, FxResume, CallWork
<1>2. j \in Key /\ Stage(j) = "midway"
  <2>1. j \in Key
    BY <1>1, LoopIndexIsAKey
  <2>2. phase # "fill"
    BY <1>1 DEF DriverInv, Counted
  <2> QED BY <1>1, <2>1, <2>2 DEF Stage, StageAt
<1>3. SlotOf(conts, point, j) = "yield"
  BY <1>1, <1>2 DEF FxSlots, SlotFor
<1>4. conts[j] # 0 /\ point[conts[j]] = "yield"
  BY <1>3 DEF SlotOf
<1>5. point' = [point EXCEPT ![conts[j]] = "dead"] /\ conts' = conts /\ reply' = 1
  BY <1>1, <1>4 DEF ResumeToYield, ResumeToEnd
<1>6. /\ Owns(conts', point', Key)
      /\ \A k \in Key : SlotOf(conts', point', k)
                           = IF k = j THEN "dead" ELSE SlotOf(conts, point, k)
  <2>1. Uses(conts, point, Key, j, point')
    BY <1>1, <1>2, <1>4, <1>5 DEF Uses
  <2>2. /\ Owns(conts, point', Key)
        /\ \A k \in Key : SlotOf(conts, point', k)
                             = IF k = j THEN "dead" ELSE SlotOf(conts, point, k)
    BY <2>1, TableUse
  <2> QED BY <1>5, <2>2, Zenon
<1>7. CallWork(1)
  BY <1>1, <1>5
<1>8. DriverInv' /\ Key' = Key
  BY <1>1, <1>7, WorkCounts DEF CallWork, Key
<1>9. \A k \in Key : Stage(k)' = IF k = j THEN "done" ELSE Stage(k)
  BY <1>1, <1>7, StageWork
<1>10. FxSlots'
  <2>1. "dead" = SlotFor("done")
    BY DEF SlotFor
  <2> QED BY <1>1, <1>6, <1>8, <1>9, <2>1, SlotsFollow
<1>11. j \in FxYielded /\ FxYielded' = FxYielded \ {j}
  BY <1>2, <1>3, <1>6, <1>8, YieldedSlots
<1>12. FxWorkload!Work
  <2>1. FxWorkload!CallWork(1) /\ FxWorkload!j = j
    BY <1>7 DEF CallWork, FxWorkload!CallWork, FxWorkload!j, j
  <2> QED BY <1>5, <1>11, <2>1 DEF FxWorkload!Work, FxYielded
<1>13. QED
  BY <1>6, <1>8, <1>10, <1>12 DEF FxStepGoal, FxInv, FxWorkload!WorkloadNext

(* free_async_worker takes the used reference out.                         *)
LEMMA FxFreeStep == FxInv /\ FxFree => FxStepGoal
<1> SUFFICES ASSUME FxInv, FxFree PROVE FxStepGoal
  OBVIOUS
<1>1. /\ DriverInv /\ Owns(conts, point, Key) /\ FxSlots /\ CallFree
      /\ conts' = [conts EXCEPT ![j] = 0] /\ point' = point /\ reply' = reply
  BY DEF FxInv, FxFree
<1>2. DriverInv' /\ Key' = Key
  BY <1>1, FreeCounts DEF CallFree, Key
<1>3. /\ j \in Key /\ Stage(j) = "done"
      /\ \A k \in Key : Stage(k)' = IF k = j THEN "none" ELSE Stage(k)
  BY <1>1, StageFree
<1>4. SlotOf(conts, point, j) = "dead"
  BY <1>1, <1>3 DEF FxSlots, SlotFor
<1>5. /\ Owns(conts', point', Key)
      /\ \A k \in Key : SlotOf(conts', point', k)
                           = IF k = j THEN "null" ELSE SlotOf(conts, point, k)
  <2>1. Clears(conts, point, Key, j, conts')
    BY <1>1, <1>3, <1>4 DEF Clears
  <2>2. /\ Owns(conts', point, Key)
        /\ \A k \in Key : SlotOf(conts', point, k)
                             = IF k = j THEN "null" ELSE SlotOf(conts, point, k)
    BY <2>1, TableClear
  <2> QED BY <1>1, <2>2, Zenon
<1>6. FxSlots'
  <2>1. "null" = SlotFor("none")
    BY DEF SlotFor
  <2> QED BY <1>1, <1>2, <1>3, <1>5, <2>1, SlotsFollow, Zenon
<1>7. FxYielded' = FxYielded
  BY <1>2, <1>3, <1>4, <1>5, YieldedSlots
<1>8. FxWorkload!Free
  <2>1. FxWorkload!CallFree
    BY <1>1 DEF CallFree, FxWorkload!CallFree, EndIteration, FxWorkload!EndIteration
  <2> QED BY <1>1, <1>7, <2>1 DEF FxWorkload!Free, FxYielded
<1>9. QED
  BY <1>2, <1>5, <1>6, <1>8 DEF FxStepGoal, FxInv, FxWorkload!WorkloadNext

(* Every step of the program keeps the invariant and is an abstract step.  *)
LEMMA FxStep == FxInv /\ [FxNext]_fxVars
    => FxInv' /\ [FxWorkload!WorkloadNext]_(FxWorkload!workloadVars)
<1> SUFFICES ASSUME FxInv, [FxNext]_fxVars
    PROVE FxInv' /\ [FxWorkload!WorkloadNext]_(FxWorkload!workloadVars)
  OBVIOUS
<1>1. CASE FxNext
  BY <1>1, FxAllocStep, FxStartStep, FxWorkStep, FxFreeStep DEF FxNext, FxStepGoal
<1>2. CASE UNCHANGED fxVars
  <2>1. UNCHANGED driverVars /\ conts' = conts /\ point' = point /\ reply' = reply
    BY <1>2 DEF fxVars
  <2>2. Key' = Key /\ \A k : Stage(k)' = Stage(k)
    BY <2>1 DEF driverVars, Key, Stage, j
  <2>3. DriverInv => DriverInv'
    BY <2>1 DEF driverVars, DriverInv, DriverTypeOK, Counted
  <2>4. FxInv'
    BY <2>1, <2>2, <2>3 DEF FxInv, FxSlots
  <2>5. UNCHANGED FxWorkload!workloadVars
    BY <2>1, <2>2 DEF driverVars, FxWorkload!workloadVars, FxWorkload!driverVars
  <2> QED BY <2>4, <2>5
<1> QED BY <1>1, <1>2

(* The table is empty when async_wl starts.                                *)
LEMMA FxStarts == FxInit => FxInv /\ FxWorkload!WorkloadInit
<1> SUFFICES ASSUME FxInit PROVE FxInv /\ FxWorkload!WorkloadInit
  OBVIOUS
<1>1. /\ DriverInit /\ conts = [k \in Key |-> 0] /\ point = << >> /\ reply = 0
  BY DEF FxInit
<1>2. DriverInv
  BY <1>1, DriverStarts
<1>3. Owns(conts, point, Key)
  BY <1>1 DEF Owns
<1>4. FxSlots
  <2>1. phase = "fill" /\ i = 0
    BY <1>1 DEF DriverInit
  <2>2. \A k \in Key : ~ (k < 0)
    BY <1>2, SizesAreNumbers DEF Key, DriverInv
  <2>3. \A k \in Key : Stage(k) = "none"
    BY <2>1, <2>2 DEF Stage, StageAt
  <2> QED BY <1>1, <2>3 DEF FxSlots, SlotOf, SlotFor
<1>5. FxYielded = {}
  BY <1>1 DEF FxYielded
<1>6. FxWorkload!WorkloadInit
  BY <1>1, <1>5 DEF FxWorkload!WorkloadInit, DriverInit, FxWorkload!DriverInit, FxYielded
<1>7. QED
  BY <1>2, <1>3, <1>4, <1>6 DEF FxInv

-----------------------------------------------------------------------------
(* c10m_wasmfx.wast implements the abstract workload, for every size: each *)
(* resume answers as the coroutine would.                                  *)
THEOREM FxRefines == FxSpec => FxImplements
  BY FxStarts, FxStep, PTL DEF FxSpec, FxImplements, FxWorkload!WorkloadSafety

(* Its table of continuations holds each one that can be resumed exactly   *)
(* once, and ends empty, for every size.                                   *)
THEOREM FxTableOwns == FxSpec => []TableOwnsContinuations
<1>1. FxInv => TableOwnsContinuations
  <2> SUFFICES ASSUME FxInv PROVE TableOwnsContinuations
    OBVIOUS
  <2>1. ASSUME DriverEnd, NEW k \in Key PROVE conts[k] = 0
    <3>1. Stage(k) = "none"
      BY <2>1 DEF Stage, StageAt, DriverEnd
    <3>2. SlotOf(conts, point, k) = "null"
      BY <3>1 DEF FxInv, FxSlots, SlotFor
    <3>3. conts[k] # 0 => point[conts[k]] \in {"entry", "yield", "dead"}
      BY DEF FxInv, Owns
    <3> QED BY <3>2, <3>3 DEF SlotOf
  <2> QED BY <2>1 DEF FxInv, Owns, TableOwnsContinuations
<1> QED
  BY <1>1, FxStarts, FxStep, PTL DEF FxSpec

(* main of c10m_wasmfx.wast returns 0, for every size whose sum fits a     *)
(* uint32_t.                                                               *)
THEOREM FxVerifies == FxSpec => []VerifyPasses
<1>1. FxInv => VerifyPasses
  BY DEF FxInv, DriverInv, Counted, VerifyPasses, DriverEnd
<1> QED
  BY <1>1, FxStarts, FxStep, PTL DEF FxSpec
=============================================================================
