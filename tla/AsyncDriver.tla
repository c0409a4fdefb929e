----------------------------- MODULE AsyncDriver ----------------------------
(***************************************************************************)
(* async_wl of the c10m benchmark: the loops that allocate, resume and     *)
(* free the workers.  c10m.c, c10m_bespoke.c and c10m_wasmfx.wast have the *)
(* same loops over different workers, which the modules that extend this   *)
(* one supply.  call is the next call of the loop body:                    *)
(*   alloc   alloc_async_worker of the first or the second loop            *)
(*   start   the first resume_async_worker, whose answer is dropped        *)
(*   work    the second, whose answer is added to count                    *)
(*   free    free_async_worker                                             *)
(***************************************************************************)
EXTENDS Integers

CONSTANTS
  Sizes,   \* pairs of total_conn and active_conn
  Word,    \* 2^32, the modulus of uint32_t
  Kb       \* stack_kb

ASSUME DriverAssumption ==
  /\ Word \in Nat
  /\ Kb \in Nat /\ Kb < Word
  /\ Sizes \subseteq Nat \X Nat
  /\ \A s \in Sizes : s[2] > 0 /\ s[1] + s[2] < Word

VARIABLES
  total, active,   \* total_conn and active_conn
  phase,           \* the loop: "fill", "serve", "drain", then "end"
  i,               \* its index
  call,            \* see above
  count

driverVars == <<total, active, phase, i, call, count>>

Key == 0 .. active - 1

DriverInit ==
  /\ \E s \in Sizes : total = s[1] /\ active = s[2]
  /\ phase = "fill"
  /\ i = 0
  /\ call = "alloc"
  /\ count = 0

(* The worker the loop is at.                                              *)
j == IF phase = "serve" THEN i % active ELSE i

(* The end of an iteration of the loop, which has n of them.               *)
EndIteration(n, next, first) ==
  IF i + 1 < n
    THEN i' = i + 1 /\ call' = first /\ UNCHANGED phase
    ELSE i' = 0 /\ phase' = next /\ call' = "start"

AfterFill == IF total = 0 THEN "drain" ELSE "serve"

CallAlloc ==
  /\ phase # "end" /\ call = "alloc"
  /\ IF phase = "fill" THEN EndIteration(active, AfterFill, "alloc")
                       ELSE EndIteration(total, "drain", "start")
  /\ UNCHANGED <<total, active, count>>

CallStart ==
  /\ phase # "end" /\ call = "start"
  /\ call' = "work"
  /\ UNCHANGED <<total, active, phase, i, count>>

(* Mutant: = for +=.                                                       *)
CallWorkAssigns(answer) ==
  /\ phase # "end" /\ call = "work"
  /\ count' = answer
  /\ call' = "free"
  /\ UNCHANGED <<total, active, phase, i>>

CallWork(answer) ==
  /\ phase # "end" /\ call = "work"
  /\ count' = (count + answer) % Word
  /\ call' = "free"
  /\ UNCHANGED <<total, active, phase, i>>

CallFree ==
  /\ phase # "end" /\ call = "free"
  /\ IF phase = "serve"
       THEN call' = "alloc" /\ UNCHANGED <<phase, i>>
       ELSE EndIteration(active, "end", "start")
  /\ UNCHANGED <<total, active, count>>

DriverEnd == phase = "end"

DriverTypeOK ==
  /\ <<total, active>> \in Sizes
  /\ phase \in {"fill", "serve", "drain", "end"}
  /\ i \in Nat
  /\ call \in {"alloc", "start", "work", "free"}
  /\ count \in 0 .. Word - 1

(* The loop invariant of async_wl: how far count is at each call.          *)
Counted ==
  /\ phase = "fill" => call = "alloc" /\ i < active /\ count = 0
  /\ phase = "serve" =>
       /\ i < total
       /\ count = i + (IF call \in {"free", "alloc"} THEN 1 ELSE 0)
  /\ phase = "drain" =>
       /\ i < active /\ call # "alloc"
       /\ count = total + i + (IF call = "free" THEN 1 ELSE 0)
  /\ phase = "end" => count = total + active

(* main returns verify(async_wl(), reference): the count is total_conn +   *)
(* active_conn, one for each worker that was allocated, and does not wrap. *)
VerifyPasses == DriverEnd => count = total + active
=============================================================================
