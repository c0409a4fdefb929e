---------------------------- MODULE WasmfxWorkers ---------------------------
(***************************************************************************)
(* c10m_wasmfx.wast: a worker is a continuation in the table conts.        *)
(* References are numbered in the order in which cont.new and suspend make *)
(* them; point says where a reference continues, "dead" once it is used.   *)
(***************************************************************************)
EXTENDS AsyncDriver, Sequences

VARIABLES
  conts,   \* the table: a reference, or 0 for null
  point,   \* of each reference: "entry", "yield" or "dead"
  reply    \* what the last resume_async_worker returned

fxVars == <<driverVars, conts, point, reply>>

FxInit ==
  /\ DriverInit
  /\ conts = [k \in Key |-> 0]
  /\ point = << >>
  /\ reply = 0

FxAlloc ==
  /\ CallAlloc
  /\ point' = Append(point, "entry")
  /\ conts' = [conts EXCEPT ![j] = Len(point) + 1]
  /\ UNCHANGED reply

(* A resume of null or of a used reference traps.                          *)
Resumable == conts[j] # 0 /\ point[conts[j]] # "dead"

(* Mutant: $on_yield drops the payload.                                    *)
ResumeToYieldNoPayload ==
  /\ point[conts[j]] = "entry"
  /\ point' = Append([point EXCEPT ![conts[j]] = "dead"], "yield")
  /\ conts' = [conts EXCEPT ![j] = Len(point) + 1]
  /\ reply' = 0

(* The worker suspends with its argument and $on_yield puts the new        *)
(* reference into the table.                                               *)
ResumeToYield ==
  /\ point[conts[j]] = "entry"
  /\ point' = Append([point EXCEPT ![conts[j]] = "dead"], "yield")
  /\ conts' = [conts EXCEPT ![j] = Len(point) + 1]
  /\ reply' = Kb

(* The worker returns 1; the table keeps the used reference.               *)
ResumeToEnd ==
  /\ point[conts[j]] = "yield"
  /\ point' = [point EXCEPT ![conts[j]] = "dead"]
  /\ reply' = 1
  /\ UNCHANGED conts

FxResume == Resumable /\ (ResumeToYield \/ ResumeToEnd)

FxStart == CallStart /\ FxResume

FxWork == call = "work" /\ FxResume /\ CallWork(reply')

FxFree ==
  /\ CallFree
  /\ conts' = [conts EXCEPT ![j] = 0]
  /\ UNCHANGED <<point, reply>>

FxNext == FxAlloc \/ FxStart \/ FxWork \/ FxFree

FxSpec == FxInit /\ [][FxNext]_fxVars /\ WF_fxVars(FxNext)

-----------------------------------------------------------------------------
(* The table owns the continuations: a reference that can still be resumed *)
(* is in exactly one slot, so that no suspended worker is lost and no slot *)
(* ages into a used reference while the loop still needs it.  After the    *)
(* last loop nothing is left, neither in the table nor outside it.         *)
TableOwnsContinuations ==
  /\ \A r \in 1 .. Len(point) :
       point[r] # "dead" => \E k \in Key : conts[k] = r
  /\ \A k, l \in Key : k # l /\ conts[k] # 0 => conts[k] # conts[l]
  /\ DriverEnd => \A k \in Key : conts[k] = 0

FxWorkload == INSTANCE AsyncWorkload
  WITH midway <- {k \in Key : conts[k] # 0 /\ point[conts[k]] = "yield"},
       answer <- reply

(* Continuations in a table implement the workload: each resume answers as *)
(* the coroutine would.                                                    *)
FxImplements == FxWorkload!WorkloadSafety
=============================================================================
