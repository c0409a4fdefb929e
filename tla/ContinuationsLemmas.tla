----------------------- MODULE ContinuationsLemmas --------------------------
(***************************************************************************)
(* The theorems about Fibre, for any set of fibers and yield values, and   *)
(* the first lemmas about Continuations: what its operators return, that   *)
(* every step of it is a step of Fibre, what the inductive invariant says  *)
(* of the stack that runs, and the preservation of the type invariant, of  *)
(* the linearity of references and of what a resume in progress knows of   *)
(* its object.                                                             *)
(***************************************************************************)
EXTENDS Continuations, TLAPS

(* Fibre.                                                                  *)

(* The initial state, where only the native stack exists, satisfies the    *)
(* inductive invariant.                                                    *)
LEMMA FibreInitInv == FibreInit => FibreInv
<1> SUFFICES ASSUME FibreInit PROVE FibreInv
  OBVIOUS
<1> USE FibreAssumption DEF FibreInit, Stack
<1>1. FibreTypeOK
  BY DEF FibreTypeOK, Points, RunResult
<1>2. /\ cpu = Main
      /\ at[Main] = "run"
      /\ \A f \in Fiber : at[f] = "free"
  OBVIOUS
<1>3. QED
  BY <1>1, <1>2, Zenon DEF FibreInv, Entered

(* Every step of the crate preserves the inductive invariant.              *)
LEMMA FibreStepInv == FibreInv /\ [FibreNext]_fvars => FibreInv'
<1> SUFFICES ASSUME FibreInv, [FibreNext]_fvars PROVE FibreInv'
  OBVIOUS
<1> USE FibreAssumption DEF Stack, Points, RunResult
<1>1. ASSUME NEW f \in Fiber, FiberNew(f) PROVE FibreInv'
  BY <1>1, SMTT(30) DEF FibreInv, FibreTypeOK, FiberNew, Entered
<1>2. ASSUME NEW f \in Fiber, NEW p \in Fiber \cup {Null}, FiberResume(f, p) PROVE FibreInv'
  BY <1>2 DEF FibreInv, FibreTypeOK, FiberResume, Switch, Entered
<1>3. ASSUME NEW f \in Fiber, FiberStart(f) PROVE FibreInv'
  BY <1>3, SMTT(30) DEF FibreInv, FibreTypeOK, FiberStart, TakeResume, Entered
<1>4. ASSUME NEW f \in Fiber, NEW y \in Yields, FiberSuspend(f, y) PROVE FibreInv'
  BY <1>4, SMTT(30) DEF FibreInv, FibreTypeOK, FiberSuspend, SwitchOut, Switch, Entered
<1>5. ASSUME NEW f \in Fiber, FiberFinish(f) PROVE FibreInv'
  BY <1>5 DEF FibreInv, FibreTypeOK, FiberFinish, SwitchOut, Switch, Entered
<1>6. ASSUME NEW f \in Fiber, FiberWoken(f) PROVE FibreInv'
  BY <1>6 DEF FibreInv, FibreTypeOK, FiberWoken, TakeResume, Entered
<1>7. ASSUME NEW f \in Fiber, FiberDrop(f) PROVE FibreInv'
  BY <1>7, SMTT(30) DEF FibreInv, FibreTypeOK, FiberDrop, Entered
<1>8. ASSUME NEW s \in Stack, FiberLanded(s) PROVE FibreInv'
  BY <1>8, SMTT(30) DEF FibreInv, FibreTypeOK, FiberLanded, Entered
<1>9. ASSUME FiberDiscard PROVE FibreInv'
  BY <1>9 DEF FibreInv, FibreTypeOK, FiberDiscard, Entered
<1>10. CASE UNCHANGED fvars
  BY <1>10 DEF FibreInv, FibreTypeOK, fvars, Entered
<1>11. QED
  BY <1>1, <1>2, <1>3, <1>4, <1>5, <1>6, <1>7, <1>8, <1>9, <1>10 DEF FibreNext, FibreStep

(* FibreInv is an invariant of the crate.                                  *)
THEOREM FibreInvariant == FibreSpec => []FibreInv
<1>1. QED
  BY FibreInitInv, FibreStepInv, PTL DEF FibreSpec

(* The variables keep their types: in particular the cpu's stack pointer   *)
(* always points into an allocated stack, never to a word of Junk.         *)
THEOREM FibreTypeCorrect == FibreSpec => []FibreTypeOK
<1>1. FibreInv => FibreTypeOK
  BY DEF FibreInv
<1>2. QED
  BY <1>1, FibreInvariant, PTL

(***************************************************************************)
(* wasmtime_fibre_switch conserves contexts.  A live stack that is not on  *)
(* the cpu is held by the fiber it is resuming if it is inside             *)
(* Fiber::resume and by itself otherwise.                                  *)
(***************************************************************************)
THEOREM SwitchConservesContexts == FibreSpec => []ContextsConserved
<1>1. ASSUME FibreInv PROVE ContextsConserved
  <2> USE FibreAssumption, <1>1 DEF FibreInv, FibreTypeOK, Stack, Points, Alive, Entered
  <2> SUFFICES ASSUME NEW s \in Stack, Alive(s)
               PROVE  /\ cpu = s => \A f \in Fiber : Alive(f) => saved[f] # s
                      /\ cpu # s => \E f \in Fiber :
                           /\ Alive(f) /\ saved[f] = s
                           /\ \A g \in Fiber : Alive(g) /\ saved[g] = s => g = f
    BY DEF ContextsConserved
  <2>1. ASSUME NEW g \in Fiber, Alive(g), saved[g] = s
        PROVE  /\ cpu # s
               /\ at[s] = "resume" => g = callee[s]
               /\ at[s] # "resume" => g = s
    BY <2>1
  <2>2. ASSUME cpu # s
        PROVE  /\ at[s] = "resume" => callee[s] \in Fiber /\ Alive(callee[s]) /\ saved[callee[s]] = s
               /\ at[s] # "resume" => s \in Fiber /\ saved[s] = s
    BY <2>2
  <2>3. QED
    BY <2>1, <2>2, SMTT(30)
<1>2. QED
  BY <1>1, FibreInvariant, PTL

(* take_resume and the unreachable!() of Fiber::resume never panic.        *)
THEOREM HandshakeHolds == FibreSpec => []CellProtocol
<1>1. ASSUME FibreInv PROVE CellProtocol
  BY <1>1, FibreAssumption DEF FibreInv, FibreTypeOK, CellProtocol, Stack, Points, Entered
<1>2. QED
  BY <1>1, FibreInvariant, PTL

(* The assertion of Fiber::resume lets through parked fibers only.         *)
THEOREM DoneIsExact == FibreSpec => []DoneGuards
<1>1. ASSUME FibreInv PROVE DoneGuards
  BY <1>1 DEF FibreInv, DoneGuards
<1>2. QED
  BY <1>1, FibreInvariant, PTL

(* A fiber that suspends or finishes hands the cpu to its resumer.         *)
THEOREM SuspendReturnsToResumer == FibreSpec => ReturnsToResumer
<1> DEFINE A == (cpu \in Fiber /\ at[cpu] = "run" /\ at'[cpu] \in {"suspend", "finished"})
                  => (at[cpu'] = "resume" /\ callee[cpu'] = cpu)
<1>1. ASSUME FibreInv, [FibreNext]_fvars PROVE [A]_fvars
  <2> SUFFICES ASSUME cpu \in Fiber, at[cpu] = "run", at'[cpu] \in {"suspend", "finished"},
                      FibreNext
               PROVE  at[cpu'] = "resume" /\ callee[cpu'] = cpu
    BY <1>1
  <2> USE <1>1, FibreAssumption DEF FibreInv, FibreTypeOK, Stack, Points, Entered
  <2>1. \E f \in Fiber : (\E y \in Yields : FiberSuspend(f, y)) \/ FiberFinish(f)
    <3>1. \A f \in Fiber : ~FiberNew(f)
      BY SMTT(30) DEF FiberNew
    <3>2. \A f \in Fiber, p \in Fiber \cup {Null} : ~FiberResume(f, p)
      BY SMTT(30) DEF FiberResume
    <3>3. \A f \in Fiber : ~FiberStart(f) /\ ~FiberWoken(f)
      BY DEF FiberStart, FiberWoken
    <3>4. \A f \in Fiber : ~FiberDrop(f)
      BY DEF FiberDrop
    <3>5. \A s \in Stack : ~FiberLanded(s)
      BY DEF FiberLanded
    <3>6. ~FiberDiscard
      BY DEF FiberDiscard
    <3> QED BY <3>1, <3>2, <3>3, <3>4, <3>5, <3>6, Zenon DEF FibreNext, FibreStep
  <2>2. QED
    BY <2>1 DEF FiberSuspend, FiberFinish, SwitchOut, Switch
<1>2. QED
  BY <1>1, FibreInvariant, PTL DEF FibreSpec, ReturnsToResumer

-----------------------------------------------------------------------------
(* Continuations: operators and types.                                     *)

(* An operand list of n values is a sequence of length n.                  *)
LEMMA OperandLists ==
  ASSUME NEW n \in Nat, NEW vs \in Vals(n)
  PROVE  vs \in Seq(Val) /\ Len(vs) = n /\ (vs = <<>> <=> n = 0)
  BY DEF Vals

(* Payloads::new makes an empty buffer of the given capacity.              *)
LEMMA NewPayloadsIsEmpty ==
  ASSUME NEW n \in Nat
  PROVE  /\ NewPayloads(n) \in Payloads
         /\ NewPayloads(n).capacity = n
         /\ NewPayloads(n).data = <<>>
         /\ Len(NewPayloads(n).data) = 0
  BY DEF NewPayloads, Payloads

(* Payloads::occupy_next appends and leaves the capacity alone.            *)
LEMMA OccupyNextAppends ==
  ASSUME NEW p \in Payloads, NEW vs \in Seq(Val)
  PROVE  /\ OccupyNext(p, vs) \in Payloads
         /\ OccupyNext(p, vs).capacity = p.capacity
         /\ Len(OccupyNext(p, vs).data) = Len(p.data) + Len(vs)
<1>1. p.data \o vs \in Seq(Val) /\ Len(p.data \o vs) = Len(p.data) + Len(vs)
  BY DEF Payloads
<1>2. QED
  BY <1>1, Zenon DEF OccupyNext, Payloads

(* Every step of the runtime is a step of the fibre crate or leaves the    *)
(* fibers alone.                                                           *)
LEMMA StepIsFibreStep == ContInv /\ [Next]_vars => [FibreNext]_fvars
<1> SUFFICES ASSUME ContInv, [Next]_vars PROVE [FibreNext]_fvars
  OBVIOUS
<1> USE DEF Obj, Tag
<1>1. tsp \in Fiber \cup {Null} /\ cpu \in Stack
  BY Zenon DEF ContInv, TypeOK, FibreTypeOK
<1>2. CASE Instruction
  <2>1. ASSUME NEW t \in Tag, NEW vs, Suspend(t, vs) PROVE FibreNext
    <3>1. cpu \in Fiber
      BY <1>1, <2>1, FibreAssumption DEF Suspend, Stack
    <3>2. QED
      BY <2>1, <3>1 DEF Suspend, FibreNext, FibreStep
  <2>2. ASSUME NEW r \in Ref, NEW vs, NEW H, Resume(r, vs, H) PROVE FibreNext
    BY <1>1, <2>2 DEF Resume, FibreNext, FibreStep
  <2>3. QED
    BY <1>2, <2>1, <2>2, Zenon DEF Instruction, ContNew, ContBind, StraySuspend, Halt, Return,
       ConsumedTrap, Trap, Unwind, NullContRef, BacktraceLost, Forget, FibreNext, FibreStep
<1>3. CASE RuntimeStep
  <2>1. ASSUME NEW s \in Stack, Collect(s) PROVE FibreNext
    <3>1. contobj[s] \in Fiber
      BY <2>1, FibreAssumption DEF Collect, ContInv, ResumeInv
    <3>2. QED
      BY <2>1, <3>1, SMTT(30) DEF Collect, FibreNext, FibreStep
  <2>2. QED
    BY <1>3, <2>1 DEF RuntimeStep, Begin, Woken, LandYield, LandReturn, ForwardTrap, Unwind, Handle,
       FibreNext, FibreStep
<1>4. CASE Stopped \/ UNCHANGED vars
  BY <1>4 DEF Stopped, vars
<1>5. QED
  BY <1>2, <1>3, <1>4 DEF Next
(* The initial state satisfies the invariant.                              *)
LEMMA ContInitInv == Init => ContInv
<1> SUFFICES ASSUME Init PROVE ContInv
  OBVIOUS
<1>1. FibreInv
  BY FibreInitInv, SMTT(30) DEF Init
<1>2. TypeOK
  BY <1>1, FibreAssumption, ContAssumption, NewPayloadsIsEmpty
     DEF Init, TypeOK, FibreInv, Stack, Obj, Tag
<1>3. Linear /\ ResumeInv /\ EnteredInv /\ RoomInv
  BY FibreAssumption, ContAssumption, Zenon
     DEF Init, FibreInit, Linear, ResumeInv, EnteredInv, RoomInv, Entered, Stack, Obj, Tag
<1>4. QED
  BY <1>1, <1>2, <1>3 DEF ContInv

(* The running fiber's resumer is waiting for it, with its result cell.    *)
LEMMA RunningFiber ==
  ASSUME FibreInv, cpu \in Fiber
  PROVE  LET s == saved[cpu] IN
         /\ s \in Stack /\ s # cpu
         /\ at[s] = "resume"
         /\ callee[s] = cpu
         /\ link[cpu] = s
  BY DEF FibreInv, FibreTypeOK, Entered, Stack

(* A resumer that regains control finds its fiber suspended or finished.   *)
LEMMA LandingStack ==
  ASSUME FibreInv, at[cpu] = "resume"
  PROVE  LET f == callee[cpu] IN
         /\ f \in Fiber /\ f # cpu
         /\ \/ at[f] = "suspend" /\ cell[cpu] \in Yields
            \/ at[f] = "finished" /\ cell[cpu] = "Returned"
  BY SMTT(30) DEF FibreInv, FibreTypeOK

(* A parked fiber holds its own context, and no stack but the one about to *)
(* leave Fiber::resume has it as callee.                                   *)
LEMMA ParkedFiber ==
  ASSUME FibreInv, ResumeInv, NEW o \in Fiber, at[o] \in {"fresh", "suspend"}, o # cpu
  PROVE  saved[o] = o /\ ~Entered(o) /\ \A s \in Stack : callee[s] = o => s = cpu
  BY FibreAssumption DEF FibreInv, FibreTypeOK, ResumeInv, Entered

(* Only allocated fibers are being resumed.                                *)
LEMMA CalleeAllocated ==
  ASSUME FibreInv, ResumeInv, NEW s \in Stack, callee[s] # Null
  PROVE  at[callee[s]] # "free"
  BY DEF FibreInv, FibreTypeOK, ResumeInv, Entered

(* Every step preserves the types.                                         *)
LEMMA TypeStep == ContInv /\ [Next]_vars => TypeOK'
<1> SUFFICES ASSUME ContInv, [Next]_vars PROVE TypeOK'
  OBVIOUS
<1>1. TypeOK /\ FibreInv
  BY DEF ContInv
<1>2. FibreTypeOK'
  BY <1>1, FibreStepInv, StepIsFibreStep, Zenon DEF FibreInv
<1>3. cpu \in Stack /\ parent \in [Obj -> Obj \cup {Null, Junk}]
  BY <1>1, ZenonT(30) DEF TypeOK, FibreTypeOK, Obj
<1>4. <<>> \in Seq(Val) /\ \A o \in Obj : args[o] \in Payloads /\ args[o].data \in Seq(Val)
  <2>1. <<>> \in Seq(Val)
    OBVIOUS
  <2>2. QED
    BY <1>1, <2>1, Zenon DEF TypeOK, Payloads
<1>5. ASSUME NEW r \in Ref, NEW o \in Obj, NEW ft \in FuncTypes, ContNew(r, o, ft) PROVE TypeOK'
  <2>1. Capacity(ft) \in Nat /\ ft.params \in Nat /\ ft.results \in Nat
    BY ContAssumption DEF Capacity
  <2>2. QED
    BY <1>1, <1>2, <1>5, <2>1, NewPayloadsIsEmpty, Zenon DEF TypeOK, ContNew
<1>6. ASSUME NEW o \in Obj, NEW n \in Nat, NEW vs \in Vals(n), NEW m \in Nat,
             StoreResumeArgs(o, vs, m)
      PROVE  args' \in [Obj -> Payloads] /\ trv' \in [Obj -> Payloads \cup {Null}]
  <2>1. vs \in Seq(Val)
    BY OperandLists
  <2>2. OccupyNext(args[o], vs) \in Payloads
    BY <1>4, <2>1, OccupyNextAppends
  <2>3. TagReturns(o, m) \in Payloads
    BY <1>1, NewPayloadsIsEmpty, Zenon DEF TypeOK, TagReturns
  <2>4. OccupyNext(TagReturns(o, m), vs) \in Payloads
    BY <2>1, <2>3, OccupyNextAppends
  <2>5. QED
    BY <1>1, <1>6, <2>2, <2>4, Zenon DEF TypeOK, StoreResumeArgs
<1>7. ASSUME NEW r \in Ref, NEW r2 \in Ref, NEW n \in 0..arity[r], NEW vs \in Vals(n),
             ContBind(r, r2, vs)
      PROVE  TypeOK'
  <2>1. n \in Nat /\ arity[r] \in Nat /\ arity[r] - Len(vs) \in Nat
    <3>1. arity[r] \in Nat
      BY <1>1, Zenon DEF TypeOK
    <3>2. n \in Nat
      BY <3>1
    <3>3. Len(vs) = n
      BY <3>2, OperandLists
    <3>4. QED
      BY <3>1, <3>3
  <2>2. args' \in [Obj -> Payloads] /\ trv' \in [Obj -> Payloads \cup {Null}]
    BY <1>6, <1>7, <2>1 DEF ContBind
  <2>3. QED
    BY <1>1, <1>2, <1>7, <2>1, <2>2, Zenon DEF TypeOK, ContBind
<1>8. ASSUME NEW r \in Ref, NEW H \in SUBSET Tag, NEW vs \in Vals(arity[r]), Resume(r, vs, H)
      PROVE  TypeOK'
  <2>1. arity[r] \in Nat /\ Len(vs) \in Nat
    <3>1. arity[r] \in Nat
      BY <1>1, Zenon DEF TypeOK
    <3>2. QED
      BY <3>1, OperandLists
  <2>2. args' \in [Obj -> Payloads] /\ trv' \in [Obj -> Payloads \cup {Null}]
    BY <1>6, <1>8, <2>1 DEF Resume
  <2>3. QED
    BY <1>1, <1>2, <1>3, <1>4, <1>8, <2>2, Zenon DEF TypeOK, Resume
<1>9. ASSUME NEW t \in Tag, NEW vs \in Vals(TagParams[t]), Suspend(t, vs) PROVE TypeOK'
  <2>1. vs \in Seq(Val)
    BY ContAssumption, OperandLists
  <2>2. parent[cpu] \in Obj \cup {Null}
    <3>1. cpu \in Obj
      BY <1>1, <1>3, <1>9, FibreAssumption, Zenon DEF Suspend, TypeOK, Stack, Obj
    <3>2. QED
      BY <3>1 DEF ContInv, EnteredInv, Entered
  <2>3. QED
    BY <1>1, <1>2, <1>3, <1>4, <1>9, <2>1, <2>2, Zenon DEF TypeOK, Suspend
<1>10. ASSUME StraySuspend PROVE TypeOK'
  BY <1>1, <1>2, <1>10, Zenon DEF TypeOK, StraySuspend, StrayOutcome, Halt
<1>11. ASSUME NEW o \in Obj, NEW vs \in Vals(results[o]), Return(o, vs) PROVE TypeOK'
  <2>1. vs \in Seq(Val)
    BY <1>1, OperandLists, Zenon DEF TypeOK
  <2>2. args' \in [Obj -> Payloads]
    BY <1>1, <1>11, <2>1, ZenonT(30) DEF TypeOK, Return, Payloads
  <2>3. QED
    BY <1>1, <1>2, <1>4, <1>11, <2>2, Zenon DEF TypeOK, Return
<1>12. ASSUME Unwind PROVE TypeOK'
  BY <1>1, <1>2, <1>4, <1>12, Zenon DEF TypeOK, Unwind, Stack
<1>13. ASSUME NullContRef \/ BacktraceLost PROVE TypeOK'
  BY <1>1, <1>2, <1>13, ZenonT(30) DEF TypeOK, NullContRef, BacktraceLost, Halt
<1>14. ASSUME NEW r \in Ref, Forget(r) PROVE TypeOK'
  BY <1>1, <1>2, <1>14 DEF TypeOK, Forget
<1>15. ASSUME NEW o \in Obj, Begin(o) PROVE TypeOK'
  <2>1. args' \in [Obj -> Payloads]
    BY <1>1, <1>4, <1>15, Zenon DEF TypeOK, Begin, Payloads
  <2>2. QED
    BY <1>1, <1>2, <1>4, <1>15, <2>1, SMTT(30) DEF TypeOK, Begin, Stack, Obj
<1>16. ASSUME NEW o \in Obj, Woken(o) PROVE TypeOK'
  <2>1. TagResults[tag[o]] # 0 => trv[contStore] \in Payloads /\ trv[contStore].data \in Seq(Val)
    <3>1. at[cpu] = "suspend" /\ cpu = o
      BY <1>16, Zenon DEF Woken, FiberWoken
    <3>2. contStore = o /\ (TagResults[tag[o]] # 0 => trv[o] # Null)
      BY <3>1, <1>1 DEF ContInv, EnteredInv
    <3>3. trv[o] \in Payloads \cup {Null}
      BY <1>1, Zenon DEF TypeOK
    <3>4. QED
      BY <3>2, <3>3 DEF Payloads
  <2>2. QED
    BY <1>1, <1>2, <1>4, <1>16, <2>1, ZenonT(30) DEF TypeOK, Woken, Obj, Stack
<1>17. ASSUME NEW s \in Stack, LandYield(s) \/ LandReturn(s) PROVE TypeOK'
  <2>1. cpu = s /\ at[cpu] = "resume" /\ callee[s] \in Obj
    BY <1>1, <1>17, LandingStack, SMTT(30) DEF LandYield, LandReturn, FiberLanded, Obj
  <2>2. QED
    BY <1>1, <1>2, <1>17, <2>1, ZenonT(30) DEF TypeOK, LandYield, LandReturn
<1>18. ASSUME NEW s \in Stack, Collect(s) PROVE TypeOK'
  <2>1. contobj[s] \in Obj
    BY <1>18, FibreAssumption DEF Collect, ContInv, ResumeInv
  <2>2. QED
    BY <1>1, <1>2, <1>4, <1>18, <2>1, NewPayloadsIsEmpty, SMTT(30) DEF TypeOK, Collect
<1>19. ASSUME NEW s \in Stack, NEW r \in Ref, Handle(s, r) PROVE TypeOK'
  <2>1. signal[s] \in Tag /\ TagResults[signal[s]] \in Nat /\ TagParams[signal[s]] \in Nat
    BY <1>1, <1>19, ContAssumption, SMTT(30) DEF TypeOK, Handle
  <2>2. TagParams[signal[s]] # 0 => payloads \in Seq(Val)
    BY <1>19, <2>1, OperandLists, SMTT(30) DEF ContInv, ResumeInv, Yielded, Handle
  <2>3. contStore \in Obj
    BY <1>19, <2>1, FibreAssumption DEF ContInv, ResumeInv, Handle, Tag
  <2>4. QED
    BY <1>1, <1>2, <1>4, <1>19, <2>1, <2>2, <2>3, ZenonT(30) DEF TypeOK, Handle
<1>20. CASE UNCHANGED vars
  BY <1>1, <1>2, <1>20, Zenon DEF TypeOK, vars, cvars
<1>21. QED
  BY <1>5, <1>7, <1>8, <1>9, <1>10, <1>11, <1>12, <1>13, <1>14, <1>15, <1>16, <1>17, <1>18, <1>19,
     <1>20, Zenon DEF Next, Instruction, RuntimeStep, Stopped, ForwardTrap, ConsumedTrap, Trap

(* The types of the variables that steer control.                          *)
ControlTypes ==
  /\ ref \in [Ref -> Obj \cup {Null, Unused}]
  /\ signal \in [Stack -> Tag \cup {Null, "Returned"}]
  /\ contobj \in [Stack -> Obj \cup {Null}]
  /\ handlers \in [Stack -> SUBSET Tag]
  /\ tag \in [Stack -> Tag \cup {Null}]
  /\ state \in [Obj -> {"Allocated", "Invoked", "Returned", "Freed"}]
  /\ tsp \in Obj \cup {Null}
  /\ cpu \in Stack
  /\ at \in [Stack -> Points]
  /\ callee \in [Stack -> Fiber \cup {Null}]
  /\ saved \in [Fiber -> Stack \cup {Junk}]
  /\ cell \in [Stack -> RunResult]
  /\ done \in [Fiber -> BOOLEAN]

-----------------------------------------------------------------------------
(* Continuations: linearity.                                               *)

(* Reference q keeps its continuation, which stays parked, off the cpu and *)
(* neither being resumed nor held by a resume in progress.                 *)
StillParked(q) ==
  /\ ref'[q] = ref[q]
  /\ at'[ref[q]] \in {"fresh", "suspend"}
  /\ cpu' # ref[q]
  /\ \A s \in Stack : callee'[s] # ref[q] /\ (signal'[s] # Null => contobj'[s] # ref[q])

(* Linearity survives a step that makes no new reference and leaves every  *)
(* continuation still referenced parked.                                   *)
LEMMA LinearKept ==
  ASSUME Linear, \A q \in Ref : ref'[q] \in Obj => StillParked(q)
  PROVE  Linear'
<1> SUFFICES ASSUME NEW q \in Ref, ref'[q] \in Obj
             PROVE  /\ at'[ref'[q]] \in {"fresh", "suspend"}
                    /\ cpu' # ref'[q]
                    /\ \A s \in Stack : callee'[s] # ref'[q] /\ (signal'[s] # Null => contobj'[s] # ref'[q])
                    /\ \A r2 \in Ref : ref'[r2] = ref'[q] => r2 = q
  BY DEF Linear
<1>1. StillParked(q)
  OBVIOUS
<1>2. ASSUME NEW r2 \in Ref, ref'[r2] = ref'[q] PROVE r2 = q
  BY <1>1, <1>2, SMTT(30) DEF Linear, StillParked
<1>3. QED
  BY <1>1, <1>2 DEF StillParked

(* A referenced continuation is parked.                                    *)
LEMMA ReferencedParked ==
  ASSUME Linear, NEW q \in Ref, ref[q] \in Obj
  PROVE  /\ at[ref[q]] \in {"fresh", "suspend"}
         /\ cpu # ref[q]
         /\ \A s \in Stack : callee[s] # ref[q] /\ (signal[s] # Null => contobj[s] # ref[q])
         /\ \A r2 \in Ref : ref[r2] = ref[q] => r2 = q
  BY DEF Linear

(* Every step preserves linearity.                                         *)
LEMMA LinearStep == ContInv /\ [Next]_vars => Linear'
<1> SUFFICES ASSUME ContInv, [Next]_vars PROVE Linear'
  OBVIOUS
<1>1. TypeOK /\ FibreInv /\ Linear /\ ResumeInv
  BY DEF ContInv
<1>2. ControlTypes
  BY <1>1, Zenon DEF TypeOK, FibreTypeOK, ControlTypes
<1>3. Ready => \A s \in Stack : signal[s] = Null
  BY <1>1 DEF ResumeInv, Ready
<1>0. /\ Obj = Fiber /\ Obj \subseteq Stack /\ Main \notin Obj /\ Null \notin Stack
      /\ Unused \notin Obj /\ Null \notin Obj
  BY ContAssumption, FibreAssumption DEF Obj, Stack
<1>a. cpu \in Stack /\ at \in [Stack -> Points] /\ callee \in [Stack -> Fiber \cup {Null}]
  BY <1>2, Zenon DEF ControlTypes
<1>b. ref \in [Ref -> Obj \cup {Null, Unused}]
  BY <1>2, Zenon DEF ControlTypes
<1>c. DOMAIN signal = Stack /\ DOMAIN contobj = Stack
  BY <1>2 DEF ControlTypes
<1>4. ASSUME NEW r \in Ref, NEW o \in Obj, NEW ft \in FuncTypes, ContNew(r, o, ft) PROVE Linear'
  <2>1. at[o] = "free" /\ cpu # o /\ \A s \in Stack : callee[s] # o
    BY <1>0, <1>1, <1>4, CalleeAllocated DEF ContNew, FiberNew
  <2>2. /\ ref' = [ref EXCEPT ![r] = o] /\ at' = [at EXCEPT ![o] = "fresh"]
        /\ cpu' = cpu /\ callee' = callee
        /\ signal' = signal /\ \A s \in Stack : signal[s] = Null
    BY <1>3, <1>4 DEF ContNew, FiberNew
  <2>3. ref'[r] = o /\ \A q \in Ref : q # r => ref'[q] = ref[q]
    BY <1>b, <2>2
  <2>4. \A q \in Ref : ref[q] \in Obj => ref[q] # o
    BY <1>1, <2>1, ReferencedParked
  <2>5. at'[o] = "fresh" /\ \A x \in Stack : x # o => at'[x] = at[x]
    BY <1>0, <1>a, <2>2
  <2>6. ASSUME NEW q \in Ref, ref'[q] \in Obj
        PROVE  /\ at'[ref'[q]] \in {"fresh", "suspend"} /\ cpu' # ref'[q]
               /\ \A s \in Stack : callee'[s] # ref'[q] /\ signal'[s] = Null
               /\ \A r2 \in Ref : ref'[r2] = ref'[q] => r2 = q
    <3>1. CASE q = r
      BY <2>1, <2>2, <2>3, <2>4, <2>5, <3>1, SMTT(30)
    <3>2. CASE q # r
      BY <1>0, <1>1, <2>2, <2>3, <2>4, <2>5, <2>6, <3>2, ReferencedParked
    <3>3. QED
      BY <3>1, <3>2
  <2>7. QED
    BY <2>6, SMTT(30) DEF Linear
<1>5. ASSUME NEW r \in Ref, NEW r2 \in Ref, NEW vs, ContBind(r, r2, vs) PROVE Linear'
  <2>1. /\ ref[r] \in Obj /\ ref[r2] = Unused /\ ref' = [ref EXCEPT ![r] = Null, ![r2] = ref[r]]
        /\ at' = at /\ cpu' = cpu /\ callee' = callee /\ signal' = signal /\ contobj' = contobj
    BY <1>5 DEF ContBind, fvars
  <2>2. ref'[r2] = ref[r] /\ ref'[r] = Null /\ \A q \in Ref : q # r /\ q # r2 => ref'[q] = ref[q]
    BY <1>0, <1>b, <2>1
  <2>3. \A q \in Ref : q # r /\ ref[q] \in Obj => ref[q] # ref[r]
    BY <1>1, <2>1, ReferencedParked
  <2>4. ASSUME NEW q \in Ref, ref'[q] \in Obj
        PROVE  \E p \in Ref : ref[p] \in Obj /\ ref'[q] = ref[p]
    BY <1>0, <2>1, <2>2, <2>4, Zenon
  <2>5. ASSUME NEW q \in Ref, ref'[q] \in Obj, NEW q2 \in Ref, ref'[q2] = ref'[q]
        PROVE  q2 = q
    <3>1. q # r /\ q2 # r
      BY <1>0, <2>2, <2>5
    <3>2. CASE q = r2 \/ q2 = r2
      BY <2>1, <2>2, <2>3, <2>5, <3>1, <3>2
    <3>3. CASE q # r2 /\ q2 # r2
      BY <1>1, <2>2, <2>5, <3>1, <3>3, ReferencedParked, SMTT(30)
    <3>4. QED
      BY <3>2, <3>3
  <2>6. ASSUME NEW q \in Ref, ref'[q] \in Obj
        PROVE  /\ at'[ref'[q]] \in {"fresh", "suspend"} /\ cpu' # ref'[q]
               /\ \A s \in Stack : callee'[s] # ref'[q] /\ (signal'[s] # Null => contobj'[s] # ref'[q])
    <3>1. PICK p \in Ref : ref[p] \in Obj /\ ref'[q] = ref[p]
      BY <2>4, <2>6
    <3>2. QED
      BY <1>1, <2>1, <3>1, ReferencedParked, Zenon
  <2>7. QED
    BY <2>5, <2>6 DEF Linear
<1>6. ASSUME NEW r \in Ref, NEW H \in SUBSET Tag, NEW vs, Resume(r, vs, H) PROVE Linear'
  <2>1. saved[ref[r]] = ref[r]
    <3>1. ref[r] \in Obj
      BY <1>6, Zenon DEF Resume
    <3>2. QED
      BY <1>0, <1>1, <3>1, ReferencedParked, ParkedFiber
  <2>2. /\ ref[r] \in Obj /\ cpu' = ref[r] /\ at[cpu] = "run"
        /\ ref' = [ref EXCEPT ![r] = Null]
        /\ at' = [at EXCEPT ![cpu] = "resume"]
        /\ callee' = [callee EXCEPT ![cpu] = ref[r]]
        /\ signal' = signal /\ \A s \in Stack : signal[s] = Null
    BY <1>3, <1>6, <2>1, SMTT(30) DEF Resume, FiberResume, Switch
  <2> SUFFICES ASSUME NEW q \in Ref, ref'[q] \in Obj PROVE StillParked(q)
    BY <1>1, LinearKept
  <2>3. q # r /\ ref'[q] = ref[q]
    BY <1>0, <1>b, <2>2
  <2>4. ref[q] # ref[r]
    BY <1>1, <2>2, <2>3, ReferencedParked
  <2>5. at'[ref[q]] = at[ref[q]]
    BY <1>0, <1>1, <1>a, <2>2, <2>3, ReferencedParked, SMTT(30)
  <2>6. \A s \in Stack : callee'[s] # ref[q]
    BY <1>1, <1>a, <2>2, <2>3, <2>4, ReferencedParked, SMTT(30)
  <2>7. QED
    BY <1>1, <2>2, <2>3, <2>4, <2>5, <2>6, ReferencedParked, SMTT(30) DEF StillParked
<1>7. ASSUME NEW t \in Tag, NEW vs, Suspend(t, vs) PROVE Linear'
  <2>1. at[saved[cpu]] = "resume"
    <3>1. tsp \in Obj \cup {Null}
      BY <1>2, Zenon DEF ControlTypes
    <3>2. cpu = tsp
      BY <1>7, Zenon DEF Suspend
    <3>3. cpu \in Fiber
      BY <1>0, <1>a, <3>1, <3>2, SMTT(30)
    <3>4. QED
      BY <1>1, <3>3, RunningFiber
  <2>2. /\ at[cpu] = "run" /\ cpu' = saved[cpu]
        /\ ref' = ref /\ callee' = callee
        /\ at' = [at EXCEPT ![cpu] = "suspend"]
        /\ signal' = signal /\ \A s \in Stack : signal[s] = Null
    BY <1>3, <1>7 DEF Suspend, FiberSuspend, SwitchOut, Switch
  <2> SUFFICES ASSUME NEW q \in Ref, ref'[q] \in Obj PROVE StillParked(q)
    BY <1>1, LinearKept
  <2>3. ref[q] \in Obj
    BY <2>2, SMTT(30)
  <2>4. at'[ref[q]] = at[ref[q]]
    BY <1>0, <1>1, <1>a, <2>2, <2>3, ReferencedParked, SMTT(30)
  <2>5. QED
    BY <1>1, <2>1, <2>2, <2>3, <2>4, ReferencedParked DEF StillParked
<1>8. ASSUME NEW o \in Obj, NEW vs, Return(o, vs) PROVE Linear'
  <2>1. at[saved[cpu]] = "resume"
    <3>1. cpu \in Fiber
      BY <1>0, <1>8 DEF Return, FiberFinish, SwitchOut
    <3>2. QED
      BY <1>1, <3>1, RunningFiber
  <2>2. /\ at[cpu] = "run" /\ cpu' = saved[cpu]
        /\ ref' = ref /\ callee' = callee
        /\ at' = [at EXCEPT ![cpu] = "finished"]
        /\ signal' = signal /\ \A s \in Stack : signal[s] = Null
    BY <1>3, <1>8 DEF Return, FiberFinish, SwitchOut, Switch
  <2> SUFFICES ASSUME NEW q \in Ref, ref'[q] \in Obj PROVE StillParked(q)
    BY <1>1, LinearKept
  <2>3. ref[q] \in Obj
    BY <2>2
  <2>4. at'[ref[q]] = at[ref[q]]
    BY <1>0, <1>1, <1>a, <2>2, <2>3, ReferencedParked, SMTT(30)
  <2>5. QED
    BY <1>1, <2>1, <2>2, <2>3, <2>4, ReferencedParked DEF StillParked
<1>9. ASSUME Unwind PROVE Linear'
  <2>1. /\ cpu' = Main /\ ref' = ref
        /\ \A s \in Stack : callee'[s] = Null
        /\ \A s \in Stack : s # Main /\ at[s] \in {"fresh", "suspend"} => at'[s] = at[s]
        /\ \A s \in Stack : signal'[s] = Null
    BY <1>9 DEF Unwind, FiberDiscard
  <2> SUFFICES ASSUME NEW q \in Ref, ref'[q] \in Obj PROVE StillParked(q)
    BY <1>1, LinearKept
  <2>2. ref[q] \in Obj
    BY <2>1
  <2>3. QED
    BY <1>0, <1>1, <2>1, <2>2, ReferencedParked DEF StillParked
<1>10. ASSUME NEW r \in Ref, Forget(r) PROVE Linear'
  <2>1. /\ ref' = [ref EXCEPT ![r] = Null] \/ ref' = [ref EXCEPT ![r] = Unused]
        /\ at' = at /\ cpu' = cpu /\ callee' = callee /\ signal' = signal /\ contobj' = contobj
    BY <1>10 DEF Forget, fvars
  <2> SUFFICES ASSUME NEW q \in Ref, ref'[q] \in Obj PROVE StillParked(q)
    BY <1>1, LinearKept
  <2>2. ref'[q] = ref[q]
    BY <1>0, <1>b, <2>1, SMTT(30)
  <2>3. QED
    BY <1>1, <2>1, <2>2, ReferencedParked DEF StillParked
<1>11. ASSUME NEW o \in Obj, Begin(o) \/ Woken(o) PROVE Linear'
  <2>1. /\ cpu = o /\ cpu' = cpu /\ callee' = callee /\ ref' = ref
        /\ signal' = signal /\ contobj' = contobj
        /\ at' = [at EXCEPT ![o] = "run"]
    BY <1>11 DEF Begin, Woken, FiberStart, FiberWoken
  <2> SUFFICES ASSUME NEW q \in Ref, ref'[q] \in Obj PROVE StillParked(q)
    BY <1>1, LinearKept
  <2>2. ref[q] \in Obj
    BY <2>1, SMTT(30)
  <2>3. at'[ref[q]] = at[ref[q]]
    BY <1>0, <1>1, <1>a, <2>1, <2>2, ReferencedParked, SMTT(30)
  <2>4. QED
    BY <1>1, <2>1, <2>2, <2>3, ReferencedParked DEF StillParked
<1>12. ASSUME NEW s \in Stack, LandYield(s) \/ LandReturn(s) PROVE Linear'
  <2>1. contobj[s] = callee[s]
    BY <1>1, <1>12 DEF LandYield, LandReturn, FiberLanded, ResumeInv
  <2>2. /\ at' = [at EXCEPT ![s] = "run"] /\ cpu = s /\ at[s] = "resume"
        /\ cpu' = cpu /\ ref' = ref /\ contobj' = contobj
        /\ callee' = [callee EXCEPT ![s] = Null]
        /\ \A s2 \in Stack : s2 # s => signal'[s2] = signal[s2]
    BY <1>12, <1>c, Zenon DEF LandYield, LandReturn, FiberLanded
  <2> SUFFICES ASSUME NEW q \in Ref, ref'[q] \in Obj PROVE StillParked(q)
    BY <1>1, LinearKept
  <2>3. ref[q] \in Obj
    BY <2>2, SMTT(30)
  <2>4. at'[ref[q]] = at[ref[q]] /\ \A s2 \in Stack : s2 # s => callee'[s2] = callee[s2]
    BY <1>0, <1>1, <1>a, <2>2, <2>3, ReferencedParked
  <2>5. callee'[s] = Null
    BY <1>a, <2>2, SMTT(30)
  <2>6. QED
    BY <1>0, <1>1, <2>1, <2>2, <2>3, <2>4, <2>5, ReferencedParked, SMTT(30) DEF StillParked
<1>13. ASSUME NEW s \in Stack, Collect(s) PROVE Linear'
  <2>1. /\ at[contobj[s]] = "finished" /\ cpu' = cpu /\ callee' = callee /\ ref' = ref
        /\ at' = [at EXCEPT ![contobj[s]] = "free"]
        /\ signal' = [signal EXCEPT ![s] = Null] /\ contobj' = [contobj EXCEPT ![s] = Null]
    BY <1>13 DEF Collect, FiberDrop
  <2> SUFFICES ASSUME NEW q \in Ref, ref'[q] \in Obj PROVE StillParked(q)
    BY <1>1, LinearKept
  <2>2. ref[q] \in Obj
    BY <2>1, SMTT(30)
  <2>3. at'[ref[q]] = at[ref[q]]
    BY <1>0, <1>1, <1>a, <2>1, <2>2, ReferencedParked
  <2>4. \A s2 \in Stack : signal'[s2] # Null => signal'[s2] = signal[s2] /\ contobj'[s2] = contobj[s2]
    BY <1>c, <2>1
  <2>5. QED
    BY <1>1, <2>1, <2>2, <2>3, <2>4, ReferencedParked, SMTT(30) DEF StillParked
<1>14. ASSUME NEW s \in Stack, NEW r \in Ref, Handle(s, r) PROVE Linear'
  <2>1. /\ signal[s] \in Tag /\ signal[s] # Null
        /\ contStore = contobj[s] /\ contStore \in Obj /\ contStore # cpu
        /\ at[contStore] = "suspend"
        /\ callee[cpu] = Null
    <3>1. /\ cpu = s /\ signal[s] \in Tag
      BY <1>2, <1>14 DEF Handle, ControlTypes
    <3>2. signal[s] # Null
      BY <3>1, FibreAssumption DEF Tag
    <3>3. /\ Yielded(contobj[s], signal[s]) /\ contobj[s] = contStore
          /\ at[s] = "run" /\ contobj[s] \in Obj
      BY <1>1, <3>1, <3>2, SMTT(30) DEF ResumeInv
    <3>4. at[contStore] = "suspend"
      BY <3>3 DEF Yielded
    <3>5. callee[cpu] = Null
      BY <1>1, <3>1, <3>3, SMTT(30) DEF ResumeInv
    <3>6. QED
      BY <3>1, <3>2, <3>3, <3>4, <3>5, SMTT(30)
  <2>2. \A s2 \in Stack : callee[s2] # contStore
    BY <1>0, <1>1, <2>1, ParkedFiber
  <2>3. \A s2 \in Stack : signal'[s2] = Null
    BY <1>1, <1>14, <1>c, Zenon DEF Handle, ResumeInv
  <2>4. /\ ref' = [ref EXCEPT ![r] = contStore] /\ signal[s] # Null /\ contobj[s] = contStore
        /\ at' = at /\ cpu' = cpu /\ callee' = callee
    BY <1>14, <2>1, Zenon DEF Handle, fvars
  <2>5. ref'[r] = contStore /\ \A q \in Ref : q # r => ref'[q] = ref[q]
    BY <1>b, <2>4
  <2>6. \A q \in Ref : ref[q] \in Obj => ref[q] # contStore
    BY <1>1, <2>4, ReferencedParked
  <2>7. ASSUME NEW q \in Ref, ref'[q] \in Obj
        PROVE  /\ at'[ref'[q]] \in {"fresh", "suspend"} /\ cpu' # ref'[q]
               /\ \A s2 \in Stack : callee'[s2] # ref'[q] /\ signal'[s2] = Null
               /\ \A r2 \in Ref : ref'[r2] = ref'[q] => r2 = q
    <3>1. CASE q = r
      BY <2>1, <2>2, <2>3, <2>4, <2>5, <2>6, <3>1, SMTT(30)
    <3>2. CASE q # r
      BY <1>1, <2>3, <2>4, <2>5, <2>6, <2>7, <3>2, ReferencedParked, SMTT(30)
    <3>3. QED
      BY <3>1, <3>2, SMTT(30)
  <2>8. QED
    BY <2>7, SMTT(30) DEF Linear
<1>15. CASE UNCHANGED <<fvars, ref, signal, contobj>>
  <2>1. cpu' = cpu /\ at' = at /\ callee' = callee /\ ref' = ref /\ signal' = signal /\ contobj' = contobj
    BY <1>15, Zenon DEF fvars
  <2>2. QED
    BY <1>1, <2>1, LinearKept, ReferencedParked DEF StillParked
<1>16. QED
  BY <1>4, <1>5, <1>6, <1>7, <1>8, <1>9, <1>10, <1>11, <1>12, <1>13, <1>14, <1>15, ZenonT(30)
     DEF Next, Instruction, RuntimeStep, Stopped, ForwardTrap, ConsumedTrap, Trap, StraySuspend, Halt,
         NullContRef, BacktraceLost, vars, cvars

(* A stack inside Fiber::resume works on the object it resumes, and no     *)
(* other stack has a callee.                                               *)
ResumesAt(x) ==
  /\ at[x] = "resume" => contobj[x] = callee[x]
  /\ at[x] # "resume" => callee[x] = Null

(* When no resume has an outcome to act on, what resumes in progress know  *)
(* is what they work on, and the yield about to be seen.                   *)
LEMMA ResumeQuiet ==
  ASSUME \A x \in Stack : signal'[x] = Null,
         \A x \in Stack : ResumesAt(x)',
         cpu' \in Stack,
         at'[cpu'] = "resume" /\ cell'[cpu'] \in Tag => Yielded(callee[cpu], cell[cpu])',
         Null \notin Tag
  PROVE  ResumeInv'
<1>1. signal'[cpu'] \notin Tag /\ signal'[cpu'] # "Returned"
  BY FibreAssumption, Zenon
<1>2. /\ \A s \in Stack : at'[s] = "resume" => contobj'[s] = callee'[s]
      /\ \A s \in Stack : at'[s] # "resume" => callee'[s] = Null
  BY Zenon DEF ResumesAt
<1>3. QED
  BY <1>1, <1>2, Zenon DEF ResumeInv

(* Every step preserves what a resume in progress knows.                   *)
LEMMA ResumeStep == ContInv /\ [Next]_vars => ResumeInv'
<1> SUFFICES ASSUME ContInv, [Next]_vars PROVE ResumeInv'
  OBVIOUS
<1>1. TypeOK /\ FibreInv /\ ResumeInv /\ EnteredInv /\ Linear
  BY DEF ContInv
<1>2. ControlTypes /\ trv \in [Obj -> Payloads \cup {Null}]
  BY <1>1, Zenon DEF TypeOK, FibreTypeOK, ControlTypes
<1>3. (at[cpu] = "run" => signal[cpu] = Null) => \A s \in Stack : signal[s] = Null
  BY <1>1, SMTT(30) DEF ResumeInv
<1>a. /\ DOMAIN at = Stack /\ DOMAIN callee = Stack /\ DOMAIN cell = Stack /\ DOMAIN tag = Stack
      /\ DOMAIN signal = Stack /\ DOMAIN contobj = Stack /\ DOMAIN state = Obj
      /\ cpu \in Stack /\ tsp \in Obj \cup {Null}
  BY <1>2, SMTT(30) DEF ControlTypes
<1>b. /\ Obj = Fiber /\ Obj \subseteq Stack /\ Main \in Stack /\ Main \notin Obj
      /\ Null \notin Stack /\ Null \notin Tag /\ "Returned" \notin Tag
  BY FibreAssumption DEF Obj, Stack, Tag
<1>c. \A x \in Stack : ResumesAt(x)
  BY <1>1 DEF ResumeInv, ResumesAt
<1>4. ASSUME NEW r \in Ref, NEW o \in Obj, NEW ft \in FuncTypes, ContNew(r, o, ft) PROVE ResumeInv'
  <2>1. /\ at[cpu] = "run" /\ signal[cpu] = Null /\ at[o] = "free" /\ at' = [at EXCEPT ![o] = "fresh"]
        /\ cpu' = cpu /\ callee' = callee /\ signal' = signal /\ contobj' = contobj
    BY <1>4, Zenon DEF ContNew, FiberNew, Ready
  <2> SUFFICES /\ \A x \in Stack : signal'[x] = Null
               /\ \A x \in Stack : ResumesAt(x)'
               /\ cpu' \in Stack /\ at'[cpu'] # "resume"
    BY <1>b, ResumeQuiet
  <2>2. at'[o] = "fresh" /\ \A x \in Stack : x # o => at'[x] = at[x]
    BY <1>a, <1>b, <2>1, SMTT(30)
  <2>3. QED
    BY <1>3, <1>a, <1>b, <1>c, <2>1, <2>2, SMTT(30) DEF ResumesAt
<1>5. ASSUME NEW r \in Ref, NEW r2 \in Ref, NEW vs, ContBind(r, r2, vs) PROVE ResumeInv'
  <2>1. /\ at[cpu] = "run" /\ signal[cpu] = Null /\ at' = at
        /\ cpu' = cpu /\ callee' = callee /\ signal' = signal /\ contobj' = contobj
    BY <1>5 DEF ContBind, Ready, fvars
  <2> SUFFICES /\ \A x \in Stack : signal'[x] = Null
               /\ \A x \in Stack : ResumesAt(x)'
               /\ cpu' \in Stack /\ at'[cpu'] # "resume"
    BY <1>b, ResumeQuiet, SMTT(30)
  <2>2. QED
    BY <1>3, <1>a, <1>c, <2>1, SMTT(30) DEF ResumesAt
<1>6. ASSUME NEW r \in Ref, NEW H \in SUBSET Tag, NEW vs, Resume(r, vs, H) PROVE ResumeInv'
  <2>1. ref[r] \in Obj
    BY <1>6, Zenon DEF Resume
  <2>2. saved[ref[r]] = ref[r] /\ at[ref[r]] \in {"fresh", "suspend"} /\ cpu # ref[r]
    BY <1>1, <1>b, <2>1, ReferencedParked, ParkedFiber
  <2>3. /\ at[cpu] = "run" /\ signal[cpu] = Null /\ at' = [at EXCEPT ![cpu] = "resume"]
        /\ cpu' = saved[ref[r]] /\ callee' = [callee EXCEPT ![cpu] = ref[r]]
        /\ signal' = signal /\ contobj' = [contobj EXCEPT ![cpu] = ref[r]]
    BY <1>6, Zenon DEF Resume, Ready, FiberResume, Switch
  <2> SUFFICES /\ \A x \in Stack : signal'[x] = Null
               /\ \A x \in Stack : ResumesAt(x)'
               /\ cpu' \in Stack /\ at'[cpu'] # "resume"
    BY <1>b, ResumeQuiet, SMTT(30)
  <2>4. /\ at'[cpu] = "resume" /\ callee'[cpu] = ref[r] /\ contobj'[cpu] = ref[r]
        /\ \A x \in Stack : x # cpu => at'[x] = at[x] /\ callee'[x] = callee[x] /\ contobj'[x] = contobj[x]
    BY <1>a, <2>3, SMTT(30)
  <2>5. \A x \in Stack : ResumesAt(x)'
    BY <1>c, <2>4, SMTT(30) DEF ResumesAt
  <2>6. QED
    BY <1>3, <1>b, <2>1, <2>2, <2>3, <2>4, <2>5
<1>7. ASSUME NEW t \in Tag, NEW vs \in Vals(TagParams[t]), Suspend(t, vs) PROVE ResumeInv'
  <2>1. /\ at[cpu] = "run" /\ signal[cpu] = Null /\ tsp = cpu
        /\ at' = [at EXCEPT ![cpu] = "suspend"] /\ cpu' = saved[cpu]
        /\ cell' = [cell EXCEPT ![link[cpu]] = t]
        /\ callee' = callee /\ signal' = signal /\ contobj' = contobj
        /\ state' = state /\ trv' = trv /\ tag' = [tag EXCEPT ![cpu] = t]
        /\ payloads' = IF vs = <<>> THEN payloads ELSE vs
    BY <1>7, Zenon DEF Suspend, Ready, FiberSuspend, SwitchOut, Switch
  <2>2. cpu \in Fiber /\ cpu \in Obj
    BY <1>a, <1>b, <2>1
  <2>3. /\ cpu' \in Stack \ {cpu}
        /\ at[cpu'] = "resume" /\ callee[cpu'] = cpu /\ link[cpu] = cpu'
    BY <1>1, <2>1, <2>2, RunningFiber, Zenon
  <2>4. cell'[cpu'] = t
    BY <1>a, <2>1, <2>3, SMTT(30)
  <2>5. at'[cpu] = "suspend" /\ \A x \in Stack : x # cpu => at'[x] = at[x]
    BY <1>a, <2>1, SMTT(30)
  <2>6. \A x \in Stack : ResumesAt(x)'
    BY <1>c, <2>1, <2>5, SMTT(30) DEF ResumesAt
  <2>7. Yielded(callee[cpu], cell[cpu])'
    <3>1. TagParams[t] > 0 => vs # <<>>
      BY ContAssumption, OperandLists, SMTT(30)
    <3>2. state[cpu] = "Invoked" /\ trv[cpu] = Null
      BY <1>1, <2>1, <2>2 DEF EnteredInv, Entered
    <3>3. tag'[cpu] = t
      BY <1>a, <2>1, Zenon
    <3>4. TagParams[t] > 0 => payloads' \in Vals(TagParams[t])
      BY <2>1, <3>1, SMTT(30)
    <3>5. QED
      BY <2>1, <2>3, <2>4, <2>5, <3>2, <3>3, <3>4 DEF Yielded
  <2>8. QED
    BY <1>3, <1>b, <2>1, <2>3, <2>6, <2>7, ResumeQuiet
<1>8. ASSUME NEW o \in Obj, NEW vs, Return(o, vs) PROVE ResumeInv'
  <2>1. /\ cpu = o /\ at[cpu] = "run" /\ signal[cpu] = Null
        /\ at' = [at EXCEPT ![cpu] = "finished"] /\ cpu' = saved[cpu]
        /\ cell' = [cell EXCEPT ![link[cpu]] = "Returned"]
        /\ callee' = callee /\ signal' = signal /\ contobj' = contobj
    BY <1>8, Zenon DEF Return, Ready, FiberFinish, SwitchOut, Switch
  <2>2. /\ cpu' \in Stack \ {cpu}
        /\ at[cpu'] = "resume" /\ callee[cpu'] = cpu /\ link[cpu] = cpu'
    BY <1>1, <1>b, <2>1, RunningFiber, SMTT(30)
  <2>3. cell'[cpu'] = "Returned"
    BY <1>a, <2>1, <2>2, SMTT(30)
  <2>4. at'[cpu] = "finished" /\ \A x \in Stack : x # cpu => at'[x] = at[x]
    BY <1>a, <2>1, SMTT(30)
  <2>5. \A x \in Stack : ResumesAt(x)'
    BY <1>c, <2>1, <2>4, SMTT(30) DEF ResumesAt
  <2>6. QED
    BY <1>3, <1>b, <2>1, <2>2, <2>3, <2>5, ResumeQuiet
<1>9. ASSUME Unwind PROVE ResumeInv'
  <2>1. /\ cpu' = Main /\ at'[Main] = "run"
        /\ \A x \in Stack : callee'[x] = Null /\ signal'[x] = Null /\ at'[x] # "resume"
    BY <1>9, <1>b DEF Unwind, FiberDiscard
  <2> SUFFICES /\ \A x \in Stack : signal'[x] = Null
               /\ \A x \in Stack : ResumesAt(x)'
               /\ cpu' \in Stack /\ at'[cpu'] # "resume"
    BY <1>b, ResumeQuiet, SMTT(30)
  <2>2. QED
    BY <1>b, <2>1, SMTT(30) DEF ResumesAt
<1>10. ASSUME NEW o \in Obj, Begin(o) \/ Woken(o) PROVE ResumeInv'
  <2>1. /\ cpu = o /\ at[cpu] \in {"fresh", "suspend"} /\ at' = [at EXCEPT ![cpu] = "run"]
        /\ cpu' = cpu /\ callee' = callee /\ signal' = signal /\ contobj' = contobj
    BY <1>10 DEF Begin, Woken, FiberStart, FiberWoken
  <2> SUFFICES /\ \A x \in Stack : signal'[x] = Null
               /\ \A x \in Stack : ResumesAt(x)'
               /\ cpu' \in Stack /\ at'[cpu'] # "resume"
    BY <1>b, ResumeQuiet, SMTT(30)
  <2>2. at'[cpu] = "run" /\ \A x \in Stack : x # cpu => at'[x] = at[x]
    BY <1>a, <2>1
  <2>3. QED
    BY <1>3, <1>a, <1>c, <2>1, <2>2 DEF ResumesAt
<1>11. ASSUME NEW s \in Stack, LandYield(s) PROVE ResumeInv'
  <2>1. /\ cpu = s /\ at[s] = "resume" /\ cell[s] \in Tag /\ at' = [at EXCEPT ![s] = "run"]
        /\ cpu' = cpu /\ callee' = [callee EXCEPT ![s] = Null] /\ contobj' = contobj
        /\ signal' = [signal EXCEPT ![s] = cell[s]] /\ contStore' = callee[s]
        /\ done' = [done EXCEPT ![callee[s]] = FALSE]
        /\ UNCHANGED <<state, trv, tag, payloads>>
    BY <1>11, Zenon DEF LandYield, FiberLanded, Tag
  <2>2. callee[s] \in Obj /\ callee[s] # s /\ contobj[s] = callee[s]
    BY <1>1, <1>b, <1>c, <2>1, LandingStack, SMTT(30) DEF ResumesAt
  <2>3. /\ at'[s] = "run" /\ callee'[s] = Null /\ signal'[s] = cell[s]
        /\ \A x \in Stack : x # s => at'[x] = at[x] /\ callee'[x] = callee[x] /\ signal'[x] = signal[x]
    BY <1>a, <2>1
  <2>4. Yielded(callee[s], cell[s])
    BY <1>1, <2>1, Zenon DEF ResumeInv
  <2>5. Yielded(contobj[s], signal[s])'
    BY <1>b, <2>1, <2>2, <2>3, <2>4, SMTT(30) DEF Yielded
  <2>6. ~done'[contStore']
    BY <1>2, <1>b, <2>1, <2>2 DEF ControlTypes
  <2>7. \A x \in Stack : ResumesAt(x)'
    BY <1>c, <2>1, <2>3, ZenonT(30) DEF ResumesAt
  <2>8. \A x \in Stack : signal'[x] # Null => x = s
    <3>1. \A x \in Stack : signal[x] = Null
      BY <1>3, <2>1, Zenon
    <3>2. QED
      BY <2>3, <3>1, Zenon
  <2>9. signal'[cpu'] # "Returned"
    BY <1>b, <2>1, <2>3, SMTT(30)
  <2>10. /\ \A x \in Stack : at'[x] = "resume" => contobj'[x] = callee'[x]
         /\ \A x \in Stack : at'[x] # "resume" => callee'[x] = Null
         /\ \A x \in Stack : signal'[x] # Null => x = cpu' /\ at'[x] = "run" /\ contobj'[x] \in Obj
    BY <2>1, <2>2, <2>3, <2>7, <2>8 DEF ResumesAt
  <2>11. at'[cpu'] # "resume"
    BY <2>1, <2>3, SMTT(30)
  <2>12. Yielded(contobj[cpu], signal[cpu])' /\ contobj'[cpu'] = contStore'
    BY <2>1, <2>2, <2>5
  <2>13. QED
    BY <2>6, <2>9, <2>10, <2>11, <2>12, Zenon DEF ResumeInv
<1>12. ASSUME NEW s \in Stack, LandReturn(s) PROVE ResumeInv'
  <2>1. /\ cpu = s /\ at[s] = "resume" /\ cell[s] = "Returned" /\ at' = [at EXCEPT ![s] = "run"]
        /\ cpu' = cpu /\ callee' = [callee EXCEPT ![s] = Null] /\ contobj' = contobj
        /\ signal' = [signal EXCEPT ![s] = "Returned"]
        /\ state' = [state EXCEPT ![callee[s]] = "Returned"]
    BY <1>12, Zenon DEF LandReturn, FiberLanded
  <2>2. callee[s] \in Obj /\ callee[s] # s /\ contobj[s] = callee[s] /\ at[callee[s]] = "finished"
    BY <1>1, <1>b, <1>c, <2>1, LandingStack, SMTT(30) DEF ResumesAt, Tag
  <2>3. /\ at'[s] = "run" /\ callee'[s] = Null /\ signal'[s] = "Returned"
        /\ \A x \in Stack : x # s => at'[x] = at[x] /\ callee'[x] = callee[x] /\ signal'[x] = signal[x]
    BY <1>a, <2>1, SMTT(30)
  <2>4. at'[contobj'[cpu']] = "finished" /\ state'[contobj'[cpu']] = "Returned"
    BY <1>a, <1>b, <2>1, <2>2, <2>3, SMTT(30)
  <2>5. \A x \in Stack : ResumesAt(x)'
    BY <1>c, <2>1, <2>3, SMTT(30) DEF ResumesAt
  <2>6. \A x \in Stack : signal'[x] # Null => x = s
    BY <1>3, <2>1, <2>3, SMTT(30)
  <2>7. signal'[cpu'] \notin Tag /\ at'[cpu'] # "resume"
    BY <1>b, <2>1, <2>3, SMTT(30)
  <2>8. /\ \A x \in Stack : at'[x] = "resume" => contobj'[x] = callee'[x]
        /\ \A x \in Stack : at'[x] # "resume" => callee'[x] = Null
        /\ \A x \in Stack : signal'[x] # Null => x = cpu' /\ at'[x] = "run" /\ contobj'[x] \in Obj
    BY <2>1, <2>2, <2>3, <2>5, <2>6, SMTT(30) DEF ResumesAt
  <2>9. QED
    BY <2>4, <2>7, <2>8, Zenon DEF ResumeInv
<1>13. ASSUME NEW s \in Stack, Collect(s) PROVE ResumeInv'
  <2> DEFINE o == contobj[s]
  <2>1. /\ UNCHANGED <<cpu, callee>> /\ cpu = s /\ at[cpu] = "run" /\ at[o] = "finished"
        /\ at' = [at EXCEPT ![o] = "free"]
        /\ signal' = [signal EXCEPT ![s] = Null]
        /\ contobj' = [contobj EXCEPT ![s] = Null]
    BY <1>13, Zenon DEF Collect, FiberDrop
  <2> HIDE DEF o
  <2> SUFFICES /\ \A x \in Stack : signal'[x] = Null
               /\ \A x \in Stack : ResumesAt(x)'
               /\ cpu' \in Stack /\ at'[cpu'] # "resume"
    BY <1>b, ResumeQuiet, SMTT(30)
  <2>2. at'[cpu] = "run" /\ \A x \in Stack : at'[x] = "resume" <=> at[x] = "resume"
    BY <1>a, <2>1, SMTT(30)
  <2>3. \A x \in Stack : signal[x] # Null => x = cpu
    BY <1>1 DEF ResumeInv
  <2>4. \A x \in Stack : signal'[x] = Null
    BY <1>a, <2>1, <2>3, SMTT(30)
  <2>5. \A x \in Stack : x # s => contobj'[x] = contobj[x]
    BY <1>a, <2>1, SMTT(30)
  <2>6. QED
    BY <1>a, <1>c, <2>1, <2>2, <2>4, <2>5 DEF ResumesAt
<1>14. ASSUME NEW s \in Stack, NEW r \in Ref, Handle(s, r) PROVE ResumeInv'
  <2>1. /\ UNCHANGED <<cpu, callee, at>> /\ cpu = s /\ at[s] = "run"
        /\ signal' = [signal EXCEPT ![s] = Null]
        /\ contobj' = [contobj EXCEPT ![s] = Null]
    BY <1>14, Zenon DEF Handle, fvars
  <2> SUFFICES /\ \A x \in Stack : signal'[x] = Null
               /\ \A x \in Stack : ResumesAt(x)'
               /\ cpu' \in Stack /\ at'[cpu'] # "resume"
    BY <1>b, ResumeQuiet, SMTT(30)
  <2>2. \A x \in Stack : signal[x] # Null => x = cpu
    BY <1>1, SMTT(30) DEF ResumeInv
  <2>3. \A x \in Stack : signal'[x] = Null
    BY <1>a, <2>1, <2>2, SMTT(30)
  <2>4. \A x \in Stack : x # s => contobj'[x] = contobj[x]
    BY <1>a, <2>1
  <2>5. QED
    BY <1>a, <1>c, <2>1, <2>3, <2>4 DEF ResumesAt
<1>15. CASE UNCHANGED <<fvars, state, trv, contStore, payloads, signal, contobj, tag>>
  BY <1>1, <1>15, Zenon DEF ResumeInv, Yielded, fvars
<1>16. QED
  BY <1>4, <1>5, <1>6, <1>7, <1>8, <1>9, <1>10, <1>11, <1>12, <1>13, <1>14, <1>15, Zenon
     DEF Next, Instruction, RuntimeStep, Stopped, ForwardTrap, ConsumedTrap, Trap, StraySuspend, Halt,
         NullContRef, BacktraceLost, Forget, vars, cvars
=============================================================================
