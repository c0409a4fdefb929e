------------------------ MODULE ContinuationsProofs -------------------------
(***************************************************************************)
(* Theorems about Continuations, for any set of objects, references,       *)
(* values, tags and function types.                                        *)
(***************************************************************************)
EXTENDS ContinuationsLemmas

(* What holds of an entered continuation: its state, its tsp and its tag   *)
(* return values.                                                          *)

(***************************************************************************)
(* What store_resume_args does to the two buffers of object o: operands go *)
(* to args before the first resume and to the tag return values, whose     *)
(* buffer is allocated with the capacity asked for, after it.              *)
(***************************************************************************)
LEMMA StoreResumeArgsEffect ==
  ASSUME TypeOK, NEW o \in Obj, NEW n \in Nat, NEW vs \in Vals(n), NEW m \in Nat,
         StoreResumeArgs(o, vs, m)
  PROVE  /\ \A x \in Obj \ {o} : args'[x] = args[x] /\ trv'[x] = trv[x]
         /\ args'[o].capacity = args[o].capacity
         /\ state[o] # "Invoked" =>
              trv'[o] = trv[o] /\ Len(args'[o].data) = Len(args[o].data) + n
         /\ state[o] = "Invoked" /\ n = 0 => trv'[o] = trv[o]
         /\ state[o] = "Invoked" /\ n # 0 =>
              /\ trv'[o] # Null
              /\ trv[o] = Null => trv'[o].capacity = m /\ Len(trv'[o].data) = n
              /\ trv[o] # Null => /\ trv'[o].capacity = trv[o].capacity
                                  /\ Len(trv'[o].data) = Len(trv[o].data) + n
<1>1. args \in [Obj -> Payloads] /\ trv \in [Obj -> Payloads \cup {Null}]
  BY Zenon DEF TypeOK
<1>2. vs \in Seq(Val) /\ Len(vs) = n /\ (vs = <<>> <=> n = 0)
  BY OperandLists
<1>3. /\ TagReturns(o, m) \in Payloads
      /\ trv[o] = Null => TagReturns(o, m).capacity = m /\ Len(TagReturns(o, m).data) = 0
      /\ trv[o] # Null => TagReturns(o, m) = trv[o]
  BY <1>1, NewPayloadsIsEmpty DEF TagReturns
<1>4. LET p == OccupyNext(TagReturns(o, m), vs) IN
      /\ p # Null
      /\ p.capacity = TagReturns(o, m).capacity
      /\ Len(p.data) = Len(TagReturns(o, m).data) + n
  BY <1>2, <1>3, OccupyNextAppends, ContAssumption, ZenonT(30)
<1>5. LET p == OccupyNext(args[o], vs) IN
      p.capacity = args[o].capacity /\ Len(p.data) = Len(args[o].data) + n
  BY <1>1, <1>2, OccupyNextAppends, Zenon
<1>6. Len(args[o].data) \in Nat
  BY <1>1 DEF Payloads
<1>7. CASE vs = <<>>
  BY <1>2, <1>6, <1>7 DEF StoreResumeArgs
<1>8. CASE vs # <<>> /\ state[o] = "Invoked"
  <2>1. args' = args /\ trv' = [trv EXCEPT ![o] = OccupyNext(TagReturns(o, m), vs)]
    BY <1>8 DEF StoreResumeArgs
  <2>2. trv'[o] = OccupyNext(TagReturns(o, m), vs) /\ \A x \in Obj \ {o} : trv'[x] = trv[x]
    BY <1>1, <2>1
  <2>3. trv[o] = Null => trv'[o].capacity = m /\ Len(trv'[o].data) = n
    BY <1>3, <1>4, <2>2
  <2>4. trv[o] # Null => /\ trv'[o].capacity = trv[o].capacity
                         /\ Len(trv'[o].data) = Len(trv[o].data) + n
    BY <1>3, <1>4, <2>2
  <2>5. QED
    BY <1>2, <1>4, <1>8, <2>1, <2>2, <2>3, <2>4
<1>9. CASE vs # <<>> /\ state[o] # "Invoked"
  <2>1. args' = [args EXCEPT ![o] = OccupyNext(args[o], vs)] /\ trv' = trv
    BY <1>9, SMTT(30) DEF StoreResumeArgs
  <2>2. QED
    BY <1>1, <1>5, <1>9, <2>1
<1>10. QED
  BY <1>7, <1>8, <1>9

(***************************************************************************)
(* Every step preserves what entered continuations need: the restored tsp  *)
(* and, for one about to wake up in suspend, its tag return values.        *)
(***************************************************************************)
LEMMA EnteredStep == ContInv /\ [Next]_vars => EnteredInv'
<1> SUFFICES ASSUME ContInv, [Next]_vars PROVE EnteredInv'
  OBVIOUS
<1>1. TypeOK /\ FibreInv /\ ResumeInv /\ EnteredInv
  BY DEF ContInv
<1>2. /\ ControlTypes
      /\ trv \in [Obj -> Payloads \cup {Null}]
      /\ parent \in [Obj -> Obj \cup {Null, Junk}]
      /\ nested \in SUBSET Obj
  BY <1>1, Zenon DEF TypeOK, FibreTypeOK, ControlTypes, Obj
<1>3. \A o \in Obj : Entered(o) => at[saved[o]] = "resume"
  BY <1>1 DEF FibreInv, Obj
<1> USE FibreAssumption, <1>2 DEF ControlTypes, Stack, Obj, Tag, Entered
<1>4. ASSUME NEW r \in Ref, NEW o \in Obj, NEW ft \in FuncTypes, ContNew(r, o, ft) PROVE EnteredInv'
  <2>1. /\ UNCHANGED <<cpu, cell, tsp, contStore, signal, tag, nested>>
        /\ at[cpu] = "run" /\ at[o] = "free" /\ at' = [at EXCEPT ![o] = "fresh"]
        /\ saved' = [saved EXCEPT ![o] = o] /\ parent' = [parent EXCEPT ![o] = Junk]
        /\ state' = [state EXCEPT ![o] = "Allocated"] /\ trv' = [trv EXCEPT ![o] = Null]
    BY <1>4, Zenon DEF ContNew, FiberNew
  <2>2. cpu # o /\ at'[cpu] = "run"
    BY <2>1
  <2>3. \A x \in Obj : Entered(x)' =>
          /\ Entered(x) /\ at'[x] = at[x] /\ state'[x] = state[x] /\ parent'[x] = parent[x]
          /\ saved'[x] = saved[x] /\ trv'[x] = trv[x]
    BY <2>1, <2>2
  <2>4. cpu \in Obj \ nested => (signal[cpu] # "Returned" => tsp = cpu)
    BY <1>1, <2>1 DEF EnteredInv
  <2>5. \A x \in Obj : Entered(x) =>
          /\ state[x] = "Invoked"
          /\ parent[x] \in Obj \cup {Null}
          /\ saved[x] \in Obj \ nested => parent[x] = saved[x]
          /\ at[x] # "suspend" => trv[x] = Null
    BY <1>1 DEF EnteredInv
  <2> QED BY <2>1, <2>2, <2>3, <2>4, <2>5 DEF EnteredInv
<1>5. ASSUME NEW r \in Ref, NEW r2 \in Ref, NEW n \in 0..arity[r], NEW vs \in Vals(n),
             ContBind(r, r2, vs)
      PROVE  EnteredInv'
  <2>1. n \in Nat /\ arity[r] \in Nat
    <3>1. arity[r] \in Nat
      BY <1>1, Zenon DEF TypeOK
    <3>2. QED
      BY <3>1
  <2>2. ref[r] \in Obj /\ at[ref[r]] \in {"fresh", "suspend"} /\ cpu # ref[r]
    BY <1>5 DEF ContBind, ContInv, Linear
  <2>3. \A x \in Obj \ {ref[r]} : trv'[x] = trv[x]
    BY <1>1, <1>5, <2>1, <2>2, StoreResumeArgsEffect DEF ContBind
  <2>4. QED
    BY <1>1, <1>5, <2>2, <2>3 DEF EnteredInv, ContBind, Ready, fvars
<1>6. ASSUME NEW r \in Ref, NEW H \in SUBSET Tag, NEW vs \in Vals(arity[r]), Resume(r, vs, H)
      PROVE  EnteredInv'
  <2> PICK o \in Obj : o = ref[r]
    BY <1>6 DEF Resume
  <2>1. saved[o] = o /\ at[o] \in {"fresh", "suspend"} /\ cpu # o
    BY <1>1, <1>6, ParkedFiber DEF Resume, ContInv, Linear
  <2>2. arity[r] \in Nat /\ Len(vs) = arity[r]
    <3>1. arity[r] \in Nat
      BY <1>1, ZenonT(30) DEF TypeOK
    <3>2. QED
      BY <3>1, OperandLists
  <2>3. /\ StoreResumeArgs(o, vs, arity[r])
        /\ \A x \in Obj \ {o} : trv'[x] = trv[x]
    BY <1>1, <1>6, <2>2, StoreResumeArgsEffect DEF Resume
  <2>4. at[o] = "fresh" => trv'[o] = Null
    BY <1>1, <1>6, <2>2, <2>3, StoreResumeArgsEffect DEF ContInv, RoomInv, Room
  <2>5. ASSUME at[o] = "suspend"
        PROVE  /\ tag[o] \in Tag
               /\ IF TagResults[tag[o]] = 0 THEN trv'[o] = Null
                  ELSE /\ trv'[o] # Null
                       /\ Len(trv'[o].data) = TagResults[tag[o]]
                       /\ trv'[o].capacity = TagResults[tag[o]]
    <3>1. /\ state[o] = "Invoked" /\ tag[o] \in Tag
          /\ trv[o] = Null => arity[r] = TagResults[tag[o]]
          /\ trv[o] # Null => /\ trv[o].capacity = TagResults[tag[o]]
                              /\ trv[o].capacity > 0
                              /\ Len(trv[o].data) + arity[r] = trv[o].capacity
      BY <2>5 DEF ContInv, RoomInv, Room
    <3>2. /\ arity[r] = 0 => trv'[o] = trv[o]
          /\ arity[r] # 0 =>
              /\ trv'[o] # Null
              /\ trv[o] = Null => trv'[o].capacity = arity[r] /\ Len(trv'[o].data) = arity[r]
              /\ trv[o] # Null => /\ trv'[o].capacity = trv[o].capacity
                                  /\ Len(trv'[o].data) = Len(trv[o].data) + arity[r]
      BY <1>1, <2>2, <2>3, <3>1, StoreResumeArgsEffect
    <3>3. trv[o] # Null => Len(trv[o].data) \in Nat
      BY DEF Payloads
    <3>4. QED
      BY <2>2, <3>1, <3>2, <3>3
  <2>6. cpu \in Obj \ nested => tsp = cpu
    BY <1>1, <1>6 DEF EnteredInv, Resume, Ready
  <2>7. QED
    <3>1. /\ UNCHANGED <<tag, nested>> /\ at[cpu] = "run"
          /\ at' = [at EXCEPT ![cpu] = "resume"] /\ cpu' = saved[o]
          /\ saved' = [saved EXCEPT ![o] = cpu] /\ parent' = [parent EXCEPT ![o] = tsp]
          /\ state' = [state EXCEPT ![o] = "Invoked"] /\ tsp' = o /\ contStore' = o
      BY <1>6, Zenon DEF Resume, Ready, FiberResume, Switch
    <3>2. cpu' = o /\ at'[o] = at[o]
      BY <2>1, <3>1
    <3>3. \A x \in Obj \ {o} : Entered(x)' =>
            /\ Entered(x) /\ at[x] # "suspend" /\ state'[x] = state[x] /\ parent'[x] = parent[x]
            /\ saved'[x] = saved[x] /\ trv'[x] = trv[x]
      BY <2>1, <2>3, <3>1, <3>2
    <3>4. \A x \in Obj \ {o} : Entered(x)' =>
            /\ state'[x] = "Invoked" /\ parent'[x] \in Obj \cup {Null}
            /\ saved'[x] \in Obj \ nested' => parent'[x] = saved'[x]
            /\ at'[x] # "suspend" => trv'[x] = Null
      BY <1>1, <3>1, <3>3 DEF EnteredInv
    <3>5. /\ state'[o] = "Invoked" /\ parent'[o] = tsp /\ saved'[o] = cpu
          /\ at'[o] # "suspend" => trv'[o] = Null
      BY <2>1, <2>4, <3>1, <3>2
    <3>6. at'[o] = "suspend" => /\ tag'[o] \in Tag
                               /\ IF TagResults[tag'[o]] = 0 THEN trv'[o] = Null
                                  ELSE /\ trv'[o] # Null
                                       /\ Len(trv'[o].data) = TagResults[tag'[o]]
                                       /\ trv'[o].capacity = TagResults[tag'[o]]
      BY <2>5, <3>1, <3>2
    <3> QED BY <2>1, <2>6, <3>1, <3>2, <3>4, <3>5, <3>6 DEF EnteredInv
<1>7. ASSUME NEW t \in Tag, NEW vs, Suspend(t, vs) PROVE EnteredInv'
  <2> PICK o \in Obj : o = cpu
    BY <1>7 DEF Suspend
  <2>1. /\ at[o] = "run" /\ cpu' = saved[o] /\ cpu' \in Stack \ {o}
        /\ at[cpu'] = "resume"
    BY <1>1, <1>7, RunningFiber DEF Suspend, Ready, FiberSuspend, SwitchOut, Switch
  <2>2. \A x \in Obj \ {o} : Entered(x)' => Entered(x) /\ saved'[x] = saved[x] /\ saved[x] # o
    BY <1>3, <1>7, <2>1 DEF Suspend, FiberSuspend, SwitchOut, Switch
  <2>3. ~Entered(o)'
    BY <1>7, <2>1 DEF Suspend, FiberSuspend
  <2>4. cpu' \in Obj \ nested => tsp' = cpu'
    BY <1>1, <1>7, <2>1 DEF EnteredInv, Suspend
  <2>5. QED
    BY <1>1, <1>7, <2>1, <2>2, <2>3, <2>4 DEF EnteredInv, Suspend, FiberSuspend, SwitchOut
<1>8. ASSUME NEW o \in Obj, NEW vs, Return(o, vs) PROVE EnteredInv'
  <2>1. /\ cpu = o /\ at[o] = "run" /\ cpu' = saved[o] /\ cpu' \in Stack \ {o}
        /\ at[cpu'] = "resume" /\ link[o] = cpu'
    BY <1>1, <1>8, RunningFiber DEF Return, Ready, FiberFinish, SwitchOut, Switch
  <2>2. \A x \in Obj \ {o} : Entered(x)' => Entered(x) /\ saved'[x] = saved[x] /\ saved[x] # o
    BY <1>3, <1>8, <2>1 DEF Return, FiberFinish, SwitchOut, Switch
  <2>3. ~Entered(o)' /\ cell'[cpu'] = "Returned"
    BY <1>8, <2>1 DEF Return, FiberFinish, SwitchOut
  <2>4. QED
    BY <1>1, <1>8, <2>1, <2>2, <2>3 DEF EnteredInv, Return, FiberFinish, SwitchOut
<1>9. ASSUME Unwind PROVE EnteredInv'
  BY <1>9 DEF EnteredInv, Unwind, FiberDiscard
<1>10. ASSUME NEW o \in Obj, Begin(o) PROVE EnteredInv'
  BY <1>1, <1>10 DEF EnteredInv, ResumeInv, Begin, FiberStart
<1>11. ASSUME NEW o \in Obj, Woken(o) PROVE EnteredInv'
  <2>1. cpu = o /\ at[o] = "suspend" /\ trv'[o] = Null /\ \A x \in Obj \ {o} : trv'[x] = trv[x]
    BY <1>1, <1>11 DEF EnteredInv, Woken, FiberWoken
  <2>2. signal[o] = Null
    BY <1>1, <2>1 DEF ResumeInv
  <2>3. QED
    BY <1>1, <1>11, <2>1, <2>2 DEF EnteredInv, Woken, FiberWoken
<1>12. ASSUME NEW s \in Stack, LandYield(s) PROVE EnteredInv'
  BY <1>1, <1>12 DEF EnteredInv, LandYield, FiberLanded
<1>13. ASSUME NEW s \in Stack, LandReturn(s) PROVE EnteredInv'
  <2>1. cpu = s /\ at[s] = "resume" /\ callee[s] # s /\ at[callee[s]] = "finished"
    BY <1>1, <1>13, LandingStack DEF LandReturn, FiberLanded
  <2>2. QED
    BY <1>1, <1>13, <2>1 DEF EnteredInv, LandReturn, FiberLanded
<1>14. ASSUME NEW s \in Stack, Collect(s) PROVE EnteredInv'
  <2> DEFINE o == contobj[s]
  <2>1. /\ UNCHANGED <<cpu, cell, tsp, contStore, tag>>
        /\ cpu = s /\ at[cpu] = "run" /\ at[o] = "finished" /\ signal[s] = "Returned"
        /\ at' = [at EXCEPT ![o] = "free"] /\ saved' = [saved EXCEPT ![o] = Junk]
        /\ parent' = [parent EXCEPT ![o] = Junk] /\ state' = [state EXCEPT ![o] = "Freed"]
        /\ trv' = [trv EXCEPT ![o] = Null]
        /\ nested' = IF s \in Obj THEN nested \cup {s} ELSE nested
    BY <1>14, Zenon DEF Collect, FiberDrop
  <2> HIDE DEF o
  <2>2. cpu # o /\ at'[cpu] = "run" /\ cpu \notin Obj \ nested'
    BY <2>1
  <2>3. \A x \in Obj : Entered(x)' =>
          /\ Entered(x) /\ at'[x] = at[x] /\ state'[x] = state[x] /\ parent'[x] = parent[x]
          /\ saved'[x] = saved[x] /\ trv'[x] = trv[x]
    BY <2>1, <2>2
  <2>4. Obj \ nested' \subseteq Obj \ nested
    BY <2>1
  <2>5. \A x \in Obj : Entered(x) =>
          /\ state[x] = "Invoked"
          /\ parent[x] \in Obj \cup {Null}
          /\ saved[x] \in Obj \ nested => parent[x] = saved[x]
          /\ at[x] # "suspend" => trv[x] = Null
    BY <1>1 DEF EnteredInv
  <2> QED BY <2>1, <2>2, <2>3, <2>4, <2>5 DEF EnteredInv
<1>15. ASSUME NEW s \in Stack, NEW r \in Ref, Handle(s, r) PROVE EnteredInv'
  BY <1>1, <1>15 DEF EnteredInv, Handle, fvars
<1>16. CASE UNCHANGED <<fvars, state, trv, contStore, signal, tag, tsp, nested>>
  BY <1>1, <1>16 DEF EnteredInv, fvars
<1>17. QED
  BY <1>4, <1>5, <1>6, <1>7, <1>8, <1>9, <1>10, <1>11, <1>12, <1>13, <1>14, <1>15, <1>16, Zenon
     DEF Next, Instruction, RuntimeStep, Stopped, ForwardTrap, ConsumedTrap, Trap, StraySuspend, Halt,
         NullContRef, BacktraceLost, Forget, vars, cvars

-----------------------------------------------------------------------------
(* Buffers, and the theorems.                                              *)

(* Every step preserves the accounting of buffer room.                     *)
LEMMA RoomStep == ContInv /\ [Next]_vars => RoomInv'
<1> SUFFICES ASSUME ContInv, [Next]_vars PROVE RoomInv'
  OBVIOUS
<1>1. TypeOK /\ FibreInv /\ Linear /\ ResumeInv /\ EnteredInv /\ RoomInv
  BY DEF ContInv
<1>2. /\ ControlTypes
      /\ arity \in [Ref -> Nat]
      /\ args \in [Obj -> Payloads]
      /\ trv \in [Obj -> Payloads \cup {Null}]
      /\ results \in [Obj -> Nat]
  BY <1>1, Zenon DEF TypeOK, FibreTypeOK, ControlTypes
<1>3. \A o \in Obj : args[o].capacity \in Nat /\ Len(args[o].data) \in Nat
  BY <1>2 DEF Payloads
<1>4. \A o \in Obj : trv[o] # Null => trv[o].capacity \in Nat /\ Len(trv[o].data) \in Nat
  BY <1>2 DEF Payloads
<1>0. Unused \notin Obj \cup {Null}
  BY ContAssumption
<1> USE FibreAssumption, <1>0, <1>2 DEF ControlTypes, Stack, Obj, Tag, Fits
<1>5. ASSUME NEW r \in Ref, NEW o \in Obj, NEW ft \in FuncTypes, ContNew(r, o, ft) PROVE RoomInv'
  <2>1. /\ Capacity(ft) \in Nat /\ ft.params \in Nat /\ ft.results \in Nat
        /\ ft.results <= Capacity(ft) /\ ft.params <= Capacity(ft)
    BY ContAssumption DEF Capacity
  <2>2. /\ args'[o].capacity = Capacity(ft) /\ Len(args'[o].data) = 0
        /\ \A x \in Obj \ {o} : args'[x] = args[x]
    <3>1. args' = [args EXCEPT ![o] = NewPayloads(Capacity(ft))]
      BY <1>5, Zenon DEF ContNew
    <3>2. NewPayloads(Capacity(ft)).capacity = Capacity(ft) /\ Len(NewPayloads(Capacity(ft)).data) = 0
      BY <2>1, NewPayloadsIsEmpty
    <3> QED BY <3>1, <3>2
  <2>3. \A r2 \in Ref : ref[r2] # o
    <3>1. at[o] = "free"
      BY <1>5, Zenon DEF ContNew, FiberNew
    <3> QED BY <1>1, <3>1, SMTT(30) DEF Linear
  <2>4. /\ at' = [at EXCEPT ![o] = "fresh"] /\ done' = [done EXCEPT ![o] = FALSE]
        /\ ref' = [ref EXCEPT ![r] = o] /\ arity' = [arity EXCEPT ![r] = ft.params]
        /\ state' = [state EXCEPT ![o] = "Allocated"] /\ trv' = [trv EXCEPT ![o] = Null]
        /\ results' = [results EXCEPT ![o] = ft.results] /\ tag' = tag
    BY <1>5, SMTT(30) DEF ContNew, FiberNew
  <2>5. \A x \in Obj : at'[x] # "free" => results'[x] <= args'[x].capacity
    BY <1>1, <2>1, <2>2, <2>4 DEF RoomInv
  <2>6. \A x \in Obj : at'[x] = "fresh" => trv'[x] = Null
    BY <1>1, <2>4 DEF RoomInv
  <2>7. ASSUME NEW r2 \in Ref, ref'[r2] \in Obj PROVE Room(ref[r2], arity[r2])'
    <3>1. CASE r2 = r
      BY <2>1, <2>2, <2>4, <3>1 DEF Room
    <3>2. CASE r2 # r
      BY <1>1, <2>2, <2>3, <2>4, <2>7, <3>2, Zenon DEF RoomInv, Room
    <3>3. QED
      BY <3>1, <3>2
  <2>8. QED
    BY <2>5, <2>6, <2>7 DEF RoomInv
<1>6. ASSUME NEW r \in Ref, NEW r2 \in Ref, NEW n \in 0..arity[r], NEW vs \in Vals(n),
             ContBind(r, r2, vs)
      PROVE  RoomInv'
  <2> PICK o \in Obj : o = ref[r]
    BY <1>6 DEF ContBind
  <2>1. arity[r] \in Nat /\ n \in Nat /\ Len(vs) = n /\ n <= arity[r]
    <3>1. arity[r] \in Nat
      OBVIOUS
    <3>2. n \in Nat /\ n <= arity[r]
      BY <3>1
    <3>3. QED
      BY <3>1, <3>2, OperandLists
  <2>2. at[o] \in {"fresh", "suspend"} /\ \A r3 \in Ref \ {r} : ref[r3] # o
    BY <1>1, SMTT(30) DEF Linear
  <2>3. /\ \A x \in Obj \ {o} : args'[x] = args[x] /\ trv'[x] = trv[x]
        /\ args'[o].capacity = args[o].capacity
        /\ state[o] # "Invoked" =>
             trv'[o] = trv[o] /\ Len(args'[o].data) = Len(args[o].data) + n
        /\ state[o] = "Invoked" /\ n = 0 => trv'[o] = trv[o]
        /\ state[o] = "Invoked" /\ n # 0 =>
             /\ trv'[o] # Null
             /\ trv[o] = Null => trv'[o].capacity = arity[r] /\ Len(trv'[o].data) = n
             /\ trv[o] # Null => /\ trv'[o].capacity = trv[o].capacity
                                 /\ Len(trv'[o].data) = Len(trv[o].data) + n
    BY <1>1, <1>6, <2>1, StoreResumeArgsEffect, SMTT(30) DEF ContBind
  <2>4. ref' = [ref EXCEPT ![r] = Null, ![r2] = o] /\ r # r2 /\ arity'[r2] = arity[r] - n
    BY <1>6, <2>1 DEF ContBind
  <2>5. /\ ~done[o]
        /\ at[o] = "fresh" => state[o] = "Allocated" /\ Fits(args[o], arity[r]) /\ trv[o] = Null
        /\ at[o] = "suspend" =>
             /\ state[o] = "Invoked" /\ tag[o] \in Tag
             /\ trv[o] = Null => arity[r] = TagResults[tag[o]]
             /\ trv[o] # Null => /\ trv[o].capacity = TagResults[tag[o]]
                                 /\ trv[o].capacity > 0
                                 /\ Len(trv[o].data) + arity[r] = trv[o].capacity
    BY <1>1 DEF RoomInv, Room
  <2>6. at[o] = "fresh" => Len(args'[o].data) + arity'[r2] <= args'[o].capacity
    BY <1>3, <2>1, <2>3, <2>4, <2>5
  <2>7. at[o] = "suspend" =>
          /\ trv'[o] = Null => arity'[r2] = TagResults[tag[o]]
          /\ trv'[o] # Null => /\ trv'[o].capacity = TagResults[tag[o]]
                               /\ trv'[o].capacity > 0
                               /\ Len(trv'[o].data) + arity'[r2] = trv'[o].capacity
    BY <1>4, <2>1, <2>3, <2>4, <2>5, SMTT(30)
  <2>8. \A r3 \in Ref \ {r, r2} : ref'[r3] = ref[r3] /\ arity'[r3] = arity[r3]
    BY <1>6, <2>4 DEF ContBind
  <2>9. ref'[r] = Null /\ ref'[r2] = o
    BY <2>4
  <2>10. \A x \in Obj : /\ at[x] # "free" => results[x] <= args'[x].capacity
                        /\ at[x] = "fresh" => trv'[x] = Null
    BY <1>1, <2>2, <2>3, <2>5 DEF RoomInv, Room
  <2>11. UNCHANGED <<at, done, state, tag, results>>
    BY <1>6 DEF ContBind, fvars
  <2>12. ASSUME NEW r3 \in Ref, ref'[r3] \in Obj, r3 # r2
         PROVE  r3 # r /\ ref'[r3] = ref[r3] /\ arity'[r3] = arity[r3]
                /\ args'[ref[r3]] = args[ref[r3]] /\ trv'[ref[r3]] = trv[ref[r3]]
    BY <2>2, <2>3, <2>8, <2>9, <2>12, SMTT(30)
  <2>13. Room(ref[r2], arity[r2])'
    BY <2>5, <2>6, <2>7, <2>9, <2>11, SMTT(30) DEF Room
  <2>14. ASSUME NEW r3 \in Ref, ref'[r3] \in Obj, r3 # r2 PROVE Room(ref[r3], arity[r3])'
    <3>1. Room(ref[r3], arity[r3])
      BY <1>1, <2>12, <2>14, SMTT(30) DEF RoomInv
    <3>2. QED
      BY <2>11, <2>12, <2>14, <3>1 DEF Room
  <2>15. QED
    BY <2>10, <2>11, <2>13, <2>14 DEF RoomInv
<1>7. ASSUME NEW r \in Ref, NEW H \in SUBSET Tag, NEW vs \in Vals(arity[r]), Resume(r, vs, H)
      PROVE  RoomInv'
  <2> PICK o \in Obj : o = ref[r]
    BY <1>7, SMTT(30) DEF Resume
  <2>1. arity[r] \in Nat /\ Len(vs) = arity[r]
    BY OperandLists
  <2>2. at[o] \in {"fresh", "suspend"} /\ cpu # o /\ \A r3 \in Ref \ {r} : ref[r3] # o
    BY <1>1, SMTT(30) DEF Linear
  <2>3. /\ \A x \in Obj \ {o} : args'[x] = args[x] /\ trv'[x] = trv[x]
        /\ args'[o].capacity = args[o].capacity
        /\ at[o] = "fresh" => trv'[o] = trv[o]
    BY <1>1, <1>7, <2>1, StoreResumeArgsEffect DEF Resume, RoomInv, Room
  <2>4. \A r3 \in Ref : ref'[r3] \in Obj => r3 # r /\ ref'[r3] = ref[r3] /\ ref[r3] # cpu
    BY <1>1, <1>7 DEF Resume, Linear
  <2>5. /\ UNCHANGED <<arity, results, tag>>
        /\ at' = [at EXCEPT ![cpu] = "resume"]
        /\ done' = [done EXCEPT ![o] = TRUE]
        /\ state' = [state EXCEPT ![o] = "Invoked"]
    BY <1>7, SMTT(30) DEF Resume, FiberResume
  <2>6. ASSUME NEW r3 \in Ref, ref'[r3] \in Obj PROVE Room(ref[r3], arity[r3])'
    <3>1. Room(ref[r3], arity[r3]) /\ ref[r3] # o
      BY <1>1, <2>2, <2>4, <2>6 DEF RoomInv
    <3>2. QED
      BY <2>3, <2>4, <2>5, <2>6, <3>1 DEF Room
  <2>7. QED
    BY <1>1, <1>7, <2>2, <2>3, <2>5, <2>6, ZenonT(30) DEF RoomInv, Resume, Ready
<1>8. ASSUME NEW t \in Tag, NEW vs, Suspend(t, vs) PROVE RoomInv'
  BY <1>1, <1>8, Zenon DEF RoomInv, Room, Linear, Suspend, Ready, FiberSuspend, SwitchOut
<1>9. ASSUME NEW o \in Obj, NEW vs, Return(o, vs) PROVE RoomInv'
  <2>1. /\ args'[o].capacity = args[o].capacity
        /\ \A x \in Obj \ {o} : args'[x] = args[x]
    BY <1>9 DEF Return, Payloads
  <2>2. QED
    BY <1>1, <1>9, <2>1 DEF RoomInv, Room, Linear, Return, Ready, FiberFinish, SwitchOut
<1>10. ASSUME Unwind PROVE RoomInv'
  BY <1>1, <1>10, Zenon DEF RoomInv, Room, Linear, Unwind, FiberDiscard
<1>11. ASSUME NEW r \in Ref, Forget(r) PROVE RoomInv'
  BY <1>1, <1>11, Zenon DEF RoomInv, Room, Forget, fvars
<1>12. ASSUME NEW o \in Obj, Begin(o) PROVE RoomInv'
  <2>1. /\ args'[o].capacity = args[o].capacity
        /\ \A x \in Obj \ {o} : args'[x] = args[x]
    BY <1>12, SMTT(30) DEF Begin, Payloads
  <2>2. QED
    BY <1>1, <1>12, <2>1, SMTT(30) DEF RoomInv, Room, Linear, Begin, FiberStart
<1>13. ASSUME NEW o \in Obj, Woken(o) PROVE RoomInv'
  <2>1. /\ UNCHANGED <<ref, arity, state, args, results, done>> /\ cpu = o /\ at[o] = "suspend"
        /\ at' = [at EXCEPT ![o] = "run"] /\ tag' = [tag EXCEPT ![o] = Null]
        /\ trv' = trv \/ trv' = [trv EXCEPT ![contStore] = Null]
    BY <1>13, Zenon DEF Woken, FiberWoken
  <2>2. contStore = o
    BY <1>1, <2>1 DEF EnteredInv
  <2>3. \A x \in Obj \ {o} : at'[x] = at[x] /\ tag'[x] = tag[x] /\ trv'[x] = trv[x]
    BY <2>1, <2>2
  <2>4. at'[o] = "run"
    BY <2>1, SMTT(30)
  <2>5. \A x \in Obj : /\ at'[x] # "free" => results'[x] <= args'[x].capacity
                       /\ at'[x] = "fresh" => trv'[x] = Null
    BY <1>1, <2>1, <2>3, <2>4, SMTT(30) DEF RoomInv
  <2>6. ASSUME NEW r \in Ref, ref[r] \in Obj PROVE Room(ref[r], arity[r])'
    <3>1. ref[r] # o
      BY <1>1, <2>1, <2>6 DEF Linear
    <3>2. Room(ref[r], arity[r])
      BY <1>1, <2>6, SMTT(30) DEF RoomInv
    <3> QED BY <2>1, <2>3, <2>6, <3>1, <3>2, SMTT(30) DEF Room
  <2> QED BY <2>1, <2>5, <2>6 DEF RoomInv
<1>14. ASSUME NEW s \in Stack, LandYield(s) \/ LandReturn(s) PROVE RoomInv'
  <2>1. /\ UNCHANGED <<ref, arity, args, trv, results, tag>>
        /\ cpu = s /\ at[s] = "resume" /\ at' = [at EXCEPT ![s] = "run"]
        /\ done' = done \/ done' = [done EXCEPT ![callee[s]] = FALSE]
        /\ state' = state \/ state' = [state EXCEPT ![callee[s]] = "Returned"]
    BY <1>14, Zenon DEF LandYield, LandReturn, FiberLanded
  <2>2. \A x \in Obj : /\ at[x] = "free" <=> at'[x] = "free"
                       /\ at[x] = "fresh" <=> at'[x] = "fresh"
                       /\ at[x] = "suspend" <=> at'[x] = "suspend"
    BY <2>1, SMTT(30)
  <2>3. \A x \in Obj : x # callee[s] => done'[x] = done[x] /\ state'[x] = state[x]
    BY <2>1, SMTT(30)
  <2>4. \A x \in Obj : /\ at'[x] # "free" => results'[x] <= args'[x].capacity
                       /\ at'[x] = "fresh" => trv'[x] = Null
    BY <1>1, <2>1, <2>2 DEF RoomInv
  <2>5. ASSUME NEW r \in Ref, ref[r] \in Obj PROVE Room(ref[r], arity[r])'
    <3>1. ref[r] # callee[s]
      BY <1>1, <2>5 DEF Linear
    <3>2. Room(ref[r], arity[r])
      BY <1>1, <2>5, SMTT(30) DEF RoomInv
    <3> QED BY <2>1, <2>2, <2>3, <2>5, <3>1, <3>2, Zenon DEF Room
  <2> QED BY <2>1, <2>4, <2>5 DEF RoomInv
<1>16. ASSUME NEW s \in Stack, Collect(s) PROVE RoomInv'
  <2> DEFINE o == contobj[s]
  <2>1. /\ UNCHANGED <<ref, arity, tag, done>>
        /\ at' = [at EXCEPT ![o] = "free"] /\ at[o] = "finished"
        /\ state' = [state EXCEPT ![o] = "Freed"]
        /\ trv' = [trv EXCEPT ![o] = Null]
        /\ args' = [args EXCEPT ![o] = NewPayloads(0)]
        /\ results' = [results EXCEPT ![o] = 0]
    BY <1>16, Zenon DEF Collect, FiberDrop
  <2> HIDE DEF o
  <2>2. \A x \in Obj \ {o} : /\ at'[x] = at[x] /\ state'[x] = state[x] /\ trv'[x] = trv[x]
                             /\ args'[x] = args[x] /\ results'[x] = results[x]
    BY <2>1
  <2>3. o \in Obj => at'[o] = "free"
    BY <2>1, SMTT(30)
  <2>4. \A x \in Obj : /\ at'[x] # "free" => results'[x] <= args'[x].capacity
                       /\ at'[x] = "fresh" => trv'[x] = Null
    BY <1>1, <2>2, <2>3 DEF RoomInv
  <2>5. ASSUME NEW r \in Ref, ref[r] \in Obj PROVE Room(ref[r], arity[r])'
    <3>1. ref[r] # o
      BY <1>1, <2>1, <2>5 DEF Linear
    <3>2. Room(ref[r], arity[r])
      BY <1>1, <2>5 DEF RoomInv
    <3> QED BY <2>1, <2>2, <2>5, <3>1, <3>2, Zenon DEF Room
  <2> QED BY <2>1, <2>4, <2>5 DEF RoomInv
<1>17. ASSUME NEW s \in Stack, NEW r \in Ref, Handle(s, r) PROVE RoomInv'
  <2>1. LET t == signal[s] IN
        /\ t \in Tag /\ ~done[contStore]
        /\ at[contStore] = "suspend" /\ tag[contStore] = t
        /\ state[contStore] = "Invoked" /\ trv[contStore] = Null
    BY <1>1, <1>17, Zenon DEF Handle, ResumeInv, Yielded
  <2>2. QED
    BY <1>1, <1>17, <2>1, Zenon DEF RoomInv, Room, Handle, fvars
<1>18. CASE UNCHANGED <<fvars, ref, arity, state, args, trv, results, tag>>
  BY <1>1, <1>18, Zenon DEF RoomInv, Room, fvars
<1>19. QED
  BY <1>5, <1>6, <1>7, <1>8, <1>9, <1>10, <1>11, <1>12, <1>13, <1>14, <1>16, <1>17, <1>18, Zenon
     DEF Next, Instruction, RuntimeStep, Stopped, ForwardTrap, ConsumedTrap, Trap, StraySuspend, Halt,
         NullContRef, BacktraceLost, vars, cvars

(* ContInv is an invariant of the runtime: it holds initially and every    *)
(* instruction, libcall and landing preserves it.                          *)
THEOREM ContInvariant == Spec => []ContInv
<1>1. ContInv /\ [Next]_vars => ContInv'
  BY FibreStepInv, StepIsFibreStep, TypeStep, LinearStep, ResumeStep, EnteredStep, RoomStep DEF ContInv
<1>2. QED
  BY <1>1, ContInitInv, PTL DEF Spec

(* The variables of the runtime keep their types; in particular a woken    *)
(* suspend and a handler always find buffers of values to read.            *)
THEOREM RuntimeTypeCorrect == Spec => []TypeOK
<1>1. ContInv => TypeOK
  BY DEF ContInv
<1>2. QED
  BY <1>1, ContInvariant, PTL

(* At most one ContinuationReference holds an object, which is parked.     *)
THEOREM ReferencesAreLinear == Spec => []Linear
<1>1. ContInv => Linear
  BY DEF ContInv
<1>2. QED
  BY <1>1, ContInvariant, PTL

(* The continuation store slot of the vmctx names the object whose suspend *)
(* wakes up and the object whose yield is being handled.                   *)
THEOREM StoreSlotIsCurrent == Spec => []StoreIsCurrent
<1>1. ContInv => StoreIsCurrent
  BY SMTT(30) DEF ContInv, ResumeInv, EnteredInv, StoreIsCurrent
<1>2. QED
  BY <1>1, ContInvariant, PTL

(* tsp is the running stack wherever no nested continuation has returned.  *)
THEOREM TspIsTracked == Spec => []TspTracksRunning
<1>1. ContInv => TspTracksRunning
  BY FibreAssumption DEF ContInv, EnteredInv, TspTracksRunning, Ready
<1>2. QED
  BY <1>1, ContInvariant, PTL

(* No assertion of continuation.rs fails, however operands are split over  *)
(* cont.bind and resume and however continuations are nested.              *)
THEOREM NoAssertionFails == Spec => []AssertionsHold
<1>1. ASSUME ContInv PROVE AssertionsHold
  <2>1. TypeOK /\ FibreInv /\ Linear /\ ResumeInv /\ EnteredInv /\ RoomInv
    BY <1>1 DEF ContInv
  <2>2. /\ ControlTypes /\ arity \in [Ref -> Nat]
        /\ trv \in [Obj -> Payloads \cup {Null}] /\ results \in [Obj -> Nat]
    BY <2>1, Zenon DEF TypeOK, FibreTypeOK, ControlTypes
  <2>3. \A o \in Obj : args[o].capacity \in Nat
    BY <2>1, Zenon DEF TypeOK, Payloads
  <2>4. ASSUME NEW r \in Ref, ref[r] \in Obj
        PROVE  LET o == ref[r] IN
               /\ ~done[o]
               /\ state[o] \in {"Allocated", "Invoked"}
               /\ state[o] = "Allocated" => Fits(args[o], arity[r])
               /\ state[o] = "Invoked" => Fits(TagReturns(o, arity[r]), arity[r])
    <3>1. Room(ref[r], arity[r]) /\ at[ref[r]] \in {"fresh", "suspend"} /\ arity[r] \in Nat
      BY <2>1, <2>2, <2>4 DEF RoomInv, Linear
    <3>2. trv[ref[r]] = Null => Fits(TagReturns(ref[r], arity[r]), arity[r])
      BY <3>1, NewPayloadsIsEmpty DEF Fits, TagReturns
    <3>3. trv[ref[r]] # Null => trv[ref[r]].capacity \in Nat
      BY <2>2, <2>4, SMTT(30) DEF Payloads
    <3>4. at[ref[r]] = "suspend" /\ trv[ref[r]] # Null => Fits(TagReturns(ref[r], arity[r]), arity[r])
      BY <3>1, <3>3, SMTT(30) DEF Room, Fits, TagReturns
    <3>5. QED
      BY <3>1, <3>2, <3>4, Zenon DEF Room
  <2>5. at[cpu] = "suspend" /\ TagResults[tag[cpu]] > 0 =>
          /\ contStore \in Obj
          /\ state[contStore] = "Invoked"
          /\ trv[contStore] # Null
          /\ Len(trv[contStore].data) = TagResults[tag[cpu]]
          /\ trv[contStore].capacity = TagResults[tag[cpu]]
    <3>1. at[cpu] = "suspend" => cpu \in Obj
      BY <2>1 DEF FibreInv, Obj
    <3>2. QED
      BY <2>1, <3>1 DEF EnteredInv, Entered
  <2>6. ASSUME signal[cpu] \in Tag, TagParams[signal[cpu]] > 0
        PROVE  payloads \notin {Null, Junk} /\ Len(payloads) = TagParams[signal[cpu]]
    <3>1. payloads \in Vals(TagParams[signal[cpu]])
      BY <2>1, <2>6, SMTT(30) DEF ResumeInv, Yielded
    <3>2. QED
      BY <2>6, <3>1, OperandLists, ContAssumption
  <2>7. ASSUME signal[cpu] = "Returned"
        PROVE  LET o == contobj[cpu] IN
               state[o] = "Returned" /\ (results[o] > 0 => args[o].capacity > 0) /\ done[o]
    <3>1. contobj[cpu] \in Obj /\ at[contobj[cpu]] = "finished" /\ state[contobj[cpu]] = "Returned"
      BY <2>1, <2>2, <2>7, FibreAssumption DEF ResumeInv, ControlTypes
    <3>2. done[contobj[cpu]]
      BY <2>1, <3>1 DEF FibreInv, Obj
    <3>3. QED
      BY <2>1, <2>2, <2>3, <3>1, <3>2, SMTT(30) DEF RoomInv
  <2>8. QED
    BY <2>4, <2>5, <2>6, <2>7 DEF AssertionsHold
<1>2. QED
  BY <1>1, ContInvariant, PTL
=============================================================================
