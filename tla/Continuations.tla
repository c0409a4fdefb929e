--------------------------- MODULE Continuations ---------------------------
(***************************************************************************)
(* The continuation runtime of wasmtime (crates/runtime/continuation.rs)   *)
(* together with the code cranelift emits around it for cont.new,          *)
(* cont.bind, resume and suspend, composed with the fiber layer of Fibre.  *)
(*                                                                         *)
(* One store with one instance is modelled.  The wasm program is arbitrary *)
(* but validated: the stack that has the cpu executes any instruction on   *)
(* any reference, with the operand count its type demands.  A              *)
(* ContinuationObject and the fiber it owns share one identity, which      *)
(* malloc may hand out again after drop_cont_obj.                          *)
(***************************************************************************)
EXTENDS Fibre, Sequences

CONSTANTS
  Ref,         \* continuation references (boxed ContinuationReference)
  Val,         \* wasm values
  TagParams,   \* parameter count of each tag
  TagResults,  \* result count of each tag
  FuncTypes,   \* the function types, as parameter and result counts
  Unused       \* marks a Ref the program does not hold

Obj == Fiber
Tag == Yields

(* The buffer of a Payloads: its capacity and the values stored so far.    *)
Payloads == [capacity : Nat, data : Seq(Val)]

ASSUME ContAssumption ==
  /\ FuncTypes \subseteq [params : Nat, results : Nat]
  /\ TagParams \in [Tag -> Nat]
  /\ TagResults \in [Tag -> Nat]
  /\ Unused \notin Obj \cup {Null}
  /\ Null \notin Payloads /\ {Null, Junk} \cap Seq(Val) = {}

VARIABLES
  ref,        \* the Option inside each ContinuationReference (Null: None)
  arity,      \* parameters left in the static type of each reference
  state,      \* ContinuationObject::state
  args,       \* ContinuationObject::args
  trv,        \* ContinuationObject::tag_return_values
  results,    \* result count of the object's function type
  tsp,        \* Instance::tsp
  contStore,  \* the typed-continuations store slot of the vmctx
  payloads,   \* the payload buffer the vmctx points to (initially garbage)
  signal,     \* result of a resume libcall that compiled code has yet to test
  contobj,    \* original_contobj of the resume a stack is executing
  handlers,   \* the resume table of that resume
  tag,        \* the tag a stack is suspending with
  got,        \* operands the last transfer of control gave the running stack
  status,     \* "ok", or how the process went wrong
  entry,      \* the stack VMRuntimeLimits::last_wasm_entry_sp points into
  nested      \* history: continuations to which a continuation has returned

cvars == <<ref, arity, state, args, trv, results, tsp, contStore, payloads,
           signal, contobj, handlers, tag, got, status, entry, nested>>
vars == <<fvars, cvars>>

(* The operand lists of n values.                                          *)
Vals(n) == [1..n -> Val]

(* Mutant: new operands are stored before the earlier ones.                *)
OccupyFirst(p, vs) == [p EXCEPT !.data = vs \o @]

(* Payloads::new and Payloads::occupy_next followed by the stores.         *)
NewPayloads(n) == [capacity |-> n, data |-> <<>>]
OccupyNext(p, vs) == [p EXCEPT !.data = @ \o vs]

Init ==
  /\ FibreInit
  /\ ref = [r \in Ref |-> Unused]
  /\ arity = [r \in Ref |-> 0]
  /\ state = [o \in Obj |-> "Freed"]
  /\ args = [o \in Obj |-> NewPayloads(0)]
  /\ trv = [o \in Obj |-> Null]
  /\ results = [o \in Obj |-> 0]
  /\ tsp = Null
  /\ contStore = Junk
  /\ payloads = Junk
  /\ signal = [s \in Stack |-> Null]
  /\ contobj = [s \in Stack |-> Null]
  /\ handlers = [s \in Stack |-> {}]
  /\ tag = [s \in Stack |-> Null]
  /\ got = <<>>
  /\ status = "ok"
  /\ entry = Main
  /\ nested = {}

(* Compiled wasm code is executing and about to run its next instruction.  *)
Ready == status = "ok" /\ at[cpu] = "run" /\ signal[cpu] = Null

(* The process goes wrong.                                                 *)
Halt(how) ==
  /\ status' = how
  /\ UNCHANGED fvars
  /\ UNCHANGED <<ref, arity, state, args, trv, results, tsp, contStore, payloads,
                 signal, contobj, handlers, tag, got, nested, entry>>
-----------------------------------------------------------------------------
(* One buffer holds the arguments first and the results later.             *)
Capacity(ft) == IF ft.params < ft.results THEN ft.results ELSE ft.params

(* cont.new: cont_new, then new_cont_ref.                                  *)
ContNew(r, o, ft) ==
  /\ Ready
  /\ ref[r] = Unused
  /\ FiberNew(o)
  /\ ref' = [ref EXCEPT ![r] = o]
  /\ arity' = [arity EXCEPT ![r] = ft.params]
  /\ state' = [state EXCEPT ![o] = "Allocated"]
  /\ args' = [args EXCEPT ![o] = NewPayloads(Capacity(ft))]
  /\ trv' = [trv EXCEPT ![o] = Null]
  /\ results' = [results EXCEPT ![o] = ft.results]
  /\ UNCHANGED <<tsp, contStore, payloads, signal, contobj, handlers, tag, got,
                 status, nested, entry>>

(* cont_obj_occupy_next_tag_returns_slots allocates the buffer on demand.  *)
TagReturns(o, remaining) == IF trv[o] = Null THEN NewPayloads(remaining) ELSE trv[o]

(* typed_continuations_store_resume_args.                                  *)
StoreResumeArgs(o, vs, remaining) ==
  IF vs = <<>>
  THEN UNCHANGED <<args, trv>>
  ELSE IF state[o] = "Invoked"
  THEN /\ trv' = [trv EXCEPT ![o] = OccupyNext(TagReturns(o, remaining), vs)]
       /\ UNCHANGED args
  ELSE /\ args' = [args EXCEPT ![o] = OccupyNext(@, vs)]
       /\ UNCHANGED trv

(* Mutant: the tag return buffer is sized for these operands only.         *)
ContBindSmallBuffer(r, r2, vs) ==
  /\ Ready
  /\ ref[r] \in Obj
  /\ ref[r2] = Unused
  /\ StoreResumeArgs(ref[r], vs, Len(vs))
  /\ ref' = [ref EXCEPT ![r] = Null, ![r2] = ref[r]]
  /\ arity' = [arity EXCEPT ![r2] = arity[r] - Len(vs)]
  /\ UNCHANGED fvars
  /\ UNCHANGED <<state, results, tsp, contStore, payloads, signal, contobj,
                 handlers, tag, got, status, nested, entry>>

(* cont.bind: consume reference r, store the operands, box a new one.      *)
ContBind(r, r2, vs) ==
  /\ Ready
  /\ ref[r] \in Obj
  /\ ref[r2] = Unused
  /\ StoreResumeArgs(ref[r], vs, arity[r])
  /\ ref' = [ref EXCEPT ![r] = Null, ![r2] = ref[r]]
  /\ arity' = [arity EXCEPT ![r2] = arity[r] - Len(vs)]
  /\ UNCHANGED fvars
  /\ UNCHANGED <<state, results, tsp, contStore, payloads, signal, contobj,
                 handlers, tag, got, status, nested, entry>>

(* Mutant: the reference is not invalidated.                               *)
ResumeKeepsRef(r, vs, H) ==
  LET o == ref[r] IN
  /\ Ready
  /\ o \in Obj
  /\ StoreResumeArgs(o, vs, Len(vs))
  /\ FiberResume(o, tsp)
  /\ tsp' = o
  /\ state' = [state EXCEPT ![o] = "Invoked"]
  /\ contStore' = o
  /\ contobj' = [contobj EXCEPT ![cpu] = o]
  /\ handlers' = [handlers EXCEPT ![cpu] = H]
  /\ got' = <<>>
  /\ UNCHANGED <<ref, arity, results, payloads, signal, tag, status,
                 nested, entry>>

(* resume up to the switch: consume the reference, store the operands,     *)
(* chain the stack to the current one and enter the fiber.                 *)
Resume(r, vs, H) ==
  LET o == ref[r] IN
  /\ Ready
  /\ o \in Obj
  /\ StoreResumeArgs(o, vs, Len(vs))
  /\ ref' = [ref EXCEPT ![r] = Null]
  /\ FiberResume(o, tsp)
  /\ tsp' = o
  /\ state' = [state EXCEPT ![o] = "Invoked"]
  /\ contStore' = o
  /\ contobj' = [contobj EXCEPT ![cpu] = o]
  /\ handlers' = [handlers EXCEPT ![cpu] = H]
  /\ got' = <<>>
  /\ UNCHANGED <<arity, results, payloads, signal, tag, status,
                 nested, entry>>

(* The array-call trampoline records its stack pointer and starts the      *)
(* function on its stored arguments.  They are never read again: the       *)
(* buffer counts as empty from here on.                                    *)
Begin(o) ==
  /\ status = "ok"
  /\ FiberStart(o)
  /\ got' = args[o].data
  /\ args' = [args EXCEPT ![o].data = <<>>]
  /\ entry' = o
  /\ UNCHANGED <<ref, arity, state, trv, results, tsp, contStore, payloads,
                 signal, contobj, handlers, tag, status, nested>>

(* Mutant: tsp is not restored.                                            *)
SuspendKeepsTsp(t, vs) ==
  /\ Ready
  /\ tsp = cpu
  /\ payloads' = IF vs = <<>> THEN payloads ELSE vs
  /\ FiberSuspend(cpu, t)
  /\ tsp' = tsp
  /\ tag' = [tag EXCEPT ![cpu] = t]
  /\ nested' = nested \ {cpu}
  /\ got' = <<>>
  /\ UNCHANGED <<ref, arity, state, args, trv, results, contStore, signal,
                 contobj, handlers, status, entry>>

(* suspend: fill the payload buffer, unchain the stack tsp names, switch.  *)
Suspend(t, vs) ==
  /\ Ready
  /\ tsp = cpu
  /\ payloads' = IF vs = <<>> THEN payloads ELSE vs
  /\ FiberSuspend(cpu, t)
  /\ tsp' = parent[cpu]
  /\ tag' = [tag EXCEPT ![cpu] = t]
  /\ nested' = nested \ {cpu}
  /\ got' = <<>>
  /\ UNCHANGED <<ref, arity, state, args, trv, results, contStore, signal,
                 contobj, handlers, status, entry>>

(***************************************************************************)
(* suspend when tsp is not the top of the running stack.  A null tsp is    *)
(* dereferenced.  The result location of a parked fiber is null, which the *)
(* assertion of result_location catches.  Any other target is freed,       *)
(* never-entered or abandoned stack memory: the behaviour is undefined.    *)
(***************************************************************************)
StrayOutcome ==
  IF tsp = Null THEN "segfault"
  ELSE IF at[tsp] = "suspend" /\ link[tsp] = Null THEN "null result location"
  ELSE "undefined"

StraySuspend == Ready /\ tsp # cpu /\ Halt(StrayOutcome)

(* The rest of suspend once resumed: the object is reloaded from the vmctx *)
(* and its tag return values are read and deallocated.                     *)
Woken(o) ==
  /\ status = "ok"
  /\ FiberWoken(o)
  /\ IF TagResults[tag[o]] = 0
     THEN /\ got' = <<>>
          /\ UNCHANGED trv
     ELSE /\ got' = trv[contStore].data
          /\ trv' = [trv EXCEPT ![contStore] = Null]
  /\ tag' = [tag EXCEPT ![o] = Null]
  /\ UNCHANGED <<ref, arity, state, args, results, tsp, contStore, payloads,
                 signal, contobj, handlers, status, nested, entry>>

(* The continuation's function returns; the trampoline stores its results. *)
Return(o, vs) ==
  /\ Ready
  /\ FiberFinish(o)
  /\ args' = [args EXCEPT ![o].data = vs]
  /\ nested' = nested \ {o}
  /\ got' = <<>>
  /\ UNCHANGED <<ref, arity, state, trv, results, tsp, contStore, payloads, signal,
                 contobj, handlers, tag, status, entry>>

(* Mutant: the object is not written to the vmctx on a yield.              *)
LandYieldKeepsStore(s) ==
  /\ status = "ok"
  /\ cell[s] \in Tag
  /\ FiberLanded(s)
  /\ signal' = [signal EXCEPT ![s] = cell[s]]
  /\ UNCHANGED <<ref, arity, state, args, trv, results, tsp, contStore, payloads,
                 contobj, handlers, tag, got, status, nested, entry>>

(* The Err arm of resume: the fiber yielded.                               *)
LandYield(s) ==
  /\ status = "ok"
  /\ cell[s] \in Tag
  /\ FiberLanded(s)
  /\ contStore' = callee[s]
  /\ signal' = [signal EXCEPT ![s] = cell[s]]
  /\ UNCHANGED <<ref, arity, state, args, trv, results, tsp, payloads, contobj,
                 handlers, tag, got, status, nested, entry>>

(* The Ok arm of resume: the function returned.  tsp is left as it is.     *)
LandReturn(s) ==
  /\ status = "ok"
  /\ cell[s] = "Returned"
  /\ FiberLanded(s)
  /\ state' = [state EXCEPT ![callee[s]] = "Returned"]
  /\ signal' = [signal EXCEPT ![s] = "Returned"]
  /\ UNCHANGED <<ref, arity, args, trv, results, tsp, contStore, payloads, contobj,
                 handlers, tag, got, status, nested, entry>>

(* The suspend block and a case of the switch on the tag: box a reference  *)
(* to the object in the vmctx, load the payloads, branch to the label.     *)
Handle(s, r) ==
  LET t == signal[s] IN
  /\ status = "ok"
  /\ cpu = s
  /\ at[s] = "run"
  /\ t \in handlers[s]
  /\ ref[r] = Unused
  /\ ref' = [ref EXCEPT ![r] = contStore]
  /\ arity' = [arity EXCEPT ![r] = TagResults[t]]
  /\ IF TagParams[t] = 0
     THEN got' = <<>> /\ UNCHANGED payloads
     ELSE got' = payloads /\ payloads' = Null
  /\ signal' = [signal EXCEPT ![s] = Null]
  /\ contobj' = [contobj EXCEPT ![s] = Null]
  /\ handlers' = [handlers EXCEPT ![s] = {}]
  /\ UNCHANGED fvars
  /\ UNCHANGED <<state, args, trv, results, tsp, contStore, tag, status,
                 nested, entry>>

(* The return block: load the results and drop_cont_obj.                   *)
Collect(s) ==
  LET o == contobj[s] IN
  /\ status = "ok"
  /\ cpu = s
  /\ signal[s] = "Returned"
  /\ got' = IF results[o] = 0 THEN <<>> ELSE args[o].data
  /\ FiberDrop(o)
  /\ state' = [state EXCEPT ![o] = "Freed"]
  /\ args' = [args EXCEPT ![o] = NewPayloads(0)]
  /\ trv' = [trv EXCEPT ![o] = Null]
  /\ results' = [results EXCEPT ![o] = 0]
  /\ signal' = [signal EXCEPT ![s] = Null]
  /\ contobj' = [contobj EXCEPT ![s] = Null]
  /\ handlers' = [handlers EXCEPT ![s] = {}]
  /\ nested' = IF s \in Obj THEN nested \cup {s} ELSE nested
  /\ UNCHANGED <<ref, arity, tsp, contStore, payloads, tag, status, entry>>

(* A trap abandons every stack on the chain; the instance keeps its tsp,   *)
(* store and payload words.  The next call of the host enters on Main.     *)
Unwind ==
  /\ FiberDiscard
  /\ signal' = [s \in Stack |-> Null]
  /\ contobj' = [s \in Stack |-> Null]
  /\ handlers' = [s \in Stack |-> {}]
  /\ got' = <<>>
  /\ entry' = Main
  /\ nested' = {}
  /\ UNCHANGED <<ref, arity, state, args, trv, results, tsp, contStore, payloads,
                 tag, status>>

(* The forwarding block: no case of the switch matches, the code traps.    *)
ForwardTrap(s) ==
  /\ status = "ok"
  /\ cpu = s
  /\ signal[s] \in Tag \ handlers[s]
  /\ Unwind

(* resume or cont.bind on a reference that was already consumed.           *)
ConsumedTrap(r) ==
  /\ Ready
  /\ ref[r] = Null
  /\ Unwind

(* Any other trap of the program.                                          *)
Trap == Ready /\ Unwind

(* resume or cont.bind on a null reference: contref.as_mut().unwrap().     *)
NullContRef == Ready /\ Halt("null unwrap")

(***************************************************************************)
(* A trap captures a backtrace first, unless Config::wasm_backtrace is off *)
(* (the three actions above cover both).  The walk starts from the frame   *)
(* that trapped and stops at last_wasm_entry_sp; when that points into     *)
(* another stack an assertion of trace_through_wasm fails, or the walk     *)
(* leaves the wasm frames of the stack.                                    *)
(***************************************************************************)
BacktraceLost ==
  /\ status = "ok"
  /\ at[cpu] = "run"
  /\ signal[cpu] = Null \/ signal[cpu] \in Tag \ handlers[cpu]
  /\ entry # cpu
  /\ Halt("backtrace")

(* The program drops its last copy of a reference (the box is leaked).     *)
Forget(r) ==
  /\ status = "ok"
  /\ at[cpu] = "run"
  /\ ref[r] # Unused
  /\ ref' = [ref EXCEPT ![r] = Unused]
  /\ arity' = [arity EXCEPT ![r] = 0]
  /\ UNCHANGED fvars
  /\ UNCHANGED <<state, args, trv, results, tsp, contStore, payloads, signal,
                 contobj, handlers, tag, got, status, nested, entry>>

(* A process that has gone wrong stops.                                    *)
Stopped == status # "ok" /\ UNCHANGED vars

Instruction ==
  \/ \E r \in Ref, o \in Obj, ft \in FuncTypes : ContNew(r, o, ft)
  \/ \E r, r2 \in Ref : \E n \in 0..arity[r] : \E vs \in Vals(n) : ContBind(r, r2, vs)
  \/ \E r \in Ref, H \in SUBSET Tag : \E vs \in Vals(arity[r]) : Resume(r, vs, H)
  \/ \E t \in Tag : \E vs \in Vals(TagParams[t]) : Suspend(t, vs)
  \/ StraySuspend
  \/ \E o \in Obj : \E vs \in Vals(results[o]) : Return(o, vs)
  \/ \E r \in Ref : ConsumedTrap(r)
  \/ Trap
  \/ NullContRef
  \/ BacktraceLost
  \/ \E r \in Ref : Forget(r)

RuntimeStep ==
  \/ \E o \in Obj : Begin(o) \/ Woken(o)
  \/ \E s \in Stack : LandYield(s) \/ LandReturn(s) \/ Collect(s) \/ ForwardTrap(s)
  \/ \E s \in Stack, r \in Ref : Handle(s, r)

Next == Instruction \/ RuntimeStep \/ Stopped

Spec == Init /\ [][Next]_vars
-----------------------------------------------------------------------------
(* Every variable has its type.                                            *)
TypeOK ==
  /\ FibreTypeOK
  /\ ref \in [Ref -> Obj \cup {Null, Unused}]
  /\ arity \in [Ref -> Nat]
  /\ state \in [Obj -> {"Allocated", "Invoked", "Returned", "Freed"}]
  /\ args \in [Obj -> Payloads]
  /\ trv \in [Obj -> Payloads \cup {Null}]
  /\ results \in [Obj -> Nat]
  /\ tsp \in Obj \cup {Null}
  /\ contStore \in Obj \cup {Junk}
  /\ payloads \in Seq(Val) \cup {Null, Junk}
  /\ signal \in [Stack -> Tag \cup {Null, "Returned"}]
  /\ contobj \in [Stack -> Obj \cup {Null}]
  /\ handlers \in [Stack -> SUBSET Tag]
  /\ tag \in [Stack -> Tag \cup {Null}]
  /\ got \in Seq(Val)
  /\ status \in {"ok", "null unwrap", "segfault", "null result location", "undefined",
                "backtrace"}
  /\ entry \in Stack
  /\ nested \in SUBSET Obj

(***************************************************************************)
(* "only one ContinuationReference may hold a non-null reference to the    *)
(* object at a given time" (continuation.rs), and the object it holds is   *)
(* parked: not freed, not on the chain of running stacks, not abandoned by *)
(* a trap, and not about to be dropped by the return block of a resume.    *)
(***************************************************************************)
Linear ==
  \A r \in Ref : ref[r] \in Obj =>
    /\ at[ref[r]] \in {"fresh", "suspend"}
    /\ cpu # ref[r]
    /\ \A s \in Stack : callee[s] # ref[r] /\ (signal[s] # Null => contobj[s] # ref[r])
    /\ \A r2 \in Ref : ref[r2] = ref[r] => r2 = r

(* Room for n more operands, the assertion of occupy_next.                 *)
Fits(p, n) == Len(p.data) + n <= p.capacity

(***************************************************************************)
(* No assertion of continuation.rs can fail: those of resume, of           *)
(* occupy_next for any operands cont.bind or resume may still store, of    *)
(* the reads of tag return values, of the payload buffer and of the        *)
(* results, and the debug assertion when the fiber is dropped.             *)
(***************************************************************************)
AssertionsHold ==
  /\ \A r \in Ref : ref[r] \in Obj =>
       LET o == ref[r] IN
       /\ ~done[o]
       /\ state[o] \in {"Allocated", "Invoked"}
       /\ state[o] = "Allocated" => Fits(args[o], arity[r])
       /\ state[o] = "Invoked" => Fits(TagReturns(o, arity[r]), arity[r])
  /\ at[cpu] = "suspend" /\ TagResults[tag[cpu]] > 0 =>
       /\ contStore \in Obj
       /\ state[contStore] = "Invoked"
       /\ trv[contStore] # Null
       /\ Len(trv[contStore].data) = TagResults[tag[cpu]]
       /\ trv[contStore].capacity = TagResults[tag[cpu]]
  /\ signal[cpu] \in Tag /\ TagParams[signal[cpu]] > 0 =>
       payloads \notin {Null, Junk} /\ Len(payloads) = TagParams[signal[cpu]]
  /\ signal[cpu] = "Returned" =>
       LET o == contobj[cpu] IN
       /\ state[o] = "Returned"
       /\ results[o] > 0 => args[o].capacity > 0
       /\ done[o]

(***************************************************************************)
(* The object reloaded from the vmctx slot is the right one: the one the   *)
(* woken suspend runs on, and the one this resume resumed.  The second     *)
(* conjunct answers the question in the Resume translation, "Is it         *)
(* actually the case that the suspended continuation MUST be the one we    *)
(* resumed here?", for the code as it stands (without forwarding).         *)
(***************************************************************************)
StoreIsCurrent ==
  /\ at[cpu] = "suspend" => contStore = cpu
  /\ signal[cpu] \in Tag => contStore = contobj[cpu]

(***************************************************************************)
(* tsp is the top of the running stack ("Current top of the stack          *)
(* pointer", instance.rs) in every continuation to which no continuation   *)
(* it resumed has returned since it was itself last resumed.  Suspending   *)
(* from such a continuation is therefore well defined.                     *)
(***************************************************************************)
TspTracksRunning == Ready /\ cpu \in Obj \ nested => tsp = cpu

(***************************************************************************)
(* What the comments promise and the code does not keep.  Suspend "will    *)
(* switch control back to the original caller of Fiber::resume" (fibre     *)
(* lib.rs): a suspend executed inside a continuation never goes astray.    *)
(* After a nested continuation has returned it does, because resume does   *)
(* not restore tsp on its Ok arm.                                          *)
(***************************************************************************)
SuspendReachesResumer ==
  cpu \in Obj => status \notin {"segfault", "null result location", "undefined"}

(***************************************************************************)
(* The handler context of the proposal (Overview.md) skips resumes that do *)
(* not handle the tag: code is about to trap for want of a handler only if *)
(* no enclosing resume has one.  The forwarding block traps at the         *)
(* innermost resume already.                                               *)
(***************************************************************************)
TrapsOnlyIfUnhandled ==
  signal[cpu] \in Tag \ handlers[cpu] =>
    \A s \in Stack : at[s] = "resume" => signal[cpu] \notin handlers[s]

(***************************************************************************)
(* "Ensure that there isn't an active payload buffer. If there was, we     *)
(* didn't clean up" (allocate_payload_buffer, an assertion commented out): *)
(* a continuation that may suspend next, and so allocate a buffer, finds   *)
(* none.  But one whose suspension trapped in the forwarding block is      *)
(* still there when the host next calls into the instance.                 *)
(***************************************************************************)
PayloadsCleanedUp == Ready /\ cpu \in Obj => payloads \in {Null, Junk}

(***************************************************************************)
(* "any frame pointer we are dealing with should be less than the stack    *)
(* pointer on entry to Wasm" (trace_through_wasm): a trap never walks      *)
(* towards the entry of another stack.  But once a continuation has        *)
(* started, last_wasm_entry_sp stays in its stack when control leaves it.  *)
(***************************************************************************)
BacktraceStaysOnStack == status # "backtrace"

(***************************************************************************)
(* The parts of the inductive invariant behind the properties above.       *)
(***************************************************************************)
(* What a yield leaves for the handler: object o suspended with tag t, its *)
(* tag return buffer not yet allocated, its payloads in the buffer.        *)
Yielded(o, t) ==
  /\ at[o] = "suspend"
  /\ tag[o] = t
  /\ state[o] = "Invoked"
  /\ trv[o] = Null
  /\ TagParams[t] > 0 => payloads \in Vals(TagParams[t])

(* A resume in progress knows its object, before and after the switch.     *)
ResumeInv ==
  /\ \A s \in Stack : at[s] = "resume" => contobj[s] = callee[s]
  /\ \A s \in Stack : at[s] # "resume" => callee[s] = Null
  /\ \A s \in Stack : signal[s] # Null => s = cpu /\ at[s] = "run" /\ contobj[s] \in Obj
  /\ at[cpu] = "resume" /\ cell[cpu] \in Tag => Yielded(callee[cpu], cell[cpu])
  /\ signal[cpu] \in Tag =>
       /\ Yielded(contobj[cpu], signal[cpu])
       /\ contobj[cpu] = contStore
       /\ ~done[contStore]
  /\ signal[cpu] = "Returned" =>
       at[contobj[cpu]] = "finished" /\ state[contobj[cpu]] = "Returned"

(* An entered continuation is Invoked and knows what tsp to restore.       *)
EnteredInv ==
  /\ \A o \in Obj : Entered(o) =>
       /\ state[o] = "Invoked"
       /\ parent[o] \in Obj \cup {Null}
       /\ saved[o] \in Obj \ nested => parent[o] = saved[o]
       /\ at[o] # "suspend" => trv[o] = Null
  /\ at[cpu] = "suspend" =>
       /\ contStore = cpu
       /\ tag[cpu] \in Tag
       /\ IF TagResults[tag[cpu]] = 0 THEN trv[cpu] = Null
          ELSE /\ trv[cpu] # Null
               /\ Len(trv[cpu].data) = TagResults[tag[cpu]]
               /\ trv[cpu].capacity = TagResults[tag[cpu]]
  /\ cpu \in Obj \ nested =>
       IF at[cpu] = "resume" THEN cell[cpu] \in Tag => tsp = cpu
       ELSE signal[cpu] # "Returned" => tsp = cpu

(* Object o is parked with room in its buffer for exactly the operands its *)
(* type still lacks: n of them.                                            *)
Room(o, n) ==
  /\ ~done[o]
  /\ at[o] = "fresh" => state[o] = "Allocated" /\ Fits(args[o], n)
  /\ at[o] = "suspend" =>
       /\ state[o] = "Invoked"
       /\ tag[o] \in Tag
       /\ trv[o] = Null => n = TagResults[tag[o]]
       /\ trv[o] # Null =>
            /\ trv[o].capacity = TagResults[tag[o]]
            /\ trv[o].capacity > 0
            /\ Len(trv[o].data) + n = trv[o].capacity

RoomInv ==
  /\ \A o \in Obj : at[o] # "free" => results[o] <= args[o].capacity
  /\ \A o \in Obj : at[o] = "fresh" => trv[o] = Null
  /\ \A r \in Ref : ref[r] \in Obj => Room(ref[r], arity[r])

(* The inductive invariant: the type invariant, the fiber invariant, the   *)
(* linearity of references (ContinuationReference) and the three parts     *)
(* about resume, suspend and the operand buffers above.                    *)
ContInv == TypeOK /\ FibreInv /\ Linear /\ ResumeInv /\ EnteredInv /\ RoomInv
=============================================================================
