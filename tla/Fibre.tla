------------------------------- MODULE Fibre -------------------------------
(***************************************************************************)
(* The wasmtime-fibre crate (crates/fibre): stackful coroutines whose      *)
(* switch exchanges the cpu's stack pointer with a word kept near the top  *)
(* of the fiber's own stack.                                               *)
(*                                                                         *)
(* A stack pointer is modelled by the stack it points into, so a saved     *)
(* context is the name of a stack.  The three words at the top of a fiber  *)
(* stack are the functions link (top-8, where the result cell of the       *)
(* outstanding Fiber::resume lives), parent (top-16, used by the           *)
(* continuation runtime only) and saved (top-0x20, the context to switch   *)
(* to).  A word of freshly allocated stack memory holds Junk.              *)
(***************************************************************************)
EXTENDS Naturals

CONSTANTS
  Fiber,   \* fiber identities, i.e. addresses of fiber stacks (reused)
  Main,    \* the native stack of the thread
  Yields,  \* the values a fiber may suspend with
  Null,    \* the null pointer
  Junk     \* the contents of uninitialised stack memory

ASSUME FibreAssumption ==
  /\ Main \notin Fiber
  /\ Null \notin Fiber \cup {Main}
  /\ Junk \notin Fiber \cup {Main, Null}
  /\ Yields \cap {"Executing", "Resuming", "Returned"} = {}
  /\ Null \notin Yields \cup {"Returned"}

VARIABLES
  cpu,     \* the stack the cpu executes on
  at,      \* where each stack is in the crate's code
  callee,  \* the fiber a stack is resuming (the receiver of Fiber::resume)
  saved,   \* top-0x20 of each fiber stack: the context switch swaps with
  link,    \* top-8: the stack holding the RunResult cell, or null
  parent,  \* top-16: written by write_parent
  cell,    \* the RunResult cell in the Fiber::resume frame of each stack
  done     \* the flag Fiber::done

fvars == <<cpu, at, callee, saved, link, parent, cell, done>>

Stack == Fiber \cup {Main}

(* RunResult: a Yield(y) is represented by y.                              *)
RunResult == {"Executing", "Resuming", "Returned"} \cup Yields

(***************************************************************************)
(* "free" no fiber, "fresh" initialised and never entered, "run" in client *)
(* code, "resume" inside Fiber::resume, "suspend" inside Suspend::switch,  *)
(* "finished" in the last switch of execute, "lost" its frames were        *)
(* abandoned because a trap unwound to the host.                           *)
(***************************************************************************)
Points == {"free", "fresh", "run", "resume", "suspend", "finished", "lost"}

FibreInit ==
  /\ cpu = Main
  /\ at = [s \in Stack |-> IF s = Main THEN "run" ELSE "free"]
  /\ callee = [s \in Stack |-> Null]
  /\ saved = [f \in Fiber |-> Junk]
  /\ link = [f \in Fiber |-> Junk]
  /\ parent = [f \in Fiber |-> Junk]
  /\ cell = [s \in Stack |-> "Executing"]
  /\ done = [f \in Fiber |-> FALSE]

(* wasmtime_fibre_switch: swap the stack pointer with the word at top-0x20. *)
Switch(f) ==
  /\ cpu' = saved[f]
  /\ saved' = [saved EXCEPT ![f] = cpu]

(* Mutant: wasmtime_fibre_init does not store the initial context.         *)
FiberNewNoContext(f) ==
  /\ at[cpu] = "run"
  /\ at[f] = "free"
  /\ at' = [at EXCEPT ![f] = "fresh"]
  /\ link' = [link EXCEPT ![f] = Junk]
  /\ parent' = [parent EXCEPT ![f] = Junk]
  /\ done' = [done EXCEPT ![f] = FALSE]
  /\ UNCHANGED <<cpu, callee, saved, cell>>

(* Fiber::new on a stack just obtained from FiberStack::malloc.            *)
FiberNew(f) ==
  /\ at[cpu] = "run"
  /\ at[f] = "free"
  /\ at' = [at EXCEPT ![f] = "fresh"]
  /\ saved' = [saved EXCEPT ![f] = f]
  /\ link' = [link EXCEPT ![f] = Junk]
  /\ parent' = [parent EXCEPT ![f] = Junk]
  /\ done' = [done EXCEPT ![f] = FALSE]
  /\ UNCHANGED <<cpu, callee, cell>>

(* Mutant: the result cell is not initialised.                             *)
FiberResumeKeepsCell(f, p) ==
  /\ at[cpu] = "run"
  /\ at[f] # "free"
  /\ ~done[f]
  /\ done' = [done EXCEPT ![f] = TRUE]
  /\ parent' = [parent EXCEPT ![f] = p]
  /\ link' = [link EXCEPT ![f] = cpu]
  /\ at' = [at EXCEPT ![cpu] = "resume"]
  /\ callee' = [callee EXCEPT ![cpu] = f]
  /\ Switch(f)
  /\ UNCHANGED cell

(***************************************************************************)
(* Fiber::resume up to the switch.  The assertion on done guards it.  The  *)
(* caller has first called write_parent(p).                                *)
(***************************************************************************)
FiberResume(f, p) ==
  /\ at[cpu] = "run"
  /\ at[f] # "free"
  /\ ~done[f]
  /\ done' = [done EXCEPT ![f] = TRUE]
  /\ parent' = [parent EXCEPT ![f] = p]
  /\ cell' = [cell EXCEPT ![cpu] = "Resuming"]
  /\ link' = [link EXCEPT ![f] = cpu]
  /\ at' = [at EXCEPT ![cpu] = "resume"]
  /\ callee' = [callee EXCEPT ![cpu] = f]
  /\ Switch(f)

(* Suspend::take_resume through the result location of fiber f.            *)
TakeResume(f) ==
  /\ link[f] \in Stack
  /\ cell[link[f]] = "Resuming"
  /\ cell' = [cell EXCEPT ![link[f]] = "Executing"]

(* wasmtime_fibre_start, fiber_start and the entry of execute.             *)
FiberStart(f) ==
  /\ cpu = f
  /\ at[f] = "fresh"
  /\ TakeResume(f)
  /\ at' = [at EXCEPT ![f] = "run"]
  /\ UNCHANGED <<cpu, callee, saved, link, parent, done>>

(* Mutant: control goes to the native stack instead of the resumer.        *)
SwitchOutToNative(f, r) ==
  /\ cpu = f
  /\ at[f] = "run"
  /\ link[f] \in Stack
  /\ cell' = [cell EXCEPT ![link[f]] = r]
  /\ cpu' = Main
  /\ saved' = [saved EXCEPT ![f] = cpu]
  /\ UNCHANGED <<callee, link, parent, done>>

(* Suspend::switch up to the switch, leaving outcome r for the resumer.    *)
SwitchOut(f, r) ==
  /\ cpu = f
  /\ at[f] = "run"
  /\ link[f] \in Stack
  /\ cell' = [cell EXCEPT ![link[f]] = r]
  /\ Switch(f)
  /\ UNCHANGED <<callee, link, parent, done>>

(* Suspend::suspend(y).                                                    *)
FiberSuspend(f, y) ==
  /\ SwitchOut(f, y)
  /\ at' = [at EXCEPT ![f] = "suspend"]

(* Mutant: the end of execute reports a Yield.                             *)
FiberFinishYields(f) ==
  /\ \E y \in Yields : SwitchOut(f, y)
  /\ at' = [at EXCEPT ![f] = "finished"]

(* The end of execute: the fiber's function has returned.                  *)
FiberFinish(f) ==
  /\ SwitchOut(f, "Returned")
  /\ at' = [at EXCEPT ![f] = "finished"]

(* Suspend::switch after the switch: the fiber was resumed again.          *)
FiberWoken(f) ==
  /\ cpu = f
  /\ at[f] = "suspend"
  /\ TakeResume(f)
  /\ at' = [at EXCEPT ![f] = "run"]
  /\ UNCHANGED <<cpu, callee, saved, link, parent, done>>

(* Mutant: done is cleared whatever the outcome.                           *)
FiberLandedClearsDone(s) ==
  /\ cpu = s
  /\ at[s] = "resume"
  /\ link' = [link EXCEPT ![callee[s]] = Null]
  /\ done' = [done EXCEPT ![callee[s]] = FALSE]
  /\ at' = [at EXCEPT ![s] = "run"]
  /\ callee' = [callee EXCEPT ![s] = Null]
  /\ UNCHANGED <<cpu, saved, parent, cell>>

(***************************************************************************)
(* Fiber::resume after the switch, on stack s: null the result location,   *)
(* read the cell, and clear done if the fiber yielded.                     *)
(***************************************************************************)
FiberLanded(s) ==
  /\ cpu = s
  /\ at[s] = "resume"
  /\ link' = [link EXCEPT ![callee[s]] = Null]
  /\ done' = IF cell[s] \in Yields THEN [done EXCEPT ![callee[s]] = FALSE] ELSE done
  /\ at' = [at EXCEPT ![s] = "run"]
  /\ callee' = [callee EXCEPT ![s] = Null]
  /\ UNCHANGED <<cpu, saved, parent, cell>>

(* Drop for Fiber and FiberStack: the stack memory goes back to malloc.    *)
FiberDrop(f) ==
  /\ at[cpu] = "run"
  /\ at[f] = "finished"
  /\ at' = [at EXCEPT ![f] = "free"]
  /\ saved' = [saved EXCEPT ![f] = Junk]
  /\ link' = [link EXCEPT ![f] = Junk]
  /\ parent' = [parent EXCEPT ![f] = Junk]
  /\ UNCHANGED <<cpu, callee, cell, done>>

(***************************************************************************)
(* A trap raised by the running stack unwinds straight to the host frame   *)
(* on the native stack (wasmtime longjmps); no fiber code runs, so every   *)
(* stack that was executing or resuming is abandoned as it is.             *)
(***************************************************************************)
FiberDiscard ==
  /\ at[cpu] = "run"
  /\ cpu' = Main
  /\ at' = [s \in Stack |-> IF s = Main THEN "run"
                            ELSE IF at[s] \in {"run", "resume"} THEN "lost" ELSE at[s]]
  /\ callee' = [s \in Stack |-> Null]
  /\ UNCHANGED <<saved, link, parent, cell, done>>

FibreStep(f) ==
  \/ FiberNew(f)
  \/ \E p \in Fiber \cup {Null} : FiberResume(f, p)
  \/ FiberStart(f)
  \/ \E y \in Yields : FiberSuspend(f, y)
  \/ FiberFinish(f)
  \/ FiberWoken(f)
  \/ FiberDrop(f)

FibreNext ==
  \/ \E f \in Fiber : FibreStep(f)
  \/ \E s \in Stack : FiberLanded(s)
  \/ FiberDiscard

(***************************************************************************)
(* What the crate allows its client to do.  As a property of the runtime   *)
(* in Continuations: continuation.rs only ever creates, resumes, suspends  *)
(* and drops fibers the way the crate permits, also after traps.           *)
(***************************************************************************)
FibreSpec == FibreInit /\ [][FibreNext]_fvars
-----------------------------------------------------------------------------
(* Every variable has its type.                                            *)
FibreTypeOK ==
  /\ cpu \in Stack
  /\ at \in [Stack -> Points]
  /\ callee \in [Stack -> Fiber \cup {Null}]
  /\ saved \in [Fiber -> Stack \cup {Junk}]
  /\ link \in [Fiber -> Stack \cup {Null, Junk}]
  /\ parent \in [Fiber -> Fiber \cup {Null, Junk}]
  /\ cell \in [Stack -> RunResult]
  /\ done \in [Fiber -> BOOLEAN]

(* A stack with frames that can still run.                                 *)
Alive(s) == at[s] \notin {"free", "lost"}

(***************************************************************************)
(* No context is lost or duplicated by wasmtime_fibre_switch: a live       *)
(* stack's stack pointer is in the cpu or in exactly one saved word of a   *)
(* live fiber, never in both and never in two.                             *)
(***************************************************************************)
ContextsConserved ==
  \A s \in Stack : Alive(s) =>
    /\ cpu = s => \A f \in Fiber : Alive(f) => saved[f] # s
    /\ cpu # s => \E f \in Fiber : /\ Alive(f) /\ saved[f] = s
                                  /\ \A g \in Fiber : Alive(g) /\ saved[g] = s => g = f

(***************************************************************************)
(* The RunResult handshake: a fiber that gains control finds a result      *)
(* location holding Resuming (take_resume does not panic), and a resumer   *)
(* that regains control finds a Yield or Returned (the unreachable!() of   *)
(* Fiber::resume is unreachable).                                          *)
(***************************************************************************)
CellProtocol ==
  /\ at[cpu] \in {"fresh", "suspend"} =>
       cpu \in Fiber /\ link[cpu] \in Stack /\ cell[link[cpu]] = "Resuming"
  /\ at[cpu] = "resume" => cell[cpu] \in Yields \cup {"Returned"}
  /\ at[cpu] \in {"run", "fresh", "suspend", "resume"}

(***************************************************************************)
(* The done flag is an exact guard: a fiber that passes the assertion of   *)
(* Fiber::resume is parked, with its own context in its saved word, and a  *)
(* fiber that is executing, resuming or finished never passes it.          *)
(***************************************************************************)
DoneGuards ==
  \A f \in Fiber : at[f] # "free" /\ ~done[f] =>
    at[f] \in {"fresh", "suspend"} /\ cpu # f /\ saved[f] = f

(***************************************************************************)
(* The inductive invariant behind the properties above.  A fiber that has  *)
(* been resumed and not switched out holds its resumer's context and       *)
(* result location; a fiber that has switched out holds its own; only the  *)
(* stack on the cpu runs client code, and a resumer that has the cpu while *)
(* still inside Fiber::resume finds its fiber's outcome in the cell.       *)
(***************************************************************************)
Entered(f) == at[f] \in {"run", "resume"} \/ f = cpu

FibreInv ==
  /\ FibreTypeOK
  /\ at[Main] \in {"run", "resume"}
  /\ at[cpu] \in {"run", "resume", "fresh", "suspend"}
  /\ \A s \in Stack : at[s] = "run" => s = cpu
  /\ \A s \in Stack : at[s] = "resume" =>
       /\ callee[s] \in Fiber
       /\ link[callee[s]] = s
       /\ done[callee[s]]
       /\ cpu # s => saved[callee[s]] = s /\ Entered(callee[s])
       /\ cpu = s => /\ saved[callee[s]] = callee[s]
                     /\ \/ at[callee[s]] = "suspend" /\ cell[s] \in Yields
                        \/ at[callee[s]] = "finished" /\ cell[s] = "Returned"
  /\ \A f \in Fiber : Entered(f) =>
       /\ saved[f] \in Stack \ {f}
       /\ at[saved[f]] = "resume"
       /\ callee[saved[f]] = f
  /\ \A f \in Fiber : at[f] \in {"fresh", "suspend"} /\ f # cpu => saved[f] = f
  /\ \A f \in Fiber : at[f] = "finished" => saved[f] = f /\ done[f]
  /\ \A f \in Fiber : at[f] # "free" /\ ~done[f] => at[f] \in {"fresh", "suspend"} /\ cpu # f
  /\ at[cpu] \in {"fresh", "suspend"} => cpu \in Fiber /\ cell[saved[cpu]] = "Resuming"

(***************************************************************************)
(* Suspend::suspend "will switch control back to the original caller of    *)
(* Fiber::resume" (lib.rs), and so does the end of the fiber's function:   *)
(* a fiber that gives up control gives it to the stack whose resume of     *)
(* that very fiber is outstanding.                                         *)
(***************************************************************************)
ReturnsToResumer ==
  [][(cpu \in Fiber /\ at[cpu] = "run" /\ at'[cpu] \in {"suspend", "finished"})
       => (at[cpu'] = "resume" /\ callee[cpu'] = cpu)]_fvars
=============================================================================
