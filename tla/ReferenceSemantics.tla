------------------------ MODULE ReferenceSemantics -------------------------
(***************************************************************************)
(* The typed-continuation instructions as the reference interpreter        *)
(* (interpreter/exec/eval.ml) defines them: what an engine promises.       *)
(*                                                                         *)
(* The evaluation context is the sequence frames: frames[1] is the         *)
(* invocation itself and frames[i] the code inside the i-1st enclosing     *)
(* Handle.  The code of one cont.new is identified by a strand.  A         *)
(* captured context is the part of frames a suspension cuts off.           *)
(***************************************************************************)
EXTENDS Naturals, Sequences, FiniteSets

CONSTANTS
  Strand,      \* identities of the computations made by cont.new
  Main,        \* the computation of the invocation
  Ref,         \* continuation references
  Val,         \* wasm values
  Tag,         \* control tags
  TagParams,   \* parameter count of each tag
  TagResults,  \* result count of each tag
  FuncTypes,   \* function types, as parameter and result counts
  MaxFrames,   \* bound on the nesting of Handle frames by barrier
  Unused,      \* marks a Ref the program does not hold
  Null         \* the None of a consumed ContRef

ASSUME RefAssumption ==
  /\ TagParams \in [Tag -> Nat]
  /\ TagResults \in [Tag -> Nat]
  /\ FuncTypes \subseteq [params : Nat, results : Nat]

VARIABLES
  frames,  \* the evaluation context, outermost first
  conts,   \* the option inside each ContRef
  ctl,     \* the head of the innermost code: running, Suspending or a value
  got      \* operands the last reduction gave the innermost code

rvars == <<frames, conts, ctl, got>>

Vals(n) == [1..n -> Val]

(* Handle (Some hs, ...), or Handle (None, ...) for a barrier.             *)
Frame(s, hs, isBarrier, n) == [strand |-> s, hs |-> hs, barrier |-> isBarrier, results |-> n]
Root == <<Frame(Main, {}, FALSE, 0)>>
Top == frames[Len(frames)]

Running == [kind |-> "run", tag |-> Null, vals |-> <<>>]

RefInit ==
  /\ frames = Root
  /\ conts = [r \in Ref |-> Unused]
  /\ ctl = Running
  /\ got = <<>>

Live(r) == conts[r] \notin {Null, Unused}

(* The strands of a context.                                               *)
Strands(fs) == {fs[i].strand : i \in DOMAIN fs}

Runs == ctl.kind = "run"
-----------------------------------------------------------------------------
(* ContNew: the context that invokes the function.                         *)
ContNew(r, s, ft) ==
  /\ Runs
  /\ conts[r] = Unused
  /\ s \notin Strands(frames)
  /\ \A r2 \in Ref : Live(r2) => s \notin Strands(conts[r2].ctxt)
  /\ conts' = [conts EXCEPT ![r] =
       [n |-> ft.params, ctxt |-> <<Frame(s, {}, FALSE, ft.results)>>, args |-> <<>>]]
  /\ UNCHANGED <<frames, ctl, got>>

Bound(c, vs) == [n |-> c.n - Len(vs), ctxt |-> c.ctxt, args |-> c.args \o vs]

(* Mutant: cont := None is forgotten.                                      *)
ContBindKeeps(r, r2, vs) ==
  /\ Runs
  /\ Live(r)
  /\ conts[r2] = Unused
  /\ conts' = [conts EXCEPT ![r2] = Bound(conts[r], vs)]
  /\ UNCHANGED <<frames, ctl, got>>

(* ContBind: the reference is consumed, a new one holds the longer context. *)
ContBind(r, r2, vs) ==
  /\ Runs
  /\ Live(r)
  /\ conts[r2] = Unused
  /\ conts' = [conts EXCEPT ![r] = Null,
                            ![r2] = Bound(conts[r], vs)]
  /\ UNCHANGED <<frames, ctl, got>>

(* Resume: reinstate the context inside a Handle with the given handlers.  *)
Resume(r, vs, H) ==
  /\ Runs
  /\ Live(r)
  /\ conts' = [conts EXCEPT ![r] = Null]
  /\ frames' = frames \o [conts[r].ctxt EXCEPT ![1].hs = H]
  /\ got' = conts[r].args \o vs
  /\ UNCHANGED ctl

(* Suspend: turn into the administrative instruction Suspending.           *)
Suspend(t, vs) ==
  /\ Runs
  /\ ctl' = [kind |-> "suspending", tag |-> t, vals |-> vs]
  /\ got' = <<>>
  /\ UNCHANGED <<frames, conts>>

(* Mutant: a suspension passes through barriers.                           *)
NearestHandler(t) ==
  LET K == {i \in 2..Len(frames) : t \in frames[i].hs} IN
  IF K = {} THEN 0 ELSE CHOOSE i \in K : \A j \in K : j <= i

(* The innermost Handle that is a barrier or handles t; 0 if there is none. *)
Nearest(t) ==
  LET K == {i \in 2..Len(frames) : frames[i].barrier \/ t \in frames[i].hs} IN
  IF K = {} THEN 0 ELSE CHOOSE i \in K : \A j \in K : j <= i

(* Handle (Some hs) with a matching tag, however many Handles up: the      *)
(* intermediate ones forward the suspension and become part of the context. *)
Capture(r) ==
  LET k == Nearest(ctl.tag) IN
  /\ ctl.kind = "suspending"
  /\ k # 0
  /\ ~frames[k].barrier
  /\ conts[r] = Unused
  /\ conts' = [conts EXCEPT ![r] =
       [n |-> TagResults[ctl.tag],
        ctxt |-> [SubSeq(frames, k, Len(frames)) EXCEPT ![1].hs = {}],
        args |-> <<>>]]
  /\ frames' = SubSeq(frames, 1, k - 1)
  /\ got' = ctl.vals
  /\ ctl' = Running

(* Trap.error and Suspension.error end the invocation.                     *)
Abort ==
  /\ frames' = Root
  /\ ctl' = Running
  /\ got' = <<>>
  /\ UNCHANGED conts

(* Handle (None) around a Suspending: "barrier hit by suspension".         *)
BarrierTrap ==
  /\ ctl.kind = "suspending"
  /\ LET k == Nearest(ctl.tag) IN k # 0 /\ frames[k].barrier
  /\ Abort

(* A Suspending that reaches the top: "unhandled tag".                     *)
Unhandled ==
  /\ ctl.kind = "suspending"
  /\ Nearest(ctl.tag) = 0
  /\ Abort

(* Barrier: the block runs inside Handle (None).                           *)
Barrier ==
  /\ Runs
  /\ Len(frames) < MaxFrames
  /\ frames' = Append(frames, Frame(Top.strand, {}, TRUE, 0))
  /\ UNCHANGED <<conts, ctl, got>>

(* The code inside the innermost Handle has become values.                 *)
Return(vs) ==
  /\ Runs
  /\ Len(frames) > 1
  /\ ctl' = [kind |-> "value", tag |-> Null, vals |-> vs]
  /\ got' = <<>>
  /\ UNCHANGED <<frames, conts>>

(* Handle (hso, (vs', [])) reduces to the values.                          *)
HandleValue ==
  /\ ctl.kind = "value"
  /\ frames' = SubSeq(frames, 1, Len(frames) - 1)
  /\ got' = ctl.vals
  /\ ctl' = Running
  /\ UNCHANGED conts

Throwing(t, vs) == [kind |-> "throwing", tag |-> t, vals |-> vs]

(* Throw.                                                                  *)
Throw(t, vs) ==
  /\ Runs
  /\ ctl' = Throwing(t, vs)
  /\ got' = <<>>
  /\ UNCHANGED <<frames, conts>>

(* ResumeThrow with the tag y and a continuation type whose index is, as a *)
(* tag index, that of x: the context is reinstated with a Throw x in it,   *)
(* on the operands for y.                                                  *)
ResumeThrow(r, x, y, vs, H) ==
  /\ Runs
  /\ Live(r)
  /\ TagParams[x] <= TagParams[y]
  /\ conts' = [conts EXCEPT ![r] = Null]
  /\ frames' = frames \o [conts[r].ctxt EXCEPT ![1].hs = H]
  /\ ctl' = Throwing(x, SubSeq(vs, 1, TagParams[x]))
  /\ got' = <<>>

(* A Catch in the code of the i-th frame takes the exception, which has    *)
(* passed through the Handles inside it, barriers included.                *)
Catch(i) ==
  /\ ctl.kind = "throwing"
  /\ frames' = SubSeq(frames, 1, i)
  /\ got' = ctl.vals
  /\ ctl' = Running
  /\ UNCHANGED conts

(* "unhandled exception".                                                  *)
Uncaught == ctl.kind = "throwing" /\ Abort

(* Resume or ContBind of a consumed or of a null continuation, "call stack *)
(* exhausted", and every other trap of the running code.                   *)
Trapping == Runs /\ Abort

(* The program drops its last copy of a reference.                         *)
Forget(r) ==
  /\ conts[r] # Unused
  /\ conts' = [conts EXCEPT ![r] = Unused]
  /\ UNCHANGED <<frames, ctl, got>>

(* The reductions of the code that runs.                                   *)
Instructions ==
  /\ Runs
  /\ \/ Trapping
     \/ Barrier
     \/ \E vs \in Vals(Top.results) : Return(vs)
     \/ \E t \in Tag : \E vs \in Vals(TagParams[t]) : Suspend(t, vs)
     \/ \E r \in Ref, s \in Strand, ft \in FuncTypes : ContNew(r, s, ft)
     \/ \E r \in Ref :
          /\ Live(r)
          /\ \/ \E H \in SUBSET Tag, vs \in Vals(conts[r].n) : Resume(r, vs, H)
             \/ \E r2 \in Ref, n \in 0..conts[r].n : \E vs \in Vals(n) : ContBind(r, r2, vs)

(* The reductions of the innermost Handle.                                 *)
Handling ==
  \/ \E r \in Ref : Capture(r)
  \/ BarrierTrap
  \/ Unhandled
  \/ HandleValue

(* The reductions of exceptions.                                           *)
Exceptions ==
  \/ \E t \in Tag : \E vs \in Vals(TagParams[t]) : Throw(t, vs)
  \/ \E r \in Ref : Live(r) /\ \E x, y \in Tag, H \in SUBSET Tag :
       \E vs \in Vals(TagParams[y]) : ResumeThrow(r, x, y, vs, H)
  \/ \E i \in 1..Len(frames) : Catch(i)
  \/ Uncaught

RefNext == Instructions \/ Handling \/ Exceptions \/ \E r \in Ref : Forget(r)

RefSpec == RefInit /\ [][RefNext]_rvars
-----------------------------------------------------------------------------
FrameType ==
  [strand : Strand \cup {Main}, hs : SUBSET Tag, barrier : BOOLEAN, results : Nat]

(* Every variable has its type.                                            *)
RefTypeOK ==
  /\ frames \in Seq(FrameType) /\ Len(frames) > 0
  /\ conts \in [Ref -> [n : Nat, ctxt : Seq(FrameType), args : Seq(Val)] \cup {Null, Unused}]
  /\ ctl \in [kind : {"run", "suspending", "value", "throwing"}, tag : Tag \cup {Null}, vals : Seq(Val)]
  /\ got \in Seq(Val)

(***************************************************************************)
(* Continuations are one-shot: the contents of a ContRef are taken, never  *)
(* copied, so no computation is reachable twice - from two references, or  *)
(* from a reference and the running context - even when forwarding         *)
(* captures several computations at once.                                  *)
(***************************************************************************)
OneShot ==
  /\ \A r1, r2 \in Ref : Live(r1) /\ Live(r2) /\ r1 # r2 =>
       Strands(conts[r1].ctxt) \cap Strands(conts[r2].ctxt) = {}
  /\ \A r \in Ref : Live(r) => Strands(conts[r].ctxt) \cap Strands(frames) = {}

(***************************************************************************)
(* A barrier is never captured: no live continuation contains a Handle     *)
(* (None), so the code outside a barrier is never cut off from the block   *)
(* ("barrier hit by suspension").                                          *)
(***************************************************************************)
BarrierNeverCaptured ==
  \A r \in Ref : Live(r) => \A i \in DOMAIN conts[r].ctxt : ~conts[r].ctxt[i].barrier
=============================================================================
