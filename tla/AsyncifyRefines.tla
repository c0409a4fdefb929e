--------------------------- MODULE AsyncifyRefines --------------------------
(***************************************************************************)
(* Unwinding and rewinding implement fibers with stacks of their own, for  *)
(* every set of fibers, every depth of the stacks and every capacity.      *)
(***************************************************************************)
EXTENDS AsyncifyProofs

(* The refinement mapping.                                                 *)

(* The fibers that have been resumed.                                      *)
Chain(a) == [n \in 1 .. Len(a) - 1 |-> a[n + 1].fiber]

(* The chain by its elements.                                              *)
LEMMA ChainFacts ==
  ASSUME NEW a, CallStack(a)
  PROVE  /\ Chain(a) \in Seq(Fib) /\ Len(Chain(a)) = Len(a) - 1
         /\ \A n \in 1 .. Len(a) - 1 : Chain(a)[n] = a[n + 1].fiber
         /\ Chain(a) = << >> <=> Len(a) = 1
         /\ Len(a) > 1 => /\ Last(Chain(a)) = a[Len(a)].fiber
                          /\ a[Len(a) - 1].fiber =
                               IF Len(Chain(a)) = 1 THEN Main ELSE Chain(a)[Len(Chain(a)) - 1]
<1>1. PICK m \in Nat : Len(a) = m + 1 /\ Len(a) - 1 = m
  <2>1. PICK l \in Nat \ {0} : l = Len(a)
    BY DEF CallStack
  <2>2. l - 1 \in Nat /\ l = (l - 1) + 1
    BY <2>1
  <2> QED BY <2>1, <2>2
<1> DEFINE c == Chain(a)
<1>2. c = [n \in 1 .. m |-> a[n + 1].fiber]
  BY <1>1 DEF Chain
<1>3. \A n \in 1 .. m : a[n + 1].fiber \in Fib
  <2>1. \A n \in 1 .. m : n + 1 \in 2 .. Len(a)
    BY <1>1
  <2> QED BY <2>1 DEF CallStack
<1> HIDE DEF c
<1>4. c \in Seq(Fib) /\ Len(c) = m /\ \A n \in 1 .. m : c[n] = a[n + 1].fiber
  BY <1>2, <1>3, FunctionIsSeq
<1>5. c = << >> <=> m = 0
  BY <1>1, <1>4
<1>6. ASSUME m # 0
      PROVE  /\ Last(c) = a[m + 1].fiber
             /\ a[m].fiber = IF Len(c) = 1 THEN Main ELSE c[Len(c) - 1]
  <2>1. c # << >> /\ m \in 1 .. m
    BY <1>1, <1>5, <1>6
  <2>2. Last(c) = c[m]
    BY <1>4, <2>1, FrontLast, Zenon
  <2>3. m # 1 => m - 1 \in 1 .. m /\ (m - 1) + 1 = m
    BY <1>1, <1>6
  <2>4. a[1].fiber = Main
    BY DEF CallStack
  <2> QED BY <1>4, <2>1, <2>2, <2>3, <2>4
<1>7. (Len(a) > 1 => m # 0) /\ (Len(a) = 1 <=> m = 0)
  BY <1>1
<1>8. QED
  BY <1>1, <1>4, <1>5, <1>6, <1>7, SMTT(30) DEF c

(* Only the frames on top change: the same fibers are resumed.             *)
LEMMA ChainReplaces ==
  ASSUME NEW a, NEW s, NEW b, Replaces(a, s, b)
  PROVE  Chain(b) = Chain(a)
<1>1. /\ CallStack(a) /\ Len(b) = Len(a) /\ Len(a) \in Nat \ {0}
      /\ \A n \in 1 .. Len(a) : b[n].fiber = a[n].fiber
  BY ReplacesStack DEF Replaces, CallStack
<1>2. \A n \in 1 .. Len(a) - 1 : n + 1 \in 1 .. Len(a)
  BY <1>1
<1>3. QED
  BY <1>1, <1>2 DEF Chain

(* A fiber is added to them.                                               *)
LEMMA ChainPushes ==
  ASSUME NEW a, NEW f, NEW s, NEW b, Pushes(a, f, s, b)
  PROVE  Chain(b) = Append(Chain(a), f)
<1>1. /\ CallStack(a) /\ CallStack(b) /\ Len(b) = Len(a) + 1 /\ f \in Fib
      /\ \A n \in 1 .. Len(a) : b[n] = a[n]
      /\ b[Len(a) + 1].fiber = f
  <2>1. CallStack(a) /\ f \in Fib
    BY DEF Pushes
  <2>2. /\ CallStack(b) /\ Len(b) = Len(a) + 1
        /\ \A n \in 1 .. Len(a) : b[n] = a[n]
        /\ b[Len(a) + 1].fiber = f
    BY PushesStack
  <2> QED BY <2>1, <2>2
<1>2. PICK m \in Nat : Len(a) = m + 1 /\ Len(a) - 1 = m
  <2>1. PICK l \in Nat \ {0} : l = Len(a)
    BY <1>1 DEF CallStack
  <2>2. l - 1 \in Nat /\ l = (l - 1) + 1
    BY <2>1
  <2> QED BY <2>1, <2>2
<1>3. Len(b) - 1 = m + 1 /\ Len(b) = m + 2
  BY <1>1, <1>2
<1> DEFINE c == Chain(a)
           d == Chain(b)
           e == Append(c, f)
<1>4. c \in Seq(Fib) /\ Len(c) = m /\ \A n \in 1 .. m : c[n] = a[n + 1].fiber
  BY <1>1, <1>2, ChainFacts
<1>5. d \in Seq(Fib) /\ Len(d) = m + 1 /\ \A n \in 1 .. m + 1 : d[n] = b[n + 1].fiber
  BY <1>1, <1>3, ChainFacts, Zenon
<1> HIDE DEF c, d
<1>6. e \in Seq(Fib) /\ Len(e) = m + 1 /\ e[m + 1] = f /\ \A n \in 1 .. m : e[n] = c[n]
  BY <1>1, <1>4
<1> HIDE DEF e
<1>7. ASSUME NEW n \in 1 .. m + 1 PROVE d[n] = e[n]
  <2>1. CASE n = m + 1
    BY <1>1, <1>2, <1>5, <1>6, <2>1
  <2>2. CASE n # m + 1
    <3>1. n \in 1 .. m /\ n + 1 \in 1 .. Len(a)
      BY <1>2, <2>2
    <3> QED BY <1>1, <1>4, <1>5, <1>6, <3>1, Zenon
  <2> QED BY <2>1, <2>2
<1>8. d = e
  BY <1>5, <1>6, <1>7, SeqEqual
<1>9. QED
  BY <1>8 DEF c, d, e

(* The innermost is taken away.                                            *)
LEMMA ChainPops ==
  ASSUME NEW a, NEW s, NEW b, Pops(a, s, b)
  PROVE  Chain(b) = Front(Chain(a))
<1>1. /\ CallStack(a) /\ CallStack(b) /\ Len(b) = Len(a) - 1 /\ Len(a) > 1
      /\ \A n \in 1 .. Len(a) - 1 : b[n].fiber = a[n].fiber
  <2>1. CallStack(a) /\ Len(a) > 1
    BY DEF Pops
  <2>2. /\ CallStack(b) /\ Len(b) = Len(a) - 1
        /\ \A n \in 1 .. Len(a) - 1 : b[n].fiber = a[n].fiber
    BY PopsStack
  <2> QED BY <2>1, <2>2
<1>2. PICK m \in Nat : Len(a) = m + 2 /\ Len(a) - 1 = m + 1
  <2>1. PICK l \in Nat \ {0} : l = Len(a) /\ l > 1
    BY <1>1 DEF CallStack
  <2>2. l - 2 \in Nat /\ l = (l - 2) + 2 /\ l - 1 = (l - 2) + 1
    BY <2>1
  <2> QED BY <2>1, <2>2
<1>3. Len(b) - 1 = m /\ Len(b) = m + 1
  BY <1>1, <1>2
<1> DEFINE c == Chain(a)
           d == Chain(b)
           e == Front(c)
<1>4. c \in Seq(Fib) /\ Len(c) = m + 1 /\ \A n \in 1 .. m + 1 : c[n] = a[n + 1].fiber
  BY <1>1, <1>2, ChainFacts
<1>5. d \in Seq(Fib) /\ Len(d) = m /\ \A n \in 1 .. m : d[n] = b[n + 1].fiber
  BY <1>1, <1>3, ChainFacts, Zenon
<1> HIDE DEF c, d
<1>6. c # << >> /\ Len(c) - 1 = m
  BY <1>4
<1>7. e \in Seq(Fib) /\ Len(e) = m /\ \A n \in 1 .. m : e[n] = c[n]
  BY <1>4, <1>6, FrontLast, Zenon
<1> HIDE DEF e
<1>8. ASSUME NEW n \in 1 .. m PROVE d[n] = e[n]
  <2>1. n \in 1 .. m + 1 /\ n + 1 \in 1 .. Len(a) - 1
    BY <1>2
  <2> QED BY <1>1, <1>4, <1>5, <1>7, <2>1, Zenon
<1>9. d = e
  BY <1>5, <1>7, <1>8, SeqEqual
<1>10. QED
  BY <1>9 DEF c, d, e

(* The stage of a fiber with the state st, on the call stack or not, in    *)
(* the asyncify state k.                                                   *)
StageIn(st, used, k) ==
  IF st = "FREED" THEN "none"
  ELSE IF ~used THEN [ACTIVE |-> "fresh", YIELDING |-> "suspended", DONE |-> "done"][st]
  ELSE IF k = 0 THEN "running" ELSE IF k = 1 THEN "leaving" ELSE "landing"

(* The stage of f.                                                         *)
StageAt(f) ==
  StageIn(state[f], Uses(acts, f), IF f = active_fiber THEN asyncify_state ELSE 0)

(* All of the stack of f: its frames, then those that are unwound.         *)
FullStack(f) == StackIn(acts, f) \o (IF f = Main THEN << >> ELSE Decode(saved[f]))

(* The state of the abstract fibers in terms of the invariant.             *)
MapsTo ==
  /\ Stages = [f \in Fib |-> StageAt(f)]
  /\ Stacks = [f \in Fib \cup {Main} |-> FullStack(f)]
  /\ ResumedFibers = Chain(acts)
  /\ Stackful!Current = active_fiber
  /\ Stackful!Executing <=> Normal
  /\ active_fiber \in Fib => Stackful!Resumer = acts[Len(acts) - 1].fiber
  /\ Normal => FullStack(active_fiber) = Act.frames
  /\ active_fiber \in Fib =>
       FullStack(acts[Len(acts) - 1].fiber) = acts[Len(acts) - 1].frames

(* The stack of a fiber that is not switching is on the call stack.        *)
LEMMA SettledStack ==
  ASSUME AInv, NEW n \in 1 .. Len(acts), n # Len(acts) \/ asyncify_state = 0
  PROVE  FullStack(acts[n].fiber) = acts[n].frames
<1>1. CallStack(acts) /\ active_fiber = acts[Len(acts)].fiber
  BY DEF AInv, FramesOK, FramesAt
<1>2. Uses(acts, acts[n].fiber) /\ StackIn(acts, acts[n].fiber) = acts[n].frames
  BY <1>1, StackOfActivation
<1>3. acts[n].fiber \in Fib \cup {Main} /\ acts[n].frames \in Seq(FrameSet)
  <2>1. acts[n] \in Activation
    BY <1>1 DEF CallStack
  <2> QED BY <2>1 DEF Activation
<1>4. acts[n].frames \o << >> = acts[n].frames
  BY <1>3, ConcatEmptySeq
<1>5. CASE acts[n].fiber = Main
  BY <1>2, <1>4, <1>5 DEF FullStack
<1>6. CASE acts[n].fiber # Main
  <2>1. acts[n].fiber \in Fib
    BY <1>3, <1>6
  <2>2. acts[n].fiber # active_fiber \/ asyncify_state = 0
    BY <1>1 DEF CallStack
  <2>3. FiberOK(state[acts[n].fiber], saved[acts[n].fiber], Uses(acts, acts[n].fiber))
    BY <2>1, <2>2 DEF AInv, FibersOK
  <2>4. saved[acts[n].fiber] = << >>
    BY <1>2, <2>3 DEF FiberOK
  <2> QED BY <1>2, <1>4, <1>6, <2>4, DecodeEmpty, Zenon DEF FullStack
<1>7. QED
  BY <1>5, <1>6

(* The mapping of a state in which the invariant holds.                    *)
LEMMA Mapped == AInv => MapsTo
<1> SUFFICES ASSUME AInv PROVE MapsTo
  OBVIOUS
<1>1. /\ CallStack(acts) /\ Len(acts) \in Nat \ {0} /\ Act = acts[Len(acts)] /\ Act.fiber = active_fiber
      /\ active_fiber \in Fib \cup {Main}
      /\ active_fiber \in Fib <=> Len(acts) > 1
      /\ active_fiber \in Fib <=> active_fiber # Main
      /\ Uses(acts, active_fiber)
      /\ \A f : InUse(f) <=> Uses(acts, f)
  BY OnTopFacts
<1>2. Stages = [f \in Fib |-> StageAt(f)]
  <2>1. ASSUME NEW f \in Fib PROVE StageOf(f) = StageAt(f)
    BY <1>1 DEF StageOf, StageAt, StageIn
  <2> QED BY <2>1 DEF Stages
<1>3. Stacks = [f \in Fib \cup {Main} |-> FullStack(f)]
  <2>1. ASSUME NEW f PROVE OnStack(f) = StackIn(acts, f)
    BY DEF OnStack, StackIn, InUse, Uses
  <2> QED BY <2>1 DEF Stacks, FullStack
<1>4. ResumedFibers = Chain(acts)
  BY DEF ResumedFibers, Chain
<1>5. /\ Chain(acts) = << >> <=> Len(acts) = 1
      /\ Len(acts) > 1 => /\ Last(Chain(acts)) = acts[Len(acts)].fiber
                          /\ acts[Len(acts) - 1].fiber =
                               IF Len(Chain(acts)) = 1 THEN Main ELSE Chain(acts)[Len(Chain(acts)) - 1]
  BY <1>1, ChainFacts
<1>6. Len(acts) = 1 <=> ~(Len(acts) > 1)
  <2>1. PICK l \in Nat \ {0} : l = Len(acts)
    BY <1>1
  <2>2. l = 1 <=> ~(l > 1)
    OBVIOUS
  <2> QED BY <2>1, <2>2
<1>7. Stackful!Current = active_fiber
  BY <1>1, <1>4, <1>5, <1>6 DEF Stackful!Current, Stackful!Last, Last
<1>8. active_fiber \in Fib => Stackful!Resumer = acts[Len(acts) - 1].fiber
  BY <1>1, <1>4, <1>5 DEF Stackful!Resumer
<1>9. Stackful!Executing <=> Normal
  <2>1. active_fiber = Main => asyncify_state = 0
    BY AsyncifyAssumption DEF AInv, SwitchOK
  <2>2. active_fiber \in Fib => (Stages[active_fiber] = "running" <=> asyncify_state = 0)
    <3> SUFFICES ASSUME active_fiber \in Fib
                 PROVE  Stages[active_fiber] = "running" <=> asyncify_state = 0
      OBVIOUS
    <3>1. Stages[active_fiber] = StageIn(state[active_fiber], TRUE, asyncify_state)
      BY <1>1, <1>2 DEF StageAt, StageIn
    <3>2. asyncify_state = 0 => state[active_fiber] = "ACTIVE"
      BY <1>1 DEF AInv, FibersOK, FiberOK
    <3> QED BY <3>1, <3>2 DEF StageIn
  <2>3. active_fiber \in Fib => ResumedFibers # << >> /\ ResumedFibers[Len(ResumedFibers)] = active_fiber
    BY <1>1, <1>4, <1>5, <1>6 DEF Last
  <2>4. active_fiber = Main => ResumedFibers = << >>
    BY <1>1, <1>4, <1>5, <1>6
  <2>5. status = "ok" <=> ~(status = "trap")
    BY DEF AInv, AsyncifyTypeOK
  <2> QED BY <1>1, <2>1, <2>2, <2>3, <2>4, <2>5 DEF Stackful!Executing, Stackful!Last, Normal
<1>10. Normal => FullStack(active_fiber) = Act.frames
  <2>1. Len(acts) \in 1 .. Len(acts)
    BY <1>1
  <2> QED BY <1>1, <2>1, SettledStack DEF Normal
<1>11. active_fiber \in Fib => FullStack(acts[Len(acts) - 1].fiber) = acts[Len(acts) - 1].frames
  <2> SUFFICES ASSUME Len(acts) > 1
               PROVE  FullStack(acts[Len(acts) - 1].fiber) = acts[Len(acts) - 1].frames
    BY <1>1
  <2>1. PICK l \in Nat : l = Len(acts) /\ l > 1
    BY <1>1
  <2>2. l - 1 \in 1 .. l /\ l - 1 # l
    BY <2>1
  <2> QED BY <2>1, <2>2, SettledStack
<1>12. QED
  BY <1>2, <1>3, <1>4, <1>7, <1>8, <1>9, <1>10, <1>11 DEF MapsTo

(* The same in the next state.                                             *)
LEMMA MappedNext == AInv' => MapsTo'
<1>1. QED
  BY Mapped, PTL

-----------------------------------------------------------------------------
(* Every step is a step of the abstract fibers.                            *)

(* The function G differs from F at x only, where it is y.                 *)
Updates(D, F, G, x, y) ==
  /\ F = [d \in D |-> F[d]] /\ G = [d \in D |-> G[d]] /\ x \in D
  /\ \A d \in D : G[d] = IF d = x THEN y ELSE F[d]

(* Then it is F with another value there.                                  *)
LEMMA UpdatesIs ==
  ASSUME NEW D, NEW F, NEW G, NEW x, NEW y, Updates(D, F, G, x, y)
  PROVE  G = [F EXCEPT ![x] = y]
BY DEF Updates

(* The stages and the stacks at one fiber.                                 *)
LEMMA MapAt ==
  ASSUME MapsTo
  PROVE  /\ Stages = [f \in Fib |-> Stages[f]] /\ \A f \in Fib : Stages[f] = StageAt(f)
         /\ Stacks = [f \in Fib \cup {Main} |-> Stacks[f]]
         /\ \A f \in Fib \cup {Main} : Stacks[f] = FullStack(f)
BY Zenon DEF MapsTo

(* The same in the next state.                                             *)
LEMMA MapAtNext ==
  ASSUME MapsTo'
  PROVE  /\ Stages' = [f \in Fib |-> Stages'[f]] /\ \A f \in Fib : Stages'[f] = StageAt(f)'
         /\ Stacks' = [f \in Fib \cup {Main} |-> Stacks'[f]]
         /\ \A f \in Fib \cup {Main} : Stacks'[f] = FullStack(f)'
BY DEF MapsTo

(* No stage changes.                                                       *)
LEMMA StagesSame ==
  ASSUME MapsTo, MapsTo', \A f \in Fib : StageAt(f)' = StageAt(f)
  PROVE  Stages' = Stages
BY MapAt, MapAtNext

(* One stage changes.                                                      *)
LEMMA StagesChange ==
  ASSUME MapsTo, MapsTo', NEW x \in Fib, NEW y,
         \A f \in Fib : StageAt(f)' = IF f = x THEN y ELSE StageAt(f)
  PROVE  Stages' = [Stages EXCEPT ![x] = y]
<1>1. Updates(Fib, Stages, Stages', x, y)
  BY MapAt, MapAtNext DEF Updates
<1>2. QED
  BY <1>1, UpdatesIs

(* No stack changes.                                                       *)
LEMMA StacksSame ==
  ASSUME MapsTo, MapsTo', \A f \in Fib \cup {Main} : FullStack(f)' = FullStack(f)
  PROVE  Stacks' = Stacks
BY MapAt, MapAtNext

(* One stack changes.                                                      *)
LEMMA StacksChange ==
  ASSUME MapsTo, MapsTo', NEW x \in Fib \cup {Main}, NEW y,
         \A f \in Fib \cup {Main} : FullStack(f)' = IF f = x THEN y ELSE FullStack(f)
  PROVE  Stacks' = [Stacks EXCEPT ![x] = y]
<1>1. Updates(Fib \cup {Main}, Stacks, Stacks', x, y)
  BY MapAt, MapAtNext DEF Updates
<1>2. QED
  BY <1>1, UpdatesIs

(* The frames of the innermost fiber change in ordinary code.              *)
LEMMA MapStay ==
  ASSUME AInv, AInv', Normal, NEW s \in Seq(FrameSet), Replaces(acts, s, acts'), UNCHANGED Rest
  PROVE  /\ MapsTo /\ MapsTo' /\ active_fiber \in Fib \cup {Main}
         /\ Stages' = Stages /\ ResumedFibers' = ResumedFibers
         /\ Stacks' = [Stacks EXCEPT ![active_fiber] = s]
         /\ Stacks[active_fiber] = Act.frames
<1>1. MapsTo /\ MapsTo'
  BY Mapped, MappedNext
<1>2. active_fiber \in Fib \cup {Main} /\ active_fiber = acts[Len(acts)].fiber /\ asyncify_state = 0
  BY OnTopFacts DEF Normal
<1>3. /\ \A g : Uses(acts', g) <=> Uses(acts, g)
      /\ \A g : StackIn(acts', g) = IF g = acts[Len(acts)].fiber THEN s ELSE StackIn(acts, g)
  BY ReplacesStack
<1>4. Stages' = Stages
  <2>1. ASSUME NEW f \in Fib PROVE StageAt(f)' = StageAt(f)
    BY <1>2, <1>3, SMTT(30) DEF StageAt, StageIn, Rest
  <2> QED BY <1>1, <2>1, StagesSame, SMTT(30)
<1>5. ResumedFibers' = ResumedFibers
  BY <1>1, ChainReplaces DEF MapsTo
<1>6. Stacks' = [Stacks EXCEPT ![active_fiber] = s]
  <2>1. ASSUME NEW f \in Fib \cup {Main}
        PROVE  FullStack(f)' = IF f = active_fiber THEN s ELSE FullStack(f)
    <3>1. CASE f # active_fiber
      BY <1>2, <1>3, <3>1, SMTT(30) DEF FullStack, Rest
    <3>2. CASE f = active_fiber
      <4>1. FullStack(f)' = s \o (IF f = Main THEN << >> ELSE Decode(saved[f]))
        BY <1>2, <1>3, <3>2, Zenon DEF FullStack, Rest
      <4>2. f # Main => saved[f] = << >>
        <5>1. Uses(acts, f)
          BY <3>2, OnTopFacts
        <5> QED BY <1>2, <5>1 DEF AInv, FibersOK, FiberOK
      <4>3. s \o << >> = s
        BY ConcatEmptySeq
      <4> QED BY <3>2, <4>1, <4>2, <4>3, DecodeEmpty
    <3> QED BY <3>1, <3>2
  <2> QED BY <1>1, <1>2, <2>1, StacksChange, Zenon
<1>7. Stacks[active_fiber] = Act.frames
  BY <1>1, <1>2, MapAt, SMTT(30) DEF MapsTo
<1>8. QED
  BY <1>1, <1>2, <1>4, <1>5, <1>6, <1>7

(* A call of a function.                                                   *)
LEMMA CallMaps ==
  ASSUME AInv, AInv', NEW q \in Site, NEW v \in Val, Call(q, v)
  PROVE  Stackful!FibersNext
<1> DEFINE x == Act.frames
           s == Append([x EXCEPT ![Len(x)].pc = q], [pc |-> "run", loc |-> v])
<1>1. Replaces(acts, s, acts')
  BY CallStep
<1>2. UNCHANGED Rest /\ Normal
  BY DEF Call, Rest
<1>3. s \in Seq(FrameSet)
  <2> HIDE DEF s
  <2> QED BY <1>1 DEF Replaces
<1>4. /\ MapsTo /\ active_fiber \in Fib \cup {Main}
      /\ Stages' = Stages /\ ResumedFibers' = ResumedFibers
      /\ Stacks' = [Stacks EXCEPT ![active_fiber] = s]
      /\ Stacks[active_fiber] = x
  <2> HIDE DEF s
  <2> QED BY <1>1, <1>2, <1>3, MapStay
<1>5. Stackful!Current = active_fiber /\ Stackful!Executing
  BY <1>2, <1>4 DEF MapsTo
<1> HIDE DEF x
<1>6. Stackful!CallFunction(q, v)
  BY <1>2, <1>4, <1>5, Zenon DEF Stackful!CallFunction, Rest
<1>7. QED
  BY <1>6 DEF Stackful!FibersNext

(* A return from a function.                                               *)
LEMMA ReturnMaps ==
  ASSUME AInv, AInv', NEW v \in Val, Return(v)
  PROVE  Stackful!FibersNext
<1> DEFINE x == Act.frames
           s == Receive(Front(x), v)
<1>1. Replaces(acts, s, acts')
  BY ReturnStep
<1>2. UNCHANGED Rest /\ Normal /\ Len(x) > 1
  BY DEF Return, Rest
<1>3. s \in Seq(FrameSet)
  <2> HIDE DEF s
  <2> QED BY <1>1 DEF Replaces
<1>4. /\ MapsTo /\ active_fiber \in Fib \cup {Main}
      /\ Stages' = Stages /\ ResumedFibers' = ResumedFibers
      /\ Stacks' = [Stacks EXCEPT ![active_fiber] = s]
      /\ Stacks[active_fiber] = x
  <2> HIDE DEF s
  <2> QED BY <1>1, <1>2, <1>3, MapStay
<1>5. Stackful!Current = active_fiber /\ Stackful!Executing
  BY <1>2, <1>4, SMTT(30) DEF MapsTo
<1>6. Stackful!Receive(Stackful!Front(x), v) = s
  BY DEF Stackful!Receive, Stackful!Front, Receive, Front
<1> HIDE DEF x, s
<1>7. Stackful!ReturnFromFunction(v)
  BY <1>2, <1>4, <1>5, <1>6, Zenon DEF Stackful!ReturnFromFunction, Rest
<1>8. QED
  BY <1>7 DEF Stackful!FibersNext

(* A resume of a fiber that is done.                                       *)
LEMMA ResumeDoneMaps ==
  ASSUME AInv, AInv', NEW f \in Fib, FiberResumeDone(f)
  PROVE  Stackful!FibersNext
<1> DEFINE x == Act.frames
           s == Receive(x, 0)
<1>1. Replaces(acts, s, acts')
  BY ResumeDoneStep
<1>2. UNCHANGED Rest /\ Normal /\ state[f] = "DONE"
  BY DEF FiberResumeDone, Rest
<1>3. s \in Seq(FrameSet)
  <2> HIDE DEF s
  <2> QED BY <1>1 DEF Replaces
<1>4. /\ MapsTo /\ active_fiber \in Fib \cup {Main}
      /\ Stages' = Stages /\ ResumedFibers' = ResumedFibers
      /\ Stacks' = [Stacks EXCEPT ![active_fiber] = s]
      /\ Stacks[active_fiber] = x
  <2> HIDE DEF s
  <2> QED BY <1>1, <1>2, <1>3, MapStay
<1>5. Stackful!Current = active_fiber /\ Stackful!Executing
  BY <1>2, <1>4 DEF MapsTo
<1>6. Stackful!Receive(x, 0) = s
  BY DEF Stackful!Receive, Receive
<1>7. Stages[f] = "done"
  <2>1. ~Uses(acts, f)
    BY <1>2 DEF AInv, FibersOK, FiberOK, Normal
  <2> QED BY <1>2, <1>4, <2>1, MapAt DEF StageAt, StageIn
<1> HIDE DEF x, s
<1>8. Stackful!EnterDone(f)
  BY <1>2, <1>4, <1>5, <1>6, <1>7, Zenon DEF Stackful!EnterDone, Rest
<1>9. QED
  BY <1>8 DEF Stackful!FibersNext

(* Unwinding and rewinding a frame is no step of the abstract fibers.      *)
LEMMA SwitchMaps ==
  ASSUME AInv, AInv', Unwind \/ Rewind
  PROVE  UNCHANGED <<Stages, ResumedFibers, Stacks, arg, (status = "trap")>>
<1>1. PICK s, w : /\ SwitchesOn(s, w) /\ Replaces(acts, s, acts')
                  /\ s \o Decode(w) = Act.frames \o Decode(saved[active_fiber])
  BY UnwindStep, RewindStep, Zenon
<1>2. MapsTo /\ MapsTo'
  BY Mapped, MappedNext
<1>3. /\ active_fiber \in Fib /\ active_fiber = acts[Len(acts)].fiber /\ asyncify_data = active_fiber
      /\ active_fiber # Main /\ Act = acts[Len(acts)] /\ CallStack(acts)
      /\ Len(acts) \in 1 .. Len(acts)
  BY <1>1, OnTopFacts DEF AInv, SwitchOK, SwitchesOn
<1>4. /\ \A g : Uses(acts', g) <=> Uses(acts, g)
      /\ \A g : StackIn(acts', g) = IF g = acts[Len(acts)].fiber THEN s ELSE StackIn(acts, g)
  BY <1>1, ReplacesStack
<1>5. /\ UNCHANGED <<state, arg, active_fiber, asyncify_state, asyncify_data, status>>
      /\ saved' = [saved EXCEPT ![asyncify_data] = w]
  BY <1>1 DEF SwitchesOn
<1>6. Stages' = Stages
  <2>1. ASSUME NEW f \in Fib PROVE StageAt(f)' = StageAt(f)
    BY <1>4, <1>5, SMTT(30) DEF StageAt, StageIn
  <2> QED BY <1>2, <2>1, StagesSame
<1>7. ResumedFibers' = ResumedFibers
  BY <1>1, <1>2, ChainReplaces DEF MapsTo
<1>8. Stacks' = Stacks
  <2>1. saved'[active_fiber] = w /\ \A f \in Fib : f # active_fiber => saved'[f] = saved[f]
    BY <1>3, <1>5 DEF AInv, AsyncifyTypeOK
  <2>2. StackIn(acts, active_fiber) = Act.frames
    BY <1>3, StackOfActivation
  <2>3. ASSUME NEW f \in Fib \cup {Main} PROVE FullStack(f)' = FullStack(f)
    <3>1. CASE f = active_fiber
      BY <1>1, <1>3, <1>4, <2>1, <2>2, <3>1, Zenon DEF FullStack
    <3>2. CASE f # active_fiber
      BY <1>3, <1>4, <2>1, <3>2, SMTT(30) DEF FullStack
    <3> QED BY <3>1, <3>2, SMTT(30)
  <2> QED BY <1>2, <2>3, StacksSame
<1>9. QED
  BY <1>5, <1>6, <1>7, <1>8

(* A fiber is created.                                                     *)
LEMMA AllocMaps ==
  ASSUME AInv, AInv', NEW f \in Fib, FiberAlloc(f)
  PROVE  Stackful!FibersNext
<1>1. MapsTo /\ MapsTo'
  BY Mapped, MappedNext
<1>2. /\ Normal /\ asyncify_state = 0 /\ state[f] = "FREED"
      /\ state' = [state EXCEPT ![f] = "ACTIVE"]
      /\ arg' = [arg EXCEPT ![f] = 0]
      /\ saved' = [saved EXCEPT ![f] = << >>]
      /\ UNCHANGED <<acts, active_fiber, asyncify_state, asyncify_data, status>>
  BY DEF FiberAlloc, Normal
<1>3. ~Uses(acts, f) /\ saved[f] = << >>
  BY <1>2 DEF AInv, FibersOK, FiberOK
<1>4. saved' = saved
  BY <1>2, <1>3 DEF AInv, AsyncifyTypeOK
<1>5. Stages[f] = "none"
  BY <1>1, <1>2, MapAt DEF StageAt, StageIn
<1>6. Stages' = [Stages EXCEPT ![f] = "fresh"]
  <2>1. state'[f] = "ACTIVE" /\ \A g \in Fib : g # f => state'[g] = state[g]
    BY <1>2 DEF AInv, AsyncifyTypeOK
  <2>2. ASSUME NEW g \in Fib PROVE StageAt(g)' = IF g = f THEN "fresh" ELSE StageAt(g)
    BY <1>2, <1>3, <2>1 DEF StageAt, StageIn
  <2> QED BY <1>1, <2>2, StagesChange
<1>7. Stacks' = Stacks
  <2>1. ASSUME NEW g \in Fib \cup {Main} PROVE FullStack(g)' = FullStack(g)
    BY <1>2, <1>4 DEF FullStack
  <2> QED BY <1>1, <2>1, StacksSame
<1>8. ResumedFibers' = ResumedFibers
  BY <1>2, SMTT(30) DEF ResumedFibers
<1>9. Stackful!Executing
  BY <1>1, <1>2 DEF MapsTo
<1>10. Stackful!Create(f)
  BY <1>2, <1>5, <1>6, <1>7, <1>8, <1>9 DEF Stackful!Create
<1>11. QED
  BY <1>10 DEF Stackful!FibersNext

(* A fiber is destroyed.                                                   *)
LEMMA FreeMaps ==
  ASSUME AInv, AInv', NEW f \in Fib, FiberFree(f)
  PROVE  Stackful!FibersNext
<1>1. MapsTo /\ MapsTo'
  BY Mapped, MappedNext
<1>2. /\ Normal /\ asyncify_state = 0 /\ state[f] # "FREED" /\ ~Uses(acts, f)
      /\ state' = [state EXCEPT ![f] = "FREED"]
      /\ saved' = [saved EXCEPT ![f] = << >>]
      /\ UNCHANGED <<arg, acts, active_fiber, asyncify_state, asyncify_data, status>>
  <2>1. \A g : InUse(g) <=> Uses(acts, g)
    BY OnTopFacts
  <2> QED BY <2>1 DEF FiberFree, Normal
<1>3. Stages[f] \in {"fresh", "suspended", "done"}
  <2>1. state[f] \in {"ACTIVE", "YIELDING", "DONE"}
    BY <1>2 DEF AInv, AsyncifyTypeOK
  <2> QED BY <1>1, <1>2, <2>1, MapAt DEF StageAt, StageIn
<1>4. Stages' = [Stages EXCEPT ![f] = "none"]
  <2>1. state'[f] = "FREED" /\ \A g \in Fib : g # f => state'[g] = state[g]
    BY <1>2 DEF AInv, AsyncifyTypeOK
  <2>2. ASSUME NEW g \in Fib PROVE StageAt(g)' = IF g = f THEN "none" ELSE StageAt(g)
    BY <1>2, <2>1 DEF StageAt, StageIn
  <2> QED BY <1>1, <2>2, StagesChange
<1>5. Stacks' = [Stacks EXCEPT ![f] = << >>]
  <2>1. saved'[f] = << >> /\ \A g \in Fib : g # f => saved'[g] = saved[g]
    BY <1>2 DEF AInv, AsyncifyTypeOK
  <2>2. ASSUME NEW g \in Fib \cup {Main}, g # f PROVE FullStack(g)' = FullStack(g)
    BY <1>2, <2>1, <2>2 DEF FullStack
  <2>3. FullStack(f)' = << >>
    <3>1. StackIn(acts', f) = << >>
      BY <1>2 DEF StackIn
    <3>2. << >> \o << >> = << >>
      OBVIOUS
    <3>3. f # Main
      BY AsyncifyAssumption
    <3> QED BY <2>1, <3>1, <3>2, <3>3, DecodeEmpty DEF FullStack
  <2> QED BY <1>1, <2>2, <2>3, StacksChange
<1>6. ResumedFibers' = ResumedFibers
  BY <1>2, SMTT(30) DEF ResumedFibers
<1>7. Stackful!Executing
  BY <1>1, <1>2 DEF MapsTo
<1>8. Stackful!Destroy(f)
  BY <1>2, <1>3, <1>4, <1>5, <1>6, <1>7 DEF Stackful!Destroy
<1>9. QED
  BY <1>8 DEF Stackful!FibersNext

(* fiber_yield starts to leave.                                            *)
LEMMA YieldMaps ==
  ASSUME AInv, AInv', NEW v \in Val, FiberYield(v)
  PROVE  Stackful!FibersNext
<1> DEFINE x == Act.frames
           s == [x EXCEPT ![Len(x)].pc = "yield"]
           f == active_fiber
<1>1. MapsTo /\ MapsTo'
  BY Mapped, MappedNext
<1>2. Replaces(acts, s, acts') /\ f \in Fib
  BY YieldStep
<1>3. /\ Normal /\ status = "ok" /\ asyncify_state = 0 /\ asyncify_state' = 1
      /\ arg' = [arg EXCEPT ![f] = v]
      /\ state' = [state EXCEPT ![f] = "YIELDING"]
      /\ UNCHANGED <<saved, active_fiber, status>>
  BY DEF FiberYield, asyncify_start, Normal
<1>4. /\ f # Main /\ f = acts[Len(acts)].fiber /\ Uses(acts, f)
  BY <1>2, OnTopFacts
<1>5. Stacks[f] = x
  BY <1>1, <1>2, <1>3, MapAt DEF MapsTo
<1> HIDE DEF s
<1>6. /\ \A g : Uses(acts', g) <=> Uses(acts, g)
      /\ \A g : StackIn(acts', g) = IF g = acts[Len(acts)].fiber THEN s ELSE StackIn(acts, g)
  BY <1>2, ReplacesStack
<1>7. Stages' = [Stages EXCEPT ![f] = "leaving"]
  <2>1. state'[f] = "YIELDING" /\ \A g \in Fib : g # f => state'[g] = state[g]
    BY <1>2, <1>3, SMTT(30) DEF AInv, AsyncifyTypeOK
  <2>2. ASSUME NEW g \in Fib PROVE StageAt(g)' = IF g = f THEN "leaving" ELSE StageAt(g)
    BY <1>3, <1>4, <1>6, <2>1 DEF StageAt, StageIn
  <2> QED BY <1>1, <1>2, <2>2, StagesChange
<1>8. Stacks' = [Stacks EXCEPT ![f] = s]
  <2>1. ASSUME NEW g \in Fib \cup {Main}, g # f PROVE FullStack(g)' = FullStack(g)
    BY <1>3, <1>4, <1>6, <2>1, SMTT(30) DEF FullStack
  <2>2. ASSUME NEW g, g = f PROVE FullStack(g)' = s
    <3>1. saved[f] = << >>
      BY <1>2, <1>3, <1>4, SMTT(30) DEF AInv, FibersOK, FiberOK
    <3>2. s \o << >> = s
      BY <1>2, ConcatEmptySeq DEF Replaces
    <3> QED BY <2>2, <1>3, <1>4, <1>6, <3>1, <3>2, DecodeEmpty, Zenon DEF FullStack
  <2> QED BY <1>1, <1>2, <2>1, <2>2, StacksChange, SMTT(30)
<1>9. ResumedFibers' = ResumedFibers
  BY <1>1, <1>2, ChainReplaces, SMTT(30) DEF MapsTo
<1>10. Stackful!Executing /\ f = Stackful!Current
  BY <1>1, <1>3 DEF MapsTo
<1>11. s = [x EXCEPT ![Len(x)].pc = "yield"]
  BY DEF s
<1> HIDE DEF x, f
<1>12. Stackful!StartLeaving(f, v)
  BY <1>3, <1>5, <1>7, <1>8, <1>9, <1>10, <1>11, SMTT(30) DEF Stackful!StartLeaving
<1>13. QED
  BY <1>2, <1>12 DEF Stackful!FibersNext

(* A rewind ends: the fiber has its frames back.                           *)
LEMMA RewoundMaps ==
  ASSUME AInv, AInv', FiberYieldRewound
  PROVE  Stackful!FibersNext
<1> DEFINE x == Act.frames
           f == active_fiber
           s == Receive(x, arg[f])
<1>1. MapsTo /\ MapsTo'
  BY Mapped, MappedNext
<1>2. Replaces(acts, s, acts') /\ f \in Fib /\ saved[f] = << >>
  BY RewoundStep
<1>3. /\ status = "ok" /\ asyncify_state = 2 /\ asyncify_state' = 0
      /\ state[f] = "YIELDING"
      /\ state' = [state EXCEPT ![f] = "ACTIVE"]
      /\ UNCHANGED <<arg, saved, active_fiber, status>>
  BY SMTT(30) DEF FiberYieldRewound, asyncify_stop
<1>4. /\ f # Main /\ f = acts[Len(acts)].fiber /\ Uses(acts, f) /\ CallStack(acts)
      /\ x = acts[Len(acts)].frames /\ x \in Seq(FrameSet) /\ Len(acts) \in 1 .. Len(acts)
  BY <1>2, OnTopFacts
<1>5. Stacks[f] = x
  <2>1. StackIn(acts, f) = x
    BY <1>4, StackOfActivation
  <2>2. x \o << >> = x
    BY <1>4, ConcatEmptySeq, SMTT(30)
  <2>3. FullStack(f) = x
    BY <1>2, <1>4, <2>1, <2>2, DecodeEmpty DEF FullStack
  <2> QED BY <1>1, <1>2, <2>3, MapAt, SMTT(30)
<1>6. Stackful!Receive(x, arg[f]) = s
  BY DEF Stackful!Receive, Receive
<1> HIDE DEF s, x
<1>7. /\ \A g : Uses(acts', g) <=> Uses(acts, g)
      /\ \A g : StackIn(acts', g) = IF g = acts[Len(acts)].fiber THEN s ELSE StackIn(acts, g)
  BY <1>2, ReplacesStack
<1>8. Stages' = [Stages EXCEPT ![f] = "running"] /\ Stages[f] = "landing"
  <2>1. state'[f] = "ACTIVE" /\ \A g \in Fib : g # f => state'[g] = state[g]
    BY <1>2, <1>3, SMTT(30) DEF AInv, AsyncifyTypeOK
  <2>2. ASSUME NEW g \in Fib PROVE StageAt(g)' = IF g = f THEN "running" ELSE StageAt(g)
    BY <1>3, <1>4, <1>7, <2>1, SMTT(30) DEF StageAt, StageIn
  <2>3. StageAt(f) = "landing"
    BY <1>3, <1>4, SMTT(30) DEF StageAt, StageIn
  <2> QED BY <1>1, <1>2, <2>2, <2>3, StagesChange, MapAt, SMTT(30)
<1>9. Stacks' = [Stacks EXCEPT ![f] = s]
  <2>1. ASSUME NEW g \in Fib \cup {Main}, g # f PROVE FullStack(g)' = FullStack(g)
    BY <1>3, <1>4, <1>7, <2>1, SMTT(30) DEF FullStack
  <2>2. ASSUME NEW g, g = f PROVE FullStack(g)' = s
    <3>1. s \o << >> = s
      BY <1>2, ConcatEmptySeq, SMTT(30) DEF Replaces
    <3> QED BY <2>2, <1>2, <1>3, <1>4, <1>7, <3>1, DecodeEmpty, Zenon DEF FullStack
  <2> QED BY <1>1, <1>2, <2>1, <2>2, StacksChange, Zenon
<1>10. ResumedFibers' = ResumedFibers
  BY <1>1, <1>2, ChainReplaces, SMTT(30) DEF MapsTo
<1>11. Stackful!Land(f)
  <2> HIDE DEF f
  <2> QED BY <1>3, <1>5, <1>6, <1>8, <1>9, <1>10 DEF Stackful!Land
<1>12. QED
  BY <1>2, <1>11 DEF Stackful!FibersNext

(* A fiber that has not run is entered.                                    *)
LEMMA ResumeFreshMaps ==
  ASSUME AInv, AInv', NEW f \in Fib, NEW v \in Val, FiberResumeFresh(f, v)
  PROVE  Stackful!FibersNext
<1> DEFINE s == <<[pc |-> "run", loc |-> v]>>
<1>1. MapsTo /\ MapsTo'
  BY Mapped, MappedNext
<1>2. Pushes(acts, f, s, acts')
  BY ResumeFreshStep
<1>3. /\ Normal /\ asyncify_state = 0 /\ state[f] = "ACTIVE"
      /\ active_fiber' = f
      /\ UNCHANGED <<state, arg, saved, asyncify_state, asyncify_data, status>>
  BY DEF FiberResumeFresh, Normal
<1> HIDE DEF s
<1>4. ~Uses(acts, f) /\ s \in Seq(FrameSet) /\ f # Main
  BY <1>2, AsyncifyAssumption, SMTT(30) DEF Pushes
<1>5. saved[f] = << >>
  BY <1>3, <1>4 DEF AInv, FibersOK, FiberOK
<1>6. /\ \A g : Uses(acts', g) <=> Uses(acts, g) \/ g = f
      /\ \A g : StackIn(acts', g) = IF g = f THEN s ELSE StackIn(acts, g)
  BY <1>2, PushesStack
<1>7. Stages' = [Stages EXCEPT ![f] = "running"] /\ Stages[f] = "fresh"
  <2>1. ASSUME NEW g \in Fib PROVE StageAt(g)' = IF g = f THEN "running" ELSE StageAt(g)
    BY <1>3, <1>4, <1>6, SMTT(30) DEF StageAt, StageIn
  <2>2. StageAt(f) = "fresh"
    BY <1>3, <1>4 DEF StageAt, StageIn
  <2> QED BY <1>1, <2>1, <2>2, StagesChange, MapAt, SMTT(30)
<1>8. Stacks' = [Stacks EXCEPT ![f] = s]
  <2>1. ASSUME NEW g \in Fib \cup {Main}, g # f PROVE FullStack(g)' = FullStack(g)
    BY <1>3, <1>6, <2>1, SMTT(30) DEF FullStack
  <2>2. FullStack(f)' = s
    <3>1. s \o << >> = s
      BY <1>4, ConcatEmptySeq, SMTT(30)
    <3> QED BY <1>3, <1>4, <1>5, <1>6, <3>1, DecodeEmpty, SMTT(30) DEF FullStack
  <2> QED BY <1>1, <2>1, <2>2, StacksChange, SMTT(30)
<1>9. ResumedFibers' = Append(ResumedFibers, f)
  BY <1>1, <1>2, ChainPushes, SMTT(30) DEF MapsTo
<1>10. Stackful!Executing
  BY <1>1, <1>3 DEF MapsTo
<1>11. Stackful!EnterFresh(f, v)
  BY <1>3, <1>7, <1>8, <1>9, <1>10 DEF Stackful!EnterFresh, s
<1>12. QED
  BY <1>11 DEF Stackful!FibersNext

(* A suspended fiber is entered.                                           *)
LEMMA ResumeYieldingMaps ==
  ASSUME AInv, AInv', NEW f \in Fib, NEW v \in Val, FiberResumeYielding(f, v)
  PROVE  Stackful!FibersNext
<1>1. MapsTo /\ MapsTo'
  BY Mapped, MappedNext
<1>2. Pushes(acts, f, << >>, acts')
  BY ResumeYieldingStep
<1>3. /\ Normal /\ asyncify_state = 0 /\ state[f] = "YIELDING"
      /\ arg' = [arg EXCEPT ![f] = v]
      /\ active_fiber' = f /\ asyncify_state' = 2
      /\ UNCHANGED <<state, saved, status>>
  BY DEF FiberResumeYielding, asyncify_start, Normal
<1>4. ~Uses(acts, f) /\ f # Main
  BY <1>2, AsyncifyAssumption, SMTT(30) DEF Pushes
<1>5. /\ \A g : Uses(acts', g) <=> Uses(acts, g) \/ g = f
      /\ \A g : StackIn(acts', g) = IF g = f THEN << >> ELSE StackIn(acts, g)
  BY <1>2, PushesStack
<1>6. Stages' = [Stages EXCEPT ![f] = "landing"] /\ Stages[f] = "suspended"
  <2>1. ASSUME NEW g \in Fib PROVE StageAt(g)' = IF g = f THEN "landing" ELSE StageAt(g)
    BY <1>3, <1>4, <1>5, SMTT(30) DEF StageAt, StageIn
  <2>2. StageAt(f) = "suspended"
    BY <1>3, <1>4 DEF StageAt, StageIn
  <2> QED BY <1>1, <2>1, <2>2, StagesChange, MapAt, SMTT(30)
<1>7. Stacks' = Stacks
  <2>1. StackIn(acts, f) = << >>
    BY <1>4 DEF StackIn
  <2>2. ASSUME NEW g \in Fib \cup {Main} PROVE FullStack(g)' = FullStack(g)
    BY <1>3, <1>5, <2>1, SMTT(30) DEF FullStack
  <2> QED BY <1>1, <2>2, StacksSame
<1>8. ResumedFibers' = Append(ResumedFibers, f)
  BY <1>1, <1>2, ChainPushes, SMTT(30) DEF MapsTo
<1>9. Stackful!Executing
  BY <1>1, <1>3 DEF MapsTo
<1>10. Stackful!EnterSuspended(f, v)
  BY <1>3, <1>6, <1>7, <1>8, <1>9, SMTT(30) DEF Stackful!EnterSuspended
<1>11. QED
  BY <1>10 DEF Stackful!FibersNext

(* fiber_resume returns s to the frames below.                             *)
LEMMA MapBelow ==
  ASSUME AInv, AInv', active_fiber \in Fib, NEW s, Pops(acts, s, acts'),
         UNCHANGED <<saved, status>>,
         asyncify_state' = 0, active_fiber' = acts[Len(acts) - 1].fiber
  PROVE  /\ MapsTo /\ MapsTo' /\ active_fiber # Main
         /\ active_fiber' \in Fib \cup {Main} /\ active_fiber' # active_fiber
         /\ ResumedFibers' = Stackful!Front(ResumedFibers)
         /\ Stackful!Resumer = active_fiber'
         /\ Stacks[active_fiber'] = acts[Len(acts) - 1].frames
         /\ \A g : Uses(acts', g) <=> Uses(acts, g) /\ g # active_fiber
         /\ StackIn(acts', active_fiber) = << >>
         /\ \A g \in Fib \cup {Main} : g # active_fiber =>
              FullStack(g)' = IF g = active_fiber' THEN s ELSE FullStack(g)
<1> DEFINE f == acts[Len(acts)].fiber
           h == acts[Len(acts) - 1].fiber
<1>1. MapsTo /\ MapsTo'
  BY Mapped, MappedNext
<1>2. /\ CallStack(acts) /\ Len(acts) \in Nat \ {0} /\ active_fiber = f /\ active_fiber # Main
      /\ Len(acts) > 1 /\ s \in Seq(FrameSet)
  BY OnTopFacts DEF Pops
<1>3. PICK m \in Nat \ {0} : Len(acts) = m + 1 /\ Len(acts) - 1 = m
  <2>1. PICK l \in Nat : l = Len(acts) /\ l > 1
    BY <1>2
  <2>2. l - 1 \in Nat \ {0} /\ l = (l - 1) + 1
    BY <2>1, SMTT(30)
  <2> QED BY <2>1, <2>2
<1>4. h \in Fib \cup {Main} /\ h # f /\ Uses(acts, h)
  <2>1. m \in 1 .. Len(acts) /\ Len(acts) \in 1 .. Len(acts) /\ m # Len(acts)
    BY <1>3
  <2>2. acts[m] \in Activation /\ acts[m].fiber # acts[Len(acts)].fiber
    BY <1>2, <2>1 DEF CallStack
  <2>3. Uses(acts, acts[m].fiber)
    BY <2>1, SMTT(30) DEF Uses
  <2> QED BY <1>3, <2>2, <2>3 DEF Activation
<1>5. /\ \A g : Uses(acts', g) <=> Uses(acts, g) /\ g # f
      /\ \A g : StackIn(acts', g) = IF g = f THEN << >> ELSE IF g = h THEN s ELSE StackIn(acts, g)
  BY PopsStack, SMTT(30)
<1>6. ResumedFibers' = Stackful!Front(ResumedFibers)
  <2>1. Chain(acts') = Front(Chain(acts))
    BY ChainPops, SMTT(30)
  <2> QED BY <1>1, <2>1 DEF MapsTo, Front, Stackful!Front
<1>7. Stackful!Resumer = h /\ FullStack(h) = acts[Len(acts) - 1].frames
  BY <1>1 DEF MapsTo
<1> HIDE DEF f, h
<1>8. Stacks[h] = acts[Len(acts) - 1].frames
  BY <1>1, <1>4, <1>7, MapAt
<1>9. active_fiber' = h
  BY DEF h
<1>10. h # Main => saved[h] = << >>
  <2> SUFFICES ASSUME h # Main PROVE saved[h] = << >>
    BY SMTT(30)
  <2>1. FiberOK(state[h], saved[h], Uses(acts, h))
    BY <1>2, <1>4, Zenon DEF AInv, FibersOK
  <2> QED BY <1>4, <2>1 DEF FiberOK
<1>11. ASSUME NEW g \in Fib \cup {Main}, g # f
       PROVE  FullStack(g)' = IF g = h THEN s ELSE FullStack(g)
  <2>1. CASE g = h
    <3>1. s \o << >> = s
      BY <1>2, ConcatEmptySeq, SMTT(30)
    <3> QED BY <1>5, <1>10, <1>11, <2>1, <3>1, DecodeEmpty, Zenon DEF FullStack
  <2>2. CASE g # h
    BY <1>5, <1>11, <2>2 DEF FullStack
  <2> QED BY <2>1, <2>2
<1>12. QED
  BY <1>1, <1>2, <1>4, <1>5, <1>6, <1>7, <1>8, <1>9, <1>11, SMTT(30)

(* fiber_resume returns from a fiber that has been unwound.                *)
LEMMA YieldedMaps ==
  ASSUME AInv, AInv', FiberResumeYielded
  PROVE  Stackful!FibersNext
<1> DEFINE y == acts[Len(acts) - 1].frames
           s == Receive(y, arg[active_fiber])
<1>1. Pops(acts, s, acts') /\ active_fiber \in Fib
  BY YieldedStep
<1>2. /\ status = "ok" /\ asyncify_state = 1 /\ asyncify_state' = 0 /\ Act.frames = << >>
      /\ active_fiber' = Act.prev /\ UNCHANGED <<state, arg, saved, status>>
      /\ acts' = Below(arg[Act.fiber])
  BY DEF FiberResumeYielded, asyncify_stop, Prev
<1>3. /\ Act = acts[Len(acts)] /\ Act.fiber = active_fiber /\ CallStack(acts) /\ Uses(acts, active_fiber)
      /\ Len(acts) \in 1 .. Len(acts)
  BY OnTopFacts, SMTT(30)
<1>4. active_fiber' = acts[Len(acts) - 1].fiber
  <2>1. arg[active_fiber] \in Loc
    BY <1>1, SMTT(30) DEF AInv, AsyncifyTypeOK
  <2> QED BY <1>1, <1>2, <1>3, <2>1, BelowFacts, SMTT(30)
<1>5. Stackful!Receive(y, arg[active_fiber]) = s
  BY SMTT(30) DEF Stackful!Receive, Receive
<1> HIDE DEF s
<1>6. /\ MapsTo /\ MapsTo' /\ active_fiber # Main
      /\ active_fiber' \in Fib \cup {Main} /\ active_fiber' # active_fiber
      /\ ResumedFibers' = Stackful!Front(ResumedFibers)
      /\ Stackful!Resumer = active_fiber'
      /\ Stacks[active_fiber'] = y
      /\ \A g : Uses(acts', g) <=> Uses(acts, g) /\ g # active_fiber
      /\ StackIn(acts', active_fiber) = << >>
      /\ \A g \in Fib \cup {Main} : g # active_fiber =>
           FullStack(g)' = IF g = active_fiber' THEN s ELSE FullStack(g)
  BY <1>1, <1>2, <1>4, MapBelow, SMTT(30)
<1>7. Stacks' = [Stacks EXCEPT ![active_fiber'] = s]
  <2>1. StackIn(acts, active_fiber) = << >>
    BY <1>2, <1>3, StackOfActivation, SMTT(30)
  <2>2. ASSUME NEW g, g = active_fiber PROVE FullStack(g)' = FullStack(g)
    BY <1>2, <1>6, <2>1, <2>2, SMTT(30) DEF FullStack
  <2>3. ASSUME NEW g \in Fib \cup {Main}
        PROVE  FullStack(g)' = IF g = active_fiber' THEN s ELSE FullStack(g)
    BY <1>6, <2>2, SMTT(30)
  <2> QED BY <1>6, <2>3, StacksChange, Zenon
<1>8. state[active_fiber] = "YIELDING"
  BY <1>2 DEF AInv, SwitchOK
<1>9. Stages[active_fiber] = "leaving"
  <2>1. StageAt(active_fiber) = "leaving"
    BY <1>2, <1>3, <1>8, SMTT(30) DEF StageAt, StageIn
  <2> QED BY <1>1, <1>6, <2>1, MapAt, SMTT(30)
<1>10. Stages' = [Stages EXCEPT ![active_fiber] = "suspended"]
  <2>1. ASSUME NEW g \in Fib PROVE StageAt(g)' = IF g = active_fiber THEN "suspended" ELSE StageAt(g)
    <3>1. CASE g = active_fiber
      <4>1. state'[g] = "YIELDING" /\ ~Uses(acts', g)
        BY <1>2, <1>6, <1>8, <3>1
      <4>2. ASSUME NEW u, ~u, NEW k PROVE StageIn("YIELDING", u, k) = "suspended"
        BY <4>2, SMTT(30) DEF StageIn
      <4> QED BY <3>1, <4>1, <4>2, SMTT(30) DEF StageAt
    <3>2. CASE g # active_fiber
      BY <1>2, <1>6, <3>2, SMTT(30) DEF StageAt, StageIn
    <3> QED BY <3>1, <3>2
  <2> QED BY <1>1, <1>6, <2>1, StagesChange, Zenon
<1> HIDE DEF y
<1>11. Stackful!Leave(active_fiber)
  BY <1>2, <1>5, <1>6, <1>7, <1>9, <1>10, ZenonT(30) DEF Stackful!Leave
<1>12. QED
  BY <1>1, <1>11 DEF Stackful!FibersNext

(* fiber_resume returns from a fiber that has returned.                    *)
LEMMA FinishedMaps ==
  ASSUME AInv, AInv', NEW v \in Val, FiberResumeFinished(v)
  PROVE  Stackful!FibersNext
<1> DEFINE y == acts[Len(acts) - 1].frames
           s == Receive(y, v)
<1>1. Pops(acts, s, acts') /\ active_fiber \in Fib
  BY FinishedStep
<1>2. /\ Normal /\ status = "ok" /\ asyncify_state = 0 /\ asyncify_state' = 0 /\ Len(Act.frames) = 1
      /\ active_fiber' = Act.prev /\ UNCHANGED <<arg, saved, status>>
      /\ state' = [state EXCEPT ![Act.fiber] = "DONE"] /\ acts' = Below(v)
  BY DEF FiberResumeFinished, asyncify_stop, Prev, Normal
<1>3. /\ Act = acts[Len(acts)] /\ Act.fiber = active_fiber /\ CallStack(acts) /\ Uses(acts, active_fiber)
  BY OnTopFacts
<1>4. active_fiber' = acts[Len(acts) - 1].fiber
  <2>1. v \in Loc
    BY SMTT(30) DEF Loc
  <2> QED BY <1>1, <1>2, <1>3, <2>1, BelowFacts
<1>5. Stackful!Receive(y, v) = s
  BY DEF Stackful!Receive, Receive
<1> HIDE DEF s
<1>6. /\ MapsTo /\ MapsTo' /\ active_fiber # Main
      /\ active_fiber' \in Fib \cup {Main} /\ active_fiber' # active_fiber
      /\ ResumedFibers' = Stackful!Front(ResumedFibers)
      /\ Stackful!Resumer = active_fiber'
      /\ Stacks[active_fiber'] = y
      /\ \A g : Uses(acts', g) <=> Uses(acts, g) /\ g # active_fiber
      /\ StackIn(acts', active_fiber) = << >>
      /\ \A g \in Fib \cup {Main} : g # active_fiber =>
           FullStack(g)' = IF g = active_fiber' THEN s ELSE FullStack(g)
  BY <1>1, <1>2, <1>4, MapBelow, Zenon
<1>7. Stacks' = [Stacks EXCEPT ![active_fiber] = << >>, ![active_fiber'] = s]
  <2>1. saved[active_fiber] = << >>
    BY <1>1, <1>2, <1>3, Zenon DEF AInv, FibersOK, FiberOK
  <2>2. ASSUME NEW g, g = active_fiber PROVE FullStack(g)' = << >>
    <3>1. << >> \o << >> = << >>
      OBVIOUS
    <3> QED BY <1>2, <1>6, <2>1, <2>2, <3>1, DecodeEmpty, Zenon DEF FullStack
  <2>3. ASSUME NEW g \in Fib \cup {Main}
        PROVE  FullStack(g)' = IF g = active_fiber THEN << >>
                               ELSE IF g = active_fiber' THEN s ELSE FullStack(g)
    BY <1>6, <2>2, SMTT(30)
  <2> DEFINE D == Fib \cup {Main}
             F == Stacks
             G == Stacks'
             b == active_fiber
             c == active_fiber'
  <2>4. /\ F = [d \in D |-> F[d]] /\ G = [d \in D |-> G[d]] /\ b \in D /\ c \in D /\ b # c
        /\ \A d \in D : G[d] = IF d = b THEN << >> ELSE IF d = c THEN s ELSE F[d]
    BY <1>1, <1>6, <2>3, MapAt, MapAtNext, SMTT(30)
  <2> HIDE DEF D, F, G, b, c
  <2>5. G = [F EXCEPT ![b] = << >>, ![c] = s]
    BY <2>4
  <2> QED BY <2>5 DEF F, G, b, c
<1>8. Len(Stacks[active_fiber]) = 1
  BY <1>1, <1>2, <1>6, MapAt, Zenon DEF MapsTo
<1>9. Stages' = [Stages EXCEPT ![active_fiber] = "done"]
  <2>1. state'[active_fiber] = "DONE" /\ \A g \in Fib : g # active_fiber => state'[g] = state[g]
    BY <1>1, <1>2, <1>3 DEF AInv, AsyncifyTypeOK
  <2>2. ASSUME NEW g \in Fib PROVE StageAt(g)' = IF g = active_fiber THEN "done" ELSE StageAt(g)
    <3>1. CASE g = active_fiber
      <4>1. state'[g] = "DONE" /\ ~Uses(acts', g)
        BY <1>6, <2>1, <3>1, SMTT(30)
      <4>2. ASSUME NEW u, ~u, NEW k PROVE StageIn("DONE", u, k) = "done"
        BY <4>2 DEF StageIn
      <4> QED BY <3>1, <4>1, <4>2, SMTT(30) DEF StageAt
    <3>2. CASE g # active_fiber
      BY <1>2, <1>6, <2>1, <3>2, SMTT(30) DEF StageAt, StageIn
    <3> QED BY <3>1, <3>2, SMTT(30)
  <2> QED BY <1>1, <1>6, <2>2, StagesChange, Zenon
<1>10. Stackful!Executing /\ active_fiber = Stackful!Current
  BY <1>2, <1>6, Zenon DEF MapsTo
<1>11. [Stacks EXCEPT ![active_fiber] = << >>][active_fiber'] = y
  <2>1. Stacks = [d \in Fib \cup {Main} |-> Stacks[d]]
    BY <1>6, MapAt, SMTT(30)
  <2> HIDE DEF y
  <2> QED BY <1>1, <1>6, <2>1
<1> HIDE DEF y
<1>12. Stackful!Finish(active_fiber, v)
  BY <1>2, <1>5, <1>6, <1>7, <1>8, <1>9, <1>10, <1>11, SMTT(30) DEF Stackful!Finish
<1>13. QED
  BY <1>1, <1>12, SMTT(30) DEF Stackful!FibersNext

(* A trap.                                                                 *)
LEMMA TrapMaps ==
  ASSUME StopUnwindTraps
  PROVE  Stackful!FibersNext
<1>1. /\ UNCHANGED <<state, arg, saved, acts, active_fiber, asyncify_state, asyncify_data>>
      /\ status = "ok" /\ status' = "trap"
  BY SMTT(30) DEF StopUnwindTraps
<1>2. Stages' = Stages
  BY <1>1 DEF Stages, StageOf, InUse, Act, Last
<1>3. Stacks' = Stacks
  BY <1>1 DEF Stacks, OnStack, InUse
<1>4. ResumedFibers' = ResumedFibers
  BY <1>1 DEF ResumedFibers
<1>5. Stackful!Abort
  BY <1>1, <1>2, <1>3, <1>4, SMTT(30) DEF Stackful!Abort
<1>6. QED
  BY <1>5 DEF Stackful!FibersNext

(* Every step is an abstract step or none.                                 *)
LEMMA StepMaps ==
  AInv /\ AInv' /\ [AsyncifyNext]_asyncifyVars => [Stackful!FibersNext]_(Stackful!fibersVars)
<1> SUFFICES ASSUME AInv, AInv', [AsyncifyNext]_asyncifyVars
             PROVE  [Stackful!FibersNext]_(Stackful!fibersVars)
  OBVIOUS
<1>1. CASE UNCHANGED asyncifyVars
  <2>1. /\ UNCHANGED <<state, arg, saved, acts, active_fiber, asyncify_state, asyncify_data, status>>
    BY <1>1, SMTT(30) DEF asyncifyVars
  <2>2. Stages' = Stages
    BY <2>1 DEF Stages, StageOf, InUse, Act, Last
  <2>3. Stacks' = Stacks
    BY <2>1 DEF Stacks, OnStack, InUse
  <2>4. ResumedFibers' = ResumedFibers
    BY <2>1 DEF ResumedFibers
  <2> QED BY <2>1, <2>2, <2>3, <2>4 DEF Stackful!fibersVars
<1>2. CASE Unwind \/ Rewind
  BY <1>2, SwitchMaps DEF Stackful!fibersVars
<1>3. CASE FiberYieldRewound
  BY <1>3, RewoundMaps
<1>4. CASE FiberResumeYielded
  BY <1>4, YieldedMaps
<1>5. CASE StopUnwindTraps
  BY <1>5, TrapMaps
<1>6. ASSUME NEW v \in Val, Return(v) PROVE Stackful!FibersNext
  BY <1>6, ReturnMaps
<1>7. ASSUME NEW v \in Val, FiberYield(v) PROVE Stackful!FibersNext
  BY <1>7, YieldMaps
<1>8. ASSUME NEW v \in Val, FiberResumeFinished(v) PROVE Stackful!FibersNext
  BY <1>8, FinishedMaps
<1>9. ASSUME NEW v \in Val, NEW q \in Site, Call(q, v) PROVE Stackful!FibersNext
  BY <1>9, CallMaps
<1>10. ASSUME NEW f \in Fib, FiberAlloc(f) PROVE Stackful!FibersNext
  BY <1>10, AllocMaps
<1>11. ASSUME NEW f \in Fib, FiberFree(f) PROVE Stackful!FibersNext
  BY <1>11, FreeMaps
<1>12. ASSUME NEW f \in Fib, FiberResumeDone(f) PROVE Stackful!FibersNext
  BY <1>12, ResumeDoneMaps
<1>13. ASSUME NEW f \in Fib, NEW v \in Val, FiberResumeFresh(f, v) PROVE Stackful!FibersNext
  BY <1>13, ResumeFreshMaps
<1>14. ASSUME NEW f \in Fib, NEW v \in Val, FiberResumeYielding(f, v) PROVE Stackful!FibersNext
  BY <1>14, ResumeYieldingMaps, SMTT(30)
<1>15. QED
  BY <1>1, <1>2, <1>3, <1>4, <1>5, <1>6, <1>7, <1>8, <1>9, <1>10, <1>11, <1>12, <1>13, <1>14, SMTT(30)
     DEF AsyncifyNext, Switching

(* The first state is a first state of the abstract fibers.                *)
LEMMA StartMaps == AsyncifyInit => Stackful!FibersInit
<1> SUFFICES ASSUME AsyncifyInit PROVE Stackful!FibersInit
  OBVIOUS
<1>1. PICK v \in Val :
        acts = <<[fiber |-> Main, prev |-> Main, frames |-> <<[pc |-> "run", loc |-> v]>>]>>
  BY SMTT(30) DEF AsyncifyInit, None
<1> DEFINE s == <<[pc |-> "run", loc |-> v]>>
<1>2. /\ FramesAt(acts, Main, 0) /\ Len(acts) = 1
      /\ acts[1].frames = s /\ acts[1].fiber = Main
      /\ \A f \in Fib : ~Uses(acts, f)
  BY <1>1, StartStack, SMTT(30)
<1> HIDE DEF s
<1>3. /\ state = [f \in Fib |-> "FREED"] /\ arg = [f \in Fib |-> 0]
      /\ saved = [f \in Fib |-> << >>] /\ status = "ok"
  BY DEF AsyncifyInit
<1>4. CallStack(acts)
  BY <1>2, SMTT(30) DEF FramesAt
<1>5. Stages = [f \in Fib |-> "none"]
  BY <1>3 DEF Stages, StageOf
<1>6. ResumedFibers = << >>
  <2>1. Chain(acts) = << >>
    BY <1>2, <1>4, ChainFacts, SMTT(30)
  <2> QED BY <2>1 DEF Chain, ResumedFibers
<1>7. Stacks = [f \in Fib \cup {Main} |-> IF f = Main THEN s ELSE << >>]
  <2>1. MapsTo
    BY AStarts, Mapped, SMTT(30)
  <2>2. 1 \in 1 .. Len(acts) /\ acts[1] \in Activation
    BY <1>2, <1>4, SMTT(30) DEF CallStack
  <2>3. StackIn(acts, Main) = s /\ s \in Seq(FrameSet)
    BY <1>2, <1>4, <2>2, StackOfActivation DEF Activation
  <2>4. FullStack(Main) = s
    <3>1. s \o << >> = s
      BY <2>3, ConcatEmptySeq
    <3> QED BY <2>3, <3>1 DEF FullStack
  <2>5. ASSUME NEW f \in Fib PROVE FullStack(f) = << >>
    <3>1. StackIn(acts, f) = << >> /\ saved[f] = << >> /\ f # Main
      BY <1>2, <1>3, AsyncifyAssumption DEF StackIn
    <3>2. << >> \o << >> = << >>
      OBVIOUS
    <3> QED BY <3>1, <3>2, DecodeEmpty, SMTT(30) DEF FullStack
  <2>6. \A f \in Fib \cup {Main} : FullStack(f) = IF f = Main THEN s ELSE << >>
    BY <2>4, <2>5, Zenon
  <2> QED BY <2>1, <2>6 DEF MapsTo
<1>8. QED
  BY <1>1, <1>3, <1>5, <1>6, <1>7 DEF Stackful!FibersInit, s

(* Unwinding and rewinding implement fibers with stacks of their own: a    *)
(* resumed fiber is in the frames, at the calls and with the locals it     *)
(* yielded with.                                                           *)
THEOREM AsyncifyImplements == AsyncifySpec => ImplementsStackful
<1>1. QED
  BY Asyncified, StartMaps, StepMaps, PTL
     DEF AsyncifySpec, ImplementsStackful, Stackful!FibersSpec
=============================================================================
