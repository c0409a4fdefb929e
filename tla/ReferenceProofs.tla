-------------------------- MODULE ReferenceProofs ---------------------------
(***************************************************************************)
(* The reference semantics is type correct and its continuations are       *)
(* one-shot, for every number of computations, references, tags and        *)
(* nested Handles.                                                         *)
(*                                                                         *)
(* OneShot is not inductive: a capture cuts frames in two, and nothing in  *)
(* it says that the parts have no computation in common.  StrandsNest adds *)
(* what is needed: only a barrier runs the computation of a frame further  *)
(* out, and a capture never cuts at a barrier or takes one along.          *)
(***************************************************************************)
EXTENDS ReferenceSemantics, WellFoundedInduction, TLAPS

(* A computation is in two frames only across a barrier, and never twice   *)
(* in one continuation.                                                    *)
StrandsNest ==
  /\ \A i, j \in DOMAIN frames :
       i < j /\ frames[i].strand = frames[j].strand => frames[j].barrier
  /\ \A r \in Ref : Live(r) =>
       \A i, j \in DOMAIN conts[r].ctxt :
         conts[r].ctxt[i].strand = conts[r].ctxt[j].strand => i = j

(* The outermost frame is that of the invocation.                          *)
MainOutermost == frames[1].strand = Main

(* What suspends or is thrown has a tag; a value goes to a frame below.    *)
TagInFlight ==
  /\ ctl.kind \in {"suspending", "throwing"} => ctl.tag \in Tag
  /\ ctl.kind = "value" => Len(frames) > 1

(* The inductive invariant.                                                *)
RefInv ==
  /\ RefTypeOK /\ OneShot /\ BarrierNeverCaptured
  /\ StrandsNest /\ MainOutermost /\ TagInFlight

(* Concatenation by its elements.                                          *)
LEMMA ConcatProperties ==
  ASSUME NEW S, NEW s \in Seq(S), NEW t \in Seq(S)
  PROVE  /\ s \o t \in Seq(S)
         /\ Len(s \o t) = Len(s) + Len(t)
         /\ \A i \in 1 .. Len(s) + Len(t) : (s \o t)[i] = IF i <= Len(s) THEN s[i] ELSE t[i - Len(s)]
  OBVIOUS

(* A part of a sequence by its elements.                                   *)
LEMMA SubSeqProperties ==
  ASSUME NEW S, NEW s \in Seq(S), NEW m \in 1 .. Len(s) + 1, NEW n \in m - 1 .. Len(s)
  PROVE  /\ SubSeq(s, m, n) \in Seq(S)
         /\ Len(SubSeq(s, m, n)) = n - m + 1
         /\ \A i \in 1 .. n - m + 1 : SubSeq(s, m, n)[i] = s[m + i - 1]
  OBVIOUS

(* A live reference holds a context.                                       *)
LEMMA LiveContext ==
  ASSUME RefTypeOK, NEW r \in Ref, Live(r)
  PROVE  conts[r] \in [n : Nat, ctxt : Seq(FrameType), args : Seq(Val)]
BY DEF RefTypeOK, Live

(* Giving the outermost frame of a context its handlers changes nothing    *)
(* else of it.                                                             *)
LEMMA WithHandlers ==
  ASSUME NEW c \in Seq(FrameType), NEW H \in SUBSET Tag
  PROVE  /\ [c EXCEPT ![1].hs = H] \in Seq(FrameType)
         /\ Len([c EXCEPT ![1].hs = H]) = Len(c)
         /\ DOMAIN [c EXCEPT ![1].hs = H] = DOMAIN c
         /\ \A i \in DOMAIN c : /\ [c EXCEPT ![1].hs = H][i].strand = c[i].strand
                                /\ [c EXCEPT ![1].hs = H][i].barrier = c[i].barrier
<1> DEFINE e == [c EXCEPT ![1].hs = H]
<1>1. DOMAIN e = 1..Len(c)
  OBVIOUS
<1>2. \A i \in 1..Len(c) : c[i] \in FrameType
  OBVIOUS
<1>3. \A i \in 1..Len(c) : /\ e[i] \in FrameType
                           /\ e[i].strand = c[i].strand
                           /\ e[i].barrier = c[i].barrier
  BY <1>2 DEF FrameType
<1>4. e = [i \in 1..Len(c) |-> e[i]] /\ Len(c) \in Nat
  <2>1. DOMAIN c = 1..Len(c) /\ Len(c) \in Nat
    OBVIOUS
  <2> QED BY <2>1, Zenon
<1> HIDE DEF e
<1>5. e \in [1..Len(c) -> FrameType]
  BY <1>3, <1>4
<1>6. e \in Seq(FrameType) /\ Len(e) = Len(c)
  BY <1>1, <1>4, <1>5
<1> QED
  BY <1>1, <1>3, <1>6 DEF e

(* OneShot, frame by frame.                                                *)
LEMMA Apart ==
  ASSUME OneShot
  PROVE  /\ \A q \in Ref : Live(q) =>
              \A k \in DOMAIN conts[q].ctxt, i \in DOMAIN frames :
                conts[q].ctxt[k].strand # frames[i].strand
         /\ \A q, r \in Ref : Live(q) /\ Live(r) /\ q # r =>
              \A k \in DOMAIN conts[q].ctxt, i \in DOMAIN conts[r].ctxt :
                conts[q].ctxt[k].strand # conts[r].ctxt[i].strand
<1>1. ASSUME NEW q \in Ref, Live(q), NEW k \in DOMAIN conts[q].ctxt, NEW i \in DOMAIN frames,
             conts[q].ctxt[k].strand = frames[i].strand
      PROVE  FALSE
  <2>1. conts[q].ctxt[k].strand \in Strands(conts[q].ctxt)
    BY Zenon DEF Strands
  <2>2. frames[i].strand \in Strands(frames)
    BY Zenon DEF Strands
  <2> QED BY <2>1, <2>2, <1>1 DEF OneShot
<1>2. ASSUME NEW q \in Ref, NEW r \in Ref, Live(q), Live(r), q # r,
             NEW k \in DOMAIN conts[q].ctxt, NEW i \in DOMAIN conts[r].ctxt,
             conts[q].ctxt[k].strand = conts[r].ctxt[i].strand
      PROVE  FALSE
  <2>1. conts[q].ctxt[k].strand \in Strands(conts[q].ctxt)
    BY Zenon DEF Strands
  <2>2. conts[r].ctxt[i].strand \in Strands(conts[r].ctxt)
    BY Zenon DEF Strands
  <2> QED BY <2>1, <2>2, <1>2, Zenon DEF OneShot
<1> QED BY <1>1, <1>2

(* Reinstating a live context keeps the invariant of the frames, and takes *)
(* the context out of the store.                                           *)
LEMMA Reinstates ==
  ASSUME RefInv, NEW r \in Ref, Live(r), NEW H \in SUBSET Tag,
         conts' = [conts EXCEPT ![r] = Null],
         frames' = frames \o [conts[r].ctxt EXCEPT ![1].hs = H]
  PROVE  /\ frames' \in Seq(FrameType) /\ Len(frames') > 0
         /\ conts' \in [Ref -> [n : Nat, ctxt : Seq(FrameType), args : Seq(Val)] \cup {Null, Unused}]
         /\ OneShot' /\ BarrierNeverCaptured' /\ StrandsNest' /\ MainOutermost'
<1> DEFINE c == conts[r].ctxt
           e == [c EXCEPT ![1].hs = H]
<1>1. c \in Seq(FrameType)
  BY LiveContext DEF RefInv
<1>2. /\ e \in Seq(FrameType) /\ Len(e) = Len(c) /\ DOMAIN e = DOMAIN c
      /\ \A i \in DOMAIN c : e[i].strand = c[i].strand /\ e[i].barrier = c[i].barrier
  BY <1>1, WithHandlers, Zenon
<1> HIDE DEF e
<1>3. frames' = frames \o e
  BY DEF e
<1>4. frames \in Seq(FrameType) /\ Len(frames) > 0
  BY DEF RefInv, RefTypeOK
<1>5. frames' \in Seq(FrameType) /\ Len(frames') > 0 /\ Len(frames') = Len(frames) + Len(c)
  <2>1. Len(frames) \in Nat /\ Len(e) \in Nat
    BY <1>2, <1>4
  <2>2. frames \o e \in Seq(FrameType) /\ Len(frames \o e) = Len(frames) + Len(e)
    BY <1>2, <1>4, ConcatProperties, Zenon
  <2> HIDE DEF c
  <2>3. frames' \in Seq(FrameType)
    BY <2>2, <1>3, Zenon
  <2>4. Len(frames') = Len(frames) + Len(e)
    BY <2>2, <1>3, Zenon
  <2>5. Len(frames) + Len(e) > 0
    BY <2>1, <1>4
  <2> QED BY <2>3, <2>4, <2>5, <1>2, Zenon
<1>6. /\ \A i \in DOMAIN frames : frames'[i] = frames[i]
      /\ \A i \in DOMAIN frames' : i \notin DOMAIN frames =>
           /\ i - Len(frames) \in DOMAIN c
           /\ frames'[i].strand = c[i - Len(frames)].strand
  BY <1>2, <1>3, <1>4, <1>5, <1>1, SMTT(30)
<1>7. conts' \in [Ref -> [n : Nat, ctxt : Seq(FrameType), args : Seq(Val)] \cup {Null, Unused}]
  BY DEF RefInv, RefTypeOK
<1>8. \A q \in Ref : Live(q)' => q # r /\ Live(q) /\ conts'[q] = conts[q]
  BY DEF RefInv, RefTypeOK, Live
<1>9. OneShot'
  <2>1. \A q \in Ref : Live(q)' => Strands(conts[q].ctxt) \cap Strands(frames') = {}
    <3> SUFFICES ASSUME NEW q \in Ref, Live(q)', NEW i \in DOMAIN frames',
                        NEW k \in DOMAIN conts[q].ctxt,
                        frames'[i].strand = conts[q].ctxt[k].strand
                 PROVE  FALSE
      BY Zenon DEF Strands
    <3>0. Live(q) /\ q # r
      BY <1>8
    <3>1. CASE i \in DOMAIN frames
      <4>1. conts[q].ctxt[k].strand # frames[i].strand
        BY <3>0, <3>1, Apart, Zenon DEF RefInv
      <4>2. frames'[i].strand = frames[i].strand
        BY <3>1, <1>6
      <4> QED BY <4>1, <4>2
    <3>2. CASE i \notin DOMAIN frames
      <4>1. \A x \in DOMAIN c : conts[q].ctxt[k].strand # c[x].strand
        BY <3>0, Apart, Zenon DEF RefInv
      <4>2. /\ i - Len(frames) \in DOMAIN c
            /\ frames'[i].strand = c[i - Len(frames)].strand
        BY <3>2, <1>6
      <4> QED BY <4>1, <4>2
    <3> QED BY <3>1, <3>2
  <2> QED
    BY <2>1, <1>8, Zenon DEF OneShot, RefInv
<1>10. BarrierNeverCaptured'
  BY <1>8 DEF BarrierNeverCaptured, RefInv
<1>11. StrandsNest'
  <2>1. ASSUME NEW i \in DOMAIN frames', NEW j \in DOMAIN frames', i < j,
               frames'[i].strand = frames'[j].strand
        PROVE  frames'[j].barrier
    <3>1. CASE j \in DOMAIN frames
      <4>1. i \in DOMAIN frames
        BY <3>1, <2>1, <1>4, <1>5, SMTT(30)
      <4> QED BY <4>1, <3>1, <2>1, <1>6 DEF RefInv, StrandsNest
    <3>2. CASE j \notin DOMAIN frames /\ i \in DOMAIN frames
      <4>1. \A k \in DOMAIN c : c[k].strand # frames[i].strand
        BY <3>2, Apart DEF RefInv
      <4>2. frames'[i].strand = frames[i].strand
        BY <3>2, <1>6
      <4>3. /\ j - Len(frames) \in DOMAIN c
            /\ frames'[j].strand = c[j - Len(frames)].strand
        BY <3>2, <1>6
      <4> QED BY <4>1, <4>2, <4>3, <2>1
    <3>3. CASE j \notin DOMAIN frames /\ i \notin DOMAIN frames
      <4> DEFINE n == Len(frames)
      <4>1. /\ i - n \in DOMAIN c /\ frames'[i].strand = c[i - n].strand
            /\ j - n \in DOMAIN c /\ frames'[j].strand = c[j - n].strand
        BY <3>3, <1>6
      <4>2. \A x, y \in DOMAIN c : c[x].strand = c[y].strand => x = y
        BY Zenon DEF RefInv, StrandsNest
      <4>3. c[i - n].strand = c[j - n].strand
        BY <4>1, <2>1, Zenon
      <4>4. i - n = j - n
        BY <4>1, <4>2, <4>3, Zenon
      <4>5. i \in Nat /\ j \in Nat /\ n \in Nat
        BY <1>4, <1>5
      <4> HIDE DEF n
      <4> QED BY <4>4, <4>5, <2>1
    <3> QED BY <3>1, <3>2, <3>3, SMTT(30)
  <2>2. ASSUME NEW q \in Ref, Live(q)', NEW i \in DOMAIN conts'[q].ctxt,
               NEW j \in DOMAIN conts'[q].ctxt,
               conts'[q].ctxt[i].strand = conts'[q].ctxt[j].strand
        PROVE  i = j
    <3>1. Live(q) /\ conts'[q] = conts[q]
      BY <2>2, <1>8, Zenon
    <3> QED BY <3>1, <2>2, Zenon DEF StrandsNest, RefInv
  <2> QED BY <2>1, <2>2, Zenon DEF StrandsNest
<1>12. MainOutermost'
  BY <1>4, <1>6 DEF RefInv, MainOutermost
<1> QED BY <1>5, <1>7, <1>9, <1>10, <1>11, <1>12, Zenon

(* Dropping inner frames keeps the invariant.                              *)
LEMMA DropsFrames ==
  ASSUME RefInv, NEW n \in 1..Len(frames), frames' = SubSeq(frames, 1, n), UNCHANGED conts
  PROVE  /\ frames' \in Seq(FrameType) /\ Len(frames') > 0
         /\ OneShot' /\ BarrierNeverCaptured' /\ StrandsNest' /\ MainOutermost'
<1>1. frames \in Seq(FrameType)
  BY DEF RefInv, RefTypeOK
<1>2. /\ frames' \in Seq(FrameType) /\ Len(frames') = n
      /\ \A i \in DOMAIN frames' : i \in DOMAIN frames /\ frames'[i] = frames[i]
  BY <1>1
<1>3. \A q \in Ref : Live(q)' <=> Live(q)
  BY DEF Live
<1>4. Strands(frames') \subseteq Strands(frames)
  BY <1>2 DEF Strands
<1>5. OneShot'
  BY <1>3, <1>4, Zenon DEF OneShot, RefInv
<1>6. BarrierNeverCaptured'
  BY <1>3 DEF BarrierNeverCaptured, RefInv
<1>7. StrandsNest'
  BY <1>2, <1>3 DEF StrandsNest, RefInv
<1>8. MainOutermost'
  BY <1>1, <1>2 DEF RefInv, MainOutermost
<1> QED BY <1>2, <1>5, <1>6, <1>7, <1>8

(* A non-empty set of positions has a last one.                            *)
LEMMA LastOfPositions ==
  ASSUME NEW n \in Nat, NEW K \in SUBSET (2..n), K # {}
  PROVE  \E i \in K : \A j \in K : j <= i
<1> DEFINE T == {n - i : i \in K}
<1>1. T \subseteq Nat /\ T # {}
  <2>1. \A i \in K : n - i \in Nat
    OBVIOUS
  <2> QED BY <2>1, Zenon
<1> HIDE DEF T
<1>2. PICK m \in T : \A x \in T : m <= x
  <2>1. PICK m \in T : \A x \in T : ~(<<x, m>> \in OpToRel(<, Nat))
    BY <1>1, NatLessThanWellFounded, WFMin, Zenon
  <2>2. \A x \in T : ~(x < m)
    BY <1>1, <2>1, Zenon DEF OpToRel
  <2>3. \A x \in T : m <= x
    BY <1>1, <2>2
  <2> QED BY <2>3
<1>3. PICK i \in K : m = n - i
  BY <1>2 DEF T
<1>4. \A j \in K : n - i <= n - j
  BY <1>2, <1>3 DEF T
<1> QED BY <1>4

(* Nearest finds the innermost frame that handles the tag or is a barrier. *)
LEMMA NearestIsLast ==
  ASSUME RefTypeOK, NEW t, Nearest(t) # 0
  PROVE  /\ Nearest(t) \in 2..Len(frames)
         /\ \A j \in 2..Len(frames) :
              frames[j].barrier \/ t \in frames[j].hs => j <= Nearest(t)
<1> DEFINE K == {i \in 2..Len(frames) : frames[i].barrier \/ t \in frames[i].hs}
<1>1. Len(frames) \in Nat
  BY DEF RefTypeOK
<1>2. Nearest(t) = IF K = {} THEN 0 ELSE CHOOSE i \in K : \A j \in K : j <= i
  BY DEF Nearest
<1>3. K # {}
  BY <1>2
<1>4. K \in SUBSET (2..Len(frames))
  OBVIOUS
<1> HIDE DEF K
<1>5. \E i \in K : \A j \in K : j <= i
  BY <1>1, <1>3, <1>4, LastOfPositions, Zenon
<1>6. Nearest(t) \in K /\ \A j \in K : j <= Nearest(t)
  BY <1>2, <1>3, <1>5
<1> QED BY <1>6 DEF K

(* A capture: the frames it takes run other computations than those it     *)
(* leaves, since none of them is a barrier.                                *)
LEMMA CaptureInv ==
  ASSUME RefInv, NEW r \in Ref, Capture(r)
  PROVE  RefInv'
<1> DEFINE k == Nearest(ctl.tag)
           s == SubSeq(frames, k, Len(frames))
           c == [s EXCEPT ![1].hs = {}]
<1> USE RefAssumption DEF RefInv
<1>1. frames \in Seq(FrameType) /\ Len(frames) \in Nat
  BY DEF RefTypeOK
<1>2. /\ k \in 2..Len(frames)
      /\ \A j \in 2..Len(frames) : frames[j].barrier => j <= k
      /\ ~frames[k].barrier
  BY NearestIsLast DEF Capture
<1> HIDE DEF k
<1>3. /\ s \in Seq(FrameType) /\ Len(s) = Len(frames) - k + 1
      /\ \A i \in 1..Len(s) : s[i] = frames[k + i - 1]
  BY <1>1, <1>2, SubSeqProperties
<1> HIDE DEF s
<1>4. /\ c \in Seq(FrameType) /\ Len(c) = Len(s) /\ DOMAIN c = DOMAIN s
      /\ \A i \in DOMAIN s : c[i].strand = s[i].strand /\ c[i].barrier = s[i].barrier
  BY <1>3, WithHandlers, Zenon
<1>5. conts' = [conts EXCEPT ![r] = [n |-> TagResults[ctl.tag], ctxt |-> c, args |-> <<>>]]
  BY DEF Capture, c, s, k
<1> HIDE DEF c
<1>6. \A i \in DOMAIN c : /\ k + i - 1 \in k..Len(frames)
                         /\ c[i].strand = frames[k + i - 1].strand
                         /\ c[i].barrier = frames[k + i - 1].barrier
  <2>1. DOMAIN c = 1..Len(frames) - k + 1
    BY <1>3, <1>4
  <2>2. \A i \in DOMAIN c : s[i] = frames[k + i - 1]
    BY <1>3, <2>1
  <2>3. \A i \in DOMAIN c : k + i - 1 \in k..Len(frames)
    BY <1>1, <1>2, <2>1
  <2> QED BY <1>4, <2>2, <2>3
<1>7. frames' = SubSeq(frames, 1, k - 1)
  BY DEF Capture, k
<1>8. /\ frames' \in Seq(FrameType) /\ Len(frames') = k - 1
      /\ \A i \in DOMAIN frames' : i \in 1..k - 1 /\ i \in DOMAIN frames /\ frames'[i] = frames[i]
  <2>1. SubSeq(frames, 1, k - 1) \in Seq(FrameType)
    BY <1>1, <1>2, SubSeqProperties
  <2>2. Len(SubSeq(frames, 1, k - 1)) = k - 1
    BY <1>1, <1>2, SubSeqProperties
  <2>3. \A i \in 1..k - 1 : SubSeq(frames, 1, k - 1)[i] = frames[i]
    BY <1>1, <1>2, SubSeqProperties
  <2> QED BY <2>1, <2>2, <2>3, <1>1, <1>2, <1>7
<1>9. TagResults[ctl.tag] \in Nat
  BY RefAssumption DEF Capture, TagInFlight
<1>10. /\ conts'[r].ctxt = c
       /\ \A q \in Ref : Live(q)' => q = r \/ (Live(q) /\ conts'[q] = conts[q])
  <2>1. conts'[r] = [n |-> TagResults[ctl.tag], ctxt |-> c, args |-> <<>>]
    BY <1>5, Zenon DEF RefTypeOK
  <2>2. \A q \in Ref : q # r => conts'[q] = conts[q]
    BY <1>5, Zenon DEF RefTypeOK
  <2>3. \A q \in Ref : Live(q)' /\ q # r => Live(q)
    BY <2>2 DEF Live
  <2>4. conts'[r].ctxt = c
    BY <2>1
  <2> QED BY <2>2, <2>3, <2>4
<1>11. RefTypeOK' /\ TagInFlight'
  <2>1. conts' \in [Ref -> [n : Nat, ctxt : Seq(FrameType), args : Seq(Val)] \cup {Null, Unused}]
    BY <1>4, <1>5, <1>9 DEF RefTypeOK
  <2>2. ctl' = Running /\ got' = ctl.vals
    BY DEF Capture
  <2> QED BY <2>1, <2>2, <1>2, <1>8 DEF RefTypeOK, TagInFlight, Running
<1>12. \A i \in DOMAIN c : ~c[i].barrier
  BY <1>1, <1>2, <1>6, SMTT(30)
<1>13. \A i \in DOMAIN c, j \in DOMAIN frames' : c[i].strand # frames'[j].strand
  <2> SUFFICES ASSUME NEW i \in DOMAIN c, NEW j \in DOMAIN frames',
                      c[i].strand = frames'[j].strand
               PROVE  FALSE
    OBVIOUS
  <2>1. k + i - 1 \in DOMAIN frames /\ j \in DOMAIN frames /\ j < k + i - 1
    BY <1>1, <1>2, <1>6, <1>8
  <2>2. frames[k + i - 1].strand = frames[j].strand /\ ~frames[k + i - 1].barrier
    BY <1>6, <1>8, <1>12
  <2> QED BY <2>1, <2>2 DEF StrandsNest
<1>14. OneShot'
  <2>1. \A q \in Ref : Live(q)' =>
          \A i \in DOMAIN conts'[q].ctxt, j \in DOMAIN frames' :
            conts'[q].ctxt[i].strand # frames'[j].strand
    BY <1>8, <1>10, <1>13, Apart
  <2>2. ASSUME NEW q \in Ref, Live(q)', q # r,
               NEW i \in DOMAIN conts'[q].ctxt, NEW j \in DOMAIN c,
               conts'[q].ctxt[i].strand = c[j].strand
        PROVE  FALSE
    <3>1. k + j - 1 \in DOMAIN frames /\ c[j].strand = frames[k + j - 1].strand
      BY <1>1, <1>2, <1>6
    <3> QED BY <2>2, <3>1, <1>10, Apart
  <2>3. \A q, p \in Ref : Live(q)' /\ Live(p)' /\ q # p =>
          \A i \in DOMAIN conts'[q].ctxt, j \in DOMAIN conts'[p].ctxt :
            conts'[q].ctxt[i].strand # conts'[p].ctxt[j].strand
    <3> SUFFICES ASSUME NEW q \in Ref, NEW p \in Ref, Live(q)', Live(p)', q # p,
                        NEW i \in DOMAIN conts'[q].ctxt, NEW j \in DOMAIN conts'[p].ctxt,
                        conts'[q].ctxt[i].strand = conts'[p].ctxt[j].strand
                 PROVE  FALSE
      OBVIOUS
    <3>1. CASE q = r
      BY <3>1, <2>2, <1>10
    <3>2. CASE p = r
      BY <3>2, <2>2, <1>10
    <3>3. CASE q # r /\ p # r
      BY <3>3, <1>10, Apart
    <3> QED BY <3>1, <3>2, <3>3
  <2> QED BY <2>1, <2>3, Zenon DEF OneShot, Strands
<1>15. BarrierNeverCaptured'
  BY <1>10, <1>12 DEF BarrierNeverCaptured
<1>16. StrandsNest'
  <2>1. \A i, j \in DOMAIN c : c[i].strand = c[j].strand => i = j
    <3>1. ASSUME NEW i \in DOMAIN c, NEW j \in DOMAIN c, c[i].strand = c[j].strand, i < j
          PROVE  FALSE
      <4>1. k + i - 1 \in DOMAIN frames /\ k + j - 1 \in DOMAIN frames /\ k + i - 1 < k + j - 1
        BY <3>1, <1>1, <1>2, <1>3, <1>4, <1>6, SMTT(30)
      <4>2. frames[k + i - 1].strand = frames[k + j - 1].strand /\ ~frames[k + j - 1].barrier
        BY <3>1, <1>6, <1>12
      <4> QED BY <4>1, <4>2 DEF StrandsNest
    <3>2. DOMAIN c \subseteq Int
      BY <1>3, <1>4
    <3> QED BY <3>1, <3>2
  <2>2. \A i, j \in DOMAIN frames' :
          i < j /\ frames'[i].strand = frames'[j].strand => frames'[j].barrier
    BY <1>8 DEF StrandsNest
  <2>3. \A q \in Ref : Live(q)' => \A i, j \in DOMAIN conts'[q].ctxt :
          conts'[q].ctxt[i].strand = conts'[q].ctxt[j].strand => i = j
    BY <2>1, <1>10 DEF StrandsNest
  <2> QED BY <2>2, <2>3 DEF StrandsNest
<1>17. MainOutermost'
  <2>1. 1 \in DOMAIN frames'
    BY <1>2, <1>8
  <2> QED BY <2>1, <1>8 DEF MainOutermost
<1> QED BY <1>11, <1>14, <1>15, <1>16, <1>17

(* Nothing but the store of continuations changes, and of it only r.       *)
LEMMA StoreStep ==
  ASSUME RefInv, NEW r \in Ref, UNCHANGED <<frames, ctl, got>>,
         NEW x \in {Null, Unused},
         conts' = [conts EXCEPT ![r] = x]
  PROVE  RefInv'
<1>1. conts' \in [Ref -> [n : Nat, ctxt : Seq(FrameType), args : Seq(Val)] \cup {Null, Unused}]
  BY DEF RefInv, RefTypeOK
<1>2. \A q \in Ref : Live(q)' => Live(q) /\ conts'[q] = conts[q]
  BY DEF RefInv, RefTypeOK, Live
<1>3. RefTypeOK' /\ TagInFlight'
  BY <1>1 DEF RefInv, RefTypeOK, TagInFlight
<1>4. OneShot'
  BY <1>2 DEF RefInv, OneShot
<1>5. BarrierNeverCaptured'
  BY <1>2 DEF RefInv, BarrierNeverCaptured
<1>6. StrandsNest'
  BY <1>2 DEF RefInv, StrandsNest
<1> QED BY <1>3, <1>4, <1>5, <1>6 DEF RefInv, MainOutermost

(* cont.new puts a computation into the store that runs nowhere else.      *)
LEMMA ContNewInv ==
  ASSUME RefInv, NEW r \in Ref, NEW s \in Strand, NEW ft \in FuncTypes, ContNew(r, s, ft)
  PROVE  RefInv'
<1> DEFINE f == Frame(s, {}, FALSE, ft.results)
           x == [n |-> ft.params, ctxt |-> <<f>>, args |-> <<>>]
<1>1. f \in FrameType /\ f.strand = s /\ f.barrier = FALSE /\ ft.params \in Nat
  BY RefAssumption DEF Frame, FrameType
<1>2. conts' = [conts EXCEPT ![r] = x] /\ UNCHANGED <<frames, ctl, got>>
  BY DEF ContNew
<1> HIDE DEF f
<1>3. x \in [n : Nat, ctxt : Seq(FrameType), args : Seq(Val)]
  BY <1>1
<1>4. /\ conts'[r].ctxt = <<f>>
      /\ \A q \in Ref : Live(q)' => q = r \/ (Live(q) /\ conts'[q] = conts[q])
  <2>1. conts'[r] = x
    BY <1>2, Zenon DEF RefInv, RefTypeOK
  <2>2. \A q \in Ref : q # r => conts'[q] = conts[q]
    BY <1>2, Zenon DEF RefInv, RefTypeOK
  <2>3. \A q \in Ref : Live(q)' /\ q # r => Live(q)
    BY <2>2 DEF Live
  <2> QED BY <2>1, <2>2, <2>3
<1>5. RefTypeOK' /\ TagInFlight'
  BY <1>2, <1>3 DEF RefInv, RefTypeOK, TagInFlight
<1>6. Strands(<<f>>) = {s}
  BY <1>1 DEF Strands
<1>7. OneShot'
  <2>1. s \notin Strands(frames)
    BY DEF ContNew
  <2>2. \A q \in Ref : Live(q) => s \notin Strands(conts[q].ctxt)
    BY DEF ContNew
  <2>3. \A q \in Ref : Live(q)' => Strands(conts'[q].ctxt) \cap Strands(frames') = {}
    BY <1>2, <1>4, <1>6, <2>1 DEF RefInv, OneShot
  <2>4. \A q, p \in Ref : Live(q)' /\ Live(p)' /\ q # p =>
          Strands(conts'[q].ctxt) \cap Strands(conts'[p].ctxt) = {}
    BY <1>4, <1>6, <2>2 DEF RefInv, OneShot
  <2> QED BY <2>3, <2>4 DEF OneShot
<1>8. BarrierNeverCaptured'
  BY <1>1, <1>4 DEF RefInv, BarrierNeverCaptured
<1>9. StrandsNest'
  BY <1>2, <1>4 DEF RefInv, StrandsNest
<1> QED BY <1>2, <1>5, <1>7, <1>8, <1>9 DEF RefInv, MainOutermost

(* cont.bind moves a context from one reference to a new one.              *)
LEMMA ContBindInv ==
  ASSUME RefInv, NEW r \in Ref, NEW r2 \in Ref, Live(r),
         NEW n \in 0..conts[r].n, NEW vs \in Vals(n), ContBind(r, r2, vs)
  PROVE  RefInv'
<1> DEFINE x == Bound(conts[r], vs)
<1>1. conts[r] \in [n : Nat, ctxt : Seq(FrameType), args : Seq(Val)]
  BY LiveContext DEF RefInv
<1>2. vs \in Seq(Val) /\ Len(vs) = n /\ n \in Nat
  BY <1>1 DEF Vals
<1>3. conts[r].args \o vs \in Seq(Val)
  BY <1>1, <1>2, ConcatProperties
<1>4. x \in [n : Nat, ctxt : Seq(FrameType), args : Seq(Val)] /\ x.ctxt = conts[r].ctxt
  <2>1. conts[r].n - Len(vs) \in Nat
    BY <1>1, <1>2
  <2> QED BY <2>1, <1>1, <1>3 DEF Bound
<1>5. /\ conts' = [conts EXCEPT ![r] = Null, ![r2] = x]
      /\ UNCHANGED <<frames, ctl, got>>
      /\ r # r2
  BY DEF ContBind, Live
<1> HIDE DEF x
<1>6. /\ conts'[r] = Null /\ conts'[r2] = x
      /\ \A q \in Ref : q # r /\ q # r2 => conts'[q] = conts[q]
  BY <1>5 DEF RefInv, RefTypeOK
<1>7. RefTypeOK' /\ TagInFlight'
  BY <1>4, <1>5 DEF RefInv, RefTypeOK, TagInFlight
<1>8. \A q \in Ref : Live(q)' =>
        \/ q = r2 /\ conts'[q].ctxt = conts[r].ctxt
        \/ q # r2 /\ q # r /\ Live(q) /\ conts'[q] = conts[q]
  BY <1>4, <1>6 DEF Live
<1>9. OneShot'
  BY <1>5, <1>8, Zenon DEF RefInv, OneShot
<1>10. BarrierNeverCaptured'
  BY <1>8 DEF RefInv, BarrierNeverCaptured
<1>11. StrandsNest'
  <2>1. \A q \in Ref : Live(q)' => \A i, j \in DOMAIN conts'[q].ctxt :
          conts'[q].ctxt[i].strand = conts'[q].ctxt[j].strand => i = j
    BY <1>8 DEF RefInv, StrandsNest
  <2>2. \A i, j \in DOMAIN frames' :
          i < j /\ frames'[i].strand = frames'[j].strand => frames'[j].barrier
    BY <1>5 DEF RefInv, StrandsNest
  <2> QED BY <2>1, <2>2 DEF StrandsNest
<1> QED BY <1>5, <1>7, <1>9, <1>10, <1>11 DEF RefInv, MainOutermost

(* Only the head of the innermost code changes.                            *)
LEMMA ControlStep ==
  ASSUME RefInv, UNCHANGED <<frames, conts>>,
         ctl' \in [kind : {"run", "suspending", "value", "throwing"}, tag : Tag \cup {Null},
                   vals : Seq(Val)],
         TagInFlight', got' \in Seq(Val)
  PROVE  RefInv'
<1>1. RefTypeOK'
  BY DEF RefInv, RefTypeOK
<1>2. \A q \in Ref : Live(q)' <=> Live(q)
  BY DEF Live
<1> QED BY <1>1, <1>2 DEF RefInv, OneShot, BarrierNeverCaptured, StrandsNest, MainOutermost

(* A barrier adds a frame for the computation that runs already.           *)
LEMMA BarrierInv ==
  ASSUME RefInv, Barrier
  PROVE  RefInv'
<1> DEFINE f == Frame(Top.strand, {}, TRUE, 0)
<1>1. frames \in Seq(FrameType) /\ Len(frames) > 0 /\ Len(frames) \in Nat
  BY DEF RefInv, RefTypeOK
<1>2. f \in FrameType /\ f.barrier = TRUE /\ f.strand = frames[Len(frames)].strand
  <2>1. frames[Len(frames)] \in FrameType
    BY <1>1
  <2> QED BY <2>1 DEF Frame, FrameType, Top
<1>3. frames' = Append(frames, f) /\ UNCHANGED <<conts, ctl, got>>
  BY DEF Barrier
<1> HIDE DEF f
<1>4. /\ frames' \in Seq(FrameType) /\ Len(frames') = Len(frames) + 1
      /\ \A i \in DOMAIN frames : frames'[i] = frames[i]
      /\ frames'[Len(frames) + 1] = f
      /\ \A i \in DOMAIN frames' : i \in DOMAIN frames \/ i = Len(frames) + 1
  BY <1>1, <1>2, <1>3
<1>5. \A q \in Ref : Live(q)' <=> Live(q)
  BY <1>3 DEF Live
<1>6. RefTypeOK' /\ TagInFlight'
  BY <1>1, <1>3, <1>4 DEF RefInv, RefTypeOK, TagInFlight
<1>7. Strands(frames') = Strands(frames)
  <2>1. \A i \in DOMAIN frames' : \E j \in DOMAIN frames : frames'[i].strand = frames[j].strand
    BY <1>1, <1>2, <1>4
  <2>2. \A j \in DOMAIN frames : \E i \in DOMAIN frames' : frames'[i].strand = frames[j].strand
    BY <1>1, <1>4
  <2>3. Strands(frames') \subseteq Strands(frames)
    BY <2>1 DEF Strands
  <2>4. Strands(frames) \subseteq Strands(frames')
    BY <2>2 DEF Strands
  <2> QED BY <2>3, <2>4
<1>8. OneShot' /\ BarrierNeverCaptured'
  BY <1>3, <1>5, <1>7, Zenon DEF RefInv, OneShot, BarrierNeverCaptured
<1>9. StrandsNest'
  <2>1. ASSUME NEW i \in DOMAIN frames', NEW j \in DOMAIN frames', i < j,
               frames'[i].strand = frames'[j].strand
        PROVE  frames'[j].barrier
    <3>1. CASE j = Len(frames) + 1
      BY <3>1, <1>2, <1>4
    <3>2. CASE j \in DOMAIN frames
      <4>1. i \in DOMAIN frames
        BY <3>2, <2>1, <1>1, <1>4
      <4> QED BY <4>1, <3>2, <2>1, <1>4 DEF RefInv, StrandsNest
    <3> QED BY <3>1, <3>2, <1>4
  <2> QED BY <2>1, <1>3, <1>5 DEF RefInv, StrandsNest
<1>10. MainOutermost'
  BY <1>1, <1>4 DEF RefInv, MainOutermost
<1> QED BY <1>6, <1>8, <1>9, <1>10 DEF RefInv

(* After an error only the invocation itself is left.                      *)
LEMMA AbortInv ==
  ASSUME RefInv, Abort
  PROVE  RefInv'
<1> DEFINE f == Frame(Main, {}, FALSE, 0)
<1>1. f \in FrameType /\ f.strand = Main
  BY DEF Frame, FrameType
<1>2. frames' = <<f>> /\ UNCHANGED conts /\ ctl' = Running /\ got' = <<>>
  BY DEF Abort, Root
<1> HIDE DEF f
<1>3. RefTypeOK' /\ TagInFlight'
  BY <1>1, <1>2 DEF RefInv, RefTypeOK, TagInFlight, Running
<1>4. \A q \in Ref : Live(q)' <=> Live(q)
  BY <1>2 DEF Live
<1>5. Strands(frames') = {Main}
  BY <1>1, <1>2 DEF Strands
<1>6. Main \in Strands(frames)
  <2>1. 1 \in DOMAIN frames
    BY DEF RefInv, RefTypeOK
  <2> QED BY <2>1 DEF RefInv, MainOutermost, Strands
<1>7. OneShot'
  BY <1>2, <1>4, <1>5, <1>6, Zenon DEF RefInv, OneShot
<1>8. BarrierNeverCaptured'
  BY <1>2, <1>4 DEF RefInv, BarrierNeverCaptured
<1>9. StrandsNest' /\ MainOutermost'
  BY <1>1, <1>2, <1>4 DEF RefInv, StrandsNest, MainOutermost
<1> QED BY <1>3, <1>7, <1>8, <1>9 DEF RefInv

(* The invariant holds initially.                                          *)
LEMMA RefInvInit == RefInit => RefInv
<1> SUFFICES ASSUME RefInit PROVE RefInv
  OBVIOUS
<1> DEFINE f == Frame(Main, {}, FALSE, 0)
<1>1. f \in FrameType /\ f.strand = Main
  BY DEF Frame, FrameType
<1>2. frames = <<f>> /\ ctl = Running /\ got = <<>> /\ conts = [r \in Ref |-> Unused]
  BY DEF RefInit, Root
<1> HIDE DEF f
<1>3. RefTypeOK /\ TagInFlight
  BY <1>1, <1>2 DEF RefTypeOK, TagInFlight, Running
<1>4. \A q \in Ref : ~Live(q)
  BY <1>2 DEF Live
<1>5. OneShot /\ BarrierNeverCaptured
  BY <1>4 DEF OneShot, BarrierNeverCaptured
<1>6. StrandsNest /\ MainOutermost
  BY <1>1, <1>2, <1>4 DEF StrandsNest, MainOutermost
<1> QED BY <1>3, <1>5, <1>6 DEF RefInv

(* And every reduction step preserves it.                                  *)
LEMMA RefInvNext == RefInv /\ [RefNext]_rvars => RefInv'
<1> SUFFICES ASSUME RefInv, [RefNext]_rvars PROVE RefInv'
  OBVIOUS
<1>t. RefTypeOK
  BY DEF RefInv
<1>v. \A n \in Nat : \A vs \in Vals(n) : vs \in Seq(Val) /\ Len(vs) = n
  BY DEF Vals
<1>1. ASSUME NEW r \in Ref, NEW s \in Strand, NEW ft \in FuncTypes, ContNew(r, s, ft)
      PROVE  RefInv'
  BY <1>1, ContNewInv
<1>2. ASSUME NEW r \in Ref, NEW r2 \in Ref, Live(r), NEW n \in 0..conts[r].n,
             NEW vs \in Vals(n), ContBind(r, r2, vs)
      PROVE  RefInv'
  BY <1>2, ContBindInv
<1>3. ASSUME NEW r \in Ref, NEW H \in SUBSET Tag, Live(r),
             NEW vs \in Vals(conts[r].n), Resume(r, vs, H)
      PROVE  RefInv'
  <2>1. conts[r] \in [n : Nat, ctxt : Seq(FrameType), args : Seq(Val)]
    BY <1>3, <1>t, LiveContext, SMTT(30)
  <2>2. got' \in Seq(Val)
    BY <1>3, <2>1, <1>v, ConcatProperties DEF Resume
  <2>3. ctl' = ctl /\ ctl.kind = "run"
    BY <1>3, SMTT(30) DEF Resume, Runs
  <2>4. /\ frames' \in Seq(FrameType) /\ Len(frames') > 0
        /\ conts' \in [Ref -> [n : Nat, ctxt : Seq(FrameType), args : Seq(Val)] \cup {Null, Unused}]
        /\ OneShot' /\ BarrierNeverCaptured' /\ StrandsNest' /\ MainOutermost'
    BY <1>3, Reinstates, Zenon DEF Resume
  <2> QED BY <2>2, <2>3, <2>4, <1>t DEF RefInv, RefTypeOK, TagInFlight
<1>4. ASSUME NEW t \in Tag, NEW vs \in Vals(TagParams[t]), Suspend(t, vs) \/ Throw(t, vs)
      PROVE  RefInv'
  <2>1. vs \in Seq(Val)
    BY <1>v, RefAssumption
  <2>2. UNCHANGED <<frames, conts>> /\ got' = <<>>
    BY <1>4 DEF Suspend, Throw
  <2>3. \/ ctl' = [kind |-> "suspending", tag |-> t, vals |-> vs]
        \/ ctl' = [kind |-> "throwing", tag |-> t, vals |-> vs]
    BY <1>4 DEF Suspend, Throw, Throwing
  <2>4. TagInFlight'
    BY <2>3 DEF TagInFlight
  <2> QED BY <2>1, <2>2, <2>3, <2>4, ControlStep
<1>5. ASSUME NEW r \in Ref, Capture(r)
      PROVE  RefInv'
  BY <1>5, CaptureInv
<1>6. CASE BarrierTrap \/ Unhandled \/ Trapping \/ Uncaught
  BY <1>6, AbortInv DEF BarrierTrap, Unhandled, Trapping, Uncaught
<1>7. CASE Barrier
  BY <1>7, BarrierInv
<1>8. ASSUME NEW vs \in Vals(Top.results), Return(vs)
      PROVE  RefInv'
  <2>1. frames[Len(frames)] \in FrameType
    BY <1>t DEF RefTypeOK
  <2>2. vs \in Seq(Val)
    BY <2>1, <1>v DEF Top, FrameType
  <2>3. UNCHANGED <<frames, conts>> /\ got' = <<>> /\ Len(frames) > 1
    BY <1>8 DEF Return
  <2>4. ctl' = [kind |-> "value", tag |-> Null, vals |-> vs]
    BY <1>8 DEF Return
  <2>5. TagInFlight'
    BY <2>3, <2>4 DEF TagInFlight
  <2> QED BY <2>2, <2>3, <2>4, <2>5, ControlStep
<1>9. ASSUME NEW n \in 1..Len(frames), frames' = SubSeq(frames, 1, n),
             got' = ctl.vals, ctl' = Running, UNCHANGED conts
      PROVE  RefInv'
  <2>1. /\ frames' \in Seq(FrameType) /\ Len(frames') > 0
        /\ OneShot' /\ BarrierNeverCaptured' /\ StrandsNest' /\ MainOutermost'
    BY <1>9, DropsFrames
  <2> QED BY <2>1, <1>9, <1>t DEF RefInv, RefTypeOK, TagInFlight, Running
<1>10. CASE HandleValue
  <2>1. Len(frames) > 1 /\ Len(frames) \in Nat
    BY <1>10, <1>t DEF HandleValue, RefInv, TagInFlight, RefTypeOK
  <2>2. Len(frames) - 1 \in 1..Len(frames)
    BY <2>1
  <2> QED BY <2>2, <1>9, <1>10 DEF HandleValue
<1>11. ASSUME NEW i \in 1..Len(frames), Catch(i)
       PROVE  RefInv'
  BY <1>9, <1>11, SMTT(30) DEF Catch
<1>12. ASSUME NEW r \in Ref, NEW x \in Tag, NEW y \in Tag, NEW H \in SUBSET Tag, Live(r),
              NEW vs \in Vals(TagParams[y]), ResumeThrow(r, x, y, vs, H)
       PROVE  RefInv'
  <2>1. vs \in Seq(Val) /\ Len(vs) = TagParams[y] /\ TagParams[x] \in Nat
    BY <1>v, RefAssumption
  <2>2. SubSeq(vs, 1, TagParams[x]) \in Seq(Val)
    <3>1. \A i \in 1..TagParams[x] : vs[i] \in Val
      BY <1>12, <2>1, RefAssumption, SMTT(30) DEF ResumeThrow
    <3> QED BY <3>1, <2>1, SubSeqProperties
  <2>3. ctl' = [kind |-> "throwing", tag |-> x, vals |-> SubSeq(vs, 1, TagParams[x])] /\ got' = <<>>
    BY <1>12, SMTT(30) DEF ResumeThrow, Throwing
  <2>4. /\ frames' \in Seq(FrameType) /\ Len(frames') > 0
        /\ conts' \in [Ref -> [n : Nat, ctxt : Seq(FrameType), args : Seq(Val)] \cup {Null, Unused}]
        /\ OneShot' /\ BarrierNeverCaptured' /\ StrandsNest' /\ MainOutermost'
    BY <1>12, Reinstates, Zenon DEF ResumeThrow
  <2> QED BY <2>2, <2>3, <2>4 DEF RefInv, RefTypeOK, TagInFlight
<1>13. ASSUME NEW r \in Ref, Forget(r)
       PROVE  RefInv'
  BY <1>13, StoreStep, Zenon DEF Forget
<1>14. CASE UNCHANGED rvars
  BY <1>14, Zenon DEF rvars, RefInv, RefTypeOK, OneShot, BarrierNeverCaptured, StrandsNest,
               MainOutermost, TagInFlight, Live
<1>15. CASE Instructions
  BY <1>15, <1>1, <1>2, <1>3, <1>4, <1>6, <1>7, <1>8, Zenon DEF Instructions
<1>16. CASE Handling
  BY <1>16, <1>5, <1>6, <1>10 DEF Handling
<1>17. CASE Exceptions
  BY <1>17, <1>4, <1>6, <1>11, <1>12 DEF Exceptions
<1> QED
  BY <1>13, <1>14, <1>15, <1>16, <1>17 DEF RefNext

(* The inductive invariant holds in every reachable configuration of       *)
(* eval.ml's step.                                                         *)
THEOREM RefInvariant == RefSpec => []RefInv
BY RefInvInit, RefInvNext, PTL DEF RefSpec

(* No computation is reachable twice: eval.ml takes the contents of a      *)
(* ContRef (cont := None) and never copies them.                           *)
THEOREM ContinuationsAreOneShot == RefSpec => []OneShot
BY RefInvariant, PTL DEF RefInv

(* No continuation contains a Handle (None): a suspension that meets a     *)
(* barrier traps.                                                          *)
THEOREM BarriersStay == RefSpec => []BarrierNeverCaptured
BY RefInvariant, PTL DEF RefInv

(* The machine never reaches a configuration outside its types.            *)
THEOREM RefTypeCorrect == RefSpec => []RefTypeOK
BY RefInvariant, PTL DEF RefInv
=============================================================================
