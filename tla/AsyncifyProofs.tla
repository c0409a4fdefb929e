---------------------------- MODULE AsyncifyProofs --------------------------
(***************************************************************************)
(* active_fiber is right and overflows are caught, for every set of fibers,*)
(* every depth of the stacks and every capacity.                           *)
(*                                                                         *)
(* First lemmas about the operators of AsyncifyFibers: the words of an     *)
(* asyncify stack and the frames they encode, the call stack cut into      *)
(* activations and the shape of the frames of an activation.  Then AInv,   *)
(* step by step.                                                           *)
(***************************************************************************)
EXTENDS AsyncifyFibers, TLAPS

(* What a frame, a word on an asyncify stack and an activation can be.     *)
Loc == Val \cup {0}

Pc == Site \cup {"run", "yield"}

StackWord == Pc \cup Loc

FrameSet == [pc : Pc, loc : Loc]

Activation == [fiber : Fib \cup {Main}, prev : Fib \cup {Main}, frames : Seq(FrameSet)]

-----------------------------------------------------------------------------
(* Sequences.                                                              *)

(* Sequences with equal elements are equal.                                *)
LEMMA SeqEqual ==
  ASSUME NEW S, NEW s \in Seq(S), NEW t \in Seq(S), Len(s) = Len(t),
         \A i \in 1 .. Len(s) : s[i] = t[i]
  PROVE  s = t
  OBVIOUS

(* Concatenation by its elements.                                          *)
LEMMA ConcatProperties ==
  ASSUME NEW S, NEW s \in Seq(S), NEW t \in Seq(S)
  PROVE  /\ s \o t \in Seq(S)
         /\ Len(s \o t) = Len(s) + Len(t)
         /\ \A i \in 1 .. Len(s) + Len(t) : (s \o t)[i] = IF i <= Len(s) THEN s[i] ELSE t[i - Len(s)]
  OBVIOUS

(* The empty sequence is neutral.                                          *)
LEMMA ConcatEmptySeq ==
  ASSUME NEW S, NEW s \in Seq(S)
  PROVE  s \o << >> = s /\ << >> \o s = s
  OBVIOUS

(* Concatenation is associative.                                           *)
LEMMA ConcatAssociative ==
  ASSUME NEW S, NEW s \in Seq(S), NEW t \in Seq(S), NEW u \in Seq(S)
  PROVE  (s \o t) \o u = s \o (t \o u)
  OBVIOUS

(* Append adds a sequence of one.                                          *)
LEMMA AppendIsConcat ==
  ASSUME NEW S, NEW s \in Seq(S), NEW x \in S
  PROVE  Append(s, x) = s \o <<x>>
  OBVIOUS

(* A part of a sequence by its elements.                                   *)
LEMMA SubSeqProperties ==
  ASSUME NEW S, NEW s \in Seq(S), NEW m \in 1 .. Len(s) + 1, NEW n \in m - 1 .. Len(s)
  PROVE  /\ SubSeq(s, m, n) \in Seq(S)
         /\ Len(SubSeq(s, m, n)) = n - m + 1
         /\ \A i \in 1 .. n - m + 1 : SubSeq(s, m, n)[i] = s[m + i - 1]
  OBVIOUS

(* Front and Last by their elements.                                       *)
LEMMA FrontLast ==
  ASSUME NEW S, NEW s \in Seq(S), s # << >>
  PROVE  /\ Len(s) \in Nat \ {0}
         /\ Front(s) \in Seq(S) /\ Len(Front(s)) = Len(s) - 1
         /\ \A n \in 1 .. Len(s) - 1 : Front(s)[n] = s[n]
         /\ Last(s) = s[Len(s)] /\ Last(s) \in S
<1>1. PICK m \in Nat : m + 1 = Len(s)
  <2>1. Len(s) \in Nat \ {0}
    OBVIOUS
  <2>2. Len(s) - 1 \in Nat /\ (Len(s) - 1) + 1 = Len(s)
    BY <2>1
  <2> QED BY <2>2, Zenon
<1>2. Len(s) - 1 = m /\ m \in Int /\ m - 1 + 1 = m
  BY <1>1
<1>3. \A n \in 1 .. m : s[n] \in S
  BY <1>1
<1>4. /\ SubSeq(s, 1, m) \in Seq(S)
      /\ Len(SubSeq(s, 1, m)) = IF 1 <= m THEN m - 1 + 1 ELSE 0
      /\ \A n \in 1 .. m - 1 + 1 : SubSeq(s, 1, m)[n] = s[1 + n - 1]
  BY <1>2, <1>3, SubSeqProperties
<1>5. Len(SubSeq(s, 1, m)) = m
  BY <1>2, <1>4
<1>6. ASSUME NEW n \in 1 .. m PROVE SubSeq(s, 1, m)[n] = s[n]
  <2>1. n \in 1 .. m - 1 + 1 /\ 1 + n - 1 = n
    BY <1>2
  <2> QED BY <1>4, <2>1
<1>7. Front(s) = SubSeq(s, 1, m)
  BY <1>2 DEF Front
<1>8. Len(s) \in Nat \ {0} /\ Last(s) = s[Len(s)] /\ s[Len(s)] \in S
  BY DEF Last
<1>9. QED
  BY <1>2, <1>4, <1>5, <1>6, <1>7, <1>8

(* Concatenation by its elements.                                          *)
LEMMA Concat ==
  ASSUME NEW S, NEW s \in Seq(S), NEW t \in Seq(S)
  PROVE  /\ s \o t \in Seq(S) /\ Len(s \o t) = Len(s) + Len(t)
         /\ Len(s) \in Nat /\ Len(t) \in Nat
         /\ \A n \in 1 .. Len(s) + Len(t) :
              (s \o t)[n] = IF n <= Len(s) THEN s[n] ELSE t[n - Len(s)]
  BY ConcatProperties

(* What is behind s in a concatenation.                                    *)
LEMMA ConcatAt ==
  ASSUME NEW S, NEW s \in Seq(S), NEW t \in Seq(S)
  PROVE  \A k \in 1 .. Len(t) : (s \o t)[Len(s) + k] = t[k]
<1> SUFFICES ASSUME NEW k \in 1 .. Len(t) PROVE (s \o t)[Len(s) + k] = t[k]
  OBVIOUS
<1>1. PICK n \in Nat : n = Len(s) + k
  OBVIOUS
<1>2. n \in 1 .. Len(s) + Len(t) /\ ~ (n <= Len(s)) /\ n - Len(s) = k
  BY <1>1
<1>3. (s \o t)[n] = IF n <= Len(s) THEN s[n] ELSE t[n - Len(s)]
  BY <1>2, Concat
<1>4. QED
  BY <1>1, <1>2, <1>3

(* Moving the last element of one sequence to the front of the next.       *)
LEMMA ConcatShift ==
  ASSUME NEW S, NEW s \in Seq(S), s # << >>, NEW t \in Seq(S)
  PROVE  Front(s) \o (<<Last(s)>> \o t) = s \o t
<1>1. /\ Front(s) \in Seq(S) /\ Len(Front(s)) = Len(s) - 1
      /\ \A n \in 1 .. Len(s) - 1 : Front(s)[n] = s[n]
      /\ Last(s) = s[Len(s)] /\ Last(s) \in S /\ Len(s) \in Nat \ {0}
  BY FrontLast
<1> DEFINE f == Front(s)
           e == <<Last(s)>>
           u == e \o t
<1>2. e \in Seq(S) /\ Len(e) = 1 /\ e[1] = Last(s)
  BY <1>1
<1>3. f \in Seq(S) /\ Len(f) = Len(s) - 1 /\ \A n \in 1 .. Len(s) - 1 : f[n] = s[n]
  BY <1>1
<1> HIDE DEF f, e
<1>4. /\ u \in Seq(S) /\ Len(u) = 1 + Len(t) /\ Len(t) \in Nat
      /\ \A n \in 1 .. 1 + Len(t) : u[n] = IF n <= 1 THEN e[n] ELSE t[n - 1]
  <2>1. /\ u \in Seq(S) /\ Len(u) = Len(e) + Len(t) /\ Len(t) \in Nat
        /\ \A n \in 1 .. Len(e) + Len(t) : u[n] = IF n <= Len(e) THEN e[n] ELSE t[n - Len(e)]
    BY <1>2, Concat, Zenon
  <2> HIDE DEF u
  <2> QED BY <1>2, <2>1
<1> HIDE DEF u
<1>5. /\ f \o u \in Seq(S) /\ Len(f \o u) = Len(f) + Len(u)
      /\ \A n \in 1 .. Len(f) + Len(u) : (f \o u)[n] = IF n <= Len(f) THEN f[n] ELSE u[n - Len(f)]
  BY <1>3, <1>4, Concat, Zenon
<1>6. /\ s \o t \in Seq(S) /\ Len(s \o t) = Len(s) + Len(t)
      /\ \A n \in 1 .. Len(s) + Len(t) : (s \o t)[n] = IF n <= Len(s) THEN s[n] ELSE t[n - Len(s)]
  BY Concat
<1>7. Len(f \o u) = Len(s \o t)
  BY <1>1, <1>3, <1>4, <1>5, <1>6
<1>8. ASSUME NEW n \in 1 .. Len(s \o t) PROVE (f \o u)[n] = (s \o t)[n]
  <2>0. n \in 1 .. Len(f) + Len(u) /\ n \in 1 .. Len(s) + Len(t) /\ n \in Nat
    BY <1>5, <1>6, <1>7, <1>8
  <2>1. CASE n <= Len(s) - 1
    <3>1. n \in 1 .. Len(s) - 1 /\ n <= Len(f) /\ n <= Len(s)
      BY <1>1, <1>3, <2>0, <2>1
    <3> QED BY <1>3, <1>5, <1>6, <2>0, <3>1
  <2>2. CASE n = Len(s)
    <3>1. ~ (n <= Len(f)) /\ n - Len(f) = 1 /\ n <= Len(s) /\ 1 \in 1 .. 1 + Len(t)
      BY <1>1, <1>3, <1>4, <2>2
    <3>2. (f \o u)[n] = u[1] /\ (s \o t)[n] = s[Len(s)]
      BY <1>5, <1>6, <2>0, <2>2, <3>1
    <3>3. u[1] = e[1]
      BY <1>4, <3>1
    <3> QED BY <1>1, <1>2, <3>2, <3>3
  <2>3. CASE n > Len(s)
    <3> DEFINE k == n - Len(f)
    <3>1. ~ (n <= Len(f)) /\ ~ (n <= Len(s)) /\ k \in 1 .. 1 + Len(t)
          /\ ~ (k <= 1) /\ k - 1 = n - Len(s)
      BY <1>1, <1>3, <1>4, <2>0, <2>3
    <3>2. (f \o u)[n] = u[k] /\ (s \o t)[n] = t[n - Len(s)]
      BY <1>5, <1>6, <2>0, <3>1, SMTT(30)
    <3> HIDE DEF k
    <3>3. u[k] = t[k - 1]
      BY <1>4, <3>1
    <3> QED BY <3>1, <3>2, <3>3
  <2> QED BY <1>1, <2>0, <2>1, <2>2, <2>3, SMTT(30)
<1>9. f \o u = s \o t
  BY <1>5, <1>6, <1>7, <1>8, SeqEqual, SMTT(30)
<1>10. QED
  BY <1>9, Zenon DEF f, u, e

(* A function on an initial interval is a sequence.                        *)
LEMMA FunctionIsSeq ==
  ASSUME NEW S, NEW n \in Nat, NEW s, s = [k \in 1 .. n |-> s[k]], \A k \in 1 .. n : s[k] \in S
  PROVE  s \in Seq(S) /\ Len(s) = n
  OBVIOUS

(* Pushing a frame on an asyncify stack puts it before the others.         *)
LEMMA DecodePush ==
  ASSUME NEW w \in Seq(StackWord), NEW m \in Nat, Len(w) = 2 * m, NEW a \in StackWord, NEW b \in StackWord,
         Decode(w) \in Seq(FrameSet), [pc |-> a, loc |-> b] \in FrameSet
  PROVE  /\ w \o <<a, b>> \in Seq(StackWord) /\ Len(w \o <<a, b>>) = 2 * (m + 1)
         /\ Decode(w \o <<a, b>>) = <<[pc |-> a, loc |-> b]>> \o Decode(w)
<1> DEFINE v == w \o <<a, b>>
           d == Decode(w)
           e == [pc |-> a, loc |-> b]
           x == <<e>> \o d
<1>1. /\ v \in Seq(StackWord) /\ Len(v) = 2 * m + 2
      /\ \A n \in 1 .. 2 * m : v[n] = w[n]
      /\ v[2 * m + 1] = a /\ v[2 * m + 2] = b
  <2> DEFINE t == <<a, b>>
  <2>1. t \in Seq(StackWord) /\ Len(t) = 2 /\ t[1] = a /\ t[2] = b
    OBVIOUS
  <2> HIDE DEF t
  <2>2. /\ w \o t \in Seq(StackWord) /\ Len(w \o t) = Len(w) + Len(t)
        /\ \A n \in 1 .. Len(w) + Len(t) : (w \o t)[n] = IF n <= Len(w) THEN w[n] ELSE t[n - Len(w)]
    BY <2>1, Concat, Zenon
  <2>3. Len(w \o t) = 2 * m + 2
    BY <2>1, <2>2
  <2>4. \A n \in 1 .. 2 * m : (w \o t)[n] = w[n]
    BY <2>1, <2>2
  <2>6. (w \o t)[2 * m + 1] = a /\ (w \o t)[2 * m + 2] = b
    <3>1. 1 \in 1 .. Len(t) /\ 2 \in 1 .. Len(t)
      BY <2>1
    <3>2. (w \o t)[Len(w) + 1] = t[1] /\ (w \o t)[Len(w) + 2] = t[2]
      <4>1. \A k \in 1 .. Len(t) : (w \o t)[Len(w) + k] = t[k]
        <5>1. w \in Seq(StackWord) /\ t \in Seq(StackWord)
          BY <2>1
        <5> QED BY <5>1, ConcatAt, Zenon
      <4> QED BY <3>1, <4>1
    <3> QED BY <2>1, <3>2
  <2> QED BY <2>2, <2>3, <2>4, <2>6, SMTT(30) DEF t
<1>2. /\ Len(d) = m
      /\ \A k \in 1 .. m : d[k] = [pc |-> w[2 * (m - k) + 1], loc |-> w[2 * (m - k) + 2]]
  BY DEF Decode
<1>3. Decode(v) = [k \in 1 .. m + 1 |-> [pc |-> v[2 * (m + 1 - k) + 1], loc |-> v[2 * (m + 1 - k) + 2]]]
  <2> HIDE DEF v
  <2>1. Len(v) \div 2 = m + 1
    BY <1>1
  <2> QED BY <2>1 DEF Decode
<1>4. x \in Seq(FrameSet) /\ Len(x) = m + 1 /\ x[1] = e /\ \A k \in 2 .. m + 1 : x[k] = d[k - 1]
  BY <1>2
<1>5. x = [k \in 1 .. m + 1 |-> x[k]]
  BY <1>4
<1> HIDE DEF v, d, e, x
<1>6. ASSUME NEW k \in 1 .. m + 1
      PROVE  [pc |-> v[2 * (m + 1 - k) + 1], loc |-> v[2 * (m + 1 - k) + 2]] = x[k]
  <2>1. CASE k = 1
    BY <1>1, <1>4, <2>1 DEF e
  <2>2. CASE k # 1
    <3>1. k \in 2 .. m + 1 /\ k - 1 \in 1 .. m /\ m + 1 - k = m - (k - 1)
          /\ 2 * (m + 1 - k) + 1 \in 1 .. 2 * m /\ 2 * (m + 1 - k) + 2 \in 1 .. 2 * m
      BY <2>2
    <3>2. x[k] = d[k - 1]
      BY <1>4, <3>1, Zenon
    <3>3. d[k - 1] = [pc |-> w[2 * (m - (k - 1)) + 1], loc |-> w[2 * (m - (k - 1)) + 2]]
      BY <1>2, <3>1, Zenon
    <3> QED BY <1>1, <3>1, <3>2, <3>3
  <2> QED BY <2>1, <2>2
<1>7. Decode(v) = x
  BY <1>3, <1>5, <1>6
<1>8. 2 * m + 2 = 2 * (m + 1)
  OBVIOUS
<1>9. QED
  BY <1>1, <1>7, <1>8, Zenon DEF v, d, e, x

(* Popping one gives back the frame pushed last.                           *)
LEMMA DecodePop ==
  ASSUME NEW w \in Seq(StackWord), NEW m \in Nat, Len(w) = 2 * (m + 1),
         Decode(w) \in Seq(FrameSet)
  PROVE  /\ SubSeq(w, 1, Len(w) - 2) \in Seq(StackWord) /\ Len(SubSeq(w, 1, Len(w) - 2)) = 2 * m
         /\ Decode(SubSeq(w, 1, Len(w) - 2)) \in Seq(FrameSet)
         /\ [pc |-> w[Len(w) - 1], loc |-> w[Len(w)]] \in FrameSet
         /\ Decode(w) = <<[pc |-> w[Len(w) - 1], loc |-> w[Len(w)]]>>
                           \o Decode(SubSeq(w, 1, Len(w) - 2))
<1> DEFINE v == SubSeq(w, 1, 2 * m)
           d == Decode(v)
           e == [pc |-> w[2 * m + 1], loc |-> w[2 * m + 2]]
           x == <<e>> \o d
<1>0. Len(w) - 2 = 2 * m /\ Len(w) - 1 = 2 * m + 1 /\ Len(w) = 2 * m + 2
  OBVIOUS
<1>1. v \in Seq(StackWord) /\ Len(v) = 2 * m /\ \A n \in 1 .. 2 * m : v[n] = w[n]
  <2> DEFINE l == 2 * m
  <2>0. l \in Nat /\ l \in Int /\ l - 1 + 1 = l /\ \A n \in 1 .. l : w[n] \in StackWord
    BY <1>0
  <2> HIDE DEF l
  <2>1. /\ SubSeq(w, 1, l) \in Seq(StackWord)
        /\ Len(SubSeq(w, 1, l)) = IF 1 <= l THEN l - 1 + 1 ELSE 0
        /\ \A n \in 1 .. l - 1 + 1 : SubSeq(w, 1, l)[n] = w[1 + n - 1]
    BY <2>0, SubSeqProperties
  <2>2. Len(SubSeq(w, 1, l)) = l
    BY <2>0, <2>1
  <2>3. ASSUME NEW n \in 1 .. l PROVE SubSeq(w, 1, l)[n] = w[n]
    <3>1. n \in 1 .. l - 1 + 1 /\ 1 + n - 1 = n
      BY <2>0
    <3> QED BY <2>1, <3>1
  <2> QED BY <2>1, <2>2, <2>3 DEF l
<1>2. d = [k \in 1 .. m |-> [pc |-> v[2 * (m - k) + 1], loc |-> v[2 * (m - k) + 2]]]
  <2> HIDE DEF v
  <2>1. Len(v) \div 2 = m
    BY <1>1
  <2> QED BY <2>1 DEF Decode
<1>3. Decode(w) = [k \in 1 .. m + 1 |-> [pc |-> w[2 * (m + 1 - k) + 1], loc |-> w[2 * (m + 1 - k) + 2]]]
  <2>1. Len(w) \div 2 = m + 1
    OBVIOUS
  <2> QED BY <2>1 DEF Decode
<1>4. /\ Len(Decode(w)) = m + 1
      /\ \A k \in 1 .. m + 1 : Decode(w)[k] \in FrameSet
  <2>1. Decode(w) = [k \in 1 .. m + 1 |-> Decode(w)[k]] /\ m + 1 \in Nat
    BY <1>3
  <2>2. \A k \in DOMAIN Decode(w) : Decode(w)[k] \in FrameSet
    OBVIOUS
  <2>3. \A k \in 1 .. m + 1 : Decode(w)[k] \in FrameSet
    BY <2>1, <2>2
  <2> QED BY <2>1, <2>3, FunctionIsSeq
<1> HIDE DEF v, d
<1>5. \A k \in 1 .. m : d[k] = Decode(w)[k + 1]
  <2> SUFFICES ASSUME NEW k \in 1 .. m PROVE d[k] = Decode(w)[k + 1]
    OBVIOUS
  <2>1. k + 1 \in 1 .. m + 1 /\ m + 1 - (k + 1) = m - k
        /\ 2 * (m - k) + 1 \in 1 .. 2 * m /\ 2 * (m - k) + 2 \in 1 .. 2 * m
    OBVIOUS
  <2>2. d[k] = [pc |-> v[2 * (m - k) + 1], loc |-> v[2 * (m - k) + 2]]
    BY <1>2
  <2>3. Decode(w)[k + 1] = [pc |-> w[2 * (m + 1 - (k + 1)) + 1], loc |-> w[2 * (m + 1 - (k + 1)) + 2]]
    BY <1>3, <2>1
  <2> QED BY <1>1, <2>1, <2>2, <2>3
<1>6. d \in Seq(FrameSet) /\ Len(d) = m
  <2>1. \A k \in 1 .. m : k + 1 \in 1 .. m + 1
    OBVIOUS
  <2>2. \A k \in 1 .. m : d[k] \in FrameSet
    BY <1>4, <1>5, <2>1
  <2>3. d = [k \in 1 .. m |-> d[k]]
    BY <1>2
  <2> QED BY <2>2, <2>3, FunctionIsSeq, Zenon
<1>7. Decode(w)[1] = e /\ e \in FrameSet
  <2>1. 1 \in 1 .. m + 1 /\ 2 * (m + 1 - 1) + 1 = 2 * m + 1 /\ 2 * (m + 1 - 1) + 2 = 2 * m + 2
    OBVIOUS
  <2> QED BY <1>3, <1>4, <2>1, Zenon
<1> HIDE DEF e
<1>8. x \in Seq(FrameSet) /\ Len(x) = m + 1 /\ x[1] = e /\ \A k \in 2 .. m + 1 : x[k] = d[k - 1]
  BY <1>6, <1>7
<1> HIDE DEF x
<1>9. ASSUME NEW k \in 1 .. m + 1 PROVE Decode(w)[k] = x[k]
  <2>1. CASE k = 1
    BY <1>7, <1>8, <2>1
  <2>2. CASE k # 1
    <3>1. k \in 2 .. m + 1 /\ k - 1 \in 1 .. m /\ (k - 1) + 1 = k
      BY <2>2
    <3> QED BY <1>5, <1>8, <3>1
  <2> QED BY <2>1, <2>2
<1>10. Decode(w) = x
  BY <1>4, <1>8, <1>9, SeqEqual
<1>11. QED
  BY <1>0, <1>1, <1>6, <1>7, <1>10 DEF v, d, e, x

-----------------------------------------------------------------------------
(* The call stack.                                                         *)

(* f has an activation on the call stack a.                                *)
Uses(a, f) == \E n \in 1 .. Len(a) : a[n].fiber = f

(* The frames that f has on the call stack a.                              *)
StackIn(a, f) ==
  IF Uses(a, f) THEN a[CHOOSE n \in 1 .. Len(a) : a[n].fiber = f].frames ELSE << >>

(* main at the bottom, each fiber once, and prev names the one below.      *)
CallStack(a) ==
  /\ a \in Seq(Activation)
  /\ Len(a) \in Nat \ {0}
  /\ a[1].fiber = Main
  /\ \A n \in 2 .. Len(a) : a[n].fiber \in Fib /\ a[n].prev = a[n - 1].fiber
  /\ \A m, n \in 1 .. Len(a) : m # n => a[m].fiber # a[n].fiber

(* The frames of a fiber are those of its activation.                      *)
LEMMA StackOfActivation ==
  ASSUME NEW a, CallStack(a)
  PROVE  /\ \A n \in 1 .. Len(a) : Uses(a, a[n].fiber) /\ StackIn(a, a[n].fiber) = a[n].frames
         /\ \A f : ~Uses(a, f) => StackIn(a, f) = << >>
<1>1. ASSUME NEW n \in 1 .. Len(a)
      PROVE  Uses(a, a[n].fiber) /\ StackIn(a, a[n].fiber) = a[n].frames
  <2>1. Uses(a, a[n].fiber)
    BY DEF Uses
  <2> DEFINE m == CHOOSE m \in 1 .. Len(a) : a[m].fiber = a[n].fiber
  <2>2. m \in 1 .. Len(a) /\ a[m].fiber = a[n].fiber
    OBVIOUS
  <2>3. m = n
    BY <2>2 DEF CallStack
  <2> QED BY <2>1, <2>3, Zenon DEF StackIn
<1>2. QED
  BY <1>1 DEF StackIn

(* Two call stacks with the same activations of g give it the same frames. *)
LEMMA SameFrames ==
  ASSUME NEW a, NEW b, CallStack(a), CallStack(b), NEW g,
         \A n \in 1 .. Len(a) : a[n].fiber = g => n \in 1 .. Len(b) /\ b[n].fiber = g /\ b[n].frames = a[n].frames,
         \A n \in 1 .. Len(b) : b[n].fiber = g => n \in 1 .. Len(a) /\ a[n].fiber = g
  PROVE  StackIn(b, g) = StackIn(a, g) /\ (Uses(b, g) <=> Uses(a, g))
<1>1. Uses(b, g) <=> Uses(a, g)
  BY DEF Uses
<1>2. CASE Uses(a, g)
  <2>1. PICK n \in 1 .. Len(a) : a[n].fiber = g
    BY <1>2 DEF Uses
  <2>2. StackIn(a, g) = a[n].frames
    BY <2>1, StackOfActivation
  <2>3. StackIn(b, g) = b[n].frames
    BY <2>1, StackOfActivation
  <2> QED BY <1>1, <2>1, <2>2, <2>3
<1>3. CASE ~Uses(a, g)
  BY <1>1, <1>3, StackOfActivation
<1>4. QED
  BY <1>1, <1>2, <1>3

(* The three things that happen to the call stack: the frames of the       *)
(* innermost activation change, fiber_resume adds an activation, and       *)
(* fiber_resume comes back and answers the activation below.               *)
Replaces(a, s, b) ==
  CallStack(a) /\ s \in Seq(FrameSet) /\ b = [a EXCEPT ![Len(a)].frames = s]

Pushes(a, f, s, b) ==
  /\ CallStack(a) /\ s \in Seq(FrameSet) /\ f \in Fib /\ ~Uses(a, f)
  /\ b = Append(a, [fiber |-> f, prev |-> a[Len(a)].fiber, frames |-> s])

Pops(a, s, b) ==
  /\ CallStack(a) /\ s \in Seq(FrameSet) /\ Len(a) > 1
  /\ b = [Front(a) EXCEPT ![Len(a) - 1].frames = s]

(* A change of the innermost frames leaves the other stacks alone.         *)
LEMMA ReplacesStack ==
  ASSUME NEW a, NEW s, NEW b, Replaces(a, s, b)
  PROVE  /\ CallStack(b) /\ Len(b) = Len(a)
         /\ \A n \in 1 .. Len(a) : b[n].fiber = a[n].fiber
         /\ \A n \in 1 .. Len(a) - 1 : b[n] = a[n]
         /\ b[Len(a)].frames = s
         /\ \A g : Uses(b, g) <=> Uses(a, g)
         /\ \A g : StackIn(b, g) = IF g = a[Len(a)].fiber THEN s ELSE StackIn(a, g)
<1>1. /\ CallStack(a) /\ s \in Seq(FrameSet) /\ b = [a EXCEPT ![Len(a)].frames = s]
      /\ a \in Seq(Activation) /\ Len(a) \in Nat \ {0}
  BY DEF Replaces, CallStack
<1>2. /\ b \in Seq(Activation) /\ Len(b) = Len(a)
      /\ \A n \in 1 .. Len(a) : n # Len(a) => b[n] = a[n]
      /\ b[Len(a)].fiber = a[Len(a)].fiber /\ b[Len(a)].prev = a[Len(a)].prev
      /\ b[Len(a)].frames = s
  <2>0. Len(a) \in 1 .. Len(a)
    BY <1>1
  <2> DEFINE r == [a[Len(a)] EXCEPT !.frames = s]
  <2>1. a[Len(a)] \in Activation
    BY <1>1, <2>0
  <2>2. r \in Activation /\ r.fiber = a[Len(a)].fiber /\ r.prev = a[Len(a)].prev /\ r.frames = s
    BY <1>1, <2>1, Zenon DEF Activation
  <2>3. b = [a EXCEPT ![Len(a)] = r]
    BY <1>1
  <2> HIDE DEF r
  <2>4. a \in Seq(Activation)
    BY <1>1
  <2>5. /\ b \in Seq(Activation) /\ Len(b) = Len(a) /\ b[Len(a)] = r
        /\ \A n \in 1 .. Len(a) : n # Len(a) => b[n] = a[n]
    BY <2>0, <2>2, <2>3, <2>4
  <2> QED BY <2>2, <2>5
<1>3. \A n \in 1 .. Len(a) : b[n].fiber = a[n].fiber /\ b[n].prev = a[n].prev
  BY <1>2
<1>4. CallStack(b)
  <2>1. b[1].fiber = Main
    BY <1>1, <1>3 DEF CallStack
  <2>2. ASSUME NEW n \in 2 .. Len(b) PROVE b[n].fiber \in Fib /\ b[n].prev = b[n - 1].fiber
    <3>1. n \in 2 .. Len(a) /\ n \in 1 .. Len(a) /\ n - 1 \in 1 .. Len(a)
      BY <1>1, <1>2
    <3> QED BY <1>1, <1>3, <3>1 DEF CallStack
  <2>3. \A m, n \in 1 .. Len(b) : m # n => b[m].fiber # b[n].fiber
    BY <1>1, <1>2, <1>3 DEF CallStack
  <2> QED BY <1>1, <1>2, <2>1, <2>2, <2>3 DEF CallStack
<1>5. \A g : Uses(b, g) <=> Uses(a, g)
  BY <1>2, <1>3 DEF Uses
<1>6. ASSUME NEW g PROVE StackIn(b, g) = IF g = a[Len(a)].fiber THEN s ELSE StackIn(a, g)
  <2>1. CASE g = a[Len(a)].fiber
    <3>1. Len(a) \in 1 .. Len(b) /\ b[Len(a)].fiber = g
      BY <1>1, <1>2, <2>1
    <3> QED BY <1>2, <1>4, <2>1, <3>1, StackOfActivation
  <2>2. CASE g # a[Len(a)].fiber
    <3>1. \A n \in 1 .. Len(a) : a[n].fiber = g => b[n] = a[n]
      BY <1>2, <2>2
    <3>2. StackIn(b, g) = StackIn(a, g)
      BY <1>1, <1>2, <1>3, <1>4, <3>1, SameFrames, Zenon
    <3> QED BY <2>2, <3>2
  <2> QED BY <2>1, <2>2
<1>7. \A n \in 1 .. Len(a) - 1 : b[n] = a[n]
  BY <1>1, <1>2
<1>8. QED
  BY <1>2, <1>3, <1>4, <1>5, <1>6, <1>7

(* A new activation gives its fiber a stack and leaves the others alone.   *)
LEMMA PushesStack ==
  ASSUME NEW a, NEW f, NEW s, NEW b, Pushes(a, f, s, b)
  PROVE  /\ CallStack(b) /\ Len(b) = Len(a) + 1
         /\ \A n \in 1 .. Len(a) : b[n] = a[n]
         /\ b[Len(a) + 1].fiber = f /\ b[Len(a) + 1].frames = s
         /\ \A g : Uses(b, g) <=> Uses(a, g) \/ g = f
         /\ \A g : StackIn(b, g) = IF g = f THEN s ELSE StackIn(a, g)
<1> DEFINE r == [fiber |-> f, prev |-> a[Len(a)].fiber, frames |-> s]
<1>1. /\ CallStack(a) /\ s \in Seq(FrameSet) /\ f \in Fib /\ ~Uses(a, f) /\ b = Append(a, r)
      /\ a \in Seq(Activation) /\ Len(a) \in Nat \ {0}
  BY DEF Pushes, CallStack
<1>2. a[Len(a)] \in Activation
  BY <1>1
<1>3. r \in Activation /\ r.fiber = f /\ r.prev = a[Len(a)].fiber /\ r.frames = s
  BY <1>1, <1>2 DEF Activation
<1> HIDE DEF r
<1>4. /\ b \in Seq(Activation) /\ Len(b) = Len(a) + 1 /\ b[Len(a) + 1] = r
      /\ \A n \in 1 .. Len(a) : b[n] = a[n]
  BY <1>1, <1>3
<1>5. \A n \in 1 .. Len(b) : n \in 1 .. Len(a) \/ n = Len(a) + 1
  BY <1>1, <1>4
<1>6. \A n \in 1 .. Len(a) : a[n].fiber # f
  BY <1>1 DEF Uses
<1>7. CallStack(b)
  <2>1. b[1].fiber = Main
    BY <1>1, <1>4 DEF CallStack
  <2>2. ASSUME NEW n \in 2 .. Len(b) PROVE b[n].fiber \in Fib /\ b[n].prev = b[n - 1].fiber
    <3>1. CASE n = Len(a) + 1
      <4>1. n - 1 = Len(a) /\ Len(a) \in 1 .. Len(a)
        BY <1>1, <3>1
      <4> QED BY <1>1, <1>3, <1>4, <3>1, <4>1
    <3>2. CASE n # Len(a) + 1
      <4>1. n \in 2 .. Len(a) /\ n \in 1 .. Len(a) /\ n - 1 \in 1 .. Len(a)
        BY <1>1, <1>4, <3>2
      <4> QED BY <1>1, <1>4, <4>1 DEF CallStack
    <3> QED BY <3>1, <3>2
  <2>3. ASSUME NEW m \in 1 .. Len(b), NEW n \in 1 .. Len(b), m # n
        PROVE  b[m].fiber # b[n].fiber
    <3>1. CASE m \in 1 .. Len(a) /\ n \in 1 .. Len(a)
      BY <1>1, <1>4, <2>3, <3>1 DEF CallStack
    <3>2. CASE m = Len(a) + 1 \/ n = Len(a) + 1
      BY <1>3, <1>4, <1>5, <1>6, <2>3, <3>2
    <3> QED BY <1>5, <3>1, <3>2
  <2>4. Len(b) \in Nat \ {0}
    BY <1>1, <1>4
  <2> QED BY <1>4, <2>1, <2>2, <2>3, <2>4 DEF CallStack
<1>8. Len(a) + 1 \in 1 .. Len(b) /\ \A n \in 1 .. Len(a) : n \in 1 .. Len(b)
  BY <1>1, <1>4
<1>9. \A g : Uses(b, g) <=> Uses(a, g) \/ g = f
  BY <1>3, <1>4, <1>5, <1>8 DEF Uses
<1>10. ASSUME NEW g PROVE StackIn(b, g) = IF g = f THEN s ELSE StackIn(a, g)
  <2>1. CASE g = f
    BY <1>3, <1>4, <1>7, <1>8, <2>1, StackOfActivation
  <2>2. CASE g # f
    <3>1. \A n \in 1 .. Len(b) : b[n].fiber = g => n \in 1 .. Len(a)
      BY <1>3, <1>4, <1>5, <2>2
    <3>2. StackIn(b, g) = StackIn(a, g)
      BY <1>1, <1>4, <1>7, <1>8, <3>1, SameFrames, Zenon
    <3> QED BY <2>2, <3>2
  <2> QED BY <2>1, <2>2
<1>11. QED
  BY <1>3, <1>4, <1>7, <1>9, <1>10

(* When fiber_resume comes back its fiber has no stack, and only the       *)
(* activation below has changed.                                           *)
LEMMA PopsStack ==
  ASSUME NEW a, NEW s, NEW b, Pops(a, s, b)
  PROVE  /\ CallStack(b) /\ Len(b) = Len(a) - 1
         /\ \A n \in 1 .. Len(a) - 1 : b[n].fiber = a[n].fiber
         /\ \A n \in 1 .. Len(a) - 2 : b[n] = a[n]
         /\ b[Len(a) - 1].frames = s
         /\ \A g : Uses(b, g) <=> Uses(a, g) /\ g # a[Len(a)].fiber
         /\ \A g : StackIn(b, g) = IF g = a[Len(a)].fiber THEN << >>
                                   ELSE IF g = a[Len(a) - 1].fiber THEN s ELSE StackIn(a, g)
<1>1. /\ CallStack(a) /\ s \in Seq(FrameSet) /\ Len(a) > 1
      /\ b = [Front(a) EXCEPT ![Len(a) - 1].frames = s]
      /\ a \in Seq(Activation) /\ Len(a) \in Nat \ {0}
  BY DEF Pops, CallStack
<1>2. PICK m \in Nat \ {0} : Len(a) = m + 1
  <2>1. PICK l \in Nat : l = Len(a) /\ l > 1
    BY <1>1
  <2>2. l - 1 \in Nat \ {0} /\ l = (l - 1) + 1
    BY <2>1
  <2> QED BY <2>1, <2>2
<1>3. PICK c : c = Front(a)
  OBVIOUS
<1>4. /\ c \in Seq(Activation) /\ Len(c) = m /\ \A n \in 1 .. m : c[n] = a[n]
      /\ b = [c EXCEPT ![m].frames = s]
  <2>1. a # << >> /\ Len(a) - 1 = m
    BY <1>1, <1>2
  <2> QED BY <1>1, <1>3, <2>1, FrontLast, Zenon
<1>5. CallStack(c)
  <2>1. \A n \in 1 .. m : n \in 1 .. Len(a)
    BY <1>2
  <2>2. ASSUME NEW n \in 2 .. Len(c) PROVE c[n].fiber \in Fib /\ c[n].prev = c[n - 1].fiber
    <3>1. n \in 2 .. Len(a) /\ n \in 1 .. m /\ n - 1 \in 1 .. m
      BY <1>2, <1>4
    <3> QED BY <1>1, <1>4, <3>1, SMTT(30) DEF CallStack
  <2>3. c[1].fiber = Main /\ Len(c) \in Nat \ {0}
    <3>1. 1 \in 1 .. m /\ Len(c) \in Nat \ {0}
      BY <1>4
    <3>2. a[1].fiber = Main
      BY <1>1 DEF CallStack
    <3> QED BY <1>4, <3>1, <3>2
  <2>4. \A l, n \in 1 .. Len(c) : l # n => c[l].fiber # c[n].fiber
    BY <1>1, <1>4, <2>1 DEF CallStack
  <2> QED BY <1>4, <2>2, <2>3, <2>4 DEF CallStack
<1>6. Replaces(c, s, b)
  BY <1>1, <1>4, <1>5, Zenon DEF Replaces
<1>7. /\ CallStack(b) /\ Len(b) = m
      /\ \A n \in 1 .. m : b[n].fiber = c[n].fiber
      /\ \A n \in 1 .. m - 1 : b[n] = c[n]
      /\ b[m].frames = s
      /\ \A g : Uses(b, g) <=> Uses(c, g)
      /\ \A g : StackIn(b, g) = IF g = c[m].fiber THEN s ELSE StackIn(c, g)
  <2>1. /\ CallStack(b) /\ Len(b) = Len(c)
        /\ \A n \in 1 .. Len(c) : b[n].fiber = c[n].fiber
        /\ \A n \in 1 .. Len(c) - 1 : b[n] = c[n]
        /\ b[Len(c)].frames = s
        /\ \A g : Uses(b, g) <=> Uses(c, g)
        /\ \A g : StackIn(b, g) = IF g = c[Len(c)].fiber THEN s ELSE StackIn(c, g)
    BY <1>6, ReplacesStack
  <2>2. Len(c) = m
    BY <1>4
  <2> QED BY <2>1, <2>2
<1>8. /\ m \in 1 .. m /\ \A n \in 1 .. m - 1 : n \in 1 .. m
      /\ m + 1 \in 1 .. Len(a) /\ \A n \in 1 .. Len(a) : n \in 1 .. m \/ n = m + 1
      /\ \A n \in 1 .. m : n \in 1 .. Len(a) /\ n # m + 1
  BY <1>2
<1>9. \A n \in 1 .. m : a[n].fiber # a[m + 1].fiber
  BY <1>1, <1>8 DEF CallStack
<1>10. \A g : Uses(c, g) <=> Uses(a, g) /\ g # a[m + 1].fiber
  BY <1>4, <1>8, <1>9, Zenon DEF Uses
<1>11. ASSUME NEW g PROVE StackIn(c, g) = IF g = a[m + 1].fiber THEN << >> ELSE StackIn(a, g)
  <2>1. CASE g = a[m + 1].fiber
    BY <1>5, <1>10, <2>1, StackOfActivation
  <2>2. CASE g # a[m + 1].fiber
    <3>1. \A n \in 1 .. Len(a) : a[n].fiber = g => n \in 1 .. Len(c)
      BY <1>4, <1>8, <2>2
    <3>2. StackIn(c, g) = StackIn(a, g)
      <4>1. \A n \in 1 .. Len(a) : a[n].fiber = g
              => n \in 1 .. Len(c) /\ c[n].fiber = g /\ c[n].frames = a[n].frames
        BY <1>4, <3>1
      <4>2. \A n \in 1 .. Len(c) : c[n].fiber = g => n \in 1 .. Len(a) /\ a[n].fiber = g
        BY <1>4, <1>8
      <4>3. CallStack(a)
        BY <1>1
      <4> QED BY <1>5, <4>1, <4>2, <4>3, SameFrames
    <3> QED BY <2>2, <3>2
  <2> QED BY <2>1, <2>2
<1>12. Len(a) - 1 = m /\ Len(a) - 2 = m - 1 /\ Len(a) = m + 1
  BY <1>2
<1>13. c[m] = a[m] /\ a[m].fiber # a[m + 1].fiber
  BY <1>4, <1>8, <1>9
<1>14. \A n \in 1 .. m : b[n].fiber = a[n].fiber
  BY <1>4, <1>7
<1>15. \A n \in 1 .. m - 1 : b[n] = a[n]
  BY <1>4, <1>7, <1>8
<1>16. \A g : Uses(b, g) <=> Uses(a, g) /\ g # a[m + 1].fiber
  BY <1>7, <1>10
<1>17. \A g : StackIn(b, g) = IF g = a[m + 1].fiber THEN << >>
                             ELSE IF g = a[m].fiber THEN s ELSE StackIn(a, g)
  BY <1>7, <1>11, <1>13
<1>18. QED
  BY <1>7, <1>12, <1>14, <1>15, <1>16, <1>17

-----------------------------------------------------------------------------
(* The frames of an activation.                                            *)

(* All but the innermost frame are at ordinary calls.                      *)
Shape(s, p) ==
  /\ s \in Seq(FrameSet)
  /\ Len(s) \in Nat \ {0}
  /\ \A n \in 1 .. Len(s) - 1 : s[n].pc \in Site
  /\ s[Len(s)].pc = p

(* A sequence of frames with another last frame.                           *)
LEMMA ShapeSetLast ==
  ASSUME NEW s, NEW p, Shape(s, p), NEW e \in FrameSet
  PROVE  /\ [s EXCEPT ![Len(s)] = e] \in Seq(FrameSet)
         /\ Len([s EXCEPT ![Len(s)] = e]) = Len(s)
         /\ Shape([s EXCEPT ![Len(s)] = e], e.pc)
<1> DEFINE t == [s EXCEPT ![Len(s)] = e]
<1>1. s \in Seq(FrameSet) /\ Len(s) \in Nat \ {0} /\ Len(s) \in 1 .. Len(s)
  BY DEF Shape
<1>2. /\ t \in Seq(FrameSet) /\ Len(t) = Len(s) /\ t[Len(s)] = e
      /\ \A n \in 1 .. Len(s) : n # Len(s) => t[n] = s[n]
  BY <1>1
<1> HIDE DEF t
<1>3. \A n \in 1 .. Len(s) - 1 : n \in 1 .. Len(s) /\ n # Len(s)
  BY <1>1
<1>4. Shape(t, e.pc)
  BY <1>1, <1>2, <1>3, Zenon DEF Shape
<1>5. QED
  BY <1>2, <1>4 DEF t

(* The innermost frame receives a value.                                   *)
LEMMA ShapeReceive ==
  ASSUME NEW s, NEW p, Shape(s, p), NEW v \in Loc
  PROVE  Shape(Receive(s, v), "run") /\ Receive(s, v) \in Seq(FrameSet) /\ Len(Receive(s, v)) = Len(s)
<1> DEFINE e == [pc |-> "run", loc |-> v]
<1>1. e \in FrameSet /\ e.pc = "run"
  BY DEF FrameSet, Pc
<1>2. Receive(s, v) = [s EXCEPT ![Len(s)] = e]
  BY DEF Receive
<1> HIDE DEF e
<1>3. /\ [s EXCEPT ![Len(s)] = e] \in Seq(FrameSet)
      /\ Len([s EXCEPT ![Len(s)] = e]) = Len(s)
      /\ Shape([s EXCEPT ![Len(s)] = e], e.pc)
  BY <1>1, ShapeSetLast
<1>4. QED
  BY <1>1, <1>2, <1>3

(* The innermost frame is at another place.                                *)
LEMMA ShapePc ==
  ASSUME NEW s, NEW p, Shape(s, p), NEW q \in Pc
  PROVE  /\ Shape([s EXCEPT ![Len(s)].pc = q], q) /\ [s EXCEPT ![Len(s)].pc = q] \in Seq(FrameSet)
         /\ Len([s EXCEPT ![Len(s)].pc = q]) = Len(s)
<1>1. s[Len(s)] \in FrameSet
  BY DEF Shape
<1> DEFINE e == [s[Len(s)] EXCEPT !.pc = q]
<1>2. e \in FrameSet /\ e.pc = q
  BY <1>1 DEF FrameSet
<1>3. [s EXCEPT ![Len(s)].pc = q] = [s EXCEPT ![Len(s)] = e]
  OBVIOUS
<1> HIDE DEF e
<1>4. QED
  BY <1>2, <1>3, ShapeSetLast

(* A call adds a frame.                                                    *)
LEMMA ShapeCall ==
  ASSUME NEW s, NEW p, Shape(s, p), NEW q \in Site, NEW v \in Loc
  PROVE  /\ Shape(Append([s EXCEPT ![Len(s)].pc = q], [pc |-> "run", loc |-> v]), "run")
         /\ Append([s EXCEPT ![Len(s)].pc = q], [pc |-> "run", loc |-> v]) \in Seq(FrameSet)
<1> DEFINE t == [s EXCEPT ![Len(s)].pc = q]
           e == [pc |-> "run", loc |-> v]
           u == Append(t, e)
<1>1. Shape(t, q) /\ t \in Seq(FrameSet) /\ Len(t) = Len(s)
  <2>1. q \in Pc
    BY DEF Pc
  <2> QED BY <2>1, ShapePc
<1>2. e \in FrameSet /\ e.pc = "run"
  BY DEF FrameSet, Pc
<1> HIDE DEF t, e
<1>3. /\ u \in Seq(FrameSet) /\ Len(u) = Len(t) + 1 /\ u[Len(t) + 1] = e
      /\ \A n \in 1 .. Len(t) : u[n] = t[n]
  BY <1>1, <1>2
<1> HIDE DEF u
<1>4. PICK l \in Nat \ {0} : l = Len(t)
  BY <1>1 DEF Shape
<1>5. \A n \in 1 .. l : t[n].pc \in Site
  <2> SUFFICES ASSUME NEW n \in 1 .. l PROVE t[n].pc \in Site
    OBVIOUS
  <2>1. n = l \/ n \in 1 .. l - 1
    BY <1>4
  <2> QED BY <1>1, <1>4, <2>1 DEF Shape
<1>6. Shape(u, "run")
  <2>1. Len(u) = l + 1 /\ Len(u) \in Nat \ {0} /\ Len(u) - 1 = l
    BY <1>3, <1>4
  <2> QED BY <1>2, <1>3, <1>4, <1>5, <2>1 DEF Shape
<1>7. QED
  BY <1>3, <1>6 DEF u, t, e

(* A return takes it away.                                                 *)
LEMMA ShapeReturn ==
  ASSUME NEW s, NEW p, Shape(s, p), Len(s) > 1
  PROVE  Front(s) \in Seq(FrameSet) /\ \E q : Shape(Front(s), q)
<1>1. s \in Seq(FrameSet) /\ s # << >>
  BY DEF Shape
<1>2. PICK l \in Nat \ {0} : Len(s) = l + 1
  <2>1. PICK k \in Nat : k = Len(s) /\ k > 1
    BY DEF Shape
  <2>2. k - 1 \in Nat \ {0} /\ k = (k - 1) + 1
    BY <2>1
  <2> QED BY <2>1, <2>2
<1>3. Len(s) - 1 = l
  BY <1>2
<1>4. /\ Front(s) \in Seq(FrameSet) /\ Len(Front(s)) = l
      /\ \A n \in 1 .. l : Front(s)[n] = s[n]
  BY <1>1, <1>3, FrontLast
<1>5. \A n \in 1 .. l - 1 : n \in 1 .. l
  BY <1>2
<1>6. Shape(Front(s), Front(s)[l].pc)
  BY <1>3, <1>4, <1>5 DEF Shape
<1>7. QED
  BY <1>4, <1>6

(* The frames that are still on the call stack are the outer ones.         *)
LEMMA ShapeOuter ==
  ASSUME NEW s \in Seq(FrameSet), NEW t \in Seq(FrameSet), NEW p, Shape(s \o t, p)
  PROVE  /\ t # << >> /\ s # << >> => Last(s).pc \in Site
         /\ t = << >> => s \o t = s
         /\ s = << >> => s \o t = t
         /\ s # << >> \/ t # << >>
<1>1. t = << >> => s \o t = s
  BY ConcatEmptySeq
<1>2. s = << >> => s \o t = t
  BY ConcatEmptySeq
<1>3. ASSUME t # << >>, s # << >> PROVE Last(s).pc \in Site
  <2>1. Len(s) \in Nat \ {0} /\ Len(t) \in Nat \ {0} /\ Last(s) = s[Len(s)]
    BY <1>3, FrontLast, Zenon
  <2>2. /\ Len(s \o t) = Len(s) + Len(t)
        /\ \A n \in 1 .. Len(s) + Len(t) :
              (s \o t)[n] = IF n <= Len(s) THEN s[n] ELSE t[n - Len(s)]
    BY Concat
  <2>3. Len(s) \in 1 .. Len(s) + Len(t) /\ Len(s) <= Len(s)
        /\ Len(s) \in 1 .. (Len(s) + Len(t)) - 1
    BY <2>1
  <2>4. (s \o t)[Len(s)] = s[Len(s)]
    BY <2>2, <2>3
  <2> QED BY <2>1, <2>2, <2>3, <2>4 DEF Shape
<1>4. s # << >> \/ t # << >>
  BY <1>2 DEF Shape
<1>5. QED
  BY <1>1, <1>2, <1>3, <1>4

-----------------------------------------------------------------------------
(* The inductive invariant.                                                *)

(* An asyncify stack holds two words per frame.                            *)
Even(w) == \E m \in Nat : Len(w) = 2 * m

(* The asyncify stack of a suspended fiber.                                *)
Suspended(w) == Even(w) /\ Shape(Decode(w), "yield") /\ Len(w) <= Cap

(* The stack s that is unwound or rewound, the words w of it that are on   *)
(* the asyncify stack.                                                     *)
Moving(s, w) ==
  /\ Even(w)
  /\ Decode(w) \in Seq(FrameSet)
  /\ Shape(s \o Decode(w), "yield")

(* The types of the globals and of the fibers.                             *)
AsyncifyTypeOK ==
  /\ state \in [Fib -> {"FREED", "ACTIVE", "YIELDING", "DONE"}]
  /\ arg \in [Fib -> Loc]
  /\ saved \in [Fib -> Seq(StackWord)]
  /\ asyncify_state \in {0, 1, 2}
  /\ asyncify_data \in Fib \cup {Main}
  /\ status \in {"ok", "trap"}

(* Only the innermost activation unwinds or rewinds; below it every        *)
(* activation is at its call of fiber_resume.                              *)
FramesAt(a, f, k) ==
  /\ CallStack(a)
  /\ f = a[Len(a)].fiber
  /\ \A n \in 1 .. Len(a) : n # Len(a) \/ k = 0 => Shape(a[n].frames, "run")

(* It is so for the call stack of the program.                             *)
FramesOK == FramesAt(acts, active_fiber, asyncify_state)

(* What is unwound or rewound is the active fiber: its frames and its      *)
(* words together are the stack it yields with.                            *)
SwitchOK ==
  asyncify_state # 0 =>
    /\ active_fiber \in Fib
    /\ asyncify_data = active_fiber
    /\ state[active_fiber] = "YIELDING"
    /\ Moving(acts[Len(acts)].frames, saved[active_fiber])
    /\ asyncify_state = 2 => Len(saved[active_fiber]) <= Cap

(* A fiber with the state st and the words w, on the call stack or not.    *)
FiberOK(st, w, used) ==
  IF used THEN st = "ACTIVE" /\ w = << >>
  ELSE IF st = "YIELDING" THEN Suspended(w) ELSE w = << >>

(* It is so for every fiber but the one that is moved.                     *)
FibersOK ==
  \A f \in Fib :
    f # active_fiber \/ asyncify_state = 0 => FiberOK(state[f], saved[f], Uses(acts, f))

(* Only an overflow, or a fiber that does not exist, traps.                *)
TrapOK ==
  status = "trap" => \/ state[asyncify_data] = "FREED"
                     \/ Len(saved[asyncify_data]) > Cap

(* All of it.                                                              *)
AInv == AsyncifyTypeOK /\ FramesOK /\ SwitchOK /\ FibersOK /\ TrapOK

(* The frames on top change.                                               *)
LEMMA FramesReplace ==
  ASSUME NEW a, NEW f, NEW k, FramesAt(a, f, k), NEW s, NEW b, Replaces(a, s, b),
         NEW l, l = 0 => Shape(s, "run")
  PROVE  FramesAt(b, f, l)
<1>1. CallStack(a) /\ Len(a) \in Nat \ {0}
  BY DEF FramesAt, CallStack
<1>2. /\ CallStack(b) /\ Len(b) = Len(a)
      /\ \A n \in 1 .. Len(a) : b[n].fiber = a[n].fiber
      /\ \A n \in 1 .. Len(a) - 1 : b[n] = a[n]
      /\ b[Len(a)].frames = s
  BY ReplacesStack
<1>3. \A n \in 1 .. Len(a) : n # Len(a) => n \in 1 .. Len(a) - 1
  BY <1>1
<1>4. Len(a) \in 1 .. Len(a)
  BY <1>1
<1>5. QED
  BY <1>2, <1>3, <1>4 DEF FramesAt

(* A fiber is resumed.                                                     *)
LEMMA FramesPush ==
  ASSUME NEW a, NEW f, FramesAt(a, f, 0), NEW g, NEW s, NEW b, Pushes(a, g, s, b),
         NEW l, l = 0 => Shape(s, "run")
  PROVE  FramesAt(b, g, l)
<1>1. CallStack(a) /\ Len(a) \in Nat \ {0}
  BY DEF FramesAt, CallStack
<1>2. /\ CallStack(b) /\ Len(b) = Len(a) + 1
      /\ \A n \in 1 .. Len(a) : b[n] = a[n]
      /\ b[Len(a) + 1].fiber = g /\ b[Len(a) + 1].frames = s
  BY PushesStack
<1>3. \A n \in 1 .. Len(a) + 1 : n # Len(a) + 1 => n \in 1 .. Len(a)
  BY <1>1
<1>5. QED
  BY <1>2, <1>3 DEF FramesAt

(* fiber_resume returns.                                                   *)
LEMMA FramesPop ==
  ASSUME NEW a, NEW f, NEW k, FramesAt(a, f, k), NEW s, NEW b, Pops(a, s, b),
         Shape(s, "run")
  PROVE  /\ FramesAt(b, a[Len(a)].prev, 0)
         /\ a[Len(a)].prev = a[Len(a) - 1].fiber
<1>1. CallStack(a) /\ Len(a) \in Nat \ {0} /\ Len(a) > 1
  BY DEF FramesAt, CallStack, Pops
<1>2. PICK m \in Nat \ {0} : Len(a) = m + 1 /\ Len(a) - 1 = m /\ Len(a) - 2 = m - 1
  <2>1. PICK l \in Nat : l = Len(a) /\ l > 1
    BY <1>1
  <2>2. l - 1 \in Nat \ {0} /\ l = (l - 1) + 1 /\ l - 2 = (l - 1) - 1
    BY <2>1
  <2> QED BY <2>1, <2>2
<1>3. /\ CallStack(b) /\ Len(b) = m
      /\ \A n \in 1 .. m : b[n].fiber = a[n].fiber
      /\ \A n \in 1 .. m - 1 : b[n] = a[n]
      /\ b[m].frames = s
  BY <1>2, PopsStack
<1>4. m + 1 \in 2 .. Len(a) /\ (m + 1) - 1 = m /\ m \in 1 .. m
  BY <1>2
<1>5. a[m + 1].prev = a[m].fiber
  BY <1>1, <1>4 DEF CallStack
<1>6. \A n \in 1 .. m : (n # m => n \in 1 .. m - 1) /\ n \in 1 .. Len(a) /\ n # Len(a)
  BY <1>2
<1>7. \A n \in 1 .. m : Shape(b[n].frames, "run")
  BY <1>3, <1>6 DEF FramesAt
<1>8. QED
  BY <1>2, <1>3, <1>4, <1>5, <1>7 DEF FramesAt

(* What the invariant says of the activation on top.                       *)
LEMMA OnTopFacts ==
  ASSUME AInv
  PROVE  /\ CallStack(acts) /\ Len(acts) \in Nat \ {0}
         /\ Act = acts[Len(acts)] /\ Act.fiber = active_fiber
         /\ Act.frames \in Seq(FrameSet)
         /\ active_fiber \in Fib \cup {Main}
         /\ active_fiber \in Fib <=> Len(acts) > 1
         /\ active_fiber \in Fib <=> active_fiber # Main
         /\ Uses(acts, active_fiber)
         /\ \A f : InUse(f) <=> Uses(acts, f)
         /\ asyncify_state = 0 => Shape(Act.frames, "run")
<1>1. FramesAt(acts, active_fiber, asyncify_state)
  BY DEF AInv, FramesOK
<1>2. /\ CallStack(acts) /\ acts \in Seq(Activation) /\ Len(acts) \in Nat \ {0}
      /\ acts # << >> /\ Len(acts) \in 1 .. Len(acts)
      /\ active_fiber = acts[Len(acts)].fiber
  BY <1>1 DEF FramesAt, CallStack
<1>3. Act = acts[Len(acts)]
  BY <1>2, FrontLast, Zenon DEF Act
<1>4. Act \in Activation
  BY <1>2, <1>3
<1>5. (Len(acts) = 1 /\ ~(Len(acts) > 1)) \/ (Len(acts) > 1 /\ Len(acts) \in 2 .. Len(acts))
  <2>1. PICK l \in Nat \ {0} : l = Len(acts)
    BY <1>2
  <2>2. (l = 1 /\ ~(l > 1)) \/ (l > 1 /\ l \in 2 .. l)
    BY <2>1
  <2> QED BY <2>1, <2>2
<1>6. active_fiber \in Fib <=> Len(acts) > 1
  BY <1>2, <1>5, AsyncifyAssumption DEF CallStack
<1>7. Act.frames \in Seq(FrameSet) /\ Act.fiber \in Fib \cup {Main}
  BY <1>4 DEF Activation
<1>8. asyncify_state = 0 => Shape(Act.frames, "run")
  BY <1>1, <1>2, <1>3 DEF FramesAt
<1>9. \A f : InUse(f) <=> Uses(acts, f)
  BY DEF InUse, Uses
<1>10. Uses(acts, active_fiber)
  BY <1>2 DEF Uses
<1>11. QED
  BY <1>2, <1>3, <1>6, <1>7, <1>8, <1>9, <1>10, AsyncifyAssumption

(* What lies on an empty asyncify stack.                                   *)
LEMMA DecodeEmpty == Decode(<< >>) = << >> /\ Even(<< >>) /\ << >> \in Seq(StackWord)
<1>1. Len(<< >>) = 0 /\ 0 \div 2 = 0 /\ 0 = 2 * 0
  OBVIOUS
<1>2. [k \in 1 .. 0 |-> [pc |-> << >>[2 * (0 - k) + 1], loc |-> << >>[2 * (0 - k) + 2]]] = << >>
  OBVIOUS
<1>3. QED
  BY <1>1, <1>2 DEF Decode, Even

-----------------------------------------------------------------------------
(* Every step preserves the invariant.                                     *)

(* The rest of the state when ordinary code runs on.                       *)
Rest == <<state, arg, saved, active_fiber, asyncify_state, asyncify_data, status>>

(* The frames on top change and nothing else.                              *)
LEMMA StayNormal ==
  ASSUME AInv, Normal, NEW s, Shape(s, "run"), acts' = OnTop(s), UNCHANGED Rest
  PROVE  AInv' /\ Replaces(acts, s, acts')
<1>1. FramesAt(acts, active_fiber, 0) /\ CallStack(acts) /\ asyncify_state = 0
  BY DEF AInv, FramesOK, FramesAt, Normal
<1>2. Replaces(acts, s, acts')
  BY <1>1 DEF Replaces, OnTop, Shape
<1>3. FramesAt(acts', active_fiber, 0)
  BY <1>1, <1>2, FramesReplace
<1>4. \A g : Uses(acts', g) <=> Uses(acts, g)
  BY <1>2, ReplacesStack
<1>5. AsyncifyTypeOK' /\ FramesOK' /\ SwitchOK' /\ TrapOK'
  <2>1. AsyncifyTypeOK'
    BY DEF Rest, AInv, AsyncifyTypeOK
  <2>2. FramesOK'
    BY <1>1, <1>3 DEF Rest, FramesOK
  <2>3. SwitchOK'
    BY <1>1 DEF Rest, SwitchOK
  <2>4. TrapOK'
    BY DEF Rest, AInv, TrapOK
  <2> QED BY <2>1, <2>2, <2>3, <2>4
<1>6. FibersOK'
  <2> SUFFICES ASSUME NEW f \in Fib
               PROVE  FiberOK(state'[f], saved'[f], Uses(acts', f))
    BY DEF FibersOK
  <2>1. FiberOK(state[f], saved[f], Uses(acts, f))
    BY <1>1 DEF AInv, FibersOK
  <2> QED BY <1>4, <2>1 DEF Rest, FiberOK
<1>7. QED
  BY <1>2, <1>5, <1>6 DEF AInv

(* A call.                                                                 *)
LEMMA CallStep ==
  ASSUME AInv, NEW q \in Site, NEW v \in Val, Call(q, v)
  PROVE  LET s == Append([Act.frames EXCEPT ![Len(Act.frames)].pc = q], [pc |-> "run", loc |-> v])
         IN  AInv' /\ Replaces(acts, s, acts')
<1> DEFINE s == Append([Act.frames EXCEPT ![Len(Act.frames)].pc = q], [pc |-> "run", loc |-> v])
<1>1. Shape(Act.frames, "run") /\ Normal
  BY OnTopFacts DEF Call, Normal
<1>2. Shape(s, "run")
  <2>1. v \in Loc
    BY DEF Loc
  <2> QED BY <1>1, <2>1, ShapeCall
<1>3. acts' = OnTop(s) /\ UNCHANGED Rest
  BY DEF Call, Rest
<1> HIDE DEF s
<1>4. AInv' /\ Replaces(acts, s, acts')
  BY <1>1, <1>2, <1>3, StayNormal
<1>5. QED
  BY <1>4 DEF s

(* A return.                                                               *)
LEMMA ReturnStep ==
  ASSUME AInv, NEW v \in Val, Return(v)
  PROVE  AInv' /\ Replaces(acts, Receive(Front(Act.frames), v), acts')
<1>1. Shape(Act.frames, "run") /\ Normal /\ Len(Act.frames) > 1
  BY OnTopFacts DEF Return, Normal
<1>2. PICK q : Shape(Front(Act.frames), q)
  BY <1>1, ShapeReturn
<1>3. v \in Loc
  BY DEF Loc
<1>4. Shape(Receive(Front(Act.frames), v), "run")
  BY <1>2, <1>3, ShapeReceive
<1>5. acts' = OnTop(Receive(Front(Act.frames), v)) /\ UNCHANGED Rest
  BY DEF Return, Rest
<1>6. QED
  BY <1>1, <1>4, <1>5, StayNormal

(* A resume of a fiber that is done.                                       *)
LEMMA ResumeDoneStep ==
  ASSUME AInv, NEW f \in Fib, FiberResumeDone(f)
  PROVE  AInv' /\ Replaces(acts, Receive(Act.frames, 0), acts')
<1>1. Shape(Act.frames, "run") /\ Normal
  BY OnTopFacts DEF FiberResumeDone, Normal
<1>2. 0 \in Loc
  BY DEF Loc
<1>3. Shape(Receive(Act.frames, 0), "run")
  BY <1>1, <1>2, ShapeReceive
<1>4. acts' = OnTop(Receive(Act.frames, 0)) /\ UNCHANGED Rest
  BY DEF FiberResumeDone, Rest
<1>5. QED
  BY <1>1, <1>3, <1>4, StayNormal

(* A frame goes to the asyncify stack: the whole stack stays the same.     *)
LEMMA MovingOut ==
  ASSUME NEW s \in Seq(FrameSet), s # << >>, NEW w \in Seq(StackWord), Moving(s, w)
  PROVE  LET u == w \o <<Last(s).pc, Last(s).loc>> IN
           /\ u \in Seq(StackWord) /\ Moving(Front(s), u)
           /\ Front(s) \o Decode(u) = s \o Decode(w)
<1> DEFINE e == Last(s)
           u == w \o <<e.pc, e.loc>>
<1>1. Front(s) \in Seq(FrameSet) /\ e \in FrameSet
  BY FrontLast
<1>2. e = [pc |-> e.pc, loc |-> e.loc] /\ e.pc \in StackWord /\ e.loc \in StackWord
  BY <1>1 DEF FrameSet, StackWord
<1>3. PICK m \in Nat : Len(w) = 2 * m
  BY DEF Moving, Even
<1>4. Decode(w) \in Seq(FrameSet) /\ Shape(s \o Decode(w), "yield")
  BY DEF Moving
<1>5. /\ u \in Seq(StackWord) /\ Len(u) = 2 * (m + 1)
      /\ Decode(u) = <<[pc |-> e.pc, loc |-> e.loc]>> \o Decode(w)
  <2>1. [pc |-> e.pc, loc |-> e.loc] \in FrameSet
    BY <1>1, <1>2
  <2> DEFINE a == e.pc
             b == e.loc
  <2>2. a \in StackWord /\ b \in StackWord /\ [pc |-> a, loc |-> b] \in FrameSet
    BY <1>2, <2>1
  <2> HIDE DEF a, b
  <2>3. /\ w \o <<a, b>> \in Seq(StackWord) /\ Len(w \o <<a, b>>) = 2 * (m + 1)
        /\ Decode(w \o <<a, b>>) = <<[pc |-> a, loc |-> b]>> \o Decode(w)
    <3>1. Decode(w) \in Seq(FrameSet) /\ w \in Seq(StackWord)
      BY <1>4
    <3> QED BY <1>3, <2>2, <3>1, DecodePush, Zenon
  <2> QED BY <2>3, Zenon DEF a, b
<1>6. Decode(u) = <<e>> \o Decode(w)
  BY <1>2, <1>5, Zenon
<1>7. Front(s) \o (<<e>> \o Decode(w)) = s \o Decode(w)
  BY <1>4, ConcatShift, Zenon
<1>8. Decode(u) \in Seq(FrameSet)
  <2>1. <<e>> \in Seq(FrameSet)
    BY <1>1
  <2> HIDE DEF e, u
  <2> QED BY <1>4, <1>6, <2>1, ConcatProperties
<1>9. Even(u)
  <2>1. m + 1 \in Nat
    BY <1>3
  <2> HIDE DEF u
  <2> QED BY <1>5, <2>1, Zenon DEF Even
<1> HIDE DEF e
<1>10. Moving(Front(s), u) /\ Front(s) \o Decode(u) = s \o Decode(w)
  BY <1>4, <1>6, <1>7, <1>8, <1>9, Zenon DEF Moving
<1>11. QED
  BY <1>5, <1>10, Zenon DEF e

(* A frame comes back from the asyncify stack.                             *)
LEMMA MovingIn ==
  ASSUME NEW s \in Seq(FrameSet), NEW w \in Seq(StackWord), Moving(s, w),
         s # << >> => Last(s).pc \in Site
  PROVE  LET u == SubSeq(w, 1, Len(w) - 2)
             t == Append(s, [pc |-> w[Len(w) - 1], loc |-> w[Len(w)]])
         IN  /\ u \in Seq(StackWord) /\ t \in Seq(FrameSet) /\ Moving(t, u)
             /\ t \o Decode(u) = s \o Decode(w)
             /\ Len(u) <= Len(w)
<1> DEFINE u == SubSeq(w, 1, Len(w) - 2)
           e == [pc |-> w[Len(w) - 1], loc |-> w[Len(w)]]
           t == Append(s, e)
<1>1. PICK m \in Nat : Len(w) = 2 * m
  BY DEF Moving, Even
<1>2. Decode(w) \in Seq(FrameSet) /\ Shape(s \o Decode(w), "yield")
  BY DEF Moving
<1>3. m # 0
  <2> SUFFICES ASSUME m = 0 PROVE FALSE
    OBVIOUS
  <2>1. Len(w) = 0 /\ w = << >>
    BY <1>1
  <2>2. Decode(w) = << >>
    BY <2>1, DecodeEmpty
  <2>3. Shape(s, "yield")
    BY <1>2, <2>2, ConcatEmptySeq
  <2>4. s # << >> /\ Last(s).pc = "yield"
    <3>1. s # << >> /\ s[Len(s)].pc = "yield"
      BY <2>3 DEF Shape
    <3> QED BY <3>1, FrontLast, Zenon
  <2> QED BY <2>4, AsyncifyAssumption
<1>4. PICK k \in Nat : m = k + 1
  <2>1. m - 1 \in Nat /\ m = (m - 1) + 1
    BY <1>3
  <2> QED BY <2>1
<1>5. /\ u \in Seq(StackWord) /\ Len(u) = 2 * k /\ Decode(u) \in Seq(FrameSet)
      /\ e \in FrameSet /\ Decode(w) = <<e>> \o Decode(u)
  <2>1. Len(w) = 2 * (k + 1)
    BY <1>1, <1>4
  <2> QED BY <1>2, <2>1, DecodePop, Zenon
<1> HIDE DEF e, u
<1>6. t \in Seq(FrameSet) /\ t = s \o <<e>> /\ <<e>> \in Seq(FrameSet)
  BY <1>5, AppendIsConcat
<1>7. t \o Decode(u) = s \o Decode(w)
  BY <1>5, <1>6, ConcatAssociative
<1>8. Moving(t, u)
  BY <1>2, <1>5, <1>6, <1>7, Zenon DEF Moving, Even
<1>9. Len(u) <= Len(w)
  BY <1>1, <1>4, <1>5
<1>10. QED
  BY <1>5, <1>6, <1>7, <1>8, <1>9, Zenon DEF u, e

(* The switch of the innermost fiber goes on: its frames are s, its words  *)
(* w.                                                                      *)
SwitchesOn(s, w) ==
  /\ status = "ok" /\ asyncify_state # 0
  /\ s \in Seq(FrameSet) /\ w \in Seq(StackWord) /\ Moving(s, w)
  /\ asyncify_state = 2 => Len(w) <= Cap
  /\ acts' = OnTop(s)
  /\ saved' = [saved EXCEPT ![asyncify_data] = w]
  /\ UNCHANGED <<state, arg, active_fiber, asyncify_state, asyncify_data, status>>

(* Another frame is unwound or rewound.                                    *)
LEMMA SwitchGoesOn ==
  ASSUME AInv, NEW s, NEW w, SwitchesOn(s, w)
  PROVE  AInv' /\ Replaces(acts, s, acts')
<1>1. /\ CallStack(acts) /\ FramesAt(acts, active_fiber, asyncify_state)
      /\ active_fiber \in Fib /\ asyncify_data = active_fiber
      /\ state[active_fiber] = "YIELDING"
  BY DEF AInv, FramesOK, FramesAt, SwitchOK, SwitchesOn
<1>2. Replaces(acts, s, acts')
  BY <1>1 DEF Replaces, OnTop, SwitchesOn
<1>3. FramesAt(acts', active_fiber, asyncify_state)
  BY <1>1, <1>2, FramesReplace DEF SwitchesOn
<1>4. /\ Len(acts') = Len(acts) /\ acts'[Len(acts)].frames = s
      /\ \A g : Uses(acts', g) <=> Uses(acts, g)
  BY <1>2, ReplacesStack
<1>5. /\ saved' \in [Fib -> Seq(StackWord)]
      /\ saved'[active_fiber] = w
      /\ \A f \in Fib : f # active_fiber => saved'[f] = saved[f]
  BY <1>1 DEF AInv, AsyncifyTypeOK, SwitchesOn
<1>6. AsyncifyTypeOK'
  BY <1>5 DEF SwitchesOn, AInv, AsyncifyTypeOK
<1>7. FramesOK'
  BY <1>3 DEF SwitchesOn, FramesOK
<1>8. SwitchOK'
  BY <1>1, <1>4, <1>5 DEF SwitchesOn, SwitchOK
<1>9. FibersOK'
  <2> SUFFICES ASSUME NEW f \in Fib, f # active_fiber
               PROVE  FiberOK(state'[f], saved'[f], Uses(acts', f))
    BY DEF FibersOK, SwitchesOn
  <2>1. FiberOK(state[f], saved[f], Uses(acts, f))
    BY DEF AInv, FibersOK
  <2> QED BY <1>4, <1>5, <2>1 DEF SwitchesOn, FiberOK
<1>10. TrapOK'
  BY DEF SwitchesOn, TrapOK
<1>11. QED
  BY <1>2, <1>6, <1>7, <1>8, <1>9, <1>10 DEF AInv

(* A frame is unwound.                                                     *)
LEMMA UnwindStep ==
  ASSUME AInv, Unwind
  PROVE  \E s, w : /\ SwitchesOn(s, w) /\ AInv' /\ Replaces(acts, s, acts')
                   /\ s \o Decode(w) = Act.frames \o Decode(saved[active_fiber])
<1> DEFINE x == Act.frames
           s == Front(x)
           w == saved[active_fiber] \o <<Last(x).pc, Last(x).loc>>
<1>1. /\ active_fiber \in Fib /\ asyncify_data = active_fiber /\ x \in Seq(FrameSet) /\ x # << >>
      /\ Moving(x, saved[active_fiber]) /\ saved[active_fiber] \in Seq(StackWord)
  <2>1. Act = acts[Len(acts)] /\ Act.frames \in Seq(FrameSet)
    BY OnTopFacts
  <2> QED BY <2>1, SMTT(30) DEF AInv, AsyncifyTypeOK, SwitchOK, Unwind
<1>2. s \in Seq(FrameSet)
  BY <1>1, FrontLast
<1>3. /\ w \in Seq(StackWord) /\ Moving(s, w)
      /\ s \o Decode(w) = x \o Decode(saved[active_fiber])
  <2> HIDE DEF x
  <2> QED BY <1>1, MovingOut, Zenon
<1>4. SwitchesOn(s, w)
  <2>1. acts' = OnTop(s) /\ saved' = [saved EXCEPT ![asyncify_data] = w]
    BY <1>1 DEF Unwind
  <2>2. /\ status = "ok" /\ asyncify_state = 1
        /\ UNCHANGED <<state, arg, active_fiber, asyncify_state, asyncify_data, status>>
    BY DEF Unwind
  <2> HIDE DEF s, w, x
  <2> QED BY <1>2, <1>3, <2>1, <2>2 DEF SwitchesOn
<1>5. AInv' /\ Replaces(acts, s, acts')
  <2> HIDE DEF s, w, x
  <2> QED BY <1>4, SwitchGoesOn
<1>6. QED
  BY <1>3, <1>4, <1>5, Zenon

(* A frame is rewound.                                                     *)
LEMMA RewindStep ==
  ASSUME AInv, Rewind
  PROVE  \E s, w : /\ SwitchesOn(s, w) /\ AInv' /\ Replaces(acts, s, acts')
                   /\ s \o Decode(w) = Act.frames \o Decode(saved[active_fiber])
<1> DEFINE x == Act.frames
           y == saved[active_fiber]
           s == Append(x, [pc |-> y[Len(y) - 1], loc |-> y[Len(y)]])
           w == SubSeq(y, 1, Len(y) - 2)
<1>1. /\ active_fiber \in Fib /\ asyncify_data = active_fiber /\ x \in Seq(FrameSet)
      /\ x # << >> => Last(x).pc \in Site
      /\ Moving(x, y) /\ y \in Seq(StackWord) /\ Len(y) <= Cap
  <2>1. Act = acts[Len(acts)] /\ Act.frames \in Seq(FrameSet)
    BY OnTopFacts
  <2> QED BY <2>1, SMTT(30) DEF AInv, AsyncifyTypeOK, SwitchOK, Rewind
<1>2. /\ s \in Seq(FrameSet) /\ w \in Seq(StackWord) /\ Moving(s, w)
      /\ s \o Decode(w) = x \o Decode(y) /\ Len(w) <= Len(y)
  <2> HIDE DEF x, y
  <2> QED BY <1>1, MovingIn, Zenon
<1>3. acts' = OnTop(s) /\ saved' = [saved EXCEPT ![asyncify_data] = w]
  BY <1>1 DEF Rewind
<1> HIDE DEF s, w
<1>4. Len(w) <= Cap
  <2>1. Len(w) \in Nat /\ Len(y) \in Nat /\ Cap \in Nat
    BY <1>1, <1>2, AsyncifyAssumption
  <2> HIDE DEF y
  <2> QED BY <1>1, <1>2, <2>1
<1>5. SwitchesOn(s, w)
  <2>1. /\ status = "ok" /\ asyncify_state = 2
        /\ UNCHANGED <<state, arg, active_fiber, asyncify_state, asyncify_data, status>>
    BY DEF Rewind
  <2> QED BY <1>2, <1>3, <1>4, <2>1 DEF SwitchesOn
<1>6. AInv' /\ Replaces(acts, s, acts')
  BY <1>5, SwitchGoesOn
<1>7. QED
  BY <1>2, <1>5, <1>6, Zenon

(* A fiber is allocated or freed.                                          *)
LEMMA AllocFreeStep ==
  ASSUME AInv, NEW f \in Fib, FiberAlloc(f) \/ FiberFree(f)
  PROVE  AInv'
<1>1. /\ Normal /\ ~Uses(acts, f)
      /\ UNCHANGED <<acts, active_fiber, asyncify_state, asyncify_data, status>>
      /\ saved' = [saved EXCEPT ![f] = << >>]
      /\ arg' \in [Fib -> Loc]
      /\ \E x \in {"ACTIVE", "FREED"} : state' = [state EXCEPT ![f] = x]
  <2>0. \A g : InUse(g) <=> Uses(acts, g)
    BY OnTopFacts
  <2>1. CASE FiberAlloc(f)
    <3>1. state[f] = "FREED" /\ asyncify_state = 0
      BY <2>1 DEF FiberAlloc, Normal
    <3>2. ~Uses(acts, f)
      BY <3>1 DEF AInv, FibersOK, FiberOK
    <3>3. 0 \in Loc /\ arg' = [arg EXCEPT ![f] = 0]
      BY <2>1 DEF FiberAlloc, Loc
    <3>4. arg' \in [Fib -> Loc]
      BY <3>3 DEF AInv, AsyncifyTypeOK
    <3> QED BY <2>1, <3>2, <3>4 DEF FiberAlloc
  <2>2. CASE FiberFree(f)
    BY <2>0, <2>2 DEF FiberFree, AInv, AsyncifyTypeOK
  <2> QED BY <2>1, <2>2
<1>2. PICK x \in {"ACTIVE", "FREED"} : state' = [state EXCEPT ![f] = x]
  BY <1>1, Zenon
<1>3. << >> \in Seq(StackWord) /\ Len(<< >>) = 0
  BY DecodeEmpty
<1>4. AsyncifyTypeOK'
  BY <1>1, <1>2, <1>3 DEF AInv, AsyncifyTypeOK
<1>5. FramesOK' /\ SwitchOK' /\ TrapOK'
  BY <1>1 DEF AInv, FramesOK, SwitchOK, TrapOK, Normal
<1>6. FibersOK'
  <2> SUFFICES ASSUME NEW g \in Fib
               PROVE  FiberOK(state'[g], saved'[g], Uses(acts', g))
    BY DEF FibersOK
  <2>1. FiberOK(state[g], saved[g], Uses(acts, g))
    BY <1>1 DEF AInv, FibersOK, Normal
  <2>2. CASE g = f
    <3>1. state'[g] = x /\ saved'[g] = << >> /\ ~Uses(acts', g)
      BY <1>1, <1>2, <2>2 DEF AInv, AsyncifyTypeOK
    <3> QED BY <3>1 DEF FiberOK
  <2>3. CASE g # f
    <3>1. state'[g] = state[g] /\ saved'[g] = saved[g] /\ (Uses(acts', g) <=> Uses(acts, g))
      BY <1>1, <1>2, <2>3 DEF AInv, AsyncifyTypeOK
    <3> QED BY <2>1, <3>1 DEF FiberOK
  <2> QED BY <2>2, <2>3
<1>7. QED
  BY <1>4, <1>5, <1>6 DEF AInv

(* fiber_yield starts to unwind.                                           *)
LEMMA YieldStep ==
  ASSUME AInv, NEW v \in Val, FiberYield(v)
  PROVE  LET s == [Act.frames EXCEPT ![Len(Act.frames)].pc = "yield"]
         IN  AInv' /\ Replaces(acts, s, acts') /\ active_fiber \in Fib
<1> DEFINE s == [Act.frames EXCEPT ![Len(Act.frames)].pc = "yield"]
<1>1. /\ active_fiber \in Fib /\ Shape(Act.frames, "run") /\ CallStack(acts)
      /\ Uses(acts, active_fiber) /\ asyncify_state = 0
  BY OnTopFacts DEF FiberYield, None, Normal
<1>2. Shape(s, "yield") /\ s \in Seq(FrameSet)
  <2>1. "yield" \in Pc
    BY DEF Pc
  <2> QED BY <1>1, <2>1, ShapePc, Zenon
<1>3. acts' = OnTop(s)
  BY DEF FiberYield
<1> HIDE DEF s
<1>4. /\ status = "ok" /\ asyncify_state' = 1 /\ asyncify_data' = active_fiber
      /\ arg' = [arg EXCEPT ![active_fiber] = v]
      /\ state' = [state EXCEPT ![active_fiber] = "YIELDING"]
      /\ UNCHANGED <<saved, active_fiber, status>>
  BY DEF FiberYield, asyncify_start, Normal
<1>5. Replaces(acts, s, acts')
  BY <1>1, <1>2, <1>3 DEF Replaces, OnTop
<1>6. /\ Len(acts') = Len(acts) /\ acts'[Len(acts)].frames = s
      /\ \A g : Uses(acts', g) <=> Uses(acts, g)
  BY <1>5, ReplacesStack
<1>7. FramesAt(acts', active_fiber, 1)
  <2>1. FramesAt(acts, active_fiber, asyncify_state)
    BY DEF AInv, FramesOK
  <2> QED BY <1>5, <2>1, FramesReplace
<1>8. v \in Loc
  BY DEF Loc
<1>9. AsyncifyTypeOK'
  BY <1>1, <1>4, <1>8 DEF AInv, AsyncifyTypeOK
<1>10. saved[active_fiber] = << >> /\ Moving(s, saved[active_fiber])
  <2>1. saved[active_fiber] = << >>
    BY <1>1 DEF AInv, FibersOK, FiberOK
  <2>2. << >> \in Seq(FrameSet) /\ s \o << >> = s
    BY <1>2, ConcatEmptySeq
  <2> QED BY <1>2, <2>1, <2>2, DecodeEmpty, Zenon DEF Moving
<1>11. SwitchOK'
  <2>1. state'[active_fiber] = "YIELDING"
    BY <1>1, <1>4 DEF AInv, AsyncifyTypeOK
  <2> QED BY <1>1, <1>4, <1>6, <1>10, <2>1 DEF SwitchOK
<1>12. FibersOK'
  <2> SUFFICES ASSUME NEW f \in Fib, f # active_fiber
               PROVE  FiberOK(state'[f], saved'[f], Uses(acts', f))
    BY <1>4 DEF FibersOK
  <2>1. FiberOK(state[f], saved[f], Uses(acts, f))
    BY DEF AInv, FibersOK
  <2>2. state'[f] = state[f] /\ saved'[f] = saved[f] /\ (Uses(acts', f) <=> Uses(acts, f))
    BY <1>1, <1>4, <1>6 DEF AInv, AsyncifyTypeOK
  <2> QED BY <2>1, <2>2 DEF FiberOK
<1>13. FramesOK' /\ TrapOK'
  BY <1>4, <1>7 DEF FramesOK, TrapOK
<1>14. QED
  BY <1>1, <1>5, <1>9, <1>11, <1>12, <1>13 DEF AInv, s

(* A rewind ends in fiber_yield.                                           *)
LEMMA RewoundStep ==
  ASSUME AInv, FiberYieldRewound
  PROVE  /\ AInv' /\ Replaces(acts, Receive(Act.frames, arg[active_fiber]), acts')
         /\ active_fiber \in Fib /\ saved[active_fiber] = << >>
<1> DEFINE x == Act.frames
           w == saved[active_fiber]
           s == Receive(x, arg[active_fiber])
<1>1. /\ active_fiber \in Fib /\ asyncify_data = active_fiber
      /\ Moving(x, w) /\ w \in Seq(StackWord) /\ arg[active_fiber] \in Loc
      /\ x \in Seq(FrameSet) /\ x # << >> /\ Last(x).pc = "yield"
      /\ CallStack(acts) /\ Uses(acts, active_fiber)
  <2>1. /\ Act = acts[Len(acts)] /\ Act.frames \in Seq(FrameSet)
        /\ CallStack(acts) /\ Uses(acts, active_fiber)
    BY OnTopFacts
  <2> QED BY <2>1 DEF AInv, AsyncifyTypeOK, SwitchOK, FiberYieldRewound
<1>2. Decode(w) \in Seq(FrameSet) /\ Shape(x \o Decode(w), "yield") /\ Even(w)
  BY <1>1 DEF Moving
<1>3. Decode(w) = << >>
  <2> HIDE DEF x
  <2>1. "yield" \notin Site
    BY AsyncifyAssumption
  <2> QED BY <1>1, <1>2, <2>1, ShapeOuter
<1>4. w = << >>
  <2>1. PICK m \in Nat : Len(w) = 2 * m
    BY <1>2 DEF Even
  <2>2. Len(w) \div 2 = m
    BY <2>1
  <2>3. Decode(w) = [k \in 1 .. m |-> [pc |-> w[2 * (m - k) + 1], loc |-> w[2 * (m - k) + 2]]]
    BY <2>2, Zenon DEF Decode
  <2>4. m = 0
    <3>1. DOMAIN Decode(w) = 1 .. m
      BY <2>3
    <3>2. DOMAIN << >> = 1 .. 0
      OBVIOUS
    <3>3. 1 .. m = 1 .. 0
      BY <1>3, <3>1, <3>2
    <3> QED BY <2>1, <3>3
  <2>5. Len(w) = 0
    BY <2>1, <2>4
  <2> HIDE DEF w
  <2> QED BY <1>1, <2>5
<1>5. Shape(x, "yield")
  <2> HIDE DEF x
  <2> QED BY <1>1, <1>2, <1>3, ShapeOuter
<1>6. Shape(s, "run") /\ s \in Seq(FrameSet)
  <2> HIDE DEF x
  <2> QED BY <1>1, <1>5, ShapeReceive
<1> HIDE DEF x, w
<1>7. /\ status = "ok" /\ asyncify_state' = 0 /\ UNCHANGED asyncify_data
      /\ state' = [state EXCEPT ![active_fiber] = "ACTIVE"]
      /\ acts' = OnTop(s)
      /\ UNCHANGED <<arg, saved, active_fiber, status>>
  BY DEF FiberYieldRewound, asyncify_stop, x
<1> HIDE DEF s
<1>8. Replaces(acts, s, acts')
  BY <1>1, <1>6, <1>7 DEF Replaces, OnTop
<1>9. \A g : Uses(acts', g) <=> Uses(acts, g)
  BY <1>8, ReplacesStack
<1>10. FramesAt(acts', active_fiber, 0)
  <2>1. FramesAt(acts, active_fiber, asyncify_state)
    BY DEF AInv, FramesOK
  <2> QED BY <1>6, <1>8, <2>1, FramesReplace
<1>11. AsyncifyTypeOK'
  BY <1>1, <1>7 DEF AInv, AsyncifyTypeOK
<1>12. FibersOK'
  <2> SUFFICES ASSUME NEW f \in Fib
               PROVE  FiberOK(state'[f], saved'[f], Uses(acts', f))
    BY DEF FibersOK
  <2>1. CASE f = active_fiber
    <3>1. state'[f] = "ACTIVE" /\ saved'[f] = << >> /\ Uses(acts', f)
      BY <1>1, <1>4, <1>7, <1>9, <2>1, SMTT(30) DEF AInv, AsyncifyTypeOK, w
    <3> QED BY <3>1 DEF FiberOK
  <2>2. CASE f # active_fiber
    <3>1. FiberOK(state[f], saved[f], Uses(acts, f))
      BY <2>2 DEF AInv, FibersOK
    <3>2. state'[f] = state[f] /\ saved'[f] = saved[f] /\ (Uses(acts', f) <=> Uses(acts, f))
      BY <1>1, <1>7, <1>9, <2>2 DEF AInv, AsyncifyTypeOK
    <3> QED BY <3>1, <3>2 DEF FiberOK
  <2> QED BY <2>1, <2>2
<1>13. FramesOK' /\ SwitchOK' /\ TrapOK'
  BY <1>7, <1>10 DEF FramesOK, SwitchOK, TrapOK
<1>14. QED
  BY <1>1, <1>4, <1>8, <1>11, <1>12, <1>13, SMTT(30) DEF AInv, s, w, x

(* A fiber that has not run is resumed.                                    *)
LEMMA ResumeFreshStep ==
  ASSUME AInv, NEW f \in Fib, NEW v \in Val, FiberResumeFresh(f, v)
  PROVE  AInv' /\ Pushes(acts, f, <<[pc |-> "run", loc |-> v]>>, acts')
<1> DEFINE s == <<[pc |-> "run", loc |-> v]>>
<1>1. /\ CallStack(acts) /\ ~Uses(acts, f) /\ asyncify_state = 0 /\ status = "ok"
      /\ active_fiber = acts[Len(acts)].fiber
  BY OnTopFacts DEF FiberResumeFresh, Normal
<1>2. Shape(s, "run") /\ s \in Seq(FrameSet)
  <2>1. [pc |-> "run", loc |-> v] \in FrameSet
    BY DEF FrameSet, Pc, Loc
  <2>2. s \in Seq(FrameSet) /\ Len(s) = 1 /\ s[1] = [pc |-> "run", loc |-> v]
    BY <2>1
  <2> HIDE DEF s
  <2>3. \A n \in 1 .. Len(s) - 1 : FALSE
    BY <2>2
  <2> QED BY <2>2, <2>3 DEF Shape
<1>3. /\ state[f] = "ACTIVE"
      /\ acts' = Append(acts, [fiber |-> f, prev |-> active_fiber, frames |-> s])
      /\ active_fiber' = f
      /\ UNCHANGED <<state, arg, saved, asyncify_state, asyncify_data, status>>
  BY DEF FiberResumeFresh
<1> HIDE DEF s
<1>4. Pushes(acts, f, s, acts')
  BY <1>1, <1>2, <1>3 DEF Pushes
<1>5. \A g : Uses(acts', g) <=> Uses(acts, g) \/ g = f
  BY <1>4, PushesStack
<1>6. FramesAt(acts', f, 0)
  <2>1. FramesAt(acts, active_fiber, 0)
    BY <1>1 DEF AInv, FramesOK
  <2> QED BY <1>2, <1>4, <2>1, FramesPush
<1>7. FibersOK'
  <2> SUFFICES ASSUME NEW g \in Fib
               PROVE  FiberOK(state'[g], saved'[g], Uses(acts', g))
    BY DEF FibersOK
  <2>1. FiberOK(state[g], saved[g], Uses(acts, g))
    BY <1>1 DEF AInv, FibersOK
  <2>2. CASE g = f
    <3>1. state'[g] = "ACTIVE" /\ saved'[g] = << >> /\ Uses(acts', g)
      BY <1>1, <1>3, <1>5, <2>1, <2>2, SMTT(30) DEF FiberOK
    <3> QED BY <3>1 DEF FiberOK
  <2>3. CASE g # f
    <3>1. state'[g] = state[g] /\ saved'[g] = saved[g] /\ (Uses(acts', g) <=> Uses(acts, g))
      BY <1>3, <1>5, <2>3, SMTT(30)
    <3> QED BY <2>1, <3>1, SMTT(30) DEF FiberOK
  <2> QED BY <2>2, <2>3
<1>8. AsyncifyTypeOK' /\ FramesOK' /\ SwitchOK' /\ TrapOK'
  <2>1. AsyncifyTypeOK'
    BY <1>3 DEF AInv, AsyncifyTypeOK
  <2> QED BY <1>1, <1>3, <1>6, <2>1 DEF FramesOK, SwitchOK, TrapOK
<1>9. QED
  BY <1>4, <1>7, <1>8 DEF AInv, s

(* A suspended fiber is resumed: its frames are all on its asyncify stack. *)
LEMMA ResumeYieldingStep ==
  ASSUME AInv, NEW f \in Fib, NEW v \in Val, FiberResumeYielding(f, v)
  PROVE  AInv' /\ Pushes(acts, f, << >>, acts')
<1>1. /\ CallStack(acts) /\ ~Uses(acts, f) /\ asyncify_state = 0 /\ status = "ok"
      /\ active_fiber = acts[Len(acts)].fiber
  BY OnTopFacts DEF FiberResumeYielding, Normal
<1>2. /\ state[f] = "YIELDING"
      /\ arg' = [arg EXCEPT ![f] = v]
      /\ acts' = Append(acts, [fiber |-> f, prev |-> active_fiber, frames |-> << >>])
      /\ active_fiber' = f
      /\ asyncify_state' = 2 /\ asyncify_data' = f
      /\ UNCHANGED <<state, saved, status>>
  BY DEF FiberResumeYielding, asyncify_start
<1>3. Pushes(acts, f, << >>, acts')
  BY <1>1, <1>2 DEF Pushes
<1>4. /\ Len(acts') = Len(acts) + 1 /\ acts'[Len(acts) + 1].frames = << >>
      /\ \A g : Uses(acts', g) <=> Uses(acts, g) \/ g = f
  BY <1>3, PushesStack
<1>5. FramesAt(acts', f, 2)
  <2>1. FramesAt(acts, active_fiber, 0)
    BY <1>1 DEF AInv, FramesOK
  <2> QED BY <1>3, <2>1, FramesPush
<1>6. v \in Loc
  BY DEF Loc
<1>7. AsyncifyTypeOK'
  BY <1>2, <1>6 DEF AInv, AsyncifyTypeOK
<1>8. SwitchOK'
  <2>1. Suspended(saved[f])
    <3>1. FiberOK(state[f], saved[f], Uses(acts, f))
      BY <1>1 DEF AInv, FibersOK
    <3> QED BY <1>1, <1>2, <3>1 DEF FiberOK
  <2>2. /\ Even(saved[f]) /\ Shape(Decode(saved[f]), "yield") /\ Len(saved[f]) <= Cap
        /\ Decode(saved[f]) \in Seq(FrameSet)
    BY <2>1 DEF Suspended, Shape
  <2>3. << >> \o Decode(saved[f]) = Decode(saved[f])
    BY <2>2, ConcatEmptySeq
  <2>4. Moving(<< >>, saved[f])
    BY <2>2, <2>3 DEF Moving
  <2> QED BY <1>2, <1>4, <2>2, <2>4, SMTT(30) DEF SwitchOK
<1>9. FibersOK'
  <2> SUFFICES ASSUME NEW g \in Fib, g # f
               PROVE  FiberOK(state'[g], saved'[g], Uses(acts', g))
    BY <1>2 DEF FibersOK
  <2>1. FiberOK(state[g], saved[g], Uses(acts, g))
    BY <1>1 DEF AInv, FibersOK
  <2>2. state'[g] = state[g] /\ saved'[g] = saved[g] /\ (Uses(acts', g) <=> Uses(acts, g))
    BY <1>2, <1>4
  <2> QED BY <2>1, <2>2, SMTT(30) DEF FiberOK
<1>10. FramesOK' /\ TrapOK'
  BY <1>1, <1>2, <1>5, SMTT(30) DEF FramesOK, TrapOK
<1>11. QED
  BY <1>3, <1>7, <1>8, <1>9, <1>10, SMTT(30) DEF AInv

(* fiber_resume returns v to the frames below.                             *)
LEMMA BelowFacts ==
  ASSUME AInv, active_fiber \in Fib, NEW v \in Loc, acts' = Below(v)
  PROVE  LET s == Receive(acts[Len(acts) - 1].frames, v) IN
         /\ Shape(acts[Len(acts) - 1].frames, "run") /\ Shape(s, "run")
         /\ Pops(acts, s, acts')
         /\ FramesAt(acts', Act.prev, 0) /\ Act.prev = acts[Len(acts) - 1].fiber
         /\ \A g : Uses(acts', g) <=> Uses(acts, g) /\ g # active_fiber
<1> DEFINE x == acts[Len(acts) - 1].frames
           s == Receive(x, v)
<1>1. /\ CallStack(acts) /\ Len(acts) > 1 /\ Len(acts) \in Nat /\ acts # << >>
      /\ acts \in Seq(Activation)
      /\ Act = acts[Len(acts)] /\ Act.fiber = active_fiber
  BY OnTopFacts DEF CallStack
<1>2. PICK m \in Nat \ {0} : Len(acts) = m + 1 /\ Len(acts) - 1 = m
  <2>1. PICK l \in Nat : l = Len(acts) /\ l > 1
    BY <1>1
  <2>2. l - 1 \in Nat \ {0} /\ l = (l - 1) + 1
    BY <2>1
  <2> QED BY <2>1, <2>2
<1>3. FramesAt(acts, active_fiber, asyncify_state)
  BY DEF AInv, FramesOK
<1>4. Shape(acts[m].frames, "run")
  <2>1. m \in 1 .. Len(acts) /\ m # Len(acts)
    BY <1>2
  <2> QED BY <1>3, <2>1 DEF FramesAt
<1>5. Shape(s, "run") /\ s \in Seq(FrameSet) /\ Shape(x, "run")
  <2>1. Shape(x, "run")
    BY <1>2, <1>4
  <2> HIDE DEF x
  <2> QED BY <2>1, ShapeReceive
<1>6. acts' = [Front(acts) EXCEPT ![Len(acts) - 1].frames = s]
  <2>1. Front(acts) \in Seq(Activation) /\ Len(Front(acts)) = m /\ \A n \in 1 .. m : Front(acts)[n] = acts[n]
    BY <1>1, <1>2, FrontLast, SMTT(30)
  <2>2. m \in 1 .. m /\ Front(acts)[m] = acts[m]
    BY <1>2, <2>1
  <2>3. Receive(Front(acts)[m].frames, v) = s
    BY <1>2, <2>2
  <2> HIDE DEF s
  <2> QED BY <1>2, <2>3, Zenon DEF Below
<1> HIDE DEF s
<1>7. Pops(acts, s, acts')
  BY <1>1, <1>5, <1>6 DEF Pops
<1>8. FramesAt(acts', acts[Len(acts)].prev, 0) /\ acts[Len(acts)].prev = acts[Len(acts) - 1].fiber
  BY <1>3, <1>5, <1>7, FramesPop
<1>9. \A g : Uses(acts', g) <=> Uses(acts, g) /\ g # active_fiber
  BY <1>1, <1>7, PopsStack, SMTT(30)
<1>10. QED
  BY <1>1, <1>5, <1>7, <1>8, <1>9, SMTT(30) DEF s

(* fiber_resume returns after its fiber has been unwound.                  *)
LEMMA YieldedStep ==
  ASSUME AInv, FiberResumeYielded
  PROVE  /\ AInv' /\ active_fiber \in Fib
         /\ Pops(acts, Receive(acts[Len(acts) - 1].frames, arg[active_fiber]), acts')
<1>1. /\ status = "ok" /\ asyncify_state = 1 /\ Act.frames = << >>
      /\ asyncify_state' = 0 /\ UNCHANGED asyncify_data /\ InBounds(asyncify_data)
      /\ active_fiber' = Act.prev
      /\ acts' = Below(arg[Act.fiber])
      /\ UNCHANGED <<state, arg, saved, status>>
  BY DEF FiberResumeYielded, asyncify_stop, Prev
<1>2. /\ active_fiber \in Fib /\ asyncify_data = active_fiber
      /\ state[active_fiber] = "YIELDING"
      /\ Moving(Act.frames, saved[active_fiber])
      /\ Act.fiber = active_fiber /\ arg[active_fiber] \in Loc
  <2>1. Act = acts[Len(acts)] /\ Act.fiber = active_fiber
    BY OnTopFacts, SMTT(30)
  <2> QED BY <1>1, <2>1 DEF AInv, SwitchOK, AsyncifyTypeOK
<1>3. /\ Pops(acts, Receive(acts[Len(acts) - 1].frames, arg[active_fiber]), acts')
      /\ FramesAt(acts', Act.prev, 0)
      /\ \A g : Uses(acts', g) <=> Uses(acts, g) /\ g # active_fiber
  BY <1>1, <1>2, BelowFacts
<1>4. Suspended(saved[active_fiber])
  <2>1. Len(saved[active_fiber]) <= Cap
    BY <1>1, <1>2 DEF InBounds
  <2>2. /\ Even(saved[active_fiber]) /\ Decode(saved[active_fiber]) \in Seq(FrameSet)
        /\ Shape(<< >> \o Decode(saved[active_fiber]), "yield")
    BY <1>1, <1>2 DEF Moving
  <2>3. << >> \o Decode(saved[active_fiber]) = Decode(saved[active_fiber])
    BY <2>2, ConcatEmptySeq
  <2> QED BY <2>1, <2>2, <2>3 DEF Suspended
<1>5. FibersOK'
  <2> SUFFICES ASSUME NEW g \in Fib
               PROVE  FiberOK(state'[g], saved'[g], Uses(acts', g))
    BY DEF FibersOK
  <2>1. CASE g = active_fiber
    <3>1. state'[g] = "YIELDING" /\ Suspended(saved'[g]) /\ ~Uses(acts', g)
      BY <1>1, <1>2, <1>3, <1>4, <2>1
    <3> QED BY <3>1, SMTT(30) DEF FiberOK
  <2>2. CASE g # active_fiber
    <3>1. FiberOK(state[g], saved[g], Uses(acts, g))
      BY <2>2 DEF AInv, FibersOK
    <3>2. state'[g] = state[g] /\ saved'[g] = saved[g] /\ (Uses(acts', g) <=> Uses(acts, g))
      BY <1>1, <1>3, <2>2, SMTT(30)
    <3> QED BY <3>1, <3>2 DEF FiberOK
  <2> QED BY <2>1, <2>2
<1>6. AsyncifyTypeOK' /\ FramesOK' /\ SwitchOK' /\ TrapOK'
  <2>1. AsyncifyTypeOK'
    BY <1>1 DEF AInv, AsyncifyTypeOK
  <2> QED BY <1>1, <1>3, <2>1 DEF FramesOK, SwitchOK, TrapOK
<1>7. QED
  BY <1>2, <1>3, <1>5, <1>6 DEF AInv

(* fiber_resume returns after its fiber has returned.                      *)
LEMMA FinishedStep ==
  ASSUME AInv, NEW v \in Val, FiberResumeFinished(v)
  PROVE  /\ AInv' /\ active_fiber \in Fib
         /\ Pops(acts, Receive(acts[Len(acts) - 1].frames, v), acts')
<1>1. /\ status = "ok" /\ asyncify_state = 0 /\ Act.fiber # Main
      /\ asyncify_state' = 0 /\ UNCHANGED asyncify_data
      /\ state' = [state EXCEPT ![Act.fiber] = "DONE"]
      /\ active_fiber' = Act.prev
      /\ acts' = Below(v)
      /\ UNCHANGED <<arg, saved, status>>
  BY DEF FiberResumeFinished, asyncify_stop, Prev, Normal, None
<1>2. active_fiber \in Fib /\ Act.fiber = active_fiber /\ Uses(acts, active_fiber)
  BY <1>1, OnTopFacts, SMTT(30)
<1>3. /\ Pops(acts, Receive(acts[Len(acts) - 1].frames, v), acts')
      /\ FramesAt(acts', Act.prev, 0)
      /\ \A g : Uses(acts', g) <=> Uses(acts, g) /\ g # active_fiber
  <2>1. v \in Loc
    BY DEF Loc
  <2> QED BY <1>1, <1>2, <2>1, BelowFacts
<1>4. FibersOK'
  <2> SUFFICES ASSUME NEW g \in Fib
               PROVE  FiberOK(state'[g], saved'[g], Uses(acts', g))
    BY SMTT(30) DEF FibersOK
  <2>1. FiberOK(state[g], saved[g], Uses(acts, g))
    BY <1>1 DEF AInv, FibersOK
  <2>2. CASE g = active_fiber
    <3>1. state'[g] = "DONE"
      BY <1>1, <1>2, <2>2, SMTT(30) DEF AInv, AsyncifyTypeOK
    <3>2. saved'[g] = << >> /\ ~Uses(acts', g)
      BY <1>1, <1>2, <1>3, <2>1, <2>2, SMTT(30) DEF FiberOK
    <3> QED BY <3>1, <3>2 DEF FiberOK
  <2>3. CASE g # active_fiber
    <3>1. state'[g] = state[g] /\ saved'[g] = saved[g] /\ (Uses(acts', g) <=> Uses(acts, g))
      BY <1>1, <1>2, <1>3, <2>3, SMTT(30) DEF AInv, AsyncifyTypeOK
    <3> QED BY <2>1, <3>1 DEF FiberOK
  <2> QED BY <2>2, <2>3
<1>5. AsyncifyTypeOK' /\ FramesOK' /\ SwitchOK' /\ TrapOK'
  <2>1. AsyncifyTypeOK'
    BY <1>1, <1>2 DEF AInv, AsyncifyTypeOK
  <2> QED BY <1>1, <1>3, <2>1 DEF FramesOK, SwitchOK, TrapOK
<1>6. QED
  BY <1>2, <1>3, <1>4, <1>5 DEF AInv

(* A check fails.                                                          *)
LEMMA TrapStep ==
  ASSUME AInv, StopUnwindTraps
  PROVE  AInv'
<1>1. /\ UNCHANGED <<state, arg, saved, acts, active_fiber, asyncify_state, asyncify_data>>
      /\ status' = "trap" /\ OutOfBounds(asyncify_data)
  BY DEF StopUnwindTraps
<1>2. TrapOK'
  BY <1>1 DEF TrapOK, OutOfBounds
<1>3. AsyncifyTypeOK' /\ FramesOK' /\ SwitchOK'
  BY <1>1 DEF AInv, AsyncifyTypeOK, FramesOK, SwitchOK
<1>4. FibersOK'
  BY <1>1 DEF AInv, FibersOK
<1>5. QED
  BY <1>2, <1>3, <1>4, SMTT(30) DEF AInv

(* Every step preserves the invariant.                                     *)
LEMMA AStep == AInv /\ [AsyncifyNext]_asyncifyVars => AInv'
<1> SUFFICES ASSUME AInv, [AsyncifyNext]_asyncifyVars PROVE AInv'
  OBVIOUS
<1>1. CASE UNCHANGED asyncifyVars
  <2>1. AsyncifyTypeOK' /\ FramesOK' /\ SwitchOK' /\ TrapOK'
    BY <1>1 DEF asyncifyVars, AInv, AsyncifyTypeOK, FramesOK, SwitchOK, TrapOK
  <2>2. FibersOK'
    BY <1>1 DEF asyncifyVars, AInv, FibersOK
  <2> QED BY <2>1, <2>2 DEF AInv
<1>2. CASE Unwind
  BY <1>2, UnwindStep, Zenon
<1>3. CASE Rewind
  BY <1>3, RewindStep, Zenon
<1>4. CASE FiberYieldRewound
  BY <1>4, RewoundStep
<1>5. CASE FiberResumeYielded
  BY <1>5, YieldedStep
<1>6. CASE StopUnwindTraps
  BY <1>6, TrapStep
<1>7. ASSUME NEW v \in Val, Return(v) PROVE AInv'
  BY <1>7, ReturnStep
<1>8. ASSUME NEW v \in Val, FiberYield(v) PROVE AInv'
  BY <1>8, YieldStep
<1>9. ASSUME NEW v \in Val, FiberResumeFinished(v) PROVE AInv'
  BY <1>9, FinishedStep
<1>10. ASSUME NEW v \in Val, NEW q \in Site, Call(q, v) PROVE AInv'
  BY <1>10, CallStep, Zenon
<1>11. ASSUME NEW f \in Fib, FiberAlloc(f) \/ FiberFree(f) PROVE AInv'
  BY <1>11, AllocFreeStep
<1>12. ASSUME NEW f \in Fib, FiberResumeDone(f) PROVE AInv'
  BY <1>12, ResumeDoneStep
<1>13. ASSUME NEW f \in Fib, NEW v \in Val, FiberResumeFresh(f, v) PROVE AInv'
  BY <1>13, ResumeFreshStep, Zenon
<1>14. ASSUME NEW f \in Fib, NEW v \in Val, FiberResumeYielding(f, v) PROVE AInv'
  BY <1>14, ResumeYieldingStep
<1>15. QED
  BY <1>1, <1>2, <1>3, <1>4, <1>5, <1>6, <1>7, <1>8, <1>9, <1>10, <1>11, <1>12, <1>13, <1>14, SMTT(30)
     DEF AsyncifyNext, Switching

(* The call stack when main starts.                                        *)
LEMMA StartStack ==
  ASSUME NEW v \in Val, NEW a,
         a = <<[fiber |-> Main, prev |-> Main, frames |-> <<[pc |-> "run", loc |-> v]>>]>>
  PROVE  /\ FramesAt(a, Main, 0) /\ Len(a) = 1
         /\ a[1].frames = <<[pc |-> "run", loc |-> v]>> /\ a[1].fiber = Main
         /\ \A f \in Fib : ~Uses(a, f)
<1> DEFINE s == <<[pc |-> "run", loc |-> v]>>
           r == [fiber |-> Main, prev |-> Main, frames |-> s]
<1>1. s \in Seq(FrameSet) /\ Len(s) = 1 /\ s[1] = [pc |-> "run", loc |-> v]
  <2>1. [pc |-> "run", loc |-> v] \in FrameSet
    BY DEF FrameSet, Pc, Loc
  <2> QED BY <2>1
<1>2. s[1].pc = "run"
  BY <1>1
<1> HIDE DEF s
<1>3. Shape(s, "run")
  <2>1. \A n \in 1 .. Len(s) - 1 : FALSE
    BY <1>1
  <2> QED BY <1>1, <1>2, <2>1, SMTT(30) DEF Shape
<1>4. r \in Activation /\ r.fiber = Main /\ r.frames = s
  BY <1>1 DEF Activation
<1>5. a = <<r>>
  BY DEF s
<1> HIDE DEF r
<1>6. a \in Seq(Activation) /\ Len(a) = 1 /\ a[1] = r
  BY <1>4, <1>5
<1>7. CallStack(a)
  <2>1. \A n \in 2 .. Len(a) : FALSE
    BY <1>6
  <2>2. \A m, n \in 1 .. Len(a) : m = n
    BY <1>6
  <2> QED BY <1>4, <1>6, <2>1, <2>2 DEF CallStack
<1>8. \A n \in 1 .. Len(a) : n = 1
  BY <1>6
<1>9. FramesAt(a, Main, 0)
  BY <1>3, <1>4, <1>6, <1>7, <1>8, SMTT(30) DEF FramesAt
<1>10. \A f \in Fib : ~Uses(a, f)
  BY <1>4, <1>6, <1>8, AsyncifyAssumption DEF Uses
<1>11. QED
  BY <1>4, <1>6, <1>9, <1>10 DEF s

(* The invariant holds initially.                                          *)
LEMMA AStarts == AsyncifyInit => AInv
<1> SUFFICES ASSUME AsyncifyInit PROVE AInv
  OBVIOUS
<1>1. PICK v \in Val :
        acts = <<[fiber |-> Main, prev |-> Main, frames |-> <<[pc |-> "run", loc |-> v]>>]>>
  BY DEF AsyncifyInit, None
<1>2. FramesAt(acts, Main, 0) /\ \A f \in Fib : ~Uses(acts, f)
  BY <1>1, StartStack
<1>3. /\ state = [f \in Fib |-> "FREED"] /\ arg = [f \in Fib |-> 0]
      /\ saved = [f \in Fib |-> << >>] /\ active_fiber = Main /\ asyncify_state = 0
      /\ asyncify_data = Main /\ status = "ok"
  BY DEF AsyncifyInit, None
<1>4. << >> \in Seq(StackWord) /\ 0 \in Loc
  BY DecodeEmpty DEF Loc
<1>5. AsyncifyTypeOK
  BY <1>3, <1>4 DEF AsyncifyTypeOK
<1>6. FibersOK
  BY <1>2, <1>3 DEF FibersOK, FiberOK
<1>7. FramesOK /\ SwitchOK /\ TrapOK
  BY <1>2, <1>3 DEF FramesOK, SwitchOK, TrapOK
<1>8. QED
  BY <1>5, <1>6, <1>7 DEF AInv

(* What the invariant says of asyncify stacks.                             *)
LEMMA ABounded == AInv => ActiveIsInnermost /\ OverflowIsCaught
<1> SUFFICES ASSUME AInv PROVE ActiveIsInnermost /\ OverflowIsCaught
  OBVIOUS
<1>1. ActiveIsInnermost
  BY OnTopFacts DEF ActiveIsInnermost
<1>2. ASSUME Normal, NEW f \in Fib PROVE Len(saved[f]) <= Cap
  <2>1. FiberOK(state[f], saved[f], Uses(acts, f))
    BY <1>2 DEF AInv, FibersOK, Normal
  <2>2. saved[f] = << >> \/ Suspended(saved[f])
    BY <2>1 DEF FiberOK
  <2>3. Len(<< >>) = 0 /\ 0 <= Cap
    BY AsyncifyAssumption
  <2> QED BY <2>2, <2>3 DEF Suspended
<1>3. QED
  BY <1>1, <1>2 DEF OverflowIsCaught, AInv, TrapOK

(* The invariant holds throughout.                                         *)
LEMMA Asyncified == AsyncifySpec => []AInv
<1>1. QED
  BY AStarts, AStep, PTL DEF AsyncifySpec

(* At any depth of nested resumes active_fiber is the fiber whose functions*)
(* execute: what fiber_resume saves in prev and restores is always right.  *)
THEOREM ActiveFiber == AsyncifySpec => []ActiveIsInnermost
<1>1. QED
  BY Asyncified, ABounded, PTL

(* An asyncify stack that overflows is always caught by the check of       *)
(* asyncify_stop_unwind, and nothing but that or a freed stack traps.      *)
THEOREM OverflowCaught == AsyncifySpec => []OverflowIsCaught
<1>1. QED
  BY Asyncified, ABounded, PTL
=============================================================================
