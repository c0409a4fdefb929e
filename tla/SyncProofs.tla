----------------------------- MODULE SyncProofs -----------------------------
(***************************************************************************)
(* The mutex, the condition variable, the readers-writer lock and the      *)
(* group of TinyGo's sync package do what they promise, for every number   *)
(* of tasks and calls and whatever else the runtime does with the tasks.   *)
(*                                                                         *)
(* That a lock has one owner is not inductive: a task that is scheduled    *)
(* while it is still blocked, or twice, would be resumed inside Lock       *)
(* without the lock.  So the invariant SyncInv says where each task is,    *)
(* and that a task in the middle of a call is where the call left it.      *)
(***************************************************************************)
EXTENDS SyncClients, TLAPS

(* t is in the list s.                                                     *)
In(t, s) == \E n \in 1 .. Len(s) : s[n] = t

(* No task is in s twice.                                                  *)
Distinct(s) == \A m, n \in 1 .. Len(s) : s[m] = s[n] => m = n

(* The tasks in a list.                                                    *)
All(s) == {t \in Task : In(t, s)}

(* What has to be known of counting tasks.                                 *)
Counting ==
  /\ \A S \in SUBSET Task :
       /\ Cardinality(S) \in Nat
       /\ Cardinality(S) = 0 <=> S = {}
       /\ \A t \in Task :
            /\ t \notin S => /\ Cardinality(S) < Cardinality(Task)
                             /\ Cardinality(S \cup {t}) = Cardinality(S) + 1
            /\ t \in S => /\ Cardinality(S \ {t}) = Cardinality(S) - 1
                          /\ Cardinality(S) = 1 => S = {t}
  /\ \A s \in Seq(Task) : Distinct(s) => Cardinality(All(s)) = Len(s)

-----------------------------------------------------------------------------
(* Lists.                                                                  *)

(* The empty list.                                                         *)
LEMMA ListEmpty ==
  /\ << >> \in Seq(Task) /\ Distinct(<< >>) /\ \A u : ~In(u, << >>)
  /\ \A s \in Seq(Task) : s = << >> <=> \A u \in Task : ~In(u, s)
<1>1. << >> \in Seq(Task) /\ Len(<< >>) = 0
  OBVIOUS
<1>2. ASSUME NEW s \in Seq(Task), s # << >> PROVE s[1] \in Task /\ In(s[1], s)
  BY <1>2 DEF In
<1>3. QED
  BY <1>1, <1>2 DEF In, Distinct

(* A task is pushed on a list.                                             *)
LEMMA ListPush ==
  ASSUME NEW s \in Seq(Task), Distinct(s), NEW t \in Task, ~In(t, s)
  PROVE  /\ <<t>> \o s \in Seq(Task) /\ Distinct(<<t>> \o s) /\ <<t>> \o s # << >>
         /\ \A u : In(u, <<t>> \o s) <=> u = t \/ In(u, s)
<1> DEFINE q == <<t>> \o s
<1>1. /\ q \in Seq(Task) /\ Len(q) = Len(s) + 1 /\ q[1] = t /\ Len(s) \in Nat
      /\ \A n \in 1 .. Len(s) : q[n + 1] = s[n]
  OBVIOUS
<1> HIDE DEF q
<1>2. \A n \in 1 .. Len(q) : n = 1 \/ (n - 1 \in 1 .. Len(s) /\ q[n] = s[n - 1])
  BY <1>1
<1>3. Distinct(q)
  <2> SUFFICES ASSUME NEW m \in 1 .. Len(q), NEW n \in 1 .. Len(q), q[m] = q[n] PROVE m = n
    BY DEF Distinct
  <2>1. \A k \in 1 .. Len(s) : s[k] # t
    BY DEF In
  <2>2. CASE m = 1 \/ n = 1
    BY <1>1, <1>2, <2>1, <2>2
  <2>3. CASE m # 1 /\ n # 1
    <3>1. m - 1 \in 1 .. Len(s) /\ n - 1 \in 1 .. Len(s) /\ s[m - 1] = s[n - 1]
      BY <1>2, <2>3
    <3>2. m - 1 = n - 1
      BY <3>1 DEF Distinct
    <3>3. QED
      BY <3>2
  <2>4. QED
    BY <2>2, <2>3
<1>4. ASSUME NEW u PROVE In(u, q) <=> u = t \/ In(u, s)
  BY <1>1, <1>2 DEF In
<1>5. QED
  BY <1>1, <1>3, <1>4 DEF q

(* One list is appended to another.                                        *)
LEMMA ListConcat ==
  ASSUME NEW s \in Seq(Task), Distinct(s), NEW r \in Seq(Task), Distinct(r),
         \A u \in Task : ~(In(u, s) /\ In(u, r))
  PROVE  /\ s \o r \in Seq(Task) /\ Distinct(s \o r)
         /\ \A u : In(u, s \o r) <=> In(u, s) \/ In(u, r)
<1> DEFINE q == s \o r
<1>1. /\ q \in Seq(Task) /\ Len(q) = Len(s) + Len(r) /\ Len(s) \in Nat /\ Len(r) \in Nat
      /\ \A n \in 1 .. Len(s) : q[n] = s[n] /\ s[n] \in Task
      /\ \A n \in 1 .. Len(r) : q[n + Len(s)] = r[n] /\ r[n] \in Task
  OBVIOUS
<1> HIDE DEF q
<1>2. \A n \in 1 .. Len(q) : \/ n \in 1 .. Len(s) /\ q[n] = s[n]
                             \/ n - Len(s) \in 1 .. Len(r) /\ q[n] = r[n - Len(s)]
  BY <1>1
<1>6. \A n \in 1 .. Len(q) : n - Len(s) \in 1 .. Len(r) => q[n] = r[n - Len(s)]
  BY <1>1, <1>2
<1>3. Distinct(q)
  <2> SUFFICES ASSUME NEW m \in 1 .. Len(q), NEW n \in 1 .. Len(q), q[m] = q[n] PROVE m = n
    BY DEF Distinct
  <2>1. \A j \in 1 .. Len(s), k \in 1 .. Len(r) : s[j] # r[k]
    BY <1>1, Zenon DEF In
  <2>2. CASE m \in 1 .. Len(s) /\ n \in 1 .. Len(s)
    BY <1>1, <2>2 DEF Distinct
  <2>3. CASE m - Len(s) \in 1 .. Len(r) /\ n - Len(s) \in 1 .. Len(r)
    <3>1. r[m - Len(s)] = r[n - Len(s)]
      BY <1>6, <2>3
    <3>2. m - Len(s) = n - Len(s)
      BY <2>3, <3>1 DEF Distinct
    <3>3. QED
      BY <1>1, <3>2
  <2>4. QED
    BY <1>2, <2>1, <2>2, <2>3
<1>4. ASSUME NEW u PROVE In(u, q) <=> In(u, s) \/ In(u, r)
  <2>1. /\ \A n \in 1 .. Len(s) : n \in 1 .. Len(q)
        /\ \A n \in 1 .. Len(r) : n + Len(s) \in 1 .. Len(q)
    BY <1>1
  <2>2. In(u, s) \/ In(u, r) => In(u, q)
    BY <1>1, <2>1 DEF In
  <2>3. In(u, q) => In(u, s) \/ In(u, r)
    BY <1>2 DEF In
  <2>4. QED
    BY <2>2, <2>3
<1>5. QED
  BY <1>1, <1>3, <1>4 DEF q

(* A list of one task.                                                     *)
LEMMA ListOne ==
  ASSUME NEW t \in Task
  PROVE  <<t>> \in Seq(Task) /\ Distinct(<<t>>) /\ \A u : In(u, <<t>>) <=> u = t
  BY DEF In, Distinct

(* The first task is taken from a list.                                    *)
LEMMA ListPop ==
  ASSUME NEW s \in Seq(Task), Distinct(s), s # << >>
  PROVE  /\ Head(s) \in Task /\ In(Head(s), s)
         /\ Tail(s) \in Seq(Task) /\ Distinct(Tail(s))
         /\ \A u : In(u, Tail(s)) <=> In(u, s) /\ u # Head(s)
<1> DEFINE q == Tail(s)
           h == Head(s)
<1>1. /\ q \in Seq(Task) /\ Len(s) = Len(q) + 1 /\ Len(q) \in Nat /\ h = s[1] /\ h \in Task
      /\ \A n \in 1 .. Len(q) : q[n] = s[n + 1]
  OBVIOUS
<1> HIDE DEF q, h
<1>2. \A n \in 1 .. Len(s) : n = 1 \/ (n - 1 \in 1 .. Len(q) /\ q[n - 1] = s[n])
  BY <1>1
<1>3. \A n \in 1 .. Len(q) : n + 1 \in 1 .. Len(s) /\ 1 \in 1 .. Len(s) /\ n + 1 # 1
  BY <1>1
<1>4. Distinct(q)
  <2> SUFFICES ASSUME NEW m \in 1 .. Len(q), NEW n \in 1 .. Len(q), q[m] = q[n] PROVE m = n
    BY DEF Distinct
  <2>1. m + 1 = n + 1
    BY <1>1, <1>3 DEF Distinct
  <2>2. QED
    BY <2>1
<1>5. ASSUME NEW u PROVE In(u, q) <=> In(u, s) /\ u # h
  BY <1>1, <1>2, <1>3 DEF In, Distinct
<1>6. In(h, s)
  BY <1>1 DEF In
<1>7. QED
  BY <1>1, <1>4, <1>5, <1>6 DEF q, h

(* The entries of two lists, one after the other.                          *)
LEMMA ListsJoined ==
  ASSUME NEW a \in Seq(Task), NEW b \in Seq(Task)
  PROVE  /\ a \o b \in Seq(Task) /\ Len(a \o b) = Len(a) + Len(b)
         /\ \A n \in 1 .. Len(a) + Len(b) : (a \o b)[n] = IF n <= Len(a) THEN a[n] ELSE b[n - Len(a)]
  OBVIOUS

(* A frame is unlinked from a list.                                        *)
LEMMA ListWithout ==
  ASSUME NEW s \in Seq(Task), Distinct(s), NEW t, In(t, s)
  PROVE  /\ Without(s, t) \in Seq(Task) /\ Distinct(Without(s, t))
         /\ \A u : In(u, Without(s, t)) <=> In(u, s) /\ u # t
<1> DEFINE k == CHOOSE n \in 1 .. Len(s) : s[n] = t
           q == SubSeq(s, 1, k - 1) \o SubSeq(s, k + 1, Len(s))
<1>1. k \in 1 .. Len(s) /\ s[k] = t
  BY DEF In
<1> HIDE DEF k
<1>2. /\ q \in Seq(Task) /\ Len(q) = Len(s) - 1 /\ Len(s) \in Nat
      /\ \A n \in 1 .. Len(q) : q[n] = IF n < k THEN s[n] ELSE s[n + 1]
  <2> DEFINE a == SubSeq(s, 1, k - 1)
             b == SubSeq(s, k + 1, Len(s))
  <2>1. /\ a \in Seq(Task) /\ Len(a) = k - 1 /\ \A n \in 1 .. k - 1 : a[n] = s[n]
        /\ b \in Seq(Task) /\ Len(b) = Len(s) - k /\ \A n \in 1 .. Len(s) - k : b[n] = s[n + k]
    BY <1>1
  <2> HIDE DEF a, b
  <2>2. /\ a \o b \in Seq(Task) /\ Len(a \o b) = Len(a) + Len(b)
        /\ \A n \in 1 .. Len(a) + Len(b) : (a \o b)[n] = IF n <= Len(a) THEN a[n] ELSE b[n - Len(a)]
    BY <2>1, ListsJoined, Zenon
  <2>3. \A n \in 1 .. Len(s) - 1 : n < k \/ n - (k - 1) \in 1 .. Len(s) - k
    BY <1>1
  <2>4. q = a \o b /\ Len(s) \in Nat /\ k \in Nat
    BY <1>1 DEF a, b
  <2> HIDE DEF q
  <2>5. q \in Seq(Task) /\ Len(q) = Len(s) - 1
    <3>1. q \in Seq(Task) /\ Len(q) = Len(a) + Len(b)
      BY <2>2, <2>4
    <3>2. Len(a) = k - 1 /\ Len(b) = Len(s) - k
      BY <2>1
    <3>3. QED
      BY <2>4, <3>1, <3>2
  <2>6. ASSUME NEW n \in 1 .. Len(q) PROVE q[n] = IF n < k THEN s[n] ELSE s[n + 1]
    <3>1. CASE n < k
      BY <2>1, <2>2, <2>4, <2>5, <3>1
    <3>2. CASE ~(n < k)
      <4>1. q[n] = b[n - (k - 1)] /\ n - (k - 1) \in 1 .. Len(s) - k
        BY <2>1, <2>2, <2>3, <2>4, <2>5, <3>2
      <4>2. b[n - (k - 1)] = s[(n - (k - 1)) + k] /\ (n - (k - 1)) + k = n + 1
        BY <2>1, <2>4, <4>1
      <4>3. QED
        BY <3>2, <4>1, <4>2
    <3>3. QED
      BY <3>1, <3>2
  <2>7. QED
    BY <2>4, <2>5, <2>6
<1>3. Without(s, t) = q
  BY DEF Without, k
<1> HIDE DEF q
<1>4. \A n \in 1 .. Len(s) : \/ n = k
                             \/ n \in 1 .. Len(q) /\ q[n] = s[n]
                             \/ n - 1 \in 1 .. Len(q) /\ q[n - 1] = s[n]
  BY <1>1, <1>2
<1>5. \A n \in 1 .. Len(q) : \E m \in 1 .. Len(s) : m = (IF n < k THEN n ELSE n + 1) /\ m # k /\ q[n] = s[m]
  BY <1>1, <1>2
<1>6. Distinct(q)
  <2> SUFFICES ASSUME NEW m \in 1 .. Len(q), NEW n \in 1 .. Len(q), q[m] = q[n] PROVE m = n
    BY DEF Distinct
  <2>1. (IF m < k THEN m ELSE m + 1) = (IF n < k THEN n ELSE n + 1)
    BY <1>5 DEF Distinct
  <2>2. QED
    BY <1>1, <2>1
<1>7. ASSUME NEW u PROVE In(u, q) <=> In(u, s) /\ u # t
  <2>1. In(u, q) => In(u, s) /\ u # t
    BY <1>1, <1>5 DEF In, Distinct
  <2>2. In(u, s) /\ u # t => In(u, q)
    BY <1>1, <1>4 DEF In
  <2>3. QED
    BY <2>1, <2>2
<1>8. QED
  BY <1>2, <1>3, <1>6, <1>7

-----------------------------------------------------------------------------
(* Where a task is: in one of the lists, running, returned, or parked.     *)

ListPlaces == {"run", "mutex", "cond", "readers", "writers", "group"}

(* All places.                                                             *)
Places == ListPlaces \cup {"current", "done", "parked"}

(* The list of a place.                                                    *)
List(p) ==
  CASE p = "run" -> runqueue
    [] p = "mutex" -> mblocked
    [] p = "cond" -> cblocked
    [] p = "readers" -> waitingReaders
    [] p = "writers" -> waitingWriters
    [] p = "group" -> waiters

(* t is in the place p.                                                    *)
Is(t, p) ==
  CASE p \in ListPlaces -> In(t, List(p))
    [] p = "current" -> t = current
    [] p = "done" -> t \in done
    [] p = "parked" -> t \in parked

(* Every task is in exactly one place, and once.                           *)
PlaceInv ==
  /\ current \in Task \cup {NoTask}
  /\ done \subseteq Task /\ parked \subseteq Task
  /\ \A p \in ListPlaces : List(p) \in Seq(Task) /\ Distinct(List(p))
  /\ \A t \in Task : \E p \in Places : Is(t, p) /\ \A q \in Places : Is(t, q) => q = p

(* A step that takes the tasks in W to dest and leaves the others.         *)
Sends(W, dest) ==
  /\ current' \in Task \cup {NoTask}
  /\ done' \subseteq Task /\ parked' \subseteq Task
  /\ \A p \in ListPlaces : List(p)' \in Seq(Task) /\ Distinct(List(p)')
  /\ \A t \in Task, p \in Places : Is(t, p)' <=> IF t \in W THEN p = dest ELSE Is(t, p)

(* Such a step keeps every task in one place.                              *)
LEMMA SendsInv ==
  ASSUME PlaceInv, NEW W, NEW dest \in Places, Sends(W, dest)
  PROVE  PlaceInv'
<1>1. ASSUME NEW t \in Task
      PROVE  \E p \in Places : Is(t, p)' /\ \A q \in Places : Is(t, q)' => q = p
  <2>1. PICK p \in Places : Is(t, p) /\ \A q \in Places : Is(t, q) => q = p
    BY DEF PlaceInv
  <2>2. \A q \in Places : Is(t, q)' <=> IF t \in W THEN q = dest ELSE Is(t, q)
    BY DEF Sends
  <2>3. QED
    BY <2>1, <2>2
<1>2. /\ current' \in Task \cup {NoTask} /\ done' \subseteq Task /\ parked' \subseteq Task
      /\ \A p \in ListPlaces : List(p)' \in Seq(Task) /\ Distinct(List(p)')
  BY DEF Sends
<1>3. QED
  BY <1>1, <1>2 DEF PlaceInv

(* No task is in two places.                                               *)
LEMMA OnlyPlace ==
  ASSUME PlaceInv, NEW t \in Task, NEW p \in Places, Is(t, p)
  PROVE  \A q \in Places : Is(t, q) <=> q = p
  BY DEF PlaceInv

(* What the places are, one by one.                                        *)
LEMMA PlaceNames ==
  /\ ListPlaces \subseteq Places
  /\ {"current", "done", "parked"} \subseteq Places
  /\ \A p \in Places : p \in ListPlaces \/ p = "current" \/ p = "done" \/ p = "parked"
  /\ "current" \notin ListPlaces /\ "done" \notin ListPlaces /\ "parked" \notin ListPlaces
  /\ "run" \in ListPlaces
  BY DEF Places, ListPlaces

(* What it is to be in a place.                                            *)
LEMMA IsIn ==
  /\ \A t : \A p \in ListPlaces : Is(t, p) <=> In(t, List(p))
  /\ \A t : (Is(t, "current") <=> t = current) /\ (Is(t, "done") <=> t \in done)
            /\ (Is(t, "parked") <=> t \in parked)
  BY PlaceNames, Zenon DEF Is

(* And after a step.                                                       *)
LEMMA IsInNext ==
  /\ \A t : \A p \in ListPlaces : Is(t, p)' <=> In(t, List(p)')
  /\ \A t : (Is(t, "current")' <=> t = current') /\ (Is(t, "done")' <=> t \in done')
            /\ (Is(t, "parked")' <=> t \in parked')
  BY PlaceNames, Zenon DEF Is

-----------------------------------------------------------------------------
(* The ways in which steps move tasks.                                     *)

(* It is enough to look at the lists and the other places.                 *)
LEMMA SendsIf ==
  ASSUME NEW W, NEW dest \in Places, PlaceInv,
         current' \in Task \cup {NoTask}, done' \subseteq Task, parked' \subseteq Task,
         \A p \in ListPlaces :
           /\ List(p)' \in Seq(Task) /\ Distinct(List(p)')
           /\ \A t \in Task : In(t, List(p)') <=> IF t \in W THEN p = dest ELSE In(t, List(p)),
         \A t \in Task :
           /\ t = current' <=> IF t \in W THEN dest = "current" ELSE t = current
           /\ t \in done' <=> IF t \in W THEN dest = "done" ELSE t \in done
           /\ t \in parked' <=> IF t \in W THEN dest = "parked" ELSE t \in parked
  PROVE  Sends(W, dest)
<1>1. ASSUME NEW t \in Task, NEW p \in Places
      PROVE  Is(t, p)' <=> IF t \in W THEN p = dest ELSE Is(t, p)
  <2>1. CASE p \in ListPlaces
    BY <2>1, IsIn, IsInNext
  <2>2. CASE p = "current"
    BY <2>2, IsIn, IsInNext
  <2>3. CASE p = "done"
    BY <2>3, IsIn, IsInNext
  <2>4. CASE p = "parked"
    BY <2>4, IsIn, IsInNext
  <2>5. QED
    BY <2>1, <2>2, <2>3, <2>4, PlaceNames
<1>2. QED
  BY <1>1 DEF Sends

(* No list changes.                                                        *)
LEMMA NothingMoves ==
  ASSUME PlaceInv, \A p \in ListPlaces : List(p)' = List(p), UNCHANGED <<current, done, parked>>
  PROVE  Sends({}, "run")
<1>1. "run" \in Places
  BY PlaceNames
<1>2. /\ current \in Task \cup {NoTask} /\ done \subseteq Task /\ parked \subseteq Task
      /\ \A p \in ListPlaces : List(p) \in Seq(Task) /\ Distinct(List(p))
  BY DEF PlaceInv
<1>3. QED
  BY <1>1, <1>2, SendsIf

(* The task that runs pauses on a list.                                    *)
LEMMA Pauses ==
  ASSUME PlaceInv, NEW t \in Task, current = t, current' = NoTask,
         NEW p \in ListPlaces, List(p)' = <<t>> \o List(p),
         \A q \in ListPlaces : q # p => List(q)' = List(q), UNCHANGED <<done, parked>>
  PROVE  Sends({t}, p)
<1>1. p \in Places /\ \A q \in Places : Is(t, q) <=> q = "current"
  BY OnlyPlace, IsIn, PlaceNames
<1>2. /\ NoTask \notin Task /\ done \subseteq Task /\ parked \subseteq Task
      /\ \A q \in ListPlaces : List(q) \in Seq(Task) /\ Distinct(List(q))
  BY ProgramAssumption DEF PlaceInv
<1>3. (\A q \in ListPlaces : ~In(t, List(q))) /\ t \notin done /\ t \notin parked
  BY <1>1, IsIn, PlaceNames
<1>4. /\ List(p)' \in Seq(Task) /\ Distinct(List(p)')
      /\ \A u : In(u, List(p)') <=> u = t \/ In(u, List(p))
  BY <1>2, <1>3, ListPush
<1>5. ASSUME NEW q \in ListPlaces
      PROVE  /\ List(q)' \in Seq(Task) /\ Distinct(List(q)')
             /\ \A u \in Task : In(u, List(q)') <=> IF u \in {t} THEN q = p ELSE In(u, List(q))
  BY <1>2, <1>3, <1>4, Zenon
<1>6. \A u \in Task : /\ u = current' <=> IF u \in {t} THEN p = "current" ELSE u = current
                      /\ u \in done' <=> IF u \in {t} THEN p = "done" ELSE u \in done
                      /\ u \in parked' <=> IF u \in {t} THEN p = "parked" ELSE u \in parked
  BY <1>2, <1>3, PlaceNames
<1>7. QED
  BY <1>1, <1>2, <1>5, <1>6, SendsIf

(* Tasks from one list are scheduled, and the task that runs may yield     *)
(* behind them.                                                            *)
LEMMA Wakes ==
  ASSUME PlaceInv, NEW p \in ListPlaces, p # "run",
         NEW woken \in Seq(Task), Distinct(woken),
         List(p)' \in Seq(Task), Distinct(List(p)'),
         \A u \in Task : /\ In(u, woken) => In(u, List(p))
                         /\ In(u, List(p)') <=> In(u, List(p)) /\ ~In(u, woken),
         \A q \in ListPlaces : q # p /\ q # "run" => List(q)' = List(q),
         UNCHANGED <<done, parked>>
  PROVE  /\ List("run")' = List("run") \o woken /\ current' = current => Sends(All(woken), "run")
         /\ \A t \in Task :
              List("run")' = List("run") \o woken \o <<t>> /\ current = t /\ current' = NoTask
                => Sends(All(woken) \cup {t}, "run")
<1>1. /\ NoTask \notin Task /\ done \subseteq Task /\ parked \subseteq Task
      /\ current \in Task \cup {NoTask}
      /\ \A q \in ListPlaces : List(q) \in Seq(Task) /\ Distinct(List(q))
  BY ProgramAssumption DEF PlaceInv
<1>2. "run" \in ListPlaces /\ "run" \in Places /\ p \in Places
  BY PlaceNames
<1>3. ASSUME NEW u \in Task, In(u, List(p))
      PROVE  /\ \A q \in ListPlaces : In(u, List(q)) => q = p
             /\ u # current /\ u \notin done /\ u \notin parked
  BY <1>2, <1>3, OnlyPlace, IsIn, PlaceNames
<1> DEFINE q0 == List("run") \o woken
<1>4. q0 \in Seq(Task) /\ Distinct(q0) /\ \A u : In(u, q0) <=> In(u, List("run")) \/ In(u, woken)
  BY <1>1, <1>2, <1>3, ListConcat
<1> HIDE DEF q0
<1>5. ASSUME List("run")' = q0, current' = current
      PROVE  Sends(All(woken), "run")
  <2>1. ASSUME NEW q \in ListPlaces
        PROVE  /\ List(q)' \in Seq(Task) /\ Distinct(List(q)')
               /\ \A u \in Task : In(u, List(q)') <=> IF u \in All(woken) THEN q = "run" ELSE In(u, List(q))
    <3>1. CASE q = "run"
      BY <1>4, <1>5, <3>1 DEF All
    <3>2. CASE q = p
      BY <3>2 DEF All
    <3>3. CASE q # p /\ q # "run"
      BY <1>1, <1>3, <3>3 DEF All
    <3>4. QED
      BY <3>1, <3>2, <3>3
  <2>2. \A u \in Task : /\ u = current' <=> IF u \in All(woken) THEN "run" = "current" ELSE u = current
                        /\ u \in done' <=> IF u \in All(woken) THEN "run" = "done" ELSE u \in done
                        /\ u \in parked' <=> IF u \in All(woken) THEN "run" = "parked" ELSE u \in parked
    BY <1>3, <1>5 DEF All
  <2>3. QED
    BY <1>1, <1>2, <1>5, <2>1, <2>2, SendsIf
<1>6. ASSUME NEW t \in Task, List("run")' = q0 \o <<t>>, current = t, current' = NoTask
      PROVE  Sends(All(woken) \cup {t}, "run")
  <2> DEFINE W == All(woken) \cup {t}
  <2>1. (\A q \in ListPlaces : ~In(t, List(q))) /\ t \notin done /\ t \notin parked
    BY <1>6, OnlyPlace, IsIn, PlaceNames
  <2>2. ~In(t, q0)
    BY <1>2, <1>4, <2>1
  <2>3. /\ List("run")' \in Seq(Task) /\ Distinct(List("run")')
        /\ \A u \in Task : In(u, List("run")') <=> In(u, q0) \/ u = t
    <3>1. <<t>> \in Seq(Task) /\ Distinct(<<t>>) /\ \A u : In(u, <<t>>) <=> u = t
      BY ListOne
    <3>2. \A u \in Task : ~(In(u, q0) /\ In(u, <<t>>))
      BY <2>2, <3>1
    <3>3. /\ q0 \o <<t>> \in Seq(Task) /\ Distinct(q0 \o <<t>>)
          /\ \A u : In(u, q0 \o <<t>>) <=> In(u, q0) \/ In(u, <<t>>)
      BY <1>4, <3>1, <3>2, ListConcat, Zenon
    <3>4. QED
      BY <1>6, <3>1, <3>3, Zenon
  <2>4. \A u : u \in W <=> u \in Task /\ (In(u, woken) \/ u = t)
    BY DEF All
  <2> HIDE DEF W
  <2>5. ASSUME NEW q \in ListPlaces
        PROVE  /\ List(q)' \in Seq(Task) /\ Distinct(List(q)')
               /\ \A u \in Task : In(u, List(q)') <=> IF u \in W THEN q = "run" ELSE In(u, List(q))
    <3>1. CASE q = "run"
      BY <1>4, <2>3, <2>4, <3>1
    <3>2. CASE q = p
      BY <2>1, <2>4, <3>2
    <3>3. CASE q # p /\ q # "run"
      BY <1>1, <1>3, <2>1, <2>4, <3>3
    <3>4. QED
      BY <3>1, <3>2, <3>3
  <2>6. \A u \in Task : /\ u = current' <=> IF u \in W THEN "run" = "current" ELSE u = current
                        /\ u \in done' <=> IF u \in W THEN "run" = "done" ELSE u \in done
                        /\ u \in parked' <=> IF u \in W THEN "run" = "parked" ELSE u \in parked
    BY <1>1, <1>3, <1>6, <2>1, <2>4
  <2>7. Sends(W, "run")
    BY <1>1, <1>2, <1>6, <2>5, <2>6, SendsIf, Zenon
  <2>8. QED
    BY <2>7 DEF W
<1>7. QED
  BY <1>5, <1>6, Zenon DEF q0

(* The task that runs returns, or pauses elsewhere.                        *)
LEMMA Leaves ==
  ASSUME PlaceInv, NEW t \in Task, current = t, current' = NoTask,
         \A p \in ListPlaces : List(p)' = List(p)
  PROVE  /\ done' = done \cup {t} /\ parked' = parked => Sends({t}, "done")
         /\ done' = done /\ parked' = parked \cup {t} => Sends({t}, "parked")
<1>1. /\ NoTask \notin Task /\ done \subseteq Task /\ parked \subseteq Task
      /\ \A q \in ListPlaces : List(q) \in Seq(Task) /\ Distinct(List(q))
  BY ProgramAssumption DEF PlaceInv
<1>2. (\A q \in ListPlaces : ~In(t, List(q))) /\ t \notin done /\ t \notin parked
  BY OnlyPlace, IsIn, PlaceNames
<1>3. ASSUME NEW p \in {"done", "parked"}, NEW q \in ListPlaces
      PROVE  /\ List(q)' \in Seq(Task) /\ Distinct(List(q)')
             /\ \A u \in Task : In(u, List(q)') <=> IF u \in {t} THEN q = p ELSE In(u, List(q))
  BY <1>1, <1>2, PlaceNames
<1>4. ASSUME done' = done \cup {t}, parked' = parked PROVE Sends({t}, "done")
  <2>1. \A u \in Task : /\ u = current' <=> IF u \in {t} THEN "done" = "current" ELSE u = current
                        /\ u \in done' <=> IF u \in {t} THEN "done" = "done" ELSE u \in done
                        /\ u \in parked' <=> IF u \in {t} THEN "done" = "parked" ELSE u \in parked
    BY <1>1, <1>2, <1>4
  <2>2. QED
    BY <1>1, <1>3, <1>4, <2>1, SendsIf, PlaceNames
<1>5. ASSUME done' = done, parked' = parked \cup {t} PROVE Sends({t}, "parked")
  <2>1. \A u \in Task : /\ u = current' <=> IF u \in {t} THEN "parked" = "current" ELSE u = current
                        /\ u \in done' <=> IF u \in {t} THEN "parked" = "done" ELSE u \in done
                        /\ u \in parked' <=> IF u \in {t} THEN "parked" = "parked" ELSE u \in parked
    BY <1>1, <1>2, <1>5
  <2>2. QED
    BY <1>1, <1>3, <1>5, <2>1, SendsIf, PlaceNames
<1>6. QED
  BY <1>4, <1>5

(* The scheduler takes a task from the run queue.                          *)
LEMMA Runs1 ==
  ASSUME PlaceInv, current = NoTask, List("run") # << >>,
         current' = Head(List("run")), List("run")' = Tail(List("run")),
         \A p \in ListPlaces : p # "run" => List(p)' = List(p), UNCHANGED <<done, parked>>
  PROVE  /\ Head(List("run")) \in Task /\ Is(Head(List("run")), "run")
         /\ Sends({Head(List("run"))}, "current")
<1> DEFINE t == Head(List("run"))
<1>1. /\ NoTask \notin Task /\ done \subseteq Task /\ parked \subseteq Task
      /\ \A q \in ListPlaces : List(q) \in Seq(Task) /\ Distinct(List(q))
  BY ProgramAssumption DEF PlaceInv
<1>2. /\ t \in Task /\ In(t, List("run"))
      /\ Tail(List("run")) \in Seq(Task) /\ Distinct(Tail(List("run")))
      /\ \A u : In(u, Tail(List("run"))) <=> In(u, List("run")) /\ u # t
  BY <1>1, PlaceNames, ListPop
<1> HIDE DEF t
<1>3. Is(t, "run")
  BY <1>2, IsIn, PlaceNames
<1>4. (\A q \in ListPlaces : In(t, List(q)) => q = "run") /\ t \notin done /\ t \notin parked
  BY <1>2, <1>3, OnlyPlace, IsIn, PlaceNames
<1>5. ASSUME NEW q \in ListPlaces
      PROVE  /\ List(q)' \in Seq(Task) /\ Distinct(List(q)')
             /\ \A u \in Task : In(u, List(q)') <=> IF u \in {t} THEN q = "current" ELSE In(u, List(q))
  BY <1>1, <1>2, <1>4, PlaceNames, Zenon
<1>6. current' = t
  BY DEF t
<1>7. \A u \in Task : /\ u = current' <=> IF u \in {t} THEN "current" = "current" ELSE u = current
                      /\ u \in done' <=> IF u \in {t} THEN "current" = "done" ELSE u \in done
                      /\ u \in parked' <=> IF u \in {t} THEN "current" = "parked" ELSE u \in parked
  BY <1>1, <1>2, <1>4, <1>6
<1>8. Sends({t}, "current")
  BY <1>1, <1>2, <1>5, <1>6, <1>7, SendsIf, PlaceNames
<1>9. QED
  BY <1>2, <1>3, <1>8 DEF t

(* Parked tasks are scheduled.                                             *)
LEMMA Unparks ==
  ASSUME PlaceInv, NEW woken \in Wakings(parked),
         List("run")' = List("run") \o woken, parked' = parked \ Range(woken),
         \A p \in ListPlaces : p # "run" => List(p)' = List(p), UNCHANGED <<current, done>>
  PROVE  Sends(All(woken), "run")
<1>1. /\ done \subseteq Task /\ parked \subseteq Task /\ current \in Task \cup {NoTask}
      /\ \A q \in ListPlaces : List(q) \in Seq(Task) /\ Distinct(List(q))
  BY DEF PlaceInv
<1>2. /\ woken \in Seq(Task) /\ Distinct(woken)
      /\ \A u : u \in Range(woken) <=> In(u, woken)
      /\ \A u : In(u, woken) => u \in parked
  <2>1. PICK n \in Nat : woken \in [1 .. n -> parked] /\ IsInjective(woken)
    BY DEF Wakings
  <2>2. woken \in Seq(Task) /\ Len(woken) = n /\ DOMAIN woken = 1 .. n
    BY <1>1, <2>1
  <2>3. QED
    BY <2>1, <2>2 DEF Distinct, IsInjective, Range, In
<1>3. ASSUME NEW u \in Task, u \in parked
      PROVE  (\A q \in ListPlaces : ~In(u, List(q))) /\ u # current /\ u \notin done
  BY <1>3, OnlyPlace, IsIn, PlaceNames
<1>4. /\ List("run")' \in Seq(Task) /\ Distinct(List("run")')
      /\ \A u : In(u, List("run")') <=> In(u, List("run")) \/ In(u, woken)
  <2>1. \A u \in Task : ~(In(u, List("run")) /\ In(u, woken))
    BY <1>2, <1>3, PlaceNames
  <2>2. List("run") \in Seq(Task) /\ Distinct(List("run"))
    BY <1>1, PlaceNames
  <2>3. woken \in Seq(Task) /\ Distinct(woken)
    BY <1>2
  <2>4. /\ List("run") \o woken \in Seq(Task) /\ Distinct(List("run") \o woken)
        /\ \A u : In(u, List("run") \o woken) <=> In(u, List("run")) \/ In(u, woken)
    BY <2>1, <2>2, <2>3, ListConcat
  <2>5. QED
    BY <2>4, Zenon
<1>5. ASSUME NEW q \in ListPlaces
      PROVE  /\ List(q)' \in Seq(Task) /\ Distinct(List(q)')
             /\ \A u \in Task : In(u, List(q)') <=> IF u \in All(woken) THEN q = "run" ELSE In(u, List(q))
  BY <1>1, <1>2, <1>3, <1>4 DEF All
<1>6. \A u \in Task : /\ u = current' <=> IF u \in All(woken) THEN "run" = "current" ELSE u = current
                      /\ u \in done' <=> IF u \in All(woken) THEN "run" = "done" ELSE u \in done
                      /\ u \in parked' <=> IF u \in All(woken) THEN "run" = "parked" ELSE u \in parked
  BY <1>2, <1>3 DEF All
<1>7. QED
  BY <1>1, <1>5, <1>6, SendsIf, PlaceNames

(* Places stay apart, and the run queue loses nobody.                      *)
Moved == PlaceInv' /\ \A t \in Task : Is(t, "run") => Is(t, "run")'

(* So it is when tasks are scheduled, or one that runs leaves.             *)
LEMMA MovedIf ==
  ASSUME PlaceInv, NEW W, NEW dest \in Places, Sends(W, dest),
         dest = "run" \/ \A t \in Task : t \in W => t = current
  PROVE  Moved
<1>1. PlaceInv'
  BY SendsInv
<1>2. ASSUME NEW t \in Task, Is(t, "run") PROVE Is(t, "run")'
  <2>1. "run" \in Places /\ "current" \in Places /\ "run" # "current"
    BY PlaceNames
  <2>2. Is(t, "run")' <=> IF t \in W THEN "run" = dest ELSE Is(t, "run")
    BY <2>1 DEF Sends
  <2>3. t # current
    BY <1>2, <2>1, OnlyPlace, IsIn
  <2>4. QED
    BY <1>2, <2>2, <2>3
<1>3. QED
  BY <1>1, <1>2 DEF Moved

(* The task that runs goes on, alone.                                      *)
LEMMA GoesOnAlone ==
  ASSUME PlaceInv, runqueue' = runqueue \/ runqueue' = runqueue \o << >>,
         UNCHANGED <<current, done, parked>>,
         UNCHANGED <<mblocked, cblocked, waitingReaders, waitingWriters, waiters>>
  PROVE  Moved /\ \A t \in Task, p \in ListPlaces : Is(t, p)' <=> Is(t, p)
<1>1. runqueue \o << >> = runqueue
  BY DEF PlaceInv, List, ListPlaces
<1>2. \A q \in ListPlaces : List(q)' = List(q)
  BY <1>1 DEF List, ListPlaces
<1>3. Sends({}, "run") /\ "run" \in Places
  BY <1>2, NothingMoves, PlaceNames
<1>4. Moved
  BY <1>3, MovedIf
<1>5. QED
  BY <1>3, <1>4, PlaceNames DEF Sends

-----------------------------------------------------------------------------
(* The mutex and the condition variable.                                   *)

(* Where a task is in its calls of the mutex and the condition.            *)
MutexStages == {"work", "critical", "locking", "released", "waiting", "relock"}

(* t has the mutex, or has been handed it and not run since.               *)
Has(t) == mstage[t] = "critical" \/ (mstage[t] = "locking" /\ ~Is(t, "mutex"))

(* A task in the middle of Lock or Wait is where the call left it, and     *)
(* frames of Wait are on the stack or signaled.  locked says whether a     *)
(* task has the lock.                                                      *)
MutexInv ==
  /\ mstage \in [Task -> MutexStages] /\ locked \in BOOLEAN
  /\ unlocking \in Seq(Task) /\ Distinct(unlocking) /\ signaled \subseteq Task
  /\ \A t \in Task :
       /\ Is(t, "mutex") => mstage[t] = "locking" /\ locked
       /\ mstage[t] = "locking" => Is(t, "mutex") \/ Is(t, "run")
       /\ Is(t, "cond") => mstage[t] = "waiting"
       /\ mstage[t] = "waiting" => Is(t, "cond") \/ Is(t, "run")
       /\ mstage[t] = "released" <=> In(t, unlocking) \/ t \in signaled
       /\ ~(In(t, unlocking) /\ t \in signaled)
       /\ Has(t) => locked
  /\ locked => \E t \in Task : Has(t)
  /\ \A t, u \in Task : Has(t) /\ Has(u) => t = u

(* What the task that runs is not doing.                                   *)
LEMMA RunsOutside ==
  ASSUME PlaceInv, NEW t \in Task, current = t
  PROVE  /\ \A p \in Places : Is(t, p) <=> p = "current"
         /\ \A p \in ListPlaces : ~Is(t, p)
         /\ MutexInv => mstage[t] \notin {"locking", "waiting"}
<1>1. \A p \in Places : Is(t, p) <=> p = "current"
  BY OnlyPlace, IsIn, PlaceNames
<1>2. \A p \in ListPlaces : ~Is(t, p)
  BY <1>1, PlaceNames
<1>3. ~Is(t, "mutex") /\ ~Is(t, "cond") /\ ~Is(t, "run")
  BY <1>2 DEF ListPlaces
<1>4. QED
  BY <1>1, <1>2, <1>3 DEF MutexInv

(* Steps that do not touch the mutex.                                      *)
LEMMA MutexFrame ==
  ASSUME MutexInv, Moved, UNCHANGED mutexVars
  PROVE  MutexInv'
<1>1. \A t : (Is(t, "mutex")' <=> Is(t, "mutex")) /\ (Is(t, "cond")' <=> Is(t, "cond"))
  BY DEF mutexVars, Is, List, ListPlaces
<1>2. \A t \in Task : Has(t)' <=> Has(t)
  BY <1>1 DEF Has, mutexVars
<1>3. QED
  BY <1>1, <1>2 DEF MutexInv, Moved, mutexVars

(* The places that the mutex and the condition variable have.              *)
LEMMA SendsMutex ==
  ASSUME NEW W, NEW dest \in Places, Sends(W, dest)
  PROVE  \A t \in Task, p \in {"run", "mutex", "cond", "readers", "writers", "group"} :
           Is(t, p)' <=> IF t \in W THEN p = dest ELSE Is(t, p)
  BY DEF Sends, Places, ListPlaces

(* Lock pauses.                                                            *)
LEMMA LockBlocksInv ==
  ASSUME PlaceInv, MutexInv, NEW t \in Task, Runs(t), mstage[t] \in {"work", "relock"},
         LockBlocks(t), UNCHANGED <<unlocking, signaled, cblocked, rwVars, groupVars, parked>>
  PROVE  Moved /\ MutexInv'
<1>1. /\ current = t /\ current' = NoTask /\ List("mutex")' = <<t>> \o List("mutex")
      /\ \A q \in ListPlaces : q # "mutex" => List(q)' = List(q)
      /\ UNCHANGED <<done, parked>> /\ "mutex" \in ListPlaces /\ "mutex" \in Places
  BY Zenon DEF Runs, LockBlocks, PausesTask, List, ListPlaces, Places, rwVars, groupVars
<1>2. Sends({t}, "mutex")
  BY <1>1, Pauses
<1>3. Moved
  BY <1>1, <1>2, MovedIf
<1>4. \A u \in Task : /\ Is(u, "mutex")' <=> u = t \/ Is(u, "mutex")
                      /\ Is(u, "cond")' <=> u # t /\ Is(u, "cond")
                      /\ Is(u, "run")' <=> u # t /\ Is(u, "run")
  BY <1>1, <1>2, SendsMutex
<1>5. ~Is(t, "mutex") /\ ~Is(t, "cond") /\ ~Is(t, "run")
  BY <1>1, RunsOutside DEF ListPlaces
<1>6. /\ locked /\ locked' = locked /\ unlocking' = unlocking /\ signaled' = signaled
      /\ mstage' = [mstage EXCEPT ![t] = "locking"]
  BY DEF LockBlocks, To
<1>7. mstage' \in [Task -> MutexStages] /\ \A u \in Task : mstage'[u] = IF u = t THEN "locking" ELSE mstage[u]
  BY <1>6 DEF MutexInv, MutexStages
<1>8. \A u \in Task : Has(u)' <=> Has(u)
  BY <1>4, <1>5, <1>7 DEF Has
<1>9. MutexInv'
  BY <1>4, <1>5, <1>6, <1>7, <1>8 DEF MutexInv
<1>10. QED
  BY <1>3, <1>9

(* Lock takes a lock that is free.                                         *)
LEMMA LockSucceedsInv ==
  ASSUME PlaceInv, MutexInv, NEW t \in Task, Runs(t), mstage[t] \in {"work", "relock"},
         LockSucceeds(t), UNCHANGED <<unlocking, signaled, cblocked, rwVars, groupVars, parked>>
  PROVE  Moved /\ MutexInv'
<1>4. Moved /\ \A u \in Task, p \in ListPlaces : Is(u, p)' <=> Is(u, p)
  BY GoesOnAlone DEF LockSucceeds, GoesOn, rwVars, groupVars
<1>5. \A u \in Task : /\ Is(u, "mutex")' <=> Is(u, "mutex")
                      /\ Is(u, "cond")' <=> Is(u, "cond")
                      /\ Is(u, "run")' <=> Is(u, "run")
  BY <1>4 DEF ListPlaces
<1>6. ~Is(t, "mutex") /\ ~Is(t, "cond") /\ ~Is(t, "run")
  BY RunsOutside, Zenon DEF ListPlaces, Runs
<1>7. /\ ~locked /\ locked' = TRUE /\ unlocking' = unlocking /\ signaled' = signaled
      /\ mstage' = [mstage EXCEPT ![t] = "critical"]
  BY DEF LockSucceeds, To
<1>8. mstage' \in [Task -> MutexStages] /\ \A u \in Task : mstage'[u] = IF u = t THEN "critical" ELSE mstage[u]
  BY <1>7 DEF MutexInv, MutexStages
<1>9. \A u \in Task : Has(u)' <=> u = t
  BY <1>5, <1>7, <1>8 DEF Has, MutexInv
<1>10. MutexInv'
  BY <1>5, <1>6, <1>7, <1>8, <1>9 DEF MutexInv
<1>11. QED
  BY <1>4, <1>10

(* What Unlock schedules.                                                  *)
LEMMA ReleasedTask ==
  ASSUME PlaceInv, Unlocks
  PROVE  /\ Released.woken \in Seq(Task) /\ Distinct(Released.woken)
         /\ mblocked' \in Seq(Task) /\ Distinct(mblocked')
         /\ \A u \in Task : /\ In(u, Released.woken) => In(u, mblocked)
                            /\ In(u, mblocked') <=> In(u, mblocked) /\ ~In(u, Released.woken)
         /\ \/ locked' = FALSE /\ \A u \in Task : ~In(u, mblocked) /\ ~In(u, Released.woken)
            \/ locked' = TRUE /\ \E h \in Task : In(h, mblocked) /\ \A u \in Task : In(u, Released.woken) <=> u = h
<1>1. mblocked \in Seq(Task) /\ Distinct(mblocked)
  BY DEF PlaceInv, List, ListPlaces
<1>2. CASE mblocked = << >>
  <2>1. Released.woken = << >> /\ Released.locked = FALSE
    BY <1>2, Zenon DEF Released
  <2>2. mblocked' = << >> /\ locked' = FALSE
    BY <1>2, <2>1 DEF Unlocks
  <2>3. QED
    BY <1>2, <2>1, <2>2, ListEmpty
<1>3. CASE mblocked # << >>
  <2>1. Released.woken = <<Head(mblocked)>> /\ Released.locked = TRUE
    BY <1>3, Zenon DEF Released
  <2>2. mblocked' = Tail(mblocked) /\ locked' = TRUE
    BY <1>3, <2>1 DEF Unlocks
  <2>3. /\ Head(mblocked) \in Task /\ In(Head(mblocked), mblocked)
        /\ Tail(mblocked) \in Seq(Task) /\ Distinct(Tail(mblocked))
        /\ \A u : In(u, Tail(mblocked)) <=> In(u, mblocked) /\ u # Head(mblocked)
    BY <1>1, <1>3, ListPop
  <2>4. /\ Released.woken \in Seq(Task) /\ Distinct(Released.woken)
        /\ \A u : In(u, Released.woken) <=> u = Head(mblocked)
    BY <2>1, <2>3, ListOne
  <2>5. QED
    BY <2>2, <2>3, <2>4
<1>4. QED
  BY <1>2, <1>3, Zenon

(* Unlock, by itself or inside Wait, hands the lock on.                    *)
LEMMA HandOver ==
  ASSUME PlaceInv, MutexInv, NEW t \in Task, current = t, mstage[t] = "critical",
         NEW s \in {"work", "released"}, To(t, s), Unlocks,
         unlocking' = IF s = "released" THEN <<t>> \o unlocking ELSE unlocking,
         GoesOn(Released.woken) \/ YieldsTask(t, Released.woken),
         UNCHANGED <<signaled, cblocked, rwVars, groupVars, parked>>
  PROVE  Moved /\ MutexInv'
<1> DEFINE woken == Released.woken
<1>1. /\ woken \in Seq(Task) /\ Distinct(woken)
      /\ mblocked' \in Seq(Task) /\ Distinct(mblocked')
      /\ \A u \in Task : /\ In(u, woken) => In(u, mblocked)
                         /\ In(u, mblocked') <=> In(u, mblocked) /\ ~In(u, woken)
      /\ \/ locked' = FALSE /\ \A u \in Task : ~In(u, mblocked) /\ ~In(u, woken)
         \/ locked' = TRUE /\ \E h \in Task : In(h, mblocked) /\ \A u \in Task : In(u, woken) <=> u = h
  BY ReleasedTask, Zenon
<1>2. \/ runqueue' = runqueue \o woken /\ current' = current
      \/ runqueue' = runqueue \o woken \o <<t>> /\ current' = NoTask
  BY DEF GoesOn, YieldsTask
<1>3. UNCHANGED <<done, parked>>
  BY DEF GoesOn, YieldsTask
<1> HIDE DEF woken
<1>4. /\ "mutex" \in ListPlaces /\ "mutex" # "run" /\ "run" \in Places
      /\ List("mutex") = mblocked /\ List("mutex")' = mblocked'
      /\ List("run") = runqueue /\ List("run")' = runqueue'
  BY DEF List, ListPlaces, Places
<1>5. \A q \in ListPlaces : q # "mutex" /\ q # "run" => List(q)' = List(q)
  BY DEF List, ListPlaces, rwVars, groupVars
<1>6. PICK W : Sends(W, "run") /\ (W = All(woken) \/ W = All(woken) \cup {t})
  BY <1>1, <1>2, <1>3, <1>4, <1>5, Wakes, Zenon
<1>7. Moved
  BY <1>4, <1>6, MovedIf
<1>8. \A u \in Task : /\ Is(u, "mutex") <=> In(u, mblocked)
                      /\ Is(u, "mutex")' <=> In(u, mblocked) /\ ~In(u, woken)
  BY <1>1, <1>4, IsIn, IsInNext
<1>9. \A u \in Task : /\ Is(u, "cond")' <=> Is(u, "cond")
                      /\ Is(u, "run") \/ In(u, woken) => Is(u, "run")'
  <2>1. \A u \in Task : Is(u, "cond")' <=> Is(u, "cond")
    BY <1>5, IsIn, IsInNext DEF ListPlaces
  <2>2. \A u \in Task : In(u, woken) => Is(u, "run")'
    BY <1>4, <1>6, SendsMutex DEF All
  <2>3. QED
    BY <1>7, <2>1, <2>2 DEF Moved
<1>10. mstage' \in [Task -> MutexStages] /\ \A u \in Task : mstage'[u] = IF u = t THEN s ELSE mstage[u]
  BY DEF MutexInv, MutexStages, To
<1>11. ~Is(t, "mutex") /\ ~Is(t, "cond") /\ ~Is(t, "run") /\ ~In(t, unlocking) /\ t \notin signaled
  BY RunsOutside DEF ListPlaces, MutexInv
<1>12. /\ unlocking' \in Seq(Task) /\ Distinct(unlocking')
       /\ \A u \in Task : In(u, unlocking') <=> (u = t /\ s = "released") \/ In(u, unlocking)
  <2>1. unlocking \in Seq(Task) /\ Distinct(unlocking)
    BY DEF MutexInv
  <2>2. /\ <<t>> \o unlocking \in Seq(Task) /\ Distinct(<<t>> \o unlocking)
        /\ \A u : In(u, <<t>> \o unlocking) <=> u = t \/ In(u, unlocking)
    BY <1>11, <2>1, ListPush
  <2>3. QED
    BY <2>1, <2>2
<1>13. \A u \in Task : Has(u) <=> u = t
  BY DEF Has, MutexInv
<1>14. \A u \in Task : Has(u)' <=> In(u, woken)
  <2>1. \A u \in Task : In(u, woken) => Is(u, "mutex")
    BY <1>1, <1>8
  <2>2. QED
    BY <1>8, <1>10, <1>11, <1>13, <2>1 DEF Has, MutexInv
<1>15. (locked' => \E u \in Task : Has(u)') /\ (\A u, v \in Task : Has(u)' /\ Has(v)' => u = v)
       /\ locked' \in BOOLEAN
  BY <1>1, <1>14, Zenon
<1>16. \A u \in Task : (Has(u)' \/ Is(u, "mutex")') => locked'
  BY <1>1, <1>8, <1>14
<1>17. \A u \in Task :
       /\ Is(u, "mutex")' => mstage'[u] = "locking"
       /\ mstage'[u] = "locking" => Is(u, "mutex")' \/ Is(u, "run")'
       /\ Is(u, "cond")' => mstage'[u] = "waiting"
       /\ mstage'[u] = "waiting" => Is(u, "cond")' \/ Is(u, "run")'
  BY <1>8, <1>9, <1>10, <1>11 DEF MutexInv
<1>18. \A u \in Task :
       /\ mstage'[u] = "released" <=> In(u, unlocking') \/ u \in signaled'
       /\ ~(In(u, unlocking') /\ u \in signaled')
  BY <1>10, <1>11, <1>12 DEF MutexInv
<1>19. signaled' \subseteq Task
  BY DEF MutexInv
<1>20. MutexInv'
  BY <1>10, <1>12, <1>15, <1>16, <1>17, <1>18, <1>19 DEF MutexInv
<1>21. QED
  BY <1>7, <1>20

(* Wait ends at once when it was signaled.                                 *)
LEMMA WaitSignaledInv ==
  ASSUME PlaceInv, MutexInv, NEW t \in Task, WaitSignaled(t), UNCHANGED <<rwVars, groupVars, parked>>
  PROVE  Moved /\ MutexInv'
<1>1. Moved /\ \A u \in Task, p \in ListPlaces : Is(u, p)' <=> Is(u, p)
  BY GoesOnAlone DEF WaitSignaled, GoesOn, rwVars, groupVars
<1>2. \A u \in Task : /\ Is(u, "mutex")' <=> Is(u, "mutex")
                      /\ Is(u, "cond")' <=> Is(u, "cond")
                      /\ Is(u, "run")' <=> Is(u, "run")
  BY <1>1 DEF ListPlaces
<1>3. /\ mstage[t] = "released" /\ t \in signaled /\ signaled' = signaled \ {t}
      /\ locked' = locked /\ unlocking' = unlocking
      /\ mstage' = [mstage EXCEPT ![t] = "relock"]
  BY DEF WaitSignaled, At, To
<1>4. mstage' \in [Task -> MutexStages] /\ \A u \in Task : mstage'[u] = IF u = t THEN "relock" ELSE mstage[u]
  BY <1>3 DEF MutexInv, MutexStages
<1>5. \A u \in Task : Has(u)' <=> Has(u)
  BY <1>2, <1>3, <1>4 DEF Has
<1>6. MutexInv'
  BY <1>2, <1>3, <1>4, <1>5, Zenon DEF MutexInv
<1>7. QED
  BY <1>1, <1>6

(* Wait blocks.                                                            *)
LEMMA WaitBlocksInv ==
  ASSUME PlaceInv, MutexInv, NEW t \in Task, WaitBlocks(t), UNCHANGED <<rwVars, groupVars, parked>>
  PROVE  Moved /\ MutexInv'
<1>1. /\ current = t /\ current' = NoTask /\ List("cond")' = <<t>> \o List("cond")
      /\ \A q \in ListPlaces : q # "cond" => List(q)' = List(q)
      /\ UNCHANGED <<done, parked>> /\ "cond" \in ListPlaces /\ "cond" \in Places
  BY Zenon DEF WaitBlocks, At, Runs, PausesTask, List, ListPlaces, Places, rwVars, groupVars
<1>2. Sends({t}, "cond")
  BY <1>1, Pauses
<1>3. Moved
  BY <1>1, <1>2, MovedIf
<1>4. \A u \in Task : /\ Is(u, "mutex")' <=> u # t /\ Is(u, "mutex")
                      /\ Is(u, "cond")' <=> u = t \/ Is(u, "cond")
                      /\ Is(u, "run")' <=> u # t /\ Is(u, "run")
  BY <1>1, <1>2, SendsMutex
<1>5. ~Is(t, "mutex") /\ ~Is(t, "cond") /\ ~Is(t, "run")
  BY <1>1, RunsOutside DEF ListPlaces
<1>6. /\ mstage[t] = "released" /\ t \notin signaled /\ locked' = locked /\ signaled' = signaled
      /\ unlocking' = Without(unlocking, t) /\ mstage' = [mstage EXCEPT ![t] = "waiting"]
  BY DEF WaitBlocks, At, To
<1>7. mstage' \in [Task -> MutexStages] /\ \A u \in Task : mstage'[u] = IF u = t THEN "waiting" ELSE mstage[u]
  BY <1>6 DEF MutexInv, MutexStages
<1>8. /\ unlocking' \in Seq(Task) /\ Distinct(unlocking')
      /\ \A u \in Task : In(u, unlocking') <=> In(u, unlocking) /\ u # t
  <2>1. unlocking \in Seq(Task) /\ Distinct(unlocking) /\ In(t, unlocking)
    BY <1>6 DEF MutexInv
  <2>2. QED
    BY <1>6, <2>1, ListWithout
<1>9. \A u \in Task : Has(u)' <=> Has(u)
  BY <1>4, <1>5, <1>6, <1>7 DEF Has
<1>10. MutexInv'
  BY <1>4, <1>5, <1>6, <1>7, <1>8, <1>9, Zenon DEF MutexInv
<1>11. QED
  BY <1>3, <1>10

(* Tasks that wait are signaled: some that have paused are scheduled, and  *)
(* the frames of some others are marked.                                   *)
LEMMA SignalInv ==
  ASSUME PlaceInv, MutexInv, UNCHANGED <<locked, mblocked, mstage, current, done, rwVars, groupVars, parked>>,
         NEW woken \in Seq(Task), Distinct(woken), runqueue' = runqueue \o woken,
         cblocked' \in Seq(Task), Distinct(cblocked'),
         \A u \in Task : /\ In(u, woken) => In(u, cblocked)
                         /\ In(u, cblocked') <=> In(u, cblocked) /\ ~In(u, woken),
         unlocking' \in Seq(Task), Distinct(unlocking'), NEW M, signaled' = signaled \cup M, M \subseteq Task,
         \A u \in Task : /\ u \in M => In(u, unlocking)
                         /\ In(u, unlocking') <=> In(u, unlocking) /\ u \notin M
  PROVE  Moved /\ MutexInv'
<1>1. /\ "cond" \in ListPlaces /\ "cond" # "run" /\ "run" \in Places
      /\ List("cond") = cblocked /\ List("cond")' = cblocked'
      /\ List("run") = runqueue /\ List("run")' = runqueue'
      /\ \A q \in ListPlaces : q # "cond" /\ q # "run" => List(q)' = List(q)
  BY DEF List, ListPlaces, Places, rwVars, groupVars
<1>2. Sends(All(woken), "run")
  BY <1>1, Wakes, Zenon
<1>3. Moved
  BY <1>1, <1>2, MovedIf
<1>4. \A u \in Task : /\ Is(u, "mutex")' <=> Is(u, "mutex")
                      /\ Is(u, "cond")' => Is(u, "cond")
                      /\ Is(u, "cond") => Is(u, "cond")' \/ Is(u, "run")'
                      /\ Is(u, "run") => Is(u, "run")'
  <2>1. \A u \in Task : Is(u, "mutex")' <=> Is(u, "mutex")
    BY <1>1, IsIn, IsInNext DEF ListPlaces
  <2>2. \A u \in Task : /\ Is(u, "cond") <=> In(u, cblocked)
                        /\ Is(u, "cond")' <=> In(u, cblocked) /\ ~In(u, woken)
    BY <1>1, IsIn, IsInNext
  <2>3. \A u \in Task : In(u, woken) => Is(u, "run")'
    BY <1>1, <1>2, SendsMutex DEF All
  <2>4. QED
    BY <1>3, <2>1, <2>2, <2>3 DEF Moved
<1>5. \A u \in Task : Has(u)' <=> Has(u)
  BY <1>4 DEF Has
<1>6. MutexInv'
  BY <1>4, <1>5 DEF MutexInv
<1>7. QED
  BY <1>3, <1>6

(* The steps of the mutex and the condition variable.                      *)
LEMMA MutexCallsInv ==
  ASSUME PlaceInv, MutexInv, NEW t \in Task, MutexCalls(t), UNCHANGED <<rwVars, groupVars, parked>>
  PROVE  Moved /\ MutexInv'
<1>1. CASE Lock(t)
  BY <1>1, LockBlocksInv, LockSucceedsInv DEF Lock, At
<1>2. CASE WaitRelocks(t)
  BY <1>2, LockBlocksInv, LockSucceedsInv DEF WaitRelocks, At
<1>3. CASE Unlock(t)
  BY <1>3, HandOver, Zenon DEF Unlock, At, Runs
<1>4. CASE WaitReleases(t)
  BY <1>4, HandOver, Zenon DEF WaitReleases, At, Runs
<1>5. CASE UnlockPanics(t)
  <2>1. Moved
    BY <1>5, GoesOnAlone, Zenon DEF UnlockPanics, Panics, mutexVars, rwVars, groupVars
  <2>2. QED
    BY <1>5, <2>1, MutexFrame, Zenon DEF UnlockPanics
<1>6. CASE WaitSignaled(t)
  BY <1>6, WaitSignaledInv
<1>7. CASE WaitBlocks(t)
  BY <1>7, WaitBlocksInv
<1>8. cblocked \in Seq(Task) /\ Distinct(cblocked) /\ runqueue \in Seq(Task)
  BY DEF PlaceInv, List, ListPlaces
<1>9. unlocking \in Seq(Task) /\ Distinct(unlocking) /\ signaled \subseteq Task
  BY DEF MutexInv
<1>10. CASE Signal(t)
  <2>1. UNCHANGED <<locked, mblocked, mstage, current, done>>
    BY <1>10 DEF Signal, GoesOn
  <2>2. CASE /\ cblocked # << >> /\ cblocked' = Tail(cblocked)
             /\ GoesOn(<<Head(cblocked)>>) /\ UNCHANGED <<unlocking, signaled>>
    <3> DEFINE woken == <<Head(cblocked)>>
               M == {}
    <3>1. /\ Head(cblocked) \in Task /\ In(Head(cblocked), cblocked)
          /\ cblocked' \in Seq(Task) /\ Distinct(cblocked')
          /\ \A u : In(u, cblocked') <=> In(u, cblocked) /\ u # Head(cblocked)
      BY <1>8, <2>2, ListPop
    <3>2. woken \in Seq(Task) /\ Distinct(woken) /\ \A u : In(u, woken) <=> u = Head(cblocked)
      BY <3>1, ListOne
    <3>3. runqueue' = runqueue \o woken /\ signaled' = signaled \cup M /\ unlocking' = unlocking
      BY <2>2 DEF GoesOn
    <3>4. \A u \in Task : /\ In(u, woken) => In(u, cblocked)
                          /\ In(u, cblocked') <=> In(u, cblocked) /\ ~In(u, woken)
      BY <3>1, <3>2
    <3>5. \A u \in Task : /\ u \in M => In(u, unlocking)
                          /\ In(u, unlocking') <=> In(u, unlocking) /\ u \notin M
      BY <3>3
    <3>6. M \subseteq Task /\ unlocking' \in Seq(Task) /\ Distinct(unlocking')
      BY <1>9, <3>3
    <3> HIDE DEF woken, M
    <3>7. QED
      BY <2>1, <3>1, <3>2, <3>3, <3>4, <3>5, <3>6, SignalInv, Zenon
  <2>3. CASE /\ cblocked = << >> /\ unlocking # << >> /\ signaled' = signaled \cup {Head(unlocking)}
             /\ unlocking' = Tail(unlocking) /\ GoesOn(<< >>) /\ UNCHANGED cblocked
    <3> DEFINE woken == << >>
               M == {Head(unlocking)}
    <3>1. /\ Head(unlocking) \in Task /\ In(Head(unlocking), unlocking)
          /\ unlocking' \in Seq(Task) /\ Distinct(unlocking')
          /\ \A u : In(u, unlocking') <=> In(u, unlocking) /\ u # Head(unlocking)
      BY <1>9, <2>3, ListPop
    <3>2. runqueue' = runqueue \o woken /\ signaled' = signaled \cup M /\ cblocked' = cblocked
      BY <2>3 DEF GoesOn
    <3>3. M \subseteq Task
          /\ \A u \in Task : /\ u \in M => In(u, unlocking)
                             /\ In(u, unlocking') <=> In(u, unlocking) /\ u \notin M
      BY <3>1
    <3>4. woken \in Seq(Task) /\ Distinct(woken) /\ \A u : ~In(u, woken)
      BY ListEmpty
    <3> HIDE DEF woken, M
    <3>5. \A u \in Task : /\ In(u, woken) => In(u, cblocked)
                          /\ In(u, cblocked') <=> In(u, cblocked) /\ ~In(u, woken)
      BY <3>2, <3>4
    <3>6. cblocked' \in Seq(Task) /\ Distinct(cblocked')
      BY <1>8, <3>2
    <3>7. QED
      BY <2>1, <3>1, <3>2, <3>3, <3>4, <3>5, <3>6, SignalInv, Zenon
  <2>4. CASE GoesOn(<< >>) /\ UNCHANGED <<unlocking, signaled, cblocked>>
    <3>1. Moved /\ UNCHANGED mutexVars
      BY <2>1, <2>4, GoesOnAlone DEF GoesOn, mutexVars, rwVars, groupVars
    <3>2. QED
      BY <3>1, MutexFrame
  <2>5. QED
    BY <1>10, <2>2, <2>3, <2>4 DEF Signal
<1>11. CASE Broadcast(t)
  <2>1. /\ UNCHANGED <<locked, mblocked, mstage, current, done>>
        /\ runqueue' = runqueue \o cblocked /\ cblocked' = << >> /\ unlocking' = << >>
        /\ signaled' = signaled \cup Range(unlocking)
    BY <1>11 DEF Broadcast, GoesOn
  <2>2. << >> \in Seq(Task) /\ Distinct(<< >>) /\ \A u : ~In(u, << >>)
    BY ListEmpty
  <2>3. Range(unlocking) \subseteq Task /\ \A u : u \in Range(unlocking) <=> In(u, unlocking)
    BY <1>9 DEF Range, In
  <2>4. \A u \in Task : /\ In(u, cblocked) => In(u, cblocked)
                        /\ In(u, cblocked') <=> In(u, cblocked) /\ ~In(u, cblocked)
    BY <2>1, <2>2
  <2>5. \A u \in Task : /\ u \in Range(unlocking) => In(u, unlocking)
                        /\ In(u, unlocking') <=> In(u, unlocking) /\ u \notin Range(unlocking)
    BY <2>1, <2>2, <2>3
  <2>6. /\ cblocked' \in Seq(Task) /\ Distinct(cblocked')
        /\ unlocking' \in Seq(Task) /\ Distinct(unlocking')
    BY <2>1, <2>2
  <2>7. QED
    BY <1>8, <2>1, <2>3, <2>4, <2>5, <2>6, SignalInv, Zenon
<1>12. QED
  BY <1>1, <1>2, <1>3, <1>4, <1>5, <1>6, <1>7, <1>10, <1>11 DEF MutexCalls

(* The scheduler resumes a task.                                           *)
LEMMA Scheduled ==
  ASSUME PlaceInv, Schedule, UNCHANGED parked
  PROVE  /\ PlaceInv'
         /\ \E h \in Task : /\ Is(h, "run") /\ current' = h
                            /\ \A u \in Task, p \in ListPlaces : Is(u, p)' <=> u # h /\ Is(u, p)
<1>1. /\ current = NoTask /\ List("run") # << >> /\ current' = Head(List("run"))
      /\ List("run")' = Tail(List("run")) /\ UNCHANGED <<done, parked>>
      /\ \A p \in ListPlaces : p # "run" => List(p)' = List(p)
  BY Zenon DEF Schedule, RunNext, InLoop, MutexResumes, RWResumes, groupVars, List, ListPlaces
<1>2. /\ Head(List("run")) \in Task /\ Is(Head(List("run")), "run")
      /\ Sends({Head(List("run"))}, "current")
  BY <1>1, Runs1
<1>3. PlaceInv'
  BY <1>2, SendsInv, PlaceNames
<1>4. \A u \in Task, p \in ListPlaces : Is(u, p)' <=> u # Head(List("run")) /\ Is(u, p)
  BY <1>2, PlaceNames DEF Sends
<1>5. QED
  BY <1>1, <1>2, <1>3, <1>4

(* A task resumed in Lock has the lock, one resumed in Wait takes it.      *)
LEMMA ScheduleMutex ==
  ASSUME PlaceInv, MutexInv, Schedule, UNCHANGED parked
  PROVE  MutexInv'
<1>1. PICK h \in Task : /\ Is(h, "run") /\ current' = h
                        /\ \A u \in Task, p \in ListPlaces : Is(u, p)' <=> u # h /\ Is(u, p)
  BY Scheduled
<1>2. ~Is(h, "mutex") /\ ~Is(h, "cond")
  BY <1>1, OnlyPlace DEF Places, ListPlaces
<1>3. \A u \in Task : /\ Is(u, "mutex")' <=> Is(u, "mutex")
                      /\ Is(u, "cond")' <=> Is(u, "cond")
                      /\ Is(u, "run")' <=> u # h /\ Is(u, "run")
  BY <1>1, <1>2 DEF ListPlaces
<1>4. /\ UNCHANGED <<locked, unlocking, signaled>>
      /\ mstage' = [mstage EXCEPT ![h] = IF @ = "locking" THEN "critical"
                                         ELSE IF @ = "waiting" THEN "relock" ELSE @]
  BY <1>1 DEF Schedule, MutexResumes
<1>5. /\ mstage' \in [Task -> MutexStages]
      /\ \A u \in Task : mstage'[u] = IF u = h /\ mstage[u] = "locking" THEN "critical"
                                      ELSE IF u = h /\ mstage[u] = "waiting" THEN "relock"
                                      ELSE mstage[u]
  BY <1>4 DEF MutexInv, MutexStages
<1>6. \A u \in Task : Has(u)' <=> Has(u)
  BY <1>2, <1>3, <1>5 DEF Has
<1>7. QED
  BY <1>2, <1>3, <1>4, <1>5, <1>6, Zenon DEF MutexInv

-----------------------------------------------------------------------------
(* The readers-writer lock.                                                *)

(* Where a task is in its calls of the lock.                               *)
RWStages == {"work", "reading", "writing", "rlocking", "wlocking"}

(* t has the lock for reading, or has been given it and not run since.     *)
Reads(t) == rwstage[t] = "reading" \/ (rwstage[t] = "rlocking" /\ ~Is(t, "readers"))

(* t has the lock for writing, or has been handed it and not run since.    *)
Writes(t) == rwstage[t] = "writing" \/ (rwstage[t] = "wlocking" /\ ~Is(t, "writers"))

(* All who read.                                                           *)
Reading == {t \in Task : Reads(t)}

(* A task in the middle of RLock or Lock is where the call left it; who    *)
(* waits has a reason; state says who has the lock.                        *)
RWInv ==
  /\ rwstage \in [Task -> RWStages]
  /\ \A t \in Task :
       /\ Is(t, "readers") => rwstage[t] = "rlocking" /\ \E u \in Task : Writes(u)
       /\ rwstage[t] = "rlocking" => Is(t, "readers") \/ Is(t, "run")
       /\ Is(t, "writers") => rwstage[t] = "wlocking" /\ \E u \in Task : Writes(u) \/ Reads(u)
       /\ rwstage[t] = "wlocking" => Is(t, "writers") \/ Is(t, "run")
       /\ Writes(t) => state = WLocked
  /\ \A t, u \in Task : Writes(t) => ~Reads(u) /\ (Writes(u) => t = u)
  /\ (\A t \in Task : ~Writes(t)) => state = Cardinality(Reading)
  /\ Cardinality(Reading) <= MaxReaders

(* The readers can be counted.                                             *)
LEMMA ReadingFinite ==
  ASSUME Counting
  PROVE  /\ Reading \in SUBSET Task /\ Cardinality(Reading) \in Nat
         /\ Cardinality(Reading) = 0 <=> Reading = {}
         /\ MaxReaders \in Nat /\ MaxReaders > 0
<1>1. Reading \in SUBSET Task
  BY DEF Reading
<1>2. QED
  BY <1>1, RWAssumption DEF Counting

(* There are none in the empty set.                                        *)
LEMMA EmptyCount ==
  ASSUME Counting
  PROVE  Cardinality({}) = 0
  BY DEF Counting

(* The task that runs is not waiting for the lock.                         *)
LEMMA RunsOutsideRW ==
  ASSUME PlaceInv, RWInv, NEW t \in Task, current = t
  PROVE  /\ ~Is(t, "readers") /\ ~Is(t, "writers") /\ ~Is(t, "run")
         /\ rwstage[t] \notin {"rlocking", "wlocking"}
<1>1. ~Is(t, "readers") /\ ~Is(t, "writers") /\ ~Is(t, "run")
  BY RunsOutside DEF ListPlaces
<1>2. QED
  BY <1>1 DEF RWInv

(* Steps that do not touch the lock.                                       *)
LEMMA RWFrame ==
  ASSUME RWInv, Moved, UNCHANGED rwVars
  PROVE  RWInv'
<1>1. \A t : (Is(t, "readers")' <=> Is(t, "readers")) /\ (Is(t, "writers")' <=> Is(t, "writers"))
  BY DEF rwVars, Is, List, ListPlaces
<1>2. \A t \in Task : (Reads(t)' <=> Reads(t)) /\ (Writes(t)' <=> Writes(t))
  BY <1>1 DEF Reads, Writes, rwVars
<1>3. Reading' = Reading
  BY <1>2 DEF Reading
<1>4. QED
  BY <1>1, <1>2, <1>3 DEF RWInv, Moved, rwVars, WLocked

(* RLock and Lock pause.                                                   *)
LEMMA RWBlocks ==
  ASSUME Counting, PlaceInv, RWInv, NEW t \in Task, current = t, PausesTask, rwstage[t] = "work",
         \/ /\ state = WLocked /\ waitingReaders' = <<t>> \o waitingReaders
            /\ RWTo(t, "rlocking") /\ UNCHANGED waitingWriters
         \/ /\ state # Unlocked /\ waitingWriters' = <<t>> \o waitingWriters
            /\ RWTo(t, "wlocking") /\ UNCHANGED waitingReaders,
         UNCHANGED <<state, mutexVars, groupVars, parked>>
  PROVE  Moved /\ RWInv'
<1>1. PICK p \in {"readers", "writers"}, s \in {"rlocking", "wlocking"} :
        /\ List(p)' = <<t>> \o List(p) /\ rwstage' = [rwstage EXCEPT ![t] = s]
        /\ \A q \in ListPlaces : q # p => List(q)' = List(q)
        /\ p = "readers" => s = "rlocking" /\ state = WLocked
        /\ p = "writers" => s = "wlocking" /\ state # 0
  <2>1. CASE /\ state = WLocked /\ waitingReaders' = <<t>> \o waitingReaders
             /\ RWTo(t, "rlocking") /\ UNCHANGED waitingWriters
    <3>1. /\ List("readers")' = <<t>> \o List("readers") /\ rwstage' = [rwstage EXCEPT ![t] = "rlocking"]
          /\ \A q \in ListPlaces : q # "readers" => List(q)' = List(q)
      BY <2>1 DEF PausesTask, List, ListPlaces, RWTo, mutexVars, groupVars
    <3>2. QED
      BY <2>1, <3>1
  <2>2. CASE /\ state # Unlocked /\ waitingWriters' = <<t>> \o waitingWriters
             /\ RWTo(t, "wlocking") /\ UNCHANGED waitingReaders
    <3>1. /\ List("writers")' = <<t>> \o List("writers") /\ rwstage' = [rwstage EXCEPT ![t] = "wlocking"]
          /\ \A q \in ListPlaces : q # "writers" => List(q)' = List(q)
      BY <2>2 DEF PausesTask, List, ListPlaces, RWTo, mutexVars, groupVars
    <3>2. QED
      BY <2>2, <3>1 DEF Unlocked
  <2>3. QED
    BY <2>1, <2>2
<1>2. p \in ListPlaces /\ p \in Places /\ current' = NoTask /\ UNCHANGED <<done, parked>>
  BY DEF PausesTask, ListPlaces, Places
<1>3. Sends({t}, p)
  BY <1>1, <1>2, Pauses
<1>4. Moved
  BY <1>2, <1>3, MovedIf
<1>5. \A u \in Task : /\ Is(u, "readers")' <=> IF u = t THEN p = "readers" ELSE Is(u, "readers")
                      /\ Is(u, "writers")' <=> IF u = t THEN p = "writers" ELSE Is(u, "writers")
                      /\ Is(u, "run")' <=> u # t /\ Is(u, "run")
  BY <1>2, <1>3, SendsMutex
<1>6. ~Is(t, "readers") /\ ~Is(t, "writers") /\ ~Is(t, "run")
  BY RunsOutsideRW
<1>7. rwstage' \in [Task -> RWStages] /\ \A u \in Task : rwstage'[u] = IF u = t THEN s ELSE rwstage[u]
  BY <1>1 DEF RWInv, RWStages
<1>8. \A u \in Task : (Reads(u)' <=> Reads(u)) /\ (Writes(u)' <=> Writes(u))
  BY <1>1, <1>5, <1>6, <1>7 DEF Reads, Writes
<1>9. Reading' = Reading
  BY <1>8 DEF Reading
<1>10. /\ p = "readers" => \E u \in Task : Writes(u)
       /\ p = "writers" => \E u \in Task : Writes(u) \/ Reads(u)
  <2>1. (\A u \in Task : ~Writes(u)) => state = Cardinality(Reading) /\ state <= MaxReaders
    BY DEF RWInv
  <2>2. Reading # {} => \E u \in Task : Reads(u)
    BY DEF Reading
  <2>3. QED
    BY <1>1, <2>1, <2>2, ReadingFinite DEF WLocked
<1>11. RWInv'
  BY <1>1, <1>5, <1>6, <1>7, <1>8, <1>9, <1>10, Zenon DEF RWInv, WLocked
<1>12. QED
  BY <1>4, <1>11

(* A reader enters a lock that no writer has.                              *)
LEMMA RLockSucceedsInv ==
  ASSUME Counting, PlaceInv, RWInv, NEW t \in Task, RLockSucceeds(t), UNCHANGED <<mutexVars, groupVars, parked>>
  PROVE  Moved /\ RWInv'
<1>1. /\ current = t /\ rwstage[t] = "work" /\ state # WLocked /\ state # MaxReaders /\ state' = state + 1
      /\ rwstage' = [rwstage EXCEPT ![t] = "reading"]
  BY Zenon DEF RLockSucceeds, RWAt, RWTo, Runs
<1>2. Moved /\ \A u \in Task, p \in ListPlaces : Is(u, p)' <=> Is(u, p)
  BY GoesOnAlone DEF RLockSucceeds, GoesOn, mutexVars, groupVars
<1>3. \A u \in Task : /\ Is(u, "readers")' <=> Is(u, "readers")
                      /\ Is(u, "writers")' <=> Is(u, "writers")
                      /\ Is(u, "run")' <=> Is(u, "run")
  BY <1>2 DEF ListPlaces
<1>4. rwstage' \in [Task -> RWStages] /\ \A u \in Task : rwstage'[u] = IF u = t THEN "reading" ELSE rwstage[u]
  BY <1>1 DEF RWInv, RWStages
<1>5. \A u \in Task : ~Writes(u)
  BY <1>1 DEF RWInv
<1>6. \A u \in Task : (Reads(u)' <=> u = t \/ Reads(u)) /\ ~Writes(u)'
  BY <1>1, <1>3, <1>4, <1>5 DEF Reads, Writes
<1>7. Reading' = Reading \cup {t} /\ t \notin Reading
  BY <1>1, <1>6 DEF Reading, Reads
<1>8. Cardinality(Reading') = Cardinality(Reading) + 1
  <2>1. Reading \in SUBSET Task
    BY ReadingFinite
  <2>2. Cardinality(Reading \cup {t}) = Cardinality(Reading) + 1
    BY <1>7, <2>1 DEF Counting
  <2>3. QED
    BY <1>7, <2>2
<1>9. state = Cardinality(Reading) /\ Cardinality(Reading) <= MaxReaders
  BY <1>5 DEF RWInv
<1>10. state' = Cardinality(Reading') /\ Cardinality(Reading') <= MaxReaders
  BY <1>1, <1>8, <1>9, ReadingFinite
<1>11. \A u \in Task : ~Is(u, "readers")
  BY <1>5 DEF RWInv
<1>12. RWInv'
  BY <1>1, <1>3, <1>4, <1>6, <1>10, <1>11, Zenon DEF RWInv
<1>13. QED
  BY <1>2, <1>12

(* A writer takes a free lock.                                             *)
LEMMA WLockSucceedsInv ==
  ASSUME Counting, PlaceInv, RWInv, NEW t \in Task, current = t, rwstage[t] = "work",
         state = Unlocked, state' = WLocked, GoesOn(<< >>), RWTo(t, "writing"),
         UNCHANGED <<waitingReaders, waitingWriters, mutexVars, groupVars, parked>>
  PROVE  Moved /\ RWInv'
<1>1. Moved /\ \A u \in Task, p \in ListPlaces : Is(u, p)' <=> Is(u, p)
  BY GoesOnAlone DEF GoesOn, mutexVars, groupVars
<1>2. \A u \in Task : /\ Is(u, "readers")' <=> Is(u, "readers")
                      /\ Is(u, "writers")' <=> Is(u, "writers")
                      /\ Is(u, "run")' <=> Is(u, "run")
  BY <1>1 DEF ListPlaces
<1>3. rwstage' \in [Task -> RWStages] /\ \A u \in Task : rwstage'[u] = IF u = t THEN "writing" ELSE rwstage[u]
  BY DEF RWInv, RWStages, RWTo
<1>4. \A u \in Task : ~Writes(u)
  BY ReadingFinite DEF RWInv, Unlocked, WLocked
<1>5. Reading = {}
  BY <1>4, ReadingFinite DEF RWInv, Unlocked
<1>6. \A u \in Task : ~Reads(u) /\ ~Is(u, "readers") /\ ~Is(u, "writers")
  BY <1>4, <1>5 DEF Reading, RWInv
<1>7. \A u \in Task : ~Reads(u)' /\ (Writes(u)' <=> u = t)
  BY <1>2, <1>3, <1>4, <1>6 DEF Reads, Writes
<1>8. Reading' = {}
  BY <1>7 DEF Reading
<1>9. Cardinality(Reading') <= MaxReaders
  BY <1>8, EmptyCount, ReadingFinite
<1>10. RWInv'
  BY <1>2, <1>3, <1>6, <1>7, <1>9 DEF RWInv, WLocked
<1>11. QED
  BY <1>1, <1>10

(* The last to have the lock leaves: a writer gets it, or nobody.          *)
LEMMA LastOut ==
  ASSUME Counting, PlaceInv, RWInv, NEW t \in Task, current = t, rwstage[t] \in {"reading", "writing"},
         \A u \in Task : (Reads(u) \/ Writes(u) => u = t) /\ ~Is(u, "readers"),
         UnblockWriter \/ NoWriter, RWTo(t, "work"),
         UNCHANGED <<mutexVars, groupVars, parked>>
  PROVE  Moved /\ RWInv'
<1>1. rwstage' \in [Task -> RWStages] /\ \A u \in Task : rwstage'[u] = IF u = t THEN "work" ELSE rwstage[u]
  BY DEF RWInv, RWStages, RWTo
<1>2. ~Is(t, "readers") /\ ~Is(t, "writers") /\ ~Is(t, "run")
  BY RunsOutsideRW
<1>3. waitingWriters \in Seq(Task) /\ Distinct(waitingWriters)
  BY DEF PlaceInv, List, ListPlaces
<1>4. CASE NoWriter
  <2>1. Moved /\ \A u \in Task, p \in ListPlaces : Is(u, p)' <=> Is(u, p)
    BY <1>4, GoesOnAlone DEF NoWriter, GoesOn, mutexVars, groupVars
  <2>2. \A u \in Task : /\ Is(u, "readers")' <=> Is(u, "readers")
                        /\ Is(u, "writers")' <=> Is(u, "writers")
                        /\ Is(u, "run")' <=> Is(u, "run")
    BY <2>1 DEF ListPlaces
  <2>3. \A u \in Task : ~Is(u, "writers")
    BY <1>4, ListEmpty DEF NoWriter, Is, List, ListPlaces
  <2>4. \A u \in Task : ~Reads(u)' /\ ~Writes(u)'
    BY <1>1, <1>2, <2>2 DEF Reads, Writes
  <2>5. Reading' = {}
    BY <2>4 DEF Reading
  <2>6. Cardinality(Reading') = 0 /\ state' = 0
    BY <1>4, <2>5, EmptyCount DEF NoWriter, Unlocked
  <2>7. Cardinality(Reading') <= MaxReaders
    BY <2>6, ReadingFinite, SMTT(30)
  <2>8. RWInv'
    BY <1>1, <2>2, <2>3, <2>4, <2>6, <2>7 DEF RWInv
  <2>9. QED
    BY <2>1, <2>8
<1>5. CASE UnblockWriter
  <2> DEFINE h == Head(waitingWriters)
             woken == <<h>>
  <2>1. /\ waitingWriters # << >> /\ state' = WLocked /\ waitingWriters' = Tail(waitingWriters)
        /\ runqueue' = runqueue \o woken /\ current' = current
        /\ UNCHANGED <<done, waitingReaders>>
    BY <1>5 DEF UnblockWriter, GoesOn
  <2>2. /\ h \in Task /\ In(h, waitingWriters)
        /\ waitingWriters' \in Seq(Task) /\ Distinct(waitingWriters')
        /\ \A u : In(u, waitingWriters') <=> In(u, waitingWriters) /\ u # h
    BY <1>3, <2>1, ListPop
  <2>3. woken \in Seq(Task) /\ Distinct(woken) /\ \A u : In(u, woken) <=> u = h
    BY <2>2, ListOne
  <2> HIDE DEF woken, h
  <2>4. /\ "writers" \in ListPlaces /\ "writers" # "run" /\ "run" \in Places
        /\ List("writers") = waitingWriters /\ List("writers")' = waitingWriters'
        /\ List("run") = runqueue /\ List("run")' = runqueue'
        /\ \A q \in ListPlaces : q # "writers" /\ q # "run" => List(q)' = List(q)
    BY <2>1 DEF List, ListPlaces, Places, mutexVars, groupVars
  <2>5. \A u \in Task : /\ In(u, woken) => In(u, waitingWriters)
                        /\ In(u, waitingWriters') <=> In(u, waitingWriters) /\ ~In(u, woken)
    BY <2>2, <2>3
  <2>6. Sends(All(woken), "run")
    BY <2>1, <2>2, <2>3, <2>4, <2>5, Wakes, ZenonT(30)
  <2>7. Moved
    BY <2>4, <2>6, MovedIf
  <2>8. \A u \in Task : u \in All(woken) <=> u = h
    BY <2>3 DEF All
  <2>9. \A u \in Task : /\ Is(u, "readers")' <=> u # h /\ Is(u, "readers")
                        /\ Is(u, "writers")' <=> u # h /\ Is(u, "writers")
                        /\ Is(u, "run")' <=> u = h \/ Is(u, "run")
    BY <2>4, <2>6, <2>8, SendsMutex
  <2>10. Is(h, "writers") /\ rwstage[h] = "wlocking" /\ h # t /\ h \in Task
    BY <1>2, <2>2, <2>4, IsIn DEF RWInv
  <2>11. \A u \in Task : ~Reads(u)' /\ (Writes(u)' <=> u = h)
    BY <1>1, <2>9, <2>10 DEF Reads, Writes
  <2>12. Reading' = {}
    BY <2>11 DEF Reading
  <2>13. Cardinality(Reading') <= MaxReaders
    BY <2>12, EmptyCount, ReadingFinite, SMTT(30)
  <2>14. RWInv'
    BY <1>1, <2>1, <2>9, <2>10, <2>11, <2>13 DEF RWInv, WLocked
  <2>15. QED
    BY <2>7, <2>14
<1>6. QED
  BY <1>4, <1>5

(* A writer leaves to the readers that wait.                               *)
LEMMA ReadersIn ==
  ASSUME Counting, PlaceInv, RWInv, NEW t \in Task, current = t, rwstage[t] = "writing",
         UnblockReaders, RWTo(t, "work"), UNCHANGED <<mutexVars, groupVars, parked>>
  PROVE  Moved /\ RWInv'
<1> DEFINE woken == waitingReaders
<1>1. /\ woken # << >> /\ state' = Len(woken) /\ waitingReaders' = << >>
      /\ runqueue' = runqueue \o woken /\ current' = current /\ UNCHANGED <<done, waitingWriters>>
  BY DEF UnblockReaders, GoesOn
<1>2. woken \in Seq(Task) /\ Distinct(woken)
  BY DEF PlaceInv, List, ListPlaces
<1>3. rwstage' \in [Task -> RWStages] /\ \A u \in Task : rwstage'[u] = IF u = t THEN "work" ELSE rwstage[u]
  BY DEF RWInv, RWStages, RWTo
<1>4. ~Is(t, "readers") /\ ~Is(t, "writers") /\ ~Is(t, "run")
  BY RunsOutsideRW
<1>5. waitingReaders' \in Seq(Task) /\ Distinct(waitingReaders') /\ \A u : ~In(u, waitingReaders')
  BY <1>1, ListEmpty
<1>6. /\ "readers" \in ListPlaces /\ "readers" # "run" /\ "run" \in Places
      /\ List("readers") = waitingReaders /\ List("readers")' = waitingReaders'
      /\ List("run") = runqueue /\ List("run")' = runqueue'
      /\ \A q \in ListPlaces : q # "readers" /\ q # "run" => List(q)' = List(q)
  BY <1>1 DEF List, ListPlaces, Places, mutexVars, groupVars
<1>7. \A u \in Task : Is(u, "readers") <=> In(u, woken)
  BY <1>6, IsIn
<1>8. Sends(All(woken), "run")
  BY <1>1, <1>2, <1>5, <1>6, Wakes, Zenon
<1>9. Moved
  BY <1>6, <1>8, MovedIf
<1>10. \A u \in Task : /\ ~Is(u, "readers")'
                       /\ Is(u, "writers")' <=> ~Is(u, "readers") /\ Is(u, "writers")
                       /\ Is(u, "run")' <=> Is(u, "readers") \/ Is(u, "run")
  BY <1>6, <1>7, <1>8, SendsMutex DEF All
<1>11. \A u \in Task : (Writes(u) <=> u = t) /\ ~Reads(u)
  BY DEF RWInv, Writes
<1>12. \A u \in Task : /\ Is(u, "readers") => rwstage[u] = "rlocking"
                       /\ Is(u, "writers") => rwstage[u] = "wlocking"
  BY DEF RWInv
<1>13. \A u \in Task : (Reads(u)' <=> Is(u, "readers")) /\ ~Writes(u)'
  BY <1>3, <1>4, <1>10, <1>11, <1>12 DEF Reads, Writes
<1>14. Reading' = All(woken)
  BY <1>7, <1>13 DEF Reading, All
<1>15. Cardinality(Reading') = Len(woken)
  BY <1>2, <1>14 DEF Counting
<1>16. Cardinality(Reading') <= MaxReaders
  <2>1. Reading' \in SUBSET Task /\ t \notin Reading'
    BY <1>4, <1>7, <1>14 DEF All
  <2>2. Cardinality(Reading') < Cardinality(Task) /\ Cardinality(Reading') \in Nat /\ Cardinality(Task) \in Nat
    BY <2>1, Zenon DEF Counting
  <2>3. QED
    BY <2>2, RWAssumption
<1>17. \E u \in Task : Reads(u)'
  BY <1>1, <1>2, <1>7, <1>13, ListEmpty
<1>18. RWInv'
  BY <1>1, <1>3, <1>4, <1>10, <1>12, <1>13, <1>15, <1>16, <1>17 DEF RWInv
<1>19. QED
  BY <1>9, <1>18

(* A reader leaves, and others stay.                                       *)
LEMMA ReaderOut ==
  ASSUME Counting, PlaceInv, RWInv, NEW t \in Task, current = t, rwstage[t] = "reading",
         state # 1, state' = state - 1, GoesOn(<< >>), RWTo(t, "work"),
         UNCHANGED <<waitingReaders, waitingWriters, mutexVars, groupVars, parked>>
  PROVE  Moved /\ RWInv'
<1>1. Moved /\ \A u \in Task, p \in ListPlaces : Is(u, p)' <=> Is(u, p)
  BY GoesOnAlone DEF GoesOn, mutexVars, groupVars
<1>2. \A u \in Task : /\ Is(u, "readers")' <=> Is(u, "readers")
                      /\ Is(u, "writers")' <=> Is(u, "writers")
                      /\ Is(u, "run")' <=> Is(u, "run")
  BY <1>1 DEF ListPlaces
<1>3. rwstage' \in [Task -> RWStages] /\ \A u \in Task : rwstage'[u] = IF u = t THEN "work" ELSE rwstage[u]
  BY DEF RWInv, RWStages, RWTo
<1>4. ~Is(t, "readers") /\ ~Is(t, "writers") /\ ~Is(t, "run")
  BY RunsOutsideRW
<1>5. Reads(t) /\ \A u \in Task : ~Writes(u)
  BY DEF RWInv, Reads
<1>6. \A u \in Task : (Reads(u)' <=> u # t /\ Reads(u)) /\ ~Writes(u)'
  BY <1>2, <1>3, <1>5 DEF Reads, Writes
<1>7. Reading' = Reading \ {t} /\ t \in Reading
  BY <1>5, <1>6 DEF Reading
<1>8. Cardinality(Reading') = Cardinality(Reading) - 1
  <2>1. Reading \in SUBSET Task
    BY ReadingFinite
  <2>2. Cardinality(Reading \ {t}) = Cardinality(Reading) - 1
    BY <1>7, <2>1 DEF Counting
  <2>3. QED
    BY <1>7, <2>2
<1>9. state = Cardinality(Reading) /\ Cardinality(Reading) <= MaxReaders /\ Cardinality(Reading) # 0
  BY <1>5, <1>7, ReadingFinite DEF RWInv
<1>10. state' = Cardinality(Reading') /\ Cardinality(Reading') <= MaxReaders /\ Cardinality(Reading') # 0
  BY <1>8, <1>9, ReadingFinite
<1>11. \E u \in Task : Reads(u)'
  <2>1. Reading' # {}
    BY <1>10, EmptyCount, SMTT(30)
  <2>2. QED
    BY <2>1 DEF Reading
<1>12. \A u \in Task : ~Is(u, "readers")
  BY <1>5 DEF RWInv
<1>13. RWInv'
  BY <1>2, <1>3, <1>4, <1>6, <1>10, <1>11, <1>12 DEF RWInv
<1>14. QED
  BY <1>1, <1>13

(* The steps of the readers-writer lock.                                   *)
LEMMA RWCallsInv ==
  ASSUME Counting, PlaceInv, RWInv, NEW t \in Task, RWCalls(t), UNCHANGED <<mutexVars, groupVars, parked>>
  PROVE  Moved /\ RWInv'
<1>1. CASE RLockTooMany(t) \/ UnlockMisused(t)
  <2>1. Moved /\ UNCHANGED rwVars
    BY <1>1, GoesOnAlone, Zenon DEF RLockTooMany, UnlockMisused, Panics, mutexVars, rwVars, groupVars
  <2>2. QED
    BY <2>1, RWFrame
<1>2. CASE RLockBlocks(t)
  BY <1>2, RWBlocks, Zenon DEF RLockBlocks, RWAt, Runs
<1>3. CASE RLockSucceeds(t)
  BY <1>3, RLockSucceedsInv
<1>4. CASE WLock(t)
  BY <1>4, RWBlocks, WLockSucceedsInv, Zenon DEF WLock, RWAt, Runs
<1>5. CASE WUnlock(t)
  <2>1. current = t /\ rwstage[t] = "writing" /\ RWTo(t, "work")
    BY <1>5, Zenon DEF WUnlock, RWAt, Runs
  <2>2. CASE UnblockReaders
    BY <2>1, <2>2, ReadersIn
  <2>3. CASE waitingReaders = << >> /\ (UnblockWriter \/ NoWriter)
    <3>1. \A u \in Task : ~Is(u, "readers")
      BY <2>3, ListEmpty DEF Is, List, ListPlaces
    <3>2. \A u \in Task : Reads(u) \/ Writes(u) => u = t
      BY <2>1 DEF RWInv, Writes
    <3>3. QED
      BY <2>1, <2>3, <3>1, <3>2, LastOut
  <2>4. QED
    BY <1>5, <2>2, <2>3 DEF WUnlock
<1>6. CASE RUnlock(t)
  <2>1. current = t /\ rwstage[t] = "reading" /\ RWTo(t, "work") /\ Reads(t)
    BY <1>6, Zenon DEF RUnlock, RWAt, Runs, Reads
  <2>2. \A u \in Task : ~Writes(u) /\ ~Is(u, "readers")
    BY <2>1 DEF RWInv
  <2>3. CASE state = 1 /\ (UnblockWriter \/ NoWriter)
    <3>1. Cardinality(Reading) = 1 /\ t \in Reading
      BY <2>1, <2>2, <2>3 DEF RWInv, Reading
    <3>2. Reading = {t}
      BY <3>1, ReadingFinite, Zenon DEF Counting
    <3>3. \A v \in Task : Reads(v) => v = t
      BY <3>2 DEF Reading
    <3>4. QED
      BY <2>1, <2>2, <2>3, <3>3, LastOut
  <2>4. CASE /\ state # 1 /\ state' = state - 1 /\ GoesOn(<< >>)
             /\ UNCHANGED <<waitingWriters, waitingReaders>>
    BY <2>1, <2>4, ReaderOut
  <2>5. QED
    BY <1>6, <2>3, <2>4 DEF RUnlock
<1>7. QED
  BY <1>1, <1>2, <1>3, <1>4, <1>5, <1>6 DEF RWCalls

(* A task resumed in RLock or Lock has the lock.                           *)
LEMMA ScheduleRW ==
  ASSUME PlaceInv, RWInv, Schedule, UNCHANGED parked
  PROVE  RWInv'
<1>1. PICK h \in Task : /\ Is(h, "run") /\ current' = h
                        /\ \A u \in Task, p \in ListPlaces : Is(u, p)' <=> u # h /\ Is(u, p)
  BY Scheduled
<1>2. ~Is(h, "readers") /\ ~Is(h, "writers")
  BY <1>1, OnlyPlace DEF Places, ListPlaces
<1>3. \A u \in Task : /\ Is(u, "readers")' <=> Is(u, "readers")
                      /\ Is(u, "writers")' <=> Is(u, "writers")
                      /\ Is(u, "run")' <=> u # h /\ Is(u, "run")
  BY <1>1, <1>2 DEF ListPlaces
<1>4. /\ state' = state
      /\ rwstage' = [rwstage EXCEPT ![h] = IF @ = "rlocking" THEN "reading"
                                           ELSE IF @ = "wlocking" THEN "writing" ELSE @]
  BY <1>1 DEF Schedule, RWResumes
<1>5. /\ rwstage' \in [Task -> RWStages]
      /\ \A u \in Task : rwstage'[u] = IF u = h /\ rwstage[u] = "rlocking" THEN "reading"
                                       ELSE IF u = h /\ rwstage[u] = "wlocking" THEN "writing"
                                       ELSE rwstage[u]
  BY <1>4 DEF RWInv, RWStages
<1>6. \A u \in Task : (Reads(u)' <=> Reads(u)) /\ (Writes(u)' <=> Writes(u))
  BY <1>2, <1>3, <1>5 DEF Reads, Writes
<1>7. Reading' = Reading
  BY <1>6 DEF Reading
<1>8. QED
  BY <1>2, <1>3, <1>4, <1>5, <1>6, <1>7, Zenon DEF RWInv, WLocked

-----------------------------------------------------------------------------
(* The group.                                                              *)

(* Nobody waits at zero, and the counter has not wrapped.                  *)
GroupInv ==
  /\ counter \in 0 .. MaxCounter
  /\ \A t \in Task : Is(t, "group") => counter # 0

(* Steps that do not touch the group.                                      *)
LEMMA GroupFrame ==
  ASSUME GroupInv, UNCHANGED groupVars
  PROVE  GroupInv'
<1>1. \A t : Is(t, "group")' <=> Is(t, "group")
  BY DEF groupVars, Is, List, ListPlaces
<1>2. QED
  BY <1>1 DEF GroupInv, groupVars

(* The steps of the group.                                                 *)
LEMMA GroupCallsInv ==
  ASSUME PlaceInv, GroupInv, NEW t \in Task, GroupCalls(t), UNCHANGED <<mutexVars, rwVars, parked>>
  PROVE  Moved /\ GroupInv'
<1>1. counter \in Nat /\ counter <= MaxCounter /\ MaxCounter \in Nat
  BY WaitGroupAssumption DEF GroupInv
<1>2. waiters \in Seq(Task) /\ Distinct(waiters)
  BY DEF PlaceInv, List, ListPlaces
<1>3. CASE Wait(t)
  <2>1. current = t /\ counter' = counter
    BY <1>3, Zenon DEF Wait, Calls, Runs
  <2>2. CASE counter = 0 /\ GoesOn(<< >>) /\ UNCHANGED waiters
    <3>1. Moved
      BY <2>2, GoesOnAlone DEF GoesOn, mutexVars, rwVars
    <3>2. QED
      BY <2>1, <2>2, <3>1, GroupFrame DEF groupVars
  <2>3. CASE counter # 0 /\ waiters' = <<t>> \o waiters /\ PausesTask
    <3>1. /\ current' = NoTask /\ List("group")' = <<t>> \o List("group")
          /\ \A q \in ListPlaces : q # "group" => List(q)' = List(q)
          /\ UNCHANGED <<done, parked>> /\ "group" \in ListPlaces /\ "group" \in Places
      BY <2>3 DEF PausesTask, List, ListPlaces, Places, mutexVars, rwVars
    <3>2. Sends({t}, "group")
      BY <2>1, <3>1, Pauses
    <3>3. Moved
      BY <2>1, <3>1, <3>2, MovedIf
    <3>4. QED
      BY <2>1, <2>3, <3>3 DEF GroupInv
  <2>4. QED
    BY <1>3, <2>2, <2>3 DEF Wait
<1>4. ASSUME NEW delta \in Deltas, AddOverflows(t, delta) \/ SubtractUnderflows(t, delta)
      PROVE  Moved /\ GroupInv'
  <2>1. Moved /\ UNCHANGED groupVars
    BY <1>4, GoesOnAlone, Zenon DEF AddOverflows, SubtractUnderflows, Panics, mutexVars, rwVars, groupVars
  <2>2. QED
    BY <2>1, GroupFrame
<1>5. ASSUME NEW delta \in Deltas, Add(t, delta)
      PROVE  Moved /\ GroupInv'
  <2>1. Moved
    BY <1>5, GoesOnAlone DEF Add, GoesOn, mutexVars, rwVars
  <2>2. delta \in Int /\ delta > 0 /\ delta <= MaxCounter - counter /\ counter' = counter + delta
    BY <1>5, WaitGroupAssumption DEF Add
  <2>3. counter' \in 0 .. MaxCounter /\ counter' # 0
    BY <1>1, <2>2
  <2>4. QED
    BY <2>1, <2>3 DEF GroupInv
<1>6. ASSUME NEW delta \in Deltas, Subtract(t, delta)
      PROVE  Moved /\ GroupInv'
  <2>1. delta \in Int /\ delta <= 0 /\ -delta <= counter /\ counter' = counter + delta
    BY <1>6, WaitGroupAssumption DEF Subtract
  <2>2. counter' \in 0 .. MaxCounter
    BY <1>1, <2>1
  <2>3. CASE counter' = 0
    <3>1. /\ waiters' = << >> /\ runqueue' = runqueue \o waiters
          /\ UNCHANGED <<current, done>>
      BY <1>6, <2>3 DEF Subtract, GoesOn
    <3>2. waiters' \in Seq(Task) /\ Distinct(waiters') /\ \A u : ~In(u, waiters')
      BY <3>1, ListEmpty
    <3>3. /\ "group" \in ListPlaces /\ "group" # "run" /\ "run" \in Places
          /\ List("group") = waiters /\ List("group")' = waiters'
          /\ List("run") = runqueue /\ List("run")' = runqueue'
          /\ \A q \in ListPlaces : q # "group" /\ q # "run" => List(q)' = List(q)
      BY DEF List, ListPlaces, Places, mutexVars, rwVars
    <3>4. Sends(All(waiters), "run")
      BY <1>2, <3>1, <3>2, <3>3, Wakes, Zenon
    <3>5. Moved
      BY <3>3, <3>4, MovedIf
    <3>6. \A u \in Task : ~Is(u, "group")'
      BY <3>2, <3>3, IsInNext
    <3>7. QED
      BY <2>2, <3>5, <3>6 DEF GroupInv
  <2>4. CASE counter' # 0
    <3>1. Moved
      BY <1>6, <2>4, GoesOnAlone DEF Subtract, GoesOn, mutexVars, rwVars
    <3>2. QED
      BY <2>2, <2>4, <3>1 DEF GroupInv
  <2>5. QED
    BY <2>3, <2>4
<1>7. QED
  BY <1>3, <1>4, <1>5, <1>6 DEF GroupCalls

-----------------------------------------------------------------------------
(* The whole package.                                                      *)

(* The inductive invariant.                                                *)
SyncInv == PlaceInv /\ MutexInv /\ RWInv /\ GroupInv

(* It holds at the start.                                                  *)
LEMMA SyncInvInit ==
  ASSUME Counting, ClientsInit
  PROVE  SyncInv
<1>1. /\ runqueue \in Seq(Task) /\ Distinct(runqueue) /\ done = Task \ Range(runqueue)
      /\ current = NoTask /\ NoTask \notin Task /\ parked = {}
  <2>1. PICK p \in Programs : runqueue = p.tasks
    BY ZenonT(30) DEF ClientsInit, SyncInit, TaskSchedInit
  <2>2. runqueue \in Seq(Task) /\ IsInjective(runqueue) /\ NoTask \notin Task
    BY <2>1, ProgramAssumption
  <2>3. Distinct(runqueue)
    BY <2>2 DEF Distinct, IsInjective
  <2>4. QED
    BY <2>2, <2>3, Zenon DEF ClientsInit, SyncInit, TaskSchedInit
<1>2. /\ mblocked = << >> /\ cblocked = << >> /\ waitingReaders = << >> /\ waitingWriters = << >>
      /\ waiters = << >> /\ unlocking = << >>
  BY DEF ClientsInit, SyncInit, MutexInit, RWInit, GroupInit
<1>3. << >> \in Seq(Task) /\ Distinct(<< >>) /\ \A u : ~In(u, << >>)
  BY ListEmpty
<1>4. /\ List("run") = runqueue
      /\ \A p \in ListPlaces : p # "run" => List(p) = << >>
  BY <1>2 DEF List, ListPlaces
<1>5. \A u : u \in Range(runqueue) <=> In(u, runqueue)
  BY <1>1 DEF Range, In
<1>6. \A t \in Task, p \in Places : Is(t, p) <=> p = (IF In(t, runqueue) THEN "run" ELSE "done")
  <2> SUFFICES ASSUME NEW t \in Task, NEW p \in Places
               PROVE  Is(t, p) <=> p = (IF In(t, runqueue) THEN "run" ELSE "done")
    OBVIOUS
  <2>1. CASE p \in ListPlaces
    BY <1>3, <1>4, <2>1, IsIn, PlaceNames
  <2>2. CASE p \in {"current", "done", "parked"}
    BY <1>1, <1>5, <2>2, IsIn, PlaceNames
  <2>3. QED
    BY <2>1, <2>2, PlaceNames
<1>7. PlaceInv
  <2>1. \A p \in ListPlaces : List(p) \in Seq(Task) /\ Distinct(List(p))
    BY <1>1, <1>3, <1>4, Zenon
  <2>2. \A t \in Task : (IF In(t, runqueue) THEN "run" ELSE "done") \in Places
    BY PlaceNames
  <2>3. QED
    BY <1>1, <1>6, <2>1, <2>2 DEF PlaceInv
<1>8. \A t \in Task : /\ ~Is(t, "mutex") /\ ~Is(t, "cond") /\ ~Is(t, "readers")
                      /\ ~Is(t, "writers") /\ ~Is(t, "group")
  BY <1>6 DEF Places, ListPlaces
<1>9. MutexInv
  <2>1. mstage = [t \in Task |-> "work"] /\ locked = FALSE /\ signaled = {}
    BY DEF ClientsInit, SyncInit, MutexInit
  <2>2. mstage \in [Task -> MutexStages] /\ \A t \in Task : mstage[t] = "work"
    BY <2>1 DEF MutexStages
  <2>3. \A t \in Task : ~Has(t)
    BY <2>2 DEF Has
  <2>4. QED
    BY <1>2, <1>3, <1>8, <2>1, <2>2, <2>3, Zenon DEF MutexInv
<1>10. RWInv
  <2>1. rwstage = [t \in Task |-> "work"] /\ state = 0
    BY DEF ClientsInit, SyncInit, RWInit, Unlocked
  <2>2. rwstage \in [Task -> RWStages] /\ \A t \in Task : rwstage[t] = "work"
    BY <2>1 DEF RWStages
  <2>3. \A t \in Task : ~Reads(t) /\ ~Writes(t)
    BY <2>2 DEF Reads, Writes
  <2>4. Reading = {}
    BY <2>3 DEF Reading
  <2>5. Cardinality(Reading) = 0 /\ Cardinality(Reading) <= MaxReaders
    BY <2>4, ReadingFinite
  <2>6. QED
    BY <1>8, <2>1, <2>2, <2>3, <2>5 DEF RWInv
<1>11. GroupInv
  BY <1>8, WaitGroupAssumption DEF ClientsInit, SyncInit, GroupInit, GroupInv
<1>12. QED
  BY <1>7, <1>9, <1>10, <1>11 DEF SyncInv

(* Steps elsewhere keep it.                                                *)
LEMMA ElsewhereMoves ==
  ASSUME PlaceInv, Elsewhere
  PROVE  Moved /\ UNCHANGED syncVars
<1>1. UNCHANGED <<done, syncVars>>
  BY Zenon DEF Elsewhere
<1>2. \A p \in ListPlaces : p # "run" => List(p)' = List(p)
  BY <1>1 DEF List, ListPlaces, syncVars, mutexVars, rwVars, groupVars
<1>3. List("run") = runqueue /\ List("run")' = runqueue' /\ "run" \in Places /\ "parked" \in Places
  BY DEF List, Places, ListPlaces
<1>4. ASSUME NEW woken \in Wakings(parked), runqueue' = runqueue \o woken,
             parked' = parked \ Range(woken), current' = current
      PROVE  Moved
  <2>1. Sends(All(woken), "run")
    BY <1>1, <1>2, <1>3, <1>4, Unparks
  <2>2. QED
    BY <1>3, <2>1, MovedIf
<1>5. ASSUME current # NoTask, parked' = parked \cup {current}, current' = NoTask, runqueue' = runqueue
      PROVE  Moved
  <2>1. PICK t \in Task : t = current
    BY <1>5 DEF PlaceInv
  <2>2. \A p \in ListPlaces : List(p)' = List(p)
    BY <1>2, <1>3, <1>5
  <2>3. Sends({t}, "parked")
    BY <1>1, <1>5, <2>1, <2>2, Leaves
  <2>4. QED
    BY <1>3, <2>1, <2>3, MovedIf
<1>6. ASSUME UNCHANGED <<runqueue, current, parked>>
      PROVE  Moved
  BY <1>1, <1>6, GoesOnAlone DEF syncVars, mutexVars, rwVars, groupVars
<1>7. QED
  BY <1>1, <1>4, <1>5, <1>6, Zenon DEF Elsewhere

(* A task yields or returns.                                               *)
LEMMA GoschedExitMoves ==
  ASSUME PlaceInv, NEW t \in Task, Gosched(t) \/ Exit(t), UNCHANGED parked
  PROVE  Moved /\ UNCHANGED syncVars
<1>1. UNCHANGED syncVars /\ current = t /\ current' = NoTask
  BY Zenon DEF Gosched, Exit, YieldsTask, EndsTask, Runs
<1>2. \A p \in ListPlaces : p # "run" => List(p)' = List(p)
  BY <1>1 DEF List, ListPlaces, syncVars, mutexVars, rwVars, groupVars
<1>3. /\ List("run") = runqueue /\ List("run")' = runqueue' /\ "run" \in Places /\ "done" \in Places
      /\ "mutex" \in ListPlaces /\ "mutex" # "run"
  BY DEF List, Places, ListPlaces
<1>4. CASE Gosched(t)
  <2> DEFINE woken == << >>
  <2>1. woken \in Seq(Task) /\ Distinct(woken) /\ \A u : ~In(u, woken)
    BY ListEmpty
  <2>2. runqueue' = runqueue \o woken \o <<t>> /\ UNCHANGED <<done, parked>>
    BY <1>4 DEF Gosched, YieldsTask
  <2> HIDE DEF woken
  <2>3. List("mutex") \in Seq(Task) /\ Distinct(List("mutex")) /\ List("mutex")' = List("mutex")
    BY <1>2, <1>3, SMTT(30) DEF PlaceInv
  <2>4. Sends(All(woken) \cup {t}, "run")
    BY <1>1, <1>2, <1>3, <2>1, <2>2, <2>3, Wakes, Zenon
  <2>5. QED
    BY <1>1, <1>3, <2>4, MovedIf
<1>5. CASE Exit(t)
  <2>1. done' = done \cup {t} /\ parked' = parked /\ runqueue' = runqueue
    BY <1>5 DEF Exit, EndsTask
  <2>2. \A p \in ListPlaces : List(p)' = List(p)
    BY <1>2, <1>3, <2>1
  <2>3. Sends({t}, "done")
    BY <1>1, <2>1, <2>2, Leaves
  <2>4. QED
    BY <1>1, <1>3, <2>3, MovedIf
<1>6. QED
  BY <1>4, <1>5

(* Every step keeps it.                                                    *)
LEMMA SyncInvNext ==
  ASSUME Counting, SyncInv, [ClientsNext]_clientVars
  PROVE  SyncInv'
<1>1. PlaceInv /\ MutexInv /\ RWInv /\ GroupInv
  BY DEF SyncInv
<1>2. ASSUME Moved, UNCHANGED syncVars PROVE SyncInv'
  BY <1>1, <1>2, MutexFrame, RWFrame, GroupFrame DEF SyncInv, syncVars, Moved
<1>3. CASE Elsewhere
  BY <1>1, <1>2, <1>3, ElsewhereMoves
<1>4. CASE Schedule /\ UNCHANGED parked
  <2>1. PlaceInv' /\ MutexInv' /\ RWInv'
    BY <1>1, <1>4, Scheduled, ScheduleMutex, ScheduleRW
  <2>2. GroupInv'
    BY <1>1, <1>4, GroupFrame DEF Schedule
  <2>3. QED
    BY <2>1, <2>2 DEF SyncInv
<1>5. ASSUME NEW t \in Task, Gosched(t) \/ Exit(t), UNCHANGED parked PROVE SyncInv'
  BY <1>1, <1>2, <1>5, GoschedExitMoves
<1>6. ASSUME NEW t \in Task, UsesMutex(t), UNCHANGED parked PROVE SyncInv'
  <2>1. Moved /\ MutexInv'
    BY <1>1, <1>6, MutexCallsInv DEF UsesMutex
  <2>2. RWInv' /\ GroupInv'
    BY <1>1, <1>6, <2>1, RWFrame, GroupFrame DEF UsesMutex
  <2>3. QED
    BY <2>1, <2>2 DEF SyncInv, Moved
<1>7. ASSUME NEW t \in Task, UsesRWMutex(t), UNCHANGED parked PROVE SyncInv'
  <2>1. Moved /\ RWInv'
    BY <1>1, <1>7, RWCallsInv DEF UsesRWMutex
  <2>2. MutexInv' /\ GroupInv'
    BY <1>1, <1>7, <2>1, MutexFrame, GroupFrame DEF UsesRWMutex
  <2>3. QED
    BY <2>1, <2>2 DEF SyncInv, Moved
<1>8. ASSUME NEW t \in Task, UsesGroup(t), UNCHANGED parked PROVE SyncInv'
  <2>1. Moved /\ GroupInv'
    BY <1>1, <1>8, GroupCallsInv DEF UsesGroup
  <2>2. MutexInv' /\ RWInv'
    BY <1>1, <1>8, <2>1, MutexFrame, RWFrame DEF UsesGroup
  <2>3. QED
    BY <2>1, <2>2 DEF SyncInv, Moved
<1>9. CASE UNCHANGED clientVars
  <2>1. Moved /\ UNCHANGED syncVars
    BY <1>1, <1>9, GoesOnAlone DEF clientVars, taskVars, syncVars, mutexVars, rwVars, groupVars
  <2>2. QED
    BY <1>2, <2>1
<1>10. QED
  BY <1>3, <1>4, <1>5, <1>6, <1>7, <1>8, <1>9 DEF ClientsNext, SyncStep

-----------------------------------------------------------------------------
(* Only here are finite sets needed: to discharge Counting, and to count   *)
(* the owners of the locks as the properties do.                           *)
FST == INSTANCE FiniteSetTheorems

(* The theorems about finite sets speak of the same sets and numbers.      *)
LEMMA SameCounts ==
  ASSUME NEW S
  PROVE  /\ FST!IsFiniteSet(S) <=> IsFiniteSet(S)
         /\ FST!Cardinality(S) = Cardinality(S)
<1>1. FST!IsFiniteSet(S) <=> IsFiniteSet(S)
  BY Zenon DEF FST!IsFiniteSet, IsFiniteSet
<1>2. FST!Cardinality(S) = Cardinality(S)
  BY Zenon DEF FST!Cardinality, Cardinality
<1>3. QED
  BY <1>1, <1>2, Zenon

(* How often a task is in a list.                                          *)
LEMMA ListTimes ==
  ASSUME NEW s \in Seq(Task), NEW t
  PROVE  /\ Times(t, s) = 0 <=> ~In(t, s)
         /\ Distinct(s) => Times(t, s) = IF In(t, s) THEN 1 ELSE 0
<1> DEFINE S == {n \in 1 .. Len(s) : s[n] = t}
<1>0. Len(s) \in Int /\ 1 \in Int
  OBVIOUS
<1>1. IsFiniteSet(1 .. Len(s)) /\ S \in SUBSET (1 .. Len(s))
  BY <1>0, FST!FS_Interval, SameCounts
<1>2. IsFiniteSet(S)
  BY <1>1, FST!FS_Subset, SameCounts
<1>3. Cardinality(S) = 0 <=> S = {}
  BY <1>2, FST!FS_EmptySet, SameCounts, Zenon
<1>4. ASSUME NEW n \in 1 .. Len(s), s[n] = t, Distinct(s) PROVE Cardinality(S) = 1
  <2>1. S = {n}
    BY <1>4 DEF Distinct
  <2>2. QED
    BY <2>1, FST!FS_Singleton, SameCounts, Zenon
<1>5. QED
  BY <1>3, <1>4 DEF Times, In

(* A list has as many entries as tasks.                                    *)
LEMMA ListCardinality ==
  ASSUME NEW s \in Seq(Task), Distinct(s)
  PROVE  Cardinality(All(s)) = Len(s)
<1> DEFINE T == All(s)
           D == 1 .. Len(s)
<1>1. s \in [D -> T] /\ Len(s) \in Nat
  BY DEF In, All
<1>2. s \in FST!Injection(D, T)
  BY <1>1 DEF FST!Injection, FST!IsInjective, Distinct
<1>3. s \in FST!Surjection(D, T)
  BY <1>1 DEF FST!Surjection, In, All
<1>4. IsFiniteSet(D) /\ Cardinality(D) = Len(s)
  <2>1. Len(s) \in Int /\ 1 \in Int /\ Len(s) = (IF 1 > Len(s) THEN 0 ELSE Len(s) - 1 + 1)
    BY <1>1
  <2>2. QED
    BY <2>1, FST!FS_Interval, SameCounts
<1>5. FST!ExistsBijection(D, T)
  BY <1>2, <1>3 DEF FST!ExistsBijection, FST!Bijection
<1>6. QED
  BY <1>4, <1>5, FST!FS_Bijection, SameCounts

(* Tasks can be counted: there are finitely many.                          *)
LEMMA CountingTasks == Counting
<1>1. ASSUME NEW S \in SUBSET Task
      PROVE  /\ Cardinality(S) \in Nat
             /\ Cardinality(S) = 0 <=> S = {}
             /\ \A t \in Task :
                  /\ t \notin S => /\ Cardinality(S) < Cardinality(Task)
                                   /\ Cardinality(S \cup {t}) = Cardinality(S) + 1
                  /\ t \in S => /\ Cardinality(S \ {t}) = Cardinality(S) - 1
                                /\ Cardinality(S) = 1 => S = {t}
  <2>1. IsFiniteSet(S) /\ IsFiniteSet(Task)
    BY ProgramAssumption, FST!FS_Subset, SameCounts
  <2>2. Cardinality(S) \in Nat /\ (Cardinality(S) = 0 <=> S = {}) /\ Cardinality(Task) \in Nat
    BY <2>1, FST!FS_CardinalityType, SameCounts, FST!FS_EmptySet
  <2>3. ASSUME NEW t \in Task, t \notin S
        PROVE  Cardinality(S) < Cardinality(Task) /\ Cardinality(S \cup {t}) = Cardinality(S) + 1
    <3>1. Cardinality(S \cup {t}) = Cardinality(S) + 1
      BY <2>1, <2>3, FST!FS_AddElement, SameCounts
    <3>2. S \cup {t} \in SUBSET Task
      OBVIOUS
    <3>3. Cardinality(S \cup {t}) <= Cardinality(Task)
      BY <2>1, <3>2, FST!FS_Subset, SameCounts
    <3>4. QED
      BY <2>2, <3>1, <3>3
  <2>4. ASSUME NEW t \in Task, t \in S
        PROVE  Cardinality(S \ {t}) = Cardinality(S) - 1 /\ (Cardinality(S) = 1 => S = {t})
    <3>1. Cardinality(S \ {t}) = Cardinality(S) - 1
      BY <2>1, <2>4, FST!FS_RemoveElement, SameCounts
    <3>2. Cardinality(S) = 1 => \E u : S = {u}
      BY <2>1, FST!FS_Singleton, SameCounts
    <3>3. QED
      BY <2>4, <3>1, <3>2
  <2>5. QED
    BY <2>2, <2>3, <2>4
<1>2. QED
  BY <1>1, ListCardinality, Zenon DEF Counting

(* In every runtime, at any time, a task is in exactly one place, and a    *)
(* task in the middle of a call of the sync package is where the call left *)
(* it, to be scheduled when it has what it waits for.                      *)
THEOREM SyncInvariant == ClientsSpec => []SyncInv
<1>1. ClientsInit => SyncInv
  BY SyncInvInit, CountingTasks
<1>2. SyncInv /\ [ClientsNext]_clientVars => SyncInv'
  BY SyncInvNext, CountingTasks
<1>3. QED
  BY <1>1, <1>2, PTL DEF ClientsSpec

-----------------------------------------------------------------------------
(* What follows.                                                           *)

(* The owners of the locks, as the properties count them.                  *)
LEMMA OwnersAre ==
  ASSUME SyncInv
  PROVE  /\ \A t : t \in Owners <=> t \in Task /\ Has(t)
         /\ \A t : t \in Writers <=> t \in Task /\ Writes(t)
         /\ Readers = Reading
<1>1. /\ mblocked \in Seq(Task) /\ waitingReaders \in Seq(Task) /\ waitingWriters \in Seq(Task)
  BY DEF SyncInv, PlaceInv, List, ListPlaces
<1>2. \A t : /\ Is(t, "mutex") <=> In(t, mblocked)
             /\ Is(t, "readers") <=> In(t, waitingReaders)
             /\ Is(t, "writers") <=> In(t, waitingWriters)
  BY DEF Is, List, ListPlaces
<1>3. \A t : /\ Times(t, mblocked) = 0 <=> ~Is(t, "mutex")
             /\ Times(t, waitingReaders) = 0 <=> ~Is(t, "readers")
             /\ Times(t, waitingWriters) = 0 <=> ~Is(t, "writers")
  BY <1>1, <1>2, ListTimes
<1>4. QED
  BY <1>3 DEF Owners, Writers, Readers, Reading, Has, Writes, Reads

(* A set in which no two tasks differ has one at most.                     *)
LEMMA AtMostOne ==
  ASSUME NEW S, \A t, u \in S : t = u
  PROVE  Cardinality(S) <= 1
<1>1. CASE S = {}
  BY <1>1, FST!FS_EmptySet, SameCounts
<1>2. CASE S # {}
  <2>1. PICK t : S = {t}
    BY <1>2
  <2>2. Cardinality(S) = 1
    BY <2>1, FST!FS_Singleton, SameCounts, Zenon
  <2>3. QED
    BY <2>2
<1>3. QED
  BY <1>1, <1>2

(* Mutual exclusion, for every number of tasks: a Mutex has one owner and  *)
(* an RWMutex one writer or readers that its state counts, also while the  *)
(* lock is on its way to a task that has not been resumed.                 *)
THEOREM LocksAlwaysExclude == ClientsSpec => []LocksExclude
<1>1. SyncInv => LocksExclude
  <2> SUFFICES ASSUME SyncInv PROVE LocksExclude
    OBVIOUS
  <2>1. mblocked # << >> => \E t \in Task : Is(t, "mutex")
    <3>1. mblocked \in Seq(Task)
      BY DEF SyncInv, PlaceInv, List, ListPlaces
    <3>2. mblocked # << >> => \E t \in Task : In(t, mblocked)
      BY <3>1, ListEmpty
    <3>3. QED
      BY <3>2 DEF Is, List, ListPlaces
  <2>2. LockHasOneOwner
    <3>1. Cardinality(Owners) <= 1
      <4>1. \A t, u \in Owners : t = u
        BY OwnersAre DEF SyncInv, MutexInv
      <4>2. QED
        BY <4>1, AtMostOne
    <3>2. locked <=> Owners # {}
      <4>1. locked <=> \E t \in Task : Has(t)
        BY DEF SyncInv, MutexInv
      <4>2. QED
        BY <4>1, OwnersAre
    <3>3. mblocked # << >> => locked
      BY <2>1 DEF SyncInv, MutexInv
    <3>4. QED
      BY <3>1, <3>2, <3>3 DEF LockHasOneOwner
  <2>3. StateCountsOwners
    <3>1. Cardinality(Writers) <= 1
      <4>1. \A t, u \in Writers : t = u
        BY OwnersAre DEF SyncInv, RWInv
      <4>2. QED
        BY <4>1, AtMostOne
    <3>2. Writers # {} => Readers = {}
      BY OwnersAre DEF SyncInv, RWInv, Reading
    <3>3. Cardinality(Readers) # WLocked
      BY OwnersAre, ReadingFinite, CountingTasks DEF SyncInv, RWInv, WLocked
    <3>4. state = IF Writers # {} THEN WLocked ELSE Cardinality(Readers)
      BY OwnersAre DEF SyncInv, RWInv
    <3>5. QED
      BY <3>1, <3>2, <3>3, <3>4 DEF StateCountsOwners
  <2>4. QED
    BY <2>2, <2>3 DEF LocksExclude
<1>2. QED
  BY <1>1, SyncInvariant, PTL

(* Nobody waits for a lock that is free, a reader waits only for a writer, *)
(* and nobody for a group whose counter is zero.                           *)
THEOREM NobodyWaitsForNothing == ClientsSpec => [](WaitersHaveReason /\ NobodyWaitsAtZero)
<1>1. SyncInv => WaitersHaveReason /\ NobodyWaitsAtZero
  <2> SUFFICES ASSUME SyncInv PROVE WaitersHaveReason /\ NobodyWaitsAtZero
    OBVIOUS
  <2>1. /\ waitingReaders \in Seq(Task) /\ waitingWriters \in Seq(Task) /\ waiters \in Seq(Task)
    BY DEF SyncInv, PlaceInv, List, ListPlaces
  <2>2. /\ waitingReaders # << >> => \E t \in Task : In(t, waitingReaders)
        /\ waitingWriters # << >> => \E t \in Task : In(t, waitingWriters)
        /\ waiters # << >> => \E t \in Task : In(t, waiters)
    BY <2>1, ListEmpty
  <2>3. /\ waitingReaders # << >> => \E t \in Task : Is(t, "readers")
        /\ waitingWriters # << >> => \E t \in Task : Is(t, "writers")
        /\ waiters # << >> => \E t \in Task : Is(t, "group")
    BY <2>2 DEF Is, List, ListPlaces
  <2>4. /\ waitingReaders # << >> => \E u \in Task : Writes(u)
        /\ waitingWriters # << >> => \E u \in Task : Writes(u) \/ Reads(u)
    BY <2>3 DEF SyncInv, RWInv
  <2>5. WaitersHaveReason
    BY <2>4, OwnersAre DEF WaitersHaveReason, Reading
  <2>6. NobodyWaitsAtZero
    BY <2>3 DEF SyncInv, GroupInv, NobodyWaitsAtZero
  <2>7. QED
    BY <2>5, <2>6
<1>2. QED
  BY <1>1, SyncInvariant, PTL

(* A task scheduled from a list is on the run queue once.                  *)
LEMMA ScheduledOnce ==
  ASSUME PlaceInv, NEW p \in ListPlaces, p # "run", runqueue' = runqueue \o List(p)
  PROVE  \A t \in Task : In(t, runqueue) \/ In(t, List(p)) => OnRunQueue(t)' = 1
<1>1. /\ List(p) \in Seq(Task) /\ Distinct(List(p)) /\ runqueue \in Seq(Task) /\ Distinct(runqueue)
      /\ List("run") = runqueue
  BY DEF PlaceInv, List, ListPlaces
<1>2. \A u \in Task : ~(In(u, runqueue) /\ In(u, List(p)))
  BY <1>1, OnlyPlace, IsIn, PlaceNames
<1> DEFINE q == runqueue \o List(p)
<1>3. q \in Seq(Task) /\ Distinct(q) /\ \A u : In(u, q) <=> In(u, runqueue) \/ In(u, List(p))
  BY <1>1, <1>2, ListConcat
<1>4. runqueue' = q
  OBVIOUS
<1> HIDE DEF q
<1>5. \A t \in Task : In(t, q) => Times(t, q) = 1
  BY <1>3, ListTimes
<1>6. QED
  BY <1>3, <1>4, <1>5 DEF OnRunQueue

(* Broadcast reaches every task that has begun to Wait, for every number   *)
(* of tasks: those that have paused are scheduled, once, and those that    *)
(* are still unlocking are signaled.                                       *)
THEOREM BroadcastAlwaysReachesAll == ClientsSpec => BroadcastReachesAll
<1> DEFINE Reaches == (\E t \in Task : Broadcast(t)) =>
                        \A t \in Task : /\ mstage[t] = "waiting" => OnRunQueue(t)' = 1
                                        /\ mstage[t] = "released" => t \in signaled'
<1>1. SyncInv => Reaches
  <2> SUFFICES ASSUME SyncInv, NEW b \in Task, Broadcast(b), NEW t \in Task
               PROVE  /\ mstage[t] = "waiting" => OnRunQueue(t)' = 1
                      /\ mstage[t] = "released" => t \in signaled'
    OBVIOUS
  <2>1. /\ runqueue' = runqueue \o List("cond") /\ "cond" \in ListPlaces /\ "cond" # "run"
        /\ signaled' = signaled \cup Range(unlocking)
    BY DEF Broadcast, GoesOn, List, ListPlaces
  <2>2. In(t, runqueue) \/ In(t, List("cond")) => OnRunQueue(t)' = 1
    BY <2>1, ScheduledOnce DEF SyncInv
  <2>3. mstage[t] = "waiting" => In(t, runqueue) \/ In(t, List("cond"))
    BY DEF SyncInv, MutexInv, Is, List, ListPlaces
  <2>4. mstage[t] = "released" => In(t, unlocking) \/ t \in signaled
    BY DEF SyncInv, MutexInv
  <2>5. In(t, unlocking) => t \in Range(unlocking)
    <3>1. unlocking \in Seq(Task)
      BY DEF SyncInv, MutexInv
    <3>2. DOMAIN unlocking = 1 .. Len(unlocking)
      BY <3>1
    <3>3. QED
      BY <3>2, Zenon DEF Range, In
  <2>6. QED
    BY <2>1, <2>2, <2>3, <2>4, <2>5
<1>2. SyncInv => [Reaches]_<<mutexVars, runqueue>>
  BY <1>1
<1>3. QED
  BY <1>2, SyncInvariant, PTL DEF BroadcastReachesAll

(* What a step can do to the group.                                        *)
LEMMA GroupSteps ==
  ASSUME [ClientsNext]_clientVars
  PROVE  UNCHANGED groupVars \/ \E t \in Task : GroupCalls(t)
  BY Zenon DEF ClientsNext, SyncStep, Schedule, Gosched, Exit, UsesMutex, UsesRWMutex, UsesGroup, Elsewhere,
         clientVars, syncVars

(* A waiter of the group is released only by the step that brings the      *)
(* counter to zero, which releases all, and the counter never wraps.       *)
THEOREM AlwaysReleasedAtZero == ClientsSpec => ReleasedOnlyAtZero
<1> DEFINE Rel == /\ \A t \in Task : Times(t, waiters) > Times(t, waiters')
                       => counter' = 0 /\ waiters' = << >> /\ OnRunQueue(t)' = 1
                  /\ counter' < counter => \E t \in Task, d \in Deltas : Subtract(t, d)
<1>1. ASSUME SyncInv, [ClientsNext]_clientVars PROVE Rel
  <2>0. counter \in Nat /\ counter <= MaxCounter /\ MaxCounter \in Nat
    BY <1>1, WaitGroupAssumption DEF SyncInv, GroupInv
  <2>1. waiters \in Seq(Task) /\ Distinct(waiters) /\ PlaceInv
    BY <1>1 DEF SyncInv, PlaceInv, List, ListPlaces
  <2>2. \A t : Times(t, waiters) \in Nat /\ (Times(t, waiters) = 0 <=> ~In(t, waiters))
    BY <2>1, ListTimes
  <2>3. CASE UNCHANGED groupVars
    BY <2>0, <2>2, <2>3 DEF groupVars
  <2>4. ASSUME NEW t \in Task, Wait(t) PROVE Rel
    <3>1. counter' = counter
      BY <2>4 DEF Wait
    <3>2. CASE waiters' = waiters
      BY <2>0, <2>2, <3>1, <3>2
    <3>3. CASE waiters' = <<t>> \o waiters /\ current = t
      <4>1. ~In(t, waiters)
        <5>1. ~Is(t, "group")
          BY <2>1, <3>3, RunsOutside DEF ListPlaces
        <5>2. QED
          BY <5>1 DEF Is, List, ListPlaces
      <4>2. /\ waiters' \in Seq(Task) /\ Distinct(waiters')
            /\ \A u : In(u, waiters') <=> u = t \/ In(u, waiters)
        BY <2>1, <3>3, <4>1, ListPush
      <4>3. \A u : /\ Times(u, waiters) = IF In(u, waiters) THEN 1 ELSE 0
                   /\ Times(u, waiters') = IF In(u, waiters') THEN 1 ELSE 0
        BY <2>1, <4>2, ListTimes
      <4>4. \A u : ~(Times(u, waiters) > Times(u, waiters'))
        BY <4>2, <4>3
      <4>5. QED
        BY <2>0, <3>1, <4>4
    <3>4. QED
      BY <2>4, <3>2, <3>3, Zenon DEF Wait, Calls, Runs
  <2>5. ASSUME NEW t \in Task, NEW d \in Deltas,
               AddOverflows(t, d) \/ SubtractUnderflows(t, d) \/ Add(t, d)
        PROVE  Rel
    <3>1. waiters' = waiters /\ d \in Int
      BY <2>5, WaitGroupAssumption, Zenon DEF AddOverflows, SubtractUnderflows, Add, groupVars
    <3>2. counter' = counter \/ (d > 0 /\ counter' = counter + d)
      BY <2>5, Zenon DEF AddOverflows, SubtractUnderflows, Add, groupVars
    <3>3. ~(counter' < counter)
      BY <2>0, <3>1, <3>2
    <3>4. QED
      BY <2>2, <3>1, <3>3
  <2>6. ASSUME NEW t \in Task, NEW d \in Deltas, Subtract(t, d) PROVE Rel
    <3>1. CASE counter' = 0
      <4>1. waiters' = << >> /\ runqueue' = runqueue \o waiters
        BY <2>6, <3>1 DEF Subtract, GoesOn
      <4>2. List("group") = waiters /\ "group" \in ListPlaces /\ "group" # "run"
        BY DEF List, ListPlaces
      <4>3. \A u \in Task : In(u, waiters) => OnRunQueue(u)' = 1
        BY <2>1, <4>1, <4>2, ScheduledOnce
      <4>4. \A u : Times(u, << >>) = 0
        BY ListEmpty, ListTimes, Zenon
      <4>5. \A u : Times(u, waiters) > Times(u, waiters') => In(u, waiters)
        BY <2>2, <4>1, <4>4
      <4>6. QED
        BY <2>6, <3>1, <4>1, <4>3, <4>5
    <3>2. CASE counter' # 0
      <4>1. waiters' = waiters
        BY <2>6, <3>2 DEF Subtract
      <4>2. QED
        BY <2>2, <2>6, <4>1
    <3>3. QED
      BY <3>1, <3>2
  <2>7. QED
    BY <1>1, <2>3, <2>4, <2>5, <2>6, GroupSteps DEF GroupCalls
<1>2. SyncInv /\ [ClientsNext]_clientVars => [Rel]_<<groupVars, runqueue>>
  BY <1>1
<1>3. QED
  BY <1>2, SyncInvariant, PTL DEF ReleasedOnlyAtZero, ClientsSpec
=============================================================================
