-------------------------- MODULE SupervisorProofs --------------------------
(***************************************************************************)
(* The supervisor, for every set of children, every start order and every  *)
(* grace period, staleness bound, restart window and restart bound.        *)
(***************************************************************************)
EXTENDS Supervisor, WellFoundedInduction, TLAPS

-----------------------------------------------------------------------------
(***************************************************************************)
(* The inductive invariant.                                                *)
(***************************************************************************)

\* TypeOK, with the domain of recent and the index of a start that goes on.
SupervisorType ==
    /\ TypeOK
    /\ recent \in [Child -> Seq(0..RestartWindow)]
    /\ phase \in {"starting", "port"} => at <= Len(Order)

\* What the supervisor knows of a child c against what happened to it: age l
\* of its present process and ages r of its recent restarts, newest first.
\* Every recent restart is in the count that the budget looks at; the window
\* of a child that can still be restarted began no earlier than its last
\* restart, so that none is recent when the window ends; and a live process
\* is at least as old as the supervisor takes it to be.
Accounted(c, l, r) ==
    /\ \A i, j \in 1..Len(r) : i < j => r[i] <= r[j]
    /\ Len(r) <= c.count
    /\ c.proc # "none" => \A i \in 1..Len(r) : r[i] >= c.since
    /\ Alive(c) => c.since <= l

SupervisorInv ==
    /\ SupervisorType
    /\ \A n \in Child : Accounted(child[n], lived[n], recent[n])
    /\ NoOrphans
-----------------------------------------------------------------------------
(***************************************************************************)
(* Ages.                                                                   *)
(***************************************************************************)

\* A non-empty set of natural numbers has a least element.
LEMMA LeastNatural ==
    ASSUME NEW T, T \subseteq Nat, T # {}
    PROVE  \E x \in T : \A y \in T : x <= y
<1> DEFINE Below == {p \in Nat \X Nat : p[1] < p[2]}
<1>1. IsWellFoundedOn(Below, Nat)
  BY NatLessThanWellFounded, Zenon DEF OpToRel
<1> HIDE DEF Below
<1>2. PICK x \in T : \A y \in T : ~(<<y, x>> \in Below)
  BY <1>1, WFMin
<1>3. \A y \in T : x <= y
  <2> TAKE y \in T
  <2>1. <<y, x>> \in Nat \X Nat /\ <<y, x>>[1] = y /\ <<y, x>>[2] = x
    OBVIOUS
  <2>2. ~(y < x)
    BY <1>2, <2>1 DEF Below
  <2> QED
    BY <2>2
<1> QED
  BY <1>3

\* Ages and their bounds.
LEMMA AgeFacts ==
    /\ {Grace, StaleAfter, RestartWindow, MaxRestarts, MaxResumes} \subseteq Nat
    /\ AgeCap \in Nat /\ RestartWindow < AgeCap /\ 0 \in Age
    /\ \A a \in Age : a \in Nat /\ a <= AgeCap /\ Older(a) \in Age
    /\ \A a, b \in Age : a <= b => Older(a) <= Older(b)
    /\ \A a \in Age : a <= Older(a)
<1>1. {Grace, StaleAfter, RestartWindow, MaxRestarts, MaxResumes} \subseteq Nat
  BY SupervisorConstants
<1>2. AgeCap \in Nat /\ RestartWindow < AgeCap
  BY <1>1 DEF AgeCap
<1> QED
  BY <1>1, <1>2 DEF Age, Older

\* One tick later: the restarts that are still within the window.
LEMMA AgedFacts ==
    ASSUME NEW s \in Seq(0..RestartWindow), \A i, j \in 1..Len(s) : i < j => s[i] <= s[j]
    PROVE  /\ Aged(s) \in Seq(0..RestartWindow) /\ Len(Aged(s)) <= Len(s)
           /\ \A i \in 1..Len(Aged(s)) : i \in 1..Len(s) /\ Aged(s)[i] = s[i] + 1
<1> DEFINE m == Len(s)
           W == RestartWindow
           T == {k \in 0..m : \A i \in 1..m : i > k => s[i] >= W}
<1>1. m \in Nat /\ W \in Nat /\ \A i \in 1..m : s[i] \in 0..W
  BY AgeFacts
<1> HIDE DEF m, W
<1>2. \E k \in 0..m : \A i \in 1..m : i <= k <=> s[i] < W
  <2>1. m \in T /\ T \subseteq Nat
    BY <1>1
  <2>2. PICK k \in T : \A y \in T : k <= y
    <3> HIDE DEF T
    <3> QED
      BY <2>1, LeastNatural
  <2>3. k \in 0..m /\ \A i \in 1..m : i > k => s[i] >= W
    OBVIOUS
  <2>4. ASSUME NEW i \in 1..m, i <= k
        PROVE  s[i] < W
    <3>1. k \in 1..m /\ k - 1 \in 0..m /\ ~(k <= k - 1)
      BY <1>1, <2>3, <2>4
    <3>2. k - 1 \notin T
      BY <2>2, <3>1
    <3>3. PICK j \in 1..m : j > k - 1 /\ ~(s[j] >= W)
      BY <3>1, <3>2
    <3>4. j = k
      BY <1>1, <2>3, <3>1, <3>3
    <3>5. s[i] <= s[k]
      <4>1. CASE i = k
        BY <1>1, <4>1
      <4>2. CASE i # k
        BY <1>1, <2>4, <3>1, <4>2 DEF m
      <4> QED
        BY <4>1, <4>2
    <3> QED
      BY <1>1, <3>1, <3>3, <3>4, <3>5
  <2>5. \A i \in 1..m : i <= k <=> s[i] < W
    BY <1>1, <2>3, <2>4
  <2> QED
    BY <2>3, <2>5
<1> DEFINE kept == CHOOSE k \in 0..m : \A i \in 1..m : i <= k <=> s[i] < W
<1>3. kept \in 0..m /\ \A i \in 1..m : i <= kept <=> s[i] < W
  <2> DEFINE P(k) == \A i \in 1..m : i <= k <=> s[i] < W
  <2>1. \E k \in 0..m : P(k)
    BY <1>2
  <2>2. kept = CHOOSE k \in 0..m : P(k)
    OBVIOUS
  <2> HIDE DEF P, kept
  <2>3. kept \in 0..m /\ P(kept)
    BY <2>1, <2>2
  <2> QED
    BY <2>3 DEF P
<1>4. Aged(s) = [i \in 1..kept |-> s[i] + 1]
  BY DEF Aged, m, W
<1> HIDE DEF kept
<1>5. \A i \in 1..kept : i \in 1..m /\ s[i] + 1 \in 0..W
  <2> TAKE i \in 1..kept
  <2>1. i \in 1..m /\ i <= kept
    BY <1>1, <1>3
  <2>2. s[i] < W /\ s[i] \in 0..W
    BY <1>1, <1>3, <2>1
  <2> QED
    BY <1>1, <2>1, <2>2
<1>6. Aged(s) \in Seq(0..W) /\ Len(Aged(s)) = kept
  BY <1>1, <1>3, <1>4, <1>5
<1> QED
  BY <1>1, <1>3, <1>4, <1>5, <1>6 DEF m, W
-----------------------------------------------------------------------------
(***************************************************************************)
(* A child's entry.                                                        *)
(***************************************************************************)

\* What an entry holds.
LEMMA ChildFacts ==
    ASSUME NEW c \in ChildProc
    PROVE  /\ c.proc \in {"none", "live", "hung", "exited"} /\ c.count \in Nat /\ c.count <= MaxRestarts
           /\ c.since \in Age /\ c.since \in Nat /\ c.suspended \in BOOLEAN
           /\ c.beat \in Age \cup {NoBeat} /\ c.count \in 0..MaxRestarts
           /\ Alive(c) => c.proc # "none"
<1>1. /\ c.proc \in {"none", "live", "hung", "exited"} /\ c.count \in 0..MaxRestarts
      /\ c.since \in Age /\ c.suspended \in BOOLEAN /\ c.beat \in Age \cup {NoBeat}
  BY DEF ChildProc
<1> QED
  BY <1>1, AgeFacts DEF Alive

\* The loop body of a monitor tick keeps a child's account.
LEMMA TickedAccount ==
    ASSUME NEW n \in Child, NEW c \in ChildProc, NEW l \in Age, NEW r \in Seq(0..RestartWindow),
           NEW spawns \in BOOLEAN, Accounted(c, l, r)
    PROVE  LET d == AfterTick(n, c, spawns)
               q == IF Restarts(n, c) THEN <<0>> \o r ELSE r
           IN  /\ d \in ChildProc /\ q \in Seq(0..RestartWindow)
               /\ Accounted(d, IF Restarts(n, c) THEN 0 ELSE l, q)
<1> DEFINE closed == [c EXCEPT !.proc = "none"]
           e == Budget(closed)
           again == [e EXCEPT !.count = @ + 1]
           d == AfterTick(n, c, spawns)
           q == IF Restarts(n, c) THEN <<0>> \o r ELSE r
<1>1. /\ c.count \in Nat /\ c.count <= MaxRestarts /\ c.since \in Nat /\ Len(r) \in Nat
      /\ \A i \in 1..Len(r) : r[i] \in Nat /\ r[i] <= RestartWindow
      /\ RestartWindow \in Nat /\ MaxRestarts \in Nat /\ 0 \in Age /\ 0 \in 0..MaxRestarts
  <2>1. RestartWindow \in Nat /\ MaxRestarts \in Nat /\ 0 \in Age /\ 0 \in 0..MaxRestarts
    BY AgeFacts
  <2>2. c.count \in Nat /\ c.count <= MaxRestarts /\ c.since \in Nat
    BY ChildFacts
  <2>3. Len(r) \in Nat /\ \A i \in 1..Len(r) : r[i] \in 0..RestartWindow
    BY <2>1
  <2> QED
    BY <2>1, <2>2, <2>3
<1>2. /\ closed \in ChildProc /\ closed.proc = "none" /\ closed.count = c.count
      /\ closed.since = c.since
  BY DEF ChildProc
<1>3. /\ e \in ChildProc /\ e.proc = "none" /\ (e.count = c.count \/ (e.count = 0 /\ c.since > RestartWindow))
      /\ Restarts(n, c) <=> Down(n, c) /\ ~c.suspended /\ e.count < MaxRestarts
  <2> HIDE DEF closed
  <2>1. CASE c.since > RestartWindow
    <3>1. e = [closed EXCEPT !.count = 0, !.since = 0] /\ Budget(c) = [c EXCEPT !.count = 0, !.since = 0]
      BY <1>2, <2>1 DEF Budget
    <3>2. e \in ChildProc /\ e.proc = "none" /\ e.count = 0 /\ Budget(c).count = 0
      BY <1>1, <1>2, <3>1 DEF ChildProc
    <3> QED
      BY <2>1, <3>2 DEF Restarts
  <2>2. CASE ~(c.since > RestartWindow)
    <3>1. e = closed /\ Budget(c) = c
      BY <1>2, <2>2 DEF Budget
    <3> QED
      BY <1>2, <3>1 DEF Restarts
  <2> QED
    BY <2>1, <2>2
<1>4. e.count \in Nat
  BY <1>3, ChildFacts
<1>5. Down(n, c) => c.proc # "none"
  BY ChildFacts DEF Down, Hung
<1>6. Down(n, c) => Len(r) <= e.count
  <2> SUFFICES ASSUME Down(n, c), e.count = 0, c.since > RestartWindow
               PROVE  Len(r) <= 0
    BY <1>3 DEF Accounted
  <2>1. \A i \in 1..Len(r) : r[i] >= c.since
    BY <1>5 DEF Accounted
  <2>2. ~(1 \in 1..Len(r))
    BY <1>1, <2>1
  <2> QED
    BY <1>1, <2>2
<1>7. /\ \A i, j \in 1..Len(r) : i < j => r[i] <= r[j]
      /\ Len(r) <= c.count
  BY DEF Accounted
<1>8. d = IF ~Down(n, c) THEN c
          ELSE IF c.suspended THEN closed
          ELSE IF e.count >= MaxRestarts THEN e
          ELSE IF spawns THEN Spawned(again) ELSE again
  BY DEF AfterTick
<1>9. CASE ~Down(n, c)
  BY <1>8, <1>9 DEF Restarts
<1>10. CASE Down(n, c) /\ c.suspended
  <2>1. d = closed /\ ~Restarts(n, c)
    BY <1>8, <1>10 DEF Restarts
  <2> HIDE DEF d, closed
  <2>2. ~Alive(closed)
    BY <1>2 DEF Alive
  <2> QED
    BY <1>2, <1>7, <2>1, <2>2 DEF Accounted, d
<1>11. CASE Down(n, c) /\ ~c.suspended /\ e.count >= MaxRestarts
  <2>1. d = e /\ ~Restarts(n, c)
    BY <1>1, <1>3, <1>4, <1>8, <1>11
  <2> HIDE DEF d, e
  <2>2. ~Alive(e)
    BY <1>3 DEF Alive
  <2> QED
    BY <1>3, <1>6, <1>7, <1>11, <2>1, <2>2 DEF Accounted, d
<1>12. CASE Down(n, c) /\ ~c.suspended /\ ~(e.count >= MaxRestarts)
  <2>1. e.count < MaxRestarts
    BY <1>1, <1>4, <1>12
  <2>2. Restarts(n, c) /\ d = (IF spawns THEN Spawned(again) ELSE again) /\ q = <<0>> \o r
    <3> HIDE DEF e, again, d, closed
    <3> QED
      BY <1>3, <1>8, <1>12, <2>1
  <2> DEFINE k == e.count + 1
  <2>3. k \in 0..MaxRestarts
    BY <1>1, <1>4, <1>12
  <2>4. again = [e EXCEPT !.count = k]
    OBVIOUS
  <2> HIDE DEF closed, e, d, again, q
  <2>5. again \in ChildProc /\ again.proc = "none" /\ again.count = k
    BY <1>3, <2>3, <2>4 DEF ChildProc
  <2>6. /\ Spawned(again) \in ChildProc /\ Spawned(again).proc = "live"
        /\ Spawned(again).count = k /\ Spawned(again).since = 0
    BY <1>1, <2>5 DEF Spawned, ChildProc
  <2>7. /\ d \in ChildProc /\ d.count = k /\ (d.proc = "none" \/ d.since = 0)
    BY <2>2, <2>5, <2>6
  <2>8. /\ q \in Seq(0..RestartWindow) /\ Len(q) = Len(r) + 1 /\ q[1] = 0
        /\ \A i \in 1..Len(r) : q[i + 1] = r[i]
    <3>1. 0 \in 0..RestartWindow
      BY <1>1
    <3>2. <<0>> \in Seq(0..RestartWindow) /\ Len(<<0>>) = 1 /\ <<0>>[1] = 0
      BY <3>1
    <3> QED
      BY <2>2, <3>2
  <2>9. \A i \in 1..Len(q) : i = 1 \/ (i - 1 \in 1..Len(r) /\ q[i] = r[i - 1])
    <3>1. \A i \in 1..Len(q) : i = 1 \/ (i - 1 \in 1..Len(r) /\ (i - 1) + 1 = i)
      BY <1>1, <2>8
    <3> QED
      BY <2>8, <3>1
  <2>10. \A i \in 1..Len(q) : q[i] \in Nat /\ q[i] >= 0
    BY <1>1, <2>8, <2>9
  <2>11. Len(q) <= d.count
    <3>1. Len(r) <= e.count
      BY <1>6, <1>12
    <3> QED
      BY <1>1, <1>4, <2>7, <2>8, <3>1 DEF k
  <2>12. \A i, j \in 1..Len(q) : i < j => q[i] <= q[j]
    <3> TAKE i, j \in 1..Len(q)
    <3>1. CASE i = 1
      BY <2>8, <2>10, <3>1
    <3>2. CASE i # 1
      <4>1. i < j => i - 1 < j - 1 /\ j # 1
        BY <2>8, <1>1, <3>2
      <4> QED
        BY <1>7, <2>9, <3>2, <4>1
    <3> QED
      BY <3>1, <3>2
  <2>13. d.proc # "none" => d.since = 0 /\ \A i \in 1..Len(q) : q[i] >= d.since
    BY <2>7, <2>10
  <2>14. Accounted(d, 0, q)
    <3>1. Alive(d) => d.since <= 0
      BY <2>7, ChildFacts DEF Alive
    <3> QED
      BY <2>11, <2>12, <2>13, <3>1 DEF Accounted
  <2> QED
    BY <2>2, <2>7, <2>8, <2>14 DEF d, q
<1> QED
  BY <1>9, <1>10, <1>11, <1>12

\* Time keeps a child's account.
LEMMA OlderAccount ==
    ASSUME NEW c \in ChildProc, NEW l \in Age, NEW r \in Seq(0..RestartWindow), Accounted(c, l, r)
    PROVE  LET d == [c EXCEPT !.since = Older(@), !.beat = IF @ = NoBeat THEN NoBeat ELSE Older(@)]
           IN  /\ d \in ChildProc /\ Older(l) \in Age /\ Aged(r) \in Seq(0..RestartWindow)
               /\ d.proc = c.proc /\ Accounted(d, Older(l), Aged(r))
<1> DEFINE t == Older(c.since)
           b == IF c.beat = NoBeat THEN NoBeat ELSE Older(c.beat)
           d == [c EXCEPT !.since = t, !.beat = b]
           q == Aged(r)
<1>1. /\ c.since \in Age /\ c.since \in Nat /\ c.count \in Nat /\ t \in Age /\ b \in Age \cup {NoBeat}
      /\ Older(l) \in Age
  BY ChildFacts, AgeFacts
<1> HIDE DEF t, b
<1>2. d \in ChildProc /\ d.proc = c.proc /\ d.count = c.count /\ d.since = t
  BY <1>1 DEF ChildProc
<1> HIDE DEF d, q
<1>3. /\ \A i, j \in 1..Len(r) : i < j => r[i] <= r[j]
      /\ Len(r) <= c.count
  BY DEF Accounted
<1>4. /\ q \in Seq(0..RestartWindow) /\ Len(q) <= Len(r)
      /\ \A i \in 1..Len(q) : i \in 1..Len(r) /\ q[i] = r[i] + 1
  BY <1>3, AgedFacts DEF q
<1>5. /\ \A i \in 1..Len(r) : r[i] \in Nat /\ r[i] <= RestartWindow
      /\ Len(r) \in Nat /\ Len(q) \in Nat
  <2>1. RestartWindow \in Nat
    BY AgeFacts
  <2>2. \A i \in 1..Len(r) : r[i] \in 0..RestartWindow
    BY <2>1
  <2> QED
    BY <1>4, <2>1, <2>2
<1>6. \A i, j \in 1..Len(q) : i < j => q[i] <= q[j]
  <2> TAKE i, j \in 1..Len(q)
  <2>1. i < j => r[i] <= r[j]
    BY <1>3, <1>4
  <2> QED
    BY <1>4, <1>5, <2>1
<1>7. Len(q) <= d.count
  BY <1>1, <1>2, <1>3, <1>4, <1>5
<1>8. d.proc # "none" => \A i \in 1..Len(q) : q[i] >= d.since
  <2> SUFFICES ASSUME c.proc # "none", NEW i \in 1..Len(q)
               PROVE  r[i] + 1 >= t
    BY <1>2, <1>4
  <2>1. r[i] >= c.since /\ r[i] \in Nat
    BY <1>4, <1>5 DEF Accounted
  <2>2. t \in {c.since, c.since + 1}
    BY <1>1 DEF t, Older
  <2> QED
    BY <1>1, <2>1, <2>2
<1>9. Alive(d) => d.since <= Older(l)
  <2>1. Alive(d) => c.since <= l
    BY <1>2 DEF Accounted, Alive
  <2> QED
    BY <1>1, <1>2, <2>1, AgeFacts DEF t
<1>10. Accounted(d, Older(l), q)
  BY <1>6, <1>7, <1>8, <1>9 DEF Accounted
<1> QED
  BY <1>1, <1>2, <1>4, <1>10 DEF d, t, b, q

\* So does a process that ends or hangs, and a heartbeat.
LEMMA QuietAccount ==
    ASSUME NEW c \in ChildProc, NEW d \in ChildProc, NEW l, NEW r, Accounted(c, l, r),
           d.count = c.count, d.since = c.since,
           d.proc # "none" => c.proc # "none", Alive(d) => Alive(c)
    PROVE  Accounted(d, l, r)
  BY DEF Accounted
-----------------------------------------------------------------------------
(***************************************************************************)
(* The supervisor's steps.                                                 *)
(***************************************************************************)

\* The state, spelled out.
LEMMA StateFacts ==
    ASSUME SupervisorType
    PROVE  /\ child \in [Child -> ChildProc] /\ lived \in [Child -> Age]
           /\ recent \in [Child -> Seq(0..RestartWindow)]
           /\ \A n \in Child : /\ child[n] \in ChildProc /\ lived[n] \in Age
                               /\ recent[n] \in Seq(0..RestartWindow)
           /\ at \in Nat /\ 1 <= at /\ Len(Order) \in Nat /\ Len(Order) >= 1
           /\ phase \in {"starting", "port"} => at <= Len(Order) /\ Order[at] \in Child
           /\ phase \in {"starting", "port", "running", "failed", "stopped"}
<1>1. Len(Order) \in Nat /\ Len(Order) >= 1
  <2>1. Order \in Seq(Child) /\ Order # << >>
    BY SupervisorConstants
  <2> QED
    BY <2>1
<1>2. at \in Nat /\ 1 <= at
  BY <1>1 DEF SupervisorType, TypeOK
<1>3. phase \in {"starting", "port"} => at <= Len(Order) /\ Order[at] \in Child
  <2>1. phase \in {"starting", "port"} => at <= Len(Order) /\ at \in 1..Len(Order)
    BY <1>1, <1>2 DEF SupervisorType
  <2> QED
    BY <2>1 DEF Child
<1> QED
  BY <1>1, <1>2, <1>3 DEF SupervisorType, TypeOK

\* A step that only moves the phase, and starts no process.
LEMMA PhaseStep ==
    ASSUME SupervisorInv, PortRead \/ StartFails
    PROVE  SupervisorInv'
<1>1. SupervisorType
  BY DEF SupervisorInv
<1>2. /\ child' = child /\ resumes' = resumes /\ lived' = lived /\ recent' = recent
      /\ orphan' = orphan /\ awaited' = awaited /\ phase \in {"starting", "port"}
      /\ \/ phase' = (IF at = Len(Order) THEN "running" ELSE "starting") /\ at' = at + 1
         \/ phase' = "failed" /\ at' = at
  BY DEF PortRead, StartFails
<1>3. /\ phase' \in {"starting", "running", "failed"} /\ at' \in 1..(Len(Order) + 1)
      /\ phase' \in {"starting", "port"} => at' <= Len(Order)
  BY <1>1, <1>2, StateFacts
<1>4. SupervisorType'
  BY <1>1, <1>2, <1>3 DEF SupervisorType, TypeOK
<1>5. NoOrphans'
  BY <1>2, <1>3 DEF SupervisorInv, NoOrphans
<1> QED
  BY <1>2, <1>4, <1>5 DEF SupervisorInv

\* A step that changes one child's entry and history and no other's.
LEMMA OneChildStep ==
    ASSUME SupervisorInv, NEW n \in Child, NEW d \in ChildProc, NEW l \in Age,
           NEW r \in Seq(0..RestartWindow),
           child' = [child EXCEPT ![n] = d], lived' = [lived EXCEPT ![n] = l],
           recent' = [recent EXCEPT ![n] = r], Accounted(d, l, r)
    PROVE  /\ child' \in [Child -> ChildProc] /\ lived' \in [Child -> Age]
           /\ recent' \in [Child -> Seq(0..RestartWindow)]
           /\ \A m \in Child : Accounted(child'[m], lived'[m], recent'[m])
           /\ child'[n] = d /\ \A m \in Child : m # n => child'[m] = child[m]
<1>1. /\ child \in [Child -> ChildProc] /\ lived \in [Child -> Age]
      /\ recent \in [Child -> Seq(0..RestartWindow)]
      /\ \A m \in Child : Accounted(child[m], lived[m], recent[m])
  BY StateFacts DEF SupervisorInv
<1>2. /\ child'[n] = d /\ lived'[n] = l /\ recent'[n] = r
      /\ \A m \in Child : m # n => child'[m] = child[m] /\ lived'[m] = lived[m] /\ recent'[m] = recent[m]
  BY <1>1
<1>3. \A m \in Child : Accounted(child'[m], lived'[m], recent'[m])
  <2> TAKE m \in Child
  <2>1. CASE m = n
    BY <1>2, <2>1
  <2>2. CASE m # n
    BY <1>1, <1>2, <2>2
  <2> QED
    BY <2>1, <2>2
<1> DEFINE S == Seq(0..RestartWindow)
<1>4. recent' \in [Child -> S]
  <2>1. recent \in [Child -> S] /\ r \in S
    BY <1>1
  <2> HIDE DEF S
  <2> QED
    BY <2>1
<1> QED
  BY <1>1, <1>2, <1>3, <1>4

\* The start sequence spawns its next child.
LEMMA StartChildInv ==
    ASSUME SupervisorInv, StartChild
    PROVE  SupervisorInv'
<1> DEFINE n == Order[at]
           c == child[n]
           d == Spawned(c)
<1>1. /\ phase = "starting" /\ child' = [child EXCEPT ![n] = d] /\ lived' = [lived EXCEPT ![n] = 0]
      /\ phase' = (IF n \in Server THEN "port" ELSE IF at = Len(Order) THEN "running" ELSE "starting")
      /\ at' = (IF n \in Server THEN at ELSE at + 1)
      /\ resumes' = resumes /\ recent' = recent /\ orphan' = orphan /\ awaited' = awaited
  BY DEF StartChild
<1>2. SupervisorType
  BY DEF SupervisorInv
<1>3. /\ n \in Child /\ c \in ChildProc /\ recent[n] \in Seq(0..RestartWindow) /\ at <= Len(Order)
      /\ at \in Nat /\ 1 <= at /\ Len(Order) \in Nat /\ recent \in [Child -> Seq(0..RestartWindow)]
  BY <1>1, <1>2, StateFacts
<1>4. 0 \in Age /\ RestartWindow \in Nat
  BY AgeFacts
<1> HIDE DEF n, c
<1>5. d \in ChildProc /\ d.proc = "live" /\ d.since = 0 /\ d.count = c.count
  BY <1>3, <1>4 DEF Spawned, ChildProc
<1>6. Accounted(d, 0, recent[n])
  <2>1. Accounted(c, lived[n], recent[n])
    BY <1>3 DEF SupervisorInv, c
  <2>2. \A i \in 1..Len(recent[n]) : recent[n][i] \in 0..RestartWindow
    BY <1>3, <1>4
  <2>3. \A i \in 1..Len(recent[n]) : recent[n][i] >= 0
    BY <1>4, <2>2
  <2> HIDE DEF d
  <2> QED
    BY <1>5, <2>1, <2>3 DEF Accounted
<1>7. recent' = [recent EXCEPT ![n] = recent[n]]
  BY <1>1, <1>3
<1> HIDE DEF d
<1>8. /\ child' \in [Child -> ChildProc] /\ lived' \in [Child -> Age]
      /\ recent' \in [Child -> Seq(0..RestartWindow)]
      /\ \A m \in Child : Accounted(child'[m], lived'[m], recent'[m])
  BY <1>1, <1>3, <1>4, <1>5, <1>6, <1>7, OneChildStep
<1>9. /\ phase' \in {"port", "starting", "running"} /\ at' \in 1..(Len(Order) + 1)
      /\ phase' \in {"starting", "port"} => at' <= Len(Order)
  BY <1>1, <1>3
<1>10. SupervisorType'
  <2>1. \A m \in Child : recent'[m] \in Seq(0..RestartWindow)
    BY <1>1, <1>2 DEF SupervisorType, TypeOK
  <2> QED
    BY <1>1, <1>2, <1>8, <1>9, <2>1 DEF SupervisorType, TypeOK
<1>11. NoOrphans'
  BY <1>1, <1>9 DEF SupervisorInv, NoOrphans
<1> QED
  BY <1>8, <1>10, <1>11 DEF SupervisorInv

\* A process is killed, ends, hangs or beats.
LEMMA ProcessInv ==
    ASSUME SupervisorInv, NEW n \in Child,
           KillAndSuspend(n) \/ Kill(n) \/ Exits(n) \/ Hangs(n) \/ Beat(n)
    PROVE  SupervisorInv'
<1> DEFINE c == child[n]
<1>1. SupervisorType /\ child \in [Child -> ChildProc] /\ c \in ChildProc
  BY StateFacts DEF SupervisorInv
<1>2. /\ phase' = phase /\ at' = at /\ resumes' = resumes /\ lived' = lived /\ recent' = recent
      /\ orphan' = orphan
  BY DEF KillAndSuspend, Kill, Exits, Hangs, Beat
<1>3. PICK d \in ChildProc : /\ child' = [child EXCEPT ![n] = d] /\ d.count = c.count /\ d.since = c.since
                             /\ d.proc # "none" => c.proc # "none"
                             /\ Alive(d) => Alive(c)
  <2>0. 0 \in Age /\ TRUE \in BOOLEAN
    BY AgeFacts
  <2>1. CASE KillAndSuspend(n)
    <3> DEFINE e == [c EXCEPT !.suspended = TRUE, !.proc = "exited"]
    <3>1. child' = [child EXCEPT ![n] = e] /\ c.proc # "none"
      BY <1>1, <2>1 DEF KillAndSuspend
    <3>2. e \in ChildProc
      BY <1>1, <2>0 DEF ChildProc
    <3>3. e.proc = "exited" /\ e.count = c.count /\ e.since = c.since
      BY <1>1 DEF ChildProc
    <3> HIDE DEF e
    <3> QED
      BY <3>1, <3>2, <3>3 DEF Alive
  <2>2. CASE Kill(n) \/ Exits(n)
    <3> DEFINE e == [c EXCEPT !.proc = "exited"]
    <3>1. child' = [child EXCEPT ![n] = e] /\ c.proc # "none"
      BY <1>1, <2>2 DEF Kill, Exits, Alive
    <3>2. e \in ChildProc /\ e.proc = "exited" /\ e.count = c.count /\ e.since = c.since
      BY <1>1 DEF ChildProc
    <3> HIDE DEF e
    <3> QED
      BY <3>1, <3>2 DEF Alive
  <2>3. CASE Hangs(n)
    <3> DEFINE e == [c EXCEPT !.proc = "hung"]
    <3>1. child' = [child EXCEPT ![n] = e] /\ c.proc = "live"
      BY <1>1, <2>3 DEF Hangs
    <3>2. e \in ChildProc /\ e.proc = "hung" /\ e.count = c.count /\ e.since = c.since
      BY <1>1 DEF ChildProc
    <3> HIDE DEF e
    <3> QED
      BY <3>1, <3>2 DEF Alive
  <2>4. CASE Beat(n)
    <3> DEFINE e == [c EXCEPT !.beat = 0]
    <3>1. child' = [child EXCEPT ![n] = e]
      BY <1>1, <2>4 DEF Beat
    <3>2. e \in ChildProc /\ e.proc = c.proc /\ e.count = c.count /\ e.since = c.since
      BY <1>1, <2>0 DEF ChildProc
    <3> HIDE DEF e
    <3> QED
      BY <3>1, <3>2 DEF Alive
  <2> QED
    BY <2>1, <2>2, <2>3, <2>4
<1>4. Accounted(d, lived[n], recent[n])
  <2>1. Accounted(c, lived[n], recent[n])
    BY DEF SupervisorInv
  <2> QED
    BY <1>1, <1>3, <2>1, QuietAccount
<1>5. lived' = [lived EXCEPT ![n] = lived[n]] /\ recent' = [recent EXCEPT ![n] = recent[n]]
      /\ lived[n] \in Age /\ recent[n] \in Seq(0..RestartWindow)
  BY <1>1, <1>2, StateFacts
<1>6. /\ child' \in [Child -> ChildProc] /\ \A m \in Child : Accounted(child'[m], lived'[m], recent'[m])
      /\ child'[n] = d /\ \A m \in Child : m # n => child'[m] = child[m]
  BY <1>3, <1>4, <1>5, OneChildStep
<1>7. awaited' \in [Child -> BOOLEAN]
  <2>1. awaited \in [Child -> BOOLEAN] /\ FALSE \in BOOLEAN
    BY <1>1 DEF SupervisorType, TypeOK
  <2>2. awaited' = awaited \/ awaited' = [awaited EXCEPT ![n] = FALSE]
    BY DEF KillAndSuspend, Kill, Exits, Hangs, Beat
  <2> QED
    BY <2>1, <2>2
<1>8. SupervisorType'
  BY <1>1, <1>2, <1>6, <1>7 DEF SupervisorType, TypeOK
<1>9. NoOrphans'
  BY <1>2, <1>3, <1>6 DEF SupervisorInv, NoOrphans
<1> QED
  BY <1>6, <1>8, <1>9 DEF SupervisorInv

\* A suspended child is resumed, and its count and history are wiped.
LEMMA ResumeInv ==
    ASSUME SupervisorInv, NEW n \in Child, Resume(n)
    PROVE  SupervisorInv'
<1> DEFINE c == child[n]
           d == [c EXCEPT !.suspended = FALSE, !.count = 0, !.since = 0]
<1>1. SupervisorType /\ child \in [Child -> ChildProc] /\ c \in ChildProc /\ lived[n] \in Age
      /\ lived \in [Child -> Age]
  BY StateFacts DEF SupervisorInv
<1>2. 0 \in Age /\ 0 \in 0..MaxRestarts /\ FALSE \in BOOLEAN /\ MaxResumes \in Nat /\ \A a \in Age : a >= 0
  BY AgeFacts
<1>3. /\ phase = "running" /\ phase' = phase /\ at' = at /\ resumes < MaxResumes /\ resumes' = resumes + 1
      /\ child' = [child EXCEPT ![n] = d] /\ recent' = [recent EXCEPT ![n] = << >>]
      /\ awaited' = [awaited EXCEPT ![n] = c.suspended /\ ~Alive(c)]
      /\ lived' = lived /\ orphan' = orphan
  BY <1>1 DEF Resume
<1>4. d \in ChildProc
  BY <1>1, <1>2 DEF ChildProc
<1>5. d.proc = c.proc /\ d.count = 0 /\ d.since = 0
  BY <1>1 DEF ChildProc
<1> HIDE DEF d
<1>6. << >> \in Seq(0..RestartWindow) /\ Len(<< >>) = 0 /\ 1..0 = {}
  OBVIOUS
<1>7. Accounted(d, lived[n], << >>)
  BY <1>1, <1>2, <1>5, <1>6 DEF Accounted
<1>8. lived' = [lived EXCEPT ![n] = lived[n]]
  BY <1>1, <1>3
<1>9. /\ child' \in [Child -> ChildProc] /\ recent' \in [Child -> Seq(0..RestartWindow)]
      /\ \A m \in Child : Accounted(child'[m], lived'[m], recent'[m])
  BY <1>1, <1>3, <1>4, <1>6, <1>7, <1>8, OneChildStep
<1>10. awaited' \in [Child -> BOOLEAN]
  <2>1. awaited \in [Child -> BOOLEAN] /\ (c.suspended /\ ~Alive(c)) \in BOOLEAN
    BY <1>1 DEF SupervisorType, TypeOK
  <2> QED
    BY <1>3, <2>1
<1>11. resumes' \in 0..MaxResumes
  BY <1>1, <1>2, <1>3 DEF SupervisorType, TypeOK
<1>12. SupervisorType'
  <2> DEFINE S == Seq(0..RestartWindow)
  <2>1. \A m \in Child : recent'[m] \in S
    <3>1. recent' \in [Child -> S]
      BY <1>9
    <3> HIDE DEF S
    <3> QED
      BY <3>1
  <2> QED
    BY <1>1, <1>3, <1>9, <1>10, <1>11, <2>1 DEF SupervisorType, TypeOK
<1>13. NoOrphans'
  BY <1>3 DEF SupervisorInv, NoOrphans
<1> QED
  BY <1>9, <1>12, <1>13 DEF SupervisorInv

\* A monitor tick reaps, kills and restarts.
LEMMA MonitorInv ==
    ASSUME SupervisorInv, NEW spawns \in [Child -> BOOLEAN], MonitorTick(spawns)
    PROVE  SupervisorInv'
<1> DEFINE S == Seq(0..RestartWindow)
<1>1. SupervisorType /\ \A n \in Child : Accounted(child[n], lived[n], recent[n])
  BY DEF SupervisorInv
<1>2. /\ phase = "running" /\ phase' = phase /\ at' = at /\ resumes' = resumes
      /\ child' = [n \in Child |-> AfterTick(n, child[n], spawns[n])]
      /\ lived' = [n \in Child |-> IF Restarts(n, child[n]) THEN 0 ELSE lived[n]]
      /\ recent' = [n \in Child |-> IF Restarts(n, child[n]) THEN <<0>> \o recent[n] ELSE recent[n]]
      /\ orphan' = [n \in Child |-> orphan[n] \/ (Down(n, child[n]) /\ Alive(Reaped(n, child[n])))]
      /\ awaited' = [n \in Child |-> awaited[n] /\ ~Alive(child'[n])]
  BY DEF MonitorTick
<1>3. \A n \in Child : /\ child'[n] \in ChildProc /\ lived'[n] \in Age /\ recent'[n] \in S
                       /\ Accounted(child'[n], lived'[n], recent'[n])
  <2> TAKE n \in Child
  <2> DEFINE c == child[n]
             l == IF Restarts(n, c) THEN 0 ELSE lived[n]
             q == IF Restarts(n, c) THEN <<0>> \o recent[n] ELSE recent[n]
  <2>1. c \in ChildProc /\ lived[n] \in Age /\ recent[n] \in S /\ spawns[n] \in BOOLEAN /\ 0 \in Age
    BY <1>1, StateFacts, AgeFacts
  <2>2. child'[n] = AfterTick(n, c, spawns[n]) /\ lived'[n] = l /\ recent'[n] = q
    BY <1>2
  <2>3. AfterTick(n, c, spawns[n]) \in ChildProc /\ q \in S /\ Accounted(AfterTick(n, c, spawns[n]), l, q)
    BY <1>1, <2>1, TickedAccount
  <2>4. l \in Age
    BY <2>1
  <2> QED
    BY <2>2, <2>3, <2>4
<1>4. \A n \in Child : ~(Down(n, child[n]) /\ Alive(Reaped(n, child[n])))
  <2> TAKE n \in Child
  <2>1. child[n] \in ChildProc
    BY <1>1, StateFacts
  <2>2. CASE Hung(n, child[n])
    <3>1. Reaped(n, child[n]) = [child[n] EXCEPT !.proc = "exited"]
      BY <2>2 DEF Reaped
    <3>2. Reaped(n, child[n]).proc = "exited"
      BY <2>1, <3>1 DEF ChildProc
    <3> QED
      BY <3>2 DEF Alive
  <2>3. CASE ~Hung(n, child[n])
    BY <2>3 DEF Down, Reaped, Alive
  <2> QED
    BY <2>2, <2>3
<1>5. \A n \in Child : ~orphan'[n]
  BY <1>2, <1>4 DEF SupervisorInv, NoOrphans
<1>6. orphan' \in [Child -> BOOLEAN] /\ awaited' \in [Child -> BOOLEAN]
  BY <1>2
<1>7. child' \in [Child -> ChildProc] /\ lived' \in [Child -> Age] /\ recent' \in [Child -> S]
  <2> HIDE DEF S
  <2>1. /\ child' = [n \in Child |-> child'[n]] /\ lived' = [n \in Child |-> lived'[n]]
        /\ recent' = [n \in Child |-> recent'[n]]
    BY <1>2
  <2> QED
    BY <1>3, <2>1
<1>8. SupervisorType'
  BY <1>1, <1>2, <1>3, <1>6, <1>7 DEF SupervisorType, TypeOK
<1>9. NoOrphans'
  BY <1>2, <1>5 DEF NoOrphans
<1> QED
  BY <1>3, <1>8, <1>9 DEF SupervisorInv

\* Everything is stopped.
LEMMA StopAllInv ==
    ASSUME SupervisorInv, StopAll
    PROVE  SupervisorInv'
<1>1. SupervisorType /\ \A n \in Child : Accounted(child[n], lived[n], recent[n])
  BY DEF SupervisorInv
<1>2. /\ phase' = "stopped" /\ at' = at /\ resumes' = resumes /\ lived' = lived /\ recent' = recent
      /\ orphan' = orphan /\ awaited' = awaited
      /\ child' = [n \in Child |-> [child[n] EXCEPT !.proc = "none"]]
  BY DEF StopAll
<1>3. \A n \in Child : /\ child'[n] \in ChildProc /\ Accounted(child'[n], lived[n], recent[n])
                       /\ ~Alive(child'[n])
  <2> TAKE n \in Child
  <2> DEFINE c == child[n]
             d == [c EXCEPT !.proc = "none"]
  <2>1. c \in ChildProc /\ child'[n] = d
    BY <1>1, <1>2, StateFacts
  <2> HIDE DEF c
  <2>2. d \in ChildProc /\ d.proc = "none" /\ d.count = c.count /\ d.since = c.since
    BY <2>1 DEF ChildProc
  <2> HIDE DEF d
  <2>3. Accounted(d, lived[n], recent[n]) /\ ~Alive(d)
    BY <1>1, <2>1, <2>2, QuietAccount DEF Alive, c
  <2> QED
    BY <2>1, <2>2, <2>3
<1>4. child' \in [Child -> ChildProc]
  <2>1. child' = [n \in Child |-> child'[n]]
    BY <1>2
  <2> QED
    BY <1>3, <2>1
<1>5. SupervisorType'
  BY <1>1, <1>2, <1>4 DEF SupervisorType, TypeOK
<1>6. NoOrphans'
  BY <1>2, <1>3 DEF SupervisorInv, NoOrphans
<1> QED
  BY <1>2, <1>3, <1>5, <1>6 DEF SupervisorInv

\* Time passes.
LEMMA TickInv ==
    ASSUME SupervisorInv, Tick
    PROVE  SupervisorInv'
<1> DEFINE S == Seq(0..RestartWindow)
           After(c) == [c EXCEPT !.since = Older(@), !.beat = IF @ = NoBeat THEN NoBeat ELSE Older(@)]
<1>1. SupervisorType /\ \A n \in Child : Accounted(child[n], lived[n], recent[n])
  BY DEF SupervisorInv
<1>2. /\ phase # "stopped" /\ phase' = phase /\ at' = at /\ resumes' = resumes /\ orphan' = orphan
      /\ awaited' = awaited
      /\ child' = [n \in Child |-> After(child[n])]
      /\ lived' = [n \in Child |-> Older(lived[n])]
      /\ recent' = [n \in Child |-> Aged(recent[n])]
  BY DEF Tick
<1>3. \A n \in Child : /\ After(child[n]) \in ChildProc /\ Older(lived[n]) \in Age
                       /\ Aged(recent[n]) \in S
                       /\ Accounted(After(child[n]), Older(lived[n]), Aged(recent[n]))
  <2> TAKE n \in Child
  <2>1. child[n] \in ChildProc /\ lived[n] \in Age /\ recent[n] \in S
    BY <1>1, StateFacts
  <2> QED
    BY <1>1, <2>1, OlderAccount
<1> HIDE DEF After, S
<1>4. child' \in [Child -> ChildProc] /\ lived' \in [Child -> Age] /\ recent' \in [Child -> S]
  BY <1>2, <1>3
<1>5. \A n \in Child : Accounted(child'[n], lived'[n], recent'[n])
  BY <1>2, <1>3
<1>6. SupervisorType'
  <2>1. \A n \in Child : recent'[n] \in S
    BY <1>4
  <2> QED
    BY <1>1, <1>2, <1>4, <2>1 DEF SupervisorType, TypeOK, S
<1>7. NoOrphans'
  BY <1>2 DEF SupervisorInv, NoOrphans
<1> QED
  BY <1>5, <1>6, <1>7 DEF SupervisorInv
-----------------------------------------------------------------------------
(***************************************************************************)
(* The theorems.                                                           *)
(***************************************************************************)

\* The invariant holds in the initial states.
LEMMA InitSupervisor == Init => SupervisorInv
<1> SUFFICES ASSUME Init PROVE SupervisorInv
  OBVIOUS
<1>1. /\ phase = "starting" /\ at = 1 /\ resumes = 0 /\ lived = [c \in Child |-> 0]
      /\ recent = [c \in Child |-> << >>] /\ orphan = [c \in Child |-> FALSE]
      /\ awaited = [c \in Child |-> FALSE] /\ child \in [Child -> ChildProc]
      /\ \A n \in Child : child[n].proc = "none"
  BY DEF Init
<1>2. /\ 0 \in Age /\ MaxResumes \in Nat /\ Len(Order) \in Nat /\ Len(Order) >= 1
  <2>1. Order \in Seq(Child) /\ Order # << >>
    BY SupervisorConstants
  <2> QED
    BY <2>1, AgeFacts
<1>3. SupervisorType
  <2> DEFINE S == Seq(0..RestartWindow)
  <2>1. << >> \in S
    OBVIOUS
  <2> HIDE DEF S
  <2>2. recent \in [Child -> S] /\ \A n \in Child : recent[n] \in S
    BY <1>1, <2>1
  <2>3. orphan \in [Child -> BOOLEAN] /\ awaited \in [Child -> BOOLEAN]
    BY <1>1
  <2>4. lived \in [Child -> Age] /\ resumes \in 0..MaxResumes /\ at \in 1..(Len(Order) + 1) /\ at <= Len(Order)
    BY <1>1, <1>2
  <2> QED
    BY <1>1, <2>2, <2>3, <2>4 DEF SupervisorType, TypeOK, S
<1>4. \A n \in Child : Accounted(child[n], lived[n], recent[n])
  <2> TAKE n \in Child
  <2>1. child[n].proc = "none" /\ recent[n] = << >> /\ child[n] \in ChildProc
    BY <1>1
  <2>2. child[n].count \in Nat /\ Len(recent[n]) = 0 /\ 1..0 = {}
    BY <2>1, ChildFacts
  <2> QED
    BY <2>1, <2>2 DEF Accounted, Alive
<1>5. NoOrphans
  BY <1>1 DEF NoOrphans
<1> QED
  BY <1>3, <1>4, <1>5 DEF SupervisorInv

\* Every step, and every stuttering step, keeps the invariant.
LEMMA NextSupervisor == SupervisorInv /\ [Next]_vars => SupervisorInv'
<1> SUFFICES ASSUME SupervisorInv, [Next]_vars PROVE SupervisorInv'
  OBVIOUS
<1>1. CASE UNCHANGED vars
  BY <1>1 DEF SupervisorInv, SupervisorType, TypeOK, NoOrphans, vars
<1>2. ASSUME NEW n \in Child,
             KillAndSuspend(n) \/ Kill(n) \/ Resume(n) \/ Exits(n) \/ Hangs(n) \/ Beat(n)
      PROVE  SupervisorInv'
  BY <1>2, ProcessInv, ResumeInv
<1>3. CASE Monitor
  BY <1>3, MonitorInv DEF Monitor
<1> QED
  BY <1>1, <1>2, <1>3, StartChildInv, PhaseStep, StopAllInv, TickInv DEF Next

\* The inductive invariant holds throughout, and with it the type invariant.
THEOREM SupervisorCorrect == Spec => [](SupervisorInv /\ TypeOK)
<1>1. SupervisorInv => TypeOK
  BY DEF SupervisorInv, SupervisorType
<1> QED
  BY <1>1, InitSupervisor, NextSupervisor, PTL DEF Spec

\* RestartRateBounded: within any window a child is restarted at most
\* MaxRestarts times, unless a resume wiped its count.
THEOREM RestartBound == Spec => []RestartRateBounded
<1>1. SupervisorInv => RestartRateBounded
  <2> SUFFICES ASSUME SupervisorInv, NEW n \in Child
               PROVE  Len(recent[n]) <= MaxRestarts
    BY DEF RestartRateBounded
  <2>1. SupervisorType /\ Len(recent[n]) <= child[n].count
    BY DEF SupervisorInv, Accounted
  <2>2. child[n] \in ChildProc /\ recent[n] \in Seq(0..RestartWindow)
    BY <2>1, StateFacts
  <2>3. Len(recent[n]) \in Nat
    BY <2>2
  <2>4. child[n].count \in Nat /\ child[n].count <= MaxRestarts /\ MaxRestarts \in Nat
    BY <2>2, ChildFacts, AgeFacts
  <2> QED
    BY <2>1, <2>3, <2>4
<1> QED
  BY <1>1, SupervisorCorrect, PTL

\* HungIsPastGrace: a process judged hung is itself past the grace period.
THEOREM GraceIsKept == Spec => []HungIsPastGrace
<1>1. SupervisorInv => HungIsPastGrace
  <2> SUFFICES ASSUME SupervisorInv, NEW n \in Child, Hung(n, child[n])
               PROVE  lived[n] > Grace
    BY DEF HungIsPastGrace
  <2>1. SupervisorType /\ Alive(child[n]) /\ child[n].since > Grace /\ child[n].since <= lived[n]
    BY DEF SupervisorInv, Accounted, Hung
  <2>2. child[n] \in ChildProc /\ lived[n] \in Age
    BY <2>1, StateFacts
  <2>3. child[n].since \in Nat /\ lived[n] \in Nat /\ Grace \in Nat
    BY <2>2, ChildFacts, AgeFacts
  <2> QED
    BY <2>1, <2>3
<1> QED
  BY <1>1, SupervisorCorrect, PTL

\* NoOrphans: no process outlives its handle, and none is left after stop_all.
THEOREM NothingLeftBehind == Spec => []NoOrphans
<1>1. SupervisorInv => NoOrphans
  BY DEF SupervisorInv
<1> QED
  BY <1>1, SupervisorCorrect, PTL
=============================================================================
