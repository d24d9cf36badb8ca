--------------------------- MODULE ManifestProofs ---------------------------
(***************************************************************************)
(* Resolution and ranking of manifests, for every directory, request and   *)
(* capacity: the plan is the closure of the request in load order, a       *)
(* request is refused for exactly the stated reasons, and a ranking holds  *)
(* the best of the eligible alternatives.                                  *)
(***************************************************************************)
EXTENDS Manifest, FiniteSetTheorems, TLAPS

-----------------------------------------------------------------------------
(***************************************************************************)
(* The inductive invariant.                                                *)
(***************************************************************************)

Deps(i) == ToSet(items[i].dependencies)

\* TypeOK, with the two work arrays that hold needed manifests only.
ManifestType ==
    /\ TypeOK
    /\ names \in Seq(Nat)
    /\ stack \in Seq(needed) /\ IsInjective(stack)
    /\ queue \in Seq(needed) /\ IsInjective(queue)
    /\ IsInjective(ranked)

\* What is at rest where.
Phases ==
    /\ pc \in {"closure", "order"} <=> status = "RUNNING"
    /\ pc \in {"load", "idle"} => alt = 0
    /\ pc \in {"rank", "sort"} => alt # 0
    /\ pc # "closure" => stack = << >>
    /\ pc = "closure" => queue = << >> /\ popped = 0
    /\ pc = "load" => /\ status = "NONE" /\ slot = NoSlot
                      /\ needed = {} /\ indegree = << >> /\ ranked = << >>
    /\ (pc \in {"closure", "order"} /\ alt = 0) => slot = NoSlot

\* What is marked is in the closure; what is marked and no longer on the stack
\* has all its dependencies marked.
Gathering ==
    pc \in {"closure", "order"} =>
        /\ AllFound(names)
        /\ Roots(names) \subseteq needed
        /\ needed \subseteq Closure(names)
        /\ \A i \in needed \ ToSet(stack) : \A d \in Deps(i) : FindByName(d) \in needed

\* The dependencies of a manifest that were emitted so far.
Emitted(j) == {d \in Deps(j) : \E k \in 1..popped : items[queue[k]].name = d}

\* A needed manifest waits for as many dependencies as were not emitted, those
\* it lists again included; the queue holds what waits for none, each behind
\* its dependencies.
Ordering ==
    pc = "order" =>
        /\ indegree \in [Index -> Nat]
        /\ \A j \in needed : indegree[j] = Len(items[j].dependencies) - Cardinality(Emitted(j))
        /\ ToSet(queue) = {i \in needed : indegree[i] = 0}
        /\ \A k \in 1..Len(queue) : \A d \in Deps(queue[k]) :
              \E l \in 1..popped : l < k /\ queue[l] = FindByName(d)

\* What obicall_manifest_resolve returns: a dependency listed twice is a cycle to it.
Outcome(wanted) ==
    IF SomeMissing(wanted) THEN "MISSING"
    ELSE IF SomeCycle(wanted) \/ ListsTwice(wanted) THEN "CYCLE"
    ELSE "OK"

Returned == status \in {"OK", "MISSING", "CYCLE"} => status = Outcome(names)

\* The alternatives of the slot as the code sees them, and their ranking.
Eligible == {i \in Index : Suits(items[i], slot) /\ Outcome(<<items[i].name>>) = "OK"}

\* The candidates are the eligible manifests seen so far; the sort has the
\* first alt of them in order.
Candidates ==
    /\ (alt # 0 /\ pc \in {"rank", "closure", "order"}) =>
          /\ ToSet(ranked) = {i \in Eligible : i < alt}
          /\ status # "NONE" => Suits(items[alt], slot) /\ names = <<items[alt].name>>
    /\ pc = "sort" =>
          /\ ToSet(ranked) = Eligible
          /\ \A k, l \in 1..Len(ranked) : (k < l /\ l <= alt) => ~Shifts(ranked[k], ranked[l])

RanksByOutcome ==
    (pc = "idle" /\ slot # NoSlot) =>
        /\ ToSet(ranked) \subseteq Eligible
        /\ Len(ranked) = IF Cardinality(Eligible) < OutCap THEN Cardinality(Eligible) ELSE OutCap
        /\ \A k \in 1..Len(ranked) :
              \A i \in Eligible \ {ranked[l] : l \in 1..k} : ~Shifts(ranked[k], i)

ManifestInv ==
    /\ ManifestType
    /\ Phases
    /\ Gathering
    /\ Ordering
    /\ Candidates
    /\ PlanIsLoadOrder
    /\ Returned
    /\ RanksByOutcome
-----------------------------------------------------------------------------
(***************************************************************************)
(* Numbers and sequences.                                                  *)
(***************************************************************************)

\* A non-empty set of natural numbers has a least element.
LEMMA LeastNatural ==
    ASSUME NEW T, T \subseteq Nat, T # {}
    PROVE  \E x \in T : \A y \in T : x <= y
<1> DEFINE Below == {p \in Nat \X Nat : p[1] < p[2]}
<1>1. IsWellFoundedOn(Below, Nat)
  BY NatLessThanWellFounded, Zenon DEF OpToRel
<1> HIDE DEF Below
<1>2. PICK x \in T : \A y \in T : ~(<<y, x>> \in Below)
  BY <1>1, WFMin
<1>3. \A y \in T : x <= y
  <2> TAKE y \in T
  <2>1. <<y, x>> \in Nat \X Nat /\ <<y, x>>[1] = y /\ <<y, x>>[2] = x
    OBVIOUS
  <2>2. ~(y < x)
    BY <1>2, <2>1 DEF Below
  <2> QED
    BY <2>2
<1> QED
  BY <1>3

\* A sequence without repetition is no longer than the set it is taken from,
\* and exhausts it if it is as long.
LEMMA InjectiveLength ==
    ASSUME NEW S, IsFiniteSet(S), NEW s \in Seq(S), IsInjective(s)
    PROVE  /\ Len(s) <= Cardinality(S)
           /\ Cardinality(ToSet(s)) = Len(s)
           /\ Len(s) = Cardinality(S) => ToSet(s) = S
<1> DEFINE D == 1..Len(s)
           R == ToSet(s)
<1>1. Len(s) \in Nat /\ DOMAIN s = D /\ s \in [D -> S]
  OBVIOUS
<1>2. IsFiniteSet(D) /\ Cardinality(D) = Len(s)
  BY <1>1, FS_Interval
<1>3. R \in SUBSET S /\ s \in [D -> R] /\ \A x \in R : \E k \in D : s[k] = x
  BY <1>1 DEF ToSet
<1>4. s \in Injection(D, S) /\ s \in Injection(D, R) /\ s \in Surjection(D, R)
  BY <1>1, <1>3 DEF Injection, Surjection, IsInjective
<1> HIDE DEF D, R
<1>5. Cardinality(D) <= Cardinality(S) /\ (Cardinality(D) = Cardinality(S) <=> s \in Surjection(D, S))
  BY <1>4, FS_Injection
<1>6. IsFiniteSet(R)
  BY <1>3, FS_Subset
<1>7. Cardinality(D) = Cardinality(R)
  BY <1>4, <1>6, FS_Injection
<1>8. s \in Surjection(D, S) => R = S
  BY <1>1, <1>3 DEF Surjection
<1> QED
  BY <1>2, <1>5, <1>7, <1>8 DEF R

\* A finite set of natural numbers can be put in increasing order.
LEMMA AscendingExists ==
    ASSUME NEW S \in SUBSET Nat, IsFiniteSet(S)
    PROVE  \E s \in [1..Cardinality(S) -> S] :
              \A a, b \in 1..Cardinality(S) : a < b => s[a] < s[b]
<1> DEFINE Rising(s, n) == \A a, b \in 1..n : a < b => s[a] < s[b]
           Orders(U, n) == \E s \in [1..n -> U] : Rising(s, n)
           T == {n \in Nat : \E U \in SUBSET S : Cardinality(U) = n /\ ~Orders(U, n)}
<1>1. \A U \in SUBSET S : IsFiniteSet(U) /\ Cardinality(U) \in Nat
  BY FS_Subset, FS_CardinalityType
<1> SUFFICES ASSUME T # {} PROVE FALSE
  BY <1>1
<1>2. PICK n \in T : \A m \in T : n <= m
  <2>1. T \subseteq Nat
    OBVIOUS
  <2> HIDE DEF T
  <2> QED
    BY <2>1, LeastNatural
<1>3. PICK U \in SUBSET S : Cardinality(U) = n /\ ~Orders(U, n)
  BY <1>2
<1>4. n \in Nat /\ n # 0 /\ U # {}
  <2>1. n \in Nat
    BY <1>2
  <2>2. n # 0
    <3> SUFFICES ASSUME n = 0 PROVE FALSE
      OBVIOUS
    <3>1. [x \in 1..0 |-> 0] \in [1..0 -> U] /\ Rising([x \in 1..0 |-> 0], 0)
      OBVIOUS
    <3> QED
      BY <1>3, <3>1
  <2> QED
    BY <1>3, <2>1, <2>2, FS_EmptySet
<1>5. PICK x \in U : \A y \in U : x <= y
  BY <1>3, <1>4, LeastNatural
<1> DEFINE V == U \ {x}
           m == n - 1
<1>6. V \in SUBSET S /\ Cardinality(V) = m /\ m \in Nat /\ ~(n <= m)
  BY <1>1, <1>3, <1>4, <1>5, FS_RemoveElement
<1>7. PICK r \in [1..m -> V] : Rising(r, m)
  BY <1>2, <1>6
<1> DEFINE s == [a \in 1..n |-> IF a = 1 THEN x ELSE r[a - 1]]
<1>8. \A a \in 1..n : a # 1 => a - 1 \in 1..m
  BY <1>4
<1>9. s \in [1..n -> U]
  BY <1>7, <1>8
<1>10. \A y \in V : x < y
  <2>1. \A y \in V : y \in Nat /\ x \in Nat /\ x <= y /\ x # y
    BY <1>3, <1>5
  <2> QED
    BY <2>1
<1>11. Rising(s, n)
  <2> SUFFICES ASSUME NEW a \in 1..n, NEW b \in 1..n, a < b PROVE s[a] < s[b]
    OBVIOUS
  <2>1. b # 1 /\ b - 1 \in 1..m /\ s[b] = r[b - 1]
    BY <1>4, <1>8
  <2>2. CASE a = 1
    <3>1. s[a] = x /\ r[b - 1] \in V
      BY <1>7, <2>1, <2>2
    <3> QED
      BY <1>10, <2>1, <3>1
  <2>3. CASE a # 1
    <3>1. s[a] = r[a - 1] /\ a - 1 \in 1..m /\ a - 1 < b - 1
      BY <1>4, <1>8, <2>3
    <3> QED
      BY <1>7, <2>1, <3>1
  <2> QED
    BY <2>2, <2>3
<1> QED
  BY <1>3, <1>9, <1>11

\* What Ascending gives: the elements of S, each once.
LEMMA AscendingFacts ==
    ASSUME NEW S \in SUBSET Nat, IsFiniteSet(S)
    PROVE  /\ Ascending(S) \in Seq(S)
           /\ ToSet(Ascending(S)) = S
           /\ IsInjective(Ascending(S))
<1> DEFINE s == Ascending(S)
           n == Cardinality(S)
<1>1. n \in Nat
  BY FS_CardinalityType
<1>2. s \in [1..n -> S] /\ \A a, b \in 1..n : a < b => s[a] < s[b]
  BY AscendingExists DEF Ascending
<1> HIDE DEF s
<1>3. s \in Seq(S) /\ Len(s) = n /\ DOMAIN s = 1..n
  BY <1>1, <1>2
<1>4. IsInjective(s)
  <2> SUFFICES ASSUME NEW a \in 1..n, NEW b \in 1..n, s[a] = s[b] PROVE a = b
    BY <1>3 DEF IsInjective
  <2>1. s[a] \in Nat /\ s[b] \in Nat
    BY <1>2
  <2>2. ~(a < b) /\ ~(b < a)
    BY <1>2, <2>1
  <2> QED
    BY <1>1, <2>2
<1> QED
  BY <1>3, <1>4, InjectiveLength DEF s

\* Two sequences without repetition that share nothing make one.
LEMMA ConcatInjective ==
    ASSUME NEW S, NEW s \in Seq(S), NEW t \in Seq(S), IsInjective(s), IsInjective(t),
           ToSet(s) \cap ToSet(t) = {}
    PROVE  /\ s \o t \in Seq(S)
           /\ IsInjective(s \o t)
           /\ ToSet(s \o t) = ToSet(s) \cup ToSet(t)
<1> DEFINE u == s \o t
           m == Len(s)
           n == Len(t)
<1>1. m \in Nat /\ n \in Nat /\ DOMAIN s = 1..m /\ DOMAIN t = 1..n
  OBVIOUS
<1>2. u \in Seq(S) /\ Len(u) = m + n /\ DOMAIN u = 1..(m + n)
  OBVIOUS
<1>3. /\ \A k \in 1..m : k \in 1..(m + n) /\ u[k] = s[k]
      /\ \A k \in 1..n : k + m \in 1..(m + n) /\ u[k + m] = t[k]
  OBVIOUS
<1> HIDE DEF u, m, n
<1>4. \A k \in 1..(m + n) : k \in 1..m \/ (k - m \in 1..n /\ k = (k - m) + m)
  BY <1>1
<1>5. \A k \in 1..m : s[k] \in ToSet(s)
  BY <1>1 DEF ToSet
<1>6. \A k \in 1..n : t[k] \in ToSet(t)
  BY <1>1 DEF ToSet
<1>7. IsInjective(u)
  <2> SUFFICES ASSUME NEW a \in 1..(m + n), NEW b \in 1..(m + n), u[a] = u[b] PROVE a = b
    BY <1>2 DEF IsInjective
  <2>1. CASE a \in 1..m /\ b \in 1..m
    BY <1>1, <1>3, <2>1 DEF IsInjective
  <2>2. CASE a - m \in 1..n /\ a = (a - m) + m /\ b - m \in 1..n /\ b = (b - m) + m
    <3>1. t[a - m] = t[b - m]
      BY <1>3, <2>2
    <3>2. a - m = b - m
      BY <1>1, <2>2, <3>1 DEF IsInjective
    <3> QED
      BY <2>2, <3>2
  <2>3. CASE a \in 1..m /\ b - m \in 1..n /\ b = (b - m) + m
    BY <1>3, <1>5, <1>6, <2>3
  <2>4. CASE b \in 1..m /\ a - m \in 1..n /\ a = (a - m) + m
    BY <1>3, <1>5, <1>6, <2>4
  <2> QED
    BY <1>4, <2>1, <2>2, <2>3, <2>4
<1>8. ToSet(u) = ToSet(s) \cup ToSet(t)
  <2>1. ASSUME NEW x \in ToSet(u) PROVE x \in ToSet(s) \cup ToSet(t)
    <3>1. PICK k \in 1..(m + n) : u[k] = x
      BY <1>2, <2>1 DEF ToSet
    <3> QED
      BY <1>3, <1>4, <1>5, <1>6, <3>1
  <2>2. ASSUME NEW x \in ToSet(s) PROVE x \in ToSet(u)
    <3>1. PICK k \in 1..m : s[k] = x
      BY <1>1, <2>2 DEF ToSet
    <3> QED
      BY <1>2, <1>3, <3>1 DEF ToSet
  <2>3. ASSUME NEW x \in ToSet(t) PROVE x \in ToSet(u)
    <3>1. PICK k \in 1..n : t[k] = x
      BY <1>1, <2>3 DEF ToSet
    <3> QED
      BY <1>2, <1>3, <3>1 DEF ToSet
  <2> QED
    BY <2>1, <2>2, <2>3
<1> QED
  BY <1>2, <1>7, <1>8 DEF u
-----------------------------------------------------------------------------
(***************************************************************************)
(* Names, dependencies and the closure.                                    *)
(***************************************************************************)

\* The manifests have the types of their files.
LEMMA ItemFacts ==
    ASSUME TypeOK
    PROVE  /\ Len(items) \in Nat /\ Index = 1..Len(items) /\ 0 \notin Index
           /\ Index \in SUBSET Nat
           /\ IsFiniteSet(Index) /\ Cardinality(Index) = Len(items)
           /\ \A i \in Index : /\ items[i].name \in Nat
                               /\ items[i].score \in Int
                               /\ items[i].dependencies \in Seq(Nat)
<1>1. Len(items) \in Nat /\ Index = 1..Len(items)
  BY DEF TypeOK, Index
<1>2. 0 \notin Index /\ Index \in SUBSET Nat
  BY <1>1
<1>3. IsFiniteSet(Index) /\ Cardinality(Index) = Len(items)
  BY <1>1, FS_Interval
<1>4. \A i \in Index : \E f \in File : items[i] = f.manifest
  BY <1>1 DEF TypeOK
<1> QED
  BY <1>1, <1>2, <1>3, <1>4, ManifestConstants

\* find_by_name gives an index with that name if there is one.
LEMMA FindFacts ==
    ASSUME TypeOK, NEW n
    PROVE  /\ FindByName(n) \in Index \cup {0}
           /\ FindByName(n) # 0 => FindByName(n) \in Index /\ items[FindByName(n)].name = n
           /\ \A i \in Index : items[i].name = n => FindByName(n) # 0
<1> DEFINE found == {i \in Index : items[i].name = n}
<1>1. 0 \notin Index /\ found \subseteq Index /\ found \subseteq Nat
  BY ItemFacts
<1>2. CASE found = {}
  BY <1>1, <1>2 DEF FindByName
<1>3. CASE found # {}
  <2>1. \E i \in found : \A j \in found : i <= j
    BY <1>1, <1>3, LeastNatural
  <2>2. FindByName(n) = CHOOSE i \in found : \A j \in found : i <= j
    BY <1>3 DEF FindByName
  <2>3. FindByName(n) \in found
    BY <2>1, <2>2
  <2> QED
    BY <1>1, <2>3
<1> QED
  BY <1>2, <1>3

\* The closure is closed, holds the roots, is the least such set, and holds
\* only manifests that their names find.
LEMMA ClosureFacts ==
    ASSUME TypeOK, NEW w
    PROVE  /\ Closure(w) \subseteq Index
           /\ Roots(w) \subseteq Closure(w)
           /\ \A i \in Closure(w) : \A d \in Deps(i) :
                 FindByName(d) # 0 => FindByName(d) \in Closure(w)
           /\ \A S \in SUBSET Index : (Closed(S) /\ Roots(w) \subseteq S) => Closure(w) \subseteq S
           /\ \A i \in Closure(w) : FindByName(items[i].name) = i
<1>1. Closure(w) \subseteq Index
  BY DEF Closure
<1>2. \A S \in SUBSET Index : (Closed(S) /\ Roots(w) \subseteq S) => Closure(w) \subseteq S
  BY DEF Closure
<1>3. \A n : FindByName(n) # 0 => FindByName(n) \in Index /\ items[FindByName(n)].name = n
  BY FindFacts
<1>4. Roots(w) \subseteq Index
  BY <1>3 DEF Roots
<1>5. Roots(w) \subseteq Closure(w)
  BY <1>4 DEF Closure
<1>6. ASSUME NEW i \in Closure(w), NEW d \in Deps(i), FindByName(d) # 0
      PROVE  FindByName(d) \in Closure(w)
  <2>1. FindByName(d) \in Index
    BY <1>3, <1>6
  <2>2. ASSUME NEW S \in SUBSET Index, Closed(S), Roots(w) \subseteq S PROVE FindByName(d) \in S
    BY <1>2, <1>6, <2>2 DEF Closed, Deps
  <2> QED
    BY <2>1, <2>2 DEF Closure
<1>7. \A i \in Closure(w) : FindByName(items[i].name) = i
  <2> DEFINE F == {i \in Index : FindByName(items[i].name) = i}
  <2>1. \A n : FindByName(n) # 0 => FindByName(n) \in F
    BY <1>3
  <2>2. Closed(F) /\ Roots(w) \subseteq F
    BY <2>1 DEF Closed, Roots
  <2> QED
    BY <1>2, <2>2
<1> QED
  BY <1>1, <1>2, <1>5, <1>6, <1>7

\* What a list of names finds.
LEMMA AllFoundFacts ==
    ASSUME TypeOK, NEW w \in Seq(Nat)
    PROVE  /\ AllFound(w) <=> \A n \in ToSet(w) : FindByName(n) # 0
           /\ AllFound(w) => Roots(w) = {FindByName(w[k]) : k \in 1..Len(w)}
           /\ Roots(w) \subseteq Index
<1>1. DOMAIN w = 1..Len(w)
  OBVIOUS
<1>2. AllFound(w) <=> \A n \in ToSet(w) : FindByName(n) # 0
  BY <1>1 DEF AllFound, ToSet
<1>3. {FindByName(n) : n \in ToSet(w)} = {FindByName(w[k]) : k \in 1..Len(w)}
  BY <1>1 DEF ToSet
<1>4. Roots(w) \subseteq Index
  BY FindFacts DEF Roots
<1> QED
  BY <1>2, <1>3, <1>4 DEF Roots

\* What is marked and pushed: everything found is marked, and what was not
\* marked before is pushed once.
LEMMA MarkFacts ==
    ASSUME TypeOK, NEW marked \in SUBSET Index, NEW pushed \in Seq(marked), IsInjective(pushed),
           NEW w \in Seq(Nat), AllFound(w), Mark(marked, pushed, w)
    PROVE  /\ needed' = marked \cup Roots(w) /\ needed' \subseteq Index
           /\ status' = "RUNNING"
           /\ stack' \in Seq(needed') /\ IsInjective(stack')
           /\ ToSet(stack') = ToSet(pushed) \cup (needed' \ marked)
<1> DEFINE F == FirstMet(marked, w)
           new == Ascending(F)
           t == [n \in DOMAIN new |-> FindByName(w[new[n]])]
           Found(k) == FindByName(w[k])
<1>1. needed' = marked \cup {Found(k) : k \in 1..Len(w)} /\ stack' = pushed \o t /\ status' = "RUNNING"
  BY DEF Mark
<1>2. needed' = marked \cup Roots(w) /\ needed' \subseteq Index
  BY <1>1, AllFoundFacts
<1>3. Len(w) \in Nat /\ F \in SUBSET (1..Len(w)) /\ F \in SUBSET Nat
  BY DEF FirstMet
<1>4. IsFiniteSet(F)
  <2>1. IsFiniteSet(1..Len(w))
    BY <1>3, FS_Interval
  <2> HIDE DEF F
  <2> QED
    BY <1>3, <2>1, FS_Subset
<1>5. \A k \in 1..Len(w) : k \in F <=> Found(k) \notin marked /\ \A l \in 1..(k - 1) : Found(l) # Found(k)
  BY DEF FirstMet
<1> HIDE DEF F, Found
<1>6. new \in Seq(F) /\ ToSet(new) = F /\ IsInjective(new)
  BY <1>3, <1>4, AscendingFacts
<1> HIDE DEF new
<1>7. Len(new) \in Nat /\ DOMAIN new = 1..Len(new) /\ DOMAIN t = DOMAIN new
      /\ \A n \in DOMAIN new : new[n] \in F /\ t[n] = Found(new[n])
  BY <1>6 DEF Found
<1> HIDE DEF t
<1>8. \A k \in F : Found(k) \in needed' \ marked
  BY <1>1, <1>3, <1>5
<1>9. t \in Seq(needed' \ marked)
  <2>1. t = [n \in 1..Len(new) |-> t[n]]
    BY <1>7 DEF t
  <2>2. \A n \in 1..Len(new) : t[n] \in needed' \ marked
    BY <1>7, <1>8
  <2> QED
    BY <1>7, <2>1, <2>2
<1>10. IsInjective(t)
  <2> SUFFICES ASSUME NEW a \in DOMAIN new, NEW b \in DOMAIN new, t[a] = t[b] PROVE a = b
    BY <1>7 DEF IsInjective
  <2> DEFINE p == new[a]
             q == new[b]
  <2>1. p \in F /\ q \in F /\ Found(p) = Found(q) /\ p \in 1..Len(w) /\ q \in 1..Len(w)
    BY <1>3, <1>7
  <2> HIDE DEF p, q
  <2>2. ~(p < q) /\ ~(q < p)
    <3>1. p < q => p \in 1..(q - 1)
      BY <1>3, <2>1
    <3>2. q < p => q \in 1..(p - 1)
      BY <1>3, <2>1
    <3> QED
      BY <1>5, <2>1, <3>1, <3>2
  <2>3. p = q
    BY <1>3, <2>1, <2>2
  <2> QED
    BY <1>6, <2>3 DEF p, q, IsInjective
<1>11. ToSet(t) = needed' \ marked
  <2>1. ToSet(t) \subseteq needed' \ marked
    BY <1>7, <1>8 DEF ToSet
  <2>2. ASSUME NEW x \in needed' \ marked PROVE x \in ToSet(t)
    <3> DEFINE K == {k \in 1..Len(w) : Found(k) = x}
    <3>1. K # {} /\ K \subseteq Nat
      BY <1>1, <2>2
    <3>2. PICK k \in K : \A l \in K : k <= l
      BY <3>1, LeastNatural
    <3>3. k \in 1..Len(w) /\ Found(k) = x /\ \A l \in 1..(k - 1) : l \in 1..Len(w) /\ ~(k <= l)
      BY <1>3, <3>2
    <3>4. \A l \in 1..(k - 1) : Found(l) # x
      BY <3>2, <3>3
    <3>5. k \in F
      BY <1>5, <2>2, <3>3, <3>4
    <3>6. PICK n \in DOMAIN new : new[n] = k
      BY <1>6, <3>5 DEF ToSet
    <3> QED
      BY <1>7, <3>3, <3>6 DEF ToSet
  <2> QED
    BY <2>1, <2>2
<1>12. ToSet(pushed) \subseteq marked
  BY DEF ToSet
<1>13. pushed \in Seq(needed') /\ t \in Seq(needed')
  BY <1>2, <1>9
<1> QED
  BY <1>1, <1>2, <1>10, <1>11, <1>12, <1>13, ConcatInjective
-----------------------------------------------------------------------------
(***************************************************************************)
(* Steps that leave the manifests alone.                                   *)
(***************************************************************************)

\* What is computed of the manifests stays.
LEMMA ItemsStable ==
    ASSUME items' = items
    PROVE  /\ Index' = Index
           /\ \A n : FindByName(n)' = FindByName(n)
           /\ \A w : AllFound(w)' = AllFound(w)
           /\ \A w : Roots(w)' = Roots(w)
           /\ \A w : Closure(w)' = Closure(w)
           /\ \A w : Outcome(w)' = Outcome(w)
           /\ \A i : Deps(i)' = Deps(i)
           /\ \A i, j : Shifts(i, j)' = Shifts(i, j)
<1>1. Index' = Index
  BY DEF Index
<1>2. \A n : FindByName(n)' = FindByName(n)
  BY DEF FindByName, Index
<1>3. \A w : AllFound(w)' = AllFound(w)
  BY <1>2 DEF AllFound
<1>4. \A w : Roots(w)' = Roots(w)
  BY <1>2 DEF Roots
<1>5. \A S : Closed(S)' = Closed(S)
  BY <1>2 DEF Closed
<1>6. \A w : Closure(w)' = Closure(w)
  BY <1>1, <1>4, <1>5 DEF Closure
<1>7. \A w : Outcome(w)' = Outcome(w)
  BY <1>2, <1>3, <1>6 DEF Outcome, SomeMissing, SomeCycle, ListsTwice
<1> QED
  BY <1>1, <1>2, <1>3, <1>4, <1>6, <1>7 DEF Deps, Shifts

\* A plan and a verdict stand as long as what they are about does.
LEMMA ResultsStand ==
    ASSUME ManifestInv, UNCHANGED <<items, names, queue, popped, status>>
    PROVE  PlanIsLoadOrder' /\ Returned'
<1>1. Plan' = Plan
  BY DEF Plan
<1>2. PlanIsLoadOrder'
  BY <1>1, ItemsStable DEF ManifestInv, PlanIsLoadOrder
<1>3. Returned'
  BY ItemsStable DEF ManifestInv, Returned
<1> QED
  BY <1>2, <1>3

\* A ranking stands until the next call.
LEMMA RankingStands ==
    ASSUME ManifestInv, UNCHANGED <<items, slot, ranked>>, pc' = "idle" => pc = "idle"
    PROVE  RanksByOutcome'
<1>1. \A m : Suits(m, slot)' = Suits(m, slot)
  BY DEF Suits
<1>2. Eligible' = Eligible
  BY ItemsStable DEF Eligible, Suits
<1> QED
  BY <1>1, <1>2, ItemsStable DEF ManifestInv, RanksByOutcome

\* Every status of a file but OK is an error that ends the loop.
LEMMA LoadFacts ==
    ASSUME TypeOK, NEW f \in File
    PROVE  /\ LoadOne(f) = "OK" => Len(items) < MaxManifests
           /\ LoadOne(f) \in {"OK", "IO", "BUFFER_TOO_SMALL", "OUT_OF_RANGE",
                              "INVALID_ARGUMENT", "UNSUPPORTED"}
<1> DEFINE Error == {"IO", "BUFFER_TOO_SMALL", "OUT_OF_RANGE", "INVALID_ARGUMENT", "UNSUPPORTED"}
<1>1. \A p \in 1..12 : Problem[p] \in Error
  BY DEF Problem
<1>2. f.problems \subseteq 1..12 /\ MaxManifests \in Nat /\ Len(items) \in Nat
  <2>1. f.problems \subseteq 1..12
    BY ManifestConstants, Zenon
  <2> QED
    BY <2>1, ManifestConstants, ItemFacts
<1>3. f.problems # {} => Parse(f) \in Error
  <2> SUFFICES ASSUME f.problems # {} PROVE Parse(f) \in Error
    OBVIOUS
  <2> DEFINE p == CHOOSE p \in f.problems : \A q \in f.problems : p <= q
  <2>1. \E x \in f.problems : \A q \in f.problems : x <= q
    BY <1>2, LeastNatural
  <2>2. p \in f.problems
    BY <2>1
  <2>3. Parse(f) = Problem[p]
    BY DEF Parse
  <2> HIDE DEF p
  <2> QED
    BY <1>1, <1>2, <2>2, <2>3
<1>4. f.problems = {} => Parse(f) = "OK"
  BY DEF Parse
<1>5. f.problems \cap {1, 2} # {} => f.problems # {}
  OBVIOUS
<1> QED
  BY <1>2, <1>3, <1>4, <1>5 DEF LoadOne
-----------------------------------------------------------------------------
(***************************************************************************)
(* Loading.                                                                *)
(***************************************************************************)

\* Reading one more file keeps the invariant.
LEMMA LoadFileInv ==
    ASSUME ManifestInv, NEW f \in File, LoadFile(f)
    PROVE  ManifestInv'
<1>1. TypeOK /\ ManifestType /\ Phases /\ pc = "load"
  BY DEF ManifestInv, ManifestType, LoadFile
<1>2. /\ status = "NONE" /\ slot = NoSlot /\ needed = {} /\ indegree = << >> /\ ranked = << >>
      /\ stack = << >> /\ alt = 0
  BY <1>1 DEF Phases
<1>3. queue = << >> /\ popped = 0
  <2>1. queue \in Seq({}) /\ popped \in 0..Len(queue)
    BY <1>1, <1>2 DEF ManifestType, TypeOK
  <2> QED
    BY <2>1
<1>4. /\ items' \in Seq({g.manifest : g \in File}) /\ Len(items') <= MaxManifests
      /\ load' \in {"LOADING", "OK", "IO", "BUFFER_TOO_SMALL", "OUT_OF_RANGE",
                    "INVALID_ARGUMENT", "UNSUPPORTED"}
      /\ pc' \in {"load", "idle"}
  <2>1. items \in Seq({g.manifest : g \in File}) /\ Len(items) <= MaxManifests /\ MaxManifests \in Nat
        /\ load \in {"LOADING", "OK", "IO", "BUFFER_TOO_SMALL", "OUT_OF_RANGE",
                     "INVALID_ARGUMENT", "UNSUPPORTED"}
    BY <1>1, ManifestConstants DEF TypeOK
  <2>2. CASE LoadOne(f) = "OK"
    <3>1. items' = Append(items, f.manifest) /\ load' = load /\ pc' = pc /\ Len(items) < MaxManifests
      BY <1>1, <2>2, LoadFacts DEF LoadFile
    <3> QED
      BY <1>1, <2>1, <3>1
  <2>3. CASE LoadOne(f) # "OK"
    BY <1>1, <2>1, <2>3, LoadFacts DEF LoadFile
  <2> QED
    BY <2>2, <2>3
<1>5. UNCHANGED <<names, needed, stack, indegree, queue, popped, status, slot, alt, ranked>>
  BY DEF LoadFile, resolution, ranking
<1>6. TypeOK'
  <2>1. Len(items') \in Nat /\ DOMAIN indegree' = {}
    BY <1>2, <1>4, <1>5
  <2>2. /\ needed' \subseteq Index' /\ stack' \in Seq(Index') /\ queue' \in Seq(needed')
        /\ popped' \in 0..Len(queue') /\ alt' \in 0..Len(items') /\ ranked' \in Seq(Index')
    BY <1>2, <1>3, <1>5, <2>1
  <2> QED
    BY <1>2, <1>4, <1>5, <2>1, <2>2 DEF TypeOK
<1>7. ManifestType'
  BY <1>1, <1>5, <1>6 DEF ManifestType
<1>8. Phases'
  BY <1>2, <1>3, <1>4, <1>5 DEF Phases
<1>9. Gathering' /\ Ordering' /\ Candidates'
  BY <1>2, <1>4, <1>5 DEF Gathering, Ordering, Candidates
<1>10. PlanIsLoadOrder' /\ Returned' /\ RanksByOutcome'
  BY <1>2, <1>5 DEF PlanIsLoadOrder, Returned, RanksByOutcome
<1> QED
  BY <1>7, <1>8, <1>9, <1>10 DEF ManifestInv

\* So does the end of the directory.
LEMMA EndOfDirInv ==
    ASSUME ManifestInv, EndOfDir
    PROVE  ManifestInv'
<1>1. TypeOK /\ ManifestType /\ Phases /\ pc = "load" /\ pc' = "idle" /\ load' = "OK"
  BY DEF ManifestInv, ManifestType, EndOfDir
<1>2. UNCHANGED <<items, names, needed, stack, indegree, queue, popped, status, slot, alt, ranked>>
  BY DEF EndOfDir, resolution, ranking
<1>3. status = "NONE" /\ slot = NoSlot /\ stack = << >> /\ alt = 0
  BY <1>1 DEF Phases
<1>4. TypeOK'
  BY <1>1, <1>2 DEF TypeOK, Index
<1>5. ManifestType'
  BY <1>1, <1>2, <1>4 DEF ManifestType
<1>6. Phases' /\ Gathering' /\ Ordering' /\ Candidates'
  BY <1>1, <1>2, <1>3 DEF Phases, Gathering, Ordering, Candidates
<1>7. PlanIsLoadOrder' /\ Returned' /\ RanksByOutcome'
  BY <1>2, <1>3 DEF PlanIsLoadOrder, Returned, RanksByOutcome
<1> QED
  BY <1>5, <1>6, <1>7 DEF ManifestInv
-----------------------------------------------------------------------------
(***************************************************************************)
(* The closure.                                                            *)
(***************************************************************************)

\* A resolution that finds what is asked for begins with the roots marked and
\* pushed.
LEMMA BeginInv ==
    ASSUME ManifestInv, NEW w \in Seq(Nat), Begin(w), AllFound(w), pc' = "closure",
           UNCHANGED <<items, load>>, alt' \in 0..Len(items), ranked' \in Seq(Index),
           IsInjective(ranked')
    PROVE  /\ ManifestType' /\ Gathering' /\ Ordering'
           /\ PlanIsLoadOrder' /\ Returned' /\ RanksByOutcome'
           /\ status' = "RUNNING" /\ queue' = << >> /\ popped' = 0 /\ names' = w
<1>1. TypeOK
  BY DEF ManifestInv, ManifestType
<1>2. names' = w /\ Mark({}, << >>, w) /\ indegree' = << >> /\ queue' = << >> /\ popped' = 0
  BY DEF Begin
<1>3. << >> \in Seq({}) /\ IsInjective(<< >>) /\ ToSet(<< >>) = {} /\ {} \in SUBSET Index
  BY DEF IsInjective, ToSet
<1>4. /\ needed' = {} \cup Roots(w) /\ needed' \subseteq Index /\ status' = "RUNNING"
      /\ stack' \in Seq(needed') /\ IsInjective(stack')
      /\ ToSet(stack') = ToSet(<< >>) \cup (needed' \ {})
  BY <1>1, <1>2, <1>3, MarkFacts
<1>5. needed' = Roots(w) /\ ToSet(stack') = needed'
  BY <1>3, <1>4
<1>6. Index' = Index
  BY ItemsStable
<1>7. TypeOK'
  <2>1. stack' \in Seq(Index')
    BY <1>4, <1>6
  <2>2. DOMAIN indegree' = {} /\ queue' \in Seq(needed') /\ popped' \in 0..Len(queue')
    BY <1>2
  <2> QED
    BY <1>1, <1>4, <1>6, <2>1, <2>2 DEF TypeOK
<1>8. ManifestType'
  BY <1>2, <1>3, <1>4, <1>7 DEF ManifestType
<1>9. Gathering'
  BY <1>1, <1>2, <1>5, ItemsStable, ClosureFacts DEF Gathering
<1>10. Ordering' /\ PlanIsLoadOrder' /\ Returned' /\ RanksByOutcome'
  BY <1>4 DEF Ordering, PlanIsLoadOrder, Returned, RanksByOutcome
<1> QED
  BY <1>2, <1>4, <1>8, <1>9, <1>10

\* A call of obicall_manifest_resolve for the names of the user.
LEMMA ResolveInv ==
    ASSUME ManifestInv, NEW w \in Request, Resolve(w)
    PROVE  ManifestInv'
<1>1. TypeOK /\ Phases /\ pc = "idle" /\ alt = 0 /\ stack = << >>
  BY DEF ManifestInv, ManifestType, Resolve, Phases
<1>2. w \in Seq(Nat)
  BY ManifestConstants
<1>3. /\ Begin(w) /\ slot' = NoSlot /\ ranked' = << >> /\ UNCHANGED <<items, load, alt>>
      /\ pc' = IF AllFound(w) THEN "closure" ELSE "idle"
  BY DEF Resolve
<1>4. alt' \in 0..Len(items) /\ ranked' \in Seq(Index) /\ IsInjective(ranked')
  BY <1>1, <1>3 DEF TypeOK, IsInjective
<1>5. CASE AllFound(w)
  <2>1. pc' = "closure"
    BY <1>3, <1>5
  <2>2. /\ ManifestType' /\ Gathering' /\ Ordering'
        /\ PlanIsLoadOrder' /\ Returned' /\ RanksByOutcome'
        /\ status' = "RUNNING" /\ queue' = << >> /\ popped' = 0
    BY <1>2, <1>3, <1>4, <1>5, <2>1, BeginInv
  <2>3. Phases'
    BY <1>1, <1>3, <2>1, <2>2 DEF Phases
  <2>4. Candidates'
    BY <1>1, <1>3, <2>1 DEF Candidates
  <2> QED
    BY <2>2, <2>3, <2>4 DEF ManifestInv
<1>6. CASE ~AllFound(w)
  <2>1. /\ pc' = "idle" /\ needed' = {} /\ stack' = << >> /\ status' = "MISSING"
        /\ names' = w /\ indegree' = << >> /\ queue' = << >> /\ popped' = 0
    BY <1>3, <1>6 DEF Begin, Mark
  <2>2. ManifestType'
    <3>1. Index' = Index
      BY <1>3, ItemsStable
    <3>2. DOMAIN indegree' = {} /\ popped' \in 0..Len(queue')
      BY <2>1
    <3>3. TypeOK'
      BY <1>1, <1>3, <1>4, <2>1, <3>1, <3>2 DEF TypeOK
    <3> QED
      BY <1>2, <1>4, <2>1, <3>3 DEF ManifestType, IsInjective
  <2>3. Phases' /\ Gathering' /\ Ordering' /\ Candidates'
    BY <1>1, <1>3, <2>1 DEF Phases, Gathering, Ordering, Candidates
  <2>4. Returned'
    <3>1. Outcome(w) = "MISSING"
      BY <1>6 DEF Outcome, SomeMissing
    <3> QED
      BY <1>3, <2>1, <3>1, ItemsStable DEF Returned
  <2>5. PlanIsLoadOrder' /\ RanksByOutcome'
    BY <1>3, <2>1 DEF PlanIsLoadOrder, RanksByOutcome
  <2> QED
    BY <2>2, <2>3, <2>4, <2>5 DEF ManifestInv
<1> QED
  BY <1>5, <1>6

\* The ranking's call, for a manifest of the slot: its name is found.
LEMMA RankResolveInv ==
    ASSUME ManifestInv, RankResolve
    PROVE  ManifestInv'
<1> DEFINE w == <<items[alt].name>>
<1>1. TypeOK /\ ManifestType /\ Phases /\ Candidates /\ pc = "rank" /\ status = "NONE" /\ alt # 0
  BY DEF ManifestInv, ManifestType, RankResolve, Phases
<1>2. Suits(items[alt], slot) /\ Begin(w) /\ pc' = "closure" /\ UNCHANGED <<items, load, slot, alt, ranked>>
  BY DEF RankResolve, ranking
<1>3. alt \in Index
  BY <1>1 DEF TypeOK, Index
<1>4. w \in Seq(Nat) /\ AllFound(w)
  <2>1. items[alt].name \in Nat /\ FindByName(items[alt].name) # 0
    BY <1>1, <1>3, ItemFacts, FindFacts
  <2>2. Len(w) = 1 /\ w[1] = items[alt].name
    OBVIOUS
  <2> HIDE DEF w
  <2>3. \A k \in 1..Len(w) : w[k] = items[alt].name
    BY <2>2
  <2> QED
    BY <2>1, <2>3 DEF AllFound, w
<1> HIDE DEF w
<1>5. alt' \in 0..Len(items) /\ ranked' \in Seq(Index) /\ IsInjective(ranked')
  BY <1>1, <1>2 DEF ManifestType, TypeOK
<1>6. /\ ManifestType' /\ Gathering' /\ Ordering'
      /\ PlanIsLoadOrder' /\ Returned' /\ RanksByOutcome'
      /\ status' = "RUNNING" /\ queue' = << >> /\ popped' = 0 /\ names' = w
  BY <1>2, <1>4, <1>5, BeginInv
<1>7. Phases'
  BY <1>1, <1>2, <1>6 DEF Phases
<1>8. Candidates'
  <2>1. Eligible' = Eligible
    BY <1>2, ItemsStable DEF Eligible, Suits
  <2> QED
    BY <1>1, <1>2, <1>6, <2>1 DEF Candidates, Suits, w
<1> QED
  BY <1>6, <1>7, <1>8 DEF ManifestInv

\* Taking the last element off a sequence without repetition.
LEMMA FrontFacts ==
    ASSUME NEW S, NEW s \in Seq(S), s # << >>, IsInjective(s)
    PROVE  /\ Last(s) \in S /\ Last(s) \in ToSet(s)
           /\ Front(s) \in Seq(S) /\ IsInjective(Front(s))
           /\ ToSet(Front(s)) = ToSet(s) \ {Last(s)}
<1> DEFINE n == Len(s)
           r == Front(s)
<1>1. n \in Nat /\ n # 0 /\ DOMAIN s = 1..n /\ n \in 1..n
  OBVIOUS
<1>2. r \in Seq(S) /\ Len(r) = n - 1 /\ DOMAIN r = 1..(n - 1) /\ \A k \in 1..(n - 1) : r[k] = s[k]
  BY <1>1 DEF Front
<1>3. Last(s) = s[n] /\ s[n] \in S /\ s[n] \in ToSet(s)
  BY <1>1 DEF Last, ToSet
<1> HIDE DEF n, r
<1>4. \A k \in 1..(n - 1) : k \in 1..n /\ k # n
  BY <1>1
<1>5. \A k \in 1..n : k # n => k \in 1..(n - 1)
  BY <1>1
<1>6. IsInjective(r)
  BY <1>1, <1>2, <1>4 DEF IsInjective
<1>7. \A k \in 1..(n - 1) : s[k] # s[n]
  BY <1>1, <1>4 DEF IsInjective
<1>8. ToSet(r) = ToSet(s) \ {s[n]}
  <2>1. ToSet(r) = {s[k] : k \in 1..(n - 1)} /\ ToSet(s) = {s[k] : k \in 1..n}
    BY <1>1, <1>2 DEF ToSet
  <2> QED
    BY <1>4, <1>5, <1>7, <2>1
<1> QED
  BY <1>2, <1>3, <1>6, <1>8 DEF r

\* obicall_manifest_resolve returns, to the user or to the ranking.
LEMMA ReturnInv ==
    ASSUME ManifestInv, pc \in {"closure", "order"}, pc' = Caller, stack' = << >>,
           status' \in {"OK", "MISSING", "CYCLE"}, UNCHANGED <<items, names, slot, alt, ranked>>
    PROVE  Phases' /\ Gathering' /\ Ordering' /\ Candidates' /\ RanksByOutcome'
<1>1. Phases /\ Candidates /\ status = "RUNNING"
  BY DEF ManifestInv, Phases
<1>2. pc' = (IF alt = 0 THEN "idle" ELSE "rank")
  BY DEF Caller
<1>3. Phases' /\ Gathering' /\ Ordering'
  BY <1>1, <1>2 DEF Phases, Gathering, Ordering
<1>4. Candidates'
  <2>1. Eligible' = Eligible
    BY ItemsStable DEF Eligible, Suits
  <2> QED
    BY <1>1, <1>2, <2>1 DEF Candidates, Suits
<1>5. RanksByOutcome'
  BY <1>1, <1>2 DEF Phases, RanksByOutcome
<1> QED
  BY <1>3, <1>4, <1>5

\* A needed manifest is taken from the stack and its dependencies are marked.
LEMMA VisitInv ==
    ASSUME ManifestInv, Visit
    PROVE  ManifestInv'
<1> DEFINE i == Last(stack)
           rest == Front(stack)
           w == items[i].dependencies
<1>1. TypeOK /\ ManifestType /\ Phases /\ Gathering /\ Candidates
  BY DEF ManifestInv, ManifestType
<1>2. /\ pc = "closure" /\ stack # << >> /\ Mark(needed, rest, w)
      /\ pc' = IF AllFound(w) THEN pc ELSE Caller
      /\ UNCHANGED <<items, load, names, indegree, queue, popped, slot, alt, ranked>>
  BY DEF Visit, ranking
<1>3. /\ i \in needed /\ i \in ToSet(stack) /\ rest \in Seq(needed) /\ IsInjective(rest)
      /\ ToSet(rest) = ToSet(stack) \ {i}
  BY <1>1, <1>2, FrontFacts DEF ManifestType
<1>4. needed \in SUBSET Index /\ i \in Index /\ i \in Closure(names)
  BY <1>1, <1>2, <1>3 DEF TypeOK, Gathering
<1>5. w \in Seq(Nat) /\ Deps(i) = ToSet(w)
  BY <1>1, <1>4, ItemFacts DEF Deps
<1>6. queue = << >> /\ popped = 0 /\ status = "RUNNING"
  BY <1>1, <1>2 DEF Phases
<1> HIDE DEF i, rest, w
<1>7. CASE AllFound(w)
  <2>1. /\ needed' = needed \cup Roots(w) /\ needed' \subseteq Index /\ status' = "RUNNING"
        /\ stack' \in Seq(needed') /\ IsInjective(stack')
        /\ ToSet(stack') = ToSet(rest) \cup (needed' \ needed)
    BY <1>1, <1>2, <1>3, <1>4, <1>5, <1>7, MarkFacts
  <2>2. pc' = "closure" /\ Index' = Index
    BY <1>2, <1>7, ItemsStable
  <2>3. \A d \in Deps(i) : FindByName(d) # 0 /\ FindByName(d) \in Roots(w)
    BY <1>1, <1>5, <1>7, AllFoundFacts DEF Roots
  <2>4. Roots(w) \subseteq Closure(names)
    <3>1. \A d \in Deps(i) : FindByName(d) # 0 => FindByName(d) \in Closure(names)
      BY <1>1, <1>4, ClosureFacts
    <3> QED
      BY <1>5, <3>1 DEF Roots
  <2>5. ManifestType'
    <3>1. stack' \in Seq(Index')
      BY <2>1, <2>2
    <3>2. queue' \in Seq(needed') /\ popped' \in 0..Len(queue')
      BY <1>2, <1>6
    <3>3. TypeOK'
      BY <1>1, <1>2, <2>1, <2>2, <3>1, <3>2 DEF TypeOK
    <3> QED
      BY <1>1, <1>2, <2>1, <3>2, <3>3 DEF ManifestType
  <2>6. Phases'
    BY <1>1, <1>2, <1>6, <2>1, <2>2 DEF Phases
  <2>7. Gathering'
    <3>1. AllFound(names) /\ Roots(names) \subseteq needed' /\ needed' \subseteq Closure(names)
      BY <1>1, <1>2, <2>1, <2>4 DEF Gathering
    <3>2. ASSUME NEW j \in needed' \ ToSet(stack'), NEW d \in Deps(j)
          PROVE  FindByName(d) \in needed'
      <4>1. j \in needed /\ (j \notin ToSet(stack) \/ j = i)
        BY <1>3, <2>1, <3>2
      <4>2. j \notin ToSet(stack) => FindByName(d) \in needed
        BY <1>1, <1>2, <3>2, <4>1 DEF Gathering
      <4> QED
        BY <2>1, <2>3, <3>2, <4>1, <4>2
    <3> QED
      BY <1>2, <3>1, <3>2, ItemsStable DEF Gathering
  <2>8. Candidates'
    <3>1. Eligible' = Eligible
      BY <1>2, ItemsStable DEF Eligible, Suits
    <3> QED
      BY <1>1, <1>2, <1>6, <2>1, <2>2, <3>1 DEF Candidates, Suits
  <2>9. Ordering' /\ PlanIsLoadOrder' /\ Returned' /\ RanksByOutcome'
    BY <2>1, <2>2 DEF Ordering, PlanIsLoadOrder, Returned, RanksByOutcome
  <2> QED
    BY <2>5, <2>6, <2>7, <2>8, <2>9 DEF ManifestInv
<1>8. CASE ~AllFound(w)
  <2>1. needed' = needed /\ stack' = << >> /\ status' = "MISSING" /\ pc' = Caller
    BY <1>2, <1>8 DEF Mark
  <2>2. Phases' /\ Gathering' /\ Ordering' /\ Candidates' /\ RanksByOutcome'
    BY <1>2, <2>1, ReturnInv
  <2>3. ManifestType'
    <3>1. Index' = Index /\ pc' \in {"idle", "rank"}
      BY <1>2, <2>1, ItemsStable DEF Caller
    <3>2. TypeOK'
      BY <1>1, <1>2, <2>1, <3>1 DEF TypeOK
    <3> QED
      BY <1>1, <1>2, <2>1, <3>2 DEF ManifestType, IsInjective
  <2>4. Returned'
    <3>1. Outcome(names) = "MISSING"
      BY <1>4, <1>8 DEF Outcome, SomeMissing, w
    <3> QED
      BY <1>2, <2>1, <3>1, ItemsStable DEF Returned
  <2>5. PlanIsLoadOrder'
    BY <2>1 DEF PlanIsLoadOrder
  <2> QED
    BY <2>2, <2>3, <2>4, <2>5 DEF ManifestInv
<1> QED
  BY <1>7, <1>8
-----------------------------------------------------------------------------
(***************************************************************************)
(* The order.                                                              *)
(***************************************************************************)

\* A manifest lists at least as many dependencies as it has different ones.
LEMMA DepsFacts ==
    ASSUME TypeOK, NEW j \in Index
    PROVE  /\ Len(items[j].dependencies) \in Nat
           /\ Deps(j) \subseteq Nat
           /\ Cardinality(Deps(j)) \in Nat /\ Cardinality(Deps(j)) <= Len(items[j].dependencies)
           /\ \A E \in SUBSET Deps(j) : /\ IsFiniteSet(E)
                                        /\ Cardinality(E) \in Nat
                                        /\ Cardinality(E) <= Cardinality(Deps(j))
                                        /\ Cardinality(E) = Cardinality(Deps(j)) => E = Deps(j)
<1> DEFINE w == items[j].dependencies
           D == 1..Len(w)
           R == Deps(j)
<1>1. w \in Seq(Nat) /\ Len(w) \in Nat /\ DOMAIN w = D
  BY ItemFacts
<1>2. R = {w[k] : k \in D}
  BY <1>1 DEF Deps, ToSet
<1>3. R \subseteq Nat /\ w \in [D -> R] /\ \A x \in R : \E k \in D : w[k] = x
  BY <1>1, <1>2
<1>4. w \in Surjection(D, R)
  BY <1>3 DEF Surjection
<1>5. IsFiniteSet(D) /\ Cardinality(D) = Len(w)
  BY <1>1, FS_Interval
<1> HIDE DEF D, R
<1>6. IsFiniteSet(R) /\ Cardinality(R) <= Len(w)
  BY <1>4, <1>5, FS_Surjection
<1>7. \A E \in SUBSET R : IsFiniteSet(E) /\ Cardinality(E) <= Cardinality(R)
                          /\ (Cardinality(R) = Cardinality(E) => R = E)
  BY <1>6, FS_Subset
<1>8. \A E \in SUBSET R : Cardinality(E) \in Nat
  BY <1>7, FS_CardinalityType
<1> QED
  BY <1>1, <1>3, <1>6, <1>7, <1>8 DEF R

\* The indices of a set of manifests, in increasing order.
LEMMA IndicesFacts ==
    ASSUME TypeOK, NEW S \in SUBSET Index
    PROVE  /\ Ascending(S) \in Seq(S)
           /\ ToSet(Ascending(S)) = S
           /\ IsInjective(Ascending(S))
<1>1. IsFiniteSet(S)
  BY ItemFacts, FS_Subset
<1>2. S \in SUBSET Nat
  BY ItemFacts
<1> QED
  BY <1>1, <1>2, AscendingFacts

\* What a step of the order, or into it, leaves alone.
LEMMA OrderStands ==
    ASSUME ManifestInv, pc \in {"closure", "order"}, pc' = "order", stack = << >>,
           UNCHANGED <<items, load, names, needed, stack, status, slot, alt, ranked>>
    PROVE  /\ Phases' /\ Gathering' /\ Candidates'
           /\ PlanIsLoadOrder' /\ Returned' /\ RanksByOutcome'
<1>1. Phases /\ Gathering /\ Candidates /\ status = "RUNNING"
  BY DEF ManifestInv, Phases
<1>2. Phases'
  BY <1>1 DEF Phases
<1>3. Gathering'
  BY <1>1, ItemsStable DEF Gathering
<1>4. Candidates'
  <2>1. Eligible' = Eligible
    BY ItemsStable DEF Eligible, Suits
  <2> QED
    BY <1>1, <2>1 DEF Candidates, Suits
<1>5. PlanIsLoadOrder' /\ Returned' /\ RanksByOutcome'
  BY <1>1 DEF PlanIsLoadOrder, Returned, RanksByOutcome
<1> QED
  BY <1>2, <1>3, <1>4, <1>5

\* Everything needed is marked: the queue starts with what depends on nothing.
LEMMA BeginOrderInv ==
    ASSUME ManifestInv, BeginOrder
    PROVE  ManifestInv'
<1> DEFINE S == {i \in needed : Len(items[i].dependencies) = 0}
<1>1. TypeOK /\ ManifestType /\ Phases /\ pc = "closure" /\ stack = << >> /\ pc' = "order"
  BY DEF ManifestInv, ManifestType, BeginOrder
<1>2. /\ indegree' = [i \in Index |-> IF i \in needed THEN Len(items[i].dependencies) ELSE 0]
      /\ queue' = Ready(indegree', [i \in Index |-> MaxManifests])
      /\ UNCHANGED <<items, load, names, needed, stack, popped, status, slot, alt, ranked>>
  BY DEF BeginOrder, ranking
<1>3. popped' = 0 /\ needed \in SUBSET Index /\ status = "RUNNING"
  BY <1>1, <1>2 DEF Phases, TypeOK
<1>4. Phases' /\ Gathering' /\ Candidates' /\ PlanIsLoadOrder' /\ Returned' /\ RanksByOutcome'
  BY <1>1, <1>2, OrderStands
<1>5. Index' = Index /\ \A i : Deps(i)' = Deps(i)
  BY <1>2, ItemsStable
<1>6. \A i \in Index : Len(items[i].dependencies) \in Nat
  BY <1>1, DepsFacts
<1>7. indegree' \in [Index -> Nat] /\ \A i \in needed : indegree'[i] = Len(items[i].dependencies)
  BY <1>2, <1>3, <1>6
<1>8. queue' = Ascending(S)
  <2>1. \A i \in needed : [x \in Index |-> MaxManifests][i] > 0
    BY <1>3, ManifestConstants
  <2>2. {i \in needed : indegree'[i] = 0 /\ [x \in Index |-> MaxManifests][i] > 0} = S
    BY <1>7, <2>1
  <2> QED
    BY <1>2, <2>2 DEF Ready
<1>9. S \in SUBSET needed /\ S \in SUBSET Index
  BY <1>3
<1>10. queue' \in Seq(S) /\ ToSet(queue') = S /\ IsInjective(queue')
  <2> HIDE DEF S
  <2> QED
    BY <1>1, <1>8, <1>9, IndicesFacts
<1>11. queue' \in Seq(needed')
  BY <1>2, <1>9, <1>10
<1>12. TypeOK'
  <2>1. \A i \in DOMAIN indegree' : indegree'[i] \in 0..Len(items[i].dependencies)
    BY <1>2, <1>6
  <2>2. popped' \in 0..Len(queue')
    BY <1>3, <1>11
  <2> QED
    BY <1>1, <1>2, <1>5, <1>11, <2>1, <2>2 DEF TypeOK
<1>13. ManifestType'
  BY <1>1, <1>2, <1>10, <1>11, <1>12 DEF ManifestType
<1>14. Ordering'
  <2>1. \A j \in needed : indegree'[j] = Len(items[j].dependencies) - Cardinality(Emitted(j)')
    <3>1. \A j : Emitted(j)' = {}
      BY <1>3 DEF Emitted
    <3>2. \A j : Cardinality(Emitted(j)') = 0
      BY <3>1, FS_EmptySet
    <3>3. \A j \in needed : Len(items[j].dependencies) = Len(items[j].dependencies) - 0
      BY <1>3, <1>6
    <3> QED
      BY <1>7, <3>2, <3>3
  <2>2. S = {i \in needed : indegree'[i] = 0}
    BY <1>7
  <2>3. \A k \in 1..Len(queue') : Deps(queue'[k]) = {}
    <3>1. \A i \in S : Deps(i) = {}
      <4>1. \A i \in S : items[i].dependencies \in Seq(Nat) /\ Len(items[i].dependencies) = 0
        BY <1>1, <1>9, ItemFacts
      <4> QED
        BY <4>1 DEF Deps, ToSet
    <3>2. \A k \in 1..Len(queue') : queue'[k] \in S
      BY <1>10
    <3> QED
      BY <3>1, <3>2
  <2> QED
    BY <1>2, <1>5, <1>7, <1>10, <2>1, <2>2, <2>3 DEF Ordering
<1> QED
  BY <1>4, <1>13, <1>14 DEF ManifestInv

\* A manifest is emitted: those that list it wait for one less, and those that
\* wait for nothing any more join the queue, behind all their dependencies.
LEMMA EmitInv ==
    ASSUME ManifestInv, Emit
    PROVE  ManifestInv'
<1> DEFINE m == popped + 1
           i == queue[m]
           n == items[i].name
           N == Len(queue)
           new == {j \in needed : indegree'[j] = 0 /\ indegree[j] > 0}
           r == Ascending(new)
           Lists(j) == Len(items[j].dependencies)
<1>1. /\ TypeOK /\ ManifestType /\ Phases /\ Gathering /\ Ordering
      /\ pc = "order" /\ pc' = "order" /\ stack = << >>
  BY DEF ManifestInv, ManifestType, Emit, Phases
<1>2. /\ popped < N /\ popped' = m
      /\ indegree' = [j \in Index |-> IF WaitsFor(j, i) THEN indegree[j] - 1 ELSE indegree[j]]
      /\ queue' = queue \o r
      /\ UNCHANGED <<items, load, names, needed, stack, status, slot, alt, ranked>>
  BY <1>1 DEF Emit, ranking, Ready
<1>3. Phases' /\ Gathering' /\ Candidates' /\ PlanIsLoadOrder' /\ Returned' /\ RanksByOutcome'
  BY <1>1, <1>2, OrderStands
<1>4. /\ N \in Nat /\ DOMAIN queue = 1..N /\ popped \in Nat /\ m \in 1..N
      /\ queue \in Seq(needed) /\ \A k \in 1..N : queue[k] \in needed
  BY <1>1, <1>2 DEF ManifestType, TypeOK
<1>5. needed \in SUBSET Index /\ \A a \in needed : FindByName(items[a].name) = a
  BY <1>1, ClosureFacts DEF TypeOK, Gathering
<1>6. i \in needed /\ i \in Index
  BY <1>4, <1>5
<1>7. \A k \in 1..popped : k \in 1..N /\ k # m
  BY <1>2, <1>4
<1>8. \A k \in 1..popped : items[queue[k]].name # n
  <2>1. \A k \in 1..popped : queue[k] # i
    BY <1>1, <1>4, <1>7 DEF ManifestType, IsInjective
  <2> QED
    BY <1>4, <1>5, <1>6, <1>7, <2>1
<1>9. /\ indegree \in [Index -> Nat]
      /\ \A j \in needed : indegree[j] = Lists(j) - Cardinality(Emitted(j))
      /\ ToSet(queue) = {j \in needed : indegree[j] = 0}
      /\ \A k \in 1..N : \A d \in Deps(queue[k]) :
            \E l \in 1..popped : l < k /\ queue[l] = FindByName(d)
  BY <1>1 DEF Ordering
<1>10. Index' = Index /\ \A j : Deps(j)' = Deps(j)
  BY <1>2, ItemsStable
<1>11. new \in SUBSET needed /\ new \in SUBSET Index
  BY <1>5
<1>12. r \in Seq(new) /\ ToSet(r) = new /\ IsInjective(r)
  <2> HIDE DEF new
  <2> QED
    BY <1>1, <1>11, IndicesFacts
<1> HIDE DEF r
<1>13. /\ queue' \in Seq(needed) /\ IsInjective(queue') /\ ToSet(queue') = ToSet(queue) \cup new
       /\ Len(queue') \in Nat /\ Len(queue') = N + Len(r) /\ Len(r) \in Nat
       /\ \A k \in 1..N : queue'[k] = queue[k]
       /\ \A k \in 1..Len(queue') : k \notin 1..N => queue'[k] \in new
  <2>1. r \in Seq(needed)
    BY <1>11, <1>12
  <2>2. ToSet(queue) \cap new = {}
    BY <1>9
  <2> HIDE DEF new
  <2>3. queue' \in Seq(needed) /\ IsInjective(queue') /\ ToSet(queue') = ToSet(queue) \cup new
    BY <1>1, <1>2, <1>4, <1>12, <2>1, <2>2, ConcatInjective DEF ManifestType
  <2>4. Len(queue') = N + Len(r) /\ Len(r) \in Nat /\ \A k \in 1..N : queue'[k] = queue[k]
    BY <1>2, <1>4, <2>1
  <2>5. \A k \in 1..Len(queue') : k \notin 1..N => k - N \in 1..Len(r) /\ queue'[k] = r[k - N]
    BY <1>2, <1>4, <2>1, <2>4
  <2> QED
    BY <1>4, <1>12, <2>3, <2>4, <2>5
<1> HIDE DEF m, i, n, N, Lists
<1>14. ASSUME NEW j \in needed
       PROVE  /\ Emitted(j) \subseteq Deps(j) /\ n \notin Emitted(j)
              /\ Emitted(j)' = IF n \in Deps(j) THEN Emitted(j) \cup {n} ELSE Emitted(j)
              /\ Emitted(j)' = {d \in Deps(j) : \E k \in 1..m : items[queue[k]].name = d}
  <2>1. Emitted(j) \subseteq Deps(j) /\ n \notin Emitted(j)
    BY <1>8 DEF Emitted
  <2>2. Emitted(j)' = {d \in Deps(j) : \E k \in 1..m : items[queue'[k]].name = d}
    BY <1>2, <1>10 DEF Emitted
  <2>3. \A k \in 1..m : k \in 1..N
    BY <1>4
  <2>4. Emitted(j)' = {d \in Deps(j) : \E k \in 1..m : items[queue[k]].name = d}
    BY <1>13, <2>2, <2>3
  <2>5. \A k : k \in 1..m <=> k \in 1..popped \/ k = m
    BY <1>4 DEF m
  <2> QED
    BY <2>1, <2>4, <2>5 DEF Emitted, i, n
<1>15. ASSUME NEW j \in needed
       PROVE  /\ indegree'[j] = Lists(j) - Cardinality(Emitted(j)') /\ Emitted(j)' \subseteq Deps(j)
              /\ indegree'[j] \in 0..Lists(j) /\ indegree'[j] <= indegree[j]
  <2> DEFINE c == Cardinality(Emitted(j))
             D == Cardinality(Deps(j))
  <2>1. /\ Lists(j) \in Nat /\ D \in Nat /\ D <= Lists(j)
        /\ \A E \in SUBSET Deps(j) : IsFiniteSet(E) /\ Cardinality(E) \in Nat /\ Cardinality(E) <= D
                                     /\ (Cardinality(E) = D => E = Deps(j))
    BY <1>1, <1>5, DepsFacts DEF Lists
  <2>2. indegree[j] \in Nat /\ indegree[j] = Lists(j) - c /\ c \in Nat /\ c <= D
    BY <1>5, <1>9, <1>14, <2>1
  <2>3. CASE n \in Deps(j)
    <3>1. Emitted(j)' = Emitted(j) \cup {n} /\ Emitted(j)' \subseteq Deps(j) /\ c # D
      BY <1>14, <2>1, <2>3
    <3>2. Cardinality(Emitted(j)') = c + 1
      BY <1>14, <2>1, <3>1, FS_AddElement
    <3>3. indegree[j] > 0
      BY <2>1, <2>2, <3>1
    <3>4. WaitsFor(j, i)
      BY <2>3, <3>3 DEF WaitsFor, Deps, n
    <3>5. indegree'[j] = indegree[j] - 1
      BY <1>2, <1>5, <3>4
    <3> QED
      BY <2>1, <2>2, <3>1, <3>2, <3>3, <3>5
  <2>4. CASE n \notin Deps(j)
    <3>1. ~WaitsFor(j, i)
      BY <2>4 DEF WaitsFor, Deps, n
    <3>2. indegree'[j] = indegree[j] /\ Emitted(j)' = Emitted(j)
      BY <1>2, <1>5, <1>14, <2>4, <3>1
    <3> QED
      BY <1>14, <2>1, <2>2, <3>2
  <2> QED
    BY <2>3, <2>4
<1>16. indegree' \in [Index -> Nat] /\ \A j \in Index : indegree'[j] \in 0..Lists(j)
  <2>1. \A j \in Index : indegree'[j] = indegree[j] \/ (j \in needed /\ WaitsFor(j, i))
    BY <1>2 DEF WaitsFor
  <2>2. \A j \in Index : indegree[j] \in Nat /\ indegree[j] \in 0..Lists(j)
    BY <1>1, <1>9 DEF TypeOK, Lists
  <2>3. \A j \in Index : indegree'[j] \in 0..Lists(j)
    BY <1>15, <2>1, <2>2
  <2>4. \A j \in Index : Lists(j) \in Nat
    BY <1>1, DepsFacts DEF Lists
  <2>5. \A j \in Index : indegree'[j] \in Nat
    BY <2>3, <2>4
  <2>6. indegree' = [j \in Index |-> indegree'[j]]
    BY <1>2
  <2> QED
    BY <2>3, <2>5, <2>6
<1>17. ToSet(queue') = {j \in needed : indegree'[j] = 0}
  <2>1. ASSUME NEW j \in needed PROVE indegree[j] = 0 => indegree'[j] = 0
    BY <1>5, <1>9, <1>15, <1>16, <2>1
  <2>2. ASSUME NEW j \in needed PROVE indegree[j] = 0 \/ indegree[j] > 0
    BY <1>5, <1>9, <2>2
  <2> QED
    BY <1>9, <1>13, <2>1, <2>2
<1>18. ASSUME NEW k \in 1..Len(queue'), NEW d \in Deps(queue'[k])
       PROVE  \E l \in 1..m : l < k /\ queue'[l] = FindByName(d)
  <2>1. \A l \in 1..m : l \in 1..N /\ queue'[l] = queue[l]
    BY <1>4, <1>13
  <2>2. CASE k \in 1..N
    <3>1. PICK l \in 1..popped : l < k /\ queue[l] = FindByName(d)
      BY <1>9, <1>13, <1>18, <2>2
    <3>2. l \in 1..m
      BY <1>4 DEF m
    <3> QED
      BY <2>1, <3>1, <3>2
  <2>3. CASE k \notin 1..N
    <3>1. PICK j \in needed : j = queue'[k] /\ indegree'[j] = 0
      BY <1>13, <2>3
    <3>2. Lists(j) - Cardinality(Emitted(j)') = 0 /\ Emitted(j)' \subseteq Deps(j)
      BY <1>15, <3>1
    <3>3. /\ Lists(j) \in Nat /\ Cardinality(Deps(j)) \in Nat /\ Cardinality(Deps(j)) <= Lists(j)
          /\ Cardinality(Emitted(j)') \in Nat /\ Cardinality(Emitted(j)') <= Cardinality(Deps(j))
          /\ (Cardinality(Emitted(j)') = Cardinality(Deps(j)) => Emitted(j)' = Deps(j))
      BY <1>1, <1>5, <3>1, <3>2, DepsFacts DEF Lists
    <3>4. Emitted(j)' = Deps(j)
      BY <3>2, <3>3
    <3>5. PICK l \in 1..m : items[queue[l]].name = d
      BY <1>14, <1>18, <3>1, <3>4
    <3>6. queue[l] = FindByName(d)
      BY <1>4, <1>5, <2>1, <3>5
    <3>7. l < k
      BY <1>4, <1>13, <1>18, <2>1, <2>3, <3>5
    <3> QED
      BY <2>1, <3>5, <3>6, <3>7
  <2> QED
    BY <2>2, <2>3
<1>19. Ordering'
  <2>1. \A d : FindByName(d)' = FindByName(d)
    BY <1>2, ItemsStable
  <2>2. \A j \in needed' : indegree'[j] = Len(items'[j].dependencies) - Cardinality(Emitted(j)')
    BY <1>2, <1>15 DEF Lists
  <2> QED
    BY <1>2, <1>10, <1>16, <1>17, <1>18, <2>1, <2>2 DEF Ordering
<1>20. TypeOK'
  <2>1. \A j \in DOMAIN indegree' : indegree'[j] \in 0..Len(items[j].dependencies)
    BY <1>16 DEF Lists
  <2>2. popped' \in 0..Len(queue')
    BY <1>2, <1>4, <1>13
  <2> QED
    BY <1>1, <1>2, <1>10, <1>13, <2>1, <2>2 DEF TypeOK
<1>21. ManifestType'
  BY <1>1, <1>2, <1>13, <1>20 DEF ManifestType
<1> QED
  BY <1>3, <1>19, <1>21 DEF ManifestInv

\* When the stack has run empty, what is marked is the closure and nothing in
\* it is missing.
LEMMA GatheredFacts ==
    ASSUME ManifestInv, pc = "order"
    PROVE  /\ needed = Closure(names) /\ needed \subseteq Index
           /\ \A i \in needed : \A d \in Deps(i) : FindByName(d) \in needed
           /\ ~SomeMissing(names)
<1>1. TypeOK /\ Gathering /\ stack = << >>
  BY DEF ManifestInv, ManifestType, Phases
<1>2. ToSet(stack) = {} /\ needed \in SUBSET Index /\ 0 \notin Index
  BY <1>1, ItemFacts DEF ToSet, TypeOK
<1>3. /\ AllFound(names) /\ Roots(names) \subseteq needed /\ needed \subseteq Closure(names)
      /\ \A i \in needed : \A d \in Deps(i) : FindByName(d) \in needed
  BY <1>1, <1>2 DEF Gathering
<1>4. Closed(needed)
  BY <1>3 DEF Closed, Deps
<1>5. needed = Closure(names)
  BY <1>1, <1>2, <1>3, <1>4, ClosureFacts
<1>6. \A i \in needed : AllFound(items[i].dependencies)
  <2>1. \A i \in needed : \A d \in Deps(i) : FindByName(d) # 0
    BY <1>2, <1>3
  <2>2. \A i \in needed : items[i].dependencies \in Seq(Nat)
    BY <1>1, <1>2, ItemFacts
  <2> QED
    BY <1>1, <2>1, <2>2, AllFoundFacts DEF Deps
<1> QED
  BY <1>2, <1>3, <1>5, <1>6 DEF SomeMissing

\* The queue holds everything needed exactly if nothing needed is on a cycle
\* or lists a dependency twice.
LEMMA QueueFacts ==
    ASSUME ManifestInv, pc = "order", popped = Len(queue)
    PROVE  ToSet(queue) = needed <=> ~SomeCycle(names) /\ ~ListsTwice(names)
<1> DEFINE Lists(j) == Len(items[j].dependencies)
<1>1. TypeOK /\ ManifestType /\ Ordering
  BY DEF ManifestInv, ManifestType
<1>2. /\ needed = Closure(names) /\ needed \subseteq Index
      /\ \A i \in needed : \A d \in Deps(i) : FindByName(d) \in needed
  BY GatheredFacts
<1>3. /\ \A j \in needed : indegree[j] \in Nat /\ indegree[j] = Lists(j) - Cardinality(Emitted(j))
      /\ ToSet(queue) = {j \in needed : indegree[j] = 0}
      /\ \A k \in 1..Len(queue) : \A d \in Deps(queue[k]) :
            \E l \in 1..popped : l < k /\ queue[l] = FindByName(d)
  BY <1>1, <1>2 DEF Ordering
<1>4. Len(queue) \in Nat /\ DOMAIN queue = 1..Len(queue) /\ ToSet(queue) = {queue[k] : k \in 1..Len(queue)}
  BY <1>1 DEF ManifestType, ToSet
<1>5. ASSUME NEW j \in needed
      PROVE  /\ Lists(j) \in Nat /\ Cardinality(Deps(j)) \in Nat /\ Cardinality(Deps(j)) <= Lists(j)
             /\ Emitted(j) \subseteq Deps(j) /\ Cardinality(Emitted(j)) \in Nat
             /\ Cardinality(Emitted(j)) <= Cardinality(Deps(j))
  <2>1. Emitted(j) \subseteq Deps(j)
    BY DEF Emitted
  <2> QED
    BY <1>1, <1>2, <2>1, DepsFacts
<1>6. ASSUME ToSet(queue) = needed PROVE ~ListsTwice(names)
  <2>1. \A j \in needed : indegree[j] = 0
    BY <1>3, <1>6
  <2>2. ASSUME NEW j \in needed PROVE Cardinality(Deps(j)) = Lists(j)
    <3>1. Lists(j) - Cardinality(Emitted(j)) = 0
      BY <1>3, <2>1, <2>2
    <3> HIDE DEF Lists
    <3> QED
      BY <1>5, <3>1
  <2> QED
    BY <1>2, <2>2 DEF ListsTwice, Deps
<1>7. ASSUME ToSet(queue) = needed PROVE ~SomeCycle(names)
  <2> SUFFICES ASSUME NEW S \in SUBSET needed, S # {},
                      \A i \in S : \E d \in Deps(i) : FindByName(d) \in S
               PROVE  FALSE
    BY <1>2 DEF SomeCycle, Deps
  <2> DEFINE K == {k \in 1..Len(queue) : queue[k] \in S}
  <2>1. K # {} /\ K \subseteq Nat
    BY <1>4, <1>7
  <2>2. PICK k \in K : \A l \in K : k <= l
    BY <2>1, LeastNatural
  <2>3. PICK d \in Deps(queue[k]) : FindByName(d) \in S
    BY <2>2
  <2>4. PICK l \in 1..popped : l < k /\ queue[l] = FindByName(d)
    BY <1>3, <2>2, <2>3
  <2>5. l \in K /\ ~(k <= l)
    BY <1>4, <2>2, <2>3, <2>4
  <2> QED
    BY <2>2, <2>5
<1>8. ASSUME ToSet(queue) # needed, ~ListsTwice(names) PROVE SomeCycle(names)
  <2> DEFINE R == needed \ ToSet(queue)
  <2>1. R # {} /\ R \in SUBSET needed
    BY <1>3, <1>8
  <2>2. ASSUME NEW j \in R PROVE \E d \in Deps(j) : FindByName(d) \in R
    <3>1. j \in needed /\ indegree[j] # 0
      BY <1>3, <2>2
    <3>2. Cardinality(Deps(j)) = Lists(j)
      BY <1>2, <1>8, <3>1 DEF ListsTwice, Deps
    <3>3. Lists(j) - Cardinality(Emitted(j)) # 0
      BY <1>3, <3>1
    <3>4. Emitted(j) # Deps(j) /\ Emitted(j) \subseteq Deps(j)
      <4> HIDE DEF Lists
      <4> QED
        BY <1>5, <3>1, <3>2, <3>3
    <3>5. PICK d \in Deps(j) : d \notin Emitted(j)
      BY <3>4
    <3>6. FindByName(d) \in needed /\ FindByName(d) # 0
      BY <1>1, <1>2, <3>1, ItemFacts
    <3>7. items[FindByName(d)].name = d
      BY <1>1, <3>6, FindFacts
    <3>8. FindByName(d) \notin ToSet(queue)
      BY <1>4, <3>5, <3>7 DEF Emitted
    <3> QED
      BY <3>6, <3>8
  <2> QED
    BY <1>2, <2>1, <2>2 DEF SomeCycle, Deps
<1> QED
  BY <1>6, <1>7, <1>8

\* The verdict: everything needed was emitted, or not.
LEMMA EndOrderInv ==
    ASSUME ManifestInv, EndOrder
    PROVE  ManifestInv'
<1>1. /\ TypeOK /\ ManifestType /\ Phases /\ Ordering /\ pc = "order" /\ popped = Len(queue)
      /\ stack = << >>
  BY DEF ManifestInv, ManifestType, Phases, EndOrder
<1>2. /\ status' = Verdict /\ pc' = Caller
      /\ UNCHANGED <<items, load, names, needed, stack, indegree, queue, popped, slot, alt, ranked>>
  BY DEF EndOrder, ranking
<1>3. status' \in {"OK", "CYCLE"} /\ pc' \in {"idle", "rank"}
  BY <1>2 DEF Verdict, Caller
<1>4. Phases' /\ Gathering' /\ Ordering' /\ Candidates' /\ RanksByOutcome'
  BY <1>1, <1>2, <1>3, ReturnInv
<1>5. ManifestType'
  <2>1. TypeOK'
    BY <1>1, <1>2, <1>3, ItemsStable DEF TypeOK
  <2> QED
    BY <1>1, <1>2, <2>1 DEF ManifestType
<1>6. needed = Closure(names) /\ ~SomeMissing(names) /\ needed \subseteq Index
  BY <1>1, GatheredFacts
<1>7. status' = "OK" <=> ToSet(queue) = needed
  <2>1. IsFiniteSet(needed)
    BY <1>1, <1>6, ItemFacts, FS_Subset
  <2>2. /\ Len(queue) = Cardinality(needed) => ToSet(queue) = needed
        /\ Cardinality(ToSet(queue)) = Len(queue)
    BY <1>1, <2>1, InjectiveLength DEF ManifestType
  <2>3. popped = Cardinality(needed) <=> ToSet(queue) = needed
    BY <1>1, <2>2
  <2> QED
    BY <1>2, <2>3 DEF Verdict
<1>8. Returned'
  <2>1. status' = Outcome(names)
    BY <1>1, <1>3, <1>6, <1>7, QueueFacts DEF Outcome
  <2> QED
    BY <1>2, <2>1, ItemsStable DEF Returned
<1>9. PlanIsLoadOrder'
  <2>1. Plan = queue
    BY <1>1 DEF Plan, ManifestType
  <2>2. Plan' = queue
    BY <1>2, <2>1 DEF Plan
  <2>3. \A k \in 1..Len(queue) : \A d \in Deps(queue[k]) :
           FindByName(d) \in {queue[l] : l \in 1..(k - 1)}
    <3> SUFFICES ASSUME NEW k \in 1..Len(queue), NEW d \in Deps(queue[k])
                 PROVE  \E l \in 1..(k - 1) : queue[l] = FindByName(d)
      OBVIOUS
    <3>1. PICK l \in 1..popped : l < k /\ queue[l] = FindByName(d)
      BY <1>1 DEF Ordering
    <3>2. Len(queue) \in Nat
      BY <1>1 DEF ManifestType
    <3>3. l \in 1..(k - 1)
      BY <1>1, <3>1, <3>2
    <3> QED
      BY <3>1, <3>3
  <2> QED
    BY <1>2, <1>6, <1>7, <2>2, <2>3, ItemsStable DEF PlanIsLoadOrder, Deps
<1> QED
  BY <1>4, <1>5, <1>8, <1>9 DEF ManifestInv
-----------------------------------------------------------------------------
(***************************************************************************)
(* The ranking.                                                            *)
(***************************************************************************)

\* The ranking starts with the first manifest, or ends at once if there is none.
LEMMA RankInv ==
    ASSUME ManifestInv, NEW s \in Slot, Rank(s)
    PROVE  ManifestInv'
<1>1. TypeOK /\ ManifestType /\ Phases /\ pc = "idle" /\ alt = 0 /\ stack = << >>
  BY DEF ManifestInv, ManifestType, Phases, Rank
<1>2. /\ slot' = s /\ ranked' = << >> /\ status' = "NONE"
      /\ IF items = << >> THEN alt' = 0 /\ pc' = "idle" ELSE alt' = 1 /\ pc' = "rank"
      /\ UNCHANGED <<items, load, names, needed, stack, indegree, queue, popped>>
  BY <1>1 DEF Rank
<1>3. Index' = Index /\ Len(items) \in Nat /\ Index = 1..Len(items) /\ (items # << >> => Len(items) # 0)
  BY <1>1, <1>2, ItemsStable, ItemFacts DEF TypeOK
<1>4. ManifestType'
  <2>1. alt' \in 0..Len(items) /\ ranked' \in Seq(Index) /\ IsInjective(ranked')
    BY <1>2, <1>3 DEF IsInjective
  <2>2. TypeOK'
    BY <1>1, <1>2, <1>3, <2>1 DEF TypeOK
  <2> QED
    BY <1>1, <1>2, <2>1, <2>2 DEF ManifestType
<1>5. Phases' /\ Gathering' /\ Ordering'
  BY <1>1, <1>2 DEF Phases, Gathering, Ordering
<1>6. PlanIsLoadOrder' /\ Returned'
  BY <1>2 DEF PlanIsLoadOrder, Returned
<1>7. ToSet(ranked') = {} /\ Len(ranked') = 0
  BY <1>2 DEF ToSet
<1>8. Candidates'
  <2>1. Eligible' \subseteq Index
    BY <1>3 DEF Eligible
  <2>2. \A i \in Index : ~(i < 1)
    BY <1>3
  <2>3. \A i \in Eligible' : ~(i < 1)
    BY <2>1, <2>2
  <2> QED
    BY <1>2, <1>7, <2>3 DEF Candidates
<1>9. RanksByOutcome'
  <2>1. CASE items = << >>
    <3>1. Index = {} /\ OutCap \in Nat
      BY <1>3, <2>1, ManifestConstants
    <3>2. Cardinality({}) = 0
      BY FS_EmptySet
    <3>3. 0 = IF 0 < OutCap THEN 0 ELSE OutCap
      BY <3>1
    <3>4. \A k \in 1..0 : FALSE
      OBVIOUS
    <3> QED
      BY <1>3, <1>7, <3>1, <3>2, <3>3, <3>4 DEF RanksByOutcome, Eligible
  <2>2. CASE items # << >>
    BY <1>2, <2>2 DEF RanksByOutcome
  <2> QED
    BY <2>1, <2>2
<1> QED
  BY <1>4, <1>5, <1>6, <1>8, <1>9 DEF ManifestInv

\* A manifest is a candidate exactly if it is eligible.
LEMMA RankNextInv ==
    ASSUME ManifestInv, RankNext
    PROVE  ManifestInv'
<1> DEFINE ok == Suits(items[alt], slot) /\ status = "OK"
<1>1. /\ TypeOK /\ ManifestType /\ Phases /\ Candidates /\ Returned
      /\ pc = "rank" /\ alt # 0 /\ stack = << >>
  BY DEF ManifestInv, ManifestType, Phases, RankNext
<1>2. /\ Suits(items[alt], slot) => status # "NONE"
      /\ ranked' = IF ok THEN Append(ranked, alt) ELSE ranked
      /\ status' = "NONE"
      /\ IF alt < Len(items) THEN alt' = alt + 1 /\ pc' = "rank" ELSE alt' = 1 /\ pc' = "sort"
      /\ UNCHANGED <<items, load, names, needed, stack, indegree, queue, popped, slot>>
  BY <1>1 DEF RankNext
<1>3. Len(items) \in Nat /\ Index = 1..Len(items) /\ alt \in Index /\ Index' = Index
  BY <1>1, <1>2, ItemFacts, ItemsStable DEF TypeOK
<1>4. Eligible' = Eligible /\ Eligible \subseteq Index
  BY <1>2, ItemsStable DEF Eligible, Suits
<1>5. ok <=> alt \in Eligible
  <2>1. ok => Outcome(<<items[alt].name>>) = "OK"
    BY <1>1 DEF Candidates, Returned
  <2>2. (Suits(items[alt], slot) /\ Outcome(<<items[alt].name>>) = "OK") => status = "OK"
    <3>1. status \in {"NONE", "OK", "MISSING", "CYCLE"}
      BY <1>1 DEF Phases, TypeOK
    <3> QED
      BY <1>1, <1>2, <3>1 DEF Candidates, Returned
  <2> QED
    BY <1>3, <2>1, <2>2 DEF Eligible
<1> HIDE DEF ok
<1>6. ranked \in Seq(Index) /\ IsInjective(ranked) /\ ToSet(ranked) = {i \in Eligible : i < alt}
  BY <1>1 DEF ManifestType, TypeOK, Candidates
<1>7. /\ ranked' \in Seq(Index) /\ IsInjective(ranked')
      /\ ToSet(ranked') = {i \in Eligible : i < alt} \cup (Eligible \cap {alt})
  <2>1. CASE ok
    <3> DEFINE t == <<alt>>
    <3>1. t \in Seq(Index) /\ IsInjective(t) /\ ToSet(t) = {alt}
      <4>1. t \in Seq(Index) /\ DOMAIN t = {1} /\ t[1] = alt
        BY <1>3
      <4> HIDE DEF t
      <4> QED
        BY <4>1 DEF IsInjective, ToSet
    <3>2. ranked' = ranked \o t
      BY <1>2, <1>3, <1>6, <2>1
    <3>3. ToSet(ranked) \cap ToSet(t) = {}
      BY <1>3, <1>6, <3>1
    <3> HIDE DEF t
    <3> QED
      BY <1>5, <1>6, <2>1, <3>1, <3>2, <3>3, ConcatInjective
  <2>2. CASE ~ok
    BY <1>2, <1>5, <1>6, <2>2
  <2> QED
    BY <2>1, <2>2
<1>8. ManifestType'
  <2>1. alt' \in 0..Len(items)
    BY <1>2, <1>3
  <2>2. TypeOK'
    BY <1>1, <1>2, <1>3, <1>7, <2>1 DEF TypeOK
  <2> QED
    BY <1>1, <1>2, <1>7, <2>2 DEF ManifestType
<1>9. Phases'
  <2>1. alt' # 0 /\ pc' \in {"rank", "sort"}
    BY <1>2, <1>3
  <2> QED
    BY <1>1, <1>2, <2>1 DEF Phases
<1>10. Candidates'
  <2>1. CASE alt < Len(items)
    <3>1. \A i \in Eligible : i < alt + 1 <=> i < alt \/ i = alt
      BY <1>3, <1>4
    <3>2. ToSet(ranked') = {i \in Eligible : i < alt'}
      BY <1>2, <1>7, <2>1, <3>1
    <3> QED
      BY <1>2, <1>4, <2>1, <3>2 DEF Candidates
  <2>2. CASE ~(alt < Len(items))
    <3>1. \A i \in Eligible : i < alt \/ i = alt
      BY <1>3, <1>4, <2>2
    <3>2. ToSet(ranked') = Eligible
      BY <1>7, <3>1
    <3>3. \A k, l \in 1..Len(ranked') : ~(k < l /\ l <= 1)
      OBVIOUS
    <3> QED
      BY <1>2, <1>4, <2>2, <3>2, <3>3 DEF Candidates
  <2> QED
    BY <2>1, <2>2
<1>11. Gathering' /\ Ordering' /\ PlanIsLoadOrder' /\ Returned' /\ RanksByOutcome'
  BY <1>2 DEF Gathering, Ordering, PlanIsLoadOrder, Returned, RanksByOutcome
<1> QED
  BY <1>8, <1>9, <1>10, <1>11 DEF ManifestInv

\* should_shift compares by score and then by name: a strict order.
LEMMA ShiftsFacts ==
    ASSUME TypeOK, NEW a \in Index, NEW b \in Index
    PROVE  /\ Shifts(a, b) => ~Shifts(b, a)
           /\ \A c \in Index : (~Shifts(a, b) /\ ~Shifts(b, c)) => ~Shifts(a, c)
<1>1. \A c \in Index : items[c].name \in Int /\ items[c].score \in Int
  BY ItemFacts
<1> QED
  BY <1>1 DEF Shifts

\* A turn of the sort permutes the candidates and has one more of them in order.
LEMMA InsertFacts ==
    ASSUME TypeOK, NEW s \in Seq(Index), IsInjective(s), NEW n \in 2..Len(s),
           \A k, l \in 1..Len(s) : (k < l /\ l <= n - 1) => ~Shifts(s[k], s[l])
    PROVE  /\ Insert(s, n) \in Seq(Index) /\ IsInjective(Insert(s, n))
           /\ Len(Insert(s, n)) = Len(s) /\ ToSet(Insert(s, n)) = ToSet(s)
           /\ \A k, l \in 1..Len(s) :
                 (k < l /\ l <= n) => ~Shifts(Insert(s, n)[k], Insert(s, n)[l])
<1> DEFINE N == Len(s)
           stay == {k \in 1..(n - 1) : ~Shifts(s[k], s[n])}
           last == CHOOSE k \in stay : \A l \in stay : l <= k
           at == IF stay = {} THEN 1 ELSE 1 + last
           p == [k \in 1..N |-> IF k < at \/ k > n THEN k ELSE IF k = at THEN n ELSE k - 1]
           t == Insert(s, n)
<1>1. N \in Nat /\ n \in Nat /\ 2 <= n /\ n <= N /\ DOMAIN s = 1..N /\ \A k \in 1..N : s[k] \in Index
  OBVIOUS
<1>2. stay # {} => last \in stay /\ \A l \in stay : l <= last
  <2> SUFFICES ASSUME stay # {} PROVE \E k \in stay : \A l \in stay : l <= k
    OBVIOUS
  <2> DEFINE T == {n - k : k \in stay}
  <2>1. T \subseteq Nat /\ T # {}
    BY <1>1
  <2>2. PICK x \in T : \A y \in T : x <= y
    BY <2>1, LeastNatural
  <2>3. PICK k \in stay : x = n - k
    BY <2>2
  <2>4. \A l \in stay : n - k <= n - l
    BY <2>2, <2>3
  <2>5. \A l \in stay : l <= k
    BY <1>1, <2>4
  <2> QED
    BY <2>5
<1>3. /\ at \in 1..n
      /\ \A k \in 1..(n - 1) : at <= k => Shifts(s[k], s[n])
      /\ at # 1 => at - 1 \in 1..(n - 1) /\ ~Shifts(s[at - 1], s[n])
  <2>1. CASE stay = {}
    BY <1>1, <2>1
  <2>2. CASE stay # {}
    <3>1. last \in 1..(n - 1) /\ ~Shifts(s[last], s[n]) /\ at = 1 + last /\ \A l \in stay : l <= last
      BY <1>2, <2>2
    <3> HIDE DEF last, at
    <3>2. \A k \in 1..(n - 1) : at <= k => k \notin stay
      BY <1>1, <3>1
    <3>3. at - 1 = last /\ at \in 1..n
      BY <1>1, <3>1
    <3> QED
      BY <3>1, <3>2, <3>3
  <2> QED
    BY <2>1, <2>2
<1>4. t = [k \in 1..N |-> IF k < at \/ k > n THEN s[k] ELSE IF k = at THEN s[n] ELSE s[k - 1]]
  BY DEF Insert
<1> HIDE DEF last, at, stay
<1>5. p \in [1..N -> 1..N]
  BY <1>1, <1>3
<1>6. \A k, l \in 1..N : p[k] = p[l] => k = l
  BY <1>1, <1>3
<1>7. \A q \in 1..N : \E k \in 1..N : p[k] = q
  <2> SUFFICES ASSUME NEW q \in 1..N PROVE \E k \in 1..N : p[k] = q
    OBVIOUS
  <2>1. CASE q < at \/ q > n
    BY <2>1
  <2>2. CASE q = n
    <3>1. at \in 1..N /\ p[at] = n
      BY <1>1, <1>3
    <3> QED
      BY <2>2, <3>1
  <2>3. CASE at <= q /\ q < n
    <3>1. q + 1 \in 1..N /\ p[q + 1] = q
      BY <1>1, <1>3, <2>3
    <3> QED
      BY <3>1
  <2> QED
    BY <1>1, <1>3, <2>1, <2>2, <2>3
<1>8. \A k \in 1..N : t[k] = s[p[k]]
  BY <1>4
<1>9. t \in Seq(Index) /\ Len(t) = N /\ DOMAIN t = 1..N
  <2>1. t = [k \in 1..N |-> s[p[k]]]
    BY <1>4
  <2> HIDE DEF t, p
  <2>2. \A k \in 1..N : s[p[k]] \in Index
    BY <1>1, <1>5
  <2> QED
    BY <1>1, <2>1, <2>2
<1> HIDE DEF t, p
<1>10. IsInjective(t)
  <2> SUFFICES ASSUME NEW k \in 1..N, NEW l \in 1..N, t[k] = t[l] PROVE k = l
    BY <1>9 DEF IsInjective
  <2>1. p[k] \in 1..N /\ p[l] \in 1..N /\ s[p[k]] = s[p[l]]
    BY <1>5, <1>8
  <2>2. p[k] = p[l]
    BY <1>1, <2>1 DEF IsInjective
  <2> QED
    BY <1>6, <2>2
<1>11. ToSet(t) = ToSet(s)
  <2>1. ToSet(t) = {t[k] : k \in 1..N} /\ ToSet(s) = {s[k] : k \in 1..N}
    BY <1>1, <1>9 DEF ToSet
  <2>2. \A k \in 1..N : \E q \in 1..N : t[k] = s[q]
    BY <1>5, <1>8
  <2>3. ASSUME NEW q \in 1..N PROVE \E k \in 1..N : t[k] = s[q]
    <3>1. PICK k \in 1..N : p[k] = q
      BY <1>7
    <3> QED
      BY <1>8, <3>1
  <2> HIDE DEF N
  <2> QED
    BY <2>1, <2>2, <2>3
<1>12. ASSUME NEW k \in 1..N, NEW l \in 1..N, k < l, l <= n
       PROVE  ~Shifts(t[k], t[l])
  <2>1. /\ \A j \in 1..n : j < at => t[j] = s[j]
        /\ t[at] = s[n]
        /\ \A j \in 1..n : j > at => j - 1 \in 1..(n - 1) /\ t[j] = s[j - 1]
    BY <1>1, <1>3, <1>4
  <2>2. \A x, y \in 1..(n - 1) : x < y => ~Shifts(s[x], s[y])
    BY <1>1
  <2>3. k \in 1..n /\ l \in 1..n /\ \A j \in 1..(n - 1) : j \in 1..N
    BY <1>1, <1>12
  <2>4. CASE l < at
    <3>1. k \in 1..(n - 1) /\ l \in 1..(n - 1) /\ t[k] = s[k] /\ t[l] = s[l]
      BY <1>1, <1>3, <1>12, <2>1, <2>3, <2>4
    <3> QED
      BY <1>12, <2>2, <3>1
  <2>5. CASE l = at
    <3>1. at # 1 /\ k \in 1..(n - 1) /\ t[k] = s[k] /\ t[l] = s[n] /\ (k = at - 1 \/ k < at - 1)
      BY <1>1, <1>3, <1>12, <2>1, <2>3, <2>5
    <3>2. at - 1 \in 1..(n - 1) /\ ~Shifts(s[at - 1], s[n])
      BY <1>3, <3>1
    <3>3. k < at - 1 => ~Shifts(s[k], s[at - 1])
      BY <2>2, <3>1, <3>2
    <3>4. s[k] \in Index /\ s[at - 1] \in Index /\ s[n] \in Index
      BY <1>1, <2>3, <3>1, <3>2
    <3> QED
      BY <3>1, <3>2, <3>3, <3>4, ShiftsFacts
  <2>6. CASE l > at
    <3>1. l - 1 \in 1..(n - 1) /\ t[l] = s[l - 1] /\ at <= l - 1
      BY <1>1, <1>3, <1>12, <2>1, <2>3, <2>6
    <3>2. CASE k < at
      <4>1. k \in 1..(n - 1) /\ t[k] = s[k] /\ k < l - 1
        BY <1>1, <1>3, <2>1, <2>3, <3>1, <3>2
      <4> QED
        BY <2>2, <3>1, <4>1
    <3>3. CASE k = at
      <4>1. t[k] = s[n] /\ Shifts(s[l - 1], s[n])
        BY <1>3, <2>1, <3>1, <3>3
      <4>2. s[l - 1] \in Index /\ s[n] \in Index
        BY <1>1, <2>3, <3>1
      <4> QED
        BY <3>1, <4>1, <4>2, ShiftsFacts
    <3>4. CASE k > at
      <4>1. k - 1 \in 1..(n - 1) /\ t[k] = s[k - 1] /\ k - 1 < l - 1
        BY <1>1, <1>3, <1>12, <2>1, <2>3, <3>4
      <4> QED
        BY <2>2, <3>1, <4>1
    <3> QED
      BY <1>1, <1>3, <3>2, <3>3, <3>4
  <2> QED
    BY <1>1, <1>3, <2>4, <2>5, <2>6
<1> QED
  BY <1>9, <1>10, <1>11, <1>12 DEF t, N

\* A turn of the sort.
LEMMA SortInv ==
    ASSUME ManifestInv, Sort
    PROVE  ManifestInv'
<1> DEFINE n == alt + 1
<1>1. TypeOK /\ ManifestType /\ Phases /\ Candidates /\ pc = "sort" /\ alt # 0 /\ stack = << >>
  BY DEF ManifestInv, ManifestType, Phases, Sort
<1>2. /\ alt < Len(ranked) /\ alt' = n /\ ranked' = Insert(ranked, n)
      /\ UNCHANGED <<items, load, pc, names, needed, stack, indegree, queue, popped, status, slot>>
  BY DEF Sort, resolution
<1>3. ranked \in Seq(Index) /\ IsInjective(ranked) /\ alt \in Nat /\ Len(ranked) \in Nat
  BY <1>1, ItemFacts DEF ManifestType, TypeOK
<1>4. n \in 2..Len(ranked) /\ n - 1 = alt /\ n \in Nat
  BY <1>1, <1>2, <1>3
<1>5. Len(ranked) <= Len(items) /\ Len(items) \in Nat
  <2>1. IsFiniteSet(Index) /\ Cardinality(Index) = Len(items) /\ Len(items) \in Nat
    BY <1>1, ItemFacts
  <2> QED
    BY <1>3, <2>1, InjectiveLength
<1>6. \A k, l \in 1..Len(ranked) : (k < l /\ l <= n - 1) => ~Shifts(ranked[k], ranked[l])
  BY <1>1, <1>4 DEF Candidates
<1> HIDE DEF n
<1>7. /\ ranked' \in Seq(Index) /\ IsInjective(ranked')
      /\ Len(ranked') = Len(ranked) /\ ToSet(ranked') = ToSet(ranked)
      /\ \A k, l \in 1..Len(ranked) : (k < l /\ l <= n) => ~Shifts(ranked'[k], ranked'[l])
  BY <1>1, <1>2, <1>3, <1>4, <1>6, InsertFacts
<1>8. Index' = Index /\ Eligible' = Eligible /\ \A i, j : Shifts(i, j)' = Shifts(i, j)
  BY <1>2, ItemsStable DEF Eligible, Suits
<1>9. ManifestType'
  <2>1. alt' \in 0..Len(items)
    BY <1>2, <1>4, <1>5
  <2>2. TypeOK'
    BY <1>1, <1>2, <1>7, <1>8, <2>1 DEF TypeOK
  <2> QED
    BY <1>1, <1>2, <1>7, <2>2 DEF ManifestType
<1>10. Phases' /\ Gathering' /\ Ordering'
  <2>1. alt' # 0
    BY <1>2, <1>4
  <2> QED
    BY <1>1, <1>2, <2>1 DEF Phases, Gathering, Ordering
<1>11. Candidates'
  <2>1. ToSet(ranked') = Eligible'
    BY <1>1, <1>7, <1>8 DEF Candidates
  <2>2. (\A k, l \in 1..Len(ranked) : (k < l /\ l <= alt) => ~Shifts(ranked[k], ranked[l]))'
    BY <1>2, <1>7 DEF Shifts
  <2> QED
    BY <1>1, <1>2, <2>1, <2>2 DEF Candidates
<1>12. PlanIsLoadOrder' /\ Returned' /\ RanksByOutcome'
  <2>1. RanksByOutcome'
    BY <1>1, <1>2 DEF RanksByOutcome
  <2> QED
    BY <1>2, <2>1, ResultsStand
<1> QED
  BY <1>9, <1>10, <1>11, <1>12 DEF ManifestInv

\* The caller gets the best of the candidates.
LEMMA EndRankInv ==
    ASSUME ManifestInv, EndRank
    PROVE  ManifestInv'
<1> DEFINE N == Len(ranked)
           c == IF N < OutCap THEN N ELSE OutCap
<1>1. TypeOK /\ ManifestType /\ Phases /\ Candidates /\ pc = "sort" /\ alt # 0 /\ stack = << >>
  BY DEF ManifestInv, ManifestType, Phases, EndRank
<1>2. /\ alt >= N /\ alt' = 0 /\ ranked' = SubSeq(ranked, 1, c) /\ pc' = "idle"
      /\ UNCHANGED <<items, load, names, needed, stack, indegree, queue, popped, status, slot>>
  BY DEF EndRank, resolution
<1>3. /\ ranked \in Seq(Index) /\ IsInjective(ranked) /\ alt \in Nat /\ N \in Nat
      /\ DOMAIN ranked = 1..N /\ OutCap \in Nat
  BY <1>1, ItemFacts, ManifestConstants DEF ManifestType, TypeOK
<1>4. c \in Nat /\ c <= N
  BY <1>3
<1> HIDE DEF c
<1>5. /\ ranked' \in Seq(Index) /\ Len(ranked') = c /\ DOMAIN ranked' = 1..c
      /\ \A k \in 1..c : k \in 1..N /\ ranked'[k] = ranked[k]
  <2>1. \A k \in 1..c : k \in 1..N
    BY <1>3, <1>4
  <2> QED
    BY <1>2, <1>3, <1>4, <2>1
<1>6. IsInjective(ranked')
  BY <1>3, <1>5 DEF IsInjective
<1>7. Index' = Index /\ Eligible' = Eligible
  BY <1>2, ItemsStable DEF Eligible, Suits
<1>8. ToSet(ranked) = Eligible /\ Eligible \subseteq Index
  BY <1>1 DEF Candidates, Eligible
<1>9. Cardinality(Eligible) = N
  <2>1. IsFiniteSet(Index)
    BY <1>1, ItemFacts
  <2> QED
    BY <1>3, <1>8, <2>1, InjectiveLength
<1>10. ManifestType'
  <2>1. alt' \in 0..Len(items)
    BY <1>1, <1>2, ItemFacts
  <2>2. TypeOK'
    BY <1>1, <1>2, <1>5, <1>7, <2>1 DEF TypeOK
  <2> QED
    BY <1>1, <1>2, <1>6, <2>2 DEF ManifestType
<1>11. Phases' /\ Gathering' /\ Ordering' /\ Candidates'
  BY <1>1, <1>2 DEF Phases, Gathering, Ordering, Candidates
<1>12. PlanIsLoadOrder' /\ Returned'
  BY <1>2, ResultsStand
<1>13. RanksByOutcome'
  <2>1. ToSet(ranked') \subseteq Eligible
    <3>1. \A k \in 1..N : ranked[k] \in Eligible
      BY <1>3, <1>8 DEF ToSet
    <3> QED
      BY <1>5, <3>1 DEF ToSet
  <2>2. Len(ranked') = IF Cardinality(Eligible) < OutCap THEN Cardinality(Eligible) ELSE OutCap
    BY <1>5, <1>9 DEF c
  <2>3. ASSUME NEW k \in 1..Len(ranked'), NEW i \in Eligible \ {ranked'[l] : l \in 1..k}
        PROVE  ~Shifts(ranked'[k], i)
    <3>1. PICK q \in 1..N : ranked[q] = i
      BY <1>3, <1>8, <2>3 DEF ToSet
    <3>2. ~(q <= k)
      <4> SUFFICES ASSUME q <= k PROVE FALSE
        OBVIOUS
      <4>1. q \in 1..k /\ q \in 1..c
        BY <1>3, <1>4, <1>5, <2>3, <3>1
      <4> QED
        BY <1>5, <2>3, <3>1, <4>1
    <3>3. k \in 1..N /\ ranked'[k] = ranked[k] /\ k < q /\ q <= alt
      BY <1>2, <1>3, <1>4, <1>5, <2>3, <3>1, <3>2
    <3> QED
      BY <1>1, <3>1, <3>3 DEF Candidates
  <2> HIDE DEF N
  <2>4. /\ ToSet(ranked') \subseteq Eligible'
        /\ Len(ranked') = IF Cardinality(Eligible') < OutCap THEN Cardinality(Eligible') ELSE OutCap
        /\ \A k \in 1..Len(ranked') :
              \A i \in Eligible' \ {ranked'[l] : l \in 1..k} : ~Shifts(ranked'[k], i)
    BY <1>7, <2>1, <2>2, <2>3
  <2>5. \A k, i : Shifts(k, i)' = Shifts(k, i)
    BY <1>2, ItemsStable
  <2> QED
    BY <1>2, <2>4, <2>5 DEF RanksByOutcome, Eligible, Shifts
<1> QED
  BY <1>10, <1>11, <1>12, <1>13 DEF ManifestInv
-----------------------------------------------------------------------------
(***************************************************************************)
(* The theorems.                                                           *)
(***************************************************************************)

\* Nothing is loaded yet.
LEMMA InitInv ==
    ASSUME Init
    PROVE  ManifestInv
<1>1. /\ items = << >> /\ load = "LOADING" /\ pc = "load" /\ names = << >> /\ needed = {}
      /\ stack = << >> /\ indegree = << >> /\ queue = << >> /\ popped = 0 /\ status = "NONE"
      /\ slot = NoSlot /\ alt = 0 /\ ranked = << >>
  BY DEF Init
<1>2. TypeOK
  <2>1. Len(items) = 0 /\ Len(queue) = 0 /\ DOMAIN indegree = {} /\ MaxManifests \in Nat
    BY <1>1, ManifestConstants
  <2> QED
    BY <1>1, <2>1 DEF TypeOK
<1>3. ManifestType /\ Phases
  BY <1>1, <1>2 DEF ManifestType, Phases, IsInjective
<1>4. Gathering /\ Ordering /\ Candidates
  BY <1>1 DEF Gathering, Ordering, Candidates
<1>5. PlanIsLoadOrder /\ Returned /\ RanksByOutcome
  BY <1>1 DEF PlanIsLoadOrder, Returned, RanksByOutcome
<1> QED
  BY <1>3, <1>4, <1>5 DEF ManifestInv

\* A step that changes nothing.
LEMMA StutterInv ==
    ASSUME ManifestInv, UNCHANGED vars
    PROVE  ManifestInv'
<1>1. UNCHANGED <<items, load, pc, names, needed, stack, indegree, queue, popped, status,
                  slot, alt, ranked>>
  BY DEF vars, resolution, ranking
<1>2. ManifestType /\ Phases /\ Gathering /\ Ordering /\ Candidates
  BY DEF ManifestInv
<1>3. ManifestType'
  BY <1>1, <1>2 DEF ManifestType, TypeOK, Index
<1>4. Phases'
  BY <1>1, <1>2 DEF Phases
<1>5. Gathering'
  BY <1>1, <1>2, ItemsStable DEF Gathering
<1>6. Ordering'
  <2>1. \A j : Emitted(j)' = Emitted(j)
    BY <1>1, ItemsStable DEF Emitted
  <2> QED
    BY <1>1, <1>2, <2>1, ItemsStable DEF Ordering
<1>7. Candidates'
  <2>1. Eligible' = Eligible
    BY <1>1, ItemsStable DEF Eligible, Suits
  <2> QED
    BY <1>1, <1>2, <2>1, ItemsStable DEF Candidates, Suits, Shifts
<1>8. PlanIsLoadOrder' /\ Returned' /\ RanksByOutcome'
  BY <1>1, ResultsStand, RankingStands
<1> QED
  BY <1>3, <1>4, <1>5, <1>6, <1>7, <1>8 DEF ManifestInv

\* Every step of loading, resolution and ranking keeps the invariant.
THEOREM ManifestCorrect == Spec => []ManifestInv
<1>1. Init => ManifestInv
  BY InitInv
<1>2. ManifestInv /\ [Next]_vars => ManifestInv'
  <2> SUFFICES ASSUME ManifestInv, [Next]_vars PROVE ManifestInv'
    OBVIOUS
  <2>1. CASE \E f \in File : LoadFile(f)
    BY <2>1, LoadFileInv
  <2>2. CASE EndOfDir
    BY <2>2, EndOfDirInv
  <2>3. CASE \E wanted \in Request : Resolve(wanted)
    BY <2>3, ResolveInv
  <2>4. CASE Visit
    BY <2>4, VisitInv
  <2>5. CASE BeginOrder
    BY <2>5, BeginOrderInv
  <2>6. CASE Emit
    BY <2>6, EmitInv
  <2>7. CASE EndOrder
    BY <2>7, EndOrderInv
  <2>8. CASE \E s \in Slot : Rank(s)
    BY <2>8, RankInv
  <2>9. CASE RankResolve
    BY <2>9, RankResolveInv
  <2>10. CASE RankNext
    BY <2>10, RankNextInv
  <2>11. CASE Sort
    BY <2>11, SortInv
  <2>12. CASE EndRank
    BY <2>12, EndRankInv
  <2>13. CASE UNCHANGED vars
    BY <2>13, StutterInv
  <2> QED
    BY <2>1, <2>2, <2>3, <2>4, <2>5, <2>6, <2>7, <2>8, <2>9, <2>10, <2>11, <2>12, <2>13 DEF Next
<1> QED
  BY <1>1, <1>2, PTL DEF Spec

\* stack and queue of obicall_manifest_resolve never overflow, whatever cycles
\* and repetitions the manifests hold.
THEOREM ArraysSuffice == Spec => []WithinArrays
<1>1. ManifestInv => WithinArrays
  <2> SUFFICES ASSUME ManifestInv PROVE WithinArrays
    OBVIOUS
  <2>1. TypeOK /\ ManifestType
    BY DEF ManifestInv, ManifestType
  <2>2. /\ IsFiniteSet(Index) /\ Cardinality(Index) = Len(items) /\ Len(items) \in Nat
        /\ Len(items) <= MaxManifests /\ MaxManifests \in Nat /\ needed \subseteq Index
    BY <2>1, ItemFacts, ManifestConstants DEF TypeOK
  <2>3. stack \in Seq(Index) /\ queue \in Seq(Index) /\ IsInjective(stack) /\ IsInjective(queue)
    BY <2>1, <2>2 DEF ManifestType
  <2>4. Len(stack) <= Len(items) /\ Len(queue) <= Len(items)
    BY <2>2, <2>3, InjectiveLength
  <2>5. Len(stack) \in Nat /\ Len(queue) \in Nat
    BY <2>3
  <2> QED
    BY <2>2, <2>3, <2>4, <2>5 DEF WithinArrays
<1> QED
  BY <1>1, ManifestCorrect, PTL

\* A plan of obicall_manifest_resolve holds what is needed and nothing else,
\* each manifest after everything it depends on.
THEOREM PlansAreLoadOrders == Spec => []PlanIsLoadOrder
<1>1. ManifestInv => PlanIsLoadOrder
  BY DEF ManifestInv
<1> QED
  BY <1>1, ManifestCorrect, PTL

\* obicall_manifest_resolve refuses exactly what is missing something or is
\* cyclic, unless something needed lists a dependency twice.
THEOREM RefusalsAreExact == Spec => []RefusesExactly
<1>1. ManifestInv => RefusesExactly
  BY DEF ManifestInv, Returned, Outcome, RefusesExactly, Answer
<1> QED
  BY <1>1, ManifestCorrect, PTL

\* Where no artifact was changed and nothing is listed twice,
\* obicall_manifest_rank_alternatives gives the best of the eligible manifests,
\* in order, as many as the caller has room for.
THEOREM RankingsAreRight == Spec => []RankingIsRight
<1>1. ASSUME ManifestInv
      PROVE  RankingIsRight
  <2> DEFINE eligible == {i \in Index : /\ Suits(items[i], slot) /\ items[i].intact
                                        /\ Answer(<<items[i].name>>) = "OK"}
  <2>1. \A w : ~ListsTwice(w) => Outcome(w) = Answer(w)
    BY DEF Outcome, Answer
  <2>2. Ordinary => eligible = Eligible
    BY <2>1 DEF Ordinary, Eligible
  <2>3. RanksByOutcome
    BY <1>1 DEF ManifestInv
  <2> HIDE DEF eligible
  <2> QED
    BY <2>2, <2>3 DEF RanksByOutcome, RankingIsRight, eligible
<1> QED
  BY <1>1, ManifestCorrect, PTL
=============================================================================
