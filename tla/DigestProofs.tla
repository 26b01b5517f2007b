---------------------------- MODULE DigestProofs ----------------------------
(***************************************************************************)
(* ConfigurationDigest is canonical: for lists of any length, two          *)
(* declarations have one digest exactly when they bind the same, whatever  *)
(* order they list it in.                                                  *)
(***************************************************************************)
EXTENDS Digest, FunctionTheorems, FiniteSetTheorems, TLAPS

(* A list's positions can be compared by what stands there.                *)
Total(less, s) ==
  /\ \A i \in DOMAIN s : <<s[i], s[i]>> \notin less
  /\ \A i, j \in DOMAIN s : i # j => <<s[i], s[j]>> \in less \/ <<s[j], s[i]>> \in less
  /\ \A i, j, k \in DOMAIN s :
       <<s[i], s[j]>> \in less /\ <<s[j], s[k]>> \in less => <<s[i], s[k]>> \in less

(***************************************************************************)
(* Sorting                                                                 *)
(***************************************************************************)
(* Another order of a list lists the same.                                 *)
LEMMA OrdersKeep ==
  ASSUME NEW s, NEW t \in Orders(s)
  PROVE  DOMAIN t = DOMAIN s /\ Range(t) = Range(s)
<1>1. PICK p \in Bijection(DOMAIN s, DOMAIN s) : t = [i \in DOMAIN s |-> s[p[i]]]
  BY DEF Orders
<1>2. p \in [DOMAIN s -> DOMAIN s] /\ \A j \in DOMAIN s : \E i \in DOMAIN s : p[i] = j
  BY DEF Bijection, Surjection
<1> QED
  BY <1>1, <1>2 DEF Range

(* Lists of the same elements, none twice, are orders of each other.       *)
LEMMA OrdersOfOne ==
  ASSUME NEW n \in Nat, NEW m \in Nat,
         NEW s, DOMAIN s = 1..n, IsInjective(s),
         NEW t, DOMAIN t = 1..m, IsInjective(t), Range(s) = Range(t),
         NEW u \in Orders(s)
  PROVE  m = n /\ u \in Orders(t)
<1> DEFINE inv == [k \in 1..m |-> CHOOSE i \in 1..n : s[i] = t[k]]
           V == Range(s)
<1>0. /\ \A k \in 1..m : inv[k] \in 1..n /\ s[inv[k]] = t[k]
      /\ inv \in [1..m -> 1..n]
  <2>1. \A k \in 1..m : \E i \in 1..n : s[i] = t[k]
    BY DEF Range
  <2> QED
    BY <2>1
<1> HIDE DEF inv
<1>1. \A i \in 1..n : \E k \in 1..m : inv[k] = i
  <2> SUFFICES ASSUME NEW i \in 1..n PROVE \E k \in 1..m : inv[k] = i
    OBVIOUS
  <2>1. PICK k \in 1..m : t[k] = s[i]
    BY DEF Range
  <2>2. inv[k] = i
    BY <1>0, <2>1 DEF IsInjective
  <2> QED
    BY <2>2
<1>2. \A k, l \in 1..m : inv[k] = inv[l] => k = l
  <2> SUFFICES ASSUME NEW k \in 1..m, NEW l \in 1..m, inv[k] = inv[l] PROVE k = l
    OBVIOUS
  <2>1. t[k] = t[l]
    BY <1>0
  <2> QED
    BY <2>1 DEF IsInjective
<1>3. inv \in Bijection(1..m, 1..n)
  BY <1>0, <1>1, <1>2 DEF Bijection, Injection, Surjection, IsInjective
<1>4. m = n
  <2>1. ExistsBijection(1..m, 1..n)
    BY <1>3 DEF ExistsBijection
  <2>2. /\ IsFiniteSet(1..m) /\ Cardinality(1..m) = IF 1 > m THEN 0 ELSE m - 1 + 1
        /\ Cardinality(1..n) = IF 1 > n THEN 0 ELSE n - 1 + 1
    BY FS_Interval
  <2>3. Cardinality(1..m) = Cardinality(1..n)
    BY <2>1, <2>2, FS_Bijection
  <2> QED
    BY <2>2, <2>3
<1>5. PICK p \in Bijection(1..n, 1..n) : u = [i \in 1..n |-> s[p[i]]]
  BY DEF Orders
<1> DEFINE back == Inverse(inv, 1..m, 1..n)
           q == [i \in 1..n |-> back[p[i]]]
<1>6. /\ back \in Bijection(1..n, 1..m)
      /\ \A i \in 1..n : inv[back[i]] = i
  <2>1. back \in Bijection(1..n, 1..m) /\ Range(inv) = 1..n
    BY <1>3, Fun_BijInverse, Fun_BijectionProperties, Fun_SurjectionProperties
  <2> QED
    BY <1>0, <2>1, Fun_InverseProperties
<1>7. q \in Bijection(1..n, 1..m)
  BY <1>6, Fun_BijTransitive
<1>8. u = [i \in 1..m |-> t[q[i]]]
  <2>1. ASSUME NEW i \in 1..n PROVE s[p[i]] = t[q[i]]
    <3> HIDE DEF back
    <3>1. p \in [1..n -> 1..n]
      BY Fun_BijectionProperties
    <3>3. back \in [1..n -> 1..m]
      BY <1>6, Fun_BijectionProperties
    <3>2. p[i] \in 1..n /\ back[p[i]] \in 1..m
      BY <3>1, <3>3
    <3> QED
      BY <1>0, <1>6, <3>2
  <2> QED
    BY <1>4, <1>5, <2>1
<1> QED
  BY <1>4, <1>7, <1>8 DEF Orders

(* A list without repetition has an order in which nothing comes too late: *)
(* each element stands at the place which is the number of those up to it. *)
LEMMA SortedExists ==
  ASSUME NEW n \in Nat, NEW s, DOMAIN s = 1..n, NEW less, Total(less, s)
  PROVE  \E t \in Orders(s) : \A i, j \in DOMAIN s : i < j => <<t[j], t[i]>> \notin less
<1> DEFINE Upto(i) == {k \in 1..n : k = i \/ <<s[k], s[i]>> \in less}
           rank == [i \in 1..n |-> Cardinality(Upto(i))]
<1>1. IsFiniteSet(1..n) /\ Cardinality(1..n) = n
  BY FS_Interval
<1>2. ASSUME NEW i \in 1..n
      PROVE  IsFiniteSet(Upto(i)) /\ Cardinality(Upto(i)) \in 1..n
  <2>1. Upto(i) \in SUBSET (1..n) /\ i \in Upto(i)
    OBVIOUS
  <2> HIDE DEF Upto
  <2>2. IsFiniteSet(Upto(i)) /\ Cardinality(Upto(i)) <= n
    BY <1>1, <2>1, FS_Subset
  <2>4. Cardinality(Upto(i)) \in Nat
    BY <2>2, FS_CardinalityType
  <2>3. Cardinality(Upto(i)) # 0
    BY <2>1, <2>2, FS_EmptySet
  <2> QED
    BY <2>2, <2>3, <2>4
<1>3. ASSUME NEW i \in 1..n, NEW j \in 1..n, <<s[i], s[j]>> \in less
      PROVE  rank[i] < rank[j]
  <2>1. Upto(i) \subseteq Upto(j) /\ j \in Upto(j) /\ j \notin Upto(i)
    BY <1>3 DEF Total
  <2>4. rank[i] = Cardinality(Upto(i)) /\ rank[j] = Cardinality(Upto(j))
    OBVIOUS
  <2> HIDE DEF Upto, rank
  <2>2. Upto(i) # Upto(j) /\ Upto(i) \in SUBSET Upto(j)
    BY <2>1
  <2>3. Cardinality(Upto(i)) <= Cardinality(Upto(j)) /\ Cardinality(Upto(i)) # Cardinality(Upto(j))
    BY <1>2, <2>2, FS_Subset
  <2> QED
    BY <1>2, <2>3, <2>4
<1>4. rank \in [1..n -> 1..n]
  BY <1>2
<1> HIDE DEF rank, Upto
<1>5. \A i, j \in 1..n : rank[i] = rank[j] => i = j
  <2> SUFFICES ASSUME NEW i \in 1..n, NEW j \in 1..n, rank[i] = rank[j], i # j PROVE FALSE
    OBVIOUS
  <2>1. <<s[i], s[j]>> \in less \/ <<s[j], s[i]>> \in less
    BY DEF Total
  <2>2. rank[i] \in Nat /\ rank[j] \in Nat
    BY <1>4
  <2> QED
    BY <1>3, <2>1, <2>2
<1>6. rank \in Bijection(1..n, 1..n)
  <2>1. rank \in Injection(1..n, 1..n)
    BY <1>4, <1>5 DEF Injection, IsInjective
  <2>2. rank \in Surjection(1..n, 1..n)
    BY <1>1, <2>1, FS_Injection
  <2> QED
    BY <2>1, <2>2 DEF Bijection
<1> DEFINE p == Inverse(rank, 1..n, 1..n)
           t == [i \in 1..n |-> s[p[i]]]
<1>7. /\ p \in Bijection(1..n, 1..n) /\ p \in [1..n -> 1..n]
      /\ \A i \in 1..n : rank[p[i]] = i
  <2>1. p \in Bijection(1..n, 1..n) /\ Range(rank) = 1..n
    BY <1>6, Fun_BijInverse, Fun_BijectionProperties, Fun_SurjectionProperties
  <2> HIDE DEF p
  <2>2. p \in [1..n -> 1..n]
    BY <2>1, Fun_BijectionProperties
  <2>3. \A i \in 1..n : rank[p[i]] = i
    BY <1>4, <2>1, Fun_InverseProperties DEF p
  <2> QED
    BY <2>1, <2>2, <2>3
<1> HIDE DEF p
<1>8. t \in Orders(s)
  BY <1>7 DEF Orders
<1>9. ASSUME NEW i \in 1..n, NEW j \in 1..n, i < j
      PROVE  <<t[j], t[i]>> \notin less
  <2>1. p[i] \in 1..n /\ p[j] \in 1..n /\ rank[p[i]] = i /\ rank[p[j]] = j
    BY <1>7
  <2>2. ~(j < i)
    BY <1>9
  <2> QED
    BY <1>3, <2>1, <2>2
<1> QED
  BY <1>8, <1>9

(* What is sorted lists the same.                                          *)
LEMMA SortedKeeps ==
  ASSUME NEW n \in Nat, NEW s, DOMAIN s = 1..n, NEW less, Total(less, s)
  PROVE  Range(SortedBy(s, less)) = Range(s)
<1>1. SortedBy(s, less) \in Orders(s)
  BY SortedExists DEF SortedBy
<1> QED
  BY <1>1, OrdersKeep

(* Lists without repetition are sorted into one exactly when they list the *)
(* same.                                                                   *)
LEMMA SortPins ==
  ASSUME NEW n \in Nat, NEW s, DOMAIN s = 1..n, IsInjective(s), NEW less, Total(less, s),
         NEW m \in Nat, NEW t, DOMAIN t = 1..m, IsInjective(t), NEW before, Total(before, t),
         Range(s) = Range(t) => less = before
  PROVE  SortedBy(s, less) = SortedBy(t, before) <=> Range(s) = Range(t)
<1>1. ASSUME Range(s) = Range(t) PROVE SortedBy(s, less) = SortedBy(t, before)
  <2>1. Orders(s) \subseteq Orders(t)
    BY <1>1, OrdersOfOne
  <2>2. Orders(t) \subseteq Orders(s)
    BY <1>1, OrdersOfOne
  <2>3. DOMAIN s = DOMAIN t
    <3>1. \E u : u \in Orders(s)
      BY SortedExists
    <3> QED
      BY <1>1, <3>1, OrdersOfOne
  <2>4. Orders(s) = Orders(t)
    BY <2>1, <2>2
  <2> QED
    BY <1>1, <2>3, <2>4 DEF SortedBy
<1> QED
  BY <1>1, SortedKeeps

(* So are lists of names.                                                  *)
LEMMA SortedPins ==
  ASSUME NEW s \in Seq(Nat), IsInjective(s), NEW t \in Seq(Nat), IsInjective(t)
  PROVE  Sorted(s) = Sorted(t) <=> Range(s) = Range(t)
<1>1. ASSUME NEW u \in Seq(Nat), IsInjective(u)
      PROVE  Total(Alphabetical(u), u)
  <2>1. \A i \in DOMAIN u : u[i] \in Nat /\ u[i] \in Range(u)
    BY DEF Range
  <2>2. \A i, j \in DOMAIN u : <<u[i], u[j]>> \in Alphabetical(u) <=> u[i] < u[j]
    BY <2>1 DEF Alphabetical
  <2> QED
    BY <1>1, <2>1, <2>2 DEF Total, IsInjective
<1>2. Range(s) = Range(t) => Alphabetical(s) = Alphabetical(t)
  BY DEF Alphabetical
<1>3. /\ Len(s) \in Nat /\ DOMAIN s = 1..Len(s)
      /\ Len(t) \in Nat /\ DOMAIN t = 1..Len(t)
  OBVIOUS
<1>4. Total(Alphabetical(s), s) /\ Total(Alphabetical(t), t)
  BY <1>1
<1> QED
  BY <1>2, <1>3, <1>4, SortPins DEF Sorted

(***************************************************************************)
(* Dependencies                                                            *)
(***************************************************************************)
(* With their endpoints sorted, dependencies are told apart by coordinates.*)
LEMMA EndpointsSortedOnly ==
  ASSUME NEW r, Declarable(r),
         NEW s, s = EndpointsSorted(r.dependencies)
  PROVE  /\ Len(r.dependencies) \in Nat /\ DOMAIN s = 1..Len(r.dependencies)
         /\ IsInjective(s) /\ Total(ByCoordinates(s), s)
<1> DEFINE d == r.dependencies
<1>1. /\ Len(d) \in Nat /\ DOMAIN d = 1..Len(d) /\ \A i \in DOMAIN d : d[i] \in Dependency
  BY DEF Declarable
<1>2. DOMAIN s = DOMAIN d
  BY DEF EndpointsSorted
<1>3. ASSUME NEW i \in DOMAIN d
      PROVE  /\ s[i].module = d[i].module /\ s[i].name = d[i].name
             /\ s[i].module \in Nat /\ s[i].name \in Nat /\ s[i] \in Range(s)
  <2>1. s[i] = [d[i] EXCEPT !.endpoints = Sorted(@)]
    BY DEF EndpointsSorted
  <2>2. s[i] \in Range(s)
    BY <1>2 DEF Range
  <2> QED
    BY <1>1, <2>1, <2>2 DEF Dependency
<1>4. \A i, j \in DOMAIN d : s[i].module = s[j].module /\ s[i].name = s[j].name => i = j
  BY <1>3 DEF Declarable
<1>5. ASSUME NEW i \in DOMAIN d, NEW j \in DOMAIN d
      PROVE  <<s[i], s[j]>> \in ByCoordinates(s) <=>
               \/ s[i].module < s[j].module
               \/ s[i].module = s[j].module /\ s[i].name < s[j].name
  BY <1>3 DEF ByCoordinates
<1> HIDE DEF d
<1>6. IsInjective(s)
  BY <1>2, <1>4 DEF IsInjective
<1>7. Total(ByCoordinates(s), s)
  <2>1. \A i \in DOMAIN s : <<s[i], s[i]>> \notin ByCoordinates(s)
    BY <1>2, <1>3, <1>5
  <2>2. ASSUME NEW i \in DOMAIN s, NEW j \in DOMAIN s, i # j
        PROVE  <<s[i], s[j]>> \in ByCoordinates(s) \/ <<s[j], s[i]>> \in ByCoordinates(s)
    BY <1>2, <1>3, <1>4, <1>5, <2>2
  <2>3. ASSUME NEW i \in DOMAIN s, NEW j \in DOMAIN s, NEW k \in DOMAIN s,
               <<s[i], s[j]>> \in ByCoordinates(s), <<s[j], s[k]>> \in ByCoordinates(s)
        PROVE  <<s[i], s[k]>> \in ByCoordinates(s)
    BY <1>2, <1>3, <1>5, <2>3
  <2> QED
    BY <2>1, <2>2, <2>3 DEF Total
<1> QED
  BY <1>1, <1>2, <1>6, <1>7 DEF d

(* What is digested of dependencies says what they are bound to.           *)
LEMMA DependenciesPin ==
  ASSUME NEW r, Declarable(r), NEW q, Declarable(q)
  PROVE  Range(EndpointsSorted(r.dependencies)) = Range(EndpointsSorted(q.dependencies))
           <=> Bound(r).dependencies = Bound(q).dependencies
<1> DEFINE Digested(d) == [d EXCEPT !.endpoints = Sorted(@)]
           Listed(d) == [d EXCEPT !.endpoints = Range(@)]
           D == Range(r.dependencies)
           E == Range(q.dependencies)
<1>1. /\ Range(EndpointsSorted(r.dependencies)) = {Digested(d) : d \in D}
      /\ Range(EndpointsSorted(q.dependencies)) = {Digested(d) : d \in E}
  BY DEF EndpointsSorted, Range
<1>2. /\ Bound(r).dependencies = {Listed(d) : d \in D}
      /\ Bound(q).dependencies = {Listed(d) : d \in E}
  BY DEF Bound
<1>3. ASSUME NEW d \in D, NEW e \in E
      PROVE  Digested(d) = Digested(e) <=> Listed(d) = Listed(e)
  <2>1. /\ d \in Dependency /\ IsInjective(d.endpoints)
        /\ e \in Dependency /\ IsInjective(e.endpoints)
    BY DEF Range, Declarable
  <2>2. d.endpoints \in Seq(Nat) /\ e.endpoints \in Seq(Nat)
    BY <2>1 DEF Dependency
  <2>3. Sorted(d.endpoints) = Sorted(e.endpoints) <=> Range(d.endpoints) = Range(e.endpoints)
    BY <2>1, <2>2, SortedPins
  <2>4. Digested(d) = Digested(e) <=>
          /\ d.module = e.module /\ d.name = e.name /\ d.kind = e.kind
          /\ Sorted(d.endpoints) = Sorted(e.endpoints)
    BY <2>1 DEF Dependency
  <2>5. Listed(d) = Listed(e) <=>
          /\ d.module = e.module /\ d.name = e.name /\ d.kind = e.kind
          /\ Range(d.endpoints) = Range(e.endpoints)
    BY <2>1 DEF Dependency
  <2> QED
    BY <2>3, <2>4, <2>5
<1> HIDE DEF Digested, Listed, D, E
<1>4. {Digested(d) : d \in D} = {Digested(d) : d \in E} <=>
        /\ \A d \in D : \E e \in E : Digested(d) = Digested(e)
        /\ \A e \in E : \E d \in D : Digested(d) = Digested(e)
  OBVIOUS
<1>5. {Listed(d) : d \in D} = {Listed(d) : d \in E} <=>
        /\ \A d \in D : \E e \in E : Listed(d) = Listed(e)
        /\ \A e \in E : \E d \in D : Listed(d) = Listed(e)
  OBVIOUS
<1>6. {Digested(d) : d \in D} = {Digested(d) : d \in E}
        <=> {Listed(d) : d \in D} = {Listed(d) : d \in E}
  BY <1>3, <1>4, <1>5
<1> QED
  BY <1>1, <1>2, <1>6

(* Two declarations digest alike exactly when they are bound alike and run *)
(* under the same execution: the order in which either lists its           *)
(* configurations, dependencies and endpoints does not count, and nothing  *)
(* that they list is left out (ConfigurationDigest).                       *)
THEOREM DigestIsCanonical ==
  ASSUME NEW r, Declarable(r), NEW q, Declarable(q)
  PROVE  ConfigurationDigest(r) = ConfigurationDigest(q)
           <=> Bound(r) = Bound(q) /\ Execution(r.execution) = Execution(q.execution)
<1> DEFINE D(c) == EndpointsSorted(c.dependencies)
           S(c) == SortedBy(D(c), ByCoordinates(D(c)))
<1>1. Sorted(r.configurations) = Sorted(q.configurations)
        <=> Range(r.configurations) = Range(q.configurations)
  BY SortedPins DEF Declarable
<1>2. S(r) = S(q) <=> Range(D(r)) = Range(D(q))
  <2>1. Range(D(r)) = Range(D(q)) => ByCoordinates(D(r)) = ByCoordinates(D(q))
    BY DEF ByCoordinates
  <2> HIDE DEF D
  <2>2. /\ Len(r.dependencies) \in Nat /\ DOMAIN D(r) = 1..Len(r.dependencies)
        /\ IsInjective(D(r)) /\ Total(ByCoordinates(D(r)), D(r))
    BY EndpointsSortedOnly DEF D
  <2>3. /\ Len(q.dependencies) \in Nat /\ DOMAIN D(q) = 1..Len(q.dependencies)
        /\ IsInjective(D(q)) /\ Total(ByCoordinates(D(q)), D(q))
    BY EndpointsSortedOnly DEF D
  <2> QED
    BY <2>1, <2>2, <2>3, SortPins
<1>3. Range(D(r)) = Range(D(q)) <=> Bound(r).dependencies = Bound(q).dependencies
  BY DependenciesPin
<1>4. Execution(r.execution) = Execution(q.execution) =>
        /\ GetCompletion(r.execution) = GetCompletion(q.execution)
        /\ r.execution.cancellation = q.execution.cancellation
        /\ Bytes(r.execution.max_log_bytes) = Bytes(q.execution.max_log_bytes)
  BY DEF Execution, Executions, Declarable
<1>5. Bound(r) = Bound(q) <=>
        /\ Range(r.configurations) = Range(q.configurations)
        /\ Bound(r).dependencies = Bound(q).dependencies
        /\ GetCompletion(r.execution) = GetCompletion(q.execution)
        /\ r.execution.cancellation = q.execution.cancellation
        /\ Bytes(r.execution.max_log_bytes) = Bytes(q.execution.max_log_bytes)
        /\ r.spec = q.spec
  BY DEF Bound
<1>6. ConfigurationDigest(r) = ConfigurationDigest(q) <=>
        /\ Sorted(r.configurations) = Sorted(q.configurations)
        /\ S(r) = S(q)
        /\ Execution(r.execution) = Execution(q.execution)
        /\ r.spec = q.spec
  BY DEF ConfigurationDigest
<1> HIDE DEF S, D
<1> QED
  BY <1>1, <1>2, <1>3, <1>4, <1>5, <1>6
=============================================================================
