------------------------- MODULE SubsequenceProofs -------------------------
(***************************************************************************)
(* Theorems about Subsequence: it lists each of the chosen places once, in *)
(* their order.  The places of a finite set of numbers that have k - 1     *)
(* others below them are exactly one for each k up to its size, because    *)
(* the count of those below is an injection into an interval of that size. *)
(***************************************************************************)
EXTENDS Subsequences, Functions, FiniteSetTheorems, TLAPS

\* Each place of a finite set of numbers has a rank of its own, and each rank a place.
LEMMA Ranks ==
    ASSUME NEW places \in SUBSET Nat, IsFiniteSet(places)
    PROVE  /\ Cardinality(places) \in Nat
           /\ \A i \in places : Cardinality({j \in places : j < i}) \in 0..(Cardinality(places) - 1)
           /\ \A i, j \in places :
                  i < j => Cardinality({x \in places : x < i}) < Cardinality({x \in places : x < j})
           /\ \A k \in 1..Cardinality(places) :
                  \E i \in places : Cardinality({j \in places : j < i}) = k - 1
  <1> DEFINE N == Cardinality(places)
             Below(i) == {j \in places : j < i}
             rank(i) == Cardinality(Below(i))
  <1>1. N \in Nat
    BY FS_CardinalityType
  <1>2. ASSUME NEW i \in places PROVE IsFiniteSet(Below(i)) /\ rank(i) \in 0..(N - 1)
    <2>1. Below(i) \in SUBSET places /\ i \notin Below(i)
      OBVIOUS
    <2>2. IsFiniteSet(Below(i)) /\ rank(i) <= N /\ (N = rank(i) => places = Below(i))
      BY <2>1, FS_Subset
    <2>3. rank(i) \in Nat
      BY <2>2, FS_CardinalityType
    <2> QED BY <1>1, <1>2, <2>1, <2>2, <2>3
  <1>3. ASSUME NEW i \in places, NEW j \in places, i < j PROVE rank(i) < rank(j)
    <2>1. Below(i) \in SUBSET Below(j) /\ i \in Below(j) /\ i \notin Below(i)
      <3>1. \A x \in places : x \in Nat
        OBVIOUS
      <3>2. \A x \in places : x < i => x < j
        BY <1>3, <3>1
      <3>3. ~(i < i)
        BY <3>1
      <3> QED BY <1>3, <3>2, <3>3, Zenon
    <2>2. IsFiniteSet(Below(j))
      BY <1>2
    <2>3. rank(i) <= rank(j) /\ (rank(j) = rank(i) => Below(j) = Below(i))
      BY <2>1, <2>2, FS_Subset
    <2>4. rank(i) \in Nat /\ rank(j) \in Nat
      BY <1>1, <1>2
    <2> QED BY <2>1, <2>3, <2>4
  <1>4. ASSUME NEW k \in 1..N PROVE \E i \in places : rank(i) = k - 1
    <2> DEFINE placed == [i \in places |-> rank(i) + 1]
    <2> HIDE DEF Below
    <2>1. placed \in [places -> 1..N]
      BY <1>1, <1>2
    <2>2. \A i, j \in places : placed[i] = placed[j] => i = j
      <3> TAKE i, j \in places
      <3>1. rank(i) \in Int /\ rank(j) \in Int /\ i \in Int /\ j \in Int
        BY <1>1, <1>2
      <3> QED BY <1>3, <3>1
    <2>3. placed \in Injection(places, 1..N)
      BY <2>1, <2>2 DEF Injection, IsInjective
    <2>4. IsFiniteSet(1..N) /\ Cardinality(1..N) = N
      BY <1>1, FS_Interval
    <2> HIDE DEF placed
    <2>5. placed \in Surjection(places, 1..N)
      BY <2>3, <2>4, FS_Injection
    <2>6. PICK i \in places : placed[i] = k
      BY <2>5 DEF Surjection
    <2> QED BY <1>1, <1>2, <2>6 DEF placed
  <1> QED BY <1>1, <1>2, <1>3, <1>4

\* A subsequence lists the elements at the chosen places, each place once and in order.
THEOREM SubsequenceLists ==
    ASSUME NEW T, NEW s \in Seq(T), NEW places \in SUBSET DOMAIN s
    PROVE  /\ Subsequence(s, places) \in Seq(T)
           /\ Len(Subsequence(s, places)) = Cardinality(places)
           /\ \E place \in Bijection(1..Cardinality(places), places) :
                  /\ \A k \in 1..Cardinality(places) : Subsequence(s, places)[k] = s[place[k]]
                  /\ \A j, k \in 1..Cardinality(places) : j < k => place[j] < place[k]
  <1> DEFINE rank(i) == Cardinality({j \in places : j < i})
  <1>1. PICK N : N = Cardinality(places)
    OBVIOUS
  <1>2. IsFiniteSet(places) /\ places \in SUBSET Nat
    <2>1. DOMAIN s = 1..Len(s) /\ Len(s) \in Nat
      OBVIOUS
    <2>2. IsFiniteSet(1..Len(s))
      BY <2>1, FS_Interval
    <2> QED BY <2>1, <2>2, FS_Subset
  <1>3. /\ N \in Nat
        /\ \A i \in places : rank(i) \in 0..(N - 1)
        /\ \A i, j \in places : i < j => rank(i) < rank(j)
        /\ \A k \in 1..N : \E i \in places : rank(i) = k - 1
    BY <1>1, <1>2, Ranks
  <1> HIDE DEF rank
  <1> DEFINE place == [k \in 1..N |-> CHOOSE i \in places : rank(i) = k - 1]
  <1>4. \A k \in 1..N : place[k] \in places /\ rank(place[k]) = k - 1
    BY <1>3
  <1>5. Subsequence(s, places) = [k \in 1..N |-> s[place[k]]]
    BY <1>1 DEF Subsequence, rank
  <1>5a. place \in [1..N -> places]
    BY <1>4
  <1> HIDE DEF place
  <1>6. \A k \in 1..N : s[place[k]] \in T
    BY <1>4
  <1>7. Subsequence(s, places) \in Seq(T) /\ Len(Subsequence(s, places)) = N
    <2>1. [k \in 1..N |-> s[place[k]]] \in [1..N -> T]
      BY <1>6
    <2> QED BY <1>3, <1>5, <2>1
  <1>8. \A j, k \in 1..N : place[j] = place[k] => j = k
    BY <1>3, <1>4
  <1>9. \A i \in places : \E k \in 1..N : place[k] = i
    <2> TAKE i \in places
    <2>1. PICK k \in 1..N : k = rank(i) + 1
      BY <1>3
    <2>2. rank(place[k]) = rank(i) /\ place[k] \in places
      BY <1>3, <1>4, <2>1
    <2>3. ~(rank(i) < rank(place[k])) /\ ~(rank(place[k]) < rank(i))
      BY <1>3, <2>2
    <2>4. i \in Nat /\ place[k] \in Nat
      BY <1>2, <2>2
    <2> QED BY <1>3, <2>2, <2>3, <2>4
  <1>10. \A j, k \in 1..N : j < k => place[j] < place[k]
    <2> TAKE j, k \in 1..N
    <2>1. rank(place[j]) = j - 1 /\ rank(place[k]) = k - 1 /\ place[j] \in places /\ place[k] \in places
      BY <1>4
    <2>2. place[j] \in Nat /\ place[k] \in Nat
      BY <1>2, <2>1
    <2>3. place[k] < place[j] => k - 1 < j - 1
      BY <1>3, <2>1
    <2>4. place[k] = place[j] => k = j
      BY <1>8
    <2> QED BY <1>3, <2>2, <2>3, <2>4
  <1>11. place \in Bijection(1..N, places)
    BY <1>5a, <1>8, <1>9 DEF Bijection, Injection, Surjection, IsInjective
  <1>12. \A k \in 1..N : Subsequence(s, places)[k] = s[place[k]]
    BY <1>5
  <1> QED BY <1>1, <1>7, <1>10, <1>11, <1>12

\* An element is in a subsequence exactly if it is at a chosen place.
LEMMA SubsequenceElements ==
    ASSUME NEW T, NEW s \in Seq(T), NEW places \in SUBSET DOMAIN s
    PROVE  LET u == Subsequence(s, places) IN
           /\ \A k \in DOMAIN u : \E i \in places : u[k] = s[i]
           /\ \A i \in places : \E k \in DOMAIN u : u[k] = s[i]
  <1> DEFINE N == Cardinality(places)
             u == Subsequence(s, places)
  <1>1. u \in Seq(T) /\ Len(u) = N
    BY SubsequenceLists
  <1>2. DOMAIN u = 1..N
    BY <1>1
  <1>3. PICK place \in Bijection(1..N, places) : \A k \in 1..N : u[k] = s[place[k]]
    BY SubsequenceLists
  <1>4. /\ \A k \in 1..N : place[k] \in places
        /\ \A i \in places : \E k \in 1..N : place[k] = i
    BY <1>3 DEF Bijection, Injection, Surjection
  <1> HIDE DEF u, N
  <1>5. /\ \A k \in DOMAIN u : \E i \in places : u[k] = s[i]
        /\ \A i \in places : \E k \in DOMAIN u : u[k] = s[i]
    BY <1>2, <1>3, <1>4
  <1> QED BY <1>5 DEF u

\* An element all of whose places are chosen is in a subsequence as often as in the sequence.
THEOREM SubsequenceCounts ==
    ASSUME NEW T, NEW s \in Seq(T), NEW places \in SUBSET DOMAIN s, NEW e,
           Places(s, e) \subseteq places
    PROVE  Cardinality(Places(Subsequence(s, places), e)) = Cardinality(Places(s, e))
  <1> DEFINE N == Cardinality(places)
             u == Subsequence(s, places)
             There == Places(s, e)
             Here == Places(u, e)
  <1>1. DOMAIN u = 1..N
    BY SubsequenceLists
  <1>2. PICK place \in Bijection(1..N, places) : \A k \in 1..N : u[k] = s[place[k]]
    BY SubsequenceLists
  <1>3. /\ \A k \in 1..N : place[k] \in places
        /\ \A j, k \in 1..N : place[j] = place[k] => j = k
        /\ \A i \in places : \E k \in 1..N : place[k] = i
    BY <1>2 DEF Bijection, Injection, Surjection, IsInjective
  <1>4. IsFiniteSet(There)
    <2>1. IsFiniteSet(DOMAIN s)
      <3>1. DOMAIN s = 1..Len(s) /\ Len(s) \in Int
        OBVIOUS
      <3> QED BY <3>1, FS_Interval
    <2> QED BY <2>1, FS_Subset DEF Places
  <1> DEFINE moved == [k \in Here |-> place[k]]
  <1> HIDE DEF u, N
  <1>5. moved \in [Here -> There]
    BY <1>1, <1>2, <1>3 DEF Places
  <1>6. \A j, k \in Here : moved[j] = moved[k] => j = k
    BY <1>1, <1>3 DEF Places
  <1>7. \A i \in There : \E k \in Here : moved[k] = i
    BY <1>1, <1>2, <1>3 DEF Places
  <1> HIDE DEF moved, Here, There
  <1>8. moved \in Injection(Here, There) /\ moved \in Surjection(Here, There)
    BY <1>5, <1>6, <1>7 DEF Injection, Surjection, IsInjective
  <1>9. Cardinality(Here) = Cardinality(There)
    BY <1>4, <1>8, FS_Injection
  <1> QED BY <1>9 DEF Here, There, u
=============================================================================
