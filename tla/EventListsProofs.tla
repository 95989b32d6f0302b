--------------------------- MODULE EventListsProofs ---------------------------
(***************************************************************************)
(* Proofs about EventLists, for any signals and processes and any number   *)
(* of cells: the cells of waits are always on the lists they should be on, *)
(* linked both ways, whatever waits begin and end, and events resume the   *)
(* processes that Sensitivity says.                                        *)
(*                                                                         *)
(* The first lemmas are about sequences and links, not about states.       *)
(***************************************************************************)
EXTENDS EventLists, FiniteSetTheorems, SequenceTheorems, TLAPS

(* Induction over the naturals, for a set instead of a predicate: if n were  *)
(* missing in T, adding 1 would map T \cap 0..n into itself without 0.       *)
LEMMA SetInduction ==
  ASSUME NEW T, T \subseteq Nat, 0 \in T, \A n \in T : n + 1 \in T
  PROVE  Nat \subseteq T
<1> SUFFICES ASSUME NEW n \in Nat, n \notin T PROVE FALSE OBVIOUS
<1> DEFINE B == (0 .. n) \cap T
<1> DEFINE f == [x \in B |-> x + 1]
<1>1. IsFiniteSet(B)
  <2>1. IsFiniteSet(0 .. n) BY FS_Interval, 0 \in Int, n \in Int
  <2> QED BY <2>1, FS_Subset, B \subseteq 0 .. n
<1>2. 0 \in B OBVIOUS
<1>3. IsFiniteSet(B \ {0}) /\ Cardinality(B \ {0}) = Cardinality(B) - 1
  BY <1>1, <1>2, FS_RemoveElement
<1>4. Cardinality(B) \in Nat BY <1>1, FS_CardinalityType
<1>5. f \in [B -> B \ {0}]
  <2>1. ASSUME NEW x \in B PROVE x + 1 \in B \ {0} BY <2>1, x # n
  <2> QED BY <2>1
<1>6. \A x, y \in B : x # y => f[x] # f[y] OBVIOUS
<1> HIDE DEF B, f
<1>7. Cardinality(B \ {0}) < Cardinality(B) BY <1>3, <1>4
<1> QED BY <1>1, <1>3, <1>5, <1>6, <1>7, FS_PigeonHole

-----------------------------------------------------------------------------
(* Linked lists.                                                             *)

(* The elements of a sequence.                                               *)
Elems(s) == {s[i] : i \in 1 .. Len(s)}

(* From cell h, the links lead through the cells of s, once each.            *)
List(link, s, h) ==
  /\ s \in Seq(Nat)
  /\ \A i, j \in 1 .. Len(s) : s[i] = s[j] => i = j
  /\ h = IF Len(s) = 0 THEN 0 ELSE s[1]
  /\ \A i \in 1 .. Len(s) :
       /\ s[i] \in 1 .. Len(link)
       /\ link[s[i]] = IF i = Len(s) THEN 0 ELSE s[i + 1]

(* s with x in front of it, and without its i-th element.                    *)
Pushed(s, x) == [k \in 1 .. Len(s) + 1 |-> IF k = 1 THEN x ELSE s[k - 1]]

Removed(s, i) == [k \in 1 .. Len(s) - 1 |-> IF k < i THEN s[k] ELSE s[k + 1]]

(* The type of Pushed, its length and its elements.                          *)
LEMMA PushedType ==
  ASSUME NEW s \in Seq(Nat), NEW x \in Nat
  PROVE  /\ Pushed(s, x) \in Seq(Nat)
         /\ Len(Pushed(s, x)) = Len(s) + 1
         /\ \A k \in 1 .. Len(s) + 1 : Pushed(s, x)[k] = IF k = 1 THEN x ELSE s[k - 1]
         /\ Elems(Pushed(s, x)) = Elems(s) \cup {x}
<1> DEFINE t == Pushed(s, x)
<1>1. t \in [1 .. Len(s) + 1 -> Nat] BY DEF Pushed
<1>2. t \in Seq(Nat) /\ Len(t) = Len(s) + 1 BY <1>1
<1>3. \A k \in 1 .. Len(s) + 1 : t[k] = IF k = 1 THEN x ELSE s[k - 1] BY DEF Pushed
<1> HIDE DEF t
<1>4. Elems(t) \subseteq Elems(s) \cup {x} BY <1>2, <1>3 DEF Elems
<1>5. Elems(s) \subseteq Elems(t)
  <2> SUFFICES ASSUME NEW k \in 1 .. Len(s)
               PROVE  \E m \in 1 .. Len(t) : t[m] = s[k]
    BY DEF Elems
  <2>1. k + 1 \in 1 .. Len(t) /\ t[k + 1] = s[k] BY <1>2, <1>3
  <2> QED BY <2>1
<1>6. x \in Elems(t)
  <2>1. 1 \in 1 .. Len(t) /\ t[1] = x BY <1>2, <1>3
  <2> QED BY <2>1 DEF Elems
<1> QED BY <1>2, <1>3, <1>4, <1>5, <1>6 DEF t

(* The type of Removed, its length and its elements.                         *)
LEMMA RemovedType ==
  ASSUME NEW s \in Seq(Nat), NEW i \in 1 .. Len(s),
         \A j, k \in 1 .. Len(s) : s[j] = s[k] => j = k
  PROVE  /\ Removed(s, i) \in Seq(Nat)
         /\ Len(Removed(s, i)) = Len(s) - 1
         /\ \A k \in 1 .. Len(s) - 1 : Removed(s, i)[k] =
              IF k < i THEN s[k] ELSE s[k + 1]
         /\ Elems(Removed(s, i)) = Elems(s) \ {s[i]}
<1> DEFINE t == Removed(s, i)
<1>1. t \in [1 .. Len(s) - 1 -> Nat] BY DEF Removed
<1>2. t \in Seq(Nat) /\ Len(t) = Len(s) - 1 BY <1>1
<1>3. \A k \in 1 .. Len(s) - 1 : t[k] = IF k < i THEN s[k] ELSE s[k + 1]
  BY DEF Removed
<1> HIDE DEF t
<1>4. Elems(t) \subseteq Elems(s) \ {s[i]}
  <2> SUFFICES ASSUME NEW k \in 1 .. Len(s) - 1
               PROVE  t[k] \in Elems(s) /\ t[k] # s[i]
    BY <1>2 DEF Elems
  <2> QED BY <1>3 DEF Elems
<1>5. Elems(s) \ {s[i]} \subseteq Elems(t)
  <2> SUFFICES ASSUME NEW k \in 1 .. Len(s), s[k] # s[i]
               PROVE  \E m \in 1 .. Len(t) : t[m] = s[k]
    BY DEF Elems
  <2>1. CASE k < i
    <3>1. k \in 1 .. Len(s) - 1 BY <2>1
    <3>2. t[k] = s[k] BY <3>1, <2>1, <1>3
    <3> QED BY <3>1, <3>2, <1>2
  <2>2. CASE k > i
    <3>1. k - 1 \in 1 .. Len(t) /\ t[k - 1] = s[k] BY <2>2, <1>2, <1>3
    <3> QED BY <3>1
  <2> QED BY <2>1, <2>2
<1> QED BY <1>2, <1>3, <1>4, <1>5 DEF t

(* A list keeps its cells when none of their links changes.                  *)
LEMMA ListKept ==
  ASSUME NEW N, NEW M, NEW s, NEW h, List(N, s, h),
         \A i \in 1 .. Len(s) : s[i] \in 1 .. Len(M) /\ M[s[i]] = N[s[i]]
  PROVE  List(M, s, h)
BY DEF List

(* A cell becomes the first of a list.                                       *)
LEMMA ListPushed ==
  ASSUME NEW N, NEW M, NEW s, NEW h, List(N, s, h),
         NEW x \in Nat, x \notin Elems(s), x \in 1 .. Len(M), M[x] = h,
         \A i \in 1 .. Len(s) : s[i] \in 1 .. Len(M) /\ M[s[i]] = N[s[i]]
  PROVE  List(M, Pushed(s, x), x)
<1> DEFINE t == Pushed(s, x)
<1>0. s \in Seq(Nat) BY DEF List
<1>1. PICK n \in Nat : n = Len(s) BY <1>0
<1>2. /\ t \in Seq(Nat) /\ Len(t) = n + 1
      /\ \A k \in 1 .. n + 1 : t[k] = IF k = 1 THEN x ELSE s[k - 1]
  BY <1>0, <1>1, PushedType
<1> HIDE DEF t
<1>3. /\ t[1] = x
      /\ \A k \in 1 .. n : k + 1 \in 1 .. n + 1 /\ t[k + 1] = s[k]
  <2>1. t[1] = x BY ONLY <1>2, n \in Nat
  <2>2. ASSUME NEW k \in 1 .. n PROVE k + 1 \in 1 .. n + 1 /\ t[k + 1] = s[k]
    <3>1. k + 1 \in 1 .. n + 1 /\ k + 1 # 1 /\ k + 1 - 1 = k OBVIOUS
    <3> QED BY <3>1, <1>2
  <2> QED BY <2>1, <2>2
<1>4. \A k \in 1 .. n + 1 : k # 1 => k - 1 \in 1 .. n /\ t[k] = s[k - 1]
  <2>1. ASSUME NEW k \in 1 .. n + 1, k # 1 PROVE k - 1 \in 1 .. n /\ t[k] = s[k - 1]
    <3>1. k - 1 \in 1 .. n BY <2>1
    <3>2. t[k] = s[k - 1] BY <2>1, <1>2
    <3> QED BY <3>1, <3>2
  <2> QED BY <2>1
<1>5. /\ \A k \in 1 .. n : s[k] # x
      /\ \A j, k \in 1 .. n : s[j] = s[k] => j = k
  BY <1>1 DEF Elems, List
<1>6. ASSUME NEW j \in 1 .. n + 1, NEW k \in 1 .. n + 1, t[j] = t[k] PROVE j = k
  <2>1. CASE j = 1 BY ONLY <2>1, <1>3, <1>4, <1>5, <1>6
  <2>2. CASE k = 1 BY ONLY <2>2, <1>3, <1>4, <1>5, <1>6
  <2>3. CASE j # 1 /\ k # 1
    <3>1. j - 1 \in 1 .. n /\ k - 1 \in 1 .. n /\ s[j - 1] = s[k - 1] BY <2>3, <1>4, <1>6
    <3>2. PICK a \in 1 .. n, b \in 1 .. n : a = j - 1 /\ b = k - 1 BY <3>1
    <3>3. a = b BY <3>1, <3>2, <1>5
    <3> QED BY ONLY <3>2, <3>3, n \in Nat, j \in 1 .. n + 1, k \in 1 .. n + 1
  <2> QED BY <2>1, <2>2, <2>3
<1>7. \A k \in 1 .. n : M[s[k]] = IF k = n THEN 0 ELSE s[k + 1]
  BY <1>1 DEF List
<1>8. \A k \in 1 .. n + 1 : t[k] \in 1 .. Len(M)
  <2>1. \A k \in 1 .. n : s[k] \in 1 .. Len(M) BY <1>1
  <2> QED BY <2>1, <1>3, <1>4
<1>9. ASSUME NEW k \in 1 .. n + 1 PROVE M[t[k]] = IF k = n + 1 THEN 0 ELSE t[k + 1]
  <2>1. CASE k = 1
    <3>1. CASE n = 0 BY <2>1, <3>1, <1>1, <1>3 DEF List
    <3>2. CASE n # 0
      <4>1. t[2] = s[1]
        <5>1. 1 \in 1 .. n BY <3>2
        <5> QED BY <5>1, <1>3
      <4>2. h = s[1] BY <3>2, <1>1 DEF List
      <4> QED BY <2>1, <3>2, <4>1, <4>2, <1>3
    <3> QED BY <3>1, <3>2
  <2>2. CASE k # 1
    <3>1. PICK m \in 1 .. n : m = k - 1 BY <2>2
    <3>2. t[k] = s[m] BY <2>2, <3>1, <1>4
    <3>3. CASE m = n BY <3>1, <3>2, <3>3, <1>7
    <3>4. CASE m # n
      <4>1. k \in 1 .. n /\ m + 1 = k /\ k # n + 1 BY <3>1, <3>4
      <4>2. t[k + 1] = s[k] BY <4>1, <1>3
      <4>3. M[s[m]] = s[k] BY <3>4, <4>1, <1>7
      <4> QED BY <3>2, <4>1, <4>2, <4>3
    <3> QED BY <3>3, <3>4
  <2> QED BY <2>1, <2>2
<1>10. List(M, t, x) BY <1>2, <1>3, <1>6, <1>8, <1>9 DEF List
<1> QED BY <1>10 DEF t

(* A cell leaves a list.                                                     *)
LEMMA ListRemoved ==
  ASSUME NEW N, NEW M, NEW s, NEW h, List(N, s, h), NEW i \in 1 .. Len(s),
         i > 1 => M[s[i - 1]] = N[s[i]],
         \A k \in 1 .. Len(s) : k # i =>
           s[k] \in 1 .. Len(M) /\ (k # i - 1 => M[s[k]] = N[s[k]])
  PROVE  List(M, Removed(s, i), IF i = 1 THEN N[s[i]] ELSE h)
<1> DEFINE t == Removed(s, i)
<1>0. s \in Seq(Nat) /\ (\A j, k \in 1 .. Len(s) : s[j] = s[k] => j = k) BY DEF List
<1>1. PICK n \in Nat : n = Len(s) BY <1>0
<1>2. /\ t \in Seq(Nat) /\ Len(t) = n - 1
      /\ \A k \in 1 .. n - 1 : t[k] = IF k < i THEN s[k] ELSE s[k + 1]
  BY <1>0, <1>1, RemovedType
<1> HIDE DEF t
<1>3. i \in 1 .. n /\ n - 1 \in Nat BY <1>1
<1>4. \A k \in 1 .. n : N[s[k]] = IF k = n THEN 0 ELSE s[k + 1] BY <1>1 DEF List
<1>5. \A j, k \in 1 .. n : s[j] = s[k] => j = k BY <1>0, <1>1
<1>6. ASSUME NEW j \in 1 .. n - 1, NEW k \in 1 .. n - 1, t[j] = t[k] PROVE j = k
  <2>1. PICK a \in 1 .. n : a = IF j < i THEN j ELSE j + 1 BY <1>3
  <2>2. PICK b \in 1 .. n : b = IF k < i THEN k ELSE k + 1 BY <1>3
  <2>3. s[a] = s[b] BY <2>1, <2>2, <1>2, <1>6
  <2>4. a = b BY <2>3, <1>5
  <2> QED BY ONLY <2>1, <2>2, <2>4, <1>3, j \in 1 .. n - 1, k \in 1 .. n - 1
<1>7. \A k \in 1 .. n : k # i =>
        s[k] \in 1 .. Len(M) /\ (k # i - 1 => M[s[k]] = N[s[k]])
  BY <1>1
<1>8. ASSUME NEW k \in 1 .. n - 1
      PROVE  t[k] \in 1 .. Len(M) /\ M[t[k]] = IF k = n - 1 THEN 0 ELSE t[k + 1]
  <2>1. CASE k < i - 1
    <3>1. /\ k \in 1 .. n /\ k # i /\ k # i - 1 /\ k # n /\ k # n - 1 /\ k < i
          /\ k + 1 \in 1 .. n - 1 /\ k + 1 < i
      BY ONLY <2>1, <1>3, n \in Nat, k \in 1 .. n - 1
    <3>2. t[k] = s[k] /\ t[k + 1] = s[k + 1] BY <3>1, <1>2
    <3>3. M[s[k]] = N[s[k]] /\ s[k] \in 1 .. Len(M) BY <3>1, <1>7
    <3> QED BY <3>1, <3>2, <3>3, <1>4
  <2>2. CASE k = i - 1
    <3>1. k \in 1 .. n /\ k # i /\ k < i /\ i > 1
      BY ONLY <2>2, <1>3, n \in Nat, k \in 1 .. n - 1
    <3>2. t[k] = s[k] /\ s[k] \in 1 .. Len(M) BY <3>1, <1>2, <1>7
    <3>3. M[s[k]] = N[s[i]] BY <2>2, <3>1
    <3>4. CASE k = n - 1
      <4>1. i = n BY ONLY <2>2, <3>4, <1>3, n \in Nat
      <4> QED BY <3>2, <3>3, <3>4, <4>1, <1>3, <1>4
    <3>5. CASE k # n - 1
      <4>1. i # n /\ k + 1 = i /\ k + 1 \in 1 .. n - 1 /\ ~(k + 1 < i)
        BY ONLY <2>2, <3>5, <1>3, n \in Nat, k \in 1 .. n - 1
      <4>2. t[k + 1] = s[k + 1 + 1] BY <4>1, <1>2
      <4>3. N[s[i]] = s[i + 1] BY <4>1, <1>3, <1>4
      <4> QED BY <3>2, <3>3, <3>5, <4>1, <4>2, <4>3
    <3> QED BY <3>4, <3>5
  <2>3. CASE k > i - 1
    <3>1. PICK m \in 1 .. n : m = k + 1 OBVIOUS
    <3>2. m # i /\ m # i - 1 /\ ~(k < i)
      BY ONLY <2>3, <3>1, <1>3, n \in Nat, k \in 1 .. n - 1
    <3>3. t[k] = s[m] BY <3>1, <3>2, <1>2
    <3>4. s[m] \in 1 .. Len(M) /\ M[s[m]] = N[s[m]] BY <3>2, <1>7
    <3>5. CASE m = n
      <4>1. k = n - 1 BY ONLY <3>1, <3>5, n \in Nat, k \in 1 .. n - 1
      <4> QED BY <3>3, <3>4, <3>5, <4>1, <1>4
    <3>6. CASE m # n
      <4>1. k # n - 1 /\ m \in 1 .. n - 1 /\ ~(m < i)
        BY ONLY <2>3, <3>1, <3>6, <1>3, n \in Nat, k \in 1 .. n - 1
      <4>2. t[m] = s[m + 1] BY <4>1, <1>2
      <4>3. M[s[m]] = s[m + 1] BY <3>4, <3>6, <1>4
      <4> QED BY <3>1, <3>3, <3>4, <4>1, <4>2, <4>3
    <3> QED BY <3>5, <3>6
  <2> QED BY ONLY <2>1, <2>2, <2>3, <1>3, n \in Nat, k \in 1 .. n - 1
<1>9. (IF i = 1 THEN N[s[i]] ELSE h) = IF n - 1 = 0 THEN 0 ELSE t[1]
  <2>1. CASE i = 1
    <3>1. CASE n = 1 BY <2>1, <3>1, <1>4
    <3>2. CASE n # 1
      <4>1. 1 \in 1 .. n - 1 /\ ~(1 < i) /\ 1 \in 1 .. n
        BY ONLY <2>1, <3>2, <1>3, n \in Nat
      <4>2. t[1] = s[1 + 1] BY <4>1, <1>2
      <4>3. N[s[1]] = s[1 + 1] BY <3>2, <4>1, <1>4
      <4> QED BY <2>1, <4>2, <4>3, <3>2
    <3> QED BY <3>1, <3>2
  <2>2. CASE i # 1
    <3>1. 1 \in 1 .. n - 1 /\ 1 < i /\ n # 0 /\ n - 1 # 0 BY ONLY <2>2, <1>3, n \in Nat
    <3>2. t[1] = s[1] BY <3>1, <1>2
    <3>3. h = s[1] BY <3>1, <1>1 DEF List
    <3> QED BY <2>2, <3>1, <3>2, <3>3
  <2> QED BY <2>1, <2>2
<1>10. List(M, t, IF i = 1 THEN N[s[i]] ELSE h)
  BY <1>2, <1>6, <1>8, <1>9 DEF List
<1> QED BY <1>10 DEF t

-----------------------------------------------------------------------------
(* Along returns the cells of a list.                                        *)

(* The body of its recursive function.                                       *)
Along_Body(link, f, n) ==
  [d \in 0 .. Len(link) |->
     IF n = 0 \/ d = 0 THEN << >> ELSE <<d>> \o f[n - 1][link[d]]]

(* f is the recursive function of Along, for up to m cells.                  *)
Follows(link, f, m) == f = [n \in 0 .. m |-> Along_Body(link, f, n)]

(* The function exists.                                                      *)
LEMMA FollowsExists ==
  ASSUME NEW link, NEW m \in Nat
  PROVE  \E f : Follows(link, f, m)
<1> DEFINE T == {k \in Nat : \E f : Follows(link, f, k)}
<1>1. 0 \in T
  <2> DEFINE g == [n \in 0 .. 0 |-> [d \in 0 .. Len(link) |-> << >>]]
  <2>1. \A n \in 0 .. 0 : g[n] = Along_Body(link, g, n) BY DEF Along_Body
  <2>2. g = [n \in 0 .. 0 |-> g[n]] OBVIOUS
  <2> HIDE DEF g
  <2>3. Follows(link, g, 0) BY <2>1, <2>2 DEF Follows
  <2> QED BY <2>3
<1>2. ASSUME NEW k \in T PROVE k + 1 \in T
  <2>1. PICK f : Follows(link, f, k) BY <1>2
  <2> DEFINE g == [n \in 0 .. k + 1 |-> IF n <= k THEN f[n] ELSE Along_Body(link, f, n)]
  <2>2. \A n \in 0 .. k : f[n] = Along_Body(link, f, n) BY <2>1 DEF Follows
  <2>3. \A n \in 0 .. k + 1 : g[n] = Along_Body(link, f, n) BY <2>2
  <2>4. \A n \in 0 .. k : g[n] = f[n] BY <1>2
  <2>5. g = [n \in 0 .. k + 1 |-> g[n]] OBVIOUS
  <2> HIDE DEF g
  <2>6. ASSUME NEW n \in 0 .. k + 1 PROVE Along_Body(link, f, n) = Along_Body(link, g, n)
    <3>1. CASE n = 0 BY <3>1 DEF Along_Body
    <3>2. CASE n # 0
      <4>1. n - 1 \in 0 .. k BY <3>2, <1>2
      <4>2. g[n - 1] = f[n - 1] BY <2>4, <4>1
      <4> QED BY <4>2 DEF Along_Body
    <3> QED BY <3>1, <3>2
  <2>7. \A n \in 0 .. k + 1 : g[n] = Along_Body(link, g, n) BY <2>3, <2>6
  <2>8. Follows(link, g, k + 1) BY <2>5, <2>7 DEF Follows
  <2> QED BY <2>8, <1>2
<1> HIDE DEF T
<1>3. Nat \subseteq T BY <1>1, <1>2, SetInduction DEF T
<1> QED BY <1>3 DEF T

(* A list has no more cells than there are.                                  *)
LEMMA ListLength ==
  ASSUME NEW link, NEW s, NEW h, List(link, s, h), Len(link) \in Nat
  PROVE  Len(s) \in Nat /\ Len(s) <= Len(link)
<1>1. s \in Seq(Nat) /\ Len(s) \in Nat BY DEF List
<1>2. PICK n \in Nat, m \in Nat : n = Len(s) /\ m = Len(link) BY <1>1
<1>3. IsFiniteSet(1 .. n) /\ Cardinality(1 .. n) = n
  <2>1. 1 \in Int /\ n \in Int OBVIOUS
  <2> QED BY <2>1, FS_Interval
<1>4. IsFiniteSet(1 .. m) /\ Cardinality(1 .. m) = m
  <2>1. 1 \in Int /\ m \in Int OBVIOUS
  <2> QED BY <2>1, FS_Interval
<1> DEFINE f == [i \in 1 .. n |-> s[i]]
<1>5. f \in [1 .. n -> 1 .. m] BY <1>2 DEF List
<1>6. \A i, j \in 1 .. n : i # j => f[i] # f[j] BY <1>2 DEF List
<1> HIDE DEF f
<1>7. ~(n > m)
  <2> SUFFICES ASSUME n > m PROVE FALSE OBVIOUS
  <2>1. \E i, j \in 1 .. n : i # j /\ f[i] = f[j]
    <3>1. Cardinality(1 .. m) < Cardinality(1 .. n) BY <1>3, <1>4
    <3> QED BY ONLY <3>1, <1>3, <1>4, <1>5, FS_PigeonHole
  <2> QED BY <2>1, <1>6
<1> QED BY <1>2, <1>7

(* Along gives the cells of a linked list.                                   *)
LEMMA AlongList ==
  ASSUME NEW link, NEW s, NEW h, List(link, s, h), Len(link) \in Nat
  PROVE  Along(link, h) = s
<1> DEFINE F == CHOOSE f : Follows(link, f, Len(link))
<1> DEFINE cell(i) == IF i <= Len(s) THEN s[i] ELSE 0
<1>0. PICK l \in Nat : l = Len(s) BY DEF List
<1>1. PICK m \in Nat : m = Len(link) OBVIOUS
<1>2. Along(link, h) = F[m][h] BY <1>1 DEF Along, Follows, Along_Body
<1>3. Follows(link, F, m) BY <1>1, FollowsExists
<1> HIDE DEF F
<1>4. ASSUME NEW n \in 0 .. m, NEW d \in 0 .. m
      PROVE  F[n][d] = IF n = 0 \/ d = 0 THEN << >> ELSE <<d>> \o F[n - 1][link[d]]
  <2>1. F[n] = Along_Body(link, F, n) BY <1>3 DEF Follows
  <2> QED BY <2>1, <1>1 DEF Along_Body
<1>16. ASSUME NEW n \in 0 .. m PROVE F[n][0] = << >>
  <2>1. PICK d \in 0 .. m : d = 0 OBVIOUS
  <2> QED BY <2>1, <1>4
<1>5. s \in Seq(Nat) /\ \A i \in 1 .. l : s[i] \in 1 .. m BY <1>0, <1>1 DEF List
<1>6. SubSeq(s, l + 1, l) = << >> BY <1>5, SubSeqEmpty, l \in Int, l + 1 \in Int
<1>7. l <= m BY <1>0, <1>1, ListLength
<1> DEFINE T == {n \in Nat : n <= m =>
                   \A i \in 1 .. l + 1 : l + 1 - i <= n => F[n][cell(i)] = SubSeq(s, i, l)}
<1>8. cell(l + 1) = 0 /\ \A i \in 1 .. l : cell(i) = s[i] BY <1>0
<1>9. \A i \in 1 .. l : link[s[i]] = cell(i + 1)
  <2>1. \A i \in 1 .. l : link[s[i]] = IF i = l THEN 0 ELSE s[i + 1] BY <1>0 DEF List
  <2>2. ASSUME NEW i \in 1 .. l PROVE link[s[i]] = cell(i + 1)
    <3>1. CASE i = l BY <3>1, <2>1, <1>8
    <3>2. CASE i # l
      <4>1. i + 1 \in 1 .. l BY <3>2
      <4> QED BY <3>2, <4>1, <2>1, <1>8
    <3> QED BY <3>1, <3>2
  <2> QED BY <2>2
<1> HIDE DEF cell
<1>10. 0 \in T
  <2> SUFFICES ASSUME NEW i \in 1 .. l + 1, l + 1 - i <= 0
               PROVE  F[0][cell(i)] = SubSeq(s, i, l)
    OBVIOUS
  <2>1. i = l + 1 OBVIOUS
  <2>2. F[0][0] = << >> BY <1>16
  <2> QED BY <2>1, <2>2, <1>6, <1>8
<1>11. ASSUME NEW n \in T PROVE n + 1 \in T
  <2>0. n \in Nat OBVIOUS
  <2>1. n <= m => \A i \in 1 .. l + 1 : l + 1 - i <= n => F[n][cell(i)] = SubSeq(s, i, l)
    OBVIOUS
  <2> SUFFICES ASSUME n + 1 <= m, NEW i \in 1 .. l + 1, l + 1 - i <= n + 1
               PROVE  F[n + 1][cell(i)] = SubSeq(s, i, l)
    OBVIOUS
  <2> HIDE DEF T
  <2>2. PICK k \in 0 .. m : k = n + 1 BY <2>0
  <2>3. CASE i = l + 1
    <3>1. F[k][0] = << >> BY <1>16
    <3> QED BY <3>1, <2>2, <2>3, <1>6, <1>8
  <2>4. CASE i # l + 1
    <3>1. i \in 1 .. l /\ i + 1 \in 1 .. l + 1 /\ l + 1 - (i + 1) <= n /\ n <= m
      BY <2>0, <2>4
    <3>2. PICK d \in 0 .. m : d = s[i] /\ d # 0 BY <3>1, <1>5
    <3>3. F[k][d] = <<d>> \o F[k - 1][link[d]]
      <4>1. k # 0 BY <2>0, <2>2
      <4> QED BY <4>1, <3>2, <1>4
    <3>4. link[d] = cell(i + 1) BY <3>1, <3>2, <1>9
    <3>5. F[n][cell(i + 1)] = SubSeq(s, i + 1, l) BY <2>1, <3>1
    <3>6. SubSeq(s, i, l) = <<s[i]>> \o SubSeq(s, i + 1, l)
      <4>1. l \in i .. l BY <3>1
      <4>2. i \in 1 .. Len(s) /\ l \in i .. Len(s) BY <3>1, <4>1, <1>0
      <4> QED BY <4>2, <1>5, SubSeqRecursiveFirst
    <3>7. k - 1 = n BY <2>0, <2>2
    <3>8. cell(i) = d BY <3>1, <3>2, <1>8
    <3> QED BY ONLY <2>2, <3>2, <3>3, <3>4, <3>5, <3>6, <3>7, <3>8
  <2> QED BY <2>3, <2>4
<1>12. m \in T
  <2>1. T \subseteq Nat OBVIOUS
  <2> HIDE DEF T
  <2> QED BY <1>10, <1>11, <2>1, SetInduction
<1>13. F[m][cell(1)] = SubSeq(s, 1, l)
  <2>1. 1 \in 1 .. l + 1 /\ l + 1 - 1 <= m BY <1>7
  <2> QED BY <1>12, <2>1
<1>14. h = cell(1)
  <2>1. CASE l = 0 BY <2>1, <1>0, <1>8 DEF List
  <2>2. CASE l # 0
    <3>1. 1 \in 1 .. l BY <2>2
    <3> QED BY <2>2, <3>1, <1>0, <1>8 DEF List
  <2> QED BY <2>1, <2>2
<1>15. SubSeq(s, 1, l) = s BY <1>0, <1>5, SubSeqFull
<1> QED BY <1>2, <1>13, <1>14, <1>15

-----------------------------------------------------------------------------
(* Cells.                                                                    *)

(* A cell, when there are n, and n cells.                                    *)
Cell_Type(n) ==
  [dynamic : BOOLEAN, proc : Process \cup {"none"}, sig : Signal \cup {"none"},
   next : 0 .. n, prev : 0 .. n, chain : 0 .. n]

Cells(cs, n) == cs \in Seq(Cell_Type(n)) /\ Len(cs) = n

(* Two cells that differ in their links to neighbours only.                  *)
Like(a, b) == a.dynamic = b.dynamic /\ a.proc = b.proc /\ a.sig = b.sig /\ a.chain = b.chain

(* What the fields of a cell are.                                            *)
LEMMA CellFields ==
  ASSUME NEW n \in Nat, NEW cs, Cells(cs, n), NEW c \in 1 .. n
  PROVE  /\ cs[c] \in Cell_Type(n)
         /\ cs[c].dynamic \in BOOLEAN
         /\ cs[c].proc \in Process \cup {"none"} /\ cs[c].sig \in Signal \cup {"none"}
         /\ cs[c].next \in 0 .. n /\ cs[c].prev \in 0 .. n /\ cs[c].chain \in 0 .. n
<1>1. PICK e : e = cs[c] OBVIOUS
<1>2. e \in Cell_Type(n) BY <1>1 DEF Cells
<1>3. /\ e.dynamic \in BOOLEAN
      /\ e.proc \in Process \cup {"none"} /\ e.sig \in Signal \cup {"none"}
      /\ e.next \in 0 .. n /\ e.prev \in 0 .. n /\ e.chain \in 0 .. n
  BY <1>2 DEF Cell_Type
<1> QED BY <1>1, <1>2, <1>3

(* The cells cs with the link next, or prev, of a changed to b.              *)
Set_Next(cs, a, b) == [cs EXCEPT ![a].next = b]
Set_Prev(cs, a, b) == [cs EXCEPT ![a].prev = b]

(* What is true of the cells t then.                                         *)
Next_Written(n, cs, a, b, t) ==
  /\ Cells(t, n)
  /\ t[a].next = b /\ t[a].prev = cs[a].prev /\ Like(t[a], cs[a])
  /\ \A c \in 1 .. n : c # a => t[c] = cs[c]

Prev_Written(n, cs, a, b, t) ==
  /\ Cells(t, n)
  /\ t[a].prev = b /\ t[a].next = cs[a].next /\ Like(t[a], cs[a])
  /\ \A c \in 1 .. n : c # a => t[c] = cs[c]

(* Writing the field next of a cell.                                         *)
LEMMA SetNext ==
  ASSUME NEW n \in Nat, NEW cs, Cells(cs, n), NEW a \in 1 .. n, NEW b \in 0 .. n,
         NEW t, t = Set_Next(cs, a, b)
  PROVE  Next_Written(n, cs, a, b, t)
<1>1. cs \in [1 .. n -> Cell_Type(n)] BY DEF Cells
<1>2. PICK e \in Cell_Type(n) : e = cs[a] BY <1>1
<1>3. PICK g : g = [e EXCEPT !.next = b] OBVIOUS
<1>4. g \in Cell_Type(n) /\ g.next = b /\ g.prev = e.prev /\ Like(g, e)
  BY <1>2, <1>3 DEF Cell_Type, Like
<1>5. t = [cs EXCEPT ![a] = g] BY <1>2, <1>3 DEF Set_Next
<1>6. t \in [1 .. n -> Cell_Type(n)] /\ t[a] = g /\ \A c \in 1 .. n : c # a => t[c] = cs[c]
  BY <1>1, <1>4, <1>5
<1>7. Cells(t, n) BY <1>6 DEF Cells
<1> QED BY <1>2, <1>4, <1>6, <1>7 DEF Next_Written

(* Writing the field prev of a cell.                                         *)
LEMMA SetPrev ==
  ASSUME NEW n \in Nat, NEW cs, Cells(cs, n), NEW a \in 1 .. n, NEW b \in 0 .. n,
         NEW t, t = Set_Prev(cs, a, b)
  PROVE  Prev_Written(n, cs, a, b, t)
<1>1. cs \in [1 .. n -> Cell_Type(n)] BY DEF Cells
<1>2. PICK e \in Cell_Type(n) : e = cs[a] BY <1>1
<1>3. PICK g : g = [e EXCEPT !.prev = b] OBVIOUS
<1>4. g \in Cell_Type(n) /\ g.prev = b /\ g.next = e.next /\ Like(g, e)
  BY <1>2, <1>3 DEF Cell_Type, Like
<1>5. t = [cs EXCEPT ![a] = g] BY <1>2, <1>3 DEF Set_Prev
<1>6. t \in [1 .. n -> Cell_Type(n)] /\ t[a] = g /\ \A c \in 1 .. n : c # a => t[c] = cs[c]
  BY <1>1, <1>4, <1>5
<1>7. Cells(t, n) BY <1>6 DEF Cells
<1> QED BY <1>2, <1>4, <1>6, <1>7 DEF Prev_Written

(* The cells after the cell El left its event list and was recycled.         *)
After_Unlink(cs, n, El, old, t) ==
  /\ Cells(t, n) /\ t[El] = Old_Cell(old)
  /\ \A c \in 1 .. n : c # El =>
       /\ Like(t[c], cs[c])
       /\ t[c].next = IF c = cs[El].prev THEN cs[El].next ELSE cs[c].next
       /\ t[c].prev = IF c = cs[El].next /\ cs[c].dynamic THEN cs[El].prev ELSE cs[c].prev

(* The event lists after the cell left its own.                              *)
After_Event(cell, ev) == IF cell.prev = 0 THEN [ev EXCEPT ![cell.sig] = cell.next] ELSE ev

(* The lists r after the cell left its event list and was recycled.          *)
Unlinked(n, cs, ev, old, El, r) ==
  /\ r = [cells |-> r.cells, event |-> r.event, old |-> r.old]
  /\ r.old = El
  /\ r.event = After_Event(cs[El], ev)
  /\ After_Unlink(cs, n, El, old, r.cells)

(* Unlink and Recycle.                                                       *)
LEMMA UnlinkFields ==
  ASSUME NEW n \in Nat, NEW cs, Cells(cs, n), NEW ev, NEW old \in 0 .. n, NEW El \in 1 .. n,
         cs[El].prev # El, cs[El].next # El,
         cs[El].prev # 0 => cs[El].prev # cs[El].next,
         NEW lists, lists.cells = cs, lists.event = ev, lists.old = old,
         NEW r, r = Recycle(Unlink(lists, El), El)
  PROVE  Unlinked(n, cs, ev, old, El, r)
<1> DEFINE el == cs[El]
<1> DEFINE before == IF el.prev = 0 THEN cs ELSE [cs EXCEPT ![el.prev].next = el.next]
<1> DEFINE after == IF el.next # 0 /\ before[el.next].dynamic
                    THEN [before EXCEPT ![el.next].prev = el.prev] ELSE before
<1> DEFINE event == IF el.prev = 0 THEN [ev EXCEPT ![el.sig] = el.next] ELSE ev
<1> DEFINE t == [after EXCEPT ![El] = Old_Cell(old)]
<1>1. PICK u : u = Unlink(lists, El) OBVIOUS
<1>12. u.cells = after /\ u.event = event /\ u.old = old BY <1>1 DEF Unlink
<1>2. r = [cells |-> t, event |-> event, old |-> El]
  <2>1. r = Recycle(u, El) BY <1>1
  <2> HIDE DEF after, event
  <2> QED BY <2>1, <1>12 DEF Recycle
<1> HIDE DEF t, event
<1>3. r.cells = t /\ r.event = event /\ r.old = El BY <1>2
<1> SUFFICES After_Unlink(cs, n, El, old, t) BY <1>2, <1>3 DEF event, After_Event, Unlinked
<1>4. /\ el.prev \in 0 .. n /\ el.next \in 0 .. n /\ el.dynamic \in BOOLEAN
      /\ el.chain \in 0 .. n
  BY CellFields
<1>5. /\ Cells(before, n)
      /\ \A c \in 1 .. n : /\ Like(before[c], cs[c]) /\ before[c].prev = cs[c].prev
                           /\ before[c].next = IF c = el.prev THEN el.next ELSE cs[c].next
  <2>1. CASE el.prev = 0 BY <2>1 DEF Like
  <2>2. CASE el.prev # 0
    <3>1. el.prev \in 1 .. n BY <2>2, <1>4
    <3>2. PICK a \in 1 .. n, b \in 0 .. n : a = el.prev /\ b = el.next BY <3>1, <1>4
    <3>3. PICK w : w = Set_Next(cs, a, b) OBVIOUS
    <3>4. /\ Cells(w, n) /\ w[a].next = b /\ w[a].prev = cs[a].prev /\ Like(w[a], cs[a])
          /\ \A c \in 1 .. n : c # a => w[c] = cs[c]
      <4>1. Next_Written(n, cs, a, b, w)
        BY ONLY <3>3, SetNext, Cells(cs, n), n \in Nat, a \in 1 .. n, b \in 0 .. n
      <4> QED BY ONLY <4>1 DEF Next_Written
    <3>5. before = w
      <4>1. before = Set_Next(cs, el.prev, el.next) BY <2>2 DEF Set_Next
      <4> HIDE DEF before, el
      <4> QED BY <4>1, <3>2, <3>3
    <3>6. PICK p, q : p = el.prev /\ q = el.next OBVIOUS
    <3> HIDE DEF before, el
    <3>7. \A c \in 1 .. n : /\ Like(w[c], cs[c]) /\ w[c].prev = cs[c].prev
                            /\ w[c].next = IF c = p THEN q ELSE cs[c].next
      <4>1. a = p /\ b = q BY <3>2, <3>6
      <4>2. \A c \in 1 .. n : Like(cs[c], cs[c]) BY DEF Like
      <4> QED BY <4>1, <4>2, <3>4
    <3> QED BY <3>4, <3>5, <3>6, <3>7
  <2> QED BY <2>1, <2>2
<1> HIDE DEF before
<1>6. /\ Cells(after, n)
      /\ \A c \in 1 .. n :
           /\ Like(after[c], before[c]) /\ after[c].next = before[c].next
           /\ after[c].prev = IF c = el.next /\ before[c].dynamic THEN el.prev
                              ELSE before[c].prev
  <2>1. CASE el.next = 0 \/ ~before[el.next].dynamic
    <3>1. after = before BY <2>1
    <3> QED BY <2>1, <3>1, <1>5 DEF Like
  <2>2. CASE el.next # 0 /\ before[el.next].dynamic
    <3>1. el.next \in 1 .. n BY <2>2, <1>4
    <3>2. PICK a \in 1 .. n, b \in 0 .. n : a = el.next /\ b = el.prev BY <3>1, <1>4
    <3>3. PICK w : w = Set_Prev(before, a, b) OBVIOUS
    <3>4. /\ Cells(w, n) /\ w[a].prev = b /\ w[a].next = before[a].next
          /\ Like(w[a], before[a])
          /\ \A c \in 1 .. n : c # a => w[c] = before[c]
      <4>1. Cells(before, n) BY <1>5
      <4> HIDE DEF before, after, el
      <4>2. Prev_Written(n, before, a, b, w)
        BY ONLY <4>1, <3>3, SetPrev, n \in Nat, a \in 1 .. n, b \in 0 .. n
      <4> QED BY ONLY <4>2 DEF Prev_Written
    <3>5. after = w
      <4>1. after = Set_Prev(before, el.next, el.prev) BY <2>2 DEF Set_Prev
      <4> HIDE DEF after, el
      <4> QED BY <4>1, <3>2, <3>3
    <3>6. before[a].dynamic BY <2>2, <3>2
    <3>7. PICK p, q : p = el.prev /\ q = el.next OBVIOUS
    <3> HIDE DEF after, el
    <3>8. \A c \in 1 .. n :
            /\ Like(w[c], before[c]) /\ w[c].next = before[c].next
            /\ w[c].prev = IF c = q /\ before[c].dynamic THEN p ELSE before[c].prev
      <4>1. a = q /\ b = p BY <3>2, <3>7
      <4>2. \A c \in 1 .. n : Like(before[c], before[c]) BY DEF Like
      <4> QED BY <4>1, <4>2, <3>4, <3>6
    <3> QED BY <3>4, <3>5, <3>7, <3>8
  <2> QED BY <2>1, <2>2
<1> HIDE DEF after
<1>7. Old_Cell(old) \in Cell_Type(n) BY DEF Old_Cell, Cell_Type
<1>8. after \in [1 .. n -> Cell_Type(n)] BY <1>6 DEF Cells
<1>9. /\ t \in [1 .. n -> Cell_Type(n)] /\ t[El] = Old_Cell(old)
      /\ \A c \in 1 .. n : c # El => t[c] = after[c]
  BY <1>7, <1>8 DEF t
<1>10. Cells(t, n) BY <1>9 DEF Cells
<1>11. ASSUME NEW c \in 1 .. n, c # El
       PROVE  /\ Like(t[c], cs[c])
              /\ t[c].next = IF c = el.prev THEN el.next ELSE cs[c].next
              /\ t[c].prev = IF c = el.next /\ cs[c].dynamic THEN el.prev ELSE cs[c].prev
  <2>1. t[c] = after[c] BY <1>9, <1>11
  <2>2. Like(after[c], cs[c]) BY <1>5, <1>6 DEF Like
  <2>3. before[c].dynamic = cs[c].dynamic BY <1>5 DEF Like
  <2> QED BY <2>1, <2>2, <2>3, <1>5, <1>6
<1> QED BY <1>9, <1>10, <1>11 DEF After_Unlink

-----------------------------------------------------------------------------
(* The order of an event list.                                               *)

(* The dynamic cells of s are before the others and linked back.             *)
Doubly(cs, s) ==
  \A i \in 1 .. Len(s) : cs[s[i]].dynamic =>
    /\ cs[s[i]].prev = IF i = 1 THEN 0 ELSE s[i - 1]
    /\ i > 1 => cs[s[i - 1]].dynamic

(* Nothing changes in the cells of s.                                        *)
LEMMA DoublyKept ==
  ASSUME NEW s \in Seq(Nat), NEW cs, NEW t, Doubly(cs, s),
         \A k \in 1 .. Len(s) : /\ t[s[k]].dynamic = cs[s[k]].dynamic
                                /\ cs[s[k]].dynamic => t[s[k]].prev = cs[s[k]].prev
  PROVE  Doubly(t, s)
<1>1. PICK n \in Nat : n = Len(s) OBVIOUS
<1> SUFFICES ASSUME NEW i \in 1 .. n, t[s[i]].dynamic
             PROVE  /\ t[s[i]].prev = IF i = 1 THEN 0 ELSE s[i - 1]
                    /\ i > 1 => t[s[i - 1]].dynamic
  BY <1>1 DEF Doubly
<1>2. cs[s[i]].dynamic /\ t[s[i]].prev = cs[s[i]].prev BY <1>1
<1>3. /\ cs[s[i]].prev = IF i = 1 THEN 0 ELSE s[i - 1]
      /\ i > 1 => cs[s[i - 1]].dynamic
  BY <1>1, <1>2 DEF Doubly
<1>4. i > 1 => t[s[i - 1]].dynamic = cs[s[i - 1]].dynamic
  <2>1. i > 1 => i - 1 \in 1 .. n OBVIOUS
  <2> QED BY <2>1, <1>1
<1> QED BY <1>2, <1>3, <1>4

(* A cell becomes the first of the list.                                     *)
LEMMA DoublyPushed ==
  ASSUME NEW s \in Seq(Nat), NEW cs, NEW t, NEW x \in Nat, Doubly(cs, s),
         t[x].prev = 0,
         Len(s) # 0 /\ cs[s[1]].dynamic => t[x].dynamic,
         \A k \in 1 .. Len(s) :
           /\ t[s[k]].dynamic = cs[s[k]].dynamic
           /\ cs[s[k]].dynamic => t[s[k]].prev = IF k = 1 THEN x ELSE cs[s[k]].prev
  PROVE  Doubly(t, Pushed(s, x))
<1>1. PICK n \in Nat : n = Len(s) OBVIOUS
<1> DEFINE u == Pushed(s, x)
<1>3. Len(u) = n + 1 /\ \A k \in 1 .. n + 1 : u[k] = IF k = 1 THEN x ELSE s[k - 1]
  <2>1. /\ Len(u) = Len(s) + 1
        /\ \A k \in 1 .. Len(s) + 1 : u[k] = IF k = 1 THEN x ELSE s[k - 1]
    BY ONLY PushedType, s \in Seq(Nat), x \in Nat
  <2> HIDE DEF u
  <2> QED BY <1>1, <2>1
<1> HIDE DEF u
<1> SUFFICES ASSUME NEW i \in 1 .. n + 1, t[u[i]].dynamic
             PROVE  /\ t[u[i]].prev = IF i = 1 THEN 0 ELSE u[i - 1]
                    /\ i > 1 => t[u[i - 1]].dynamic
  BY <1>3 DEF Doubly, u
<1>4. CASE i = 1 BY <1>3, <1>4
<1>5. CASE i # 1
  <2>1. PICK k \in 1 .. n : k = i - 1 BY <1>5
  <2>2. u[i] = s[k] /\ u[i - 1] = IF k = 1 THEN x ELSE s[k - 1]
    <3>1. u[i] = s[k] BY <2>1, <1>3, <1>5
    <3>2. k \in 1 .. n + 1 OBVIOUS
    <3> QED BY <3>1, <3>2, <2>1, <1>3
  <2>3. cs[s[k]].dynamic /\ t[s[k]].prev = IF k = 1 THEN x ELSE cs[s[k]].prev
    BY <2>2, <1>1
  <2>4. /\ cs[s[k]].prev = IF k = 1 THEN 0 ELSE s[k - 1]
        /\ k > 1 => cs[s[k - 1]].dynamic
    BY <2>3, <1>1 DEF Doubly
  <2>5. CASE k = 1
    <3>1. n # 0 BY <2>5
    <3>2. t[x].dynamic BY <2>3, <2>5, <3>1, <1>1
    <3> QED BY <3>2, <2>2, <2>3, <2>5, <1>5
  <2>6. CASE k # 1
    <3>1. k - 1 \in 1 .. n BY <2>6
    <3>2. t[s[k - 1]].dynamic = cs[s[k - 1]].dynamic BY <3>1, <1>1
    <3> QED BY <3>2, <2>2, <2>3, <2>4, <2>6, <1>5
  <2> QED BY <2>5, <2>6
<1> QED BY <1>4, <1>5

(* A dynamic cell leaves the list.                                           *)
LEMMA DoublyRemoved ==
  ASSUME NEW s \in Seq(Nat), NEW cs, NEW t, NEW i \in 1 .. Len(s), Doubly(cs, s),
         \A j, k \in 1 .. Len(s) : s[j] = s[k] => j = k,
         cs[s[i]].dynamic,
         \A k \in 1 .. Len(s) : k # i =>
           /\ t[s[k]].dynamic = cs[s[k]].dynamic
           /\ cs[s[k]].dynamic =>
                t[s[k]].prev = IF k = i + 1 THEN cs[s[i]].prev ELSE cs[s[k]].prev
  PROVE  Doubly(t, Removed(s, i))
<1>1. PICK n \in Nat : n = Len(s) OBVIOUS
<1> DEFINE u == Removed(s, i)
<1>3. /\ Len(u) = n - 1 /\ i \in 1 .. n
      /\ \A k \in 1 .. n - 1 : u[k] = IF k < i THEN s[k] ELSE s[k + 1]
  BY <1>1, RemovedType
<1> HIDE DEF u
<1>4. \A k \in 1 .. n : cs[s[k]].dynamic =>
        /\ cs[s[k]].prev = IF k = 1 THEN 0 ELSE s[k - 1]
        /\ k > 1 => cs[s[k - 1]].dynamic
  BY <1>1 DEF Doubly
<1>5. \A k \in 1 .. n : k # i =>
        /\ t[s[k]].dynamic = cs[s[k]].dynamic
        /\ cs[s[k]].dynamic =>
             t[s[k]].prev = IF k = i + 1 THEN cs[s[i]].prev ELSE cs[s[k]].prev
  BY <1>1
<1> SUFFICES ASSUME NEW j \in 1 .. n - 1, t[u[j]].dynamic
             PROVE  /\ t[u[j]].prev = IF j = 1 THEN 0 ELSE u[j - 1]
                    /\ j > 1 => t[u[j - 1]].dynamic
  BY <1>3 DEF Doubly, u
<1>6. CASE j < i
  <2>1. j \in 1 .. n /\ j # i /\ j # i + 1 BY <1>3, <1>6
  <2>2. u[j] = s[j] BY <1>3, <1>6
  <2>3. cs[s[j]].dynamic /\ t[s[j]].prev = cs[s[j]].prev BY <2>1, <2>2, <1>5
  <2>4. CASE j = 1 BY <2>1, <2>2, <2>3, <2>4, <1>4
  <2>5. CASE j # 1
    <3>1. PICK m \in 1 .. n - 1 : m = j - 1 /\ m < i /\ m # i /\ m \in 1 .. n
      BY ONLY <2>5, <1>3, <1>6, n \in Nat, j \in 1 .. n - 1
    <3>2. u[m] = s[m] BY <3>1, <1>3
    <3>3. cs[s[j]].prev = s[m] /\ cs[s[m]].dynamic BY <2>1, <2>3, <2>5, <3>1, <1>4
    <3>4. t[s[m]].dynamic BY <3>1, <3>3, <1>5
    <3> QED BY <3>1, <3>2, <3>3, <3>4, <2>2, <2>3, <2>5
  <2> QED BY <2>4, <2>5
<1>7. CASE j = i
  <2>1. PICK k \in 1 .. n : k = i + 1 /\ k # i BY <1>3, <1>7
  <2>2. u[j] = s[k] BY <2>1, <1>3, <1>7
  <2>3. cs[s[k]].dynamic /\ t[s[k]].prev = cs[s[i]].prev BY <2>1, <2>2, <1>5
  <2>4. /\ cs[s[i]].prev = IF i = 1 THEN 0 ELSE s[i - 1]
        /\ i > 1 => cs[s[i - 1]].dynamic
    BY <1>3, <1>4
  <2>5. CASE i = 1 BY <2>2, <2>3, <2>4, <2>5, <1>7
  <2>6. CASE i # 1
    <3>1. PICK m \in 1 .. n - 1 : m = i - 1 /\ m < i /\ m # i /\ m \in 1 .. n
      BY ONLY <2>6, <1>3, <1>7, n \in Nat, j \in 1 .. n - 1
    <3>2. u[m] = s[m] BY <3>1, <1>3
    <3>3. t[s[m]].dynamic
      <4>1. cs[s[m]].dynamic BY <2>4, <3>1
      <4> QED BY <3>1, <4>1, <1>5
    <3> QED BY <3>1, <3>2, <3>3, <2>2, <2>3, <2>4, <2>6, <1>7
  <2> QED BY <2>5, <2>6
<1>8. CASE j > i
  <2>1. PICK k \in 1 .. n : k = j + 1 /\ k # i /\ k # i + 1 /\ k > 1 BY <1>3, <1>8
  <2>2. u[j] = s[k] BY <2>1, <1>3, <1>8
  <2>3. cs[s[k]].dynamic /\ t[s[k]].prev = cs[s[k]].prev BY <2>1, <2>2, <1>5
  <2>4. cs[s[k]].prev = s[j] /\ cs[s[j]].dynamic
    <3>1. k - 1 = j /\ k # 1 BY <2>1
    <3> QED BY <3>1, <2>1, <2>3, <1>4
  <2>5. PICK m \in 1 .. n - 1 : m = j - 1 /\ ~(m < i) /\ m + 1 = j BY <1>3, <1>8
  <2>6. u[m] = s[j] BY <2>5, <1>3
  <2>7. t[s[j]].dynamic
    <3>1. j \in 1 .. n /\ j # i BY <1>8
    <3> QED BY <3>1, <2>4, <1>5
  <2>8. j # 1 BY <1>3, <1>8
  <2> QED BY <2>2, <2>3, <2>4, <2>5, <2>6, <2>7, <2>8
<1> QED BY <1>3, <1>6, <1>7, <1>8

-----------------------------------------------------------------------------
(* The shape of the lists: E[s] is the event list of s, C[p] the sensitivity *)
(* list of p, and O the recycled cells.                                      *)

(* E, C and O are the lists that begin in ev, ps and old.                    *)
Linked(cs, ev, ps, old, E, C, O) ==
  /\ \A s \in Signal : List(Next_Links(cs), E[s], ev[s])
  /\ \A p \in Process : List(Chain_Links(cs), C[p], ps[p])
  /\ List(Next_Links(cs), O, old)

(* Which cells are on which list.                                            *)
Placed(n, cs, E, C, O) ==
  /\ \A c \in 1 .. n, s \in Signal : c \in Elems(E[s]) <=> c \notin Elems(O) /\ cs[c].sig = s
  /\ \A c \in 1 .. n, p \in Process :
       c \in Elems(C[p]) <=> c \notin Elems(O) /\ cs[c].dynamic /\ cs[c].proc = p
  /\ \A c \in 1 .. n :
       IF c \in Elems(O) THEN cs[c].dynamic
       ELSE /\ cs[c].sig \in Signal
            /\ cs[c].proc \in Process
            /\ cs[c].dynamic => cs[c].proc \in Plain

(* The n cells are on lists, in order, and where they should be.             *)
Shape(n, cs, ev, ps, old, E, C, O) ==
  /\ Cells(cs, n)
  /\ ev \in [Signal -> Nat] /\ ps \in [Process -> Nat]
  /\ E \in [Signal -> Seq(Nat)] /\ C \in [Process -> Seq(Nat)] /\ O \in Seq(Nat)
  /\ Linked(cs, ev, ps, old, E, C, O)
  /\ \A s \in Signal : Doubly(cs, E[s])
  /\ Placed(n, cs, E, C, O)

(* f with the value b for a.                                                 *)
With(f, a, b) == [f EXCEPT ![a] = b]

(* What the links of cells are.                                              *)
LEMMA LinksType ==
  ASSUME NEW n \in Nat, NEW cs, Cells(cs, n)
  PROVE  /\ Len(Next_Links(cs)) = n /\ \A c \in 1 .. n : Next_Links(cs)[c] = cs[c].next
         /\ Len(Chain_Links(cs)) = n /\ \A c \in 1 .. n : Chain_Links(cs)[c] = cs[c].chain
<1>1. Len(cs) = n BY DEF Cells
<1> QED BY <1>1 DEF Next_Links, Chain_Links

(* The elements and the head of a list.                                      *)
LEMMA ListFacts ==
  ASSUME NEW n \in Nat, NEW link, Len(link) = n, NEW s, NEW h, List(link, s, h)
  PROVE  /\ s \in Seq(Nat) /\ Len(s) \in Nat
         /\ h \in 0 .. n /\ (h = 0 <=> Len(s) = 0) /\ (Len(s) # 0 => h = s[1])
         /\ \A i \in 1 .. Len(s) : s[i] \in 1 .. n /\ s[i] \in Elems(s)
         /\ \A i, j \in 1 .. Len(s) : s[i] = s[j] => i = j
         /\ \A i \in 1 .. Len(s) : link[s[i]] = IF i = Len(s) THEN 0 ELSE s[i + 1]
         /\ Elems(s) \subseteq 1 .. n
<1>1. s \in Seq(Nat) BY DEF List
<1>2. PICK l \in Nat : l = Len(s) BY <1>1
<1>3. \A i \in 1 .. l : s[i] \in 1 .. n /\ s[i] \in Elems(s) BY <1>2 DEF List, Elems
<1>4. h \in 0 .. n /\ (h = 0 <=> l = 0) /\ (l # 0 => h = s[1])
  <2>1. h = IF l = 0 THEN 0 ELSE s[1] BY <1>2 DEF List
  <2>2. l # 0 => 1 \in 1 .. l OBVIOUS
  <2> QED BY <2>1, <2>2, <1>3
<1>5. Elems(s) \subseteq 1 .. n BY <1>2, <1>3 DEF Elems
<1> QED BY <1>1, <1>2, <1>3, <1>4, <1>5 DEF List

(* What is true of the lists r after the first cell of the sensitivity list  *)
(* of p, El, was unlinked and recycled.                                      *)
Closed(n, cs, ps, C, p, El, r) ==
  /\ El \in 1 .. n /\ r.cells[El].dynamic
  /\ \A c \in 1 .. n : c # El => Like(r.cells[c], cs[c])
  /\ \E E2, O2 : Shape(n, r.cells, r.event, With(ps, p, cs[El].chain), r.old,
                       E2, With(C, p, Removed(C[p], 1)), O2)

(* The first cell of a sensitivity list is unlinked and recycled.            *)
LEMMA ShapeClosed ==
  ASSUME NEW n \in Nat, NEW cs, NEW ev, NEW ps, NEW old, NEW E, NEW C, NEW O,
         Shape(n, cs, ev, ps, old, E, C, O),
         NEW p \in Process, Len(C[p]) # 0, NEW El, El = C[p][1],
         NEW lists, lists.cells = cs, lists.event = ev, lists.old = old,
         NEW r, r = Recycle(Unlink(lists, El), El)
  PROVE  Closed(n, cs, ps, C, p, El, r)
<1>1. /\ Cells(cs, n) /\ ev \in [Signal -> Nat] /\ ps \in [Process -> Nat]
      /\ E \in [Signal -> Seq(Nat)] /\ C \in [Process -> Seq(Nat)] /\ O \in Seq(Nat)
      /\ Linked(cs, ev, ps, old, E, C, O)
      /\ \A s \in Signal : Doubly(cs, E[s])
      /\ Placed(n, cs, E, C, O)
  BY DEF Shape
<1>2. PICK N, D : N = Next_Links(cs) /\ D = Chain_Links(cs) OBVIOUS
<1>3. /\ Len(N) = n /\ \A c \in 1 .. n : N[c] = cs[c].next
      /\ Len(D) = n /\ \A c \in 1 .. n : D[c] = cs[c].chain
  BY <1>1, <1>2, LinksType
<1>4. /\ \A s \in Signal : List(N, E[s], ev[s])
      /\ \A q \in Process : List(D, C[q], ps[q])
      /\ List(N, O, old)
  BY <1>1, <1>2 DEF Linked
<1>5. PICK d \in Seq(Nat) : d = C[p] BY <1>1
<1>6. List(D, d, ps[p]) BY <1>4, <1>5
<1>7. PICK m \in Nat : m = Len(d) /\ m # 0 BY <1>5
<1>8. El = d[1] /\ El \in 1 .. n /\ El \in Elems(d) /\ 1 \in 1 .. m
  <2>1. 1 \in 1 .. m BY <1>7
  <2>2. d[1] \in 1 .. n /\ d[1] \in Elems(d) BY <2>1, <1>3, <1>6, <1>7, ListFacts
  <2> QED BY <2>1, <2>2, <1>5
<1>9. El \notin Elems(O) /\ cs[El].dynamic /\ cs[El].proc = p
  BY <1>1, <1>5, <1>8 DEF Placed
<1>10. PICK sg \in Signal : sg = cs[El].sig BY <1>1, <1>8, <1>9 DEF Placed
<1>11. PICK e \in Seq(Nat) : e = E[sg] BY <1>1
<1>12. PICK l \in Nat : l = Len(e) BY <1>11
<1>13. List(N, e, ev[sg]) BY <1>4, <1>11
<1>14. El \in Elems(e) BY <1>1, <1>8, <1>9, <1>10, <1>11 DEF Placed
<1>15. PICK k \in 1 .. l : e[k] = El BY <1>12, <1>14 DEF Elems
<1>16. /\ \A i \in 1 .. l : e[i] \in 1 .. n /\ e[i] \in Elems(e)
       /\ \A i, j \in 1 .. l : e[i] = e[j] => i = j
       /\ \A i \in 1 .. l : N[e[i]] = IF i = l THEN 0 ELSE e[i + 1]
  <2>1. /\ \A i \in 1 .. Len(e) : e[i] \in 1 .. n /\ e[i] \in Elems(e)
        /\ \A i, j \in 1 .. Len(e) : e[i] = e[j] => i = j
        /\ \A i \in 1 .. Len(e) : N[e[i]] = IF i = Len(e) THEN 0 ELSE e[i + 1]
    BY ONLY <1>3, <1>13, ListFacts, n \in Nat
  <2> QED BY ONLY <2>1, <1>12
<1>17. PICK pr, nx : pr = cs[El].prev /\ nx = cs[El].next OBVIOUS
<1>18. pr = IF k = 1 THEN 0 ELSE e[k - 1]
  <2>1. Doubly(cs, e) BY <1>1, <1>11
  <2> QED BY <2>1, <1>9, <1>12, <1>15, <1>17 DEF Doubly
<1>19. nx = IF k = l THEN 0 ELSE e[k + 1] BY <1>3, <1>8, <1>15, <1>16, <1>17
<1>20. /\ pr = 0 <=> k = 1
       /\ pr # 0 => k - 1 \in 1 .. l /\ pr = e[k - 1] /\ pr \in Elems(e) /\ pr \in 1 .. n
  <2>1. CASE k = 1 BY <2>1, <1>18
  <2>2. CASE k # 1
    <3>1. k - 1 \in 1 .. l BY <2>2
    <3> QED BY <2>2, <3>1, <1>16, <1>18
  <2> QED BY <2>1, <2>2
<1>21. /\ nx = 0 <=> k = l
       /\ nx # 0 => k + 1 \in 1 .. l /\ nx = e[k + 1] /\ nx \in Elems(e) /\ nx \in 1 .. n
  <2>1. CASE k = l BY <2>1, <1>19
  <2>2. CASE k # l
    <3>1. k + 1 \in 1 .. l BY <2>2
    <3> QED BY <2>2, <3>1, <1>16, <1>19
  <2> QED BY <2>1, <2>2
<1>22. pr # El /\ nx # El /\ (pr # 0 => pr # nx)
  <2>1. pr # El
    <3>1. CASE pr = 0 BY <3>1, <1>8
    <3>2. CASE pr # 0
      <4>1. k - 1 # k OBVIOUS
      <4> QED BY <4>1, <3>2, <1>15, <1>16, <1>20
    <3> QED BY <3>1, <3>2
  <2>2. nx # El
    <3>1. CASE nx = 0 BY <3>1, <1>8
    <3>2. CASE nx # 0
      <4>1. k + 1 # k OBVIOUS
      <4> QED BY <4>1, <3>2, <1>15, <1>16, <1>21
    <3> QED BY <3>1, <3>2
  <2>3. ASSUME pr # 0, pr = nx PROVE FALSE
    <3>1. k + 1 # k - 1 OBVIOUS
    <3> QED BY <3>1, <2>3, <1>16, <1>20, <1>21
  <2> QED BY <2>1, <2>2, <2>3
<1>23. old \in 0 .. n BY <1>3, <1>4, ListFacts
<1>24. /\ r = [cells |-> r.cells, event |-> r.event, old |-> r.old]
       /\ r.old = El
       /\ r.event = After_Event(cs[El], ev)
       /\ After_Unlink(cs, n, El, old, r.cells)
  <2>1. /\ El \in 1 .. n /\ cs[El].prev # El /\ cs[El].next # El
        /\ cs[El].prev # 0 => cs[El].prev # cs[El].next
    BY <1>8, <1>17, <1>22
  <2>2. /\ r = Recycle(Unlink(lists, El), El)
        /\ lists.cells = cs /\ lists.event = ev /\ lists.old = old
    OBVIOUS
  <2>3. n \in Nat /\ Cells(cs, n) BY <1>1
  <2>4. Unlinked(n, cs, ev, old, El, r)
    BY ONLY <2>1, <2>2, <2>3, <1>23, UnlinkFields
  <2> QED BY <2>4 DEF Unlinked
<1>25. PICK t : t = r.cells OBVIOUS
<1>26. /\ Cells(t, n) /\ t[El] = Old_Cell(old)
       /\ \A c \in 1 .. n : c # El =>
            /\ Like(t[c], cs[c])
            /\ t[c].next = IF c = pr THEN nx ELSE cs[c].next
            /\ t[c].prev = IF c = nx /\ cs[c].dynamic THEN pr ELSE cs[c].prev
  BY <1>17, <1>24, <1>25 DEF After_Unlink
<1>27. PICK ev2 : ev2 = IF pr = 0 THEN [ev EXCEPT ![sg] = nx] ELSE ev OBVIOUS
<1>28. r.event = ev2 /\ r.old = El BY <1>10, <1>17, <1>24, <1>27 DEF After_Event
<1>29. PICK M, G : M = Next_Links(t) /\ G = Chain_Links(t) OBVIOUS
<1>30. /\ Len(M) = n /\ \A c \in 1 .. n : M[c] = t[c].next
       /\ Len(G) = n /\ \A c \in 1 .. n : G[c] = t[c].chain
  BY <1>26, <1>29, LinksType
<1>31. /\ t[El].next = old /\ t[El].dynamic
       /\ \A c \in 1 .. n : c # El =>
            /\ M[c] = (IF c = pr THEN nx ELSE N[c]) /\ G[c] = D[c]
            /\ t[c].dynamic = cs[c].dynamic /\ t[c].proc = cs[c].proc /\ t[c].sig = cs[c].sig
  BY <1>3, <1>26, <1>30 DEF Like, Old_Cell
<1>32. PICK e2, d2, O2 : e2 = Removed(e, k) /\ d2 = Removed(d, 1) /\ O2 = Pushed(O, El) OBVIOUS
<1>33. /\ e2 \in Seq(Nat) /\ Elems(e2) = Elems(e) \ {El}
       /\ d2 \in Seq(Nat) /\ Elems(d2) = Elems(d) \ {El}
       /\ O2 \in Seq(Nat) /\ Elems(O2) = Elems(O) \cup {El}
  <2>1. e2 \in Seq(Nat) /\ Elems(e2) = Elems(e) \ {El}
    <3>1. k \in 1 .. Len(e) /\ \A i, j \in 1 .. Len(e) : e[i] = e[j] => i = j
      BY ONLY <1>12, <1>15, <1>16
    <3>2. Removed(e, k) \in Seq(Nat) /\ Elems(Removed(e, k)) = Elems(e) \ {e[k]}
      BY ONLY <3>1, RemovedType, e \in Seq(Nat)
    <3> QED BY <3>2, <1>15, <1>32
  <2>2. d2 \in Seq(Nat) /\ Elems(d2) = Elems(d) \ {El}
    <3>1. 1 \in 1 .. Len(d) BY <1>7, <1>8
    <3>2. \A i, j \in 1 .. Len(d) : d[i] = d[j] => i = j BY <1>6 DEF List
    <3>3. Removed(d, 1) \in Seq(Nat) /\ Elems(Removed(d, 1)) = Elems(d) \ {d[1]}
      BY ONLY <3>1, <3>2, RemovedType, d \in Seq(Nat)
    <3> QED BY <3>3, <1>8, <1>32
  <2>3. O2 \in Seq(Nat) /\ Elems(O2) = Elems(O) \cup {El}
    <3>1. O \in Seq(Nat) /\ El \in Nat BY <1>1, <1>8
    <3>2. Pushed(O, El) \in Seq(Nat) /\ Elems(Pushed(O, El)) = Elems(O) \cup {El}
      BY ONLY <3>1, PushedType
    <3> QED BY <3>2, <1>32
  <2> QED BY <2>1, <2>2, <2>3
<1>34. List(M, e2, ev2[sg])
  <2>1. \A i \in 1 .. l : i # k =>
          e[i] \in 1 .. n /\ e[i] # El /\ (i # k - 1 => e[i] # pr)
    <3>1. ASSUME NEW i \in 1 .. l, i # k PROVE e[i] # El
      BY ONLY <3>1, <1>15, <1>16, k \in 1 .. l
    <3>2. ASSUME NEW i \in 1 .. l, i # k - 1 PROVE e[i] # pr
      <4>1. e[i] # 0 BY <1>16
      <4> QED BY ONLY <4>1, <3>2, <1>16, <1>20
    <3> QED BY <3>1, <3>2, <1>16
  <2>2. \A i \in 1 .. Len(e) : i # k =>
          e[i] \in 1 .. Len(M) /\ (i # k - 1 => M[e[i]] = N[e[i]])
    BY ONLY <2>1, <1>12, <1>30, <1>31
  <2>3. k > 1 => M[e[k - 1]] = N[e[k]]
    <3>1. k > 1 => pr # 0 BY <1>20
    <3>2. N[e[k]] = nx BY <1>3, <1>8, <1>15, <1>17
    <3> QED BY ONLY <3>1, <3>2, <1>20, <1>22, <1>31, k \in 1 .. l
  <2>4. k \in 1 .. Len(e) BY <1>12
  <2>5. List(M, Removed(e, k), IF k = 1 THEN N[e[k]] ELSE ev[sg])
    BY ONLY <2>2, <2>3, <2>4, <1>13, ListRemoved
  <2>6. ev2[sg] = IF k = 1 THEN N[e[k]] ELSE ev[sg]
    <3>1. N[e[k]] = nx BY <1>3, <1>8, <1>15, <1>17
    <3>2. pr = 0 <=> k = 1 BY <1>20
    <3> QED BY ONLY <3>1, <3>2, <1>1, <1>27, sg \in Signal
  <2> QED BY <2>5, <2>6, <1>32
<1>35. ASSUME NEW s \in Signal, s # sg PROVE List(M, E[s], ev2[s])
  <2>1. ev2[s] = ev[s] BY ONLY <1>35, <1>1, <1>27, s \in Signal, sg \in Signal
  <2>2. ASSUME NEW c \in Elems(E[s]) PROVE c \in 1 .. n /\ M[c] = N[c]
    <3>1. c \in 1 .. n BY <1>3, <1>4, ListFacts
    <3>2. cs[c].sig = s BY <3>1, <1>1 DEF Placed
    <3>3. c # El BY <3>2, <1>10, <1>35
    <3>4. c # pr
      <4>1. \A x \in Elems(e) : x \in 1 .. n => cs[x].sig = sg
        BY <1>1, <1>11 DEF Placed
      <4> QED BY <3>1, <3>2, <4>1, <1>20, <1>35
    <3> QED BY <3>1, <3>3, <3>4, <1>31
  <2>3. \A i \in 1 .. Len(E[s]) : E[s][i] \in 1 .. Len(M) /\ M[E[s][i]] = N[E[s][i]]
    BY <2>2, <1>30 DEF Elems
  <2> QED BY <2>1, <2>3, <1>4, ListKept
<1>36. List(G, d2, cs[El].chain)
  <2>1. \A i \in 1 .. m : i # 1 => d[i] \in 1 .. n /\ d[i] # El
    <3>1. \A i \in 1 .. m : d[i] \in 1 .. n /\ \A j \in 1 .. m : d[i] = d[j] => i = j
      <4>1. \A i \in 1 .. Len(d) :
              d[i] \in 1 .. n /\ \A j \in 1 .. Len(d) : d[i] = d[j] => i = j
        BY ONLY <1>3, <1>6, ListFacts, n \in Nat
      <4> QED BY ONLY <4>1, <1>7
    <3> QED BY ONLY <3>1, <1>8
  <2>2. \A i \in 1 .. Len(d) : i # 1 =>
          d[i] \in 1 .. Len(G) /\ (i # 1 - 1 => G[d[i]] = D[d[i]])
    BY ONLY <2>1, <1>7, <1>30, <1>31
  <2>3. 1 \in 1 .. Len(d) BY <1>7, <1>8
  <2>4. List(G, Removed(d, 1), IF 1 = 1 THEN D[d[1]] ELSE ps[p])
    <3>1. 1 > 1 => G[d[1 - 1]] = D[d[1]] OBVIOUS
    <3> QED BY ONLY <2>2, <2>3, <3>1, <1>6, ListRemoved
  <2>5. D[d[1]] = cs[El].chain BY <1>3, <1>8
  <2> QED BY <2>4, <2>5, <1>32
<1>37. ASSUME NEW q \in Process, q # p PROVE List(G, C[q], ps[q])
  <2>1. ASSUME NEW c \in Elems(C[q]) PROVE c \in 1 .. n /\ G[c] = D[c]
    <3>1. c \in 1 .. n BY <1>3, <1>4, ListFacts
    <3>2. cs[c].proc = q BY <3>1, <1>1 DEF Placed
    <3> QED BY <3>1, <3>2, <1>9, <1>31, <1>37
  <2>2. \A i \in 1 .. Len(C[q]) : C[q][i] \in 1 .. Len(G) /\ G[C[q][i]] = D[C[q][i]]
    BY <2>1, <1>30 DEF Elems
  <2> QED BY <2>2, <1>4, ListKept
<1>38. List(M, O2, El)
  <2>1. ASSUME NEW c \in Elems(O) PROVE c \in 1 .. n /\ M[c] = N[c]
    <3>1. c \in 1 .. n BY <1>3, <1>4, ListFacts
    <3>2. c # El BY <1>9
    <3>3. c # pr
      <4>1. \A x \in Elems(e) : x \in 1 .. n => x \notin Elems(O)
        BY <1>1, <1>11 DEF Placed
      <4> QED BY <4>1, <3>1, <1>20
    <3> QED BY <3>1, <3>2, <3>3, <1>31
  <2>2. \A i \in 1 .. Len(O) : O[i] \in 1 .. Len(M) /\ M[O[i]] = N[O[i]]
    BY <2>1, <1>30 DEF Elems
  <2>3. El \in Nat /\ El \in 1 .. Len(M) /\ M[El] = old BY <1>8, <1>30, <1>31
  <2>4. List(M, Pushed(O, El), El) BY ONLY <2>2, <2>3, <1>4, <1>9, ListPushed
  <2> QED BY <2>4, <1>32
<1>39. Doubly(t, e2)
  <2>1. ASSUME NEW i \in 1 .. l, i # k
        PROVE  /\ t[e[i]].dynamic = cs[e[i]].dynamic
               /\ cs[e[i]].dynamic =>
                    t[e[i]].prev = IF i = k + 1 THEN cs[e[k]].prev ELSE cs[e[i]].prev
    <3>1. PICK c \in 1 .. n : c = e[i] BY <1>16
    <3>2. c # El BY ONLY <2>1, <3>1, <1>15, <1>16, k \in 1 .. l
    <3>3. c = nx <=> i = k + 1
      <4>1. CASE nx = 0
        <5>1. k = l BY <4>1, <1>21
        <5>2. i # k + 1 BY <5>1
        <5>3. c # nx BY <4>1
        <5> QED BY <5>2, <5>3
      <4>2. CASE nx # 0
        <5>1. k + 1 \in 1 .. l /\ nx = e[k + 1] BY <4>2, <1>21
        <5> QED BY ONLY <5>1, <3>1, <1>16, i \in 1 .. l
      <4> QED BY <4>1, <4>2
    <3>4. t[c].dynamic = cs[c].dynamic BY <3>2, <1>31
    <3>5. t[c].prev = IF c = nx /\ cs[c].dynamic THEN pr ELSE cs[c].prev BY <3>2, <1>26
    <3> QED BY ONLY <3>1, <3>3, <3>4, <3>5, <1>15, <1>17
  <2>2. \A i \in 1 .. Len(e) : i # k =>
          /\ t[e[i]].dynamic = cs[e[i]].dynamic
          /\ cs[e[i]].dynamic =>
               t[e[i]].prev = IF i = k + 1 THEN cs[e[k]].prev ELSE cs[e[i]].prev
    BY ONLY <2>1, <1>12
  <2>3. k \in 1 .. Len(e) /\ cs[e[k]].dynamic BY <1>9, <1>12, <1>15
  <2>4. \A i, j \in 1 .. Len(e) : e[i] = e[j] => i = j BY ONLY <1>12, <1>16
  <2>5. Doubly(cs, e) BY <1>1, <1>11
  <2>6. Doubly(t, Removed(e, k))
    BY ONLY <2>2, <2>3, <2>4, <2>5, DoublyRemoved, e \in Seq(Nat)
  <2> QED BY <2>6, <1>32
<1>40. ASSUME NEW s \in Signal, s # sg PROVE Doubly(t, E[s])
  <2>1. ASSUME NEW c \in Elems(E[s])
        PROVE  t[c].dynamic = cs[c].dynamic /\ t[c].prev = cs[c].prev
    <3>1. c \in 1 .. n BY <1>3, <1>4, ListFacts
    <3>2. cs[c].sig = s BY <3>1, <1>1 DEF Placed
    <3>3. c # El BY <3>2, <1>10, <1>40
    <3>4. c # nx
      <4>1. \A x \in Elems(e) : x \in 1 .. n => cs[x].sig = sg
        BY <1>1, <1>11 DEF Placed
      <4> QED BY <3>1, <3>2, <4>1, <1>21, <1>40
    <3> QED BY <3>1, <3>3, <3>4, <1>26, <1>31
  <2>2. \A i \in 1 .. Len(E[s]) : t[E[s][i]].dynamic = cs[E[s][i]].dynamic
                                 /\ t[E[s][i]].prev = cs[E[s][i]].prev
    BY <2>1 DEF Elems
  <2>3. E[s] \in Seq(Nat) /\ Doubly(cs, E[s]) BY <1>1
  <2> QED BY ONLY <2>2, <2>3, DoublyKept
<1>41. PICK E2, C2, ps2 : /\ E2 = With(E, sg, e2) /\ C2 = With(C, p, d2)
                          /\ ps2 = With(ps, p, cs[El].chain)
  OBVIOUS
<1>42. /\ E2 \in [Signal -> Seq(Nat)] /\ E2[sg] = e2
       /\ \A s \in Signal : s # sg => E2[s] = E[s]
  BY <1>1, <1>33, <1>41 DEF With
<1>43. /\ C2 \in [Process -> Seq(Nat)] /\ C2[p] = d2
       /\ \A q \in Process : q # p => C2[q] = C[q]
  BY <1>1, <1>33, <1>41 DEF With
<1>44. cs[El].chain \in 0 .. n /\ nx \in 0 .. n
  BY ONLY <1>1, <1>8, <1>17, CellFields, n \in Nat
<1>45. /\ ps2 \in [Process -> Nat] /\ ps2[p] = cs[El].chain
       /\ \A q \in Process : q # p => ps2[q] = ps[q]
  BY <1>1, <1>41, <1>44 DEF With
<1>46. ev2 \in [Signal -> Nat] BY <1>1, <1>27, <1>44
<1>47. Linked(t, ev2, ps2, El, E2, C2, O2)
  BY ONLY <1>29, <1>34, <1>35, <1>36, <1>37, <1>38, <1>42, <1>43, <1>45 DEF Linked
<1>48. Placed(n, t, E2, C2, O2)
  <2>1. /\ \A s \in Signal : Elems(E2[s]) = Elems(E[s]) \ {El}
        /\ \A q \in Process : Elems(C2[q]) = Elems(C[q]) \ {El}
        /\ Elems(O2) = Elems(O) \cup {El}
    <3>1. ASSUME NEW s \in Signal PROVE Elems(E2[s]) = Elems(E[s]) \ {El}
      <4>1. CASE s = sg BY <4>1, <1>11, <1>33, <1>42
      <4>2. CASE s # sg
        <5>1. El \notin Elems(E[s]) BY <4>2, <1>1, <1>8, <1>10 DEF Placed
        <5> QED BY <5>1, <4>2, <1>42
      <4> QED BY <4>1, <4>2
    <3>2. ASSUME NEW q \in Process PROVE Elems(C2[q]) = Elems(C[q]) \ {El}
      <4>1. CASE q = p BY <4>1, <1>5, <1>33, <1>43
      <4>2. CASE q # p
        <5>1. El \notin Elems(C[q]) BY <4>2, <1>1, <1>8, <1>9 DEF Placed
        <5> QED BY <5>1, <4>2, <1>43
      <4> QED BY <4>1, <4>2
    <3> QED BY <3>1, <3>2, <1>33
  <2>2. \A c \in 1 .. n : c # El => /\ t[c].dynamic = cs[c].dynamic
                                   /\ t[c].proc = cs[c].proc /\ t[c].sig = cs[c].sig
    BY <1>31
  <2>3. Placed(n, cs, E, C, O) /\ t[El].dynamic BY <1>1, <1>31
  <2>4. ASSUME NEW c \in 1 .. n, NEW s \in Signal
        PROVE  c \in Elems(E2[s]) <=> c \notin Elems(O2) /\ t[c].sig = s
    <3>1. CASE c = El BY ONLY <3>1, <2>1, s \in Signal
    <3>2. CASE c # El
      <4>1. c \in Elems(E[s]) <=> c \notin Elems(O) /\ cs[c].sig = s BY ONLY <2>3, <2>4 DEF Placed
      <4> QED BY ONLY <4>1, <3>2, <2>1, <2>2, c \in 1 .. n, s \in Signal
    <3> QED BY <3>1, <3>2
  <2>5. ASSUME NEW c \in 1 .. n, NEW q \in Process
        PROVE  c \in Elems(C2[q]) <=> c \notin Elems(O2) /\ t[c].dynamic /\ t[c].proc = q
    <3>1. CASE c = El BY ONLY <3>1, <2>1, q \in Process
    <3>2. CASE c # El
      <4>1. c \in Elems(C[q]) <=> c \notin Elems(O) /\ cs[c].dynamic /\ cs[c].proc = q
        BY ONLY <2>3, <2>5 DEF Placed
      <4> QED BY ONLY <4>1, <3>2, <2>1, <2>2, c \in 1 .. n, q \in Process
    <3> QED BY <3>1, <3>2
  <2>6. ASSUME NEW c \in 1 .. n
        PROVE  IF c \in Elems(O2) THEN t[c].dynamic
               ELSE /\ t[c].sig \in Signal
                    /\ t[c].proc \in Process
                    /\ t[c].dynamic => t[c].proc \in Plain
    <3>1. CASE c = El BY ONLY <3>1, <2>1, <2>3
    <3>2. CASE c # El
      <4>1. IF c \in Elems(O) THEN cs[c].dynamic
            ELSE /\ cs[c].sig \in Signal
                 /\ cs[c].proc \in Process
                 /\ cs[c].dynamic => cs[c].proc \in Plain
        BY ONLY <2>3, <2>6 DEF Placed
      <4> QED BY ONLY <4>1, <3>2, <2>1, <2>2, c \in 1 .. n
    <3> QED BY <3>1, <3>2
  <2> QED BY ONLY <2>4, <2>5, <2>6 DEF Placed
<1>49. \A s \in Signal : Doubly(t, E2[s]) BY <1>39, <1>40, <1>42
<1>50. Shape(n, t, ev2, ps2, El, E2, C2, O2)
  BY ONLY <1>26, <1>33, <1>42, <1>43, <1>45, <1>46, <1>47, <1>48, <1>49 DEF Shape
<1>51. d2 = Removed(C[p], 1) BY <1>5, <1>32
<1> QED
  BY ONLY <1>8, <1>24, <1>25, <1>26, <1>28, <1>31, <1>41, <1>50, <1>51 DEF Closed

(* The cells t after El was put before first on an event list.               *)
After_Link(n, cs, El, first, t) ==
  /\ Cells(t, n)
  /\ Like(t[El], cs[El]) /\ t[El].next = first /\ t[El].prev = cs[El].prev
  /\ \A c \in 1 .. n : c # El =>
       /\ Like(t[c], cs[c]) /\ t[c].next = cs[c].next
       /\ t[c].prev = IF c = first /\ cs[c].dynamic THEN El ELSE cs[c].prev

(* Link_First does that.                                                     *)
LEMMA LinkFields ==
  ASSUME NEW n \in Nat, NEW cs, Cells(cs, n), NEW El \in 1 .. n,
         NEW first \in 0 .. n, first # El,
         NEW t, t = Link_First(cs, El, first)
  PROVE  After_Link(n, cs, El, first, t)
<1>1. PICK w : w = Set_Next(cs, El, first) OBVIOUS
<1>2. /\ Cells(w, n) /\ w[El].next = first /\ w[El].prev = cs[El].prev /\ Like(w[El], cs[El])
      /\ \A c \in 1 .. n : c # El => w[c] = cs[c]
  <2>1. Next_Written(n, cs, El, first, w)
    BY ONLY <1>1, SetNext, Cells(cs, n), n \in Nat, El \in 1 .. n, first \in 0 .. n
  <2> QED BY ONLY <2>1 DEF Next_Written
<1>3. t = IF first # 0 /\ cs[first].dynamic THEN Set_Prev(w, first, El) ELSE w
  BY <1>1 DEF Link_First, Set_Next, Set_Prev
<1>4. CASE first # 0 /\ cs[first].dynamic
  <2>1. first \in 1 .. n /\ t = Set_Prev(w, first, El) BY <1>3, <1>4
  <2>2. /\ Cells(t, n) /\ t[first].prev = El /\ t[first].next = w[first].next
        /\ Like(t[first], w[first])
        /\ \A c \in 1 .. n : c # first => t[c] = w[c]
    <3>1. PICK b \in 0 .. n : b = El OBVIOUS
    <3>2. PICK a \in 1 .. n : a = first BY <2>1
    <3>3. t = Set_Prev(w, a, b) /\ Cells(w, n) BY <2>1, <3>1, <3>2, <1>2
    <3>4. /\ Cells(t, n) /\ t[a].prev = b /\ t[a].next = w[a].next
          /\ Like(t[a], w[a])
          /\ \A c \in 1 .. n : c # a => t[c] = w[c]
      <4>1. Prev_Written(n, w, a, b, t)
        BY ONLY <3>3, SetPrev, n \in Nat, a \in 1 .. n, b \in 0 .. n
      <4> QED BY ONLY <4>1 DEF Prev_Written
    <3> QED BY ONLY <3>1, <3>2, <3>4
  <2>3. \A c \in 1 .. n : Like(cs[c], cs[c]) BY DEF Like
  <2>4. t[El] = w[El] /\ w[first] = cs[first] BY <2>1, <2>2, <1>2
  <2> QED BY ONLY <2>1, <2>2, <2>3, <2>4, <1>2, <1>4, El \in 1 .. n DEF After_Link
<1>5. CASE ~(first # 0 /\ cs[first].dynamic)
  <2>1. t = w BY <1>3, <1>5
  <2>2. \A c \in 1 .. n : c = first => ~cs[c].dynamic BY <1>5
  <2>3. \A c \in 1 .. n : Like(cs[c], cs[c]) BY DEF Like
  <2> QED BY ONLY <2>1, <2>2, <2>3, <1>2 DEF After_Link
<1> QED BY <1>4, <1>5

(* The first recycled cell is used again.                                    *)
LEMMA ShapeTaken ==
  ASSUME NEW n \in Nat, NEW cs, NEW ev, NEW ps, NEW old, NEW E, NEW C, NEW O,
         Shape(n, cs, ev, ps, old, E, C, O), old # 0,
         NEW cell \in Cell_Type(n), NEW sg \in Signal, NEW p \in Process,
         cell.sig = sg, cell.proc = p, cell.prev = 0,
         cell.dynamic => p \in Plain /\ cell.chain = ps[p],
         ~cell.dynamic /\ ev[sg] # 0 => ~cs[ev[sg]].dynamic,
         NEW t, t = Link_First(With(cs, old, cell), old, ev[sg]),
         NEW ps2, ps2 = IF cell.dynamic THEN With(ps, p, old) ELSE ps,
         NEW C2, C2 = IF cell.dynamic THEN With(C, p, Pushed(C[p], old)) ELSE C
  PROVE  /\ old \in 1 .. n
         /\ t[old].dynamic = cell.dynamic /\ t[old].proc = p /\ t[old].sig = sg
         /\ \A c \in 1 .. n : c # old => Like(t[c], cs[c])
         /\ Shape(n, t, With(ev, sg, old), ps2, cs[old].next,
                  With(E, sg, Pushed(E[sg], old)), C2, Removed(O, 1))
<1>1. /\ Cells(cs, n) /\ ev \in [Signal -> Nat] /\ ps \in [Process -> Nat]
      /\ E \in [Signal -> Seq(Nat)] /\ C \in [Process -> Seq(Nat)] /\ O \in Seq(Nat)
      /\ Linked(cs, ev, ps, old, E, C, O)
      /\ \A s \in Signal : Doubly(cs, E[s])
      /\ Placed(n, cs, E, C, O)
  BY DEF Shape
<1>2. PICK N, D : N = Next_Links(cs) /\ D = Chain_Links(cs) OBVIOUS
<1>3. /\ Len(N) = n /\ \A c \in 1 .. n : N[c] = cs[c].next
      /\ Len(D) = n /\ \A c \in 1 .. n : D[c] = cs[c].chain
  BY <1>1, <1>2, LinksType
<1>4. /\ \A s \in Signal : List(N, E[s], ev[s])
      /\ \A q \in Process : List(D, C[q], ps[q])
      /\ List(N, O, old)
  BY <1>1, <1>2 DEF Linked
<1>5. PICK m \in Nat : m = Len(O) BY <1>1
<1>6. /\ m # 0 /\ 1 \in 1 .. m /\ old = O[1] /\ old \in 1 .. n /\ old \in Elems(O)
      /\ \A i \in 1 .. m : O[i] \in 1 .. n /\ O[i] \in Elems(O)
      /\ \A i, j \in 1 .. m : O[i] = O[j] => i = j
  <2>1. /\ old = 0 <=> Len(O) = 0
        /\ Len(O) # 0 => old = O[1]
        /\ \A i \in 1 .. Len(O) : O[i] \in 1 .. n /\ O[i] \in Elems(O)
        /\ \A i, j \in 1 .. Len(O) : O[i] = O[j] => i = j
    BY ONLY <1>3, <1>4, ListFacts, n \in Nat
  <2>2. m # 0 BY <2>1, <1>5
  <2>3. 1 \in 1 .. m BY <2>2
  <2> QED BY ONLY <2>1, <2>2, <2>3, <1>5
<1>7. PICK e \in Seq(Nat) : e = E[sg] BY <1>1
<1>8. PICK l \in Nat : l = Len(e) BY <1>7
<1>9. PICK first : first = ev[sg] OBVIOUS
<1>10. List(N, e, first) BY <1>4, <1>7, <1>9
<1>11. /\ first \in 0 .. n /\ (first = 0 <=> l = 0) /\ (l # 0 => first = e[1])
       /\ \A i \in 1 .. l : e[i] \in 1 .. n /\ e[i] \in Elems(e)
       /\ \A i, j \in 1 .. l : e[i] = e[j] => i = j
  <2>1. /\ first \in 0 .. n /\ (first = 0 <=> Len(e) = 0) /\ (Len(e) # 0 => first = e[1])
        /\ \A i \in 1 .. Len(e) : e[i] \in 1 .. n /\ e[i] \in Elems(e)
        /\ \A i, j \in 1 .. Len(e) : e[i] = e[j] => i = j
    <3>1. Len(N) = n BY <1>3
    <3> QED BY ONLY <3>1, <1>10, ListFacts, n \in Nat
  <2> QED BY ONLY <2>1, <1>8
<1>12. \A s \in Signal : old \notin Elems(E[s]) BY <1>1, <1>6 DEF Placed
<1>13. \A q \in Process : old \notin Elems(C[q]) BY <1>1, <1>6 DEF Placed
<1>14. first # old
  <2>1. l # 0 => 1 \in 1 .. l OBVIOUS
  <2>2. l # 0 => first \in Elems(e) BY <2>1, <1>11
  <2> QED BY <2>2, <1>6, <1>7, <1>11, <1>12
<1>15. PICK w : w = With(cs, old, cell) OBVIOUS
<1>16. /\ Cells(w, n) /\ w[old] = cell
       /\ \A c \in 1 .. n : c # old => w[c] = cs[c]
  <2>1. cs \in [1 .. n -> Cell_Type(n)] BY <1>1 DEF Cells
  <2>2. w \in [1 .. n -> Cell_Type(n)] BY <2>1, <1>6, <1>15 DEF With
  <2> QED BY <2>1, <2>2, <1>6, <1>15 DEF Cells, With
<1>17. After_Link(n, w, old, first, t)
  <2>1. t = Link_First(w, old, first) BY <1>9, <1>15
  <2> QED BY ONLY <2>1, <1>6, <1>11, <1>14, <1>16, LinkFields, n \in Nat
<1>18. /\ Cells(t, n)
       /\ t[old].dynamic = cell.dynamic /\ t[old].proc = p /\ t[old].sig = sg
       /\ t[old].chain = cell.chain /\ t[old].next = first /\ t[old].prev = 0
       /\ \A c \in 1 .. n : c # old =>
            /\ Like(t[c], cs[c]) /\ t[c].next = cs[c].next
            /\ t[c].prev = IF c = first /\ cs[c].dynamic THEN old ELSE cs[c].prev
  <2>1. /\ Cells(t, n)
        /\ Like(t[old], w[old]) /\ t[old].next = first /\ t[old].prev = w[old].prev
        /\ \A c \in 1 .. n : c # old =>
             /\ Like(t[c], w[c]) /\ t[c].next = w[c].next
             /\ t[c].prev = IF c = first /\ w[c].dynamic THEN old ELSE w[c].prev
    BY ONLY <1>17 DEF After_Link
  <2>2. /\ t[old].dynamic = cell.dynamic /\ t[old].proc = p /\ t[old].sig = sg
        /\ t[old].chain = cell.chain /\ t[old].prev = 0
    BY <2>1, <1>16 DEF Like
  <2>3. \A c \in 1 .. n : c # old =>
          /\ Like(t[c], cs[c]) /\ t[c].next = cs[c].next
          /\ t[c].prev = IF c = first /\ cs[c].dynamic THEN old ELSE cs[c].prev
    BY ONLY <2>1, <1>16
  <2> QED BY ONLY <2>1, <2>2, <2>3
<1>19. PICK M, G : M = Next_Links(t) /\ G = Chain_Links(t) OBVIOUS
<1>20. /\ Len(M) = n /\ \A c \in 1 .. n : M[c] = t[c].next
       /\ Len(G) = n /\ \A c \in 1 .. n : G[c] = t[c].chain
  BY <1>18, <1>19, LinksType
<1>21. \A c \in 1 .. n : c # old =>
         /\ M[c] = N[c] /\ G[c] = D[c]
         /\ t[c].dynamic = cs[c].dynamic /\ t[c].proc = cs[c].proc /\ t[c].sig = cs[c].sig
  BY <1>3, <1>18, <1>20 DEF Like
<1>22. M[old] = first /\ G[old] = cell.chain BY <1>6, <1>18, <1>20
<1>23. PICK e2, O2 : e2 = Pushed(e, old) /\ O2 = Removed(O, 1) OBVIOUS
<1>24. /\ e2 \in Seq(Nat) /\ Elems(e2) = Elems(e) \cup {old}
       /\ O2 \in Seq(Nat) /\ Elems(O2) = Elems(O) \ {old}
  <2>1. e2 \in Seq(Nat) /\ Elems(e2) = Elems(e) \cup {old}
    <3>1. old \in Nat BY <1>6
    <3>2. Pushed(e, old) \in Seq(Nat) /\ Elems(Pushed(e, old)) = Elems(e) \cup {old}
      BY ONLY <3>1, PushedType, e \in Seq(Nat)
    <3> QED BY <3>2, <1>23
  <2>2. O2 \in Seq(Nat) /\ Elems(O2) = Elems(O) \ {old}
    <3>1. O \in Seq(Nat) /\ 1 \in 1 .. Len(O) BY <1>1, <1>5, <1>6
    <3>2. \A i, j \in 1 .. Len(O) : O[i] = O[j] => i = j BY ONLY <1>5, <1>6
    <3>3. Removed(O, 1) \in Seq(Nat) /\ Elems(Removed(O, 1)) = Elems(O) \ {O[1]}
      BY ONLY <3>1, <3>2, RemovedType
    <3> QED BY <3>3, <1>6, <1>23
  <2> QED BY <2>1, <2>2
<1>25. ASSUME NEW L, \A c \in L : c \in 1 .. n /\ c # old
       PROVE  \A c \in L : c \in 1 .. Len(M) /\ M[c] = N[c] /\ c \in 1 .. Len(G) /\ G[c] = D[c]
  BY ONLY <1>20, <1>21, <1>25
<1>26. \A s \in Signal : Elems(E[s]) \subseteq 1 .. n
  BY ONLY <1>3, <1>4, ListFacts, n \in Nat
<1>27. \A q \in Process : Elems(C[q]) \subseteq 1 .. n
  BY ONLY <1>3, <1>4, ListFacts, n \in Nat
<1>28. ASSUME NEW s \in Signal PROVE
         \A i \in 1 .. Len(E[s]) : E[s][i] \in 1 .. Len(M) /\ M[E[s][i]] = N[E[s][i]]
  <2>1. \A c \in Elems(E[s]) : c \in 1 .. Len(M) /\ M[c] = N[c] BY <1>12, <1>25, <1>26
  <2> QED BY <2>1 DEF Elems
<1>29. ASSUME NEW q \in Process PROVE
         \A i \in 1 .. Len(C[q]) : C[q][i] \in 1 .. Len(G) /\ G[C[q][i]] = D[C[q][i]]
  <2>1. \A c \in Elems(C[q]) : c \in 1 .. Len(G) /\ G[c] = D[c] BY <1>13, <1>25, <1>27
  <2> QED BY <2>1 DEF Elems
<1>30. List(M, e2, old)
  <2>1. \A i \in 1 .. Len(e) : e[i] \in 1 .. Len(M) /\ M[e[i]] = N[e[i]] BY <1>7, <1>28
  <2>2. old \in Nat /\ old \notin Elems(e) /\ old \in 1 .. Len(M) /\ M[old] = first
    BY <1>6, <1>7, <1>12, <1>20, <1>22
  <2>3. List(M, Pushed(e, old), old) BY ONLY <2>1, <2>2, <1>10, ListPushed
  <2> QED BY <2>3, <1>23
<1>31. \A s \in Signal : List(M, E[s], ev[s]) BY ONLY <1>4, <1>28, ListKept
<1>32. \A q \in Process : List(G, C[q], ps[q]) BY ONLY <1>4, <1>29, ListKept
<1>33. cell.dynamic => List(G, Pushed(C[p], old), old)
  <2> SUFFICES ASSUME cell.dynamic PROVE List(G, Pushed(C[p], old), old) OBVIOUS
  <2>1. old \in Nat /\ old \notin Elems(C[p]) /\ old \in 1 .. Len(G) /\ G[old] = ps[p]
    BY <1>6, <1>13, <1>20, <1>22
  <2>2. List(D, C[p], ps[p]) BY <1>4
  <2> QED BY ONLY <2>1, <2>2, <1>29, p \in Process, ListPushed
<1>34. List(M, O2, cs[old].next)
  <2>1. \A i \in 1 .. m : i # 1 => O[i] \in 1 .. n /\ O[i] # old BY ONLY <1>6
  <2>2. \A i \in 1 .. Len(O) : i # 1 =>
          O[i] \in 1 .. Len(M) /\ (i # 1 - 1 => M[O[i]] = N[O[i]])
    BY ONLY <2>1, <1>5, <1>20, <1>21
  <2>3. 1 \in 1 .. Len(O) BY <1>5, <1>6
  <2>4. List(M, Removed(O, 1), IF 1 = 1 THEN N[O[1]] ELSE old)
    <3>1. 1 > 1 => M[O[1 - 1]] = N[O[1]] OBVIOUS
    <3> QED BY ONLY <2>2, <2>3, <3>1, <1>4, ListRemoved
  <2>5. N[O[1]] = cs[old].next BY <1>3, <1>6
  <2> QED BY <2>4, <2>5, <1>23
<1>35. Doubly(t, e2)
  <2>1. ASSUME NEW i \in 1 .. l
        PROVE  /\ t[e[i]].dynamic = cs[e[i]].dynamic
               /\ cs[e[i]].dynamic =>
                    t[e[i]].prev = IF i = 1 THEN old ELSE cs[e[i]].prev
    <3>1. PICK c \in 1 .. n : c = e[i] BY <1>11
    <3>2. c # old BY <3>1, <1>7, <1>11, <1>12
    <3>3. c = first <=> i = 1
      <4>1. 1 \in 1 .. l /\ l # 0 OBVIOUS
      <4> QED BY ONLY <4>1, <3>1, <1>11, i \in 1 .. l
    <3>4. t[c].dynamic = cs[c].dynamic BY <3>2, <1>21
    <3>5. t[c].prev = IF c = first /\ cs[c].dynamic THEN old ELSE cs[c].prev
      BY <3>2, <1>18
    <3> QED BY ONLY <3>1, <3>3, <3>4, <3>5
  <2>2. \A i \in 1 .. Len(e) :
          /\ t[e[i]].dynamic = cs[e[i]].dynamic
          /\ cs[e[i]].dynamic =>
               t[e[i]].prev = IF i = 1 THEN old ELSE cs[e[i]].prev
    BY ONLY <2>1, <1>8
  <2>3. old \in Nat /\ t[old].prev = 0 BY <1>6, <1>18
  <2>4. Len(e) # 0 /\ cs[e[1]].dynamic => t[old].dynamic
    <3>1. l # 0 => first # 0 /\ first = e[1] BY <1>11
    <3> QED BY <3>1, <1>8, <1>9, <1>18
  <2>5. Doubly(cs, e) BY <1>1, <1>7
  <2>6. Doubly(t, Pushed(e, old))
    BY ONLY <2>2, <2>3, <2>4, <2>5, DoublyPushed, e \in Seq(Nat)
  <2> QED BY <2>6, <1>23
<1>36. ASSUME NEW s \in Signal, s # sg PROVE Doubly(t, E[s])
  <2>1. ASSUME NEW c \in Elems(E[s])
        PROVE  t[c].dynamic = cs[c].dynamic /\ t[c].prev = cs[c].prev
    <3>1. c \in 1 .. n /\ c # old BY <1>12, <1>26
    <3>2. cs[c].sig = s BY <3>1, <1>1 DEF Placed
    <3>3. c # first
      <4>1. \A x \in Elems(e) : x \in 1 .. n => cs[x].sig = sg
        BY <1>1, <1>7 DEF Placed
      <4>2. first # 0 => first \in Elems(e)
        <5>1. l # 0 => 1 \in 1 .. l OBVIOUS
        <5> QED BY <5>1, <1>11
      <4> QED BY <3>1, <3>2, <4>1, <4>2, <1>36
    <3> QED BY <3>1, <3>3, <1>18, <1>21
  <2>2. \A i \in 1 .. Len(E[s]) : t[E[s][i]].dynamic = cs[E[s][i]].dynamic
                                 /\ t[E[s][i]].prev = cs[E[s][i]].prev
    BY <2>1 DEF Elems
  <2>3. E[s] \in Seq(Nat) /\ Doubly(cs, E[s]) BY <1>1
  <2> QED BY ONLY <2>2, <2>3, DoublyKept
<1>37. PICK E2, ev2 : E2 = With(E, sg, e2) /\ ev2 = With(ev, sg, old)
  OBVIOUS
<1>38. /\ E2 \in [Signal -> Seq(Nat)] /\ E2[sg] = e2
       /\ \A s \in Signal : s # sg => E2[s] = E[s]
       /\ ev2 \in [Signal -> Nat] /\ ev2[sg] = old
       /\ \A s \in Signal : s # sg => ev2[s] = ev[s]
  <2>1. /\ E2 \in [Signal -> Seq(Nat)] /\ E2[sg] = e2
        /\ \A s \in Signal : s # sg => E2[s] = E[s]
    BY ONLY <1>1, <1>24, <1>37, sg \in Signal DEF With
  <2>2. old \in Nat BY <1>6
  <2>3. /\ ev2 \in [Signal -> Nat] /\ ev2[sg] = old
        /\ \A s \in Signal : s # sg => ev2[s] = ev[s]
    BY ONLY <2>2, <1>1, <1>37, sg \in Signal DEF With
  <2> QED BY ONLY <2>1, <2>3
<1>39. /\ C2 \in [Process -> Seq(Nat)] /\ ps2 \in [Process -> Nat]
       /\ \A q \in Process : List(G, C2[q], ps2[q])
       /\ \A q \in Process : Elems(C2[q]) = IF cell.dynamic /\ q = p
                                          THEN Elems(C[q]) \cup {old} ELSE Elems(C[q])
  <2>1. CASE cell.dynamic
    <3>1. C[p] \in Seq(Nat) /\ old \in Nat BY <1>1, <1>6
    <3>2. Pushed(C[p], old) \in Seq(Nat) /\ Elems(Pushed(C[p], old)) = Elems(C[p]) \cup {old}
      BY ONLY <3>1, PushedType
    <3>3. PICK d \in Seq(Nat) : d = Pushed(C[p], old) BY <3>2
    <3>4. C2 = With(C, p, d) /\ ps2 = With(ps, p, old) BY <2>1, <3>3
    <3>5. /\ C2 \in [Process -> Seq(Nat)] /\ ps2 \in [Process -> Nat]
          /\ C2[p] = d /\ ps2[p] = old
          /\ \A q \in Process : q # p => C2[q] = C[q] /\ ps2[q] = ps[q]
      BY ONLY <3>1, <3>4, <1>1, d \in Seq(Nat), p \in Process DEF With
    <3>6. List(G, d, old) BY <2>1, <3>3, <1>33
    <3> QED BY ONLY <2>1, <3>2, <3>3, <3>5, <3>6, <1>32, p \in Process
  <2>2. CASE ~cell.dynamic
    <3>1. C2 = C /\ ps2 = ps BY <2>2
    <3> QED BY ONLY <2>2, <3>1, <1>1, <1>32
  <2> QED BY <2>1, <2>2
<1>40. Linked(t, ev2, ps2, cs[old].next, E2, C2, O2)
  BY ONLY <1>19, <1>30, <1>31, <1>34, <1>38, <1>39 DEF Linked
<1>41. \A s \in Signal : Elems(E2[s]) = IF s = sg THEN Elems(E[s]) \cup {old} ELSE Elems(E[s])
  BY ONLY <1>7, <1>24, <1>38, sg \in Signal
<1>42. Placed(n, t, E2, C2, O2)
  <2>1. ASSUME NEW c \in 1 .. n, NEW s \in Signal
        PROVE  c \in Elems(E2[s]) <=> c \notin Elems(O2) /\ t[c].sig = s
    <3>1. CASE c = old BY ONLY <3>1, <1>12, <1>18, <1>24, <1>41, s \in Signal
    <3>2. CASE c # old
      <4>1. c \in Elems(E[s]) <=> c \notin Elems(O) /\ cs[c].sig = s
        BY ONLY <1>1, <2>1 DEF Placed
      <4> QED BY ONLY <4>1, <3>2, <1>21, <1>24, <1>41, c \in 1 .. n, s \in Signal
    <3> QED BY <3>1, <3>2
  <2>2. ASSUME NEW c \in 1 .. n, NEW q \in Process
        PROVE  c \in Elems(C2[q]) <=> c \notin Elems(O2) /\ t[c].dynamic /\ t[c].proc = q
    <3>1. CASE c = old
      <4>1. c \notin Elems(C[q]) /\ c \notin Elems(O2) BY ONLY <3>1, <1>13, <1>24, q \in Process
      <4>2. c \in Elems(C2[q]) <=> cell.dynamic /\ q = p
        BY ONLY <3>1, <4>1, <1>39, q \in Process
      <4>3. t[c].dynamic = cell.dynamic /\ t[c].proc = p BY ONLY <3>1, <1>18
      <4> QED BY ONLY <4>1, <4>2, <4>3
    <3>2. CASE c # old
      <4>1. c \in Elems(C[q]) <=> c \notin Elems(O) /\ cs[c].dynamic /\ cs[c].proc = q
        BY ONLY <1>1, <2>2 DEF Placed
      <4>2. c \in Elems(C2[q]) <=> c \in Elems(C[q]) BY ONLY <3>2, <1>39, q \in Process
      <4>3. c \notin Elems(O2) <=> c \notin Elems(O) BY ONLY <3>2, <1>24
      <4>4. t[c].dynamic = cs[c].dynamic /\ t[c].proc = cs[c].proc
        BY ONLY <3>2, <1>21, c \in 1 .. n
      <4> QED BY ONLY <4>1, <4>2, <4>3, <4>4
    <3> QED BY <3>1, <3>2
  <2>3. ASSUME NEW c \in 1 .. n
        PROVE  IF c \in Elems(O2) THEN t[c].dynamic
               ELSE /\ t[c].sig \in Signal
                    /\ t[c].proc \in Process
                    /\ t[c].dynamic => t[c].proc \in Plain
    <3>1. CASE c = old BY <3>1, <1>18, <1>24
    <3>2. CASE c # old
      <4>1. IF c \in Elems(O) THEN cs[c].dynamic
            ELSE /\ cs[c].sig \in Signal
                 /\ cs[c].proc \in Process
                 /\ cs[c].dynamic => cs[c].proc \in Plain
        BY ONLY <1>1, <2>3 DEF Placed
      <4> QED BY ONLY <4>1, <3>2, <1>21, <1>24, c \in 1 .. n
    <3> QED BY <3>1, <3>2
  <2> QED BY ONLY <2>1, <2>2, <2>3 DEF Placed
<1>43. \A s \in Signal : Doubly(t, E2[s]) BY <1>35, <1>36, <1>38
<1>44. Shape(n, t, ev2, ps2, cs[old].next, E2, C2, O2)
  BY ONLY <1>18, <1>24, <1>38, <1>39, <1>40, <1>42, <1>43 DEF Shape
<1>45. e2 = Pushed(E[sg], old) BY <1>7, <1>23
<1> QED BY ONLY <1>6, <1>18, <1>23, <1>37, <1>44, <1>45

(* The list of one cell, and the cells with another one, recycled.           *)
Alone(x) == <<x>>
Grown(cs) == Append(cs, Old_Cell(0))

(* A recycled cell is allocated, when there is none.                         *)
LEMMA ShapeGrown ==
  ASSUME NEW n \in Nat, NEW cs, NEW ev, NEW ps, NEW E, NEW C, NEW O,
         Shape(n, cs, ev, ps, 0, E, C, O),
         NEW t, t = Grown(cs),
         NEW k \in Nat, k = n + 1
  PROVE  /\ Shape(k, t, ev, ps, k, E, C, Alone(k))
         /\ t[k] = Old_Cell(0) /\ \A c \in 1 .. n : t[c] = cs[c]
<1>1. /\ Cells(cs, n) /\ ev \in [Signal -> Nat] /\ ps \in [Process -> Nat]
      /\ E \in [Signal -> Seq(Nat)] /\ C \in [Process -> Seq(Nat)] /\ O \in Seq(Nat)
      /\ Linked(cs, ev, ps, 0, E, C, O)
      /\ \A s \in Signal : Doubly(cs, E[s])
      /\ Placed(n, cs, E, C, O)
  BY DEF Shape
<1>2. PICK N, D : N = Next_Links(cs) /\ D = Chain_Links(cs) OBVIOUS
<1>3. /\ Len(N) = n /\ \A c \in 1 .. n : N[c] = cs[c].next
      /\ Len(D) = n /\ \A c \in 1 .. n : D[c] = cs[c].chain
  BY <1>1, <1>2, LinksType
<1>4. /\ \A s \in Signal : List(N, E[s], ev[s])
      /\ \A q \in Process : List(D, C[q], ps[q])
      /\ List(N, O, 0)
  BY <1>1, <1>2 DEF Linked
<1>5. Elems(O) = {}
  <2>1. Len(O) = 0 BY ONLY <1>3, <1>4, ListFacts, n \in Nat
  <2> QED BY <2>1 DEF Elems
<1>6. k \in Nat /\ k = n + 1 OBVIOUS
<1>7. Cell_Type(n) \subseteq Cell_Type(k)
  <2>1. 0 .. n \subseteq 0 .. k BY <1>6
  <2> QED BY <2>1 DEF Cell_Type
<1>8. PICK z : z = Old_Cell(0) OBVIOUS
<1>9. z \in Cell_Type(k) /\ z.dynamic /\ z.next = 0 BY <1>8 DEF Old_Cell, Cell_Type
<1>10. /\ Cells(t, k) /\ t[k] = z /\ \A c \in 1 .. n : t[c] = cs[c]
  <2>1. cs \in Seq(Cell_Type(k)) /\ Len(cs) = n
    <3>1. cs \in [1 .. n -> Cell_Type(k)] BY <1>1, <1>7 DEF Cells
    <3> QED BY <3>1, <1>1 DEF Cells
  <2>2. t = Append(cs, z) BY <1>8 DEF Grown
  <2> QED BY ONLY <2>1, <2>2, <1>6, <1>9, AppendProperties DEF Cells
<1>11. PICK M, G : M = Next_Links(t) /\ G = Chain_Links(t) OBVIOUS
<1>12. /\ Len(M) = k /\ \A c \in 1 .. k : M[c] = t[c].next
       /\ Len(G) = k /\ \A c \in 1 .. k : G[c] = t[c].chain
  BY <1>10, <1>11, LinksType
<1>13. \A c \in 1 .. n : c \in 1 .. Len(M) /\ M[c] = N[c] /\ c \in 1 .. Len(G) /\ G[c] = D[c]
  <2>1. \A c \in 1 .. n : c \in 1 .. k BY <1>6
  <2> QED BY ONLY <2>1, <1>3, <1>10, <1>12
<1>14. /\ \A s \in Signal : Elems(E[s]) \subseteq 1 .. n
       /\ \A q \in Process : Elems(C[q]) \subseteq 1 .. n
  BY ONLY <1>3, <1>4, ListFacts, n \in Nat
<1>15. ASSUME NEW s \in Signal PROVE List(M, E[s], ev[s])
  <2>1. \A i \in 1 .. Len(E[s]) : E[s][i] \in 1 .. n BY <1>14 DEF Elems
  <2>2. \A i \in 1 .. Len(E[s]) : E[s][i] \in 1 .. Len(M) /\ M[E[s][i]] = N[E[s][i]]
    BY ONLY <2>1, <1>13
  <2>3. List(N, E[s], ev[s]) BY <1>4
  <2> QED BY ONLY <2>2, <2>3, ListKept
<1>16. ASSUME NEW q \in Process PROVE List(G, C[q], ps[q])
  <2>1. \A i \in 1 .. Len(C[q]) : C[q][i] \in 1 .. n BY <1>14 DEF Elems
  <2>2. \A i \in 1 .. Len(C[q]) : C[q][i] \in 1 .. Len(G) /\ G[C[q][i]] = D[C[q][i]]
    BY ONLY <2>1, <1>13
  <2>3. List(D, C[q], ps[q]) BY <1>4
  <2> QED BY ONLY <2>2, <2>3, ListKept
<1>17. PICK O2 : O2 = Alone(k) OBVIOUS
<1>18. /\ O2 \in Seq(Nat) /\ Len(O2) = 1 /\ O2[1] = k /\ Elems(O2) = {k}
  <2>1. O2 \in Seq(Nat) /\ Len(O2) = 1 /\ O2[1] = k BY <1>17 DEF Alone
  <2>2. Elems(O2) = {O2[i] : i \in 1 .. 1} BY <2>1 DEF Elems
  <2> QED BY <2>1, <2>2
<1>19. List(M, O2, k)
  <2>1. k \in 1 .. k BY <1>6
  <2>2. M[k] = t[k].next BY <2>1, <1>12
  <2>3. M[k] = 0 BY ONLY <2>2, <1>9, <1>10
  <2> QED BY ONLY <2>1, <2>3, <1>12, <1>18 DEF List
<1>20. Linked(t, ev, ps, k, E, C, O2)
  BY ONLY <1>11, <1>15, <1>16, <1>19 DEF Linked
<1>21. ASSUME NEW s \in Signal PROVE Doubly(t, E[s])
  <2>1. \A i \in 1 .. Len(E[s]) : E[s][i] \in 1 .. n BY <1>14 DEF Elems
  <2>2. \A i \in 1 .. Len(E[s]) : t[E[s][i]].dynamic = cs[E[s][i]].dynamic
                                 /\ t[E[s][i]].prev = cs[E[s][i]].prev
    BY ONLY <2>1, <1>10
  <2>3. E[s] \in Seq(Nat) /\ Doubly(cs, E[s]) BY <1>1
  <2> QED BY ONLY <2>2, <2>3, DoublyKept
<1>22. Placed(k, t, E, C, O2)
  <2>1. \A c \in 1 .. k : c = k \/ (c \in 1 .. n /\ c # k) BY <1>6
  <2>2. k \notin 1 .. n BY <1>6
  <2>3. ASSUME NEW c \in 1 .. k, NEW s \in Signal
        PROVE  c \in Elems(E[s]) <=> c \notin Elems(O2) /\ t[c].sig = s
    <3>1. CASE c = k BY ONLY <3>1, <2>2, <1>14, <1>18, s \in Signal
    <3>2. CASE c # k
      <4>1. c \in 1 .. n BY <3>2, <2>1
      <4>2. c \in Elems(E[s]) <=> c \notin Elems(O) /\ cs[c].sig = s
        BY ONLY <1>1, <2>3, <4>1 DEF Placed
      <4> QED BY ONLY <3>2, <4>1, <4>2, <1>5, <1>10, <1>18
    <3> QED BY <3>1, <3>2
  <2>4. ASSUME NEW c \in 1 .. k, NEW q \in Process
        PROVE  c \in Elems(C[q]) <=> c \notin Elems(O2) /\ t[c].dynamic /\ t[c].proc = q
    <3>1. CASE c = k BY ONLY <3>1, <2>2, <1>14, <1>18, q \in Process
    <3>2. CASE c # k
      <4>1. c \in 1 .. n BY <3>2, <2>1
      <4>2. c \in Elems(C[q]) <=> c \notin Elems(O) /\ cs[c].dynamic /\ cs[c].proc = q
        BY ONLY <1>1, <2>4, <4>1 DEF Placed
      <4>3. t[c] = cs[c] BY <4>1, <1>10
      <4> QED BY ONLY <3>2, <4>2, <4>3, <1>5, <1>18
    <3> QED BY <3>1, <3>2
  <2>5. ASSUME NEW c \in 1 .. k
        PROVE  IF c \in Elems(O2) THEN t[c].dynamic
               ELSE /\ t[c].sig \in Signal
                    /\ t[c].proc \in Process
                    /\ t[c].dynamic => t[c].proc \in Plain
    <3>1. CASE c = k BY ONLY <3>1, <1>9, <1>10, <1>18
    <3>2. CASE c # k
      <4>1. c \in 1 .. n BY <3>2, <2>1
      <4>2. c \notin Elems(O) BY <1>5
      <4>3. /\ cs[c].sig \in Signal /\ cs[c].proc \in Process
            /\ cs[c].dynamic => cs[c].proc \in Plain
        BY ONLY <1>1, <4>1, <4>2 DEF Placed
      <4>4. t[c] = cs[c] BY <4>1, <1>10
      <4> QED BY ONLY <3>2, <4>3, <4>4, <1>18
    <3> QED BY <3>1, <3>2
  <2> QED BY ONLY <2>3, <2>4, <2>5 DEF Placed
<1>23. Shape(k, t, ev, ps, k, E, C, O2)
  BY ONLY <1>1, <1>10, <1>18, <1>20, <1>21, <1>22 DEF Shape
<1> QED BY ONLY <1>6, <1>8, <1>10, <1>17, <1>23

(* The three kinds of lists are those that Along finds.                      *)
LEMMA ShapeAlong ==
  ASSUME NEW n \in Nat, NEW cs, NEW ev, NEW ps, NEW old, NEW E, NEW C, NEW O,
         Shape(n, cs, ev, ps, old, E, C, O)
  PROVE  /\ \A s \in Signal : Along(Next_Links(cs), ev[s]) = E[s]
         /\ \A p \in Process : Along(Chain_Links(cs), ps[p]) = C[p]
         /\ Along(Next_Links(cs), old) = O
<1>1. Cells(cs, n) /\ Linked(cs, ev, ps, old, E, C, O) BY DEF Shape
<1>2. PICK N, D : N = Next_Links(cs) /\ D = Chain_Links(cs) OBVIOUS
<1>3. Len(N) \in Nat /\ Len(D) \in Nat BY <1>1, <1>2, LinksType
<1>4. /\ \A s \in Signal : List(N, E[s], ev[s])
      /\ \A q \in Process : List(D, C[q], ps[q])
      /\ List(N, O, old)
  BY <1>1, <1>2 DEF Linked
<1> QED BY ONLY <1>2, <1>3, <1>4, AlongList

(* Where the heads and the cells of a shape are.                             *)
LEMMA ShapeHeads ==
  ASSUME NEW n \in Nat, NEW cs, NEW ev, NEW ps, NEW old, NEW E, NEW C, NEW O,
         Shape(n, cs, ev, ps, old, E, C, O)
  PROVE  /\ cs \in Seq(Cell_Type(n)) /\ Len(cs) = n
         /\ ev \in [Signal -> 0 .. n] /\ ps \in [Process -> 0 .. n] /\ old \in 0 .. n
         /\ \A p \in Process : ps[p] = 0 <=> C[p] = << >>
         /\ \A s \in Signal : ev[s] = 0 <=> E[s] = << >>
         /\ old = 0 <=> O = << >>
<1>1. /\ Cells(cs, n) /\ Linked(cs, ev, ps, old, E, C, O)
      /\ ev \in [Signal -> Nat] /\ ps \in [Process -> Nat]
      /\ E \in [Signal -> Seq(Nat)] /\ C \in [Process -> Seq(Nat)] /\ O \in Seq(Nat)
  BY DEF Shape
<1>2. PICK N, D : N = Next_Links(cs) /\ D = Chain_Links(cs) OBVIOUS
<1>3. Len(N) = n /\ Len(D) = n BY <1>1, <1>2, LinksType
<1>4. /\ \A s \in Signal : List(N, E[s], ev[s])
      /\ \A q \in Process : List(D, C[q], ps[q])
      /\ List(N, O, old)
  BY <1>1, <1>2 DEF Linked
<1>5. ASSUME NEW link, Len(link) = n, NEW s, NEW h, List(link, s, h)
      PROVE  h \in 0 .. n /\ (h = 0 <=> s = << >>)
  <2>1. s \in Seq(Nat) /\ h \in 0 .. n /\ (h = 0 <=> Len(s) = 0)
    BY ONLY <1>5, ListFacts, n \in Nat
  <2> QED BY <2>1, EmptySeq
<1>6. \A s \in Signal : ev[s] \in 0 .. n /\ (ev[s] = 0 <=> E[s] = << >>)
  BY ONLY <1>3, <1>4, <1>5
<1>7. \A p \in Process : ps[p] \in 0 .. n /\ (ps[p] = 0 <=> C[p] = << >>)
  BY ONLY <1>3, <1>4, <1>5
<1>8. old \in 0 .. n /\ (old = 0 <=> O = << >>) BY ONLY <1>3, <1>4, <1>5
<1>9. ev \in [Signal -> 0 .. n] /\ ps \in [Process -> 0 .. n] BY <1>1, <1>6, <1>7
<1> QED BY <1>1, <1>6, <1>7, <1>8, <1>9 DEF Cells

(* What is true of the cells t after the cell El became the first of its     *)
(* lists; there are m cells then, and next is the first recycled one.        *)
Added(n, cs, ev, old, E, cell, El, m, t, next, ps2, C2) ==
  /\ m \in Nat /\ El \in 1 .. m /\ 1 .. m = (1 .. n) \cup {El}
  /\ t[El].dynamic = cell.dynamic /\ t[El].proc = cell.proc /\ t[El].sig = cell.sig
  /\ \A c \in 1 .. n : c # El => Like(t[c], cs[c])
  /\ \E O2 : /\ Shape(m, t, With(ev, cell.sig, El), ps2, next,
                      With(E, cell.sig, Pushed(E[cell.sig], El)), C2, O2)
             /\ old = 0 => O2 = << >>

(* A cell is put first on its lists, whether it is a recycled one or not.    *)
LEMMA ShapeAdded ==
  ASSUME NEW n \in Nat, NEW cs, NEW ev, NEW ps, NEW old, NEW E, NEW C, NEW O,
         Shape(n, cs, ev, ps, old, E, C, O),
         NEW cell \in Cell_Type(n), NEW sg \in Signal, NEW p \in Process,
         cell.sig = sg, cell.proc = p, cell.prev = 0,
         cell.dynamic => p \in Plain /\ cell.chain = ps[p],
         ~cell.dynamic /\ ev[sg] # 0 => ~cs[ev[sg]].dynamic,
         NEW El, El = IF old = 0 THEN n + 1 ELSE old,
         NEW m, m = IF old = 0 THEN n + 1 ELSE n,
         NEW w, w = IF old = 0 THEN Append(cs, cell) ELSE With(cs, El, cell),
         NEW t, t = Link_First(w, El, ev[sg]),
         NEW next, next = IF old = 0 THEN 0 ELSE cs[El].next,
         NEW ps2, ps2 = IF cell.dynamic THEN With(ps, p, El) ELSE ps,
         NEW C2, C2 = IF cell.dynamic THEN With(C, p, Pushed(C[p], El)) ELSE C
  PROVE  Added(n, cs, ev, old, E, cell, El, m, t, next, ps2, C2)
<1>1. /\ cs \in Seq(Cell_Type(n)) /\ Len(cs) = n /\ ev[sg] \in 0 .. n /\ old \in 0 .. n
  BY ShapeHeads
<1>2. CASE old # 0
  <2>1. El = old /\ m = n /\ w = With(cs, old, cell) /\ next = cs[old].next
    BY <1>2
  <2>2. /\ t = Link_First(With(cs, old, cell), old, ev[sg])
        /\ ps2 = IF cell.dynamic THEN With(ps, p, old) ELSE ps
        /\ C2 = IF cell.dynamic THEN With(C, p, Pushed(C[p], old)) ELSE C
    BY <2>1
  <2>3. /\ old \in 1 .. n
        /\ t[old].dynamic = cell.dynamic /\ t[old].proc = p /\ t[old].sig = sg
        /\ \A c \in 1 .. n : c # old => Like(t[c], cs[c])
        /\ Shape(n, t, With(ev, sg, old), ps2, cs[old].next,
                 With(E, sg, Pushed(E[sg], old)), C2, Removed(O, 1))
    BY <1>2, <2>2, ShapeTaken
  <2>4. 1 .. n = (1 .. n) \cup {old} BY <2>3
  <2> QED
    BY ONLY <1>2, <2>1, <2>3, <2>4, n \in Nat, cell.sig = sg, cell.proc = p DEF Added
<1>3. CASE old = 0
  <2>1. PICK k \in Nat : k = n + 1 /\ k = El /\ k = m BY <1>3
  <2>2. w = Append(cs, cell) /\ next = 0 BY <1>3
  <2>3. PICK u : u = Grown(cs) OBVIOUS
  <2>4. Shape(n, cs, ev, ps, 0, E, C, O) BY <1>3
  <2>5. /\ Shape(k, u, ev, ps, k, E, C, Alone(k))
        /\ u[k] = Old_Cell(0) /\ \A c \in 1 .. n : u[c] = cs[c]
    <3>1. k = n + 1 BY <2>1
    <3> QED BY ONLY <2>3, <2>4, <3>1, ShapeGrown, n \in Nat, k \in Nat
  <2>6. cell \in Cell_Type(k)
    <3>1. 0 .. n \subseteq 0 .. k BY <2>1
    <3> QED BY <3>1 DEF Cell_Type
  <2>7. w = With(u, k, cell)
    <3>1. PICK z : z = Old_Cell(0) OBVIOUS
    <3>2. u = Append(cs, z) BY <2>3, <3>1 DEF Grown
    <3>3. Len(u) = k /\ Len(w) = k /\ \A c \in 1 .. n : u[c] = cs[c] /\ w[c] = cs[c]
      BY ONLY <3>2, <1>1, <2>1, <2>2, AppendProperties
    <3>4. w[k] = cell BY ONLY <1>1, <2>1, <2>2, AppendProperties
    <3>5. u = [c \in 1 .. k |-> u[c]] /\ w = [c \in 1 .. k |-> w[c]]
      <4>1. z \in Cell_Type(k) BY <3>1 DEF Old_Cell, Cell_Type
      <4>2. cs \in Seq(Cell_Type(k) \cup Cell_Type(n)) BY <1>1
      <4>3. u \in Seq(Cell_Type(k) \cup Cell_Type(n)) /\ w \in Seq(Cell_Type(k) \cup Cell_Type(n))
        BY ONLY <4>1, <4>2, <3>2, <2>2, <2>6, AppendProperties
      <4> QED BY ONLY <4>3, <3>3
    <3>6. \A c \in 1 .. k : c = k \/ c \in 1 .. n BY <2>1
    <3> QED BY ONLY <3>3, <3>4, <3>5, <3>6 DEF With
  <2>8. ~cell.dynamic /\ ev[sg] # 0 => ~u[ev[sg]].dynamic
    <3>1. ev[sg] # 0 => ev[sg] \in 1 .. n BY <1>1
    <3> QED BY <3>1, <2>5
  <2>9. k # 0 BY <2>1
  <2>10. /\ t = Link_First(With(u, k, cell), k, ev[sg])
         /\ ps2 = IF cell.dynamic THEN With(ps, p, k) ELSE ps
         /\ C2 = IF cell.dynamic THEN With(C, p, Pushed(C[p], k)) ELSE C
    BY <2>1, <2>7
  <2>11. /\ k \in 1 .. k
         /\ t[k].dynamic = cell.dynamic /\ t[k].proc = p /\ t[k].sig = sg
         /\ \A c \in 1 .. k : c # k => Like(t[c], u[c])
         /\ Shape(k, t, With(ev, sg, k), ps2, u[k].next,
                  With(E, sg, Pushed(E[sg], k)), C2, Removed(Alone(k), 1))
    BY ONLY <2>5, <2>6, <2>8, <2>9, <2>10, ShapeTaken, k \in Nat, sg \in Signal, p \in Process,
            cell.sig = sg, cell.proc = p, cell.prev = 0,
            cell.dynamic => p \in Plain /\ cell.chain = ps[p]
  <2>12. u[k].next = 0 BY <2>5 DEF Old_Cell
  <2>13. Removed(Alone(k), 1) = << >> BY DEF Removed, Alone
  <2>14. /\ 1 .. k = (1 .. n) \cup {k}
         /\ \A c \in 1 .. n : c # k /\ c \in 1 .. k
    BY <2>1
  <2>15. \A c \in 1 .. n : Like(t[c], cs[c]) BY ONLY <2>5, <2>11, <2>14
  <2> QED
    BY ONLY <2>1, <2>2, <2>11, <2>12, <2>13, <2>14, <2>15, cell.sig = sg, cell.proc = p
       DEF Added
<1> QED BY <1>2, <1>3

-----------------------------------------------------------------------------
(* The loop of Wait_Close.                                                   *)

(* The body of the recursive function of Unlink_All.                         *)
All_Body(lists, list, f, i) ==
  IF i = 0 THEN lists ELSE Recycle(Unlink(f[i - 1], list[i]), list[i])

(* f is the recursive function of Unlink_All, for up to m passes.            *)
Unlinks(lists, list, f, m) == f = [i \in 0 .. m |-> All_Body(lists, list, f, i)]

(* The function exists.                                                      *)
LEMMA UnlinksExists ==
  ASSUME NEW lists, NEW list, NEW m \in Nat
  PROVE  \E f : Unlinks(lists, list, f, m)
<1> DEFINE T == {k \in Nat : \E f : Unlinks(lists, list, f, k)}
<1>1. 0 \in T
  <2> DEFINE g == [i \in 0 .. 0 |-> lists]
  <2>1. \A i \in 0 .. 0 : g[i] = All_Body(lists, list, g, i) BY DEF All_Body
  <2>2. g = [i \in 0 .. 0 |-> g[i]] OBVIOUS
  <2> HIDE DEF g
  <2>3. Unlinks(lists, list, g, 0) BY <2>1, <2>2 DEF Unlinks
  <2> QED BY <2>3
<1>2. ASSUME NEW k \in T PROVE k + 1 \in T
  <2>1. PICK f : Unlinks(lists, list, f, k) BY <1>2
  <2> DEFINE g == [i \in 0 .. k + 1 |->
                     IF i <= k THEN f[i] ELSE All_Body(lists, list, f, i)]
  <2>2. \A i \in 0 .. k : f[i] = All_Body(lists, list, f, i) BY <2>1 DEF Unlinks
  <2>3. \A i \in 0 .. k + 1 : g[i] = All_Body(lists, list, f, i) BY <2>2
  <2>4. \A i \in 0 .. k : g[i] = f[i] BY <1>2
  <2>5. g = [i \in 0 .. k + 1 |-> g[i]] OBVIOUS
  <2> HIDE DEF g
  <2>6. ASSUME NEW i \in 0 .. k + 1
        PROVE  All_Body(lists, list, f, i) = All_Body(lists, list, g, i)
    <3>1. CASE i = 0 BY <3>1 DEF All_Body
    <3>2. CASE i # 0
      <4>1. i - 1 \in 0 .. k BY <3>2, <1>2
      <4>2. g[i - 1] = f[i - 1] BY <2>4, <4>1
      <4> QED BY <4>2 DEF All_Body
    <3> QED BY <3>1, <3>2
  <2>7. \A i \in 0 .. k + 1 : g[i] = All_Body(lists, list, g, i) BY <2>3, <2>6
  <2>8. Unlinks(lists, list, g, k + 1) BY <2>5, <2>7 DEF Unlinks
  <2> QED BY <2>8, <1>2
<1> HIDE DEF T
<1>3. Nat \subseteq T BY <1>1, <1>2, SetInduction DEF T
<1> QED BY <1>3 DEF T

(* s without its first i elements.                                           *)
Rest(s, i) == [k \in 1 .. Len(s) - i |-> s[i + k]]

(* The type of Rest, and what one more element less is.                      *)
LEMMA RestType ==
  ASSUME NEW s \in Seq(Nat), NEW m \in Nat, m = Len(s), NEW i \in 0 .. m
  PROVE  /\ Rest(s, i) \in Seq(Nat) /\ Len(Rest(s, i)) = m - i
         /\ i # m => Len(Rest(s, i)) # 0
         /\ i # m => Rest(s, i)[1] = s[i + 1]
         /\ i # m => Removed(Rest(s, i), 1) = Rest(s, i + 1)
         /\ Rest(s, 0) = s
         /\ i = m => Rest(s, i) = << >>
<1> DEFINE t == Rest(s, i)
<1>1. t \in [1 .. m - i -> Nat] BY DEF Rest
<1>2. t \in Seq(Nat) /\ Len(t) = m - i BY <1>1
<1>3. \A k \in 1 .. m - i : t[k] = s[i + k] BY DEF Rest
<1> HIDE DEF t
<1>4. ASSUME i # m
      PROVE  Len(t) # 0 /\ t[1] = s[i + 1] /\ Removed(t, 1) = Rest(s, i + 1)
  <2>1. 1 \in 1 .. m - i BY <1>4
  <2>2. Len(t) # 0 /\ t[1] = s[i + 1] BY <2>1, <1>2, <1>3
  <2>3. \A k \in 1 .. m - (i + 1) : k + 1 \in 1 .. m - i /\ ~(k < 1)
    BY ONLY <1>4, m \in Nat, i \in 0 .. m
  <2>4. \A k \in 1 .. m - (i + 1) : t[k + 1] = s[i + 1 + k]
    <3>1. \A k \in 1 .. m - (i + 1) : i + (k + 1) = i + 1 + k OBVIOUS
    <3> QED BY ONLY <2>3, <3>1, <1>3
  <2>5. Len(t) - 1 = m - (i + 1) BY <1>2
  <2>6. Removed(t, 1) = [k \in 1 .. m - (i + 1) |-> IF k < 1 THEN t[k] ELSE t[k + 1]]
    BY <2>5 DEF Removed
  <2>7. Rest(s, i + 1) = [k \in 1 .. m - (i + 1) |-> s[i + 1 + k]] BY DEF Rest
  <2> QED BY ONLY <2>2, <2>3, <2>4, <2>6, <2>7
<1>5. Rest(s, 0) = s
  <2>1. Rest(s, 0) = [k \in 1 .. m |-> s[k]] BY DEF Rest
  <2>2. s = [k \in 1 .. m |-> s[k]] OBVIOUS
  <2> QED BY <2>1, <2>2
<1>6. i = m => t = << >> BY <1>2
<1> QED BY <1>2, <1>4, <1>5, <1>6 DEF t

(* After i passes, for the process p with the list C[p].                     *)
Closing(n, cs, ps, C, p, i, r) ==
  \E ps2, E2, C2, O2 :
    /\ Shape(n, r.cells, r.event, ps2, r.old, E2, C2, O2)
    /\ \A q \in Process : q # p => C2[q] = C[q] /\ ps2[q] = ps[q]
    /\ C2[p] = Rest(C[p], i)
    /\ \A c \in 1 .. n : \/ Like(r.cells[c], cs[c])
                         \/ c \in Elems(C[p]) /\ r.cells[c].dynamic

(* After the loop of Ghdl_Process_Wait_Close, the list of p is empty.        *)
LEMMA ShapeAllClosed ==
  ASSUME NEW n \in Nat, NEW cs, NEW ev, NEW ps, NEW old, NEW E, NEW C, NEW O,
         Shape(n, cs, ev, ps, old, E, C, O), NEW p \in Process,
         NEW lists, lists.cells = cs, lists.event = ev, lists.old = old,
         NEW r, r = Unlink_All(lists, C[p])
  PROVE  /\ \E E2, O2 : Shape(n, r.cells, r.event, With(ps, p, 0), r.old,
                              E2, With(C, p, << >>), O2)
         /\ \A c \in 1 .. n : \/ Like(r.cells[c], cs[c])
                              \/ c \in Elems(C[p]) /\ r.cells[c].dynamic
<1>1. /\ C \in [Process -> Seq(Nat)] /\ ps \in [Process -> Nat]
      /\ Linked(cs, ev, ps, old, E, C, O) /\ Cells(cs, n)
  BY DEF Shape
<1>2. PICK d \in Seq(Nat) : d = C[p] BY <1>1
<1>3. PICK m \in Nat : m = Len(d) OBVIOUS
<1> DEFINE A == CHOOSE f : Unlinks(lists, d, f, m)
<1>4. r = A[m] BY <1>2, <1>3 DEF Unlink_All, Unlinks, All_Body
<1>5. Unlinks(lists, d, A, m) BY UnlinksExists
<1> HIDE DEF A
<1>6. A[0] = lists
  <2>1. 0 \in 0 .. m OBVIOUS
  <2> QED BY <2>1, <1>5 DEF Unlinks, All_Body
<1>7. ASSUME NEW i \in 0 .. m, i # m
      PROVE  A[i + 1] = Recycle(Unlink(A[i], d[i + 1]), d[i + 1])
  <2>1. PICK j \in 0 .. m : j = i + 1 /\ j # 0 /\ j - 1 = i BY <1>7
  <2>2. A[j] = All_Body(lists, d, A, j) BY <1>5 DEF Unlinks
  <2> QED BY <2>1, <2>2 DEF All_Body
<1> DEFINE T == {i \in Nat : i <= m => Closing(n, cs, ps, C, p, i, A[i])}
<1>8. 0 \in T
  <2>1. Rest(C[p], 0) = C[p] BY ONLY <1>2, <1>3, RestType, 0 \in 0 .. m
  <2>2. \A c \in 1 .. n : Like(cs[c], cs[c]) BY DEF Like
  <2>3. \A q \in Process : q # p => C[q] = C[q] /\ ps[q] = ps[q] OBVIOUS
  <2>4. Closing(n, cs, ps, C, p, 0, lists)
    BY ONLY <2>1, <2>2, <2>3, lists.cells = cs, lists.event = ev, lists.old = old,
            Shape(n, cs, ev, ps, old, E, C, O)
       DEF Closing
  <2> QED BY <2>4, <1>6
<1>9. ASSUME NEW i \in T PROVE i + 1 \in T
  <2>0. i \in Nat /\ (i <= m => Closing(n, cs, ps, C, p, i, A[i])) OBVIOUS
  <2> SUFFICES ASSUME i + 1 <= m PROVE Closing(n, cs, ps, C, p, i + 1, A[i + 1])
    BY <2>0
  <2> HIDE DEF T
  <2>1. i \in 0 .. m /\ i # m /\ Closing(n, cs, ps, C, p, i, A[i]) BY <2>0
  <2>2. PICK ps2, E2, C2, O2 :
          /\ Shape(n, A[i].cells, A[i].event, ps2, A[i].old, E2, C2, O2)
          /\ \A q \in Process : q # p => C2[q] = C[q] /\ ps2[q] = ps[q]
          /\ C2[p] = Rest(C[p], i)
          /\ \A c \in 1 .. n : \/ Like(A[i].cells[c], cs[c])
                               \/ c \in Elems(C[p]) /\ A[i].cells[c].dynamic
    BY <2>1 DEF Closing
  <2>3. /\ Len(C2[p]) # 0 /\ C2[p][1] = d[i + 1]
        /\ Removed(C2[p], 1) = Rest(d, i + 1)
    <3>1. PICK x : x = Rest(d, i) OBVIOUS
    <3>2. i # m => Len(x) # 0 BY ONLY <3>1, <2>1, <1>3, RestType, d \in Seq(Nat), m \in Nat
    <3>3. i # m => x[1] = d[i + 1]
      BY ONLY <3>1, <2>1, <1>3, RestType, d \in Seq(Nat), m \in Nat
    <3>4. i # m => Removed(x, 1) = Rest(d, i + 1)
      BY ONLY <3>1, <2>1, <1>3, RestType, d \in Seq(Nat), m \in Nat
    <3>5. C2[p] = x BY <3>1, <2>2, <1>2
    <3> QED BY ONLY <3>2, <3>3, <3>4, <3>5, <2>1
  <2>4. PICK El : El = C2[p][1] OBVIOUS
  <2>5. PICK u, v : u = A[i] /\ v = A[i + 1] OBVIOUS
  <2>6. v = Recycle(Unlink(u, El), El) BY <2>1, <2>3, <2>4, <2>5, <1>7
  <2>7. PICK ucs, uev, uold : u.cells = ucs /\ u.event = uev /\ u.old = uold OBVIOUS
  <2>8. Shape(n, ucs, uev, ps2, uold, E2, C2, O2) BY <2>2, <2>5, <2>7
  <2>9. /\ El \in 1 .. n /\ v.cells[El].dynamic
        /\ \A c \in 1 .. n : c # El => Like(v.cells[c], ucs[c])
        /\ \E E3, O3 : Shape(n, v.cells, v.event, With(ps2, p, ucs[El].chain), v.old,
                             E3, With(C2, p, Removed(C2[p], 1)), O3)
    <3>1. Len(C2[p]) # 0 BY <2>3
    <3>2. Closed(n, ucs, ps2, C2, p, El, v)
      BY ONLY <3>1, <2>4, <2>6, <2>7, <2>8, ShapeClosed, n \in Nat, p \in Process
    <3> QED BY ONLY <3>2 DEF Closed
  <2>10. PICK E3, O3 : Shape(n, v.cells, v.event, With(ps2, p, ucs[El].chain), v.old,
                             E3, With(C2, p, Removed(C2[p], 1)), O3)
    BY <2>9
  <2>11. PICK C3, ps3 : C3 = With(C2, p, Removed(C2[p], 1)) /\ ps3 = With(ps2, p, ucs[El].chain)
    OBVIOUS
  <2>12. C2 \in [Process -> Seq(Nat)] /\ ps2 \in [Process -> Nat] BY <2>8 DEF Shape
  <2>13. \A q \in Process : q # p => C3[q] = C[q] /\ ps3[q] = ps[q]
    BY ONLY <2>2, <2>11, <2>12, p \in Process DEF With
  <2>14. C3[p] = Rest(C[p], i + 1)
    <3>1. C3[p] = Removed(C2[p], 1) BY ONLY <2>11, <2>12, p \in Process DEF With
    <3> QED BY <3>1, <2>3, <1>2
  <2>15. El \in Elems(C[p])
    <3>1. i + 1 \in 1 .. m BY <2>1
    <3> QED BY <3>1, <2>3, <2>4, <1>2, <1>3 DEF Elems
  <2>16. ASSUME NEW c \in 1 .. n
         PROVE  \/ Like(v.cells[c], cs[c])
                \/ c \in Elems(C[p]) /\ v.cells[c].dynamic
    <3>1. CASE c = El BY <3>1, <2>9, <2>15
    <3>2. CASE c # El
      <4>1. Like(v.cells[c], ucs[c]) BY <3>2, <2>9
      <4>2. \/ Like(ucs[c], cs[c])
            \/ c \in Elems(C[p]) /\ ucs[c].dynamic
        BY <2>2, <2>5, <2>7
      <4> QED BY ONLY <4>1, <4>2 DEF Like
    <3> QED BY <3>1, <3>2
  <2>17. Shape(n, v.cells, v.event, ps3, v.old, E3, C3, O3) BY <2>10, <2>11
  <2>18. Closing(n, cs, ps, C, p, i + 1, v)
    BY ONLY <2>13, <2>14, <2>16, <2>17 DEF Closing
  <2> QED BY <2>18, <2>5
<1>10. m \in T
  <2>1. T \subseteq Nat OBVIOUS
  <2> HIDE DEF T
  <2> QED BY <1>8, <1>9, <2>1, SetInduction
<1>11. Closing(n, cs, ps, C, p, m, r) BY <1>4, <1>10
<1> HIDE DEF T
<1>12. PICK ps2, E2, C2, O2 :
         /\ Shape(n, r.cells, r.event, ps2, r.old, E2, C2, O2)
         /\ \A q \in Process : q # p => C2[q] = C[q] /\ ps2[q] = ps[q]
         /\ C2[p] = Rest(C[p], m)
         /\ \A c \in 1 .. n : \/ Like(r.cells[c], cs[c])
                              \/ c \in Elems(C[p]) /\ r.cells[c].dynamic
  BY <1>11 DEF Closing
<1>13. C2[p] = << >> BY ONLY <1>2, <1>3, <1>12, RestType, m \in 0 .. m
<1>14. C2 \in [Process -> Seq(Nat)] /\ ps2 \in [Process -> Nat] BY <1>12 DEF Shape
<1>15. ps2[p] = 0
  <2>1. PICK rcs, rev, rold : rcs = r.cells /\ rev = r.event /\ rold = r.old OBVIOUS
  <2>2. Shape(n, rcs, rev, ps2, rold, E2, C2, O2) BY <2>1, <1>12
  <2>3. ps2[p] = 0 <=> C2[p] = << >> BY ONLY <2>2, ShapeHeads, n \in Nat, p \in Process
  <2> QED BY <2>3, <1>13
<1>16. C2 = With(C, p, << >>) BY ONLY <1>1, <1>12, <1>13, <1>14, p \in Process DEF With
<1>17. ps2 = With(ps, p, 0) BY ONLY <1>1, <1>12, <1>14, <1>15, p \in Process DEF With
<1> QED BY ONLY <1>12, <1>16, <1>17

-----------------------------------------------------------------------------
(* The inductive invariant.                                                  *)

(* The lists, as functions.                                                  *)
Events_Of(cs, ev) == [s \in Signal |-> Along(Next_Links(cs), ev[s])]
Waiting_Of(cs, ps) == [p \in Process |-> Along(Chain_Links(cs), ps[p])]
Recycled_Of(cs, old) == Along(Next_Links(cs), old)

(* The lists have a shape.                                                   *)
Shaped(cs, ev, ps, old) ==
  Shape(Len(cs), cs, ev, ps, old,
        Events_Of(cs, ev), Waiting_Of(cs, ps), Recycled_Of(cs, old))

(* The cells of waits, recycled ones too.                                    *)
Dynamic_Cells(cs) == {c \in 1 .. Len(cs) : cs[c].dynamic}

(* There are no more cells than waits can use.                               *)
Bounded(cs, ps) ==
  /\ \A p \in Plain : Len(Waiting_Of(cs, ps)[p]) <= Max_Sensitivity
  /\ Cardinality(Dynamic_Cells(cs)) <= Max_Sensitivity * Cardinality(Plain)

(* The state of processes.  Nothing waits during elaboration, and a process  *)
(* that runs is not to be resumed.                                           *)
Control ==
  /\ state \in [Process -> {"ready", "wait", "timeout", "dead"}]
  /\ resumed \subseteq Process
  /\ phase \in {"elaboration", "update", "run"}
  /\ Current_Process \in Plain \cup {"none"}
  /\ Current_Process # "none" => phase = "run" /\ Current_Process \notin resumed
  /\ phase = "elaboration" =>
       Old_Action_List = 0 /\ \A p \in Process : Proc_Sensitivity[p] = 0

(* The inductive invariant: the shape of the lists, the bounds, and the      *)
(* state of processes.                                                       *)
IInv ==
  /\ Shaped(cells, Event_List, Proc_Sensitivity, Old_Action_List)
  /\ Bounded(cells, Proc_Sensitivity)
  /\ Control

(* A shape is that of the lists.                                             *)
LEMMA ShapeShaped ==
  ASSUME NEW n \in Nat, NEW cs, NEW ev, NEW ps, NEW old, NEW E, NEW C, NEW O,
         Shape(n, cs, ev, ps, old, E, C, O)
  PROVE  /\ Shaped(cs, ev, ps, old)
         /\ Len(cs) = n /\ Events_Of(cs, ev) = E /\ Waiting_Of(cs, ps) = C
         /\ Recycled_Of(cs, old) = O
<1>1. Len(cs) = n BY ShapeHeads
<1>2. E \in [Signal -> Seq(Nat)] /\ C \in [Process -> Seq(Nat)] BY DEF Shape
<1>3. /\ \A s \in Signal : Along(Next_Links(cs), ev[s]) = E[s]
      /\ \A p \in Process : Along(Chain_Links(cs), ps[p]) = C[p]
      /\ Along(Next_Links(cs), old) = O
  BY ShapeAlong
<1>4. Events_Of(cs, ev) = E BY ONLY <1>2, <1>3 DEF Events_Of
<1>5. Waiting_Of(cs, ps) = C BY ONLY <1>2, <1>3 DEF Waiting_Of
<1>6. Recycled_Of(cs, old) = O BY ONLY <1>3 DEF Recycled_Of
<1> QED BY <1>1, <1>4, <1>5, <1>6 DEF Shaped

(* When no cell is recycled, the dynamic ones are those of the waits.        *)
LEMMA CountBound ==
  ASSUME NEW n \in Nat, NEW cs, NEW ev, NEW ps, NEW old, NEW E, NEW C,
         Shape(n, cs, ev, ps, old, E, C, << >>),
         \A p \in Plain : Len(C[p]) <= Max_Sensitivity
  PROVE  Cardinality(Dynamic_Cells(cs)) <= Max_Sensitivity * Cardinality(Plain)
<1>1. /\ Placed(n, cs, E, C, << >>) /\ Len(cs) = n /\ C \in [Process -> Seq(Nat)]
  BY ShapeHeads DEF Shape
<1>2. Elems(<< >>) = {} BY DEF Elems
<1>3. Max_Sensitivity \in Nat /\ IsFiniteSet(Plain) BY SensitivityAssumption
<1>4. PICK D : D = Dynamic_Cells(cs) OBVIOUS
<1>5. ASSUME NEW c \in D PROVE \E q \in Plain : \E i \in 1 .. Max_Sensitivity : C[q][i] = c
  <2>1. c \in 1 .. n /\ cs[c].dynamic BY <1>1, <1>4 DEF Dynamic_Cells
  <2>2. cs[c].proc \in Plain /\ cs[c].proc \in Process BY <2>1, <1>1, <1>2 DEF Placed
  <2>3. PICK q \in Plain : q = cs[c].proc /\ q \in Process BY <2>2
  <2>4. c \in Elems(C[q]) BY <2>1, <2>3, <1>1, <1>2 DEF Placed
  <2>5. PICK l \in Nat : l = Len(C[q]) BY <2>3, <1>1
  <2>6. PICK i \in 1 .. l : C[q][i] = c BY <2>4, <2>5 DEF Elems
  <2>7. l <= Max_Sensitivity BY <2>5
  <2>8. i \in 1 .. Max_Sensitivity BY <2>7, <1>3
  <2> QED BY <2>6, <2>8
<1> DEFINE place(c) == CHOOSE x \in Plain \X (1 .. Max_Sensitivity) : C[x[1]][x[2]] = c
<1> DEFINE f == [c \in D |-> place(c)]
<1>6. ASSUME NEW c \in D
      PROVE  f[c] \in Plain \X (1 .. Max_Sensitivity) /\ C[f[c][1]][f[c][2]] = c
  <2>1. PICK q \in Plain : \E i \in 1 .. Max_Sensitivity : C[q][i] = c BY <1>5
  <2>2. PICK i \in 1 .. Max_Sensitivity : C[q][i] = c BY <2>1
  <2>3. <<q, i>> \in Plain \X (1 .. Max_Sensitivity) /\ C[<<q, i>>[1]][<<q, i>>[2]] = c
    BY <2>2
  <2>4. \E x \in Plain \X (1 .. Max_Sensitivity) : C[x[1]][x[2]] = c BY <2>3
  <2> QED BY <2>4
<1>7. f \in Injection(D, Plain \X (1 .. Max_Sensitivity))
  <2>1. f \in [D -> Plain \X (1 .. Max_Sensitivity)]
    <3>1. \A c \in D : f[c] \in Plain \X (1 .. Max_Sensitivity) BY <1>6
    <3> QED BY <3>1
  <2>2. \A a, b \in D : f[a] = f[b] => a = b BY <1>6
  <2> HIDE DEF f
  <2> QED BY <2>1, <2>2 DEF Injection, IsInjective
<1> HIDE DEF f, place
<1>8. IsFiniteSet(1 .. Max_Sensitivity) /\ Cardinality(1 .. Max_Sensitivity) = Max_Sensitivity
  <2>1. 1 \in Int /\ Max_Sensitivity \in Int BY <1>3
  <2> QED BY <2>1, <1>3, FS_Interval
<1>9. /\ IsFiniteSet(Plain \X (1 .. Max_Sensitivity))
      /\ Cardinality(Plain \X (1 .. Max_Sensitivity))
           = Cardinality(Plain) * Cardinality(1 .. Max_Sensitivity)
  BY <1>3, <1>8, FS_Product
<1>10. Cardinality(D) <= Cardinality(Plain \X (1 .. Max_Sensitivity))
  BY <1>7, <1>9, FS_Injection
<1>11. PICK k \in Nat : k = Cardinality(Plain) BY <1>3, FS_CardinalityType
<1>12. PICK m \in Nat : m = Max_Sensitivity BY <1>3
<1>13. Cardinality(D) <= k * m BY <1>8, <1>9, <1>10, <1>11, <1>12
<1>14. k * m = m * k OBVIOUS
<1> QED BY <1>4, <1>11, <1>12, <1>13, <1>14

-----------------------------------------------------------------------------
(* The invariant holds at first.                                             *)

(* Without cells, all lists are empty.                                       *)
LEMMA EmptyShape ==
  Shape(0, << >>, [s \in Signal |-> 0], [p \in Process |-> 0], 0,
        [s \in Signal |-> << >>], [p \in Process |-> << >>], << >>)
<1> DEFINE E == [s \in Signal |-> << >>]
<1> DEFINE C == [p \in Process |-> << >>]
<1>1. \A link : List(link, << >>, 0) BY DEF List
<1>2. /\ E \in [Signal -> Seq(Nat)] /\ C \in [Process -> Seq(Nat)] /\ << >> \in Seq(Nat)
      /\ \A s \in Signal : E[s] = << >>
      /\ \A p \in Process : C[p] = << >>
  OBVIOUS
<1> HIDE DEF E, C
<1>3. Cells(<< >>, 0) BY DEF Cells
<1>4. \A cs : Doubly(cs, << >>) BY DEF Doubly
<1>5. Linked(<< >>, [s \in Signal |-> 0], [p \in Process |-> 0], 0, E, C, << >>)
  BY <1>1, <1>2 DEF Linked
<1>6. Placed(0, << >>, E, C, << >>) BY DEF Placed
<1>7. [s \in Signal |-> 0] \in [Signal -> Nat] /\ [p \in Process |-> 0] \in [Process -> Nat]
  OBVIOUS
<1>8. Shape(0, << >>, [s \in Signal |-> 0], [p \in Process |-> 0], 0, E, C, << >>)
  BY <1>2, <1>3, <1>4, <1>5, <1>6, <1>7 DEF Shape
<1> QED BY <1>8 DEF E, C

(* The invariant holds in the initial states.                                *)
LEMMA InitInv == Init => IInv
<1> SUFFICES ASSUME Init PROVE IInv OBVIOUS
<1>1. PICK ev, ps, E, C : /\ ev = [s \in Signal |-> 0] /\ ps = [p \in Process |-> 0]
                          /\ E = [s \in Signal |-> << >>] /\ C = [p \in Process |-> << >>]
  OBVIOUS
<1>2. cells = << >> /\ Event_List = ev /\ Proc_Sensitivity = ps /\ Old_Action_List = 0
  BY <1>1 DEF Init
<1>3. Shape(0, << >>, ev, ps, 0, E, C, << >>) BY <1>1, EmptyShape
<1>4. PICK cs : cs = << >> OBVIOUS
<1>5. Shape(0, cs, ev, ps, 0, E, C, << >>) BY <1>3, <1>4
<1>6. Shaped(cs, ev, ps, 0) /\ Waiting_Of(cs, ps) = C
  BY ONLY <1>5, ShapeShaped, 0 \in Nat
<1>7. \A p \in Plain : Len(C[p]) <= Max_Sensitivity
  <2>1. \A p \in Plain : C[p] = << >> BY <1>1 DEF Process
  <2> QED BY <2>1, SensitivityAssumption
<1>8. Cardinality(Dynamic_Cells(cs)) <= Max_Sensitivity * Cardinality(Plain)
  BY ONLY <1>5, <1>7, CountBound, 0 \in Nat
<1>9. Bounded(cs, ps) BY <1>6, <1>7, <1>8 DEF Bounded
<1>10. Control BY <1>1, <1>2 DEF Init, Control
<1> QED BY <1>2, <1>4, <1>6, <1>9, <1>10 DEF IInv

-----------------------------------------------------------------------------
(* The steps that change the lists.                                          *)

(* The current lists and their shape.                                        *)
LEMMA CurrentShape ==
  ASSUME IInv
  PROVE  \E n, E, C, O :
           /\ n \in Nat /\ n = Len(cells) /\ E = Events_Of(cells, Event_List)
           /\ C = Waiting_Of(cells, Proc_Sensitivity) /\ O = Recycled_Of(cells, Old_Action_List)
           /\ Shape(n, cells, Event_List, Proc_Sensitivity, Old_Action_List, E, C, O)
           /\ Placed(n, cells, E, C, O) /\ Cells(cells, n) /\ C \in [Process -> Seq(Nat)]
           /\ E \in [Signal -> Seq(Nat)]
           /\ \A p \in Plain : Len(C[p]) <= Max_Sensitivity
           /\ Cardinality(Dynamic_Cells(cells)) <= Max_Sensitivity * Cardinality(Plain)
<1>1. PICK n : n = Len(cells) OBVIOUS
<1>2. PICK E, C, O : /\ E = Events_Of(cells, Event_List)
                     /\ C = Waiting_Of(cells, Proc_Sensitivity)
                     /\ O = Recycled_Of(cells, Old_Action_List)
  OBVIOUS
<1>3. Shape(n, cells, Event_List, Proc_Sensitivity, Old_Action_List, E, C, O)
  BY <1>1, <1>2 DEF IInv, Shaped
<1>4. /\ Placed(n, cells, E, C, O) /\ Cells(cells, n) /\ C \in [Process -> Seq(Nat)]
      /\ E \in [Signal -> Seq(Nat)]
  BY <1>3 DEF Shape
<1>5. n \in Nat BY <1>1, <1>4 DEF Cells
<1>6. /\ \A p \in Plain : Len(C[p]) <= Max_Sensitivity
      /\ Cardinality(Dynamic_Cells(cells)) <= Max_Sensitivity * Cardinality(Plain)
  BY <1>2 DEF IInv, Bounded
<1> QED BY <1>1, <1>2, <1>3, <1>4, <1>5, <1>6

(* During elaboration, there are static cells only.                          *)
LEMMA NoWaitYet ==
  ASSUME IInv, phase = "elaboration"
  PROVE  /\ \A c \in 1 .. Len(cells) : ~cells[c].dynamic
         /\ \A p \in Process : Waiting_Of(cells, Proc_Sensitivity)[p] = << >>
<1>1. PICK n, E, C, O :
        /\ n \in Nat /\ n = Len(cells) /\ C = Waiting_Of(cells, Proc_Sensitivity)
        /\ Shape(n, cells, Event_List, Proc_Sensitivity, Old_Action_List, E, C, O)
        /\ Placed(n, cells, E, C, O)
  BY CurrentShape
<1> n \in Nat BY <1>1
<1>2. Old_Action_List = 0 /\ \A p \in Process : Proc_Sensitivity[p] = 0
  BY DEF IInv, Control
<1>3. \A p \in Process : C[p] = << >> BY ONLY <1>1, <1>2, ShapeHeads, n \in Nat
<1>4. O = << >> BY ONLY <1>1, <1>2, ShapeHeads, n \in Nat
<1>5. Elems(<< >>) = {} BY DEF Elems
<1>6. ASSUME NEW c \in 1 .. n, cells[c].dynamic PROVE FALSE
  <2>1. c \notin Elems(O) BY <1>4, <1>5
  <2>2. cells[c].proc \in Process BY <2>1, <1>1, <1>6 DEF Placed
  <2>3. PICK p \in Process : p = cells[c].proc BY <2>2
  <2>4. c \in Elems(C[p]) BY <2>1, <2>3, <1>1, <1>6 DEF Placed
  <2> QED BY <2>4, <1>3, <1>5
<1> QED BY <1>1, <1>3, <1>6

(* A static cell is added.                                                   *)
LEMMA AddFacts ==
  ASSUME IInv, NEW p \in Process, NEW s \in Signal, Ghdl_Process_Add_Sensitivity(p, s)
  PROVE  /\ Shaped(cells', Event_List', Proc_Sensitivity', Old_Action_List')
         /\ Waiting_Of(cells', Proc_Sensitivity') = Waiting_Of(cells, Proc_Sensitivity)
         /\ Len(cells') = Len(cells) + 1
         /\ \A c \in 1 .. Len(cells) : cells'[c] = cells[c]
         /\ ~cells'[Len(cells) + 1].dynamic
         /\ cells'[Len(cells) + 1].proc = p /\ cells'[Len(cells) + 1].sig = s
<1>1. PICK n, E, C, O :
        /\ n \in Nat /\ n = Len(cells) /\ C = Waiting_Of(cells, Proc_Sensitivity)
        /\ Shape(n, cells, Event_List, Proc_Sensitivity, Old_Action_List, E, C, O)
        /\ Placed(n, cells, E, C, O) /\ Cells(cells, n)
  BY CurrentShape
<1> n \in Nat BY <1>1
<1>2. PICK cs, ev, ps : cs = cells /\ ev = Event_List /\ ps = Proc_Sensitivity OBVIOUS
<1>3. Old_Action_List = 0 BY DEF IInv, Control, Ghdl_Process_Add_Sensitivity
<1>4. /\ Shape(n, cs, ev, ps, 0, E, C, O) /\ Cells(cs, n)
      /\ C = Waiting_Of(cs, ps) /\ n = Len(cs)
  BY <1>1, <1>2, <1>3
<1>5. \A c \in 1 .. n : ~cs[c].dynamic
  BY <1>1, <1>2, NoWaitYet DEF Ghdl_Process_Add_Sensitivity
<1>6. ev[s] \in 0 .. n /\ cs \in Seq(Cell_Type(n)) /\ ev \in [Signal -> 0 .. n]
  BY ONLY <1>4, ShapeHeads, n \in Nat, s \in Signal
<1>7. PICK cell : cell = [dynamic |-> FALSE, proc |-> p, sig |-> s,
                          next |-> 0, prev |-> 0, chain |-> 0]
  OBVIOUS
<1>8. /\ cell \in Cell_Type(n) /\ cell.sig = s /\ cell.proc = p /\ cell.prev = 0
      /\ ~cell.dynamic
  BY <1>7 DEF Cell_Type
<1>9. PICK k \in Nat : k = n + 1 OBVIOUS
<1>10. PICK w : w = Append(cs, cell) OBVIOUS
<1>11. PICK t : t = Link_First(w, k, ev[s]) OBVIOUS
<1>12. /\ w \in Seq(Cell_Type(n)) /\ Len(w) = k /\ w[k] = cell
       /\ \A c \in 1 .. n : w[c] = cs[c]
  BY ONLY <1>4, <1>6, <1>8, <1>9, <1>10, AppendProperties
<1>13. ev[s] # 0 => ~cs[ev[s]].dynamic /\ ~w[ev[s]].dynamic
  <2>1. ev[s] # 0 => ev[s] \in 1 .. n BY <1>6
  <2> QED BY <2>1, <1>5, <1>12
<1>14. PICK cell2 : cell2 = [dynamic |-> FALSE, proc |-> p, sig |-> s,
                             next |-> ev[s], prev |-> 0, chain |-> 0]
  OBVIOUS
<1>15. t = Append(cs, cell2)
  <2>1. t = [w EXCEPT ![k].next = ev[s]] BY <1>11, <1>13 DEF Link_First
  <2>2. cell2 = [cell EXCEPT !.next = ev[s]]
    <3>1. PICK f : f = FALSE OBVIOUS
    <3>2. PICK a : a = ev[s] OBVIOUS
    <3>3. cell = [dynamic |-> f, proc |-> p, sig |-> s, next |-> 0, prev |-> 0, chain |-> 0]
      BY <1>7, <3>1
    <3>4. cell2 = [dynamic |-> f, proc |-> p, sig |-> s, next |-> a, prev |-> 0, chain |-> 0]
      BY <1>14, <3>1, <3>2
    <3> QED BY ONLY <3>2, <3>3, <3>4
  <2>3. t = [w EXCEPT ![k] = cell2] BY ONLY <2>1, <2>2, <1>12
  <2>4. w = [c \in 1 .. k |-> w[c]] BY <1>12
  <2>5. t = [c \in 1 .. k |-> IF c = k THEN cell2 ELSE cs[c]]
    <3>1. \A c \in 1 .. k : c = k \/ c \in 1 .. n BY <1>9
    <3>2. t = [c \in 1 .. k |-> IF c = k THEN cell2 ELSE w[c]]
      BY ONLY <2>3, <2>4
    <3> QED BY ONLY <3>1, <3>2, <1>12
  <2>6. Append(cs, cell2) = [c \in 1 .. k |-> IF c = k THEN cell2 ELSE cs[c]]
    <3>1. PICK a : a = Append(cs, cell2) OBVIOUS
    <3>2. cell2 \in Cell_Type(n) BY <1>6, <1>14 DEF Cell_Type
    <3>3. a \in Seq(Cell_Type(n)) /\ Len(a) = k /\ a[k] = cell2 /\ \A c \in 1 .. n : a[c] = cs[c]
      BY ONLY <3>1, <3>2, <1>4, <1>6, <1>9, AppendProperties
    <3>4. a = [c \in 1 .. k |-> a[c]] BY <3>3
    <3>5. \A c \in 1 .. k : c = k \/ c \in 1 .. n BY <1>9
    <3> QED BY ONLY <3>1, <3>3, <3>4, <3>5
  <2> QED BY <2>5, <2>6
<1>16. cells' = t /\ Event_List' = With(ev, s, k)
       /\ Proc_Sensitivity' = ps /\ Old_Action_List' = 0
  <2>1. cells' = Append(cs, cell2) BY <1>2, <1>14 DEF Ghdl_Process_Add_Sensitivity
  <2>2. Len(cells') = k
    <3>1. cell2 \in Cell_Type(n) BY <1>6, <1>14 DEF Cell_Type
    <3> QED BY ONLY <2>1, <3>1, <1>4, <1>6, <1>9, AppendProperties
  <2>3. Event_List' = [Event_List EXCEPT ![s] = Len(cells')]
    BY DEF Ghdl_Process_Add_Sensitivity
  <2>4. Proc_Sensitivity' = ps /\ Old_Action_List' = 0
    BY <1>2, <1>3 DEF Ghdl_Process_Add_Sensitivity
  <2> QED BY ONLY <2>1, <2>2, <2>3, <2>4, <1>2, <1>15 DEF With
<1>17. PICK C2, ps2 : /\ ps2 = IF cell.dynamic THEN With(ps, p, k) ELSE ps
                      /\ C2 = IF cell.dynamic THEN With(C, p, Pushed(C[p], k)) ELSE C
  OBVIOUS
<1>18. ps2 = ps /\ C2 = C BY <1>8, <1>17
<1>19. /\ t[k].dynamic = cell.dynamic /\ t[k].proc = p /\ t[k].sig = s
       /\ \E O2 : Shape(k, t, With(ev, s, k), ps2, 0,
                        With(E, s, Pushed(E[s], k)), C2, O2)
  <2>1. PICK z, m, x, old : /\ old = 0 /\ z = IF old = 0 THEN n + 1 ELSE old
                            /\ m = IF old = 0 THEN n + 1 ELSE n
                            /\ x = IF old = 0 THEN 0 ELSE cs[z].next
    OBVIOUS
  <2>2. z = k /\ m = k /\ x = 0 BY <2>1, <1>9
  <2>3. w = IF old = 0 THEN Append(cs, cell) ELSE With(cs, z, cell) BY <2>1, <1>10
  <2>4. t = Link_First(w, z, ev[s]) BY <2>2, <1>11
  <2>5. /\ ps2 = IF cell.dynamic THEN With(ps, p, z) ELSE ps
        /\ C2 = IF cell.dynamic THEN With(C, p, Pushed(C[p], z)) ELSE C
    BY <2>2, <1>17
  <2>6. Shape(n, cs, ev, ps, old, E, C, O) BY <2>1, <1>4
  <2>7. /\ cell.dynamic => p \in Plain /\ cell.chain = ps[p]
        /\ ~cell.dynamic /\ ev[s] # 0 => ~cs[ev[s]].dynamic
    BY <1>8, <1>13
  <2>8. Added(n, cs, ev, old, E, cell, z, m, t, x, ps2, C2)
    BY ONLY <2>1, <2>3, <2>4, <2>5, <2>6, <2>7, <1>8, ShapeAdded,
            n \in Nat, p \in Process, s \in Signal
  <2> QED BY <2>1, <2>2, <2>8, <1>8 DEF Added
<1>20. PICK O2 : Shape(k, t, With(ev, s, k), ps, 0, With(E, s, Pushed(E[s], k)), C, O2)
  BY <1>18, <1>19
<1>21. /\ Shaped(t, With(ev, s, k), ps, 0) /\ Len(t) = k
       /\ Waiting_Of(t, ps) = C
  BY ONLY <1>20, ShapeShaped, k \in Nat
<1>22. \A c \in 1 .. n : t[c] = cs[c]
  <2>1. cell2 \in Cell_Type(n) BY <1>6, <1>14 DEF Cell_Type
  <2> QED BY ONLY <2>1, <1>4, <1>6, <1>15, AppendProperties
<1>23. ~t[k].dynamic BY <1>8, <1>19
<1>24. /\ n = Len(cells) /\ C = Waiting_Of(cells, Proc_Sensitivity) /\ cs = cells BY <1>1, <1>2
<1> QED BY ONLY <1>9, <1>16, <1>19, <1>21, <1>22, <1>23, <1>24

(* Where cells are not.                                                      *)
LEMMA ShapeElems ==
  ASSUME NEW n \in Nat, NEW cs, NEW ev, NEW ps, NEW old, NEW E, NEW C, NEW O,
         Shape(n, cs, ev, ps, old, E, C, O)
  PROVE  /\ \A q \in Process : Elems(C[q]) \subseteq 1 .. n
         /\ \A s \in Signal : Elems(E[s]) \subseteq 1 .. n
         /\ Elems(O) \subseteq 1 .. n
         /\ old # 0 => /\ old \in 1 .. n /\ cs[old].dynamic
                       /\ \A q \in Process : old \notin Elems(C[q])
         /\ \A q \in Process : \A c \in Elems(C[q]) : cs[c].dynamic /\ cs[c].proc = q
<1>1. /\ Cells(cs, n) /\ Linked(cs, ev, ps, old, E, C, O) /\ Placed(n, cs, E, C, O)
  BY DEF Shape
<1>2. PICK N, D : N = Next_Links(cs) /\ D = Chain_Links(cs) OBVIOUS
<1>3. Len(N) = n /\ Len(D) = n BY <1>1, <1>2, LinksType
<1>4. /\ \A s \in Signal : List(N, E[s], ev[s])
      /\ \A q \in Process : List(D, C[q], ps[q])
      /\ List(N, O, old)
  BY <1>1, <1>2 DEF Linked
<1>5. /\ \A q \in Process : Elems(C[q]) \subseteq 1 .. n
      /\ \A s \in Signal : Elems(E[s]) \subseteq 1 .. n
      /\ Elems(O) \subseteq 1 .. n
  BY ONLY <1>3, <1>4, ListFacts, n \in Nat
<1>6. ASSUME old # 0 PROVE old \in 1 .. n /\ old \in Elems(O)
  <2>1. PICK l \in Nat : l = Len(O) BY <1>4 DEF List
  <2>2. old \in 0 .. n /\ (old = 0 <=> l = 0) /\ (l # 0 => old = O[1])
    BY ONLY <1>3, <1>4, <2>1, ListFacts, n \in Nat
  <2>3. 1 \in 1 .. l /\ old = O[1] BY <2>2, <1>6
  <2> QED BY <2>1, <2>2, <2>3, <1>6 DEF Elems
<1>7. ASSUME old # 0
      PROVE  cs[old].dynamic /\ \A q \in Process : old \notin Elems(C[q])
  BY ONLY <1>1, <1>6, <1>7 DEF Placed
<1>8. \A q \in Process : \A c \in Elems(C[q]) : cs[c].dynamic /\ cs[c].proc = q
  BY ONLY <1>1, <1>5 DEF Placed
<1> QED BY <1>5, <1>6, <1>7, <1>8

(* What is true of the cells t and the sensitivity lists C2 after El was put *)
(* on the list of p and on that of s.                                        *)
Took(cs, C, p, s, El, t, C2) ==
  /\ 1 .. Len(t) = (1 .. Len(cs)) \cup {El}
  /\ El \in 1 .. Len(cs) => cs[El].dynamic
  /\ t[El].dynamic /\ t[El].sig = s
  /\ \A c \in 1 .. Len(cs) : c # El => Like(t[c], cs[c])
  /\ \A q \in Process : El \notin Elems(C[q]) /\ Elems(C[q]) \subseteq 1 .. Len(cs)
  /\ C2 \in [Process -> Seq(Nat)]
  /\ Elems(C2[p]) = Elems(C[p]) \cup {El}
  /\ \A q \in Process : q # p => C2[q] = C[q]

(* A cell of a wait is added.                                                *)
LEMMA TakeFacts ==
  ASSUME IInv, NEW p \in Plain, NEW s \in Signal, Ghdl_Process_Wait_Add_Sensitivity(p, s)
  PROVE  /\ Shaped(cells', Event_List', Proc_Sensitivity', Old_Action_List')
         /\ Bounded(cells', Proc_Sensitivity')
         /\ \E El : Took(cells, Waiting_Of(cells, Proc_Sensitivity), p, s, El,
                         cells', Waiting_Of(cells', Proc_Sensitivity'))
<1>1. PICK n, E, C, O :
        /\ n \in Nat /\ n = Len(cells) /\ C = Waiting_Of(cells, Proc_Sensitivity)
        /\ Shape(n, cells, Event_List, Proc_Sensitivity, Old_Action_List, E, C, O)
        /\ Placed(n, cells, E, C, O) /\ Cells(cells, n) /\ C \in [Process -> Seq(Nat)]
        /\ \A q \in Plain : Len(C[q]) <= Max_Sensitivity
        /\ Cardinality(Dynamic_Cells(cells)) <= Max_Sensitivity * Cardinality(Plain)
  BY CurrentShape
<1> n \in Nat BY <1>1
<1>2. PICK cs, ev, ps, old :
        cs = cells /\ ev = Event_List /\ ps = Proc_Sensitivity /\ old = Old_Action_List
  OBVIOUS
<1>3. /\ Shape(n, cs, ev, ps, old, E, C, O) /\ Cells(cs, n)
      /\ C = Waiting_Of(cs, ps) /\ n = Len(cs)
  BY <1>1, <1>2
<1>4. p \in Process BY DEF Process
<1>5. /\ ev[s] \in 0 .. n /\ cs \in Seq(Cell_Type(n)) /\ ev \in [Signal -> 0 .. n]
      /\ ps[p] \in 0 .. n
  BY ONLY <1>3, <1>4, ShapeHeads, n \in Nat, s \in Signal
<1>6. PICK cell : cell = [dynamic |-> TRUE, proc |-> p, sig |-> s,
                          next |-> 0, prev |-> 0, chain |-> ps[p]]
  OBVIOUS
<1>7. /\ cell \in Cell_Type(n) /\ cell.sig = s /\ cell.proc = p /\ cell.prev = 0
      /\ cell.dynamic /\ cell.chain = ps[p]
  BY <1>4, <1>5, <1>6 DEF Cell_Type
<1>8. PICK El : El = IF old = 0 THEN n + 1 ELSE old OBVIOUS
<1>9. PICK w : w = IF old = 0 THEN Append(cs, cell) ELSE With(cs, El, cell) OBVIOUS
<1>10. PICK t : t = Link_First(w, El, ev[s]) OBVIOUS
<1>11. PICK next : next = IF old = 0 THEN 0 ELSE cs[El].next OBVIOUS
<1>12. PICK m : m = IF old = 0 THEN n + 1 ELSE n OBVIOUS
<1>13. /\ cells' = t /\ Event_List' = With(ev, s, El)
       /\ Proc_Sensitivity' = With(ps, p, El) /\ Old_Action_List' = next
  <2>1. Take_Cell(cell) BY <1>2, <1>6 DEF Ghdl_Process_Wait_Add_Sensitivity
  <2>2. /\ Old_Action_List' = next /\ cells' = Link_First(w, El, Event_List[cell.sig])
        /\ Event_List' = [Event_List EXCEPT ![cell.sig] = El]
        /\ Proc_Sensitivity' = [Proc_Sensitivity EXCEPT ![cell.proc] = El]
    BY ONLY <2>1, <1>2, <1>3, <1>8, <1>9, <1>11 DEF Take_Cell, With
  <2> QED BY ONLY <2>2, <1>2, <1>7, <1>10 DEF With
<1>14. PICK C2, ps2 : /\ ps2 = IF cell.dynamic THEN With(ps, p, El) ELSE ps
                      /\ C2 = IF cell.dynamic THEN With(C, p, Pushed(C[p], El)) ELSE C
  OBVIOUS
<1>15. ps2 = With(ps, p, El) /\ C2 = With(C, p, Pushed(C[p], El)) BY <1>7, <1>14
<1>16. Added(n, cs, ev, old, E, cell, El, m, t, next, ps2, C2)
  <2>1. /\ cell.dynamic => p \in Plain /\ cell.chain = ps[p]
        /\ ~cell.dynamic /\ ev[s] # 0 => ~cs[ev[s]].dynamic
    BY <1>7
  <2>2. Shape(n, cs, ev, ps, old, E, C, O) BY <1>3
  <2>3. cell \in Cell_Type(n) /\ cell.sig = s /\ cell.proc = p /\ cell.prev = 0 BY <1>7
  <2> QED
    BY ONLY <2>1, <2>2, <2>3, <1>4, <1>8, <1>9, <1>10, <1>11, <1>12, <1>14, ShapeAdded,
            n \in Nat, s \in Signal
<1>17. /\ m \in Nat /\ El \in 1 .. m /\ 1 .. m = (1 .. n) \cup {El}
       /\ t[El].dynamic /\ t[El].proc = p /\ t[El].sig = s
       /\ \A c \in 1 .. n : c # El => Like(t[c], cs[c])
       /\ \E O2 : /\ Shape(m, t, With(ev, s, El), ps2, next,
                           With(E, s, Pushed(E[s], El)), C2, O2)
                  /\ old = 0 => O2 = << >>
  BY ONLY <1>7, <1>16 DEF Added
<1>18. PICK O2, E2, ev2 : /\ ev2 = With(ev, s, El) /\ Shape(m, t, ev2, ps2, next, E2, C2, O2)
                          /\ old = 0 => O2 = << >>
  BY <1>17
<1>19. Shaped(t, ev2, ps2, next) /\ Len(t) = m /\ Waiting_Of(t, ps2) = C2
  BY ONLY <1>17, <1>18, ShapeShaped
<1>20. /\ \A q \in Process : Elems(C[q]) \subseteq 1 .. n
       /\ old # 0 => /\ old \in 1 .. n /\ cs[old].dynamic
                     /\ \A q \in Process : old \notin Elems(C[q])
  BY ONLY <1>3, ShapeElems, n \in Nat
<1>21. /\ El \in 1 .. n => cs[El].dynamic /\ old # 0
       /\ \A q \in Process : El \notin Elems(C[q])
  <2>1. CASE old = 0
    <3>1. El \notin 1 .. n BY <2>1, <1>8
    <3> QED BY <3>1, <1>20
  <2>2. CASE old # 0 BY <2>2, <1>8, <1>20
  <2> QED BY <2>1, <2>2
<1>22. PICK d \in Seq(Nat) : d = C[p] BY <1>1, <1>4
<1>23. El \in Nat BY <1>17
<1>24. PICK d2 : d2 = Pushed(d, El) OBVIOUS
<1>25. d2 \in Seq(Nat) /\ Len(d2) = Len(d) + 1 /\ Elems(d2) = Elems(d) \cup {El}
  BY ONLY <1>23, <1>24, PushedType, d \in Seq(Nat)
<1>26. /\ C2 \in [Process -> Seq(Nat)] /\ C2[p] = d2
       /\ \A q \in Process : q # p => C2[q] = C[q]
  BY ONLY <1>1, <1>4, <1>15, <1>22, <1>24, <1>25 DEF With
<1>27. Took(cs, C, p, s, El, t, C2)
  BY ONLY <1>3, <1>17, <1>19, <1>20, <1>21, <1>22, <1>25, <1>26 DEF Took
<1>28. \A q \in Plain : Len(C2[q]) <= Max_Sensitivity
  <2>1. Len(d) < Max_Sensitivity
    <3>1. Waiting(p) = C[p] BY <1>1, <1>4 DEF Waiting, Waiting_Of
    <3> QED BY <3>1, <1>22 DEF Ghdl_Process_Wait_Add_Sensitivity
  <2>2. Len(d2) <= Max_Sensitivity BY <2>1, <1>25, SensitivityAssumption
  <2>3. \A q \in Plain : q \in Process BY DEF Process
  <2> QED BY ONLY <2>2, <2>3, <1>1, <1>26
<1>29. Cardinality(Dynamic_Cells(t)) <= Max_Sensitivity * Cardinality(Plain)
  <2>1. CASE old = 0
    <3>1. Shape(m, t, ev2, ps2, next, E2, C2, << >>) BY <2>1, <1>18
    <3> QED BY ONLY <3>1, <1>17, <1>28, CountBound
  <2>2. CASE old # 0
    <3>1. m = n /\ El \in 1 .. n /\ cs[El].dynamic BY <2>2, <1>8, <1>12, <1>20
    <3>2. \A c \in 1 .. n : c # El => t[c].dynamic = cs[c].dynamic BY <1>17 DEF Like
    <3>3. Dynamic_Cells(t) = Dynamic_Cells(cs)
      <4>1. Dynamic_Cells(t) = {c \in 1 .. n : t[c].dynamic}
        BY ONLY <3>1, <1>19 DEF Dynamic_Cells
      <4>2. Dynamic_Cells(cs) = {c \in 1 .. n : cs[c].dynamic} BY ONLY <1>3 DEF Dynamic_Cells
      <4>3. ASSUME NEW c \in 1 .. n PROVE t[c].dynamic <=> cs[c].dynamic
        BY ONLY <3>1, <3>2, <1>17, <4>3
      <4> QED BY ONLY <4>1, <4>2, <4>3
    <3> QED BY <3>3, <1>1, <1>2
  <2> QED BY <2>1, <2>2
<1>30. Bounded(t, ps2) BY ONLY <1>19, <1>28, <1>29 DEF Bounded
<1> QED BY ONLY <1>1, <1>2, <1>13, <1>15, <1>18, <1>19, <1>27, <1>30

(* The cells of a wait are recycled.                                         *)
LEMMA CloseFacts ==
  ASSUME IInv, NEW p \in Plain, Ghdl_Process_Wait_Close(p)
  PROVE  /\ Shaped(cells', Event_List', Proc_Sensitivity', Old_Action_List')
         /\ Bounded(cells', Proc_Sensitivity')
         /\ Len(cells') = Len(cells)
         /\ Waiting_Of(cells', Proc_Sensitivity')
              = With(Waiting_Of(cells, Proc_Sensitivity), p, << >>)
         /\ \A c \in 1 .. Len(cells) :
              \/ Like(cells'[c], cells[c])
              \/ /\ c \in Elems(Waiting_Of(cells, Proc_Sensitivity)[p])
                 /\ cells[c].dynamic /\ cells'[c].dynamic
<1>1. PICK n, E, C, O :
        /\ n \in Nat /\ n = Len(cells) /\ C = Waiting_Of(cells, Proc_Sensitivity)
        /\ Shape(n, cells, Event_List, Proc_Sensitivity, Old_Action_List, E, C, O)
        /\ C \in [Process -> Seq(Nat)]
        /\ \A q \in Plain : Len(C[q]) <= Max_Sensitivity
        /\ Cardinality(Dynamic_Cells(cells)) <= Max_Sensitivity * Cardinality(Plain)
  BY CurrentShape
<1> n \in Nat BY <1>1
<1>2. PICK cs, ev, ps, old :
        cs = cells /\ ev = Event_List /\ ps = Proc_Sensitivity /\ old = Old_Action_List
  OBVIOUS
<1>3. Shape(n, cs, ev, ps, old, E, C, O) BY <1>1, <1>2
<1>4. p \in Process BY DEF Process
<1>5. PICK lists : lists = [cells |-> cells, event |-> Event_List, old |-> Old_Action_List]
  OBVIOUS
<1>6. lists.cells = cs /\ lists.event = ev /\ lists.old = old BY <1>2, <1>5
<1>7. Waiting(p) = C[p] BY <1>1, <1>4 DEF Waiting, Waiting_Of
<1>8. PICK r : r = Unlink_All(lists, C[p]) OBVIOUS
<1>9. /\ cells' = r.cells /\ Event_List' = r.event /\ Old_Action_List' = r.old
      /\ Proc_Sensitivity' = With(ps, p, 0)
  BY <1>2, <1>5, <1>7, <1>8 DEF Ghdl_Process_Wait_Close, With
<1>10. /\ \E E2, O2 : Shape(n, r.cells, r.event, With(ps, p, 0), r.old,
                            E2, With(C, p, << >>), O2)
       /\ \A c \in 1 .. n : \/ Like(r.cells[c], cs[c])
                            \/ c \in Elems(C[p]) /\ r.cells[c].dynamic
  BY ONLY <1>3, <1>4, <1>6, <1>8, ShapeAllClosed, n \in Nat
<1>11. PICK t, ev2, ps2, old2, C2 :
         /\ t = r.cells /\ ev2 = r.event /\ ps2 = With(ps, p, 0) /\ old2 = r.old
         /\ C2 = With(C, p, << >>)
  OBVIOUS
<1>12. PICK E2, O2 : Shape(n, t, ev2, ps2, old2, E2, C2, O2) BY <1>10, <1>11
<1>13. Shaped(t, ev2, ps2, old2) /\ Len(t) = n /\ Waiting_Of(t, ps2) = C2
  BY ONLY <1>12, ShapeShaped, n \in Nat
<1>14. \A c \in Elems(C[p]) : cs[c].dynamic
  BY ONLY <1>3, <1>4, ShapeElems, n \in Nat
<1>15. \A c \in 1 .. n : \/ Like(t[c], cs[c])
                         \/ c \in Elems(C[p]) /\ cs[c].dynamic /\ t[c].dynamic
  BY <1>10, <1>11, <1>14
<1>16. Dynamic_Cells(t) = Dynamic_Cells(cs)
  <2>1. Dynamic_Cells(t) = {c \in 1 .. n : t[c].dynamic} BY ONLY <1>13 DEF Dynamic_Cells
  <2>2. Dynamic_Cells(cs) = {c \in 1 .. n : cs[c].dynamic}
    BY ONLY <1>1, <1>2 DEF Dynamic_Cells
  <2>3. \A c \in 1 .. n : t[c].dynamic <=> cs[c].dynamic BY ONLY <1>15 DEF Like
  <2> QED BY ONLY <2>1, <2>2, <2>3
<1>17. \A q \in Plain : Len(C2[q]) <= Max_Sensitivity
  <2>1. \A q \in Process : C2[q] = IF q = p THEN << >> ELSE C[q]
    BY ONLY <1>1, <1>4, <1>11 DEF With
  <2>2. \A q \in Plain : q \in Process BY DEF Process
  <2>3. Len(<< >>) <= Max_Sensitivity BY SensitivityAssumption
  <2> QED BY ONLY <2>1, <2>2, <2>3, <1>1
<1>18. Cardinality(Dynamic_Cells(t)) <= Max_Sensitivity * Cardinality(Plain)
  BY <1>1, <1>2, <1>16
<1>19. Bounded(t, ps2) BY ONLY <1>13, <1>17, <1>18 DEF Bounded
<1> QED BY ONLY <1>1, <1>2, <1>9, <1>11, <1>13, <1>15, <1>19

-----------------------------------------------------------------------------
(* Every step preserves the invariant.                                       *)

(* The steps that leave the lists alone.                                     *)
LEMMA ListsKept ==
  ASSUME IInv, UNCHANGED listVars, Control' PROVE IInv'
<1>1. /\ cells' = cells /\ Event_List' = Event_List
      /\ Proc_Sensitivity' = Proc_Sensitivity /\ Old_Action_List' = Old_Action_List
  BY DEF listVars
<1>2. Shaped(cells, Event_List, Proc_Sensitivity, Old_Action_List)' BY <1>1 DEF IInv
<1>3. Bounded(cells, Proc_Sensitivity)' BY <1>1 DEF IInv
<1> QED BY <1>2, <1>3 DEF IInv

(* The invariant is inductive.                                               *)
LEMMA NextInv == IInv /\ [Next]_vars => IInv'
<1> SUFFICES ASSUME IInv, [Next]_vars PROVE IInv' OBVIOUS
<1>1. Control BY DEF IInv
<1>2. "none" \notin Plain /\ Plain \subseteq Process BY SensitivityAssumption DEF Process
<1>3. ASSUME NEW p \in Process, NEW s \in Signal, Ghdl_Process_Add_Sensitivity(p, s)
      PROVE  IInv'
  <2>1. PICK n, E, C, O : n \in Nat /\ n = Len(cells) /\ Cells(cells, n)
    BY CurrentShape
  <2> n \in Nat BY <2>1
  <2>2. /\ Shaped(cells', Event_List', Proc_Sensitivity', Old_Action_List')
        /\ Waiting_Of(cells', Proc_Sensitivity') = Waiting_Of(cells, Proc_Sensitivity)
        /\ Len(cells') = n + 1
        /\ \A c \in 1 .. n : cells'[c] = cells[c]
        /\ ~cells'[n + 1].dynamic
    BY <1>3, <2>1, AddFacts
  <2>3. Dynamic_Cells(cells') = Dynamic_Cells(cells)
    <3>1. 1 .. n + 1 = (1 .. n) \cup {n + 1} BY <2>1
    <3>2. Dynamic_Cells(cells') = {c \in (1 .. n) \cup {n + 1} : cells'[c].dynamic}
      BY ONLY <2>2, <3>1 DEF Dynamic_Cells
    <3>3. Dynamic_Cells(cells) = {c \in 1 .. n : cells[c].dynamic}
      BY ONLY <2>1 DEF Dynamic_Cells
    <3> QED BY ONLY <3>2, <3>3, <2>2
  <2>4. Bounded(cells', Proc_Sensitivity')
    BY <2>2, <2>3 DEF IInv, Bounded
  <2>5. Control' BY <1>1, <1>3 DEF Control, Ghdl_Process_Add_Sensitivity
  <2> QED BY <2>2, <2>4, <2>5 DEF IInv
<1>4. ASSUME End_Elaboration PROVE IInv'
  <2>1. Control' BY <1>1, <1>4 DEF Control, End_Elaboration
  <2> QED BY <2>1, <1>4, ListsKept DEF End_Elaboration
<1>5. ASSUME NEW s \in Signal, Set_Effective_Value(s) PROVE IInv'
  <2>1. PICK n, E, C, O :
          /\ n \in Nat /\ n = Len(cells) /\ E = Events_Of(cells, Event_List)
          /\ Shape(n, cells, Event_List, Proc_Sensitivity, Old_Action_List, E, C, O)
          /\ Placed(n, cells, E, C, O) /\ E \in [Signal -> Seq(Nat)]
    BY CurrentShape
  <2> n \in Nat BY <2>1
  <2>2. Events(s) = E[s] BY <2>1 DEF Events, Events_Of
  <2>3. PICK e \in Seq(Nat) : e = E[s] BY <2>1
  <2>4. ToSet(e) = Elems(e) BY DEF ToSet, Elems
  <2>5. Elems(e) \subseteq 1 .. n BY ONLY <2>1, <2>3, ShapeElems, s \in Signal, n \in Nat
  <2>6. \A c \in Elems(e) : cells[c].proc \in Process BY <2>1, <2>3, <2>5 DEF Placed
  <2>7. resumed' \subseteq Process
    <3>1. resumed' = resumed \cup {cells[c].proc : c \in Elems(e)}
      BY <2>2, <2>3, <2>4, <1>5 DEF Set_Effective_Value
    <3> QED BY <3>1, <2>6, <1>1 DEF Control
  <2>8. Control' BY <2>7, <1>1, <1>5 DEF Control, Set_Effective_Value, listVars
  <2> QED BY <2>8, <1>5, ListsKept DEF Set_Effective_Value
<1>6. ASSUME NEW p \in Plain, Timed_Out(p) PROVE IInv'
  <2>1. Control' BY <1>1, <1>2, <1>6 DEF Control, Timed_Out, listVars
  <2> QED BY <2>1, <1>6, ListsKept DEF Timed_Out
<1>7. ASSUME Start_Run PROVE IInv'
  <2>1. Control' BY <1>1, <1>7 DEF Control, Start_Run, listVars
  <2> QED BY <2>1, <1>7, ListsKept DEF Start_Run
<1>8. ASSUME End_Run PROVE IInv'
  <2>1. Control' BY <1>1, <1>8 DEF Control, End_Run, listVars
  <2> QED BY <2>1, <1>8, ListsKept DEF End_Run
<1>9. ASSUME NEW p \in Process, Run_Process(p) PROVE IInv'
  <2>1. p \notin Sensitized => p \in Plain BY DEF Process
  <2>2. Control' BY <2>1, <1>1, <1>9 DEF Control, Run_Process, listVars
  <2> QED BY <2>2, <1>9, ListsKept DEF Run_Process
<1>10. ASSUME NEW p \in Plain, NEW s \in Signal, Ghdl_Process_Wait_Add_Sensitivity(p, s)
       PROVE  IInv'
  <2>1. /\ Shaped(cells', Event_List', Proc_Sensitivity', Old_Action_List')
        /\ Bounded(cells', Proc_Sensitivity')
    BY <1>10, TakeFacts
  <2>2. phase = "run" BY <1>1, <1>2, <1>10 DEF Control, Ghdl_Process_Wait_Add_Sensitivity
  <2>3. Control' BY <2>2, <1>1, <1>10 DEF Control, Ghdl_Process_Wait_Add_Sensitivity
  <2> QED BY <2>1, <2>3 DEF IInv
<1>11. ASSUME NEW p \in Plain, Ghdl_Process_Wait_Suspend(p) PROVE IInv'
  <2>1. Control' BY <1>1, <1>2, <1>11 DEF Control, Ghdl_Process_Wait_Suspend, listVars
  <2> QED BY <2>1, <1>11, ListsKept DEF Ghdl_Process_Wait_Suspend
<1>12. ASSUME NEW p \in Plain, Ghdl_Process_Wait_Close(p) PROVE IInv'
  <2>1. /\ Shaped(cells', Event_List', Proc_Sensitivity', Old_Action_List')
        /\ Bounded(cells', Proc_Sensitivity')
    BY <1>12, CloseFacts
  <2>2. phase = "run" BY <1>1, <1>2, <1>12 DEF Control, Ghdl_Process_Wait_Close
  <2>3. Control' BY <2>2, <1>1, <1>2, <1>12 DEF Control, Ghdl_Process_Wait_Close
  <2> QED BY <2>1, <2>3 DEF IInv
<1>13. ASSUME NEW p \in Plain, Ghdl_Process_Wait_Exit(p) PROVE IInv'
  <2>1. Control' BY <1>1, <1>2, <1>13 DEF Control, Ghdl_Process_Wait_Exit, listVars
  <2> QED BY <2>1, <1>13, ListsKept DEF Ghdl_Process_Wait_Exit
<1>14. ASSUME UNCHANGED vars PROVE IInv'
  <2>1. Control' BY <1>1, <1>14 DEF Control, vars, listVars
  <2> QED BY <2>1, <1>14, ListsKept DEF vars
<1> QED
  BY <1>3, <1>4, <1>5, <1>6, <1>7, <1>8, <1>9, <1>10, <1>11, <1>12, <1>13, <1>14 DEF Next

(* The invariant holds at all times.                                         *)
LEMMA InvariantHolds == Spec => []IInv
<1>1. Init => IInv BY InitInv
<1>2. IInv /\ [Next]_vars => IInv' BY NextInv
<1> QED BY <1>1, <1>2, PTL DEF Spec

-----------------------------------------------------------------------------
(* What follows from the invariant.                                          *)

(* A list as a set, with the operators of EventLists and of the proofs.      *)
LEMMA ListAsSet ==
  ASSUME NEW s \in Seq(Nat)
  PROVE  /\ ToSet(s) = Elems(s)
         /\ \A c : Contains(s, c) <=> c \in Elems(s)
<1>1. PICK m \in Nat : m = Len(s) OBVIOUS
<1>2. DOMAIN s = 1 .. m BY <1>1
<1> QED BY <1>1, <1>2 DEF ToSet, Contains, Elems

(* The current lists as the properties name them.                            *)
LEMMA CurrentLists ==
  ASSUME IInv
  PROVE  \E n, E, C, O :
           /\ n \in Nat /\ n = Len(cells)
           /\ Shape(n, cells, Event_List, Proc_Sensitivity, Old_Action_List, E, C, O)
           /\ Placed(n, cells, E, C, O)
           /\ \A s \in Signal : Events(s) = E[s] /\ E[s] \in Seq(Nat)
           /\ \A p \in Process : Waiting(p) = C[p] /\ C[p] \in Seq(Nat)
           /\ Recycled = O /\ O \in Seq(Nat)
           /\ C = Waiting_Of(cells, Proc_Sensitivity)
<1>1. PICK n, E, C, O :
        /\ n \in Nat /\ n = Len(cells) /\ E = Events_Of(cells, Event_List)
        /\ C = Waiting_Of(cells, Proc_Sensitivity) /\ O = Recycled_Of(cells, Old_Action_List)
        /\ Shape(n, cells, Event_List, Proc_Sensitivity, Old_Action_List, E, C, O)
        /\ Placed(n, cells, E, C, O)
  BY CurrentShape
<1> n \in Nat BY <1>1
<1>2. /\ E \in [Signal -> Seq(Nat)] /\ C \in [Process -> Seq(Nat)] /\ O \in Seq(Nat)
  BY <1>1 DEF Shape
<1>3. \A s \in Signal : Events(s) = E[s] BY <1>1 DEF Events, Events_Of
<1>4. \A p \in Process : Waiting(p) = C[p] BY <1>1 DEF Waiting, Waiting_Of
<1>5. Recycled = O BY <1>1 DEF Recycled, Recycled_Of
<1> QED BY <1>1, <1>2, <1>3, <1>4, <1>5

(* The types, and the bound of the number of cells.                          *)
LEMMA TypesFollow == IInv => TypeOK
<1> SUFFICES ASSUME IInv PROVE TypeOK OBVIOUS
<1>1. PICK n, E, C, O :
        /\ n \in Nat /\ n = Len(cells)
        /\ Shape(n, cells, Event_List, Proc_Sensitivity, Old_Action_List, E, C, O)
  BY CurrentLists
<1> n \in Nat BY <1>1
<1>2. PICK cs, ev, ps, old :
        cs = cells /\ ev = Event_List /\ ps = Proc_Sensitivity /\ old = Old_Action_List
  OBVIOUS
<1>3. Shape(n, cs, ev, ps, old, E, C, O) BY <1>1, <1>2
<1>4. /\ cs \in Seq(Cell_Type(n)) /\ Len(cs) = n
      /\ ev \in [Signal -> 0 .. n] /\ ps \in [Process -> 0 .. n] /\ old \in 0 .. n
  BY ONLY <1>3, ShapeHeads, n \in Nat
<1>5. Cardinality({c \in 1 .. Len(cells) : cells[c].dynamic})
        <= Max_Sensitivity * Cardinality(Plain)
  BY DEF IInv, Bounded, Dynamic_Cells
<1>6. cells \in Seq(Cell_Type(Len(cells))) BY <1>2, <1>4
<1>7. /\ Event_List \in [Signal -> 0 .. Len(cells)]
      /\ Proc_Sensitivity \in [Process -> 0 .. Len(cells)]
      /\ Old_Action_List \in 0 .. Len(cells)
  BY ONLY <1>2, <1>4
<1>8. Control BY DEF IInv
<1> QED BY ONLY <1>5, <1>6, <1>7, <1>8 DEF TypeOK, Cell_Type, Control

(* The order of the event lists.                                             *)
LEMMA SoundFollows == IInv => EventListsSound
<1> SUFFICES ASSUME IInv PROVE EventListsSound OBVIOUS
<1>1. PICK n, E, C, O :
        /\ n \in Nat /\ n = Len(cells)
        /\ Shape(n, cells, Event_List, Proc_Sensitivity, Old_Action_List, E, C, O)
        /\ Placed(n, cells, E, C, O)
        /\ \A s \in Signal : Events(s) = E[s] /\ E[s] \in Seq(Nat)
  BY CurrentLists
<1> n \in Nat BY <1>1
<1>2. SUFFICES ASSUME NEW s \in Signal, NEW i \in DOMAIN Events(s)
               PROVE  /\ cells[Events(s)[i]].sig = s
                      /\ cells[Events(s)[i]].dynamic =>
                           /\ cells[Events(s)[i]].prev = IF i = 1 THEN 0 ELSE Events(s)[i - 1]
                           /\ i > 1 => cells[Events(s)[i - 1]].dynamic
  BY DEF EventListsSound
<1>3. PICK e \in Seq(Nat) : e = E[s] /\ e = Events(s) BY <1>1
<1>4. i \in 1 .. Len(e) /\ e[i] \in Elems(e) BY <1>2, <1>3 DEF Elems
<1>5. Elems(E[s]) \subseteq 1 .. n BY ONLY <1>1, ShapeElems, s \in Signal, n \in Nat
<1>6. e[i] \in 1 .. n BY <1>3, <1>4, <1>5
<1>7. cells[e[i]].sig = s BY ONLY <1>1, <1>3, <1>4, <1>6, s \in Signal DEF Placed
<1>8. Doubly(cells, e) BY <1>1, <1>3 DEF Shape
<1>9. cells[e[i]].dynamic => /\ cells[e[i]].prev = IF i = 1 THEN 0 ELSE e[i - 1]
                             /\ i > 1 => cells[e[i - 1]].dynamic
  BY ONLY <1>4, <1>8 DEF Doubly
<1> QED BY ONLY <1>3, <1>7, <1>9

(* Where the cells are.                                                      *)
LEMMA CellsFollow == IInv => CellsAccountedFor
<1> SUFFICES ASSUME IInv PROVE CellsAccountedFor OBVIOUS
<1>1. PICK n, E, C, O :
        /\ n \in Nat /\ n = Len(cells)
        /\ Shape(n, cells, Event_List, Proc_Sensitivity, Old_Action_List, E, C, O)
        /\ Placed(n, cells, E, C, O)
        /\ \A s \in Signal : Events(s) = E[s] /\ E[s] \in Seq(Nat)
        /\ \A p \in Process : Waiting(p) = C[p] /\ C[p] \in Seq(Nat)
        /\ Recycled = O /\ O \in Seq(Nat)
  BY CurrentLists
<1> n \in Nat BY <1>1
<1>2. /\ \A q \in Process : Elems(C[q]) \subseteq 1 .. n
      /\ \A s \in Signal : Elems(E[s]) \subseteq 1 .. n
      /\ \A q \in Process : \A c \in Elems(C[q]) : cells[c].dynamic /\ cells[c].proc = q
  BY ONLY <1>1, ShapeElems, n \in Nat
<1>3. IsInjective(Recycled)
  <2>1. \A i, j \in 1 .. Len(O) : O[i] = O[j] => i = j BY <1>1 DEF Shape, Linked, List
  <2>2. DOMAIN O = 1 .. Len(O) BY <1>1
  <2> QED BY ONLY <2>1, <2>2, <1>1 DEF IsInjective
<1>4. ASSUME NEW c \in DOMAIN cells, cells[c].dynamic
      PROVE  \/ Contains(Recycled, c)
             \/ /\ ~Contains(Recycled, c) /\ cells[c].proc \in Process
                /\ Contains(Waiting(cells[c].proc), c)
                /\ Contains(Events(cells[c].sig), c)
  <2>1. cells \in Seq(Cell_Type(n)) BY ONLY <1>1, ShapeHeads, n \in Nat
  <2>2. c \in 1 .. n BY <1>1, <2>1
  <2>3. Contains(O, c) <=> c \in Elems(O) BY ONLY <1>1, ListAsSet
  <2>4. CASE c \in Elems(O) BY <2>3, <2>4, <1>1
  <2>5. CASE c \notin Elems(O)
    <3>1. cells[c].proc \in Process /\ cells[c].sig \in Signal
      BY ONLY <1>1, <2>2, <2>5 DEF Placed
    <3>2. PICK p \in Process, s \in Signal : p = cells[c].proc /\ s = cells[c].sig BY <3>1
    <3>3. c \in Elems(E[s]) BY ONLY <1>1, <2>2, <2>5, <3>2 DEF Placed
    <3>4. c \in Elems(C[p]) BY ONLY <1>1, <1>4, <2>2, <2>5, <3>2 DEF Placed
    <3>5. Contains(Events(s), c) BY ONLY <1>1, <3>3, ListAsSet, s \in Signal
    <3>6. Contains(Waiting(p), c) BY ONLY <1>1, <3>4, ListAsSet, p \in Process
    <3> QED BY ONLY <1>1, <2>3, <2>5, <3>2, <3>5, <3>6
  <2> QED BY <2>4, <2>5
<1>5. ASSUME NEW p \in Process, NEW c \in ToSet(Waiting(p))
      PROVE  cells[c].dynamic /\ cells[c].proc = p
  <2>1. c \in Elems(C[p]) BY ONLY <1>1, <1>5, ListAsSet
  <2> QED BY <2>1, <1>2
<1>6. ASSUME NEW s \in Signal PROVE ToSet(Events(s)) \cap ToSet(Recycled) = {}
  <2>1. ToSet(Events(s)) = Elems(E[s]) /\ ToSet(Recycled) = Elems(O)
    BY ONLY <1>1, ListAsSet, s \in Signal
  <2>2. ASSUME NEW c \in Elems(E[s]) PROVE c \notin Elems(O)
    BY ONLY <1>1, <1>2, <2>2, s \in Signal DEF Placed
  <2> QED BY <2>1, <2>2
<1> QED BY ONLY <1>3, <1>4, <1>5, <1>6 DEF CellsAccountedFor

(* The lists and cells have their types at all times, and there are never    *)
(* more dynamic cells than the waits of all processes can use at once.       *)
THEOREM EventListsTypeCorrect == Spec => []TypeOK
<1>1. IInv => TypeOK BY TypesFollow
<1> QED BY <1>1, InvariantHolds, PTL

(* Every event list keeps its order, and its dynamic cells are linked back   *)
(* to the cell before, whatever waits begin and end (grt-processes.adb:359). *)
THEOREM EventListsAlwaysSound == Spec => []EventListsSound
<1>1. IInv => EventListsSound BY SoundFollows
<1> QED BY <1>1, InvariantHolds, PTL

(* No dynamic cell is lost or on two lists of a kind, for any number of waits*)
(* (grt-processes.adb:336-478).                                              *)
THEOREM CellsAlwaysAccountedFor == Spec => []CellsAccountedFor
<1>1. IInv => CellsAccountedFor BY CellsFollow
<1> QED BY <1>1, InvariantHolds, PTL
=============================================================================
