--------------------------- MODULE CallbacksProofs ---------------------------
(***************************************************************************)
(* Proofs about Callbacks, for any set of users and any number of cells:   *)
(* the cells always form three disjoint lists without a cycle, whatever    *)
(* callbacks register, delete and remove while a list is walked.           *)
(*                                                                         *)
(* Most lemmas are about sequences and link functions, not about states:   *)
(* what linking a cell in or out of a list does to that list and to the    *)
(* others.                                                                 *)
(***************************************************************************)
EXTENDS Callbacks, FiniteSets, FiniteSetTheorems, SequenceTheorems, TLAPS

(* Induction over the naturals, for a set instead of a predicate: if n were  *)
(* missing in T, adding 1 would map T \cap 0..n into itself without 0.       *)
LEMMA SetInduction ==
  ASSUME NEW T, T \subseteq Nat, 0 \in T, \A n \in T : n + 1 \in T
  PROVE  Nat \subseteq T
<1> SUFFICES ASSUME NEW n \in Nat, n \notin T PROVE FALSE OBVIOUS
<1> DEFINE B == (0 .. n) \cap T
<1> DEFINE f == [x \in B |-> x + 1]
<1>1. IsFiniteSet(B)
  <2>1. IsFiniteSet(0 .. n) BY FS_Interval, 0 \in Int, n \in Int
  <2> QED BY <2>1, FS_Subset, B \subseteq 0 .. n
<1>2. 0 \in B OBVIOUS
<1>3. IsFiniteSet(B \ {0}) /\ Cardinality(B \ {0}) = Cardinality(B) - 1
  BY <1>1, <1>2, FS_RemoveElement
<1>4. Cardinality(B) \in Nat BY <1>1, FS_CardinalityType
<1>5. f \in [B -> B \ {0}]
  <2>1. ASSUME NEW x \in B PROVE x + 1 \in B \ {0} BY <2>1, x # n
  <2> QED BY <2>1
<1>6. \A x, y \in B : x # y => f[x] # f[y] OBVIOUS
<1> HIDE DEF B, f
<1>7. Cardinality(B \ {0}) < Cardinality(B) BY <1>3, <1>4
<1> QED BY <1>1, <1>3, <1>5, <1>6, <1>7, FS_PigeonHole

-----------------------------------------------------------------------------
(* Linked lists.                                                             *)

Elems(s) == {s[i] : i \in 1 .. Len(s)}

(* From cell h, the links next lead through the cells of s, once each.       *)
List(next, s, h) ==
  /\ s \in Seq(Cell)
  /\ \A i, j \in 1 .. Len(s) : s[i] = s[j] => i = j
  /\ h = IF Len(s) = 0 THEN Null ELSE s[1]
  /\ \A i \in 1 .. Len(s) : next[s[i]] = IF i = Len(s) THEN Null ELSE s[i + 1]

(* s with x behind its i-th element, and without its i-th element.           *)
Inserted(s, i, x) ==
  [k \in 1 .. Len(s) + 1 |-> IF k <= i THEN s[k] ELSE IF k = i + 1 THEN x ELSE s[k - 1]]

Removed(s, i) == [k \in 1 .. Len(s) - 1 |-> IF k < i THEN s[k] ELSE s[k + 1]]

LEMMA InsertedType ==
  ASSUME NEW s \in Seq(Cell), NEW i \in 0 .. Len(s), NEW x \in Cell
  PROVE  /\ Inserted(s, i, x) \in Seq(Cell)
         /\ Len(Inserted(s, i, x)) = Len(s) + 1
         /\ \A k \in 1 .. Len(s) + 1 : Inserted(s, i, x)[k] =
              IF k <= i THEN s[k] ELSE IF k = i + 1 THEN x ELSE s[k - 1]
         /\ Elems(Inserted(s, i, x)) = Elems(s) \cup {x}
<1> DEFINE t == Inserted(s, i, x)
<1>1. t \in [1 .. Len(s) + 1 -> Cell] BY DEF Inserted
<1>2. t \in Seq(Cell) /\ Len(t) = Len(s) + 1 BY <1>1
<1>3. \A k \in 1 .. Len(s) + 1 : t[k] =
        IF k <= i THEN s[k] ELSE IF k = i + 1 THEN x ELSE s[k - 1]
  BY DEF Inserted
<1> HIDE DEF t
<1>4. Elems(t) \subseteq Elems(s) \cup {x} BY <1>2, <1>3 DEF Elems
<1>5. Elems(s) \subseteq Elems(t)
  <2> SUFFICES ASSUME NEW k \in 1 .. Len(s)
               PROVE  \E m \in 1 .. Len(t) : t[m] = s[k]
    BY DEF Elems
  <2>1. CASE k <= i BY <2>1, <1>2, <1>3
  <2>2. CASE ~(k <= i)
    <3>1. k + 1 \in 1 .. Len(t) /\ t[k + 1] = s[k] BY <2>2, <1>2, <1>3
    <3> QED BY <3>1
  <2> QED BY <2>1, <2>2
<1>6. x \in Elems(t)
  <2>1. i + 1 \in 1 .. Len(t) /\ t[i + 1] = x BY <1>2, <1>3
  <2> QED BY <2>1 DEF Elems
<1> QED BY <1>2, <1>3, <1>4, <1>5, <1>6 DEF t

LEMMA RemovedType ==
  ASSUME NEW s \in Seq(Cell), NEW i \in 1 .. Len(s),
         \A j, k \in 1 .. Len(s) : s[j] = s[k] => j = k
  PROVE  /\ Removed(s, i) \in Seq(Cell)
         /\ Len(Removed(s, i)) = Len(s) - 1
         /\ \A k \in 1 .. Len(s) - 1 : Removed(s, i)[k] =
              IF k < i THEN s[k] ELSE s[k + 1]
         /\ Elems(Removed(s, i)) = Elems(s) \ {s[i]}
<1> DEFINE t == Removed(s, i)
<1>1. t \in [1 .. Len(s) - 1 -> Cell] BY DEF Removed
<1>2. t \in Seq(Cell) /\ Len(t) = Len(s) - 1 BY <1>1
<1>3. \A k \in 1 .. Len(s) - 1 : t[k] = IF k < i THEN s[k] ELSE s[k + 1]
  BY DEF Removed
<1> HIDE DEF t
<1>4. Elems(t) \subseteq Elems(s) \ {s[i]}
  <2> SUFFICES ASSUME NEW k \in 1 .. Len(s) - 1
               PROVE  t[k] \in Elems(s) /\ t[k] # s[i]
    BY <1>2 DEF Elems
  <2> QED BY <1>3 DEF Elems
<1>5. Elems(s) \ {s[i]} \subseteq Elems(t)
  <2> SUFFICES ASSUME NEW k \in 1 .. Len(s), s[k] # s[i]
               PROVE  \E m \in 1 .. Len(t) : t[m] = s[k]
    BY DEF Elems
  <2>1. CASE k < i BY <2>1, <1>2, <1>3
  <2>2. CASE k > i
    <3>1. k - 1 \in 1 .. Len(t) /\ t[k - 1] = s[k] BY <2>2, <1>2, <1>3
    <3> QED BY <3>1
  <2> QED BY <2>1, <2>2
<1> QED BY <1>2, <1>3, <1>4, <1>5 DEF t

(* A list keeps its cells when none of their links changes.                  *)
LEMMA ListKept ==
  ASSUME NEW N, NEW M, NEW s, NEW h, List(N, s, h),
         \A x \in Elems(s) : M[x] = N[x]
  PROVE  List(M, s, h)
<1>1. \A i \in 1 .. Len(s) : M[s[i]] = N[s[i]] BY DEF Elems
<1> QED BY <1>1 DEF List

(* Linking a cell in.                                                        *)
LEMMA ListInserted ==
  ASSUME NEW N, NEW M, NEW s, NEW h, List(N, s, h),
         NEW i \in 0 .. Len(s), NEW x \in Cell, x \notin Elems(s),
         M[x] = IF i = Len(s) THEN Null ELSE s[i + 1],
         i > 0 => M[s[i]] = x,
         \A k \in 1 .. Len(s) : k # i => M[s[k]] = N[s[k]]
  PROVE  List(M, Inserted(s, i, x), IF i = 0 THEN x ELSE h)
<1> DEFINE t == Inserted(s, i, x)
<1>0. s \in Seq(Cell) BY DEF List
<1>1. t \in Seq(Cell) /\ Len(t) = Len(s) + 1 BY <1>0, InsertedType
<1>2. \A k \in 1 .. Len(s) + 1 : t[k] =
        IF k <= i THEN s[k] ELSE IF k = i + 1 THEN x ELSE s[k - 1]
  BY <1>0, InsertedType
<1> HIDE DEF t
<1>3. \A k \in 1 .. Len(s) : s[k] # x BY DEF Elems
<1>4. \A j, k \in 1 .. Len(s) : s[j] = s[k] => j = k BY DEF List
<1>5. \A j, k \in 1 .. Len(t) : t[j] = t[k] => j = k
  <2> DEFINE old(k) == IF k <= i THEN k ELSE k - 1
  <2> SUFFICES ASSUME NEW j \in 1 .. Len(t), NEW k \in 1 .. Len(t), t[j] = t[k]
               PROVE  j = k
    OBVIOUS
  <2>1. \A m \in 1 .. Len(t) : m # i + 1 => old(m) \in 1 .. Len(s) /\ t[m] = s[old(m)]
    BY <1>0, <1>1, <1>2
  <2>2. t[i + 1] = x BY <1>0, <1>1, <1>2
  <2>3. CASE j = i + 1
    <3>1. k = i + 1 BY <2>1, <2>2, <2>3, <1>3
    <3> QED BY <3>1, <2>3
  <2>4. CASE k = i + 1
    <3>1. j = i + 1 BY <2>1, <2>2, <2>4, <1>3
    <3> QED BY <3>1, <2>4
  <2>5. CASE j # i + 1 /\ k # i + 1
    <3>1. old(j) = old(k) BY <2>1, <2>5, <1>4
    <3> QED BY <3>1, <2>5, <1>0, <1>1
  <2> QED BY <2>3, <2>4, <2>5
<1>6. (IF i = 0 THEN x ELSE h) = t[1] BY <1>0, <1>1, <1>2 DEF List
<1>7. ASSUME NEW k \in 1 .. Len(t)
      PROVE  M[t[k]] = IF k = Len(t) THEN Null ELSE t[k + 1]
  <2>1. CASE k < i
    <3>1. t[k] = s[k] /\ t[k + 1] = s[k + 1] /\ k \in 1 .. Len(s) /\ k # Len(s)
      BY <2>1, <1>0, <1>1, <1>2
    <3>2. N[s[k]] = s[k + 1] BY <3>1 DEF List
    <3> QED BY <2>1, <3>1, <3>2, <1>1
  <2>2. CASE k = i
    <3>1. t[k] = s[k] /\ t[k + 1] = x /\ k # Len(t) BY <2>2, <1>0, <1>1, <1>2
    <3> QED BY <2>2, <3>1
  <2>3. CASE k = i + 1
    <3>1. t[k] = x BY <2>3, <1>0, <1>1, <1>2
    <3>2. CASE i = Len(s) BY <2>3, <3>1, <3>2, <1>1
    <3>3. CASE i # Len(s)
      <4>1. t[k + 1] = s[i + 1] /\ k # Len(t) BY <2>3, <3>3, <1>0, <1>1, <1>2
      <4> QED BY <3>1, <3>3, <4>1
    <3> QED BY <3>2, <3>3
  <2>4. CASE k > i + 1
    <3>1. t[k] = s[k - 1] /\ k - 1 \in 1 .. Len(s) /\ k - 1 # i
      BY <2>4, <1>0, <1>1, <1>2
    <3>2. M[t[k]] = N[s[k - 1]] BY <3>1
    <3>3. N[s[k - 1]] = IF k - 1 = Len(s) THEN Null ELSE s[k]
      <4>1. k - 1 + 1 = k BY <1>1
      <4> QED BY <3>1, <4>1 DEF List
    <3>4. CASE k = Len(t) BY <3>2, <3>3, <3>4, <1>1
    <3>5. CASE k # Len(t)
      <4>1. t[k + 1] = s[k] BY <3>5, <2>4, <1>0, <1>1, <1>2
      <4>2. k - 1 # Len(s) BY <3>5, <1>1
      <4> QED BY <3>2, <3>3, <3>5, <4>1, <4>2
    <3> QED BY <3>4, <3>5
  <2> QED BY <2>1, <2>2, <2>3, <2>4, <1>1
<1>8. Len(t) # 0 BY <1>0, <1>1
<1>9. List(M, t, IF i = 0 THEN x ELSE h)
  BY <1>1, <1>5, <1>6, <1>7, <1>8 DEF List
<1> QED BY <1>9 DEF t

(* Linking a cell out.                                                       *)
LEMMA ListRemoved ==
  ASSUME NEW N, NEW M, NEW s, NEW h, List(N, s, h),
         NEW i \in 1 .. Len(s),
         i > 1 => M[s[i - 1]] = N[s[i]],
         \A k \in 1 .. Len(s) : k # i /\ k # i - 1 => M[s[k]] = N[s[k]]
  PROVE  List(M, Removed(s, i), IF i = 1 THEN N[s[i]] ELSE h)
<1> DEFINE t == Removed(s, i)
<1>0. s \in Seq(Cell) BY DEF List
<1>4. \A j, k \in 1 .. Len(s) : s[j] = s[k] => j = k BY DEF List
<1>1. t \in Seq(Cell) /\ Len(t) = Len(s) - 1 BY <1>0, <1>4, RemovedType
<1>2. \A k \in 1 .. Len(s) - 1 : t[k] = IF k < i THEN s[k] ELSE s[k + 1]
  BY <1>0, <1>4, RemovedType
<1> HIDE DEF t
<1>3. \A k \in 1 .. Len(s) : N[s[k]] = IF k = Len(s) THEN Null ELSE s[k + 1]
  BY DEF List
<1>5. \A j, k \in 1 .. Len(t) : t[j] = t[k] => j = k
  BY <1>0, <1>1, <1>2, <1>4
<1>6. (IF i = 1 THEN N[s[i]] ELSE h) = IF Len(t) = 0 THEN Null ELSE t[1]
  <2>1. CASE i = 1
    <3>1. CASE Len(s) = 1 BY <2>1, <3>1, <1>1, <1>3
    <3>2. CASE Len(s) > 1
      <4>1. t[1] = s[2] BY <2>1, <3>2, <1>0, <1>2
      <4>2. N[s[1]] = s[1 + 1] BY <2>1, <3>2, <1>3
      <4> QED BY <2>1, <3>2, <4>1, <4>2, <1>1
    <3>3. Len(s) = 1 \/ Len(s) > 1
      <4>1. PICK n \in Nat : n = Len(s) BY <1>0
      <4>2. 1 <= n BY <4>1, <2>1
      <4>3. n = 1 \/ n > 1 BY ONLY <4>2, n \in Nat
      <4> QED BY ONLY <4>1, <4>3
    <3> QED BY <3>1, <3>2, <3>3
  <2>2. CASE i > 1
    <3>1. t[1] = s[1] /\ Len(t) # 0 BY <2>2, <1>0, <1>1, <1>2
    <3>2. h = s[1] BY <2>2, <1>0 DEF List
    <3> QED BY <2>2, <3>1, <3>2
  <2> QED BY <2>1, <2>2, <1>0
<1>7. ASSUME NEW k \in 1 .. Len(t)
      PROVE  M[t[k]] = IF k = Len(t) THEN Null ELSE t[k + 1]
  <2>1. CASE k < i - 1
    <3>1. t[k] = s[k] /\ t[k + 1] = s[k + 1] /\ k \in 1 .. Len(s)
          /\ k # Len(s) /\ k # Len(t)
      <4>1. PICK n \in Nat : n = Len(s) BY <1>0
      <4>2. Len(t) = n - 1 BY <1>1, <4>1
      <4>3. k \in 1 .. n - 1 /\ i \in 1 .. n BY <4>1, <4>2
      <4>4. /\ k \in 1 .. n /\ k # n /\ k # n - 1 /\ k < i
            /\ k + 1 \in 1 .. n - 1 /\ k + 1 < i
        BY ONLY <4>3, <2>1, n \in Nat
      <4>5. t[k] = s[k] BY <1>2, <4>1, <4>3, <4>4
      <4>6. t[k + 1] = s[k + 1] BY <1>2, <4>1, <4>4
      <4> QED BY ONLY <4>1, <4>2, <4>4, <4>5, <4>6
    <3>2. M[s[k]] = N[s[k]]
      <4>1. PICK m \in 1 .. Len(s) : m = k BY <3>1
      <4>2. i \in Int /\ m \in Int /\ m < i - 1 BY <1>0, <2>1, <4>1
      <4>3. m # i /\ m # i - 1 BY ONLY <4>2
      <4>4. M[s[m]] = N[s[m]] BY <4>3
      <4> QED BY <4>1, <4>4
    <3> QED BY <3>1, <3>2, <1>3
  <2>2. CASE k = i - 1
    <3>1. t[k] = s[k] /\ M[s[k]] = N[s[i]] BY <2>2, <1>0, <1>1, <1>2
    <3>2. CASE i = Len(s) BY <2>2, <3>1, <3>2, <1>1, <1>3
    <3>3. CASE i # Len(s)
      <4>1. t[k + 1] = s[i + 1] /\ k # Len(t) BY <2>2, <3>3, <1>0, <1>1, <1>2
      <4> QED BY <3>1, <3>3, <4>1, <1>3
    <3> QED BY <3>2, <3>3
  <2>3. CASE k > i - 1
    <3>1. t[k] = s[k + 1] /\ k + 1 \in 1 .. Len(s) /\ k + 1 # i /\ k + 1 # i - 1
      BY <2>3, <1>0, <1>1, <1>2
    <3>2. M[t[k]] = N[s[k + 1]] BY <3>1
    <3>3. CASE k = Len(t)
      <4>1. k + 1 = Len(s) BY <3>3, <1>0, <1>1
      <4> QED BY <3>1, <3>2, <3>3, <4>1, <1>3
    <3>4. CASE k # Len(t)
      <4>1. t[k + 1] = s[k + 1 + 1] /\ k + 1 # Len(s)
        BY <2>3, <3>4, <1>0, <1>1, <1>2
      <4> QED BY <3>1, <3>2, <3>4, <4>1, <1>3
    <3> QED BY <3>3, <3>4
  <2> QED BY <2>1, <2>2, <2>3, <1>0, <1>1
<1>9. List(M, t, IF i = 1 THEN N[s[i]] ELSE h)
  BY <1>1, <1>5, <1>6, <1>7 DEF List
<1> QED BY <1>9 DEF t

-----------------------------------------------------------------------------
(* Follow returns the cells of a list.                                       *)

(* The body of the recursive function of Follow.                             *)
Follow_Body(N, f, n) ==
  [c \in Handle |-> IF n = 0 \/ c = Null THEN << >> ELSE <<c>> \o f[n - 1][N[c]]]

Followed(N, f, m) == f = [n \in 0 .. m |-> Follow_Body(N, f, n)]

LEMMA FollowExists ==
  ASSUME NEW N, NEW m \in Nat
  PROVE  \E f : Followed(N, f, m)
<1> DEFINE T == {k \in Nat : \E f : Followed(N, f, k)}
<1>1. 0 \in T
  <2> DEFINE g == [n \in 0 .. 0 |-> [c \in Handle |-> << >>]]
  <2>1. \A n \in 0 .. 0 : g[n] = Follow_Body(N, g, n) BY DEF Follow_Body
  <2>2. g = [n \in 0 .. 0 |-> g[n]] OBVIOUS
  <2> HIDE DEF g
  <2>3. Followed(N, g, 0) BY <2>1, <2>2 DEF Followed
  <2> QED BY <2>3
<1>2. ASSUME NEW k \in T PROVE k + 1 \in T
  <2>1. PICK f : Followed(N, f, k) BY <1>2
  <2> DEFINE g == [n \in 0 .. k + 1 |-> IF n <= k THEN f[n] ELSE Follow_Body(N, f, n)]
  <2>2. \A n \in 0 .. k : f[n] = Follow_Body(N, f, n) BY <2>1 DEF Followed
  <2>3. \A n \in 0 .. k + 1 : g[n] = Follow_Body(N, f, n) BY <2>2
  <2>4. \A n \in 0 .. k : g[n] = f[n] BY <1>2
  <2>5. g = [n \in 0 .. k + 1 |-> g[n]] OBVIOUS
  <2> HIDE DEF g
  <2>6. ASSUME NEW n \in 0 .. k + 1 PROVE Follow_Body(N, f, n) = Follow_Body(N, g, n)
    <3>1. CASE n = 0 BY <3>1 DEF Follow_Body
    <3>2. CASE n # 0
      <4>1. n - 1 \in 0 .. k BY <3>2, <1>2
      <4>2. g[n - 1] = f[n - 1] BY <2>4, <4>1
      <4> QED BY <4>2 DEF Follow_Body
    <3> QED BY <3>1, <3>2
  <2>7. \A n \in 0 .. k + 1 : g[n] = Follow_Body(N, g, n) BY <2>3, <2>6
  <2>8. Followed(N, g, k + 1) BY <2>5, <2>7 DEF Followed
  <2> QED BY <2>8, <1>2
<1> HIDE DEF T
<1>3. Nat \subseteq T BY <1>1, <1>2, SetInduction DEF T
<1> QED BY <1>3 DEF T

LEMMA FollowList ==
  ASSUME NEW N, NEW s, NEW h, List(N, s, h), Len(s) <= Max_Cells
  PROVE  Follow(N, h) = s
<1> DEFINE F == CHOOSE f : Followed(N, f, Max_Cells + 1)
<1> DEFINE cell(i) == IF i <= Len(s) THEN s[i] ELSE Null
<1>0. s \in Seq(Cell) /\ Len(s) \in Nat BY DEF List
<1>1. Max_Cells + 1 \in Nat BY CallbackAssumption
<1>2. Follow(N, h) = F[Max_Cells + 1][h] BY DEF Follow, Followed, Follow_Body
<1>3. Followed(N, F, Max_Cells + 1) BY <1>1, FollowExists
<1> HIDE DEF F
<1>4. ASSUME NEW n \in 0 .. Max_Cells + 1, NEW c \in Handle
      PROVE  F[n][c] = IF n = 0 \/ c = Null THEN << >> ELSE <<c>> \o F[n - 1][N[c]]
  <2>1. F[n] = Follow_Body(N, F, n) BY <1>3 DEF Followed
  <2> QED BY <2>1 DEF Follow_Body
<1> DEFINE T == {n \in Nat : n <= Max_Cells + 1 =>
                   \A i \in 1 .. Len(s) + 1 : Len(s) - i < n =>
                     F[n][cell(i)] = SubSeq(s, i, Len(s))}
<1>5. ASSUME NEW i \in 1 .. Len(s) PROVE s[i] \in Cell /\ s[i] \in Handle /\ s[i] # Null
  <2>1. s[i] \in Cell BY <1>0
  <2> QED BY <2>1, CallbackAssumption DEF Cell, Handle, Null
<1>6. SubSeq(s, Len(s) + 1, Len(s)) = << >> BY <1>0, SubSeqEmpty, Len(s) + 1 \in Int
<1>7. Null \in Handle BY DEF Handle
<1>8. 0 \in T
  <2> SUFFICES ASSUME NEW i \in 1 .. Len(s) + 1, Len(s) - i < 0, 0 <= Max_Cells + 1
               PROVE  F[0][cell(i)] = SubSeq(s, i, Len(s))
    OBVIOUS
  <2>1. i = Len(s) + 1 BY <1>0
  <2>2. cell(i) = Null BY <2>1, <1>0
  <2>3. 0 \in 0 .. Max_Cells + 1 BY <1>1
  <2>4. F[0][Null] = << >> BY <1>4, <1>7, <2>3
  <2> QED BY <2>1, <2>2, <2>4, <1>6
<1>9. ASSUME NEW n \in T PROVE n + 1 \in T
  <2> SUFFICES ASSUME n + 1 <= Max_Cells + 1,
                      NEW i \in 1 .. Len(s) + 1, Len(s) - i < n + 1
               PROVE  F[n + 1][cell(i)] = SubSeq(s, i, Len(s))
    OBVIOUS
  <2>0. n \in Nat /\ n + 1 \in 0 .. Max_Cells + 1 BY <1>1
  <2>1. CASE i = Len(s) + 1
    <3>1. cell(i) = Null BY <2>1, <1>0
    <3>2. F[n + 1][Null] = << >> BY <1>4, <1>7, <2>0
    <3> QED BY <3>1, <3>2, <2>1, <1>6
  <2>2. CASE i # Len(s) + 1
    <3>1. i \in 1 .. Len(s) /\ cell(i) = s[i] BY <2>2, <1>0
    <3>2. N[s[i]] = cell(i + 1) BY <3>1, <1>0 DEF List
    <3>3. n + 1 # 0 /\ n + 1 - 1 = n BY <2>0
    <3>4. F[n + 1][s[i]] = <<s[i]>> \o F[n][cell(i + 1)]
      <4>1. s[i] \in Handle /\ s[i] # Null BY <3>1, <1>5
      <4>2. F[n + 1][s[i]] = <<s[i]>> \o F[n + 1 - 1][N[s[i]]]
        <5>1. PICK m \in 0 .. Max_Cells + 1 : m = n + 1 BY <2>0
        <5>2. PICK c \in Handle : c = s[i] BY <4>1
        <5>3. m # 0 /\ c # Null BY <4>1, <3>3, <5>1, <5>2
        <5> HIDE DEF T, cell
        <5>4. F[m][c] = <<c>> \o F[m - 1][N[c]] BY <5>3, <1>4
        <5>5. m - 1 = n + 1 - 1 BY <5>1, <2>0
        <5> QED BY <5>1, <5>2, <5>4, <5>5
      <4> HIDE DEF cell
      <4> QED BY <4>2, <3>2, <3>3
    <3>5. F[n][cell(i + 1)] = SubSeq(s, i + 1, Len(s))
      <4>1. i + 1 \in 1 .. Len(s) + 1 /\ Len(s) - (i + 1) < n
        <5>1. Len(s) - i < n + 1 OBVIOUS
        <5> HIDE DEF T, cell
        <5> QED BY <5>1, <3>1, <2>0, <1>0
      <4>2. n <= Max_Cells + 1 BY <2>0, CallbackAssumption
      <4> QED BY <4>1, <4>2
    <3>6. SubSeq(s, i, Len(s)) = <<s[i]>> \o SubSeq(s, i + 1, Len(s))
      <4>1. Len(s) \in i .. Len(s) BY <3>1, <1>0
      <4> QED BY <3>1, <4>1, <1>0, SubSeqRecursiveFirst
    <3> QED BY <3>1, <3>4, <3>5, <3>6
  <2> QED BY <2>1, <2>2
<1>10. Max_Cells + 1 \in T
  <2>1. T \subseteq Nat OBVIOUS
  <2> HIDE DEF T
  <2> QED BY <1>1, <1>8, <1>9, <2>1, SetInduction
<1>11. F[Max_Cells + 1][cell(1)] = SubSeq(s, 1, Len(s))
  <2>1. 1 \in 1 .. Len(s) + 1 /\ Len(s) - 1 < Max_Cells + 1
    BY <1>0, CallbackAssumption
  <2> QED BY <1>10, <2>1, <1>1
<1>12. h = cell(1) BY <1>0 DEF List
<1>13. SubSeq(s, 1, Len(s)) = s BY <1>0, SubSeqFull
<1> QED BY <1>2, <1>11, <1>12, <1>13

-----------------------------------------------------------------------------
(* Two lists in use, A and B, and the recycled cells R: no cell is on two of *)
(* them, and they have all the cells 1 .. n that were ever allocated.        *)
Heap(N, n, A, a, B, b, R, r) ==
  /\ List(N, A, a) /\ List(N, B, b) /\ List(N, R, r)
  /\ Elems(A) \cap Elems(B) = {}
  /\ Elems(R) \cap (Elems(A) \cup Elems(B)) = {}
  /\ Elems(A) \cup Elems(B) \cup Elems(R) = 1 .. n
  /\ Len(A) + Len(B) + Len(R) = n

LEMMA HeapSwap ==
  ASSUME NEW N, NEW n, NEW A, NEW a, NEW B, NEW b, NEW R, NEW r,
         Heap(N, n, A, a, B, b, R, r)
  PROVE  Heap(N, n, B, b, A, a, R, r)
<1>1. A \in Seq(Cell) /\ B \in Seq(Cell) /\ R \in Seq(Cell) BY DEF Heap, List
<1>2. Len(B) + Len(A) + Len(R) = n BY <1>1 DEF Heap
<1> QED BY <1>2 DEF Heap

LEMMA ListCells ==
  ASSUME NEW N, NEW s, NEW h, List(N, s, h)
  PROVE  /\ s \in Seq(Cell) /\ Len(s) \in Nat
         /\ Elems(s) \subseteq Cell
         /\ h = Null <=> Len(s) = 0
         /\ h # Null => 1 \in 1 .. Len(s) /\ s[1] = h /\ h \in Elems(s)
         /\ h \in Handle
         /\ \A x \in Elems(s) : N[x] \in Handle
<1>1. s \in Seq(Cell) /\ Len(s) \in Nat BY DEF List
<1>2. ASSUME NEW i \in 1 .. Len(s) PROVE s[i] \in Cell /\ s[i] # Null
  <2>1. s[i] \in Cell BY <1>1
  <2> QED BY <2>1, CallbackAssumption DEF Cell, Null
<1>3. Elems(s) \subseteq Cell BY <1>2 DEF Elems
<1>4. CASE Len(s) = 0
  <2>1. h = Null /\ Elems(s) = {} BY <1>4 DEF List, Elems
  <2> QED BY <1>1, <1>4, <2>1 DEF Handle
<1>5. CASE Len(s) # 0
  <2>1. 1 \in 1 .. Len(s) BY <1>1, <1>5
  <2>2. h = s[1] BY <1>5 DEF List
  <2>3. h # Null /\ h \in Elems(s) /\ h \in Cell BY <2>1, <2>2, <1>2 DEF Elems
  <2>4. ASSUME NEW i \in 1 .. Len(s) PROVE N[s[i]] \in Handle
    <3>1. i # Len(s) => i + 1 \in 1 .. Len(s) BY <1>1
    <3> QED BY <3>1, <1>2 DEF List, Handle
  <2>5. \A x \in Elems(s) : N[x] \in Handle BY <2>4 DEF Elems
  <2> QED BY <1>1, <1>3, <1>5, <2>1, <2>2, <2>3, <2>5 DEF Handle
<1> QED BY <1>4, <1>5

(* A new or recycled cell x is linked into A behind its i-th cell, prev.     *)
Inserting(N, M, n, A, a, B, b, R, r, i, x, prev) ==
  /\ n \in 0 .. Max_Cells /\ Heap(N, n, A, a, B, b, R, r)
  /\ i \in 0 .. Len(A)
  /\ x \in Cell /\ x = IF r = Null THEN n + 1 ELSE r
  /\ prev = IF i = 0 THEN Null ELSE A[i]
  /\ M = [y \in Cell |-> IF y = x THEN IF i = Len(A) THEN Null ELSE A[i + 1]
                         ELSE IF y = prev THEN x ELSE N[y]]

LEMMA HeapInsert ==
  ASSUME NEW N, NEW M, NEW n,
         NEW A, NEW a, NEW B, NEW b, NEW R, NEW r, NEW i, NEW x, NEW prev,
         Inserting(N, M, n, A, a, B, b, R, r, i, x, prev)
  PROVE  /\ x \notin Elems(A) /\ x \notin Elems(B)
         /\ Heap(M, IF r = Null THEN x ELSE n,
                 Inserted(A, i, x), IF i = 0 THEN x ELSE a, B, b,
                 IF r = Null THEN R ELSE Removed(R, 1), IF r = Null THEN Null ELSE N[r])
<1> DEFINE next == IF i = Len(A) THEN Null ELSE A[i + 1]
<1>a. /\ n \in 0 .. Max_Cells /\ Heap(N, n, A, a, B, b, R, r)
      /\ i \in 0 .. Len(A)
      /\ x \in Cell /\ x = IF r = Null THEN n + 1 ELSE r
      /\ prev = IF i = 0 THEN Null ELSE A[i]
      /\ M = [y \in Cell |-> IF y = x THEN next ELSE IF y = prev THEN x ELSE N[y]]
  BY DEF Inserting
<1> USE <1>a
<1> HIDE DEF next
<1>0. List(N, A, a) /\ List(N, B, b) /\ List(N, R, r) BY DEF Heap
<1>1. /\ A \in Seq(Cell) /\ Len(A) \in Nat /\ Elems(A) \subseteq Cell
      /\ B \in Seq(Cell) /\ Len(B) \in Nat /\ Elems(B) \subseteq Cell
      /\ R \in Seq(Cell) /\ Len(R) \in Nat /\ Elems(R) \subseteq Cell
  BY <1>0, ListCells
<1>2. x \notin Elems(A) /\ x \notin Elems(B)
  <2>1. CASE r = Null
    <3>1. x \notin 1 .. n BY <2>1
    <3> QED BY <3>1 DEF Heap
  <2>2. CASE r # Null
    <3>1. x \in Elems(R) BY <2>2, <1>0, ListCells
    <3> QED BY <3>1 DEF Heap
  <2> QED BY <2>1, <2>2
<1>3. i > 0 => i \in 1 .. Len(A) /\ prev = A[i] /\ prev \in Elems(A) /\ prev \in Cell
  BY <1>1 DEF Elems
<1>4. prev \notin Elems(B) /\ prev \notin Elems(R)
  <2>1. CASE i = 0
    <3>1. Null \notin Cell BY CallbackAssumption DEF Null, Cell
    <3> QED BY <2>1, <3>1, <1>1
  <2>2. CASE i > 0 BY <2>2, <1>3 DEF Heap
  <2> QED BY <2>1, <2>2, <1>1
<1>5. \A y \in Cell : y # x /\ y # prev => M[y] = N[y] OBVIOUS
<1>6. M[x] = next OBVIOUS
<1>7. i > 0 => M[A[i]] = x
  <2> SUFFICES ASSUME i > 0 PROVE M[A[i]] = x OBVIOUS
  <2>1. prev # x BY <1>2, <1>3
  <2> QED BY <2>1, <1>3
<1>8. ASSUME NEW k \in 1 .. Len(A), k # i PROVE M[A[k]] = N[A[k]]
  <2>1. A[k] \in Elems(A) /\ A[k] \in Cell BY <1>1 DEF Elems
  <2>2. A[k] # prev
    <3>1. CASE i = 0
      <4>1. Null \notin Cell BY CallbackAssumption DEF Null, Cell
      <4> QED BY <3>1, <4>1, <2>1
    <3>2. CASE i > 0 BY <3>2, <1>0, <1>3, <1>8 DEF List
    <3> QED BY <3>1, <3>2, <1>1
  <2> QED BY <2>1, <2>2, <1>2, <1>5
<1>9. List(M, Inserted(A, i, x), IF i = 0 THEN x ELSE a)
  BY <1>0, <1>2, <1>6, <1>7, <1>8, ListInserted DEF next
<1>10. List(M, B, b)
  <2>1. \A y \in Elems(B) : M[y] = N[y] BY <1>1, <1>2, <1>4, <1>5
  <2> QED BY <2>1, <1>0, ListKept
<1>11. /\ Elems(Inserted(A, i, x)) = Elems(A) \cup {x}
       /\ Len(Inserted(A, i, x)) = Len(A) + 1
  BY <1>1, InsertedType
<1>12. CASE r = Null
  <2>1. Len(R) = 0 /\ Elems(R) = {} BY <1>12, <1>0, ListCells DEF Elems
  <2>2. List(M, R, Null)
    <3>1. List(M, R, r) BY <2>1, <1>0, ListKept
    <3> QED BY <3>1, <1>12
  <2>3. Elems(A) \cup {x} \cup Elems(B) \cup Elems(R) = 1 .. x
    <3>1. x = n + 1 /\ Elems(A) \cup Elems(B) \cup Elems(R) = 1 .. n
      BY <1>12 DEF Heap
    <3>2. 1 .. n + 1 = (1 .. n) \cup {n + 1} OBVIOUS
    <3> QED BY <3>1, <3>2
  <2>4. Len(A) + 1 + Len(B) + Len(R) = x
    <3>1. x = n + 1 /\ Len(A) + Len(B) + Len(R) = n BY <1>12 DEF Heap
    <3> QED BY <3>1, <1>1
  <2>5. Elems(A) \cap Elems(B) = {} BY DEF Heap
  <2>6. Heap(M, x, Inserted(A, i, x), IF i = 0 THEN x ELSE a, B, b, R, Null)
    BY <1>2, <1>9, <1>10, <1>11, <2>1, <2>2, <2>3, <2>4, <2>5 DEF Heap
  <2> QED BY <1>2, <1>12, <2>6
<1>13. CASE r # Null
  <2>1. 1 \in 1 .. Len(R) /\ R[1] = r /\ x = r BY <1>13, <1>0, ListCells
  <2>2. \A j, k \in 1 .. Len(R) : R[j] = R[k] => j = k BY <1>0 DEF List
  <2>3. /\ Len(Removed(R, 1)) = Len(R) - 1
        /\ Elems(Removed(R, 1)) = Elems(R) \ {x}
    BY <1>1, <2>1, <2>2, RemovedType
  <2>4. List(M, Removed(R, 1), N[r])
    <3>1. \A k \in 1 .. Len(R) : k # 1 => M[R[k]] = N[R[k]]
      <4> SUFFICES ASSUME NEW k \in 1 .. Len(R), k # 1 PROVE M[R[k]] = N[R[k]]
        OBVIOUS
      <4>1. R[k] \in Elems(R) /\ R[k] # x BY <2>1, <2>2 DEF Elems
      <4> QED BY <4>1, <1>1, <1>4, <1>5
    <3>2. PICK k \in 1 .. Len(R) : k = 1 BY <2>1
    <3>3. k > 1 => M[R[k - 1]] = N[R[k]] BY <3>2
    <3>4. \A j \in 1 .. Len(R) : j # k /\ j # k - 1 => M[R[j]] = N[R[j]]
      BY <3>1, <3>2
    <3>5. List(M, Removed(R, k), IF k = 1 THEN N[R[k]] ELSE r)
      BY <1>0, <3>3, <3>4, ListRemoved
    <3>6. (IF k = 1 THEN N[R[k]] ELSE r) = N[r] BY <2>1, <3>2
    <3> QED BY <3>2, <3>5, <3>6
  <2>5. x \in Elems(R) BY <2>1 DEF Elems
  <2>6. /\ Elems(A) \cup Elems(B) \cup Elems(R) = 1 .. n
        /\ Len(A) + Len(B) + Len(R) = n
        /\ Elems(A) \cap Elems(B) = {}
        /\ Elems(R) \cap (Elems(A) \cup Elems(B)) = {}
    BY DEF Heap
  <2>7. Len(A) + 1 + Len(B) + (Len(R) - 1) = n
    <3>1. Len(A) \in Nat /\ Len(B) \in Nat /\ Len(R) \in Nat BY <1>1
    <3>2. \A j, k, l \in Nat : j + 1 + k + (l - 1) = j + k + l OBVIOUS
    <3>3. Len(A) + 1 + Len(B) + (Len(R) - 1) = Len(A) + Len(B) + Len(R)
      BY <3>1, <3>2
    <3> QED BY <3>3, <2>6
  <2>8. (Elems(A) \cup {x}) \cup Elems(B) \cup (Elems(R) \ {x}) = 1 .. n
    BY <2>5, <2>6
  <2>9. /\ (Elems(A) \cup {x}) \cap Elems(B) = {}
        /\ (Elems(R) \ {x}) \cap (Elems(A) \cup {x} \cup Elems(B)) = {}
    BY <1>2, <2>6
  <2>10. Heap(M, n, Inserted(A, i, x), IF i = 0 THEN x ELSE a, B, b,
              Removed(R, 1), N[r])
    <3>1. PICK A2 : A2 = Inserted(A, i, x) OBVIOUS
    <3>2. PICK R2 : R2 = Removed(R, 1) OBVIOUS
    <3>3. PICK a2 : a2 = IF i = 0 THEN x ELSE a OBVIOUS
    <3>4. List(M, A2, a2) /\ List(M, R2, N[r]) BY <1>9, <2>4, <3>1, <3>2, <3>3
    <3>5. /\ Elems(A2) = Elems(A) \cup {x} /\ Len(A2) = Len(A) + 1
          /\ Elems(R2) = Elems(R) \ {x} /\ Len(R2) = Len(R) - 1
      BY <1>11, <2>3, <3>1, <3>2
    <3>6. Heap(M, n, A2, a2, B, b, R2, N[r])
      BY <1>10, <2>7, <2>8, <2>9, <3>4, <3>5 DEF Heap
    <3> QED BY <3>1, <3>2, <3>3, <3>6
  <2> QED BY <1>2, <1>13, <2>10
<1> QED BY <1>12, <1>13

(* The i-th cell of A, x, behind prev, is linked out of A and recycled.      *)
Removing(N, M, n, A, a, B, b, R, r, i, x, prev, next) ==
  /\ n \in 0 .. Max_Cells /\ Heap(N, n, A, a, B, b, R, r)
  /\ i \in 1 .. Len(A) /\ x = A[i]
  /\ prev = IF i = 1 THEN Null ELSE A[i - 1]
  /\ i > 1 => next = N[x]
  /\ M = [y \in Cell |-> IF y = x THEN r ELSE IF y = prev THEN next ELSE N[y]]

LEMMA HeapRemove ==
  ASSUME NEW N, NEW M, NEW n, NEW A, NEW a, NEW B, NEW b, NEW R, NEW r,
         NEW i, NEW x, NEW prev, NEW next,
         Removing(N, M, n, A, a, B, b, R, r, i, x, prev, next)
  PROVE  Heap(M, n, Removed(A, i), IF i = 1 THEN N[x] ELSE a, B, b, Inserted(R, 0, x), x)
<1>a. /\ n \in 0 .. Max_Cells /\ Heap(N, n, A, a, B, b, R, r)
      /\ i \in 1 .. Len(A) /\ x = A[i]
      /\ prev = IF i = 1 THEN Null ELSE A[i - 1]
      /\ i > 1 => next = N[x]
      /\ M = [y \in Cell |-> IF y = x THEN r ELSE IF y = prev THEN next ELSE N[y]]
  BY DEF Removing
<1> USE <1>a
<1>0. List(N, A, a) /\ List(N, B, b) /\ List(N, R, r) BY DEF Heap
<1>1. /\ A \in Seq(Cell) /\ Len(A) \in Nat /\ Elems(A) \subseteq Cell
      /\ B \in Seq(Cell) /\ Len(B) \in Nat /\ Elems(B) \subseteq Cell
      /\ R \in Seq(Cell) /\ Len(R) \in Nat /\ Elems(R) \subseteq Cell
  BY <1>0, ListCells
<1>2. \A j, k \in 1 .. Len(A) : A[j] = A[k] => j = k BY <1>0 DEF List
<1>3. x \in Elems(A) /\ x \in Cell BY <1>1 DEF Elems
<1>4. x \notin Elems(B) /\ x \notin Elems(R) BY <1>3 DEF Heap
<1>5. i > 1 => /\ i - 1 \in 1 .. Len(A) /\ prev = A[i - 1]
               /\ prev \in Elems(A) /\ prev \in Cell /\ prev # x
  <2> SUFFICES ASSUME i > 1
               PROVE  /\ i - 1 \in 1 .. Len(A) /\ prev = A[i - 1]
                      /\ prev \in Elems(A) /\ prev \in Cell /\ prev # x
    OBVIOUS
  <2>1. i - 1 \in 1 .. Len(A) /\ prev = A[i - 1] BY <1>1
  <2>2. prev \in Elems(A) BY <2>1 DEF Elems
  <2>3. A[i - 1] # A[i] BY <2>1, <1>1, <1>2
  <2> QED BY <2>1, <2>2, <2>3, <1>1
<1>6. prev \notin Elems(B) /\ prev \notin Elems(R)
  <2>1. CASE i = 1
    <3>1. Null \notin Cell BY CallbackAssumption DEF Null, Cell
    <3> QED BY <2>1, <3>1, <1>1
  <2>2. CASE i > 1 BY <2>2, <1>5 DEF Heap
  <2> QED BY <2>1, <2>2, <1>1
<1>7. \A y \in Cell : y # x /\ y # prev => M[y] = N[y] OBVIOUS
<1>8. M[x] = r BY <1>3
<1>9. i > 1 => M[A[i - 1]] = N[A[i]] BY <1>5
<1>10. ASSUME NEW k \in 1 .. Len(A), k # i, k # i - 1 PROVE M[A[k]] = N[A[k]]
  <2>1. A[k] \in Elems(A) /\ A[k] \in Cell BY <1>1 DEF Elems
  <2>2. A[k] # x BY <1>2, <1>10
  <2>3. A[k] # prev
    <3>1. CASE i = 1
      <4>1. Null \notin Cell BY CallbackAssumption DEF Null, Cell
      <4> QED BY <3>1, <4>1, <2>1
    <3>2. CASE i > 1 BY <3>2, <1>2, <1>5, <1>10
    <3> QED BY <3>1, <3>2, <1>1
  <2> QED BY <2>1, <2>2, <2>3, <1>7
<1>11. List(M, Removed(A, i), IF i = 1 THEN N[A[i]] ELSE a)
  BY <1>0, <1>9, <1>10, ListRemoved
<1>12. List(M, B, b)
  <2>1. \A y \in Elems(B) : M[y] = N[y] BY <1>1, <1>4, <1>6, <1>7
  <2> QED BY <2>1, <1>0, ListKept
<1>13. List(M, Inserted(R, 0, x), x)
  <2>1. r = IF 0 = Len(R) THEN Null ELSE R[0 + 1] BY <1>0 DEF List
  <2>2. \A k \in 1 .. Len(R) : M[R[k]] = N[R[k]]
    <3> SUFFICES ASSUME NEW k \in 1 .. Len(R) PROVE M[R[k]] = N[R[k]]
      OBVIOUS
    <3>1. R[k] \in Elems(R) BY DEF Elems
    <3> QED BY <3>1, <1>1, <1>4, <1>6, <1>7
  <2>3. PICK k \in 0 .. Len(R) : k = 0 BY <1>1
  <2>4. M[x] = IF k = Len(R) THEN Null ELSE R[k + 1] BY <2>1, <2>3, <1>8
  <2>5. List(M, Inserted(R, k, x), IF k = 0 THEN x ELSE r)
    <3>1. k > 0 => M[R[k]] = x BY <2>3
    <3>2. \A j \in 1 .. Len(R) : j # k => M[R[j]] = N[R[j]] BY <2>2
    <3>3. x \in Cell /\ x \notin Elems(R) BY <1>3, <1>4
    <3> QED BY ONLY <1>0, <2>4, <3>1, <3>2, <3>3, k \in 0 .. Len(R), ListInserted
  <2>6. (IF k = 0 THEN x ELSE r) = x BY <2>3
  <2> QED BY <2>3, <2>5, <2>6
<1>14. /\ Elems(Removed(A, i)) = Elems(A) \ {x}
       /\ Len(Removed(A, i)) = Len(A) - 1
  BY <1>1, <1>2, RemovedType
<1>15. /\ Elems(Inserted(R, 0, x)) = Elems(R) \cup {x}
       /\ Len(Inserted(R, 0, x)) = Len(R) + 1
  <2>1. PICK k \in 0 .. Len(R) : k = 0 BY <1>1
  <2>2. /\ Elems(Inserted(R, k, x)) = Elems(R) \cup {x}
        /\ Len(Inserted(R, k, x)) = Len(R) + 1
    <3>1. R \in Seq(Cell) /\ x \in Cell BY <1>1, <1>3
    <3> QED BY ONLY <3>1, k \in 0 .. Len(R), InsertedType
  <2> QED BY <2>1, <2>2
<1>16. PICK A2 : A2 = Removed(A, i) OBVIOUS
<1>17. PICK R2 : R2 = Inserted(R, 0, x) OBVIOUS
<1>18. PICK a2 : a2 = IF i = 1 THEN N[x] ELSE a OBVIOUS
<1>19. List(M, A2, a2) /\ List(M, R2, x)
  <2>1. a2 = IF i = 1 THEN N[A[i]] ELSE a BY <1>18
  <2> QED BY <1>11, <1>13, <1>16, <1>17, <2>1
<1>20. /\ Elems(A2) = Elems(A) \ {x} /\ Len(A2) = Len(A) - 1
       /\ Elems(R2) = Elems(R) \cup {x} /\ Len(R2) = Len(R) + 1
  BY <1>14, <1>15, <1>16, <1>17
<1>21. /\ Elems(A) \cup Elems(B) \cup Elems(R) = 1 .. n
       /\ Len(A) + Len(B) + Len(R) = n
       /\ Elems(A) \cap Elems(B) = {}
       /\ Elems(R) \cap (Elems(A) \cup Elems(B)) = {}
  BY DEF Heap
<1>22. (Len(A) - 1) + Len(B) + (Len(R) + 1) = n
  <2>1. Len(A) \in Nat /\ Len(B) \in Nat /\ Len(R) \in Nat BY <1>1
  <2>2. \A j, k, l \in Nat : (j - 1) + k + (l + 1) = j + k + l OBVIOUS
  <2>3. (Len(A) - 1) + Len(B) + (Len(R) + 1) = Len(A) + Len(B) + Len(R)
    BY <2>1, <2>2
  <2> QED BY <2>3, <1>21
<1>23. (Elems(A) \ {x}) \cup Elems(B) \cup (Elems(R) \cup {x}) = 1 .. n
  BY <1>3, <1>21
<1>24. /\ (Elems(A) \ {x}) \cap Elems(B) = {}
       /\ (Elems(R) \cup {x}) \cap ((Elems(A) \ {x}) \cup Elems(B)) = {}
  BY <1>4, <1>21
<1>25. Heap(M, n, A2, a2, B, b, R2, x)
  BY <1>12, <1>19, <1>20, <1>22, <1>23, <1>24 DEF Heap
<1> HIDE DEF Heap
<1> QED BY <1>16, <1>17, <1>18, <1>25

(* The heap determines what Follow returns.                                  *)
LEMMA HeapFollow ==
  ASSUME NEW N, NEW n \in 0 .. Max_Cells,
         NEW A, NEW a, NEW B, NEW b, NEW R, NEW r,
         Heap(N, n, A, a, B, b, R, r)
  PROVE  Follow(N, a) = A /\ Follow(N, b) = B /\ Follow(N, r) = R
<1>1. List(N, A, a) /\ List(N, B, b) /\ List(N, R, r) BY DEF Heap
<1>2. Len(A) \in Nat /\ Len(B) \in Nat /\ Len(R) \in Nat BY <1>1, ListCells
<1>3. Len(A) + Len(B) + Len(R) = n /\ n \in Nat /\ n <= Max_Cells
  BY CallbackAssumption DEF Heap
<1>4. Len(A) <= Max_Cells /\ Len(B) <= Max_Cells /\ Len(R) <= Max_Cells
  BY <1>2, <1>3, CallbackAssumption
<1> QED BY <1>1, <1>4, FollowList

-----------------------------------------------------------------------------
(* The inductive invariant.                                                  *)

(* The two lists and the recycled cells are the heap.                        *)
Lists ==
  Heap(Next_Cell, allocated, Chain(First), First, Chain(Time_First), Time_First,
       Chain(Recycled_Handles), Recycled_Handles)

(* Timed cells are on the time list and no others are.                       *)
Modes ==
  /\ \A x \in Elems(Chain(Time_First)) : Cb[x].Mode = "Timed"
  /\ \A x \in Elems(Chain(First)) : Cb[x].Mode # "Timed"

(* The handle of a user is its cell on one of the lists; only while a timed  *)
(* callback runs is its handle that of a cell already recycled.              *)
Handles ==
  \A c \in Callback :
    handle[c] # Null /\ ~(c = running /\ walk = "time") =>
      /\ handle[c] \in Elems(Chain(First)) \cup Elems(Chain(Time_First))
      /\ Cb[handle[c]].Proc = c

(* The callback that runs is that of the current cell, unless it has removed *)
(* itself.                                                                   *)
Running ==
  /\ walk = "none" => running = Nobody
  /\ walk = "list" /\ running # Nobody => Cb[Cur].Proc \in {running, Nop}

LinkInv == TypeOK /\ Lists /\ ListEnds /\ Modes /\ Handles /\ Running

(* What the lists of a state with the invariant are.                         *)
LEMMA ListsCells ==
  ASSUME TypeOK, Lists
  PROVE  /\ Chain(First) \in Seq(Cell) /\ Len(Chain(First)) \in Nat
         /\ Chain(Time_First) \in Seq(Cell) /\ Len(Chain(Time_First)) \in Nat
         /\ Elems(Chain(First)) \subseteq Cell /\ Elems(Chain(Time_First)) \subseteq Cell
         /\ Elems(Chain(First)) \cap Elems(Chain(Time_First)) = {}
         /\ \A i, j \in 1 .. Len(Chain(First)) :
              Chain(First)[i] = Chain(First)[j] => i = j
         /\ \A i, j \in 1 .. Len(Chain(Time_First)) :
              Chain(Time_First)[i] = Chain(Time_First)[j] => i = j
         /\ First = IF Len(Chain(First)) = 0 THEN Null ELSE Chain(First)[1]
         /\ Time_First = IF Len(Chain(Time_First)) = 0 THEN Null ELSE Chain(Time_First)[1]
<1> DEFINE A == Chain(First)
<1> DEFINE B == Chain(Time_First)
<1>1. List(Next_Cell, A, First) /\ List(Next_Cell, B, Time_First)
      /\ Elems(A) \cap Elems(B) = {}
  BY DEF Lists, Heap
<1> HIDE DEF A, B
<1>2. A \in Seq(Cell) /\ Len(A) \in Nat /\ Elems(A) \subseteq Cell
  BY <1>1, ListCells
<1>3. B \in Seq(Cell) /\ Len(B) \in Nat /\ Elems(B) \subseteq Cell
  BY <1>1, ListCells
<1>4. /\ \A i, j \in 1 .. Len(A) : A[i] = A[j] => i = j
      /\ First = IF Len(A) = 0 THEN Null ELSE A[1]
  BY <1>1 DEF List
<1>5. /\ \A i, j \in 1 .. Len(B) : B[i] = B[j] => i = j
      /\ Time_First = IF Len(B) = 0 THEN Null ELSE B[1]
  BY <1>1 DEF List
<1> QED BY <1>1, <1>2, <1>3, <1>4, <1>5 DEF A, B

(* A heap of the next state is made of the lists of the next state.          *)
LEMMA ListsNext ==
  ASSUME NEW A, NEW B, NEW R, allocated' \in 0 .. Max_Cells,
         Heap(Next_Cell', allocated', A, First', B, Time_First', R, Recycled_Handles')
  PROVE  Lists' /\ Chain(First)' = A /\ Chain(Time_First)' = B
<1>1. PICK n \in 0 .. Max_Cells : n = allocated' OBVIOUS
<1>2. PICK f : f = First' OBVIOUS
<1>3. PICK t : t = Time_First' OBVIOUS
<1>4. PICK r : r = Recycled_Handles' OBVIOUS
<1>5. PICK M : M = Next_Cell' OBVIOUS
<1>6. Heap(M, n, A, f, B, t, R, r) BY <1>1, <1>2, <1>3, <1>4, <1>5
<1>7. Follow(M, f) = A /\ Follow(M, t) = B /\ Follow(M, r) = R
  BY ONLY <1>6, n \in 0 .. Max_Cells, HeapFollow
<1>8. Chain(First)' = A /\ Chain(Time_First)' = B /\ Chain(Recycled_Handles)' = R
  BY <1>2, <1>3, <1>4, <1>5, <1>7 DEF Chain
<1> QED BY <1>8 DEF Lists

(* Registration links a cell that is on neither list into one of them.       *)
LEMMA RegisterLists ==
  ASSUME LinkInv, NEW c \in Callback, NEW mode \in {"Repeat", "Oneshot"},
         Register_Callback(c, mode)
  PROVE  /\ New_Handle \in Cell
         /\ New_Handle \notin Elems(Chain(First)) /\ New_Handle \notin Elems(Chain(Time_First))
         /\ Lists' /\ allocated' \in 0 .. Max_Cells
         /\ Chain(First)' = Inserted(Chain(First), Len(Chain(First)), New_Handle)
         /\ Chain(Time_First)' = Chain(Time_First)
<1> USE DEF LinkInv
<1>1. PICK N : N = Next_Cell OBVIOUS
<1>2. PICK A : A = Chain(First) OBVIOUS
<1>3. PICK B : B = Chain(Time_First) OBVIOUS
<1>4. PICK R : R = Chain(Recycled_Handles) OBVIOUS
<1>5. PICK n \in 0 .. Max_Cells : n = allocated BY DEF TypeOK
<1>6. PICK a : a = First OBVIOUS
<1>7. PICK b : b = Time_First OBVIOUS
<1>8. PICK r : r = Recycled_Handles OBVIOUS
<1>9. PICK x \in Cell : x = New_Handle BY DEF Register_Callback, Allocate_Handle
<1>10. PICK i : i = Len(A) OBVIOUS
<1>11. PICK prev : prev = Last OBVIOUS
<1>12. PICK M : M = Next_Cell' OBVIOUS
<1>13. Heap(N, n, A, a, B, b, R, r)
  BY <1>1, <1>2, <1>3, <1>4, <1>5, <1>6, <1>7, <1>8 DEF Lists
<1>14. x = IF r = Null THEN n + 1 ELSE r BY <1>5, <1>8, <1>9 DEF New_Handle
<1>15. A \in Seq(Cell) /\ Len(A) \in Nat BY <1>2, ListsCells
<1>16. i \in 0 .. Len(A) BY <1>10, <1>15
<1>17. prev = IF i = 0 THEN Null ELSE A[i]
  <2>1. (A = << >>) <=> (Len(A) = 0) BY <1>15
  <2> QED BY <2>1, <1>2, <1>10, <1>11 DEF ListEnds
<1>18. M = [y \in Cell |-> IF y = x THEN IF i = Len(A) THEN Null ELSE A[i + 1]
                          ELSE IF y = prev THEN x ELSE N[y]]
  <2>1. M = [y \in Cell |-> IF y = x THEN Null ELSE IF y = prev THEN x ELSE N[y]]
    BY <1>1, <1>9, <1>11, <1>12 DEF Register_Callback, Allocate_Handle
  <2> QED BY <2>1, <1>10
<1>19. Inserting(N, M, n, A, a, B, b, R, r, i, x, prev)
  BY <1>13, <1>14, <1>16, <1>17, <1>18 DEF Inserting
<1>21. /\ x \notin Elems(A) /\ x \notin Elems(B)
       /\ Heap(M, IF r = Null THEN x ELSE n,
               Inserted(A, i, x), IF i = 0 THEN x ELSE a, B, b,
               IF r = Null THEN R ELSE Removed(R, 1), IF r = Null THEN Null ELSE N[r])
  BY ONLY <1>19, HeapInsert
<1>22. PICK A2 : A2 = Inserted(A, i, x) OBVIOUS
<1>23. PICK R2 : R2 = IF r = Null THEN R ELSE Removed(R, 1) OBVIOUS
<1>24. allocated' = (IF r = Null THEN x ELSE n) /\ allocated' \in 0 .. Max_Cells
  <2>1. x \in 0 .. Max_Cells BY CallbackAssumption DEF Cell
  <2> QED BY <2>1, <1>5, <1>8, <1>9 DEF Register_Callback, Allocate_Handle
<1>25. Recycled_Handles' = IF r = Null THEN Null ELSE N[r]
  BY <1>1, <1>8 DEF Register_Callback, Allocate_Handle
<1>26. First' = (IF i = 0 THEN x ELSE a) /\ Time_First' = b
  <2>1. (i = 0) <=> (First = Null)
    <3>1. List(N, A, a) BY <1>13 DEF Heap
    <3> QED BY <3>1, <1>6, <1>10, ListCells
  <2> QED BY <2>1, <1>6, <1>7, <1>9 DEF Register_Callback, timeListVars
<1>27. Heap(M, allocated', A2, First', B, Time_First', R2, Recycled_Handles')
  BY ONLY <1>21, <1>22, <1>23, <1>24, <1>25, <1>26
<1>28. Lists' /\ Chain(First)' = A2 /\ Chain(Time_First)' = B
  BY <1>12, <1>24, <1>27, ListsNext
<1> QED BY <1>2, <1>3, <1>9, <1>10, <1>21, <1>22, <1>24, <1>28

LEMMA RegisterAtLists ==
  ASSUME LinkInv, NEW c \in Callback, NEW t \in Time, Register_Callback_At(c, t)
  PROVE  \E i \in 0 .. Len(Chain(Time_First)) :
           /\ New_Handle \in Cell
           /\ New_Handle \notin Elems(Chain(First))
           /\ New_Handle \notin Elems(Chain(Time_First))
           /\ Lists' /\ allocated' \in 0 .. Max_Cells
           /\ Chain(First)' = Chain(First)
           /\ Chain(Time_First)' = Inserted(Chain(Time_First), i, New_Handle)
           /\ Cb' = [Cb EXCEPT ![New_Handle] = [T |-> t, Mode |-> "Timed", Proc |-> c]]
           /\ handle' = [handle EXCEPT ![c] = New_Handle]
           /\ Next_Cell' \in [Cell -> Handle] /\ Recycled_Handles' \in Handle
           /\ Time_First' \in {New_Handle, Time_First}
           /\ Insert_After(t, i)
           /\ First_Timeout' = IF i = 0 THEN t ELSE First_Timeout
           /\ User_Code /\ handle[c] = Null /\ c # running
<1> USE DEF LinkInv
<1>1. PICK N : N = Next_Cell OBVIOUS
<1>2. PICK A : A = Chain(First) OBVIOUS
<1>3. PICK B : B = Chain(Time_First) OBVIOUS
<1>4. PICK R : R = Chain(Recycled_Handles) OBVIOUS
<1>5. PICK n \in 0 .. Max_Cells : n = allocated BY DEF TypeOK
<1>6. PICK a : a = First OBVIOUS
<1>7. PICK b : b = Time_First OBVIOUS
<1>8. PICK r : r = Recycled_Handles OBVIOUS
<1>10. PICK i \in 0 .. Len(Chain(Time_First)) :
         Insert_After(t, i) /\
         LET prev == IF i = 0 THEN Null ELSE Chain(Time_First)[i]
         IN  /\ Allocate_Handle(c, [T |-> t, Mode |-> "Timed", Proc |-> c], prev,
                                IF i = 0 THEN Time_First ELSE Next_Cell[prev])
             /\ Time_First' = IF i = 0 THEN New_Handle ELSE Time_First
             /\ First_Timeout' = IF i = 0 THEN t ELSE First_Timeout
  BY DEF Register_Callback_At
<1>11. PICK prev : prev = IF i = 0 THEN Null ELSE B[i] OBVIOUS
<1>12. PICK M : M = Next_Cell' OBVIOUS
<1>13. PICK next : next = IF i = 0 THEN b ELSE N[prev] OBVIOUS
<1>14. Allocate_Handle(c, [T |-> t, Mode |-> "Timed", Proc |-> c], prev, next)
  BY <1>1, <1>3, <1>7, <1>10, <1>11, <1>13
<1>9. PICK x \in Cell : x = New_Handle BY <1>14 DEF Allocate_Handle
<1>15. Heap(N, n, B, b, A, a, R, r)
  <2>1. Heap(N, n, A, a, B, b, R, r)
    BY <1>1, <1>2, <1>3, <1>4, <1>5, <1>6, <1>7, <1>8 DEF Lists
  <2> QED BY ONLY <2>1, HeapSwap
<1>16. x = IF r = Null THEN n + 1 ELSE r BY <1>5, <1>8, <1>9 DEF New_Handle
<1>17. B \in Seq(Cell) /\ Len(B) \in Nat /\ i \in 0 .. Len(B) BY <1>3, ListsCells
<1>18. next = IF i = Len(B) THEN Null ELSE B[i + 1]
  <2>1. List(N, B, b) BY <1>15 DEF Heap
  <2>2. CASE i = 0
    <3>1. b = IF Len(B) = 0 THEN Null ELSE B[1] BY <2>1 DEF List
    <3> QED BY <2>2, <3>1, <1>13
  <2>3. CASE i # 0
    <3>1. i \in 1 .. Len(B) BY <2>3, <1>17
    <3>2. N[B[i]] = IF i = Len(B) THEN Null ELSE B[i + 1] BY <2>1, <3>1 DEF List
    <3> QED BY <2>3, <3>2, <1>11, <1>13
  <2> QED BY <2>2, <2>3
<1>19. M = [y \in Cell |-> IF y = x THEN IF i = Len(B) THEN Null ELSE B[i + 1]
                          ELSE IF y = prev THEN x ELSE N[y]]
  <2>1. M = [y \in Cell |-> IF y = x THEN next ELSE IF y = prev THEN x ELSE N[y]]
    BY <1>1, <1>9, <1>12, <1>14 DEF Allocate_Handle
  <2> QED BY <2>1, <1>18
<1>20. Inserting(N, M, n, B, b, A, a, R, r, i, x, prev)
  BY <1>11, <1>15, <1>16, <1>17, <1>19 DEF Inserting
<1>21. /\ x \notin Elems(B) /\ x \notin Elems(A)
       /\ Heap(M, IF r = Null THEN x ELSE n,
               Inserted(B, i, x), IF i = 0 THEN x ELSE b, A, a,
               IF r = Null THEN R ELSE Removed(R, 1), IF r = Null THEN Null ELSE N[r])
  BY ONLY <1>20, HeapInsert
<1>22. PICK B2 : B2 = Inserted(B, i, x) OBVIOUS
<1>23. PICK R2 : R2 = IF r = Null THEN R ELSE Removed(R, 1) OBVIOUS
<1>24. allocated' = (IF r = Null THEN x ELSE n) /\ allocated' \in 0 .. Max_Cells
  <2>1. x \in 0 .. Max_Cells BY CallbackAssumption DEF Cell
  <2> QED BY <2>1, <1>5, <1>8, <1>9, <1>14 DEF Allocate_Handle
<1>25. Recycled_Handles' = IF r = Null THEN Null ELSE N[r]
  BY <1>1, <1>8, <1>14 DEF Allocate_Handle
<1>26. Time_First' = (IF i = 0 THEN x ELSE b) /\ First' = a
  BY <1>6, <1>7, <1>9, <1>10 DEF Register_Callback_At, listVars
<1>27. Heap(M, allocated', A, First', B2, Time_First', R2, Recycled_Handles')
  <2>1. PICK n2 : n2 = allocated' OBVIOUS
  <2>2. PICK t2 : t2 = Time_First' OBVIOUS
  <2>3. PICK r2 : r2 = Recycled_Handles' OBVIOUS
  <2>4. Heap(M, n2, B2, t2, A, a, R2, r2)
    BY ONLY <1>21, <1>22, <1>23, <1>24, <1>25, <1>26, <2>1, <2>2, <2>3
  <2>5. Heap(M, n2, A, a, B2, t2, R2, r2) BY ONLY <2>4, HeapSwap
  <2> QED BY ONLY <2>1, <2>2, <2>3, <2>5, <1>26
<1>28. Lists' /\ Chain(First)' = A /\ Chain(Time_First)' = B2
  BY <1>12, <1>24, <1>27, ListsNext
<1>29. /\ Cb' = [Cb EXCEPT ![New_Handle] = [T |-> t, Mode |-> "Timed", Proc |-> c]]
       /\ handle' = [handle EXCEPT ![c] = New_Handle]
       /\ User_Code /\ handle[c] = Null /\ c # running
  BY <1>14 DEF Allocate_Handle
<1>30. /\ Insert_After(t, i) /\ Time_First' \in {New_Handle, Time_First}
       /\ First_Timeout' = IF i = 0 THEN t ELSE First_Timeout
  BY <1>10
<1>31. Next_Cell' \in [Cell -> Handle] /\ Recycled_Handles' \in Handle
  <2>1. next \in Handle
    <3>1. i # Len(B) => i + 1 \in 1 .. Len(B) BY <1>17
    <3>2. i # Len(B) => B[i + 1] \in Cell BY <3>1, <1>17
    <3> QED BY <3>2, <1>18 DEF Handle
  <2>2. Next_Cell' \in [Cell -> Handle]
    BY <2>1, <1>9, <1>14 DEF Allocate_Handle, Handle, TypeOK
  <2>3. Recycled_Handles' \in Handle BY <1>14 DEF Allocate_Handle, Handle, TypeOK
  <2> QED BY <2>2, <2>3
<1> QED BY <1>2, <1>3, <1>9, <1>21, <1>22, <1>24, <1>28, <1>29, <1>30, <1>31

(* A user who is registered for a time, and is not being called at it, has a *)
(* cell on the time list; removing it links that cell out.                   *)
LEMMA UnregisterLists ==
  ASSUME LinkInv, NEW c \in Callback, Unregister_Callback_At(c)
  PROVE  \E i \in 1 .. Len(Chain(Time_First)) :
           /\ Chain(Time_First)[i] = handle[c] /\ Cb[handle[c]].Proc = c
           /\ Lists' /\ Time_First' \in Handle
           /\ Chain(First)' = Chain(First)
           /\ Chain(Time_First)' = Removed(Chain(Time_First), i)
<1> USE DEF LinkInv
<1>1. PICK N : N = Next_Cell OBVIOUS
<1>2. PICK A : A = Chain(First) OBVIOUS
<1>3. PICK B : B = Chain(Time_First) OBVIOUS
<1>4. PICK R : R = Chain(Recycled_Handles) OBVIOUS
<1>5. PICK n \in 0 .. Max_Cells : n = allocated BY DEF TypeOK
<1>6. PICK a : a = First OBVIOUS
<1>7. PICK b : b = Time_First OBVIOUS
<1>8. PICK r : r = Recycled_Handles OBVIOUS
<1>9. PICK x : x = handle[c] OBVIOUS
<1>10. x # Null /\ Cb[x].Mode = "Timed" /\ (c = running => walk = "list")
  BY <1>9 DEF Unregister_Callback_At, May_Remove
<1>11. x \in Elems(A) \cup Elems(B) /\ Cb[x].Proc = c
  BY <1>2, <1>3, <1>9, <1>10 DEF Handles
<1>12. x \in Elems(B) BY <1>2, <1>10, <1>11 DEF Modes
<1>13. PICK i \in 1 .. Len(B) : B[i] = x BY <1>12 DEF Elems
<1>14. Heap(N, n, B, b, A, a, R, r)
  <2>1. Heap(N, n, A, a, B, b, R, r)
    BY <1>1, <1>2, <1>3, <1>4, <1>5, <1>6, <1>7, <1>8 DEF Lists
  <2> QED BY ONLY <2>1, HeapSwap
<1>15. List(N, B, b) BY <1>14 DEF Heap
<1>16. B \in Seq(Cell) /\ Len(B) \in Nat BY <1>3, ListsCells
<1>17. /\ b = IF Len(B) = 0 THEN Null ELSE B[1]
       /\ \A j, k \in 1 .. Len(B) : B[j] = B[k] => j = k
       /\ \A j \in 1 .. Len(B) : N[B[j]] = IF j = Len(B) THEN Null ELSE B[j + 1]
  BY <1>15 DEF List
<1>18. PICK prev : prev = IF i = 1 THEN Null ELSE B[i - 1] OBVIOUS
<1>19. PICK before : before = {y \in Elems(B) : N[y] = x} OBVIOUS
<1>20. prev = IF before = {} THEN Null ELSE CHOOSE y \in before : TRUE
  <2>1. ASSUME NEW j \in 1 .. Len(B), N[B[j]] = x PROVE j = i - 1
    <3>1. j # Len(B) BY <2>1, <1>10, <1>17
    <3>2. j + 1 \in 1 .. Len(B) BY <3>1, <1>16
    <3>3. B[j + 1] = B[i] BY <2>1, <3>1, <1>13, <1>17
    <3>4. j + 1 = i BY <3>2, <3>3, <1>17
    <3> QED BY <3>4
  <2>2. CASE i = 1
    <3>1. before = {}
      <4>1. \A j \in 1 .. Len(B) : N[B[j]] # x BY <2>1, <2>2
      <4> QED BY <4>1, <1>19 DEF Elems
    <3> QED BY <2>2, <3>1, <1>18
  <2>3. CASE i # 1
    <3>1. i - 1 \in 1 .. Len(B) /\ i - 1 # Len(B) BY <2>3, <1>16
    <3>2. N[B[i - 1]] = x
      <4>1. i - 1 + 1 = i BY <1>16
      <4> QED BY <3>1, <4>1, <1>13, <1>17
    <3>3. before = {B[i - 1]} BY <3>1, <3>2, <2>1, <1>19 DEF Elems
    <3> QED BY <2>3, <3>3, <1>18
  <2> QED BY <2>2, <2>3
<1>21. PICK M : M = Next_Cell' OBVIOUS
<1>22. PICK next : next = N[x] OBVIOUS
<1>23. M = [y \in Cell |-> IF y = x THEN r ELSE IF y = prev THEN next ELSE N[y]]
  <2>1. before = {y \in Cells_Of(Time_First) : Next_Cell[y] = handle[c]}
    BY <1>1, <1>3, <1>9, <1>19 DEF Cells_Of, Elems
  <2>2. Free_Handle(x, prev, next)
    BY <2>1, <1>1, <1>9, <1>20, <1>22 DEF Unregister_Callback_At
  <2> QED BY <2>2, <1>1, <1>8, <1>21 DEF Free_Handle
<1>24. Removing(N, M, n, B, b, A, a, R, r, i, x, prev, next)
  BY <1>13, <1>14, <1>18, <1>22, <1>23 DEF Removing
<1>25. Heap(M, n, Removed(B, i), IF i = 1 THEN N[x] ELSE b, A, a, Inserted(R, 0, x), x)
  BY ONLY <1>24, HeapRemove
<1>26. PICK B2 : B2 = Removed(B, i) OBVIOUS
<1>27. PICK R2 : R2 = Inserted(R, 0, x) OBVIOUS
<1>28. Time_First' = IF i = 1 THEN N[x] ELSE b
  <2>1. Time_First' = IF b = x THEN N[x] ELSE b
    BY <1>1, <1>7, <1>9 DEF Unregister_Callback_At
  <2>2. (b = x) <=> (i = 1)
    <3>1. 1 \in 1 .. Len(B) /\ b = B[1] BY <1>16, <1>17
    <3> QED BY <3>1, <1>13, <1>17
  <2> QED BY <2>1, <2>2
<1>29. First' = a /\ allocated' = n /\ Recycled_Handles' = x
  BY <1>5, <1>6, <1>9 DEF Unregister_Callback_At, Free_Handle, listVars
<1>30. Heap(M, allocated', A, First', B2, Time_First', R2, Recycled_Handles')
  <2>1. PICK t2 : t2 = Time_First' OBVIOUS
  <2>2. Heap(M, n, B2, t2, A, a, R2, x) BY ONLY <1>25, <1>26, <1>27, <1>28, <2>1
  <2>3. Heap(M, n, A, a, B2, t2, R2, x) BY ONLY <2>2, HeapSwap
  <2> QED BY ONLY <2>1, <2>3, <1>29
<1>31. Lists' /\ Chain(First)' = A /\ Chain(Time_First)' = B2
  <2>1. allocated' \in 0 .. Max_Cells BY <1>29
  <2> QED BY <1>21, <1>30, <2>1, ListsNext
<1>32. Time_First' \in Handle
  <2>1. N[x] \in Handle /\ b \in Handle BY <1>12, <1>15, ListCells
  <2> QED BY <2>1, <1>28
<1> QED BY <1>2, <1>3, <1>9, <1>11, <1>13, <1>26, <1>31, <1>32

(* The first timed cell leaves its list before its callback is called.       *)
LEMMA CallTimeLists ==
  ASSUME LinkInv, Call_Time_Callback
  PROVE  /\ Time_First \in Cell /\ 1 \in 1 .. Len(Chain(Time_First))
         /\ Chain(Time_First)[1] = Time_First
         /\ Lists' /\ Time_First' \in Handle
         /\ Chain(First)' = Chain(First)
         /\ Chain(Time_First)' = Removed(Chain(Time_First), 1)
<1> USE DEF LinkInv
<1>1. PICK N : N = Next_Cell OBVIOUS
<1>2. PICK A : A = Chain(First) OBVIOUS
<1>3. PICK B : B = Chain(Time_First) OBVIOUS
<1>4. PICK R : R = Chain(Recycled_Handles) OBVIOUS
<1>5. PICK n \in 0 .. Max_Cells : n = allocated BY DEF TypeOK
<1>6. PICK a : a = First OBVIOUS
<1>7. PICK b : b = Time_First OBVIOUS
<1>8. PICK r : r = Recycled_Handles OBVIOUS
<1>9. Heap(N, n, B, b, A, a, R, r)
  <2>1. Heap(N, n, A, a, B, b, R, r)
    BY <1>1, <1>2, <1>3, <1>4, <1>5, <1>6, <1>7, <1>8 DEF Lists
  <2> QED BY ONLY <2>1, HeapSwap
<1>10. List(N, B, b) BY <1>9 DEF Heap
<1>11. b # Null BY <1>7 DEF Call_Time_Callback
<1>12. 1 \in 1 .. Len(B) /\ B[1] = b /\ b \in Elems(B) /\ N[b] \in Handle
       /\ Elems(B) \subseteq Cell
  BY <1>10, <1>11, ListCells
<1>13. PICK i \in 1 .. Len(B) : i = 1 BY <1>12
<1>14. PICK M : M = Next_Cell' OBVIOUS
<1>15. PICK null : null = Null OBVIOUS
<1>16. M = [y \in Cell |-> IF y = b THEN r ELSE IF y = null THEN null ELSE N[y]]
  BY <1>1, <1>7, <1>8, <1>14, <1>15 DEF Call_Time_Callback, Free_Handle
<1>17. Removing(N, M, n, B, b, A, a, R, r, i, b, null, null)
  <2>1. b = B[i] /\ null = IF i = 1 THEN Null ELSE B[i - 1] BY <1>12, <1>13, <1>15
  <2>2. i > 1 => null = N[b] BY <1>13
  <2> QED BY <2>1, <2>2, <1>9, <1>16 DEF Removing
<1>18. Heap(M, n, Removed(B, i), IF i = 1 THEN N[b] ELSE b, A, a, Inserted(R, 0, b), b)
  BY ONLY <1>17, HeapRemove
<1>19. PICK B2 : B2 = Removed(B, i) OBVIOUS
<1>20. PICK R2 : R2 = Inserted(R, 0, b) OBVIOUS
<1>21. Time_First' = N[b] /\ First' = a /\ allocated' = n /\ Recycled_Handles' = b
  BY <1>1, <1>5, <1>6, <1>7 DEF Call_Time_Callback, Free_Handle, listVars
<1>22. Heap(M, allocated', A, First', B2, Time_First', R2, Recycled_Handles')
  <2>1. PICK t2 : t2 = N[b] OBVIOUS
  <2>2. Heap(M, n, B2, t2, A, a, R2, b) BY ONLY <1>13, <1>18, <1>19, <1>20, <2>1
  <2>3. Heap(M, n, A, a, B2, t2, R2, b) BY ONLY <2>2, HeapSwap
  <2> QED BY ONLY <2>1, <2>3, <1>21
<1>23. Lists' /\ Chain(First)' = A /\ Chain(Time_First)' = B2
  <2>1. allocated' \in 0 .. Max_Cells BY <1>21
  <2> QED BY <1>14, <1>22, <2>1, ListsNext
<1> QED BY <1>2, <1>3, <1>7, <1>12, <1>13, <1>19, <1>21, <1>23

(* A one-shot cell leaves the list that is walked.                           *)
LEMMA OneshotLists ==
  ASSUME LinkInv, Next_Callback, Cb[Cur].Mode = "Oneshot",
         NEW i \in 1 .. Len(Chain(First)), Chain(First)[i] = Cur,
         Prev = IF i = 1 THEN Null ELSE Chain(First)[i - 1]
  PROVE  /\ Lists' /\ First' \in Handle
         /\ Chain(First)' = Removed(Chain(First), i)
         /\ Chain(Time_First)' = Chain(Time_First)
<1> USE DEF LinkInv
<1>1. PICK N : N = Next_Cell OBVIOUS
<1>2. PICK A : A = Chain(First) OBVIOUS
<1>3. PICK B : B = Chain(Time_First) OBVIOUS
<1>4. PICK R : R = Chain(Recycled_Handles) OBVIOUS
<1>5. PICK n \in 0 .. Max_Cells : n = allocated BY DEF TypeOK
<1>6. PICK a : a = First OBVIOUS
<1>7. PICK b : b = Time_First OBVIOUS
<1>8. PICK r : r = Recycled_Handles OBVIOUS
<1>9. PICK x : x = Cur OBVIOUS
<1>10. PICK prev : prev = Prev OBVIOUS
<1>11. PICK M : M = Next_Cell' OBVIOUS
<1>12. PICK next : next = N[x] OBVIOUS
<1>13. Heap(N, n, A, a, B, b, R, r)
  BY <1>1, <1>2, <1>3, <1>4, <1>5, <1>6, <1>7, <1>8 DEF Lists
<1>14. List(N, A, a) BY <1>13 DEF Heap
<1>15. Elems(A) \subseteq Cell /\ A \in Seq(Cell) BY <1>14, ListCells
<1>16. i \in 1 .. Len(A) /\ A[i] = x /\ x \in Elems(A) BY <1>2, <1>9 DEF Elems
<1>17. M = [y \in Cell |-> IF y = x THEN r ELSE IF y = prev THEN next ELSE N[y]]
  BY <1>1, <1>8, <1>9, <1>10, <1>11, <1>12 DEF Next_Callback, Free_Handle
<1>18. prev = IF i = 1 THEN Null ELSE A[i - 1] BY <1>2, <1>10
<1>19. Removing(N, M, n, A, a, B, b, R, r, i, x, prev, next)
  BY <1>12, <1>13, <1>16, <1>17, <1>18 DEF Removing
<1>20. Heap(M, n, Removed(A, i), IF i = 1 THEN N[x] ELSE a, B, b, Inserted(R, 0, x), x)
  BY ONLY <1>19, HeapRemove
<1>21. PICK A2 : A2 = Removed(A, i) OBVIOUS
<1>22. PICK R2 : R2 = Inserted(R, 0, x) OBVIOUS
<1>23. First' = (IF i = 1 THEN N[x] ELSE a)
  <2>1. First' = IF prev = Null THEN next ELSE a
    BY <1>1, <1>6, <1>9, <1>10, <1>12 DEF Next_Callback
  <2>2. (prev = Null) <=> (i = 1)
    <3>1. i # 1 => i - 1 \in 1 .. Len(A) BY <1>15, <1>16
    <3>2. i # 1 => A[i - 1] \in Cell BY <3>1, <1>15
    <3>3. Null \notin Cell BY CallbackAssumption DEF Cell, Null
    <3> QED BY <3>2, <3>3, <1>18
  <2> QED BY <2>1, <2>2, <1>12
<1>24. Time_First' = b /\ allocated' = n /\ Recycled_Handles' = x
  BY <1>5, <1>7, <1>9 DEF Next_Callback, Free_Handle, timeListVars
<1>25. Heap(M, allocated', A2, First', B, Time_First', R2, Recycled_Handles')
  BY ONLY <1>20, <1>21, <1>22, <1>23, <1>24
<1>26. Lists' /\ Chain(First)' = A2 /\ Chain(Time_First)' = B
  <2>1. allocated' \in 0 .. Max_Cells BY <1>24
  <2> QED BY <1>11, <1>25, <2>1, ListsNext
<1>27. First' \in Handle
  <2>1. N[x] \in Handle /\ a \in Handle BY <1>14, <1>16, ListCells
  <2> QED BY <2>1, <1>23
<1> QED BY <1>2, <1>3, <1>21, <1>26, <1>27

-----------------------------------------------------------------------------
(* Every action preserves the invariant.                                     *)

LEMMA ListsSame ==
  ASSUME Lists, UNCHANGED <<linkVars, allocated, First, Time_First>>
  PROVE  /\ Chain(First)' = Chain(First)
         /\ Chain(Time_First)' = Chain(Time_First)
         /\ Lists'
<1>1. /\ Next_Cell' = Next_Cell /\ Recycled_Handles' = Recycled_Handles
      /\ allocated' = allocated /\ First' = First /\ Time_First' = Time_First
  BY DEF linkVars
<1>2. /\ Chain(First)' = Chain(First) /\ Chain(Time_First)' = Chain(Time_First)
      /\ Chain(Recycled_Handles)' = Chain(Recycled_Handles)
  BY <1>1 DEF Chain
<1>3. PICK N : N = Next_Cell OBVIOUS
<1> QED BY <1>1, <1>2 DEF Lists

LEMMA InitLink == Init => LinkInv
<1> SUFFICES ASSUME Init PROVE LinkInv OBVIOUS
<1> USE DEF Init
<1>1. /\ 0 \in Time /\ Last_Time \in Time /\ 0 \in 0 .. Max_Cells
  BY CallbackAssumption DEF Time
<1>2. TypeOK BY <1>1 DEF TypeOK, Cb_Cell, Handle
<1>3. PICK N : N = Next_Cell OBVIOUS
<1>4. << >> \in Seq(Cell) /\ Len(<< >>) = 0 /\ Elems(<< >>) = {} BY DEF Elems
<1>5. List(N, << >>, Null) BY <1>4 DEF List
<1>6. Len(<< >>) <= Max_Cells BY <1>4, CallbackAssumption
<1>7. Follow(N, Null) = << >> BY <1>5, <1>6, FollowList
<1>8. /\ Chain(First) = << >> /\ Chain(Time_First) = << >>
      /\ Chain(Recycled_Handles) = << >>
  BY <1>3, <1>7 DEF Chain
<1>9. Heap(N, 0, << >>, Null, << >>, Null, << >>, Null)
  <2>1. 1 .. 0 = {} OBVIOUS
  <2> QED BY <2>1, <1>4, <1>5 DEF Heap
<1>10. Lists BY <1>3, <1>8, <1>9 DEF Lists
<1>11. ListEnds BY <1>8 DEF ListEnds
<1>12. Modes BY <1>4, <1>8 DEF Modes
<1>13. Handles /\ Running BY DEF Handles, Running
<1> QED BY <1>2, <1>10, <1>11, <1>12, <1>13 DEF LinkInv

LEMMA RegisterLink ==
  ASSUME LinkInv, NEW c \in Callback, NEW mode \in {"Repeat", "Oneshot"},
         Register_Callback(c, mode)
  PROVE  LinkInv'
<1> USE DEF LinkInv
<1>1. PICK x \in Cell : x = New_Handle BY RegisterLists
<1>2. PICK A : A = Chain(First) OBVIOUS
<1>3. PICK B : B = Chain(Time_First) OBVIOUS
<1>4. /\ x \notin Elems(A) /\ x \notin Elems(B)
      /\ Lists' /\ allocated' \in 0 .. Max_Cells
      /\ Chain(First)' = Inserted(A, Len(A), x) /\ Chain(Time_First)' = B
  BY <1>1, <1>2, <1>3, RegisterLists
<1>5. /\ A \in Seq(Cell) /\ Len(A) \in Nat /\ Elems(A) \subseteq Cell
      /\ Elems(B) \subseteq Cell
      /\ First = IF Len(A) = 0 THEN Null ELSE A[1]
  BY <1>2, <1>3, ListsCells
<1>6. PICK A2 : A2 = Inserted(A, Len(A), x) OBVIOUS
<1>7. /\ A2 \in Seq(Cell) /\ Len(A2) = Len(A) + 1 /\ Elems(A2) = Elems(A) \cup {x}
      /\ \A k \in 1 .. Len(A) + 1 : A2[k] =
           IF k <= Len(A) THEN A[k] ELSE IF k = Len(A) + 1 THEN x ELSE A[k - 1]
  <2>1. PICK i \in 0 .. Len(A) : i = Len(A) BY <1>5
  <2>2. A \in Seq(Cell) BY <1>5
  <2>3. A2 = Inserted(A, i, x) BY ONLY <2>1, <1>6
  <2>4. A2 \in Seq(Cell) /\ Len(A2) = Len(A) + 1
    BY ONLY <2>2, <2>3, x \in Cell, i \in 0 .. Len(A), InsertedType
  <2>5. Elems(A2) = Elems(A) \cup {x}
    BY ONLY <2>2, <2>3, x \in Cell, i \in 0 .. Len(A), InsertedType
  <2>6. \A k \in 1 .. Len(A) + 1 : A2[k] =
          IF k <= i THEN A[k] ELSE IF k = i + 1 THEN x ELSE A[k - 1]
    <3>1. \A k \in 1 .. Len(A) + 1 : Inserted(A, i, x)[k] =
            IF k <= i THEN A[k] ELSE IF k = i + 1 THEN x ELSE A[k - 1]
      BY <2>2, InsertedType
    <3> QED BY ONLY <3>1, <2>3
  <2> QED BY ONLY <2>1, <2>4, <2>5, <2>6
<1>8. /\ User_Code /\ handle[c] = Null /\ c # running
      /\ Cb' = [Cb EXCEPT ![x] = [T |-> 0, Mode |-> mode, Proc |-> c]]
      /\ handle' = [handle EXCEPT ![c] = x]
      /\ Next_Cell' = [y \in Cell |-> IF y = x THEN Null
                                      ELSE IF y = Last THEN x ELSE Next_Cell[y]]
      /\ Recycled_Handles' = IF Recycled_Handles = Null THEN Null
                             ELSE Next_Cell[Recycled_Handles]
      /\ First' = (IF First = Null THEN x ELSE First) /\ Last' = x
      /\ Time_First' = Time_First /\ First_Timeout' = First_Timeout
      /\ Current_Time' = Current_Time
      /\ walk' = walk /\ Cur' = Cur /\ Prev' = Prev /\ Final' = Final
      /\ running' = running
  BY <1>1 DEF Register_Callback, Allocate_Handle, timeListVars, walkVars
<1>9. TypeOK'
  <2>1. [T |-> 0, Mode |-> mode, Proc |-> c] \in Cb_Cell
    BY CallbackAssumption DEF Cb_Cell, Time
  <2>2. Cb' \in [Cell -> Cb_Cell] BY <2>1, <1>8 DEF TypeOK
  <2>3. Next_Cell' \in [Cell -> Handle] BY <1>8 DEF TypeOK, Handle
  <2>4. handle' \in [Callback -> Handle] BY <1>8 DEF TypeOK, Handle
  <2>5. Recycled_Handles' \in Handle BY <1>8 DEF TypeOK, Handle
  <2>6. First' \in Handle /\ Last' \in Handle BY <1>8 DEF TypeOK, Handle
  <2> QED BY <2>2, <2>3, <2>4, <2>5, <2>6, <1>4, <1>8 DEF TypeOK
<1>10. ListEnds'
  <2>1. Last' = A2[Len(A2)] /\ A2 # << >> BY <1>5, <1>7, <1>8
  <2>2. ASSUME walk' = "list"
        PROVE  \E i, j \in 1 .. Len(A2) :
                 /\ A2[i] = Cur' /\ A2[j] = Final' /\ i <= j
                 /\ Prev' = IF i = 1 THEN Null ELSE A2[i - 1]
    <3>1. PICK i, j \in 1 .. Len(A) :
            /\ A[i] = Cur /\ A[j] = Final /\ i <= j
            /\ Prev = IF i = 1 THEN Null ELSE A[i - 1]
      BY <2>2, <1>2, <1>8 DEF ListEnds
    <3>2. i \in 1 .. Len(A2) /\ j \in 1 .. Len(A2) /\ A2[i] = A[i] /\ A2[j] = A[j]
      BY <1>5, <1>7
    <3>3. i # 1 => A2[i - 1] = A[i - 1] BY <1>5, <1>7
    <3> QED BY <3>1, <3>2, <3>3, <1>8
  <2> QED BY <2>1, <2>2, <1>4, <1>6 DEF ListEnds
<1>11. Modes'
  <2>1. \A y \in Elems(B) : Cb'[y].Mode = "Timed"
    BY <1>3, <1>4, <1>5, <1>8 DEF Modes, TypeOK
  <2>2. \A y \in Elems(A2) : Cb'[y].Mode # "Timed"
    <3> SUFFICES ASSUME NEW y \in Elems(A2) PROVE Cb'[y].Mode # "Timed" OBVIOUS
    <3>1. CASE y = x
      <4>1. Cb'[x] = [T |-> 0, Mode |-> mode, Proc |-> c] BY <1>8 DEF TypeOK
      <4> QED BY <3>1, <4>1
    <3>2. CASE y # x
      <4>1. y \in Elems(A) /\ y \in Cell BY <3>2, <1>5, <1>7
      <4>2. Cb'[y] = Cb[y] BY <3>2, <4>1, <1>8 DEF TypeOK
      <4> QED BY <4>1, <4>2, <1>2 DEF Modes
    <3> QED BY <3>1, <3>2
  <2> QED BY <2>1, <2>2, <1>4, <1>6 DEF Modes
<1>12. Handles'
  <2> SUFFICES ASSUME NEW d \in Callback, handle'[d] # Null,
                      ~(d = running /\ walk = "time")
               PROVE  /\ handle'[d] \in Elems(A2) \cup Elems(B)
                      /\ Cb'[handle'[d]].Proc = d
    BY <1>4, <1>6, <1>8 DEF Handles
  <2>1. CASE d = c BY <2>1, <1>7, <1>8 DEF TypeOK
  <2>2. CASE d # c
    <3>1. handle'[d] = handle[d] BY <2>2, <1>8 DEF TypeOK
    <3>2. handle[d] \in Elems(A) \cup Elems(B) /\ Cb[handle[d]].Proc = d
      BY <3>1, <1>2, <1>3 DEF Handles
    <3>3. handle[d] # x BY <3>2, <1>4
    <3>4. Cb'[handle[d]] = Cb[handle[d]] BY <3>2, <3>3, <1>5, <1>8 DEF TypeOK
    <3> QED BY <3>1, <3>2, <3>4, <1>7
  <2> QED BY <2>1, <2>2
<1>13. Running'
  <2>1. walk = "list" => Cur \in Elems(A) BY <1>2 DEF ListEnds, Elems
  <2>2. walk = "list" => Cb'[Cur] = Cb[Cur]
    BY <2>1, <1>4, <1>5, <1>8 DEF TypeOK
  <2> QED BY <2>2, <1>8 DEF Running
<1> QED BY <1>4, <1>9, <1>10, <1>11, <1>12, <1>13

LEMMA RegisterAtLink ==
  ASSUME LinkInv, NEW c \in Callback, NEW t \in Time, Register_Callback_At(c, t)
  PROVE  LinkInv'
<1> USE DEF LinkInv
<1>1. PICK i \in 0 .. Len(Chain(Time_First)) :
        /\ New_Handle \in Cell
        /\ New_Handle \notin Elems(Chain(First))
        /\ New_Handle \notin Elems(Chain(Time_First))
        /\ Lists' /\ allocated' \in 0 .. Max_Cells
        /\ Chain(First)' = Chain(First)
        /\ Chain(Time_First)' = Inserted(Chain(Time_First), i, New_Handle)
        /\ Cb' = [Cb EXCEPT ![New_Handle] = [T |-> t, Mode |-> "Timed", Proc |-> c]]
        /\ handle' = [handle EXCEPT ![c] = New_Handle]
        /\ Next_Cell' \in [Cell -> Handle] /\ Recycled_Handles' \in Handle
        /\ Time_First' \in {New_Handle, Time_First}
        /\ First_Timeout' = IF i = 0 THEN t ELSE First_Timeout
        /\ User_Code /\ c # running
  BY RegisterAtLists
<1>2. PICK x \in Cell : x = New_Handle BY <1>1
<1>3. PICK A : A = Chain(First) OBVIOUS
<1>4. PICK B : B = Chain(Time_First) OBVIOUS
<1>5. PICK B2 : B2 = Inserted(B, i, x) OBVIOUS
<1>6. /\ x \notin Elems(A) /\ x \notin Elems(B)
      /\ Chain(First)' = A /\ Chain(Time_First)' = B2
      /\ Cb' = [Cb EXCEPT ![x] = [T |-> t, Mode |-> "Timed", Proc |-> c]]
      /\ handle' = [handle EXCEPT ![c] = x]
  BY <1>1, <1>2, <1>3, <1>4, <1>5
<1>7. /\ Elems(A) \subseteq Cell /\ B \in Seq(Cell) /\ Elems(B) \subseteq Cell
  BY <1>3, <1>4, ListsCells
<1>8. Elems(B2) = Elems(B) \cup {x}
  BY ONLY <1>5, <1>7, <1>4, x \in Cell, i \in 0 .. Len(Chain(Time_First)), InsertedType
<1>9. /\ Current_Time' = Current_Time /\ First' = First /\ Last' = Last
      /\ walk' = walk /\ Cur' = Cur /\ Prev' = Prev /\ Final' = Final
      /\ running' = running
  BY DEF Register_Callback_At, listVars, walkVars
<1>10. TypeOK'
  <2>1. [T |-> t, Mode |-> "Timed", Proc |-> c] \in Cb_Cell BY DEF Cb_Cell
  <2>2. Cb' \in [Cell -> Cb_Cell] BY <2>1, <1>6 DEF TypeOK
  <2>3. handle' \in [Callback -> Handle] BY <1>6 DEF TypeOK, Handle
  <2>4. Time_First' \in Handle BY <1>1 DEF TypeOK, Handle
  <2>5. First_Timeout' \in Time BY <1>1 DEF TypeOK
  <2> QED BY <2>2, <2>3, <2>4, <2>5, <1>1, <1>9 DEF TypeOK
<1>11. ListEnds' BY <1>3, <1>6, <1>9 DEF ListEnds
<1>12. Modes'
  <2>1. \A y \in Elems(A) : Cb'[y].Mode # "Timed"
    BY <1>3, <1>6, <1>7 DEF Modes, TypeOK
  <2>2. \A y \in Elems(B2) : Cb'[y].Mode = "Timed"
    <3> SUFFICES ASSUME NEW y \in Elems(B2) PROVE Cb'[y].Mode = "Timed" OBVIOUS
    <3>1. CASE y = x
      <4>1. Cb'[x] = [T |-> t, Mode |-> "Timed", Proc |-> c] BY <1>6 DEF TypeOK
      <4> QED BY <3>1, <4>1
    <3>2. CASE y # x
      <4>1. y \in Elems(B) /\ y \in Cell BY <3>2, <1>7, <1>8
      <4>2. Cb'[y] = Cb[y] BY <3>2, <4>1, <1>6 DEF TypeOK
      <4> QED BY <4>1, <4>2, <1>4 DEF Modes
    <3> QED BY <3>1, <3>2
  <2> QED BY <2>1, <2>2, <1>6 DEF Modes
<1>13. Handles'
  <2> SUFFICES ASSUME NEW d \in Callback, handle'[d] # Null,
                      ~(d = running /\ walk = "time")
               PROVE  /\ handle'[d] \in Elems(A) \cup Elems(B2)
                      /\ Cb'[handle'[d]].Proc = d
    BY <1>6, <1>9 DEF Handles
  <2>1. CASE d = c
    <3>1. handle'[d] = x BY <2>1, <1>6 DEF TypeOK
    <3>2. Cb'[x] = [T |-> t, Mode |-> "Timed", Proc |-> c] BY <1>6 DEF TypeOK
    <3> QED BY <2>1, <3>1, <3>2, <1>8
  <2>2. CASE d # c
    <3>1. handle'[d] = handle[d] BY <2>2, <1>6 DEF TypeOK
    <3>2. handle[d] \in Elems(A) \cup Elems(B) /\ Cb[handle[d]].Proc = d
      BY <3>1, <1>3, <1>4 DEF Handles
    <3>3. handle[d] # x BY <3>2, <1>6
    <3>4. Cb'[handle[d]] = Cb[handle[d]] BY <3>2, <3>3, <1>7, <1>6 DEF TypeOK
    <3> QED BY <3>1, <3>2, <3>4, <1>8
  <2> QED BY <2>1, <2>2
<1>14. Running'
  <2>1. walk = "list" => Cur \in Elems(A) BY <1>3 DEF ListEnds, Elems
  <2>2. walk = "list" => Cb'[Cur] = Cb[Cur] BY <2>1, <1>6, <1>7 DEF TypeOK
  <2> QED BY <2>2, <1>9 DEF Running
<1> QED BY <1>1, <1>10, <1>11, <1>12, <1>13, <1>14

LEMMA DeleteLink ==
  ASSUME LinkInv, NEW c \in Callback, Delete_Callback(c)
  PROVE  LinkInv'
<1> USE DEF LinkInv
<1>1. PICK x : x = handle[c] OBVIOUS
<1>2. PICK A : A = Chain(First) OBVIOUS
<1>3. PICK B : B = Chain(Time_First) OBVIOUS
<1>4. /\ x # Null /\ (c = running => walk = "list")
      /\ Cb' = [Cb EXCEPT ![x].Proc = Nop,
                          ![x].Mode = IF @ = "Repeat" THEN "Oneshot" ELSE @]
      /\ handle' = [handle EXCEPT ![c] = Null]
  BY <1>1 DEF Delete_Callback, May_Remove
<1>5. /\ Current_Time' = Current_Time /\ First_Timeout' = First_Timeout
      /\ Next_Cell' = Next_Cell /\ Recycled_Handles' = Recycled_Handles
      /\ allocated' = allocated /\ First' = First /\ Last' = Last
      /\ Time_First' = Time_First
      /\ walk' = walk /\ Cur' = Cur /\ Prev' = Prev /\ Final' = Final
      /\ running' = running
  BY DEF Delete_Callback, linkVars, listVars, timeListVars, walkVars
<1>6. Chain(First)' = A /\ Chain(Time_First)' = B /\ Lists'
  BY <1>2, <1>3, <1>5, ListsSame DEF linkVars
<1>7. x \in Elems(A) \cup Elems(B) /\ Cb[x].Proc = c
  BY <1>1, <1>2, <1>3, <1>4 DEF Handles
<1>8. Elems(A) \subseteq Cell /\ Elems(B) \subseteq Cell /\ Elems(A) \cap Elems(B) = {}
  BY <1>2, <1>3, ListsCells
<1>9. x \in Cell /\ Cb[x] \in Cb_Cell BY <1>7, <1>8 DEF TypeOK
<1>10. /\ Cb' \in [Cell -> Cb_Cell]
       /\ \A y \in Cell : y # x => Cb'[y] = Cb[y]
       /\ Cb'[x].Proc = Nop
       /\ Cb'[x].Mode = IF Cb[x].Mode = "Repeat" THEN "Oneshot" ELSE Cb[x].Mode
  BY <1>4, <1>9 DEF TypeOK, Cb_Cell
<1>11. TypeOK'
  <2>1. handle' \in [Callback -> Handle] BY <1>4 DEF TypeOK, Handle
  <2> QED BY <2>1, <1>5, <1>10 DEF TypeOK
<1>12. ListEnds' BY <1>2, <1>5, <1>6 DEF ListEnds
<1>13. Modes'
  <2>1. \A y \in Elems(B) : Cb'[y].Mode = "Timed"
    BY <1>3, <1>8, <1>10 DEF Modes
  <2>2. \A y \in Elems(A) : Cb'[y].Mode # "Timed"
    BY <1>2, <1>8, <1>10 DEF Modes
  <2> QED BY <2>1, <2>2, <1>6 DEF Modes
<1>14. Handles'
  <2> SUFFICES ASSUME NEW d \in Callback, handle'[d] # Null,
                      ~(d = running /\ walk = "time")
               PROVE  /\ handle'[d] \in Elems(A) \cup Elems(B)
                      /\ Cb'[handle'[d]].Proc = d
    BY <1>5, <1>6 DEF Handles
  <2>1. d # c /\ handle'[d] = handle[d] BY <1>4 DEF TypeOK
  <2>2. handle[d] \in Elems(A) \cup Elems(B) /\ Cb[handle[d]].Proc = d
    BY <2>1, <1>2, <1>3 DEF Handles
  <2>3. handle[d] # x BY <2>1, <2>2, <1>7
  <2>4. Cb'[handle[d]] = Cb[handle[d]] BY <2>2, <2>3, <1>8, <1>10
  <2> QED BY <2>1, <2>2, <2>4
<1>15. Running'
  <2>1. walk = "list" => Cur \in Elems(A) BY <1>2 DEF ListEnds, Elems
  <2>2. walk = "list" => Cb'[Cur] = Cb[Cur] \/ Cb'[Cur].Proc = Nop
    BY <2>1, <1>8, <1>10
  <2> QED BY <2>2, <1>5 DEF Running
<1> QED BY <1>6, <1>11, <1>12, <1>13, <1>14, <1>15

LEMMA UnregisterLink ==
  ASSUME LinkInv, NEW c \in Callback, Unregister_Callback_At(c)
  PROVE  LinkInv'
<1> USE DEF LinkInv
<1>1. PICK i \in 1 .. Len(Chain(Time_First)) :
        /\ Chain(Time_First)[i] = handle[c] /\ Cb[handle[c]].Proc = c
        /\ Lists' /\ Time_First' \in Handle
        /\ Chain(First)' = Chain(First)
        /\ Chain(Time_First)' = Removed(Chain(Time_First), i)
  BY UnregisterLists
<1>2. PICK A : A = Chain(First) OBVIOUS
<1>3. PICK B : B = Chain(Time_First) OBVIOUS
<1>4. PICK x : x = handle[c] OBVIOUS
<1>5. PICK B2 : B2 = Removed(B, i) OBVIOUS
<1>6. /\ B \in Seq(Cell) /\ Elems(A) \subseteq Cell /\ Elems(B) \subseteq Cell
      /\ Elems(A) \cap Elems(B) = {}
      /\ \A j, k \in 1 .. Len(B) : B[j] = B[k] => j = k
  BY <1>2, <1>3, ListsCells
<1>7. x \in Elems(B) /\ x \in Cell BY <1>1, <1>3, <1>4, <1>6 DEF Elems
<1>8. Elems(B2) = Elems(B) \ {x}
  <2>1. PICK k \in 1 .. Len(B) : k = i BY <1>1, <1>3
  <2>2. Elems(Removed(B, k)) = Elems(B) \ {B[k]} BY ONLY <1>6, RemovedType
  <2> QED BY <2>1, <2>2, <1>1, <1>3, <1>4, <1>5
<1>9. /\ Next_Cell' = [y \in Cell |-> Next_Cell'[y]]
      /\ \A y \in Cell : Next_Cell'[y] \in {Recycled_Handles, Next_Cell[x], Next_Cell[y]}
      /\ Recycled_Handles' = x
      /\ handle' = [handle EXCEPT ![c] = Null]
      /\ Current_Time' = Current_Time /\ First_Timeout' = First_Timeout
      /\ Cb' = Cb /\ allocated' = allocated /\ First' = First /\ Last' = Last
      /\ walk' = walk /\ Cur' = Cur /\ Prev' = Prev /\ Final' = Final
      /\ running' = running
  BY <1>4 DEF Unregister_Callback_At, Free_Handle, listVars, walkVars
<1>10. TypeOK'
  <2>1. Next_Cell' \in [Cell -> Handle] BY <1>7, <1>9 DEF TypeOK
  <2>2. handle' \in [Callback -> Handle] BY <1>9 DEF TypeOK, Handle
  <2>3. Recycled_Handles' \in Handle BY <1>7, <1>9 DEF Handle
  <2> QED BY <2>1, <2>2, <2>3, <1>1, <1>9 DEF TypeOK
<1>11. Chain(First)' = A /\ Chain(Time_First)' = B2 BY <1>1, <1>2, <1>3, <1>5
<1>12. ListEnds' BY <1>2, <1>9, <1>11 DEF ListEnds
<1>13. Modes' BY <1>2, <1>3, <1>8, <1>9, <1>11 DEF Modes
<1>14. Handles'
  <2> SUFFICES ASSUME NEW d \in Callback, handle'[d] # Null,
                      ~(d = running /\ walk = "time")
               PROVE  /\ handle'[d] \in Elems(A) \cup Elems(B2)
                      /\ Cb[handle'[d]].Proc = d
    BY <1>9, <1>11 DEF Handles
  <2>1. d # c /\ handle'[d] = handle[d] BY <1>9 DEF TypeOK
  <2>2. handle[d] \in Elems(A) \cup Elems(B) /\ Cb[handle[d]].Proc = d
    BY <2>1, <1>2, <1>3 DEF Handles
  <2>3. handle[d] # x BY <2>1, <2>2, <1>1, <1>4
  <2> QED BY <2>1, <2>2, <2>3, <1>8
<1>15. Running' BY <1>9 DEF Running
<1> QED BY <1>1, <1>10, <1>12, <1>13, <1>14, <1>15

(* The steps of the walk that neither link nor unlink a cell.                *)
LEMMA StartLink == ASSUME LinkInv, Start_Callbacks PROVE LinkInv'
<1> USE DEF LinkInv
<1>1. PICK A : A = Chain(First) OBVIOUS
<1>2. PICK B : B = Chain(Time_First) OBVIOUS
<1>3. /\ walk = "none" /\ First # Null
      /\ walk' = "list" /\ Cur' = First /\ Prev' = Null /\ Final' = Last
      /\ Current_Time' = Current_Time /\ First_Timeout' = First_Timeout
      /\ Cb' = Cb /\ Next_Cell' = Next_Cell /\ Recycled_Handles' = Recycled_Handles
      /\ allocated' = allocated /\ First' = First /\ Last' = Last
      /\ Time_First' = Time_First /\ handle' = handle /\ running' = running
  BY DEF Start_Callbacks, linkVars, listVars, timeListVars
<1>4. Chain(First)' = A /\ Chain(Time_First)' = B /\ Lists'
  BY <1>1, <1>2, <1>3, ListsSame DEF linkVars
<1>5. TypeOK' BY <1>3 DEF TypeOK, Handle
<1>6. ListEnds'
  <2>1. A \in Seq(Cell) /\ Len(A) \in Nat /\ First = IF Len(A) = 0 THEN Null ELSE A[1]
    BY <1>1, ListsCells
  <2>2. Len(A) # 0 /\ A # << >> /\ First = A[1] BY <2>1, <1>3
  <2>3. Last = A[Len(A)] BY <2>2, <1>1 DEF ListEnds
  <2>4. PICK i \in 1 .. Len(A), j \in 1 .. Len(A) : i = 1 /\ j = Len(A)
    <3>1. 1 \in 1 .. Len(A) /\ Len(A) \in 1 .. Len(A) BY <2>1, <2>2
    <3> QED BY <3>1
  <2>5. /\ A[i] = Cur' /\ A[j] = Final' /\ i <= j
        /\ Prev' = IF i = 1 THEN Null ELSE A[i - 1]
    BY <2>1, <2>2, <2>3, <2>4, <1>3
  <2> QED BY <2>2, <2>3, <2>5, <1>3, <1>4 DEF ListEnds
<1>7. Modes' BY <1>1, <1>2, <1>3, <1>4 DEF Modes
<1>8. running = Nobody BY <1>3 DEF Running
<1>9. Handles' BY <1>1, <1>2, <1>3, <1>4 DEF Handles
<1>10. Running' BY <1>3, <1>8 DEF Running
<1> QED BY <1>4, <1>5, <1>6, <1>7, <1>9, <1>10

LEMMA CallLink == ASSUME LinkInv, Call_Callback PROVE LinkInv'
<1> USE DEF LinkInv
<1>1. PICK A : A = Chain(First) OBVIOUS
<1>2. PICK B : B = Chain(Time_First) OBVIOUS
<1>3. /\ walk = "list" /\ running = Nobody /\ Cb[Cur].Proc # Nop
      /\ running' = Cb[Cur].Proc
      /\ Current_Time' = Current_Time /\ First_Timeout' = First_Timeout
      /\ Cb' = Cb /\ Next_Cell' = Next_Cell /\ Recycled_Handles' = Recycled_Handles
      /\ allocated' = allocated /\ First' = First /\ Last' = Last
      /\ Time_First' = Time_First /\ handle' = handle
      /\ walk' = walk /\ Cur' = Cur /\ Prev' = Prev /\ Final' = Final
  BY DEF Call_Callback, linkVars, listVars, timeListVars
<1>4. Chain(First)' = A /\ Chain(Time_First)' = B /\ Lists'
  BY <1>1, <1>2, <1>3, ListsSame DEF linkVars
<1>5. TypeOK'
  <2>1. Cur \in Elems(A) BY <1>1, <1>3 DEF ListEnds, Elems
  <2>2. Cur \in Cell BY <2>1, <1>1, ListsCells
  <2>3. Cb[Cur].Proc \in Callback BY <2>2, <1>3 DEF TypeOK, Cb_Cell
  <2> QED BY <2>3, <1>3 DEF TypeOK
<1>6. ListEnds' BY <1>1, <1>3, <1>4 DEF ListEnds
<1>7. Modes' BY <1>1, <1>2, <1>3, <1>4 DEF Modes
<1>8. Handles' BY <1>1, <1>2, <1>3, <1>4 DEF Handles
<1>9. Running' BY <1>3 DEF Running
<1> QED BY <1>4, <1>5, <1>6, <1>7, <1>8, <1>9

LEMMA TimeLink ==
  ASSUME LinkInv,
         \/ Start_Time_Callbacks \/ Return_Time_Callback \/ End_Time_Callbacks
         \/ \E t \in (Current_Time + 1) .. First_Timeout : Advance(t)
  PROVE  LinkInv'
<1> USE DEF LinkInv
<1>1. PICK A : A = Chain(First) OBVIOUS
<1>2. PICK B : B = Chain(Time_First) OBVIOUS
<1>3. /\ walk # "list" /\ walk' # "list"
      /\ Cb' = Cb /\ Next_Cell' = Next_Cell /\ Recycled_Handles' = Recycled_Handles
      /\ allocated' = allocated /\ First' = First /\ Last' = Last
      /\ Time_First' = Time_First
      /\ Cur' = Cur /\ Prev' = Prev /\ Final' = Final
  BY DEF Start_Time_Callbacks, Return_Time_Callback, End_Time_Callbacks, Advance,
         linkVars, listVars, timeListVars, walkVars
<1>4. Chain(First)' = A /\ Chain(Time_First)' = B /\ Lists'
  BY <1>1, <1>2, <1>3, ListsSame DEF linkVars
<1>5. ListEnds' BY <1>1, <1>3, <1>4 DEF ListEnds
<1>6. Modes' BY <1>1, <1>2, <1>3, <1>4 DEF Modes
<1>7. CASE Start_Time_Callbacks
  <2>1. /\ walk = "none" /\ walk' = "time" /\ running' = running /\ handle' = handle
        /\ Current_Time' = Current_Time /\ First_Timeout' = First_Timeout
    BY <1>7 DEF Start_Time_Callbacks, timeListVars
  <2>2. TypeOK' BY <2>1, <1>3 DEF TypeOK
  <2>3. running = Nobody BY <2>1 DEF Running
  <2>4. Handles' BY <2>1, <2>3, <1>1, <1>2, <1>3, <1>4 DEF Handles
  <2>5. Running' BY <2>1 DEF Running
  <2> QED BY <2>2, <2>4, <2>5, <1>4, <1>5, <1>6
<1>8. CASE Return_Time_Callback
  <2>1. /\ walk = "time" /\ walk' = walk /\ running # Nobody /\ running' = Nobody
        /\ handle' = [handle EXCEPT ![running] = Null]
        /\ Current_Time' = Current_Time /\ First_Timeout' = First_Timeout
    BY <1>8 DEF Return_Time_Callback, timeListVars
  <2>2. TypeOK' BY <2>1, <1>3 DEF TypeOK, Handle
  <2>3. \A d \in Callback : handle'[d] # Null => d # running /\ handle'[d] = handle[d]
    BY <2>1 DEF TypeOK
  <2>4. Handles' BY <2>1, <2>3, <1>1, <1>2, <1>3, <1>4 DEF Handles
  <2>5. Running' BY <2>1 DEF Running
  <2> QED BY <2>2, <2>4, <2>5, <1>4, <1>5, <1>6
<1>9. CASE End_Time_Callbacks
  <2>1. /\ walk = "time" /\ running = Nobody /\ walk' = "none" /\ running' = running
        /\ handle' = handle /\ Current_Time' = Current_Time
        /\ First_Timeout' = First_Time
    BY <1>9 DEF End_Time_Callbacks
  <2>2. First_Time \in Time
    <3>1. Time_First # Null => Cb[Time_First] \in Cb_Cell BY DEF TypeOK, Handle
    <3> QED BY <3>1, CallbackAssumption DEF First_Time, Cb_Cell, Time
  <2>3. TypeOK' BY <2>1, <2>2, <1>3 DEF TypeOK
  <2>4. Nobody \notin Callback BY CallbackAssumption
  <2>5. Handles' BY <2>1, <2>4, <1>1, <1>2, <1>3, <1>4 DEF Handles
  <2>6. Running' BY <2>1 DEF Running
  <2> QED BY <2>3, <2>5, <2>6, <1>4, <1>5, <1>6
<1>10. CASE \E t \in (Current_Time + 1) .. First_Timeout : Advance(t)
  <2>1. PICK t \in (Current_Time + 1) .. First_Timeout : Advance(t) BY <1>10
  <2>2. /\ walk = "none" /\ walk' = walk /\ running' = running
        /\ handle' = handle /\ Current_Time' = t /\ First_Timeout' = First_Timeout
    BY <2>1 DEF Advance, timeListVars, walkVars
  <2>3. t \in Time BY <2>1, CallbackAssumption DEF TypeOK, Time
  <2>4. TypeOK' BY <2>2, <2>3, <1>3 DEF TypeOK
  <2>5. Handles' BY <2>2, <1>1, <1>2, <1>3, <1>4 DEF Handles
  <2>6. Running' BY <2>2 DEF Running
  <2> QED BY <2>4, <2>5, <2>6, <1>4, <1>5, <1>6
<1> QED BY <1>7, <1>8, <1>9, <1>10

LEMMA CallTimeLink == ASSUME LinkInv, Call_Time_Callback PROVE LinkInv'
<1> USE DEF LinkInv
<1>1. PICK A : A = Chain(First) OBVIOUS
<1>2. PICK B : B = Chain(Time_First) OBVIOUS
<1>3. PICK x : x = Time_First OBVIOUS
<1>4. PICK B2 : B2 = Removed(B, 1) OBVIOUS
<1>5. /\ x \in Cell /\ 1 \in 1 .. Len(B) /\ B[1] = x
      /\ Lists' /\ Time_First' \in Handle
      /\ Chain(First)' = A /\ Chain(Time_First)' = B2
  BY <1>1, <1>2, <1>3, <1>4, CallTimeLists
<1>6. /\ B \in Seq(Cell) /\ Elems(A) \cap Elems(B) = {}
      /\ \A j, k \in 1 .. Len(B) : B[j] = B[k] => j = k
  BY <1>1, <1>2, ListsCells
<1>7. Elems(B2) = Elems(B) \ {x}
  <2>1. PICK k \in 1 .. Len(B) : k = 1 BY <1>5
  <2>2. Elems(Removed(B, k)) = Elems(B) \ {B[k]} BY ONLY <1>6, RemovedType
  <2> QED BY <2>1, <2>2, <1>4, <1>5
<1>8. /\ walk = "time" /\ running = Nobody
      /\ running' = IF Cb[x].Proc = Nop THEN Nobody ELSE Cb[x].Proc
      /\ Next_Cell' = [y \in Cell |-> Next_Cell'[y]]
      /\ \A y \in Cell : Next_Cell'[y] \in {Recycled_Handles, Null, Next_Cell[y]}
      /\ Recycled_Handles' = x
      /\ Current_Time' = Current_Time /\ First_Timeout' = First_Timeout
      /\ Cb' = Cb /\ allocated' = allocated /\ First' = First /\ Last' = Last
      /\ handle' = handle
      /\ walk' = walk /\ Cur' = Cur /\ Prev' = Prev /\ Final' = Final
  BY <1>3 DEF Call_Time_Callback, Free_Handle, listVars
<1>9. TypeOK'
  <2>1. Next_Cell' \in [Cell -> Handle] BY <1>8 DEF TypeOK, Handle
  <2>2. running' \in Callback \cup {Nobody} BY <1>5, <1>8 DEF TypeOK, Cb_Cell
  <2>3. Recycled_Handles' \in Handle BY <1>5, <1>8 DEF Handle
  <2> QED BY <2>1, <2>2, <2>3, <1>5, <1>8 DEF TypeOK
<1>10. ListEnds' BY <1>1, <1>5, <1>8 DEF ListEnds
<1>11. Modes' BY <1>1, <1>2, <1>5, <1>7, <1>8 DEF Modes
<1>12. Handles'
  <2> SUFFICES ASSUME NEW d \in Callback, handle[d] # Null, d # running'
               PROVE  /\ handle[d] \in Elems(A) \cup Elems(B2)
                      /\ Cb[handle[d]].Proc = d
    BY <1>5, <1>8 DEF Handles
  <2>1. d # running /\ d # Nop BY <1>8, CallbackAssumption
  <2>2. handle[d] \in Elems(A) \cup Elems(B) /\ Cb[handle[d]].Proc = d
    BY <2>1, <1>1, <1>2 DEF Handles
  <2>3. handle[d] # x BY <2>1, <2>2, <1>8
  <2> QED BY <2>2, <2>3, <1>7
<1>13. Running' BY <1>8 DEF Running
<1> QED BY <1>5, <1>9, <1>10, <1>11, <1>12, <1>13

LEMMA NextLink == ASSUME LinkInv, Next_Callback PROVE LinkInv'
<1> USE DEF LinkInv
<1>1. PICK A : A = Chain(First) OBVIOUS
<1>2. PICK B : B = Chain(Time_First) OBVIOUS
<1>3. walk = "list" /\ (running = Nobody => Cb[Cur].Proc = Nop) BY DEF Next_Callback
<1>4. PICK i, j \in 1 .. Len(A) :
        /\ A[i] = Cur /\ A[j] = Final /\ i <= j
        /\ Prev = IF i = 1 THEN Null ELSE A[i - 1]
  BY <1>1, <1>3 DEF ListEnds
<1>5. /\ A \in Seq(Cell) /\ Len(A) \in Nat /\ Elems(A) \subseteq Cell
      /\ Elems(A) \cap Elems(B) = {}
      /\ \A k, l \in 1 .. Len(A) : A[k] = A[l] => k = l
  BY <1>1, <1>2, ListsCells
<1>6. Cur \in Elems(A) /\ Cur \in Cell BY <1>4, <1>5 DEF Elems
<1>7. PICK next : next = Next_Cell[Cur] OBVIOUS
<1>8. next = IF i = Len(A) THEN Null ELSE A[i + 1]
  <2>1. PICK N : N = Next_Cell OBVIOUS
  <2>2. PICK a : a = First OBVIOUS
  <2>3. List(N, A, a) BY <1>1, <2>1, <2>2 DEF Lists, Heap
  <2>4. N[A[i]] = IF i = Len(A) THEN Null ELSE A[i + 1] BY <2>3 DEF List
  <2> QED BY <2>1, <2>4, <1>4, <1>7
<1>9. PICK end \in BOOLEAN : end <=> i = j OBVIOUS
<1>10. Is_Final_Cell(next) <=> end
  BY <1>4, <1>5, <1>9 DEF Is_Final_Cell
<1>11. /\ running' = Nobody /\ walk' = (IF end THEN "none" ELSE "list")
       /\ Cur' = (IF end THEN Null ELSE next) /\ Final' = (IF end THEN Null ELSE Final)
       /\ Current_Time' = Current_Time /\ First_Timeout' = First_Timeout
       /\ Cb' = Cb /\ allocated' = allocated /\ Time_First' = Time_First
  BY <1>7, <1>10 DEF Next_Callback, timeListVars
<1>12. next \in Handle /\ (i < j => next = A[i + 1] /\ i + 1 \in 1 .. Len(A))
  <2>1. i # Len(A) => i + 1 \in 1 .. Len(A) BY <1>5
  <2>2. i # Len(A) => A[i + 1] \in Cell BY <2>1, <1>5
  <2>3. i < j => i # Len(A) BY <1>5
  <2> QED BY <2>1, <2>2, <2>3, <1>8 DEF Handle
<1>13. Running' BY <1>11 DEF Running
<1>14. CASE Cb[Cur].Mode = "Oneshot"
  <2>1. PICK A2 : A2 = Removed(A, i) OBVIOUS
  <2>2. /\ Lists' /\ First' \in Handle
        /\ Chain(First)' = A2 /\ Chain(Time_First)' = B
    BY <1>1, <1>2, <1>4, <1>14, <2>1, OneshotLists
  <2>3. A2 \in Seq(Cell) /\ Len(A2) = Len(A) - 1
    BY ONLY <1>5, <2>1, i \in 1 .. Len(A), RemovedType
  <2>4. \A k \in 1 .. Len(A) - 1 : Removed(A, i)[k] = IF k < i THEN A[k] ELSE A[k + 1]
    BY ONLY <1>5, i \in 1 .. Len(A), RemovedType
  <2>5. \A k \in 1 .. Len(A) - 1 : A2[k] = IF k < i THEN A[k] ELSE A[k + 1]
    BY ONLY <2>1, <2>4
  <2>6. Elems(A2) = Elems(A) \ {Cur}
    <3>1. Elems(A2) = Elems(A) \ {A[i]}
      BY ONLY <1>5, <2>1, i \in 1 .. Len(A), RemovedType
    <3> QED BY <3>1, <1>4
  <2>7. /\ Last' = (IF next = Null THEN Prev ELSE Last)
        /\ Prev' = (IF end THEN Null ELSE Prev)
        /\ handle' = [c \in Callback |-> IF c = running THEN Null ELSE handle[c]]
        /\ Next_Cell' = [y \in Cell |-> Next_Cell'[y]]
        /\ \A y \in Cell : Next_Cell'[y] \in {Recycled_Handles, next, Next_Cell[y]}
        /\ Recycled_Handles' = Cur
    BY <1>7, <1>10, <1>14 DEF Next_Callback, New_Last, Free_Handle
  <2>8. TypeOK'
    <3>1. Next_Cell' \in [Cell -> Handle] BY <2>7, <1>12 DEF TypeOK
    <3>2. handle' \in [Callback -> Handle] BY <2>7 DEF TypeOK, Handle
    <3>3. {Cur', Prev', Final', Last', Recycled_Handles'} \subseteq Handle
      BY <2>7, <1>6, <1>11, <1>12 DEF TypeOK, Handle
    <3> QED BY <3>1, <3>2, <3>3, <2>2, <1>11 DEF TypeOK
  <2>9. Last' = IF A2 = << >> THEN Null ELSE A2[Len(A2)]
    <3>1. Last = A[Len(A)]
      <4>1. A # << >> BY <1>4, <1>5
      <4> QED BY <4>1, <1>1 DEF ListEnds
    <3>2. (A2 = << >>) <=> (Len(A) = 1) BY <2>3, <1>5
    <3>3. CASE i = Len(A)
      <4>1. Last' = Prev BY <3>3, <2>7, <1>8
      <4>2. CASE Len(A) = 1 BY <3>2, <3>3, <4>1, <4>2, <1>4
      <4>3. CASE Len(A) # 1
        <5>1. Len(A) - 1 \in 1 .. Len(A) - 1 /\ Len(A) - 1 < i BY <3>3, <4>3, <1>5
        <5>2. A2[Len(A) - 1] = A[Len(A) - 1] BY <5>1, <2>5
        <5> QED BY <3>2, <3>3, <4>1, <4>3, <5>2, <1>4, <2>3
      <4> QED BY <4>2, <4>3
    <3>4. CASE i # Len(A)
      <4>1. next \in Cell
        <5>1. i + 1 \in 1 .. Len(A) BY <3>4, <1>5
        <5> QED BY <5>1, <3>4, <1>5, <1>8
      <4>2. next # Null BY <4>1, CallbackAssumption DEF Cell, Null
      <4>3. Last' = A[Len(A)] BY <3>1, <4>2, <2>7
      <4>4. Len(A) - 1 \in 1 .. Len(A) - 1 /\ ~(Len(A) - 1 < i) BY <3>4, <1>5
      <4>5. A2[Len(A) - 1] = A[Len(A) - 1 + 1] BY <4>4, <2>5
      <4>6. Len(A) - 1 + 1 = Len(A) /\ Len(A) # 1 BY <3>4, <1>5
      <4> QED BY <3>2, <4>3, <4>5, <4>6, <2>3
    <3> QED BY <3>3, <3>4
  <2>10. ASSUME walk' = "list"
         PROVE  \E k, l \in 1 .. Len(A2) :
                  /\ A2[k] = Cur' /\ A2[l] = Final' /\ k <= l
                  /\ Prev' = IF k = 1 THEN Null ELSE A2[k - 1]
    <3>1. ~end /\ i < j BY <2>10, <1>4, <1>9, <1>11
    <3>2. i \in 1 .. Len(A2) /\ j - 1 \in 1 .. Len(A2) /\ i <= j - 1
      BY <3>1, <2>3, <1>5
    <3>3. A2[i] = A[i + 1] BY <3>2, <2>3, <2>5
    <3>4. A2[j - 1] = A[j]
      <4>1. ~(j - 1 < i) /\ j - 1 + 1 = j BY <3>1
      <4> QED BY <3>2, <4>1, <2>3, <2>5
    <3>5. i # 1 => A2[i - 1] = A[i - 1]
      <4>1. i # 1 => i - 1 \in 1 .. Len(A) - 1 /\ i - 1 < i BY <3>2, <2>3
      <4> QED BY <4>1, <2>5
    <3> QED BY <3>1, <3>2, <3>3, <3>4, <3>5, <2>7, <1>4, <1>11, <1>12
  <2>11. ListEnds' BY <2>2, <2>9, <2>10 DEF ListEnds
  <2>12. Modes' BY <1>1, <1>2, <1>11, <2>2, <2>6 DEF Modes
  <2>13. Handles'
    <3> SUFFICES ASSUME NEW d \in Callback, handle'[d] # Null
                 PROVE  /\ handle'[d] \in Elems(A2) \cup Elems(B)
                        /\ Cb[handle'[d]].Proc = d
      BY <1>11, <2>2 DEF Handles
    <3>1. d # running /\ handle'[d] = handle[d] BY <2>7
    <3>2. handle[d] \in Elems(A) \cup Elems(B) /\ Cb[handle[d]].Proc = d
      BY <3>1, <1>1, <1>2, <1>3 DEF Handles
    <3>3. Cb[Cur].Proc # d BY <3>1, <1>3, CallbackAssumption DEF Running
    <3> QED BY <3>1, <3>2, <3>3, <2>6
  <2> QED BY <2>2, <2>8, <2>11, <2>12, <2>13, <1>13
<1>15. CASE Cb[Cur].Mode # "Oneshot"
  <2>1. /\ Prev' = (IF end THEN Null ELSE Cur) /\ handle' = handle
        /\ First' = First /\ Last' = Last /\ UNCHANGED linkVars
        /\ Next_Cell' = Next_Cell /\ Recycled_Handles' = Recycled_Handles
    BY <1>7, <1>10, <1>15 DEF Next_Callback, listVars, linkVars
  <2>2. Chain(First)' = A /\ Chain(Time_First)' = B /\ Lists'
    BY <1>1, <1>2, <1>11, <2>1, ListsSame
  <2>3. TypeOK' BY <1>6, <1>11, <1>12, <2>1 DEF TypeOK, Handle
  <2>4. ASSUME walk' = "list"
        PROVE  \E k, l \in 1 .. Len(A) :
                 /\ A[k] = Cur' /\ A[l] = Final' /\ k <= l
                 /\ Prev' = IF k = 1 THEN Null ELSE A[k - 1]
    <3>1. ~end /\ i < j BY <2>4, <1>4, <1>9, <1>11
    <3>2. PICK k \in 1 .. Len(A) : k = i + 1 BY <3>1, <1>12
    <3>3. k <= j /\ k # 1 /\ k - 1 = i BY <3>1, <3>2
    <3>4. A[k] = Cur' /\ A[j] = Final' BY <3>1, <3>2, <1>4, <1>11, <1>12
    <3>5. Prev' = A[k - 1] BY <3>1, <3>3, <1>4, <2>1
    <3> QED BY <3>3, <3>4, <3>5
  <2>5. ListEnds' BY <1>1, <2>1, <2>2, <2>4 DEF ListEnds
  <2>6. Modes' BY <1>1, <1>2, <1>11, <2>2 DEF Modes
  <2>7. Handles' BY <1>1, <1>2, <1>3, <1>11, <2>1, <2>2 DEF Handles
  <2> QED BY <2>2, <2>3, <2>5, <2>6, <2>7, <1>13
<1> QED BY <1>14, <1>15

LEMMA StutterLink == ASSUME LinkInv, UNCHANGED vars PROVE LinkInv'
<1> USE DEF LinkInv
<1>1. /\ Current_Time' = Current_Time /\ First_Timeout' = First_Timeout
      /\ Cb' = Cb /\ Next_Cell' = Next_Cell /\ Recycled_Handles' = Recycled_Handles
      /\ allocated' = allocated /\ First' = First /\ Last' = Last
      /\ Time_First' = Time_First /\ handle' = handle
      /\ walk' = walk /\ Cur' = Cur /\ Prev' = Prev /\ Final' = Final
      /\ running' = running
  BY DEF vars, linkVars, listVars, timeListVars, walkVars
<1>2. /\ Chain(First)' = Chain(First) /\ Chain(Time_First)' = Chain(Time_First)
      /\ Lists'
  BY <1>1, ListsSame DEF linkVars
<1>3. TypeOK' BY <1>1 DEF TypeOK
<1>4. ListEnds' BY <1>1, <1>2 DEF ListEnds
<1>5. Modes' BY <1>1, <1>2 DEF Modes
<1>6. Handles' BY <1>1, <1>2 DEF Handles
<1>7. Running' BY <1>1 DEF Running
<1> QED BY <1>2, <1>3, <1>4, <1>5, <1>6, <1>7

LEMMA NextKeepsLink == LinkInv /\ [Next]_vars => LinkInv'
<1> SUFFICES ASSUME LinkInv, [Next]_vars PROVE LinkInv' OBVIOUS
<1>1. ASSUME NEW c \in Callback, NEW mode \in {"Repeat", "Oneshot"},
             Register_Callback(c, mode)
      PROVE  LinkInv'
  BY <1>1, RegisterLink
<1>2. ASSUME NEW c \in Callback, NEW t \in Time, Register_Callback_At(c, t)
      PROVE  LinkInv'
  BY <1>2, RegisterAtLink
<1>3. ASSUME NEW c \in Callback, Delete_Callback(c) PROVE LinkInv'
  BY <1>3, DeleteLink
<1>4. ASSUME NEW c \in Callback, Unregister_Callback_At(c) PROVE LinkInv'
  BY <1>4, UnregisterLink
<1>5. CASE Start_Callbacks BY <1>5, StartLink
<1>6. CASE Call_Callback BY <1>6, CallLink
<1>7. CASE Next_Callback BY <1>7, NextLink
<1>8. CASE Call_Time_Callback BY <1>8, CallTimeLink
<1>9. CASE \/ Start_Time_Callbacks \/ Return_Time_Callback \/ End_Time_Callbacks
           \/ \E t \in (Current_Time + 1) .. First_Timeout : Advance(t)
  BY <1>9, TimeLink
<1>10. CASE UNCHANGED vars BY <1>10, StutterLink
<1> QED BY <1>1, <1>2, <1>3, <1>4, <1>5, <1>6, <1>7, <1>8, <1>9, <1>10
        DEF Next, User_Step, Walk_Step

LEMMA LinkInvariant == Spec => []LinkInv
<1>1. Init => LinkInv BY InitLink
<1>2. LinkInv /\ [Next]_vars => LinkInv' BY NextKeepsLink
<1> QED BY <1>1, <1>2, PTL DEF Spec

(* The elements of a concatenation.                                          *)
LEMMA ElemsConcat ==
  ASSUME NEW s \in Seq(Cell), NEW t \in Seq(Cell)
  PROVE  /\ s \o t \in Seq(Cell) /\ Len(s \o t) = Len(s) + Len(t)
         /\ Elems(s \o t) = Elems(s) \cup Elems(t)
<1>1. s \o t \in Seq(Cell) /\ Len(s \o t) = Len(s) + Len(t)
  BY ConcatProperties
<1>2. \A i \in 1 .. Len(s) + Len(t) :
        (s \o t)[i] = IF i <= Len(s) THEN s[i] ELSE t[i - Len(s)]
  BY ConcatProperties
<1>3. PICK u : u = s \o t OBVIOUS
<1>4. Len(s) \in Nat /\ Len(t) \in Nat /\ Len(u) = Len(s) + Len(t)
  BY <1>1, <1>3
<1>5. Elems(u) \subseteq Elems(s) \cup Elems(t)
  <2> SUFFICES ASSUME NEW i \in 1 .. Len(u)
               PROVE  u[i] \in Elems(s) \cup Elems(t)
    BY DEF Elems
  <2>1. CASE i <= Len(s)
    <3>1. u[i] = s[i] /\ i \in 1 .. Len(s) BY <2>1, <1>2, <1>3, <1>4
    <3> QED BY <3>1 DEF Elems
  <2>2. CASE ~(i <= Len(s))
    <3>1. u[i] = t[i - Len(s)] /\ i - Len(s) \in 1 .. Len(t)
      BY <2>2, <1>2, <1>3, <1>4
    <3> QED BY <3>1 DEF Elems
  <2> QED BY <2>1, <2>2
<1>6. Elems(s) \subseteq Elems(u)
  <2> SUFFICES ASSUME NEW i \in 1 .. Len(s) PROVE s[i] \in Elems(u) BY DEF Elems
  <2>1. i \in 1 .. Len(u) /\ u[i] = s[i] BY <1>2, <1>3, <1>4
  <2> QED BY <2>1 DEF Elems
<1>7. Elems(t) \subseteq Elems(u)
  <2> SUFFICES ASSUME NEW i \in 1 .. Len(t) PROVE t[i] \in Elems(u) BY DEF Elems
  <2>1. Len(s) + i \in 1 .. Len(u) /\ ~(Len(s) + i <= Len(s))
        /\ Len(s) + i - Len(s) = i
    BY <1>4
  <2>2. u[Len(s) + i] = t[i] BY <2>1, <1>2, <1>3, <1>4
  <2> QED BY <2>1, <2>2 DEF Elems
<1> QED BY <1>1, <1>3, <1>5, <1>6, <1>7

LEMMA LinkImpliesSound == LinkInv => HeapSound
<1> SUFFICES ASSUME LinkInv PROVE HeapSound OBVIOUS
<1> USE DEF LinkInv
<1>1. PICK A : A = Chain(First) OBVIOUS
<1>2. PICK B : B = Chain(Time_First) OBVIOUS
<1>3. PICK R : R = Chain(Recycled_Handles) OBVIOUS
<1>4. PICK N : N = Next_Cell OBVIOUS
<1>5. PICK n : n = allocated OBVIOUS
<1>6. PICK a : a = First OBVIOUS
<1>7. PICK b : b = Time_First OBVIOUS
<1>8. PICK r : r = Recycled_Handles OBVIOUS
<1>9. Heap(N, n, A, a, B, b, R, r)
  BY <1>1, <1>2, <1>3, <1>4, <1>5, <1>6, <1>7, <1>8 DEF Lists
<1>10. A \in Seq(Cell) /\ B \in Seq(Cell) /\ R \in Seq(Cell) BY <1>9 DEF Heap, List
<1>11. /\ A \o B \in Seq(Cell) /\ Len(A \o B) = Len(A) + Len(B)
       /\ Elems(A \o B) = Elems(A) \cup Elems(B)
  BY <1>10, ElemsConcat
<1>12. /\ Len(A \o B \o R) = Len(A) + Len(B) + Len(R)
       /\ Elems(A \o B \o R) = Elems(A) \cup Elems(B) \cup Elems(R)
  BY <1>10, <1>11, ElemsConcat
<1>13. Elems(A \o B \o R) = 1 .. n /\ Len(A \o B \o R) = n BY <1>9, <1>12 DEF Heap
<1> QED BY <1>1, <1>2, <1>3, <1>5, <1>13 DEF HeapSound, Elems

-----------------------------------------------------------------------------
(* The type invariant of Callbacks: it needs that links lead to cells, since *)
(* the callback that runs is read from the current cell.                     *)
THEOREM CallbacksTypeCorrect == Spec => []TypeOK
<1>1. LinkInv => TypeOK BY DEF LinkInv
<1> QED BY <1>1, LinkInvariant, PTL

(* For any set of users and any number of cells, every allocated cell is     *)
(* once on one of the two lists or on the list of recycled cells, and the    *)
(* ends of the list that Call_Callbacks walks are right, whatever callbacks  *)
(* register, delete and remove while it is walked.                           *)
THEOREM HeapAlwaysSound == Spec => []HeapSound
<1>1. LinkInv => HeapSound BY LinkImpliesSound
<1> QED BY <1>1, LinkInvariant, PTL
=============================================================================
