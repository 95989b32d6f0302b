------------------------- MODULE CallbacksRefinement -------------------------
(***************************************************************************)
(* Callbacks implements CallbackQueue, for any users and any number of       *)
(* cells: although callbacks change the list that is walked, and deleted     *)
(* cells stay on it, users see the queues they were promised.                *)
(*                                                                           *)
(* A queue is the sequence of the entries of the live cells of a list.       *)
(* First, what Only and the change of cells into entries do to sequences.    *)
(***************************************************************************)
EXTENDS CallbacksProofs

-----------------------------------------------------------------------------
(* Induction over sequences, for a set.                                      *)
LEMMA SequenceInduction ==
  ASSUME NEW S, NEW T, << >> \in T,
         \A s \in Seq(S), x \in S : s \in T => Append(s, x) \in T
  PROVE  Seq(S) \subseteq T
<1> DEFINE U == {n \in Nat : \A s \in Seq(S) : Len(s) = n => s \in T}
<1>1. 0 \in U
  <2>1. \A s \in Seq(S) : Len(s) = 0 => s = << >> BY EmptySeq
  <2> QED BY <2>1
<1>2. ASSUME NEW n \in U PROVE n + 1 \in U
  <2>1. n \in Nat /\ \A s \in Seq(S) : Len(s) = n => s \in T OBVIOUS
  <2> HIDE DEF U
  <2>2. ASSUME NEW s \in Seq(S), Len(s) = n + 1 PROVE s \in T
    <3>1. s # << >> BY <2>1, <2>2
    <3>2. PICK u \in Seq(S), x \in S : s = Append(u, x)
      BY <3>1, SequenceEmptyOrAppend
    <3>3. Len(u) = n BY <2>1, <2>2, <3>2, AppendProperties
    <3> QED BY <2>1, <3>2, <3>3
  <2> QED BY <2>1, <2>2 DEF U
<1> HIDE DEF U
<1>3. Nat \subseteq U BY <1>1, <1>2, SetInduction DEF U
<1>4. ASSUME NEW s \in Seq(S) PROVE s \in T
  <2>1. Len(s) \in U BY <1>3
  <2> QED BY <2>1 DEF U
<1> QED BY <1>4

(* The body of the recursive function of Only.                               *)
Only_Body(s, K, f, i) ==
  IF i = 0 THEN << >>
  ELSE IF s[i] \in K THEN Append(f[i - 1], s[i])
  ELSE f[i - 1]

Selects(s, K, f, n) == f = [i \in 0 .. n |-> Only_Body(s, K, f, i)]

(* The function that Only chooses exists.                                    *)
LEMMA SelectsExists ==
  ASSUME NEW s, NEW K, NEW n \in Nat
  PROVE  \E f : Selects(s, K, f, n)
<1> DEFINE T == {k \in Nat : \E f : Selects(s, K, f, k)}
<1>1. 0 \in T
  <2> DEFINE g == [i \in 0 .. 0 |-> << >>]
  <2>1. \A i \in 0 .. 0 : g[i] = Only_Body(s, K, g, i) BY DEF Only_Body
  <2>2. g = [i \in 0 .. 0 |-> g[i]] OBVIOUS
  <2> HIDE DEF g
  <2>3. Selects(s, K, g, 0) BY <2>1, <2>2 DEF Selects
  <2> QED BY <2>3
<1>2. ASSUME NEW k \in T PROVE k + 1 \in T
  <2>1. PICK f : Selects(s, K, f, k) BY <1>2
  <2> DEFINE g == [i \in 0 .. k + 1 |-> IF i <= k THEN f[i] ELSE Only_Body(s, K, f, i)]
  <2>2. \A i \in 0 .. k : f[i] = Only_Body(s, K, f, i) BY <2>1 DEF Selects
  <2>3. \A i \in 0 .. k + 1 : g[i] = Only_Body(s, K, f, i) BY <2>2
  <2>4. \A i \in 0 .. k : g[i] = f[i] BY <1>2
  <2>5. g = [i \in 0 .. k + 1 |-> g[i]] OBVIOUS
  <2> HIDE DEF g
  <2>6. ASSUME NEW i \in 0 .. k + 1 PROVE Only_Body(s, K, f, i) = Only_Body(s, K, g, i)
    <3>1. CASE i = 0 BY <3>1 DEF Only_Body
    <3>2. CASE i # 0
      <4>1. i - 1 \in 0 .. k BY <3>2, <1>2
      <4>2. g[i - 1] = f[i - 1] BY <2>4, <4>1
      <4> QED BY <4>2 DEF Only_Body
    <3> QED BY <3>1, <3>2
  <2>7. \A i \in 0 .. k + 1 : g[i] = Only_Body(s, K, g, i) BY <2>3, <2>6
  <2>8. Selects(s, K, g, k + 1) BY <2>5, <2>7 DEF Selects
  <2> QED BY <2>8, <1>2
<1> HIDE DEF T
<1>3. Nat \subseteq T BY <1>1, <1>2, SetInduction DEF T
<1> QED BY <1>3 DEF T

(* So Only is its last value.                                                *)
LEMMA OnlyChoice ==
  ASSUME NEW s, NEW K, Len(s) \in Nat
  PROVE  \E f : Selects(s, K, f, Len(s)) /\ Only(s, K) = f[Len(s)]
<1> DEFINE F == CHOOSE f : Selects(s, K, f, Len(s))
<1>1. Only(s, K) = F[Len(s)] BY DEF Only, Selects, Only_Body
<1>2. Selects(s, K, F, Len(s)) BY SelectsExists
<1> HIDE DEF F
<1> QED BY <1>1, <1>2

(* The laws of Only: on the empty sequence.                                  *)
LEMMA OnlyEmpty == \A K : Only(<< >>, K) = << >>
<1> SUFFICES ASSUME NEW K PROVE Only(<< >>, K) = << >> OBVIOUS
<1>1. PICK s : s = << >> OBVIOUS
<1>2. Len(s) = 0 BY <1>1
<1>3. PICK f : Selects(s, K, f, Len(s)) /\ Only(s, K) = f[Len(s)]
  BY <1>2, OnlyChoice
<1>4. f[0] = Only_Body(s, K, f, 0) BY <1>2, <1>3 DEF Selects
<1> QED BY <1>1, <1>2, <1>3, <1>4 DEF Only_Body

(* At the end of a sequence.                                                 *)
LEMMA OnlyAppend ==
  ASSUME NEW S, NEW s \in Seq(S), NEW x \in S, NEW K
  PROVE  Only(Append(s, x), K) = IF x \in K THEN Append(Only(s, K), x) ELSE Only(s, K)
<1>1. PICK n \in Nat : n = Len(s) OBVIOUS
<1>2. PICK t : t = Append(s, x) OBVIOUS
<1>3. /\ t \in Seq(S) /\ Len(t) = n + 1 /\ t[n + 1] = x
      /\ \A i \in 1 .. n : t[i] = s[i]
  BY <1>1, <1>2, AppendProperties
<1>4. PICK f : Selects(s, K, f, n) /\ Only(s, K) = f[n] BY <1>1, OnlyChoice
<1>5. PICK g : Selects(t, K, g, n + 1) /\ Only(t, K) = g[n + 1]
  <2>1. n + 1 \in Nat OBVIOUS
  <2> QED BY <2>1, <1>3, OnlyChoice
<1>6. \A i \in 0 .. n : f[i] = Only_Body(s, K, f, i) BY <1>4 DEF Selects
<1>7. \A i \in 0 .. n + 1 : g[i] = Only_Body(t, K, g, i) BY <1>5 DEF Selects
<1> DEFINE T == {i \in Nat : i <= n => f[i] = g[i]}
<1>8. 0 \in T
  <2>1. f[0] = << >> /\ g[0] = << >> BY <1>6, <1>7 DEF Only_Body
  <2> QED BY <2>1
<1>9. ASSUME NEW i \in T PROVE i + 1 \in T
  <2> SUFFICES ASSUME i + 1 <= n PROVE f[i + 1] = g[i + 1] BY <1>9
  <2>1. i \in Nat /\ i + 1 \in 0 .. n /\ i + 1 \in 0 .. n + 1 /\ i + 1 # 0
        /\ i + 1 - 1 = i /\ i + 1 \in 1 .. n
    BY <1>9
  <2>2. f[i] = g[i] BY <1>9, <2>1
  <2>3. t[i + 1] = s[i + 1] BY <1>3, <2>1
  <2>4. Only_Body(s, K, f, i + 1) = Only_Body(t, K, g, i + 1)
    BY <2>1, <2>2, <2>3 DEF Only_Body
  <2> QED BY <1>6, <1>7, <2>1, <2>4
<1> HIDE DEF T
<1>10. n \in T BY <1>8, <1>9, SetInduction DEF T
<1>11. f[n] = g[n] BY <1>10 DEF T
<1>12. g[n + 1] = IF x \in K THEN Append(g[n], x) ELSE g[n]
  <2>1. n + 1 \in 0 .. n + 1 /\ n + 1 # 0 /\ n + 1 - 1 = n OBVIOUS
  <2> QED BY <2>1, <1>3, <1>7 DEF Only_Body
<1> QED BY <1>2, <1>4, <1>5, <1>11, <1>12

(* Appending to a sequence.                                                  *)
LEMMA ElemsAppend ==
  ASSUME NEW S, NEW s \in Seq(S), NEW x \in S
  PROVE  Elems(Append(s, x)) = Elems(s) \cup {x}
<1>1. PICK t : t = Append(s, x) OBVIOUS
<1>2. /\ Len(s) \in Nat /\ Len(t) = Len(s) + 1 /\ t[Len(s) + 1] = x
      /\ \A i \in 1 .. Len(s) : t[i] = s[i]
  BY <1>1, AppendProperties
<1>3. ASSUME NEW i \in 1 .. Len(t) PROVE t[i] \in Elems(s) \cup {x}
  <2>1. i = Len(s) + 1 \/ i \in 1 .. Len(s) BY <1>2
  <2> QED BY <1>2, <2>1 DEF Elems
<1>4. ASSUME NEW i \in 1 .. Len(s) PROVE s[i] \in Elems(t)
  <2>1. i \in 1 .. Len(t) BY <1>2
  <2> QED BY <1>2, <2>1 DEF Elems
<1>5. x \in Elems(t)
  <2>1. Len(s) + 1 \in 1 .. Len(t) BY <1>2
  <2> QED BY <1>2, <2>1 DEF Elems
<1>6. Elems(t) \subseteq Elems(s) \cup {x} BY <1>3 DEF Elems
<1>7. Elems(s) \subseteq Elems(t) BY <1>4 DEF Elems
<1> QED BY <1>1, <1>5, <1>6, <1>7

(* An append at the end of a concatenation.                                  *)
LEMMA ConcatAppend ==
  ASSUME NEW S, NEW s \in Seq(S), NEW t \in Seq(S), NEW x \in S
  PROVE  s \o Append(t, x) = Append(s \o t, x)
<1>1. <<x>> \in Seq(S) /\ s \o t \in Seq(S) BY ConcatProperties
<1>2. Append(t, x) = t \o <<x>> /\ Append(s \o t, x) = (s \o t) \o <<x>>
  BY <1>1, AppendIsConcat
<1>3. (s \o t) \o <<x>> = s \o (t \o <<x>>) BY <1>1, ConcatAssociative
<1> QED BY <1>2, <1>3

(* What Only returns.                                                        *)
LEMMA OnlyType ==
  ASSUME NEW S, NEW K
  PROVE  \A s \in Seq(S) : /\ Only(s, K) \in Seq(S)
                           /\ Elems(Only(s, K)) = Elems(s) \cap K
<1> DEFINE T == {s \in Seq(S) : /\ Only(s, K) \in Seq(S)
                                /\ Elems(Only(s, K)) = Elems(s) \cap K}
<1>1. << >> \in T
  <2>1. << >> \in Seq(S) /\ Elems(<< >>) = {} BY DEF Elems
  <2> QED BY <2>1, OnlyEmpty
<1>2. ASSUME NEW s \in Seq(S), NEW x \in S, s \in T PROVE Append(s, x) \in T
  <2>1. Only(Append(s, x), K) = IF x \in K THEN Append(Only(s, K), x) ELSE Only(s, K)
    BY OnlyAppend
  <2>2. Append(s, x) \in Seq(S) BY AppendProperties
  <2>3. Elems(Append(s, x)) = Elems(s) \cup {x} BY ElemsAppend
  <2>4. Only(s, K) \in Seq(S) /\ Elems(Only(s, K)) = Elems(s) \cap K BY <1>2
  <2>5. Elems(Append(Only(s, K), x)) = Elems(Only(s, K)) \cup {x} BY <2>4, ElemsAppend
  <2>6. Append(Only(s, K), x) \in Seq(S) BY <2>4, AppendProperties
  <2> QED BY <2>1, <2>2, <2>3, <2>4, <2>5, <2>6
<1> HIDE DEF T
<1>3. Seq(S) \subseteq T BY <1>1, <1>2, SequenceInduction
<1> QED BY <1>3 DEF T

(* Only looks at K no further than the elements of s.                        *)
LEMMA OnlyAgree ==
  ASSUME NEW S, NEW s \in Seq(S), NEW K, NEW L, Elems(s) \cap K = Elems(s) \cap L
  PROVE  Only(s, K) = Only(s, L)
<1> DEFINE T == {u \in Seq(S) : Elems(u) \cap K = Elems(u) \cap L =>
                                  Only(u, K) = Only(u, L)}
<1>1. << >> \in T BY OnlyEmpty
<1>2. ASSUME NEW u \in Seq(S), NEW x \in S, u \in T PROVE Append(u, x) \in T
  <2>1. Append(u, x) \in Seq(S) BY AppendProperties
  <2>2. Elems(Append(u, x)) = Elems(u) \cup {x} BY ElemsAppend
  <2>3. /\ Only(Append(u, x), K) = IF x \in K THEN Append(Only(u, K), x) ELSE Only(u, K)
        /\ Only(Append(u, x), L) = IF x \in L THEN Append(Only(u, L), x) ELSE Only(u, L)
    BY OnlyAppend
  <2>4. ASSUME Elems(Append(u, x)) \cap K = Elems(Append(u, x)) \cap L
        PROVE  Only(Append(u, x), K) = Only(Append(u, x), L)
    <3>1. Elems(u) \cap K = Elems(u) \cap L /\ (x \in K <=> x \in L) BY <2>2, <2>4
    <3> QED BY <1>2, <2>3, <3>1
  <2> QED BY <2>1, <2>4
<1> HIDE DEF T
<1>3. s \in T BY <1>1, <1>2, SequenceInduction
<1> QED BY <1>3 DEF T

(* Nothing is selected of a sequence without elements of the set.            *)
LEMMA OnlyNone ==
  ASSUME NEW S, NEW s \in Seq(S), NEW K, Elems(s) \cap K = {}
  PROVE  Only(s, K) = << >>
<1> DEFINE u == Only(s, K)
<1>1. u \in Seq(S) /\ Elems(u) = {} BY OnlyType
<1> HIDE DEF u
<1>2. Len(u) = 0
  <2>1. Len(u) \in Nat BY <1>1
  <2>2. ASSUME Len(u) # 0 PROVE FALSE
    <3>1. 1 \in 1 .. Len(u) BY <2>1, <2>2
    <3> QED BY <3>1, <1>1 DEF Elems
  <2> QED BY <2>2
<1>3. u = << >> BY <1>1, <1>2, EmptySeq
<1> QED BY <1>3 DEF u

(* All is selected of a sequence whose elements are all in the set.          *)
LEMMA OnlyAll ==
  ASSUME NEW S, NEW s \in Seq(S), NEW K, Elems(s) \subseteq K
  PROVE  Only(s, K) = s
<1> DEFINE T == {u \in Seq(S) : Elems(u) \subseteq K => Only(u, K) = u}
<1>1. << >> \in T BY OnlyEmpty
<1>2. ASSUME NEW u \in Seq(S), NEW x \in S, u \in T PROVE Append(u, x) \in T
  <2>1. Append(u, x) \in Seq(S) BY AppendProperties
  <2>2. Elems(Append(u, x)) = Elems(u) \cup {x} BY ElemsAppend
  <2>3. Only(Append(u, x), K) = IF x \in K THEN Append(Only(u, K), x) ELSE Only(u, K)
    BY OnlyAppend
  <2> QED BY <1>2, <2>1, <2>2, <2>3
<1> HIDE DEF T
<1>3. s \in T BY <1>1, <1>2, SequenceInduction
<1> QED BY <1>3 DEF T

(* Selection goes through a concatenation.                                   *)
LEMMA OnlyConcat ==
  ASSUME NEW S, NEW s \in Seq(S), NEW t \in Seq(S), NEW K
  PROVE  Only(s \o t, K) = Only(s, K) \o Only(t, K)
<1> DEFINE T == {u \in Seq(S) : Only(s \o u, K) = Only(s, K) \o Only(u, K)}
<1>0. Only(s, K) \in Seq(S) BY OnlyType
<1>1. << >> \in T
  <2>1. PICK e \in Seq(S) : e = << >> BY EmptySeq
  <2>2. s \o e = s /\ Only(s, K) \o e = Only(s, K) BY <1>0, <2>1, ConcatEmptySeq
  <2>3. Only(e, K) = e BY <2>1, OnlyEmpty
  <2>4. e \in T BY <2>2, <2>3
  <2> QED BY <2>1, <2>4
<1>2. ASSUME NEW u \in Seq(S), NEW x \in S, u \in T PROVE Append(u, x) \in T
  <2>1. Append(u, x) \in Seq(S) /\ s \o u \in Seq(S) /\ Only(u, K) \in Seq(S)
    BY AppendProperties, ConcatProperties, OnlyType
  <2>2. s \o Append(u, x) = Append(s \o u, x) BY ConcatAppend
  <2>3. Only(s, K) \o Append(Only(u, K), x) = Append(Only(s, K) \o Only(u, K), x)
    BY <1>0, <2>1, ConcatAppend
  <2>4. Only(Append(s \o u, x), K)
          = IF x \in K THEN Append(Only(s \o u, K), x) ELSE Only(s \o u, K)
    BY <2>1, OnlyAppend
  <2>5. Only(Append(u, x), K) = IF x \in K THEN Append(Only(u, K), x) ELSE Only(u, K)
    BY OnlyAppend
  <2>6. Only(s \o u, K) = Only(s, K) \o Only(u, K) BY <1>2
  <2> QED BY <2>1, <2>2, <2>3, <2>4, <2>5, <2>6
<1> HIDE DEF T
<1>3. t \in T BY <1>1, <1>2, SequenceInduction
<1> QED BY <1>3 DEF T

(* Two selections are one.                                                   *)
LEMMA OnlyOnly ==
  ASSUME NEW S, NEW s \in Seq(S), NEW K, NEW L
  PROVE  Only(Only(s, K), L) = Only(s, K \cap L)
<1> DEFINE T == {u \in Seq(S) : Only(Only(u, K), L) = Only(u, K \cap L)}
<1>1. << >> \in T BY OnlyEmpty
<1>2. ASSUME NEW u \in Seq(S), NEW x \in S, u \in T PROVE Append(u, x) \in T
  <2>1. Append(u, x) \in Seq(S) /\ Only(u, K) \in Seq(S) BY AppendProperties, OnlyType
  <2>2. /\ Only(Append(u, x), K) = IF x \in K THEN Append(Only(u, K), x) ELSE Only(u, K)
        /\ Only(Append(u, x), K \cap L)
             = IF x \in K \cap L THEN Append(Only(u, K \cap L), x) ELSE Only(u, K \cap L)
    BY OnlyAppend
  <2>3. Only(Append(Only(u, K), x), L)
          = IF x \in L THEN Append(Only(Only(u, K), L), x) ELSE Only(Only(u, K), L)
    BY <2>1, OnlyAppend
  <2>4. Only(Only(u, K), L) = Only(u, K \cap L) BY <1>2
  <2>5. Only(Only(Append(u, x), K), L) = Only(Append(u, x), K \cap L)
    <3>1. CASE x \in K
      <4>1. Only(Only(Append(u, x), K), L) = Only(Append(Only(u, K), x), L)
        BY <2>2, <3>1
      <4>2. x \in K \cap L <=> x \in L BY <3>1
      <4> QED BY <2>2, <2>3, <2>4, <4>1, <4>2
    <3>2. CASE x \notin K BY <2>2, <2>4, <3>2
    <3> QED BY <3>1, <3>2
  <2> QED BY <2>1, <2>5
<1> HIDE DEF T
<1>3. s \in T BY <1>1, <1>2, SequenceInduction
<1> QED BY <1>3 DEF T

-----------------------------------------------------------------------------
(* The entries e of the elements of s.                                       *)
Maps(e, S, R) == e \in [S -> R]

Mapped(e, s) == [i \in 1 .. Len(s) |-> e[s[i]]]

(* The laws of Mapped: its length and elements.                              *)
LEMMA MappedType ==
  ASSUME NEW S, NEW R, NEW e, Maps(e, S, R), NEW s \in Seq(S)
  PROVE  /\ Mapped(e, s) \in Seq(R) /\ Len(Mapped(e, s)) = Len(s)
         /\ \A i \in 1 .. Len(s) : Mapped(e, s)[i] = e[s[i]]
<1>1. \A i \in 1 .. Len(s) : e[s[i]] \in R BY ElementOfSeq DEF Maps
<1>2. Mapped(e, s) \in [1 .. Len(s) -> R] BY <1>1 DEF Mapped
<1>3. Len(s) \in Nat OBVIOUS
<1>4. Mapped(e, s) \in Seq(R) /\ Len(Mapped(e, s)) = Len(s) BY <1>2, <1>3
<1> QED BY <1>4 DEF Mapped

(* Mapping goes through an append.                                           *)
LEMMA MappedAppend ==
  ASSUME NEW S, NEW R, NEW e, Maps(e, S, R), NEW s \in Seq(S), NEW x \in S
  PROVE  Mapped(e, Append(s, x)) = Append(Mapped(e, s), e[x])
<1>1. PICK t : t = Append(s, x) OBVIOUS
<1>2. PICK m : m = Mapped(e, s) OBVIOUS
<1>3. PICK u : u = Mapped(e, t) OBVIOUS
<1>4. PICK v : v = Append(m, e[x]) OBVIOUS
<1>5. /\ t \in Seq(S) /\ Len(t) = Len(s) + 1 /\ t[Len(s) + 1] = x
      /\ \A i \in 1 .. Len(s) : t[i] = s[i]
  BY <1>1, AppendProperties
<1>6. /\ m \in Seq(R) /\ Len(m) = Len(s) /\ \A i \in 1 .. Len(s) : m[i] = e[s[i]]
  BY <1>2, MappedType
<1>7. /\ u \in Seq(R) /\ Len(u) = Len(t) /\ \A i \in 1 .. Len(t) : u[i] = e[t[i]]
  <2>1. t \in Seq(S) BY <1>5
  <2>2. /\ Mapped(e, t) \in Seq(R) /\ Len(Mapped(e, t)) = Len(t)
        /\ \A i \in 1 .. Len(t) : Mapped(e, t)[i] = e[t[i]]
    BY ONLY <2>1, Maps(e, S, R), MappedType
  <2> QED BY ONLY <2>2, <1>3
<1>8. /\ v \in Seq(R) /\ Len(v) = Len(m) + 1 /\ v[Len(m) + 1] = e[x]
      /\ \A i \in 1 .. Len(m) : v[i] = m[i]
  <2>1. e[x] \in R BY DEF Maps
  <2> QED BY <1>4, <1>6, <2>1, AppendProperties
<1>9. ASSUME NEW i \in 1 .. Len(u) PROVE u[i] = v[i]
  <2>1. CASE i = Len(s) + 1 BY <2>1, <1>5, <1>6, <1>7, <1>8
  <2>2. CASE i # Len(s) + 1
    <3>1. i \in 1 .. Len(s) BY <2>2, <1>5, <1>7
    <3> QED BY <3>1, <1>5, <1>6, <1>7, <1>8
  <2> QED BY <2>1, <2>2
<1>10. Len(u) = Len(v) BY <1>5, <1>6, <1>7, <1>8
<1>11. u = v BY <1>7, <1>8, <1>9, <1>10, SeqEqual
<1> QED BY <1>1, <1>2, <1>3, <1>4, <1>11

(* The empty sequence is mapped to itself.                                   *)
LEMMA MappedEmpty == \A e : Mapped(e, << >>) = << >>
<1> SUFFICES ASSUME NEW e PROVE Mapped(e, << >>) = << >> OBVIOUS
<1>1. Len(<< >>) = 0 OBVIOUS
<1> QED BY <1>1 DEF Mapped

(* Mapping goes through a concatenation.                                     *)
LEMMA MappedConcat ==
  ASSUME NEW S, NEW R, NEW e, Maps(e, S, R), NEW s \in Seq(S), NEW t \in Seq(S)
  PROVE  Mapped(e, s \o t) = Mapped(e, s) \o Mapped(e, t)
<1> DEFINE T == {u \in Seq(S) : Mapped(e, s \o u) = Mapped(e, s) \o Mapped(e, u)}
<1>0. Mapped(e, s) \in Seq(R) BY MappedType
<1>1. << >> \in T
  <2>1. PICK n : n = << >> OBVIOUS
  <2>2. n \in Seq(S) BY <2>1, EmptySeq
  <2>3. s \o n = s /\ Mapped(e, s) \o n = Mapped(e, s) BY <1>0, <2>1, ConcatEmptySeq
  <2>4. Mapped(e, n) = n BY <2>1, MappedEmpty
  <2>5. n \in T BY <2>2, <2>3, <2>4
  <2> QED BY <2>1, <2>5
<1>2. ASSUME NEW u \in Seq(S), NEW x \in S, u \in T PROVE Append(u, x) \in T
  <2>1. Append(u, x) \in Seq(S) /\ s \o u \in Seq(S) /\ Mapped(e, u) \in Seq(R)
        /\ e[x] \in R
    BY AppendProperties, ConcatProperties, MappedType DEF Maps
  <2>2. s \o Append(u, x) = Append(s \o u, x) BY ConcatAppend
  <2>3. Mapped(e, s) \o Append(Mapped(e, u), e[x])
          = Append(Mapped(e, s) \o Mapped(e, u), e[x])
    BY <1>0, <2>1, ConcatAppend
  <2>4. Mapped(e, Append(s \o u, x)) = Append(Mapped(e, s \o u), e[x])
    <3>1. PICK v \in Seq(S) : v = s \o u BY <2>1
    <3>2. Mapped(e, Append(v, x)) = Append(Mapped(e, v), e[x])
      BY ONLY v \in Seq(S), x \in S, Maps(e, S, R), MappedAppend
    <3> QED BY <3>1, <3>2
  <2>5. Mapped(e, Append(u, x)) = Append(Mapped(e, u), e[x]) BY MappedAppend
  <2>6. Mapped(e, s \o u) = Mapped(e, s) \o Mapped(e, u) BY <1>2
  <2> QED BY <2>1, <2>2, <2>3, <2>4, <2>5, <2>6
<1> HIDE DEF T
<1>3. t \in T BY <1>1, <1>2, SequenceInduction
<1> QED BY <1>3 DEF T

(* Only the entries of the elements matter.                                  *)
LEMMA MappedAgree ==
  ASSUME NEW S, NEW s \in Seq(S), NEW e, NEW f, \A x \in Elems(s) : e[x] = f[x]
  PROVE  Mapped(e, s) = Mapped(f, s)
<1>1. \A i \in 1 .. Len(s) : e[s[i]] = f[s[i]] BY DEF Elems
<1> QED BY <1>1 DEF Mapped

(* A selection of entries is one of elements.                                *)
LEMMA OnlyMapped ==
  ASSUME NEW S, NEW R, NEW e, Maps(e, S, R), NEW s \in Seq(S), NEW M
  PROVE  Only(Mapped(e, s), M) = Mapped(e, Only(s, {x \in S : e[x] \in M}))
<1>0. PICK K : K = {x \in S : e[x] \in M} OBVIOUS
<1> DEFINE T == {u \in Seq(S) : Only(Mapped(e, u), M) = Mapped(e, Only(u, K))}
<1>1. << >> \in T
  <2>1. << >> \in Seq(S) BY EmptySeq
  <2> QED BY <2>1, OnlyEmpty, MappedEmpty
<1>2. ASSUME NEW u \in Seq(S), NEW x \in S, u \in T PROVE Append(u, x) \in T
  <2>1. /\ Append(u, x) \in Seq(S) /\ Mapped(e, u) \in Seq(R) /\ e[x] \in R
        /\ Only(u, K) \in Seq(S)
    <3>1. e[x] \in R BY DEF Maps
    <3> QED BY <3>1, AppendProperties, MappedType, OnlyType
  <2>2. Mapped(e, Append(u, x)) = Append(Mapped(e, u), e[x]) BY MappedAppend
  <2>3. Only(Append(Mapped(e, u), e[x]), M)
          = IF e[x] \in M THEN Append(Only(Mapped(e, u), M), e[x]) ELSE Only(Mapped(e, u), M)
    <3>1. PICK v \in Seq(R) : v = Mapped(e, u) BY <2>1
    <3>2. PICK y \in R : y = e[x] BY <2>1
    <3>3. Only(Append(v, y), M) = IF y \in M THEN Append(Only(v, M), y) ELSE Only(v, M)
      BY ONLY v \in Seq(R), y \in R, OnlyAppend
    <3> QED BY <3>1, <3>2, <3>3
  <2>4. Only(Append(u, x), K) = IF x \in K THEN Append(Only(u, K), x) ELSE Only(u, K)
    BY OnlyAppend
  <2>5. Mapped(e, Append(Only(u, K), x)) = Append(Mapped(e, Only(u, K)), e[x])
    <3>1. PICK v \in Seq(S) : v = Only(u, K) BY <2>1
    <3>2. Mapped(e, Append(v, x)) = Append(Mapped(e, v), e[x])
      BY ONLY v \in Seq(S), x \in S, Maps(e, S, R), MappedAppend
    <3> QED BY <3>1, <3>2
  <2>6. Only(Mapped(e, u), M) = Mapped(e, Only(u, K)) BY <1>2
  <2>7. x \in K <=> e[x] \in M BY <1>0
  <2>8. Only(Mapped(e, Append(u, x)), M) = Mapped(e, Only(Append(u, x), K))
    <3>1. CASE x \in K BY <3>1, <2>2, <2>3, <2>4, <2>5, <2>6, <2>7
    <3>2. CASE x \notin K BY <3>2, <2>2, <2>3, <2>4, <2>6, <2>7
    <3> QED BY <3>1, <3>2
  <2> QED BY <2>1, <2>8
<1> HIDE DEF T
<1>3. s \in T BY <1>1, <1>2, SequenceInduction
<1> QED BY <1>0, <1>3 DEF T

-----------------------------------------------------------------------------
(* The queue of the entries e of the elements of s that are in K.            *)
Queued(e, s, K) == Mapped(e, Only(s, K))

(* The laws of Queued, from those of Only and Mapped: its elements.          *)
LEMMA QueuedType ==
  ASSUME NEW S, NEW R, NEW e, Maps(e, S, R), NEW s \in Seq(S), NEW K
  PROVE  /\ Queued(e, s, K) \in Seq(R)
         /\ Elems(Queued(e, s, K)) = {e[x] : x \in Elems(s) \cap K}
<1>1. PICK u \in Seq(S) : u = Only(s, K) /\ Elems(u) = Elems(s) \cap K BY OnlyType
<1>2. PICK m : m = Mapped(e, u) OBVIOUS
<1>3. m \in Seq(R) /\ Len(m) = Len(u) /\ \A i \in 1 .. Len(u) : m[i] = e[u[i]]
  <2>1. /\ Mapped(e, u) \in Seq(R) /\ Len(Mapped(e, u)) = Len(u)
        /\ \A i \in 1 .. Len(u) : Mapped(e, u)[i] = e[u[i]]
    BY ONLY u \in Seq(S), Maps(e, S, R), MappedType
  <2> QED BY ONLY <2>1, <1>2
<1>4. Elems(m) = {e[x] : x \in Elems(u)}
  <2>1. Elems(m) = {m[i] : i \in 1 .. Len(u)} BY <1>3 DEF Elems
  <2>2. {m[i] : i \in 1 .. Len(u)} = {e[u[i]] : i \in 1 .. Len(u)} BY <1>3
  <2>3. {e[u[i]] : i \in 1 .. Len(u)} = {e[x] : x \in {u[i] : i \in 1 .. Len(u)}}
    OBVIOUS
  <2> QED BY <2>1, <2>2, <2>3 DEF Elems
<1> QED BY <1>1, <1>2, <1>3, <1>4 DEF Queued

(* Only the entries of the selected elements matter.                         *)
LEMMA QueuedAgree ==
  ASSUME NEW S, NEW s \in Seq(S), NEW e, NEW f, NEW K, NEW L,
         \A x \in Elems(s) : /\ x \in K <=> x \in L
                             /\ x \in K => e[x] = f[x]
  PROVE  Queued(e, s, K) = Queued(f, s, L)
<1>1. Only(s, K) = Only(s, L)
  <2>1. Elems(s) \cap K = Elems(s) \cap L OBVIOUS
  <2> QED BY <2>1, OnlyAgree
<1>2. Only(s, K) \in Seq(S) /\ Elems(Only(s, K)) = Elems(s) \cap K BY OnlyType
<1>3. Mapped(e, Only(s, K)) = Mapped(f, Only(s, K)) BY <1>2, MappedAgree
<1> QED BY <1>1, <1>3 DEF Queued

(* The queue of a concatenation.                                             *)
LEMMA QueuedConcat ==
  ASSUME NEW S, NEW R, NEW e, Maps(e, S, R), NEW s \in Seq(S), NEW t \in Seq(S), NEW K
  PROVE  Queued(e, s \o t, K) = Queued(e, s, K) \o Queued(e, t, K)
<1>1. PICK u \in Seq(S) : u = Only(s, K) BY OnlyType
<1>2. PICK v \in Seq(S) : v = Only(t, K) BY OnlyType
<1>3. Only(s \o t, K) = u \o v
  <2>1. Only(s \o t, K) = Only(s, K) \o Only(t, K)
    BY ONLY s \in Seq(S), t \in Seq(S), OnlyConcat
  <2> QED BY <2>1, <1>1, <1>2
<1>4. Mapped(e, u \o v) = Mapped(e, u) \o Mapped(e, v)
  BY ONLY u \in Seq(S), v \in Seq(S), Maps(e, S, R), MappedConcat
<1> QED BY <1>1, <1>2, <1>3, <1>4 DEF Queued

(* The queue of the empty sequence.                                          *)
LEMMA QueuedEmpty == \A e, K : Queued(e, << >>, K) = << >>
  BY OnlyEmpty, MappedEmpty DEF Queued

(* The queue of a sequence without elements of the set.                      *)
LEMMA QueuedNone ==
  ASSUME NEW S, NEW s \in Seq(S), NEW e, NEW K, Elems(s) \cap K = {}
  PROVE  Queued(e, s, K) = << >>
  BY OnlyNone, MappedEmpty DEF Queued

(* The queue of a sequence of one element.                                   *)
LEMMA QueuedSingle ==
  ASSUME NEW S, NEW R, NEW e, Maps(e, S, R), NEW x \in S, NEW K
  PROVE  Queued(e, <<x>>, K) = IF x \in K THEN <<e[x]>> ELSE << >>
<1>1. PICK s \in Seq(S) : s = << >> BY EmptySeq
<1>2. <<x>> = Append(s, x) BY <1>1
<1>3. Only(s, K) = s BY <1>1, OnlyEmpty
<1>4. Only(Append(s, x), K) = IF x \in K THEN Append(Only(s, K), x) ELSE Only(s, K)
  BY ONLY s \in Seq(S), x \in S, OnlyAppend
<1>5. Mapped(e, s) = << >> BY <1>1, MappedEmpty
<1>6. Mapped(e, Append(s, x)) = Append(Mapped(e, s), e[x])
  BY ONLY s \in Seq(S), x \in S, Maps(e, S, R), MappedAppend
<1>7. Append(<< >>, e[x]) = <<e[x]>> OBVIOUS
<1>8. CASE x \in K BY <1>8, <1>2, <1>3, <1>4, <1>5, <1>6, <1>7 DEF Queued
<1>9. CASE x \notin K BY <1>9, <1>2, <1>3, <1>4, <1>5 DEF Queued
<1> QED BY <1>8, <1>9

(* A part of a queue is the queue of part of the elements.                   *)
LEMMA OnlyQueued ==
  ASSUME NEW S, NEW R, NEW e, Maps(e, S, R), NEW s \in Seq(S), NEW K, NEW M
  PROVE  Only(Queued(e, s, K), M) = Queued(e, s, {x \in S : x \in K /\ e[x] \in M})
<1>1. PICK u \in Seq(S) : u = Only(s, K) BY OnlyType
<1>2. PICK L : L = {x \in S : e[x] \in M} OBVIOUS
<1>3. Only(Mapped(e, u), M) = Mapped(e, Only(u, {x \in S : e[x] \in M}))
  BY ONLY u \in Seq(S), Maps(e, S, R), OnlyMapped
<1>4. Only(u, L) = Only(s, K \cap L) BY <1>1, OnlyOnly
<1>5. K \cap L = {x \in S : x \in K /\ e[x] \in M} BY <1>2
<1> QED BY <1>1, <1>2, <1>3, <1>4, <1>5 DEF Queued

-----------------------------------------------------------------------------
(* Queues of lists from which a cell is unlinked or into which one is linked.*)

(* The cells of a part of a list.                                            *)
LEMMA ElemsSubSeq ==
  ASSUME NEW s \in Seq(Cell), NEW m \in 1 .. Len(s) + 1, NEW n \in 0 .. Len(s)
  PROVE  /\ SubSeq(s, m, n) \in Seq(Cell)
         /\ Elems(SubSeq(s, m, n)) = {s[k] : k \in m .. n}
<1>1. PICK u : u = SubSeq(s, m, n) OBVIOUS
<1>2. Len(s) \in Nat /\ m \in Int /\ n \in Int OBVIOUS
<1>3. \A k \in m .. n : s[k] \in Cell
  <2> SUFFICES ASSUME NEW k \in m .. n PROVE s[k] \in Cell OBVIOUS
  <2>1. k \in 1 .. Len(s) BY <1>2
  <2> QED BY <2>1
<1>4. /\ u \in Seq(Cell) /\ Len(u) = (IF m <= n THEN n - m + 1 ELSE 0)
      /\ \A i \in 1 .. n - m + 1 : u[i] = s[m + i - 1]
  BY <1>1, <1>2, <1>3, SubSeqProperties
<1>5. ASSUME NEW i \in 1 .. Len(u) PROVE \E k \in m .. n : u[i] = s[k]
  <2>1. m <= n /\ i \in 1 .. n - m + 1 BY <1>2, <1>4
  <2>2. m + i - 1 \in m .. n BY <1>2, <2>1
  <2> QED BY <1>4, <2>1, <2>2
<1>6. ASSUME NEW k \in m .. n PROVE \E i \in 1 .. Len(u) : u[i] = s[k]
  <2>1. k - m + 1 \in 1 .. n - m + 1 /\ m + (k - m + 1) - 1 = k /\ m <= n BY <1>2
  <2>2. u[k - m + 1] = s[k] BY <1>4, <2>1
  <2> QED BY <1>4, <2>1, <2>2
<1>7. {u[i] : i \in 1 .. Len(u)} = {s[k] : k \in m .. n}
  <2>1. \A y \in {u[i] : i \in 1 .. Len(u)} : y \in {s[k] : k \in m .. n}
    BY ONLY <1>5
  <2>2. \A y \in {s[k] : k \in m .. n} : y \in {u[i] : i \in 1 .. Len(u)}
    BY ONLY <1>6
  <2> QED BY ONLY <2>1, <2>2
<1> QED BY <1>1, <1>4, <1>7 DEF Elems

(* A list and the list with one cell more, in two parts.                     *)
LEMMA InsertedSplit ==
  ASSUME NEW s \in Seq(Cell), NEW i \in 0 .. Len(s), NEW x \in Cell
  PROVE  /\ Inserted(s, i, x) = (SubSeq(s, 1, i) \o <<x>>) \o SubSeq(s, i + 1, Len(s))
         /\ s = SubSeq(s, 1, i) \o SubSeq(s, i + 1, Len(s))
<1>0. Len(s) \in Nat /\ i \in Int /\ \A k \in 1 .. Len(s) : s[k] \in Cell OBVIOUS
<1>1. s = SubSeq(s, 1, i) \o SubSeq(s, i + 1, Len(s))
  <2>1. 1 \in 1 .. Len(s) + 1 /\ i \in 1 - 1 .. Len(s) /\ Len(s) \in i .. Len(s) BY <1>0
  <2>2. SubSeq(s, 1, i) \o SubSeq(s, i + 1, Len(s)) = SubSeq(s, 1, Len(s))
    BY <2>1, ConcatAdjacentSubSeq
  <2> QED BY <2>2, SubSeqFull
<1>2. PICK a \in Seq(Cell) :
        a = SubSeq(s, 1, i) /\ Len(a) = i /\ \A k \in 1 .. i : a[k] = s[k]
  <2>1. \A k \in 1 .. i : s[k] \in Cell BY <1>0
  <2>2. /\ SubSeq(s, 1, i) \in Seq(Cell)
        /\ Len(SubSeq(s, 1, i)) = (IF 1 <= i THEN i - 1 + 1 ELSE 0)
        /\ \A k \in 1 .. i - 1 + 1 : SubSeq(s, 1, i)[k] = s[1 + k - 1]
    BY <2>1, <1>0, SubSeqProperties
  <2>3. \A k \in 1 .. i : SubSeq(s, 1, i)[k] = s[k]
    <3> SUFFICES ASSUME NEW k \in 1 .. i PROVE SubSeq(s, 1, i)[k] = s[k] OBVIOUS
    <3>1. k \in 1 .. i - 1 + 1 /\ 1 + k - 1 = k BY <1>0
    <3> QED BY <2>2, <3>1
  <2>4. Len(SubSeq(s, 1, i)) = i BY <2>2, <1>0
  <2> QED BY <2>2, <2>3, <2>4
<1>3. PICK b \in Seq(Cell) :
        /\ b = SubSeq(s, i + 1, Len(s)) /\ Len(b) = Len(s) - i
        /\ \A k \in 1 .. Len(s) - i : b[k] = s[i + k]
  <2>1. \A k \in i + 1 .. Len(s) : s[k] \in Cell BY <1>0
  <2>2. /\ SubSeq(s, i + 1, Len(s)) \in Seq(Cell)
        /\ Len(SubSeq(s, i + 1, Len(s)))
             = (IF i + 1 <= Len(s) THEN Len(s) - (i + 1) + 1 ELSE 0)
        /\ \A k \in 1 .. Len(s) - (i + 1) + 1 :
             SubSeq(s, i + 1, Len(s))[k] = s[i + 1 + k - 1]
    BY <2>1, <1>0, SubSeqProperties
  <2>3. \A k \in 1 .. Len(s) - i : SubSeq(s, i + 1, Len(s))[k] = s[i + k]
    <3> SUFFICES ASSUME NEW k \in 1 .. Len(s) - i
                 PROVE SubSeq(s, i + 1, Len(s))[k] = s[i + k]
      OBVIOUS
    <3>1. k \in 1 .. Len(s) - (i + 1) + 1 /\ i + 1 + k - 1 = i + k BY <1>0
    <3> QED BY <2>2, <3>1
  <2>4. Len(SubSeq(s, i + 1, Len(s))) = Len(s) - i BY <2>2, <1>0
  <2> QED BY <2>2, <2>3, <2>4
<1>4. PICK c \in Seq(Cell) :
        /\ c = a \o <<x>> /\ Len(c) = i + 1 /\ c[i + 1] = x
        /\ \A k \in 1 .. i : c[k] = a[k]
  <2>1. Append(a, x) = a \o <<x>>
    BY ONLY a \in Seq(Cell), x \in Cell, AppendIsConcat
  <2>2. /\ Append(a, x) \in Seq(Cell) /\ Len(Append(a, x)) = Len(a) + 1
        /\ Append(a, x)[Len(a) + 1] = x
        /\ \A k \in 1 .. Len(a) : Append(a, x)[k] = a[k]
    BY ONLY a \in Seq(Cell), x \in Cell, AppendProperties
  <2>3. PICK y : y = Append(a, x) OBVIOUS
  <2>4. y \in Seq(Cell) /\ y = a \o <<x>> BY ONLY <2>1, <2>2, <2>3
  <2>5. Len(y) = i + 1 /\ y[i + 1] = x /\ \A k \in 1 .. i : y[k] = a[k]
    BY ONLY <2>2, <2>3, <1>2
  <2> QED BY ONLY <2>4, <2>5
<1>5. PICK d \in Seq(Cell) :
        /\ d = c \o b /\ Len(d) = Len(s) + 1
        /\ \A k \in 1 .. Len(s) + 1 : d[k] = IF k <= i + 1 THEN c[k] ELSE b[k - (i + 1)]
  <2>1. Len(c) + Len(b) = Len(s) + 1
    <3>1. PICK n \in Nat : n = Len(s) BY <1>0
    <3>2. Len(c) + Len(b) = (i + 1) + (n - i) BY ONLY <3>1, <1>3, <1>4
    <3>3. (i + 1) + (n - i) = n + 1 BY ONLY n \in Nat, <1>0
    <3> QED BY ONLY <3>1, <3>2, <3>3
  <2>2. /\ c \o b \in Seq(Cell) /\ Len(c \o b) = Len(c) + Len(b)
        /\ \A k \in 1 .. Len(c) + Len(b) :
             (c \o b)[k] = IF k <= Len(c) THEN c[k] ELSE b[k - Len(c)]
    BY ONLY c \in Seq(Cell), b \in Seq(Cell), ConcatProperties
  <2>3. PICK y : y = c \o b OBVIOUS
  <2>4. Len(c) = i + 1 BY <1>4
  <2>5. y \in Seq(Cell) /\ Len(y) = Len(s) + 1 BY ONLY <2>1, <2>2, <2>3
  <2>6. \A k \in 1 .. Len(s) + 1 : y[k] = IF k <= i + 1 THEN c[k] ELSE b[k - (i + 1)]
    BY ONLY <2>1, <2>2, <2>3, <2>4
  <2> QED BY ONLY <2>3, <2>5, <2>6
<1>6. PICK t \in Seq(Cell) :
        /\ t = Inserted(s, i, x) /\ Len(t) = Len(s) + 1
        /\ \A k \in 1 .. Len(s) + 1 :
             t[k] = IF k <= i THEN s[k] ELSE IF k = i + 1 THEN x ELSE s[k - 1]
  <2>1. /\ Inserted(s, i, x) \in Seq(Cell) /\ Len(Inserted(s, i, x)) = Len(s) + 1
    BY InsertedType
  <2>2. \A k \in 1 .. Len(s) + 1 : Inserted(s, i, x)[k] =
          IF k <= i THEN s[k] ELSE IF k = i + 1 THEN x ELSE s[k - 1]
    BY InsertedType
  <2> QED BY <2>1, <2>2
<1>7. ASSUME NEW k \in 1 .. Len(s) + 1 PROVE t[k] = d[k]
  <2>1. CASE k <= i
    <3>1. k \in 1 .. i /\ k <= i + 1 BY <2>1, <1>0
    <3> QED BY <2>1, <3>1, <1>2, <1>4, <1>5, <1>6
  <2>2. CASE k = i + 1
    <3>1. ~(k <= i) /\ k <= i + 1 BY <2>2, <1>0
    <3> QED BY <2>2, <3>1, <1>4, <1>5, <1>6
  <2>3. CASE k > i + 1
    <3>1. ~(k <= i) /\ ~(k <= i + 1) /\ k # i + 1 /\ k - (i + 1) \in 1 .. Len(s) - i
          /\ i + (k - (i + 1)) = k - 1
      BY <2>3, <1>0
    <3>2. b[k - (i + 1)] = s[k - 1] BY <3>1, <1>3
    <3> QED BY <3>1, <3>2, <1>5, <1>6
  <2> QED BY <2>1, <2>2, <2>3, <1>0
<1>8. t = d BY <1>5, <1>6, <1>7, SeqEqual
<1> QED BY <1>1, <1>2, <1>3, <1>4, <1>5, <1>6, <1>8

(* A list without its i-th cell, from what it is with it.                    *)
LEMMA RemovedInserted ==
  ASSUME NEW s \in Seq(Cell), NEW i \in 1 .. Len(s),
         \A j, k \in 1 .. Len(s) : s[j] = s[k] => j = k
  PROVE  /\ Inserted(Removed(s, i), i - 1, s[i]) = s
         /\ s[i] \notin Elems(Removed(s, i)) /\ i - 1 \in 0 .. Len(Removed(s, i))
         /\ Removed(s, i) \in Seq(Cell)
<1>0. Len(s) \in Nat /\ i \in Int /\ s[i] \in Cell OBVIOUS
<1>1. PICK r \in Seq(Cell) :
        /\ r = Removed(s, i) /\ Len(r) = Len(s) - 1
        /\ \A k \in 1 .. Len(s) - 1 : r[k] = IF k < i THEN s[k] ELSE s[k + 1]
        /\ Elems(r) = Elems(s) \ {s[i]}
  <2>1. Removed(s, i) \in Seq(Cell) /\ Len(Removed(s, i)) = Len(s) - 1
    BY RemovedType
  <2>2. \A k \in 1 .. Len(s) - 1 : Removed(s, i)[k] = IF k < i THEN s[k] ELSE s[k + 1]
    BY RemovedType
  <2>3. Elems(Removed(s, i)) = Elems(s) \ {s[i]} BY RemovedType
  <2> QED BY <2>1, <2>2, <2>3
<1>2. PICK j \in 0 .. Len(r) : j = i - 1
  <2>1. i - 1 \in 0 .. Len(r) BY <1>0, <1>1
  <2> QED BY <2>1
<1>3. PICK x \in Cell : x = s[i] BY <1>0
<1>4. PICK t \in Seq(Cell) :
        /\ t = Inserted(r, j, x) /\ Len(t) = Len(r) + 1
        /\ \A k \in 1 .. Len(r) + 1 :
             t[k] = IF k <= j THEN r[k] ELSE IF k = j + 1 THEN x ELSE r[k - 1]
  <2>1. /\ Inserted(r, j, x) \in Seq(Cell) /\ Len(Inserted(r, j, x)) = Len(r) + 1
    BY InsertedType
  <2>2. \A k \in 1 .. Len(r) + 1 : Inserted(r, j, x)[k] =
          IF k <= j THEN r[k] ELSE IF k = j + 1 THEN x ELSE r[k - 1]
    BY InsertedType
  <2> QED BY <2>1, <2>2
<1>5. ASSUME NEW k \in 1 .. Len(s) PROVE t[k] = s[k]
  <2>0. k \in 1 .. Len(r) + 1 BY <1>0, <1>1
  <2>1. CASE k < i
    <3>1. k <= j /\ k \in 1 .. Len(s) - 1 BY <2>1, <1>0, <1>2
    <3> QED BY <2>0, <2>1, <3>1, <1>1, <1>4
  <2>2. CASE k = i
    <3>1. ~(k <= j) /\ k = j + 1 BY <2>2, <1>0, <1>2
    <3> QED BY <2>0, <2>2, <3>1, <1>3, <1>4
  <2>3. CASE k > i
    <3>1. ~(k <= j) /\ k # j + 1 /\ k - 1 \in 1 .. Len(s) - 1 /\ ~(k - 1 < i)
          /\ k - 1 + 1 = k
      BY <2>3, <1>0, <1>2
    <3> QED BY <2>0, <3>1, <1>1, <1>4
  <2> QED BY <2>1, <2>2, <2>3, <1>0
<1>6. Len(t) = Len(s) BY <1>0, <1>1, <1>4
<1>7. t = s BY <1>5, <1>6, SeqEqual
<1> QED BY <1>1, <1>2, <1>3, <1>4, <1>7

(* The queue of a list in two parts.                                         *)
LEMMA QueuedCells ==
  ASSUME NEW R, NEW e, Maps(e, Cell, R), NEW a \in Seq(Cell), NEW b \in Seq(Cell), NEW K
  PROVE  Queued(e, a \o b, K) = Queued(e, a, K) \o Queued(e, b, K)
  BY ONLY Maps(e, Cell, R), QueuedConcat

(* The queue of a list of one cell.                                          *)
One(e, x, K) == IF x \in K THEN <<e[x]>> ELSE << >>

(* The queue of a list with one cell more.                                   *)
LEMMA QueuedInserted ==
  ASSUME NEW R, NEW e, Maps(e, Cell, R), NEW s \in Seq(Cell), NEW i \in 0 .. Len(s),
         NEW x \in Cell, NEW K
  PROVE  /\ Queued(e, Inserted(s, i, x), K)
              = (Queued(e, SubSeq(s, 1, i), K) \o One(e, x, K))
                  \o Queued(e, SubSeq(s, i + 1, Len(s)), K)
         /\ Queued(e, s, K)
              = Queued(e, SubSeq(s, 1, i), K) \o Queued(e, SubSeq(s, i + 1, Len(s)), K)
<1>0. \A u, v \in Seq(Cell) : Queued(e, u \o v, K) = Queued(e, u, K) \o Queued(e, v, K)
  BY QueuedCells
<1>1. PICK a \in Seq(Cell) : a = SubSeq(s, 1, i)
  <2>1. PICK m \in 1 .. Len(s) + 1 : m = 1 OBVIOUS
  <2>2. SubSeq(s, m, i) \in Seq(Cell)
    BY ONLY s \in Seq(Cell), m \in 1 .. Len(s) + 1, i \in 0 .. Len(s), ElemsSubSeq
  <2> QED BY ONLY <2>1, <2>2
<1>2. PICK b \in Seq(Cell) : b = SubSeq(s, i + 1, Len(s))
  <2>1. PICK m \in 1 .. Len(s) + 1 : m = i + 1 OBVIOUS
  <2>2. PICK n \in 0 .. Len(s) : n = Len(s) OBVIOUS
  <2>3. SubSeq(s, m, n) \in Seq(Cell)
    BY ONLY s \in Seq(Cell), m \in 1 .. Len(s) + 1, n \in 0 .. Len(s), ElemsSubSeq
  <2> QED BY ONLY <2>1, <2>2, <2>3
<1>5. Inserted(s, i, x) = (a \o <<x>>) \o b /\ s = a \o b
  <2>1. /\ Inserted(s, i, x) = (SubSeq(s, 1, i) \o <<x>>) \o SubSeq(s, i + 1, Len(s))
        /\ s = SubSeq(s, 1, i) \o SubSeq(s, i + 1, Len(s))
    BY ONLY s \in Seq(Cell), i \in 0 .. Len(s), x \in Cell, InsertedSplit
  <2> QED BY ONLY <2>1, <1>1, <1>2
<1>6. PICK c \in Seq(Cell) : c = <<x>>
  <2>1. <<x>> \in Seq(Cell) OBVIOUS
  <2> QED BY <2>1
<1>7. PICK d \in Seq(Cell) : d = a \o c
  <2>1. a \o c \in Seq(Cell)
    BY ONLY a \in Seq(Cell), c \in Seq(Cell), ConcatProperties
  <2> QED BY <2>1
<1>8. Queued(e, d \o b, K) = Queued(e, d, K) \o Queued(e, b, K)
  BY <1>0
<1>9. Queued(e, a \o c, K) = Queued(e, a, K) \o Queued(e, c, K)
  BY <1>0
<1>10. Queued(e, a \o b, K) = Queued(e, a, K) \o Queued(e, b, K)
  BY <1>0
<1>11. Queued(e, <<x>>, K) = One(e, x, K)
  BY ONLY x \in Cell, Maps(e, Cell, R), QueuedSingle DEF One
<1>12. Queued(e, Inserted(s, i, x), K)
         = (Queued(e, a, K) \o One(e, x, K)) \o Queued(e, b, K)
  BY ONLY <1>5, <1>6, <1>7, <1>8, <1>9, <1>11
<1>13. Queued(e, s, K) = Queued(e, a, K) \o Queued(e, b, K) BY ONLY <1>5, <1>10
<1> QED BY ONLY <1>1, <1>2, <1>12, <1>13

(* Prefixes, suffixes and the whole list.                                    *)
LEMMA SubSeqEnds ==
  ASSUME NEW s \in Seq(Cell)
  PROVE  /\ SubSeq(s, 1, 0) = << >> /\ SubSeq(s, Len(s) + 1, Len(s)) = << >>
         /\ SubSeq(s, 1, Len(s)) = s
<1>1. 1 \in Int /\ 0 \in Int /\ 0 < 1 OBVIOUS
<1>2. Len(s) + 1 \in Int /\ Len(s) \in Int /\ Len(s) < Len(s) + 1 OBVIOUS
<1>3. SubSeq(s, 1, 0) = << >> BY ONLY <1>1, SubSeqEmpty
<1>4. SubSeq(s, Len(s) + 1, Len(s)) = << >> BY ONLY <1>2, SubSeqEmpty
<1>5. SubSeq(s, 1, Len(s)) = s BY SubSeqFull
<1> QED BY <1>3, <1>4, <1>5

(* A cell that is not live does not change the queue when it joins the list. *)
LEMMA QueuedInsertedDead ==
  ASSUME NEW R, NEW e, Maps(e, Cell, R), NEW s \in Seq(Cell), NEW i \in 0 .. Len(s),
         NEW x \in Cell, NEW K, x \notin K
  PROVE  Queued(e, Inserted(s, i, x), K) = Queued(e, s, K)
<1>1. PICK a : a = Queued(e, SubSeq(s, 1, i), K) OBVIOUS
<1>2. PICK b : b = Queued(e, SubSeq(s, i + 1, Len(s)), K) OBVIOUS
<1>3. Queued(e, Inserted(s, i, x), K) = (a \o << >>) \o b /\ Queued(e, s, K) = a \o b
  <2>1. One(e, x, K) = << >> BY DEF One
  <2>2. /\ Queued(e, Inserted(s, i, x), K)
             = (Queued(e, SubSeq(s, 1, i), K) \o One(e, x, K))
                 \o Queued(e, SubSeq(s, i + 1, Len(s)), K)
        /\ Queued(e, s, K)
             = Queued(e, SubSeq(s, 1, i), K) \o Queued(e, SubSeq(s, i + 1, Len(s)), K)
    BY ONLY s \in Seq(Cell), i \in 0 .. Len(s), x \in Cell, Maps(e, Cell, R),
            QueuedInserted
  <2> QED BY ONLY <2>1, <2>2, <1>1, <1>2
<1>4. a \in Seq(R)
  <2>1. PICK m \in 1 .. Len(s) + 1 : m = 1 OBVIOUS
  <2>2. PICK u \in Seq(Cell) : u = SubSeq(s, m, i)
    BY ONLY s \in Seq(Cell), m \in 1 .. Len(s) + 1, i \in 0 .. Len(s), ElemsSubSeq
  <2>3. Queued(e, u, K) \in Seq(R)
    BY ONLY u \in Seq(Cell), Maps(e, Cell, R), QueuedType
  <2> QED BY ONLY <1>1, <2>1, <2>2, <2>3
<1>5. a \o << >> = a BY ONLY <1>4, ConcatEmptySeq
<1> QED BY ONLY <1>3, <1>5

(* A cell that is not live does not change the queue when it leaves the list.*)
LEMMA QueuedRemovedDead ==
  ASSUME NEW R, NEW e, Maps(e, Cell, R), NEW s \in Seq(Cell), NEW i \in 1 .. Len(s),
         \A j, k \in 1 .. Len(s) : s[j] = s[k] => j = k,
         NEW K, s[i] \notin K
  PROVE  Queued(e, Removed(s, i), K) = Queued(e, s, K)
<1>1. PICK x \in Cell : x = s[i] OBVIOUS
<1>2. PICK r \in Seq(Cell) : r = Removed(s, i) BY RemovedInserted
<1>3. PICK j \in 0 .. Len(r) : j = i - 1
  <2>1. i - 1 \in 0 .. Len(Removed(s, i)) BY RemovedInserted
  <2> QED BY ONLY <2>1, <1>2
<1>4. Inserted(r, j, x) = s
  <2>1. Inserted(Removed(s, i), i - 1, s[i]) = s BY RemovedInserted
  <2> QED BY ONLY <2>1, <1>1, <1>2, <1>3
<1>5. x \notin K BY <1>1
<1>6. Queued(e, Inserted(r, j, x), K) = Queued(e, r, K)
  BY ONLY r \in Seq(Cell), j \in 0 .. Len(r), x \in Cell, <1>5, Maps(e, Cell, R),
          QueuedInsertedDead
<1> QED BY ONLY <1>2, <1>4, <1>6

(* A live cell at the end of the list is an entry at the end of the queue.   *)
LEMMA QueuedAppended ==
  ASSUME NEW R, NEW e, Maps(e, Cell, R), NEW s \in Seq(Cell), NEW x \in Cell,
         NEW K, x \in K
  PROVE  Queued(e, Inserted(s, Len(s), x), K) = Append(Queued(e, s, K), e[x])
<1>1. PICK i \in 0 .. Len(s) : i = Len(s) OBVIOUS
<1>2. SubSeq(s, 1, i) = s /\ SubSeq(s, i + 1, Len(s)) = << >>
  BY ONLY <1>1, s \in Seq(Cell), SubSeqEnds
<1>3. Queued(e, << >>, K) = << >> BY QueuedEmpty
<1>4. PICK a \in Seq(R) : a = Queued(e, s, K)
  BY ONLY s \in Seq(Cell), Maps(e, Cell, R), QueuedType
<1>5. Queued(e, Inserted(s, i, x), K) = (a \o <<e[x]>>) \o << >>
  <2>1. Queued(e, Inserted(s, i, x), K)
          = (Queued(e, SubSeq(s, 1, i), K) \o One(e, x, K))
              \o Queued(e, SubSeq(s, i + 1, Len(s)), K)
    BY ONLY s \in Seq(Cell), i \in 0 .. Len(s), x \in Cell, Maps(e, Cell, R),
            QueuedInserted
  <2>2. One(e, x, K) = <<e[x]>> BY DEF One
  <2> QED BY ONLY <2>1, <2>2, <1>2, <1>3, <1>4
<1>6. PICK y \in R : y = e[x] BY DEF Maps
<1>7. Append(a, y) = a \o <<y>> BY ONLY a \in Seq(R), y \in R, AppendIsConcat
<1>8. Append(a, y) \in Seq(R) BY ONLY a \in Seq(R), y \in R, AppendProperties
<1>9. Append(a, y) \o << >> = Append(a, y) BY ONLY <1>8, ConcatEmptySeq
<1> QED BY ONLY <1>1, <1>4, <1>5, <1>6, <1>7, <1>9

(* The queue of a list whose first cell is x, and of its other cells.        *)
LEMMA QueuedFirst ==
  ASSUME NEW R, NEW e, Maps(e, Cell, R), NEW s \in Seq(Cell), NEW x \in Cell,
         NEW K, x \in K
  PROVE  /\ Queued(e, <<x>> \o s, K) # << >>
         /\ Head(Queued(e, <<x>> \o s, K)) = e[x]
         /\ Tail(Queued(e, <<x>> \o s, K)) = Queued(e, s, K)
<1>1. PICK u \in Seq(Cell) : u = <<x>>
  <2>1. <<x>> \in Seq(Cell) OBVIOUS
  <2> QED BY <2>1
<1>2. Queued(e, u \o s, K) = Queued(e, u, K) \o Queued(e, s, K)
  BY ONLY u \in Seq(Cell), s \in Seq(Cell), Maps(e, Cell, R), QueuedCells
<1>3. Queued(e, <<x>>, K) = One(e, x, K)
  BY ONLY x \in Cell, Maps(e, Cell, R), QueuedSingle DEF One
<1>4. PICK y \in R : y = e[x] BY DEF Maps
<1>5. PICK t \in Seq(R) : t = Queued(e, s, K)
  BY ONLY s \in Seq(Cell), Maps(e, Cell, R), QueuedType
<1>6. Queued(e, <<x>> \o s, K) = <<y>> \o t
  BY <1>1, <1>2, <1>3, <1>4, <1>5 DEF One
<1>7. PICK w \in Seq(R) : w = <<y>>
  <2>1. <<y>> \in Seq(R) OBVIOUS
  <2> QED BY <2>1
<1>8. PICK v : v = w \o t OBVIOUS
<1>9. /\ v \in Seq(R) /\ Len(v) = Len(w) + Len(t)
      /\ \A i \in 1 .. Len(w) + Len(t) : v[i] = IF i <= Len(w) THEN w[i] ELSE t[i - Len(w)]
  BY ONLY w \in Seq(R), t \in Seq(R), <1>8, ConcatProperties
<1>10. Len(w) = 1 /\ w[1] = y /\ Len(t) \in Nat BY <1>7
<1>11. v \in Seq(R) /\ Len(v) = 1 + Len(t) /\ v # << >> /\ v[1] = y
  <2>1. Len(v) = 1 + Len(t) /\ v[1] = y BY <1>9, <1>10
  <2>2. v # << >> BY <2>1, <1>10
  <2> QED BY <1>9, <2>1, <2>2
<1>12. Head(v) = y BY <1>11
<1>13. Tail(v) = t
  <2>1. Tail(v) \in Seq(R) /\ Len(Tail(v)) = Len(v) - 1
        /\ \A i \in 1 .. Len(Tail(v)) : Tail(v)[i] = v[i + 1]
    BY ONLY <1>11, HeadTailProperties
  <2>2. PICK z \in Seq(R) : z = Tail(v) BY <2>1
  <2>3. Len(z) = Len(t) BY <2>1, <2>2, <1>10, <1>11
  <2>4. ASSUME NEW i \in 1 .. Len(z) PROVE z[i] = t[i]
    <3>1. z[i] = v[i + 1] BY <2>1, <2>2
    <3>2. i + 1 \in 1 .. Len(w) + Len(t) /\ ~(i + 1 <= Len(w)) /\ i + 1 - Len(w) = i
      BY <2>3, <1>10
    <3> QED BY <3>1, <3>2, <1>9
  <2>5. z = t BY ONLY z \in Seq(R), t \in Seq(R), <2>3, <2>4, SeqEqual
  <2> QED BY <2>2, <2>5
<1> QED BY ONLY <1>4, <1>5, <1>6, <1>7, <1>8, <1>11, <1>12, <1>13

-----------------------------------------------------------------------------
(* What users see of a state: entries, live cells, and the cells of the list *)
(* whose callbacks are still to be called.                                   *)
Entry(cb) == [x \in Cell |-> [cb |-> cb[x].Proc, once |-> cb[x].Mode = "Oneshot"]]

Timed_Entry(cb) == [x \in Cell |-> [cb |-> cb[x].Proc, at |-> cb[x].T]]

Alive(cb, run, cur) ==
  {x \in Cell : cb[x].Proc # Nop /\ ~(run # Nobody /\ x = cur /\ cb[x].Mode = "Oneshot")}

Any_Entry == [cb : Callback \cup {Nop}, once : BOOLEAN]

Any_Timed_Entry == [cb : Callback \cup {Nop}, at : Time]

(* The types of the entries.                                                 *)
LEMMA EntryType ==
  ASSUME NEW cb \in [Cell -> Cb_Cell]
  PROVE  /\ Maps(Entry(cb), Cell, Any_Entry)
         /\ Maps(Timed_Entry(cb), Cell, Any_Timed_Entry)
<1>1. \A x \in Cell : cb[x] \in Cb_Cell OBVIOUS
<1>2. \A x \in Cell : [cb |-> cb[x].Proc, once |-> cb[x].Mode = "Oneshot"] \in Any_Entry
  BY <1>1 DEF Cb_Cell, Any_Entry
<1>3. \A x \in Cell : [cb |-> cb[x].Proc, at |-> cb[x].T] \in Any_Timed_Entry
  BY <1>1 DEF Cb_Cell, Any_Timed_Entry
<1> QED BY <1>2, <1>3 DEF Maps, Entry, Timed_Entry

(* The operator Only of CallbackQueue is that of Callbacks.                  *)
LEMMA PromiseOnly == \A s, K : Promise!Only(s, K) = Only(s, K)
  BY DEF Promise!Only, Only

(* Removing a callback from a queue.                                         *)
LEMMA WithoutQueued ==
  ASSUME NEW R, NEW e, Maps(e, Cell, R), NEW s \in Seq(Cell), NEW K, NEW c, NEW L,
         \A x \in Elems(s) : x \in L <=> x \in K /\ e[x].cb # c
  PROVE  Promise!Without(Queued(e, s, K), c) = Queued(e, s, L)
<1>1. PICK q : q = Queued(e, s, K) OBVIOUS
<1>2. Elems(q) = {e[x] : x \in Elems(s) \cap K}
  BY ONLY Maps(e, Cell, R), s \in Seq(Cell), <1>1, QueuedType
<1>3. PICK M : M = {y \in Elems(q) : y.cb # c} OBVIOUS
<1>4. Promise!Without(q, c) = Only(q, M)
  BY <1>3, PromiseOnly DEF Promise!Without, Promise!Entries, Elems
<1>5. PICK J : J = {x \in Cell : x \in K /\ e[x] \in M} OBVIOUS
<1>6. Only(Queued(e, s, K), M) = Queued(e, s, {x \in Cell : x \in K /\ e[x] \in M})
  BY ONLY Maps(e, Cell, R), s \in Seq(Cell), OnlyQueued
<1>7. \A x \in Elems(s) : x \in Cell BY ElementOfSeq DEF Elems
<1>8. \A x \in Elems(s) : x \in J <=> x \in L BY <1>2, <1>3, <1>5, <1>7
<1>9. Queued(e, s, J) = Queued(e, s, L)
  BY ONLY s \in Seq(Cell), <1>8, QueuedAgree
<1> QED BY ONLY <1>1, <1>4, <1>5, <1>6, <1>9

(* Positions in a list.                                                      *)
At(list, c) == CHOOSE i \in 1 .. Len(list) : list[i] = c

Ahead(list, w, run, cur, fin) ==
  IF w # "list" THEN << >>
  ELSE SubSeq(list, IF run = Nobody THEN At(list, cur) ELSE At(list, cur) + 1, At(list, fin))

(* The position of a cell in a list without repetition.                      *)
LEMMA AtPosition ==
  ASSUME NEW s \in Seq(Cell), NEW i \in 1 .. Len(s),
         \A j, k \in 1 .. Len(s) : s[j] = s[k] => j = k
  PROVE  At(s, s[i]) = i
<1>1. At(s, s[i]) \in 1 .. Len(s) /\ s[At(s, s[i])] = s[i] BY DEF At
<1> QED BY <1>1

(* The cells still to be called are a part of the list.                      *)
LEMMA AheadCells ==
  ASSUME NEW s \in Seq(Cell), \A j, k \in 1 .. Len(s) : s[j] = s[k] => j = k,
         NEW i \in 1 .. Len(s), NEW j \in 1 .. Len(s), NEW run
  PROVE  Ahead(s, "list", run, s[i], s[j]) = SubSeq(s, IF run = Nobody THEN i ELSE i + 1, j)
<1>1. At(s, s[i]) = i /\ At(s, s[j]) = j BY AtPosition
<1> QED BY <1>1 DEF Ahead

(* The queues that users see.                                                *)
Seen(cb, run, cur, s) ==
  LET live == Only(s, Alive(cb, run, cur))
  IN  [i \in 1 .. Len(live) |->
        [cb |-> cb[live[i]].Proc, once |-> cb[live[i]].Mode = "Oneshot"]]

Timed_Seen(cb, run, cur, s) ==
  LET live == Only(s, Alive(cb, run, cur))
  IN  [i \in 1 .. Len(live) |-> [cb |-> cb[live[i]].Proc, at |-> cb[live[i]].T]]

(* What users see of a list is a queue.                                      *)
LEMMA SeenQueued ==
  ASSUME NEW cb, NEW run, NEW cur, NEW s \in Seq(Cell)
  PROVE  /\ Seen(cb, run, cur, s) = Queued(Entry(cb), s, Alive(cb, run, cur))
         /\ Timed_Seen(cb, run, cur, s) = Queued(Timed_Entry(cb), s, Alive(cb, run, cur))
<1>1. PICK L : L = Alive(cb, run, cur) OBVIOUS
<1>2. PICK u \in Seq(Cell) : u = Only(s, L) BY OnlyType
<1>3. \A i \in 1 .. Len(u) : u[i] \in Cell BY ElementOfSeq
<1>4. Seen(cb, run, cur, s) = Mapped(Entry(cb), u)
  <2>1. Seen(cb, run, cur, s)
          = [i \in 1 .. Len(u) |->
              [cb |-> cb[u[i]].Proc, once |-> cb[u[i]].Mode = "Oneshot"]]
    BY <1>1, <1>2 DEF Seen
  <2>2. \A i \in 1 .. Len(u) : Entry(cb)[u[i]]
          = [cb |-> cb[u[i]].Proc, once |-> cb[u[i]].Mode = "Oneshot"]
    BY <1>3 DEF Entry
  <2> QED BY <2>1, <2>2 DEF Mapped
<1>5. Timed_Seen(cb, run, cur, s) = Mapped(Timed_Entry(cb), u)
  <2>1. Timed_Seen(cb, run, cur, s)
          = [i \in 1 .. Len(u) |-> [cb |-> cb[u[i]].Proc, at |-> cb[u[i]].T]]
    BY <1>1, <1>2 DEF Timed_Seen
  <2>2. \A i \in 1 .. Len(u) : Timed_Entry(cb)[u[i]]
          = [cb |-> cb[u[i]].Proc, at |-> cb[u[i]].T]
    BY <1>3 DEF Timed_Entry
  <2> QED BY <2>1, <2>2 DEF Mapped
<1> QED BY <1>1, <1>2, <1>4, <1>5 DEF Queued

(* The state seen through these operators.                                   *)
View(A, D, B, E, G, L) ==
  /\ A \in Seq(Cell) /\ D \in Seq(Cell) /\ B \in Seq(Cell)
  /\ Maps(E, Cell, Any_Entry) /\ Maps(G, Cell, Any_Timed_Entry)
  /\ Queue(Chain(First)) = Queued(E, A, L)
  /\ Queue(To_Call) = Queued(E, D, L)
  /\ Timed_Queue(Chain(Time_First)) = Queued(G, B, L)

(* The cells still to be called are cells.                                   *)
LEMMA AheadType ==
  ASSUME NEW s \in Seq(Cell), \A j, k \in 1 .. Len(s) : s[j] = s[k] => j = k,
         NEW w, NEW run, NEW cur, NEW fin,
         w = "list" => \E i, j \in 1 .. Len(s) : s[i] = cur /\ s[j] = fin
  PROVE  Ahead(s, w, run, cur, fin) \in Seq(Cell)
<1>1. CASE w # "list"
  <2>1. << >> \in Seq(Cell) OBVIOUS
  <2> QED BY <1>1, <2>1 DEF Ahead
<1>2. CASE w = "list"
  <2>1. PICK i, j \in 1 .. Len(s) : s[i] = cur /\ s[j] = fin BY <1>2
  <2>2. Ahead(s, "list", run, s[i], s[j]) = SubSeq(s, IF run = Nobody THEN i ELSE i + 1, j)
    <3>1. At(s, s[i]) = i /\ At(s, s[j]) = j BY AtPosition
    <3> QED BY <3>1 DEF Ahead
  <2>3. PICK m \in 1 .. Len(s) + 1 : m = IF run = Nobody THEN i ELSE i + 1 OBVIOUS
  <2>4. PICK n \in 0 .. Len(s) : n = j OBVIOUS
  <2>5. SubSeq(s, m, n) \in Seq(Cell) BY ElemsSubSeq
  <2> QED BY <1>2, <2>1, <2>2, <2>3, <2>4, <2>5
<1> QED BY <1>1, <1>2

(* The queues of the refinement mapping, before a step.                      *)
LEMMA ViewNow ==
  ASSUME LinkInv
  PROVE  View(Chain(First), Ahead(Chain(First), walk, running, Cur, Final),
              Chain(Time_First), Entry(Cb), Timed_Entry(Cb), Alive(Cb, running, Cur))
<1> USE DEF LinkInv
<1>1. PICK A : A = Chain(First) OBVIOUS
<1>2. PICK B : B = Chain(Time_First) OBVIOUS
<1>3. PICK D : D = Ahead(A, walk, running, Cur, Final) OBVIOUS
<1>4. PICK cb \in [Cell -> Cb_Cell] : cb = Cb BY DEF TypeOK
<1>5. PICK L : L = Alive(cb, running, Cur) OBVIOUS
<1>6. /\ A \in Seq(Cell) /\ B \in Seq(Cell)
      /\ \A j, k \in 1 .. Len(A) : A[j] = A[k] => j = k
  BY <1>1, <1>2, ListsCells
<1>7. D \in Seq(Cell)
  <2>1. PICK w, run, cur, fin : w = walk /\ run = running /\ cur = Cur /\ fin = Final
    OBVIOUS
  <2>2. w = "list" => \E i, j \in 1 .. Len(A) : A[i] = cur /\ A[j] = fin
    BY <2>1, <1>1 DEF ListEnds
  <2>3. Ahead(A, w, run, cur, fin) \in Seq(Cell) BY <1>6, <2>2, AheadType
  <2> QED BY <1>3, <2>1, <2>3
<1>8. To_Call = D BY <1>1, <1>3 DEF To_Call, Ahead, At
<1>9. /\ Queue(A) = Seen(cb, running, Cur, A) /\ Queue(D) = Seen(cb, running, Cur, D)
      /\ Timed_Queue(B) = Timed_Seen(cb, running, Cur, B)
  BY <1>4 DEF Queue, Timed_Queue, Seen, Timed_Seen, Live, Alive
<1>10. PICK run, cur : run = running /\ cur = Cur OBVIOUS
<1>11. /\ Queue(A) = Queued(Entry(cb), A, L) /\ Queue(D) = Queued(Entry(cb), D, L)
       /\ Timed_Queue(B) = Queued(Timed_Entry(cb), B, L)
  BY <1>5, <1>6, <1>7, <1>9, <1>10, SeenQueued
<1>12. Maps(Entry(cb), Cell, Any_Entry) /\ Maps(Timed_Entry(cb), Cell, Any_Timed_Entry)
  BY EntryType
<1> QED BY <1>1, <1>2, <1>3, <1>4, <1>5, <1>6, <1>7, <1>8, <1>11, <1>12 DEF View

(* The queues of the refinement mapping, after a step.                       *)
LEMMA ViewNext ==
  ASSUME LinkInv',
         NEW A, A = Chain(First)', NEW B, B = Chain(Time_First)',
         NEW D, D = Ahead(A, walk', running', Cur', Final'),
         NEW cb, cb = Cb', NEW L, L = Alive(cb, running', Cur')
  PROVE  View(A, D, B, Entry(cb), Timed_Entry(cb), L)'
<1> USE DEF LinkInv
<1>4. cb \in [Cell -> Cb_Cell] BY DEF TypeOK
<1>6. /\ A \in Seq(Cell) /\ B \in Seq(Cell)
      /\ \A j, k \in 1 .. Len(A) : A[j] = A[k] => j = k
  <2>1. PICK N, n, a, b, R, r :
          /\ N = Next_Cell' /\ n = allocated' /\ a = First' /\ b = Time_First'
          /\ R = Chain(Recycled_Handles)' /\ r = Recycled_Handles'
    OBVIOUS
  <2>2. Heap(N, n, A, a, B, b, R, r) BY <2>1 DEF Lists
  <2> QED BY <2>2 DEF Heap, List
<1>7. D \in Seq(Cell)
  <2>1. PICK w, run, cur, fin : w = walk' /\ run = running' /\ cur = Cur' /\ fin = Final'
    OBVIOUS
  <2>2. w = "list" => \E i, j \in 1 .. Len(A) : A[i] = cur /\ A[j] = fin
    BY <2>1 DEF ListEnds
  <2>3. Ahead(A, w, run, cur, fin) \in Seq(Cell) BY <1>6, <2>2, AheadType
  <2> QED BY <2>1, <2>3
<1>8. To_Call' = D BY DEF To_Call, Ahead, At
<1>9. /\ Queue(Chain(First))' = Seen(cb, running', Cur', A)
      /\ Queue(To_Call)' = Seen(cb, running', Cur', D)
      /\ Timed_Queue(Chain(Time_First))' = Timed_Seen(cb, running', Cur', B)
  BY <1>8 DEF Queue, Timed_Queue, Seen, Timed_Seen, Live, Alive
<1>10. PICK run, cur : run = running' /\ cur = Cur' OBVIOUS
<1>11. /\ Queue(Chain(First))' = Queued(Entry(cb), A, L)
       /\ Queue(To_Call)' = Queued(Entry(cb), D, L)
       /\ Timed_Queue(Chain(Time_First))' = Queued(Timed_Entry(cb), B, L)
  BY <1>6, <1>7, <1>9, <1>10, SeenQueued
<1>12. Maps(Entry(cb), Cell, Any_Entry) /\ Maps(Timed_Entry(cb), Cell, Any_Timed_Entry)
  BY <1>4, EntryType
<1> QED BY <1>6, <1>7, <1>11, <1>12 DEF View

(* A queue is the same when its cells are.                                   *)
LEMMA QueueSame ==
  ASSUME NEW s \in Seq(Cell), NEW cb, NEW cb2, NEW L, NEW L2,
         \A y \in Elems(s) : cb2[y] = cb[y] /\ (y \in L2 <=> y \in L)
  PROVE  /\ Queued(Entry(cb2), s, L2) = Queued(Entry(cb), s, L)
         /\ Queued(Timed_Entry(cb2), s, L2) = Queued(Timed_Entry(cb), s, L)
<1>1. \A y \in Elems(s) : y \in Cell BY ElementOfSeq DEF Elems
<1>2. \A y \in Elems(s) : /\ y \in L2 <=> y \in L
                          /\ y \in L2 => Entry(cb2)[y] = Entry(cb)[y]
  BY <1>1 DEF Entry
<1>3. \A y \in Elems(s) : /\ y \in L2 <=> y \in L
                          /\ y \in L2 => Timed_Entry(cb2)[y] = Timed_Entry(cb)[y]
  BY <1>1 DEF Timed_Entry
<1>4. Queued(Entry(cb2), s, L2) = Queued(Entry(cb), s, L)
  BY ONLY s \in Seq(Cell), <1>2, QueuedAgree
<1>5. Queued(Timed_Entry(cb2), s, L2) = Queued(Timed_Entry(cb), s, L)
  BY ONLY s \in Seq(Cell), <1>3, QueuedAgree
<1> QED BY <1>4, <1>5

(* The queue without c, whose live cells are those of L.                     *)
LEMMA QueueWithout ==
  ASSUME NEW s \in Seq(Cell), NEW cb \in [Cell -> Cb_Cell], NEW cb2, NEW K, NEW L, NEW c,
         \A y \in Elems(s) : y \in L <=> y \in K /\ cb[y].Proc # c,
         \A y \in Elems(s) : y \in L => cb2[y] = cb[y]
  PROVE  /\ Promise!Without(Queued(Entry(cb), s, K), c) = Queued(Entry(cb2), s, L)
         /\ Promise!Without(Queued(Timed_Entry(cb), s, K), c)
              = Queued(Timed_Entry(cb2), s, L)
<1>0. PICK e, f : e = Entry(cb) /\ f = Timed_Entry(cb) OBVIOUS
<1>1. \A y \in Elems(s) : y \in Cell BY ElementOfSeq DEF Elems
<1>2. /\ \A y \in Elems(s) : e[y].cb = cb[y].Proc /\ f[y].cb = cb[y].Proc
      /\ Maps(e, Cell, Any_Entry) /\ Maps(f, Cell, Any_Timed_Entry)
  BY <1>0, <1>1, EntryType DEF Entry, Timed_Entry
<1>3. /\ \A x \in Elems(s) : x \in L <=> x \in K /\ e[x].cb # c
      /\ \A x \in Elems(s) : x \in L <=> x \in K /\ f[x].cb # c
  BY <1>2
<1>4. Promise!Without(Queued(e, s, K), c) = Queued(e, s, L)
  BY ONLY <1>2, <1>3, s \in Seq(Cell), WithoutQueued
<1>5. Promise!Without(Queued(f, s, K), c) = Queued(f, s, L)
  BY ONLY <1>2, <1>3, s \in Seq(Cell), WithoutQueued
<1>6. \A y \in Elems(s) : /\ y \in L <=> y \in L
                          /\ y \in L => e[y] = Entry(cb2)[y]
  BY <1>0, <1>1 DEF Entry
<1>7. \A y \in Elems(s) : /\ y \in L <=> y \in L
                          /\ y \in L => f[y] = Timed_Entry(cb2)[y]
  BY <1>0, <1>1 DEF Timed_Entry
<1>8. Queued(e, s, L) = Queued(Entry(cb2), s, L)
  BY ONLY s \in Seq(Cell), <1>6, QueuedAgree
<1>9. Queued(f, s, L) = Queued(Timed_Entry(cb2), s, L)
  BY ONLY s \in Seq(Cell), <1>7, QueuedAgree
<1> QED BY <1>0, <1>4, <1>5, <1>8, <1>9

(* Where a walk is.                                                          *)
Walking(s, w, cur, fin) == w = "list" => \E i, j \in 1 .. Len(s) : s[i] = cur /\ s[j] = fin

(* The cells still to be called are on the list.                             *)
LEMMA AheadElems ==
  ASSUME NEW s \in Seq(Cell), \A j, k \in 1 .. Len(s) : s[j] = s[k] => j = k,
         NEW w, NEW run, NEW cur, NEW fin, Walking(s, w, cur, fin)
  PROVE  Elems(Ahead(s, w, run, cur, fin)) \subseteq Elems(s)
<1>1. CASE w # "list" BY <1>1 DEF Ahead, Elems
<1>2. CASE w = "list"
  <2>1. PICK i, j \in 1 .. Len(s) : s[i] = cur /\ s[j] = fin BY <1>2 DEF Walking
  <2>2. Ahead(s, "list", run, s[i], s[j]) = SubSeq(s, IF run = Nobody THEN i ELSE i + 1, j)
    <3>1. At(s, s[i]) = i /\ At(s, s[j]) = j BY AtPosition
    <3> QED BY <3>1 DEF Ahead
  <2>3. PICK m \in 1 .. Len(s) + 1 : m = IF run = Nobody THEN i ELSE i + 1 OBVIOUS
  <2>4. PICK n \in 0 .. Len(s) : n = j OBVIOUS
  <2>5. Elems(SubSeq(s, m, n)) = {s[k] : k \in m .. n} BY ElemsSubSeq
  <2>6. \A k \in m .. n : k \in 1 .. Len(s) OBVIOUS
  <2>7. Elems(SubSeq(s, m, n)) \subseteq Elems(s) BY <2>5, <2>6 DEF Elems
  <2> QED BY <1>2, <2>1, <2>2, <2>3, <2>4, <2>7
<1> QED BY <1>1, <1>2

(* Subsequences of a list to which a cell is appended, or without a cell.    *)
LEMMA SubSeqShifted ==
  ASSUME NEW s, NEW t, NEW m \in Int, NEW n \in Int, NEW d \in Int,
         \A k \in m .. n : s[k] \in Cell /\ t[k + d] = s[k]
  PROVE  SubSeq(t, m + d, n + d) = SubSeq(s, m, n)
<1>1. PICK a \in Seq(Cell) :
        /\ a = SubSeq(s, m, n) /\ Len(a) = (IF m <= n THEN n - m + 1 ELSE 0)
        /\ \A i \in 1 .. n - m + 1 : a[i] = s[m + i - 1]
  <2>1. \A k \in m .. n : s[k] \in Cell OBVIOUS
  <2>2. /\ SubSeq(s, m, n) \in Seq(Cell)
        /\ Len(SubSeq(s, m, n)) = (IF m <= n THEN n - m + 1 ELSE 0)
        /\ \A i \in 1 .. n - m + 1 : SubSeq(s, m, n)[i] = s[m + i - 1]
    BY ONLY <2>1, m \in Int, n \in Int, SubSeqProperties
  <2> QED BY ONLY <2>2
<1>2. PICK p \in Int, q \in Int : p = m + d /\ q = n + d
  <2>1. m + d \in Int /\ n + d \in Int OBVIOUS
  <2> QED BY <2>1
<1>3. q - p + 1 = n - m + 1 /\ (p <= q <=> m <= n) BY <1>2
<1>4. \A k \in p .. q : t[k] \in Cell
  <2> SUFFICES ASSUME NEW k \in p .. q PROVE t[k] \in Cell OBVIOUS
  <2>1. PICK l \in m .. n : l = k - d
    <3>1. k - d \in m .. n BY <1>2
    <3> QED BY <3>1
  <2>2. l + d = k BY <2>1
  <2>3. t[l + d] \in Cell OBVIOUS
  <2> QED BY <2>2, <2>3
<1>5. PICK b \in Seq(Cell) :
        /\ b = SubSeq(t, p, q) /\ Len(b) = (IF p <= q THEN q - p + 1 ELSE 0)
        /\ \A i \in 1 .. q - p + 1 : b[i] = t[p + i - 1]
  <2>1. /\ SubSeq(t, p, q) \in Seq(Cell)
        /\ Len(SubSeq(t, p, q)) = (IF p <= q THEN q - p + 1 ELSE 0)
        /\ \A i \in 1 .. q - p + 1 : SubSeq(t, p, q)[i] = t[p + i - 1]
    BY ONLY <1>4, p \in Int, q \in Int, SubSeqProperties
  <2> QED BY ONLY <2>1
<1>6. Len(b) = Len(a) BY <1>1, <1>3, <1>5
<1>7. ASSUME NEW i \in 1 .. Len(b) PROVE b[i] = a[i]
  <2>1. i \in 1 .. n - m + 1 /\ i \in Nat
    <3>1. m <= n BY <1>3, <1>5
    <3> QED BY <3>1, <1>3, <1>5
  <2>2. PICK l \in m .. n : l = m + i - 1
    <3>1. m + i - 1 \in m .. n BY <2>1
    <3> QED BY <3>1
  <2>3. p + i - 1 = l + d BY <1>2, <2>1, <2>2
  <2>4. b[i] = t[l + d] BY <1>3, <1>5, <2>1, <2>3
  <2>5. t[l + d] = s[l] OBVIOUS
  <2>6. a[i] = s[l] BY <1>1, <2>1, <2>2
  <2> QED BY ONLY <2>4, <2>5, <2>6
<1>8. b = a BY ONLY a \in Seq(Cell), b \in Seq(Cell), <1>6, <1>7, SeqEqual
<1> QED BY <1>1, <1>2, <1>5, <1>8

(* A part of a list is not changed by a cell that joins at the end.          *)
LEMMA SubSeqAppended ==
  ASSUME NEW s \in Seq(Cell), NEW x \in Cell,
         NEW m \in 1 .. Len(s) + 1, NEW n \in 0 .. Len(s)
  PROVE  SubSeq(Inserted(s, Len(s), x), m, n) = SubSeq(s, m, n)
<1>1. PICK i \in 0 .. Len(s) : i = Len(s) OBVIOUS
<1>2. PICK t \in Seq(Cell) : t = Inserted(s, i, x) /\ Len(t) = Len(s) + 1
  BY InsertedType
<1>3. \A k \in 1 .. Len(s) + 1 : Inserted(s, i, x)[k] =
        IF k <= i THEN s[k] ELSE IF k = i + 1 THEN x ELSE s[k - 1]
  BY InsertedType
<1>4. PICK d \in Int : d = 0 OBVIOUS
<1>5. m \in Int /\ n \in Int /\ m + d = m /\ n + d = n BY <1>4
<1>6. \A k \in m .. n : s[k] \in Cell /\ t[k + d] = s[k]
  <2> SUFFICES ASSUME NEW k \in m .. n PROVE s[k] \in Cell /\ t[k + d] = s[k] OBVIOUS
  <2>1. k \in 1 .. Len(s) /\ k + d = k /\ k <= i BY <1>1, <1>4
  <2>2. t[k] = s[k] BY <2>1, <1>2, <1>3
  <2> QED BY <2>1, <2>2
<1>7. SubSeq(t, m + d, n + d) = SubSeq(s, m, n) BY ONLY <1>5, <1>6, d \in Int, SubSeqShifted
<1> QED BY <1>1, <1>2, <1>5, <1>7

(* A callback registered during a call of the list is not called in it.      *)
LEMMA AheadAppended ==
  ASSUME NEW s \in Seq(Cell), \A j, k \in 1 .. Len(s) : s[j] = s[k] => j = k,
         NEW x \in Cell, x \notin Elems(s),
         NEW w, NEW run, NEW cur, NEW fin, Walking(s, w, cur, fin)
  PROVE  Ahead(Inserted(s, Len(s), x), w, run, cur, fin) = Ahead(s, w, run, cur, fin)
<1>1. CASE w # "list" BY <1>1 DEF Ahead
<1>2. CASE w = "list"
  <2>1. PICK i, j \in 1 .. Len(s) : s[i] = cur /\ s[j] = fin BY <1>2 DEF Walking
  <2>2. PICK l \in 0 .. Len(s) : l = Len(s) OBVIOUS
  <2>3. PICK t \in Seq(Cell) : t = Inserted(s, l, x) /\ Len(t) = Len(s) + 1
    BY InsertedType
  <2>4. \A k \in 1 .. Len(s) + 1 : t[k] =
          IF k <= l THEN s[k] ELSE IF k = l + 1 THEN x ELSE s[k - 1]
    <3>1. \A k \in 1 .. Len(s) + 1 : Inserted(s, l, x)[k] =
            IF k <= l THEN s[k] ELSE IF k = l + 1 THEN x ELSE s[k - 1]
      BY ONLY DEF Inserted
    <3> QED BY ONLY <3>1, <2>3
  <2>5. \A k \in 1 .. Len(t) : /\ k \in 1 .. Len(s) => t[k] = s[k]
                               /\ k \notin 1 .. Len(s) => t[k] = x
    BY <2>2, <2>3, <2>4
  <2>6. \A k \in 1 .. Len(s) : s[k] # x /\ k \in 1 .. Len(t) BY <2>3 DEF Elems
  <2>7. At(t, cur) = i /\ At(t, fin) = j
    <3>1. ASSUME NEW k \in 1 .. Len(s) PROVE At(t, s[k]) = k
      <4>1. k \in 1 .. Len(t) /\ t[k] = s[k] /\ s[k] # x
        <5>1. s[k] # x /\ k \in 1 .. Len(t) BY ONLY <2>6, k \in 1 .. Len(s)
        <5>2. t[k] = s[k] BY ONLY <2>5, <5>1, k \in 1 .. Len(s)
        <5> QED BY <5>1, <5>2
      <4>2. PICK p \in 1 .. Len(t) : p = At(t, s[k]) /\ t[p] = s[k] BY <4>1 DEF At
      <4>3. p \in 1 .. Len(s) BY ONLY <2>5, <4>1, <4>2, p \in 1 .. Len(t)
      <4>4. s[p] = s[k] BY <2>5, <4>2, <4>3
      <4>5. p = k BY <4>3, <4>4
      <4> QED BY <4>2, <4>5
    <3> QED BY <2>1, <3>1
  <2>8. At(s, cur) = i /\ At(s, fin) = j BY <2>1, AtPosition
  <2>9. PICK m \in 1 .. Len(s) + 1 : m = IF run = Nobody THEN i ELSE i + 1 OBVIOUS
  <2>10. PICK n \in 0 .. Len(s) : n = j OBVIOUS
  <2>11. SubSeq(Inserted(s, Len(s), x), m, n) = SubSeq(s, m, n) BY SubSeqAppended
  <2> QED BY <1>2, <2>2, <2>3, <2>7, <2>8, <2>9, <2>10, <2>11 DEF Ahead
<1> QED BY <1>1, <1>2

-----------------------------------------------------------------------------
(* The inductive invariant, beside LinkInv.                                  *)

Listed == Elems(Chain(First)) \cup Elems(Chain(Time_First))

(* A cell that is not marked as deleted is the one whose handle its user has.*)
Owned == \A x \in Listed : Cb[x].Proc # Nop => handle[Cb[x].Proc] = x

(* The callback that runs is registered in no cell but the current one.      *)
Called ==
  running # Nobody => \A x \in Listed : Cb[x].Proc = running => walk = "list" /\ x = Cur

(* The time list ascends, and none of its times has passed.                  *)
Ascending ==
  \A i, j \in 1 .. Len(Chain(Time_First)) :
    i < j => Cb[Chain(Time_First)[i]].T <= Cb[Chain(Time_First)[j]].T

To_Come ==
  \A x \in Elems(Chain(Time_First)) : Current_Time <= Cb[x].T /\ First_Timeout <= Cb[x].T

UserInv == Owned /\ Called /\ Ascending /\ To_Come /\ (walk # "list" => Cur = Null)

(* Names for the parts of a state and for what users see of it.              *)
Setup(A, B, D, cb, hd, w, run, cur, fin, L) ==
  /\ A = Chain(First) /\ B = Chain(Time_First) /\ D = Ahead(A, w, run, cur, fin)
  /\ cb = Cb /\ hd = handle /\ w = walk /\ run = running /\ cur = Cur /\ fin = Final
  /\ L = Alive(cb, run, cur)

Setup_Next(A, B, D, cb, hd, w, run, cur, fin, L) ==
  /\ A = Chain(First)' /\ B = Chain(Time_First)' /\ D = Ahead(A, w, run, cur, fin)
  /\ cb = Cb' /\ hd = handle' /\ w = walk' /\ run = running' /\ cur = Cur' /\ fin = Final'
  /\ L = Alive(cb, run, cur)

(* There are such names before every step.                                   *)
LEMMA SetupNow == \E A, B, D, cb, hd, w, run, cur, fin, L :
                    Setup(A, B, D, cb, hd, w, run, cur, fin, L)
<1> WITNESS Chain(First), Chain(Time_First), Ahead(Chain(First), walk, running, Cur, Final),
            Cb, handle, walk, running, Cur, Final, Alive(Cb, running, Cur)
<1> QED BY DEF Setup

(* There are such names after every step.                                    *)
LEMMA SetupNext == \E A, B, D, cb, hd, w, run, cur, fin, L :
                     Setup_Next(A, B, D, cb, hd, w, run, cur, fin, L)
<1> WITNESS Chain(First)', Chain(Time_First)',
            Ahead(Chain(First)', walk', running', Cur', Final'),
            Cb', handle', walk', running', Cur', Final', Alive(Cb', running', Cur')
<1> QED BY DEF Setup_Next

(* What the invariant says in these names, and what the two queues are.      *)
Cells_Right(A, B, D) ==
  /\ A \in Seq(Cell) /\ Elems(A) \subseteq Cell
  /\ B \in Seq(Cell) /\ Elems(B) \subseteq Cell
  /\ D \in Seq(Cell) /\ Elems(D) \subseteq Elems(A)
  /\ \A j, k \in 1 .. Len(A) : A[j] = A[k] => j = k
  /\ \A j, k \in 1 .. Len(B) : B[j] = B[k] => j = k
  /\ Elems(A) \cap Elems(B) = {}

Users_Right(A, B, cb, hd, w, run, cur) ==
  /\ cb \in [Cell -> Cb_Cell] /\ hd \in [Callback -> Handle]
  /\ run \in Callback \cup {Nobody}
  /\ \A y \in Elems(A) \cup Elems(B) : cb[y].Proc # Nop => hd[cb[y].Proc] = y
  /\ run # Nobody => \A y \in Elems(A) \cup Elems(B) :
                       cb[y].Proc = run => w = "list" /\ y = cur
  /\ w # "list" => cur = Null
  /\ w = "list" => cur \in Elems(A)

(* Before a step.                                                            *)
LEMMA SetupFacts ==
  ASSUME LinkInv, UserInv,
         NEW A, NEW B, NEW D, NEW cb, NEW hd, NEW w, NEW run, NEW cur, NEW fin, NEW L,
         Setup(A, B, D, cb, hd, w, run, cur, fin, L)
  PROVE  /\ Cells_Right(A, B, D) /\ Users_Right(A, B, cb, hd, w, run, cur)
         /\ Walking(A, w, cur, fin)
         /\ Queue(Chain(First)) = Queued(Entry(cb), A, L)
         /\ Queue(To_Call) = Queued(Entry(cb), D, L)
         /\ Timed_Queue(Chain(Time_First)) = Queued(Timed_Entry(cb), B, L)
<1> USE DEF LinkInv
<1>1. /\ A = Chain(First) /\ B = Chain(Time_First) /\ D = Ahead(A, w, run, cur, fin)
      /\ cb = Cb /\ hd = handle /\ w = walk /\ run = running /\ cur = Cur /\ fin = Final
      /\ L = Alive(cb, run, cur)
  BY DEF Setup
<1>2. /\ A \in Seq(Cell) /\ Elems(A) \subseteq Cell
      /\ B \in Seq(Cell) /\ Elems(B) \subseteq Cell
      /\ \A j, k \in 1 .. Len(A) : A[j] = A[k] => j = k
      /\ \A j, k \in 1 .. Len(B) : B[j] = B[k] => j = k
      /\ Elems(A) \cap Elems(B) = {}
  BY <1>1, ListsCells
<1>3. Walking(A, w, cur, fin) /\ (w = "list" => cur \in Elems(A))
  BY <1>1 DEF ListEnds, Walking, Elems
<1>4. Elems(D) \subseteq Elems(A) BY <1>1, <1>2, <1>3, AheadElems
<1>5. View(A, D, B, Entry(cb), Timed_Entry(cb), L)
  <2>1. View(Chain(First), Ahead(Chain(First), walk, running, Cur, Final),
             Chain(Time_First), Entry(Cb), Timed_Entry(Cb), Alive(Cb, running, Cur))
    BY ViewNow
  <2> QED BY ONLY <1>1, <2>1
<1>6. /\ D \in Seq(Cell)
      /\ Queue(Chain(First)) = Queued(Entry(cb), A, L)
      /\ Queue(To_Call) = Queued(Entry(cb), D, L)
      /\ Timed_Queue(Chain(Time_First)) = Queued(Timed_Entry(cb), B, L)
  BY ONLY <1>5 DEF View
<1>7. Users_Right(A, B, cb, hd, w, run, cur)
  BY <1>1, <1>3 DEF Users_Right, TypeOK, UserInv, Owned, Called, Listed
<1> QED BY <1>2, <1>3, <1>4, <1>6, <1>7 DEF Cells_Right

(* After a step.                                                             *)
LEMMA SetupSeen ==
  ASSUME LinkInv',
         NEW A, NEW B, NEW D, NEW cb, NEW hd, NEW w, NEW run, NEW cur, NEW fin, NEW L,
         Setup_Next(A, B, D, cb, hd, w, run, cur, fin, L)
  PROVE  /\ Queue(Chain(First))' = Queued(Entry(cb), A, L)
         /\ Queue(To_Call)' = Queued(Entry(cb), D, L)
         /\ Timed_Queue(Chain(Time_First))' = Queued(Timed_Entry(cb), B, L)
<1>1. /\ A = Chain(First)' /\ B = Chain(Time_First)' /\ D = Ahead(A, w, run, cur, fin)
      /\ cb = Cb' /\ w = walk' /\ run = running' /\ cur = Cur' /\ fin = Final'
      /\ L = Alive(cb, run, cur)
  BY DEF Setup_Next
<1>2. View(A, D, B, Entry(cb), Timed_Entry(cb), L)' BY <1>1, ViewNext
<1> QED BY <1>2 DEF View

(* The rest of the invariant in these names.                                 *)
Owners(A, B, cb, hd, w, run, cur) ==
  /\ \A y \in Elems(A) \cup Elems(B) : cb[y].Proc # Nop => hd[cb[y].Proc] = y
  /\ run # Nobody => \A y \in Elems(A) \cup Elems(B) :
                       cb[y].Proc = run => w = "list" /\ y = cur
  /\ w # "list" => cur = Null

Times(B, cb, now, first) ==
  /\ \A i, j \in 1 .. Len(B) : i < j => cb[B[i]].T <= cb[B[j]].T
  /\ \A y \in Elems(B) : now <= cb[y].T /\ first <= cb[y].T

(* Times holds before a step.                                                *)
LEMMA TimesNow ==
  ASSUME UserInv,
         NEW A, NEW B, NEW D, NEW cb, NEW hd, NEW w, NEW run, NEW cur, NEW fin, NEW L,
         Setup(A, B, D, cb, hd, w, run, cur, fin, L)
  PROVE  Times(B, cb, Current_Time, First_Timeout)
<1>1. B = Chain(Time_First) /\ cb = Cb BY DEF Setup
<1>2. \A i, j \in 1 .. Len(B) : i < j => cb[B[i]].T <= cb[B[j]].T
  BY <1>1 DEF UserInv, Ascending
<1>3. \A y \in Elems(B) : Current_Time <= cb[y].T /\ First_Timeout <= cb[y].T
  BY <1>1 DEF UserInv, To_Come
<1> QED BY <1>2, <1>3 DEF Times

(* What has to be shown for UserInv to hold after a step.                    *)
LEMMA UserNext ==
  ASSUME NEW A, NEW B, NEW D, NEW cb, NEW hd, NEW w, NEW run, NEW cur, NEW fin, NEW L,
         Setup_Next(A, B, D, cb, hd, w, run, cur, fin, L),
         Owners(A, B, cb, hd, w, run, cur), Times(B, cb, Current_Time', First_Timeout')
  PROVE  UserInv'
<1>1. /\ A = Chain(First)' /\ B = Chain(Time_First)'
      /\ cb = Cb' /\ hd = handle' /\ w = walk' /\ run = running' /\ cur = Cur'
  BY DEF Setup_Next
<1>2. Owned' BY <1>1 DEF Owned, Listed, Owners
<1>3. Called' BY <1>1 DEF Called, Listed, Owners
<1>4. Ascending' BY <1>1 DEF Ascending, Times
<1>5. To_Come' BY <1>1 DEF To_Come, Times
<1>6. walk' # "list" => Cur' = Null BY <1>1 DEF Owners
<1> QED BY <1>2, <1>3, <1>4, <1>5, <1>6 DEF UserInv

(* Times depends on the dates of the listed cells only.                      *)
LEMMA TimesKept ==
  ASSUME NEW B, NEW cb, NEW cb2, NEW now, NEW first, Times(B, cb, now, first),
         \A y \in Elems(B) : cb2[y].T = cb[y].T
  PROVE  Times(B, cb2, now, first)
<1>1. \A i \in 1 .. Len(B) : cb2[B[i]].T = cb[B[i]].T BY DEF Elems
<1> QED BY <1>1 DEF Times

(* Times holds when a cell leaves the list.                                  *)
LEMMA TimesRemoved ==
  ASSUME NEW B \in Seq(Cell), NEW i \in 1 .. Len(B),
         \A j, k \in 1 .. Len(B) : B[j] = B[k] => j = k,
         NEW cb, NEW now, NEW first, Times(B, cb, now, first)
  PROVE  Times(Removed(B, i), cb, now, first)
<1>1. PICK n \in Nat : n = Len(B) OBVIOUS
<1>2. PICK t : t = Removed(B, i) OBVIOUS
<1>3. Len(t) = n - 1 /\ \A k \in 1 .. n - 1 : t[k] = IF k < i THEN B[k] ELSE B[k + 1]
  <2>1. /\ Len(Removed(B, i)) = Len(B) - 1
        /\ \A k \in 1 .. Len(B) - 1 : Removed(B, i)[k] = IF k < i THEN B[k] ELSE B[k + 1]
    BY RemovedType
  <2> QED BY ONLY <2>1, <1>1, <1>2
<1>4. Elems(t) = Elems(B) \ {B[i]}
  <2>1. Elems(Removed(B, i)) = Elems(B) \ {B[i]} BY RemovedType
  <2> QED BY ONLY <2>1, <1>2
<1>5. ASSUME NEW j \in 1 .. Len(t), NEW k \in 1 .. Len(t), j < k
      PROVE  cb[t[j]].T <= cb[t[k]].T
  <2>1. PICK p \in 1 .. Len(B) : t[j] = B[p] /\ p = IF j < i THEN j ELSE j + 1
    <3>1. j \in 1 .. n - 1 /\ (IF j < i THEN j ELSE j + 1) \in 1 .. n BY <1>1, <1>3
    <3>2. t[j] = B[IF j < i THEN j ELSE j + 1] BY ONLY <1>3, <3>1
    <3> QED BY ONLY <1>1, <3>1, <3>2
  <2>2. PICK q \in 1 .. Len(B) : t[k] = B[q] /\ q = IF k < i THEN k ELSE k + 1
    <3>1. k \in 1 .. n - 1 /\ (IF k < i THEN k ELSE k + 1) \in 1 .. n BY <1>1, <1>3
    <3>2. t[k] = B[IF k < i THEN k ELSE k + 1] BY ONLY <1>3, <3>1
    <3> QED BY ONLY <1>1, <3>1, <3>2
  <2>3. p < q
    <3>1. j \in Int /\ k \in Int /\ i \in Int BY <1>1, <1>3
    <3> QED BY ONLY <1>5, <2>1, <2>2, <3>1
  <2>4. cb[B[p]].T <= cb[B[q]].T BY <2>3 DEF Times
  <2> QED BY ONLY <2>1, <2>2, <2>4
<1>6. \A y \in Elems(t) : now <= cb[y].T /\ first <= cb[y].T BY <1>4 DEF Times
<1> QED BY <1>2, <1>5, <1>6 DEF Times

(* A cell that does not change stays live, or not.                           *)
LEMMA AliveCell ==
  ASSUME NEW cb, NEW cb2, NEW run, NEW cur, NEW y \in Cell, cb2[y] = cb[y]
  PROVE  y \in Alive(cb2, run, cur) <=> y \in Alive(cb, run, cur)
  BY DEF Alive

(* The same of the time list.                                                *)
LEMMA TimedSame ==
  ASSUME NEW s \in Seq(Cell), NEW cb, NEW cb2, NEW L, NEW L2,
         \A y \in Elems(s) : cb2[y] = cb[y] /\ (y \in L2 <=> y \in L)
  PROVE  Queued(Timed_Entry(cb2), s, L2) = Queued(Timed_Entry(cb), s, L)
<1>1. Queued(Entry(cb2), s, L2) = Queued(Entry(cb), s, L) BY QueueSame
<1> QED BY <1>1, QueueSame

(* A queue without the entries of a callback.                                *)
LEMMA TimedWithout ==
  ASSUME NEW s \in Seq(Cell), NEW cb \in [Cell -> Cb_Cell], NEW cb2, NEW K, NEW L, NEW c,
         \A y \in Elems(s) : y \in L <=> y \in K /\ cb[y].Proc # c,
         \A y \in Elems(s) : y \in L => cb2[y] = cb[y]
  PROVE  Promise!Without(Queued(Timed_Entry(cb), s, K), c) = Queued(Timed_Entry(cb2), s, L)
<1>1. Promise!Without(Queued(Entry(cb), s, K), c) = Queued(Entry(cb2), s, L)
  BY QueueWithout
<1> QED BY <1>1, QueueWithout

-----------------------------------------------------------------------------
(* A cell x is allocated for callback c.                                     *)
Registering(A, B, D, cb, hd, w, run, cur, L, c, x, cell, cb2, hd2, L2) ==
  /\ Cells_Right(A, B, D) /\ Users_Right(A, B, cb, hd, w, run, cur)
  /\ x \in Cell /\ x \notin Elems(A) /\ x \notin Elems(B)
  /\ c \in Callback /\ hd[c] = Null /\ c # run
  /\ cell \in Cb_Cell /\ cell.Proc = c
  /\ cb2 = [cb EXCEPT ![x] = cell] /\ hd2 = [hd EXCEPT ![c] = x]
  /\ L = Alive(cb, run, cur) /\ L2 = Alive(cb2, run, cur)

(* The new cell is live, and the others are as before.                       *)
LEMMA RegisterCells ==
  ASSUME NEW A, NEW B, NEW D, NEW cb, NEW hd, NEW w, NEW run, NEW cur, NEW L,
         NEW c, NEW x, NEW cell, NEW cb2, NEW hd2, NEW L2,
         Registering(A, B, D, cb, hd, w, run, cur, L, c, x, cell, cb2, hd2, L2)
  PROVE  /\ \A y \in Elems(A) \cup Elems(B) :
              cb2[y] = cb[y] /\ (y \in L2 <=> y \in L) /\ (y \in L => cb[y].Proc # c)
         /\ x \in L2 /\ cb2[x] = cell
         /\ \A y \in Elems(A) \cup Elems(B) \cup {x} :
              /\ cb2[y].Proc # Nop => hd2[cb2[y].Proc] = y
              /\ run # Nobody /\ cb2[y].Proc = run => w = "list" /\ y = cur
<1> USE DEF Registering, Cells_Right, Users_Right
<1>1. Null \notin Cell /\ c # Nop BY CallbackAssumption DEF Cell, Null
<1>2. cb2[x] = cell /\ hd2[c] = x /\ \A d \in Callback : d # c => hd2[d] = hd[d]
  OBVIOUS
<1>3. x # cur BY <1>1
<1>4. x \in L2 BY <1>1, <1>2, <1>3 DEF Alive
<1>5. ASSUME NEW y \in Elems(A) \cup Elems(B)
      PROVE  /\ y \in Cell /\ cb2[y] = cb[y] /\ (y \in L2 <=> y \in L)
             /\ cb[y].Proc # c
             /\ cb2[y].Proc # Nop => hd2[cb2[y].Proc] = y
             /\ run # Nobody /\ cb2[y].Proc = run => w = "list" /\ y = cur
  <2>1. y \in Cell /\ y # x OBVIOUS
  <2>2. cb2[y] = cb[y] BY <2>1
  <2>3. y \in L2 <=> y \in L BY <2>1, <2>2, AliveCell
  <2>4. cb[y].Proc # c BY <2>1, <1>1
  <2>5. cb[y].Proc \in Callback \cup {Nop} BY <2>1 DEF Cb_Cell
  <2>6. cb2[y].Proc # Nop => hd2[cb2[y].Proc] = y BY <2>2, <2>4, <2>5, <1>2
  <2> QED BY <2>1, <2>2, <2>3, <2>4, <2>6
<1> QED BY <1>2, <1>4, <1>5

(* Register_Callback appends an entry to the queue.                          *)
LEMMA RegisterSeen ==
  ASSUME LinkInv, LinkInv', UserInv,
         NEW c \in Callback, NEW mode \in {"Repeat", "Oneshot"},
         Register_Callback(c, mode)
  PROVE  UserInv' /\ Promise!Register(c, mode = "Oneshot")
<1>1. PICK A, B, D, cb, hd, w, run, cur, fin, L :
        Setup(A, B, D, cb, hd, w, run, cur, fin, L)
  BY SetupNow
<1>2. PICK A2, B2, D2, cb2, hd2, w2, run2, cur2, fin2, L2 :
        Setup_Next(A2, B2, D2, cb2, hd2, w2, run2, cur2, fin2, L2)
  BY SetupNext
<1>3. /\ Cells_Right(A, B, D) /\ Users_Right(A, B, cb, hd, w, run, cur)
      /\ Walking(A, w, cur, fin)
      /\ Queue(Chain(First)) = Queued(Entry(cb), A, L)
      /\ Queue(To_Call) = Queued(Entry(cb), D, L)
      /\ Timed_Queue(Chain(Time_First)) = Queued(Timed_Entry(cb), B, L)
  BY <1>1, SetupFacts
<1>4. /\ Queue(Chain(First))' = Queued(Entry(cb2), A2, L2)
      /\ Queue(To_Call)' = Queued(Entry(cb2), D2, L2)
      /\ Timed_Queue(Chain(Time_First))' = Queued(Timed_Entry(cb2), B2, L2)
  BY <1>2, SetupSeen
<1>5. Times(B, cb, Current_Time, First_Timeout) BY <1>1, TimesNow
<1>6. /\ A = Chain(First) /\ B = Chain(Time_First) /\ D = Ahead(A, w, run, cur, fin)
      /\ cb = Cb /\ hd = handle /\ w = walk /\ run = running /\ cur = Cur /\ fin = Final
      /\ L = Alive(cb, run, cur)
  BY <1>1 DEF Setup
<1>7. /\ A2 = Chain(First)' /\ B2 = Chain(Time_First)' /\ D2 = Ahead(A2, w2, run2, cur2, fin2)
      /\ cb2 = Cb' /\ hd2 = handle' /\ w2 = walk' /\ run2 = running' /\ cur2 = Cur'
      /\ fin2 = Final' /\ L2 = Alive(cb2, run2, cur2)
  BY <1>2 DEF Setup_Next
<1>8. PICK x \in Cell :
        /\ x = New_Handle /\ x \notin Elems(A) /\ x \notin Elems(B)
        /\ A2 = Inserted(A, Len(A), x) /\ B2 = B
  BY <1>6, <1>7, RegisterLists
<1>9. PICK cell : cell = [T |-> 0, Mode |-> mode, Proc |-> c] OBVIOUS
<1>10. /\ hd[c] = Null /\ c # run
       /\ cb2 = [cb EXCEPT ![x] = cell] /\ hd2 = [hd EXCEPT ![c] = x]
       /\ w2 = w /\ run2 = run /\ cur2 = cur /\ fin2 = fin
       /\ Current_Time' = Current_Time /\ First_Timeout' = First_Timeout
       /\ running' = running
  BY <1>6, <1>7, <1>8, <1>9 DEF Register_Callback, Allocate_Handle, timeListVars, walkVars
<1>11. cell \in Cb_Cell /\ cell.Proc = c BY <1>9, CallbackAssumption DEF Cb_Cell, Time
<1>12. Registering(A, B, D, cb, hd, w, run, cur, L, c, x, cell, cb2, hd2, L2)
  BY <1>3, <1>6, <1>7, <1>8, <1>10, <1>11 DEF Registering
<1>13. /\ \A y \in Elems(A) \cup Elems(B) :
            cb2[y] = cb[y] /\ (y \in L2 <=> y \in L) /\ (y \in L => cb[y].Proc # c)
       /\ x \in L2 /\ cb2[x] = cell
       /\ \A y \in Elems(A) \cup Elems(B) \cup {x} :
            /\ cb2[y].Proc # Nop => hd2[cb2[y].Proc] = y
            /\ run # Nobody /\ cb2[y].Proc = run => w = "list" /\ y = cur
  BY ONLY <1>12, RegisterCells
<1>14. /\ A \in Seq(Cell) /\ B \in Seq(Cell) /\ D \in Seq(Cell) /\ Elems(D) \subseteq Elems(A)
       /\ \A j, k \in 1 .. Len(A) : A[j] = A[k] => j = k
       /\ cb \in [Cell -> Cb_Cell]
  BY ONLY <1>3 DEF Cells_Right, Users_Right
<1>15. cb2 \in [Cell -> Cb_Cell] BY ONLY <1>10, <1>11, <1>14
<1>16. Elems(A2) = Elems(A) \cup {x}
  <2>1. PICK l \in 0 .. Len(A) : l = Len(A) BY <1>14
  <2>2. Elems(Inserted(A, l, x)) = Elems(A) \cup {x}
    BY ONLY <1>14, l \in 0 .. Len(A), x \in Cell, InsertedType
  <2> QED BY ONLY <2>1, <2>2, <1>8
<1>17. UserInv'
  <2>1. Owners(A2, B2, cb2, hd2, w2, run2, cur2)
    BY ONLY <1>3, <1>8, <1>10, <1>13, <1>16 DEF Owners, Users_Right
  <2>2. PICK now, first : now = Current_Time /\ first = First_Timeout OBVIOUS
  <2>3. Times(B, cb2, now, first)
    <3>1. Times(B, cb, now, first) BY ONLY <1>5, <2>2
    <3>2. \A y \in Elems(B) : cb2[y].T = cb[y].T BY ONLY <1>13
    <3> QED BY ONLY <3>1, <3>2, TimesKept
  <2>4. Times(B2, cb2, Current_Time', First_Timeout') BY ONLY <2>2, <2>3, <1>8, <1>10
  <2> QED BY ONLY <1>2, <2>1, <2>4, UserNext
<1>18. D2 = D
  <2>1. Ahead(Inserted(A, Len(A), x), w, run, cur, fin) = Ahead(A, w, run, cur, fin)
    BY ONLY <1>3, <1>8, <1>14, x \in Cell, AheadAppended
  <2> QED BY ONLY <2>1, <1>6, <1>7, <1>8, <1>10
<1>19. Promise!Without(Queue(Chain(First)), c) = Queue(Chain(First))
  BY ONLY <1>3, <1>13, <1>14, QueueWithout
<1>20. Promise!Without(Timed_Queue(Chain(Time_First)), c) = Timed_Queue(Chain(Time_First))
  <2>1. \A y \in Elems(B) : y \in L <=> y \in L /\ cb[y].Proc # c BY ONLY <1>13
  <2>2. \A y \in Elems(B) : y \in L => cb[y] = cb[y] OBVIOUS
  <2>3. B \in Seq(Cell) /\ cb \in [Cell -> Cb_Cell] BY ONLY <1>14
  <2>4. Promise!Without(Queued(Timed_Entry(cb), B, L), c) = Queued(Timed_Entry(cb), B, L)
    BY ONLY <2>1, <2>2, <2>3, TimedWithout
  <2> QED BY ONLY <2>4, <1>3
<1>21. Queue(To_Call)' = Queue(To_Call)
  BY ONLY <1>3, <1>4, <1>13, <1>14, <1>18, QueueSame
<1>22. Timed_Queue(Chain(Time_First))' = Timed_Queue(Chain(Time_First))
  <2>1. \A y \in Elems(B) : cb2[y] = cb[y] /\ (y \in L2 <=> y \in L) BY ONLY <1>13
  <2>2. Queued(Timed_Entry(cb2), B, L2) = Queued(Timed_Entry(cb), B, L)
    <3>1. B \in Seq(Cell) BY ONLY <1>14
    <3> QED BY ONLY <2>1, <3>1, TimedSame
  <2> QED BY ONLY <2>2, <1>3, <1>4, <1>8
<1>23. Queue(Chain(First))' = Append(Queue(Chain(First)), [cb |-> c, once |-> mode = "Oneshot"])
  <2>1. Maps(Entry(cb2), Cell, Any_Entry) BY ONLY <1>15, EntryType
  <2>2. PICK e : e = Entry(cb2) OBVIOUS
  <2>3. Queued(e, Inserted(A, Len(A), x), L2) = Append(Queued(e, A, L2), e[x])
    BY ONLY <2>1, <2>2, <1>13, <1>14, x \in Cell, QueuedAppended
  <2>4. Queued(Entry(cb2), A, L2) = Queued(Entry(cb), A, L)
    BY ONLY <1>13, <1>14, QueueSame
  <2>5. e[x] = [cb |-> c, once |-> mode = "Oneshot"]
    BY ONLY <2>2, <1>9, <1>13, x \in Cell DEF Entry
  <2> QED BY ONLY <2>2, <2>3, <2>4, <2>5, <1>3, <1>4, <1>8
<1>24. c # running BY <1>6, <1>10
<1> QED BY <1>10, <1>17, <1>19, <1>20, <1>21, <1>22, <1>23, <1>24 DEF Promise!Register

(* The cells of a list that is cut after its i-th cell.                      *)
LEMMA CutCells ==
  ASSUME NEW s \in Seq(Cell), NEW i \in 0 .. Len(s)
  PROVE  /\ SubSeq(s, 1, i) \in Seq(Cell) /\ SubSeq(s, i + 1, Len(s)) \in Seq(Cell)
         /\ s = SubSeq(s, 1, i) \o SubSeq(s, i + 1, Len(s))
         /\ Elems(SubSeq(s, 1, i)) = {s[k] : k \in 1 .. i}
         /\ Elems(SubSeq(s, i + 1, Len(s))) = {s[k] : k \in i + 1 .. Len(s)}
<1>1. PICK l \in 1 .. Len(s) + 1 : l = 1 OBVIOUS
<1>2. PICK m \in 1 .. Len(s) + 1 : m = i + 1 OBVIOUS
<1>3. PICK n \in 0 .. Len(s) : n = Len(s) OBVIOUS
<1>4. SubSeq(s, l, i) \in Seq(Cell) /\ Elems(SubSeq(s, l, i)) = {s[k] : k \in l .. i}
  BY ElemsSubSeq
<1>5. SubSeq(s, m, n) \in Seq(Cell) /\ Elems(SubSeq(s, m, n)) = {s[k] : k \in m .. n}
  BY ElemsSubSeq
<1>6. s = SubSeq(s, 1, i) \o SubSeq(s, i + 1, Len(s))
  <2>1. 1 \in Cell BY CallbackAssumption DEF Cell
  <2> QED BY <2>1, InsertedSplit
<1> QED BY ONLY <1>1, <1>2, <1>3, <1>4, <1>5, <1>6

(* The entries of a queue up to time t, and those after it.                  *)
Until(q, t) == Promise!Only(q, {e \in Promise!Entries(q) : e.at <= t})

Later(q, t) == Promise!Only(q, {e \in Promise!Entries(q) : e.at > t})

(* A time list that is cut at time t gives the two parts of its queue.       *)
LEMMA TimedSplit ==
  ASSUME NEW p \in Seq(Cell), NEW s \in Seq(Cell), NEW cb \in [Cell -> Cb_Cell], NEW L,
         NEW t \in Time, \A y \in Elems(p) : cb[y].T <= t, \A y \in Elems(s) : cb[y].T > t,
         NEW q, q = Queued(Timed_Entry(cb), p \o s, L)
  PROVE  /\ Until(q, t) = Queued(Timed_Entry(cb), p, L)
         /\ Later(q, t) = Queued(Timed_Entry(cb), s, L)
<1>1. PICK f : f = Timed_Entry(cb) OBVIOUS
<1>2. Maps(f, Cell, Any_Timed_Entry) BY <1>1, EntryType
<1>3. PICK r \in Seq(Cell) : r = p \o s /\ Elems(r) = Elems(p) \cup Elems(s)
  BY ElemsConcat
<1>4. /\ Elems(p) \subseteq Cell /\ Elems(s) \subseteq Cell
      /\ \A y \in Cell : f[y].at = cb[y].T /\ cb[y].T \in Time
  BY <1>1, ElementOfSeq DEF Elems, Timed_Entry, Cb_Cell
<1>5. q = Queued(f, r, L) BY <1>1, <1>3
<1>6. Elems(q) = {f[x] : x \in Elems(r) \cap L}
  BY ONLY <1>2, <1>5, r \in Seq(Cell), QueuedType
<1>7. /\ Queued(f, << >>, L) = << >>
      /\ \A K : Queued(f, r, K) = Queued(f, p, K) \o Queued(f, s, K)
  BY ONLY <1>2, <1>3, p \in Seq(Cell), s \in Seq(Cell), QueuedCells, QueuedEmpty
<1>8. /\ \A K, u : u \in Seq(Cell) => Queued(f, u, K) \in Seq(Any_Timed_Entry)
      /\ \A v \in Seq(Any_Timed_Entry) : v \o << >> = v /\ << >> \o v = v
  <2>1. ASSUME NEW K, NEW u \in Seq(Cell) PROVE Queued(f, u, K) \in Seq(Any_Timed_Entry)
    BY ONLY <1>2, u \in Seq(Cell), QueuedType
  <2>2. ASSUME NEW v \in Seq(Any_Timed_Entry) PROVE v \o << >> = v /\ << >> \o v = v
    BY ONLY v \in Seq(Any_Timed_Entry), ConcatEmptySeq
  <2> QED BY <2>1, <2>2
<1>9. PICK M : M = {e \in Elems(q) : e.at <= t} OBVIOUS
<1>10. PICK N : N = {e \in Elems(q) : e.at > t} OBVIOUS
<1>11. Only(q, M) = Queued(f, p, L)
  <2>1. PICK K : K = {x \in Cell : x \in L /\ f[x] \in M} OBVIOUS
  <2>2. Only(q, M) = Queued(f, r, K)
    BY ONLY <2>1, <1>2, <1>5, r \in Seq(Cell), OnlyQueued
  <2>3. Elems(s) \cap K = {} BY <2>1, <1>4, <1>9 DEF Time
  <2>4. Queued(f, s, K) = << >> BY ONLY <2>3, s \in Seq(Cell), QueuedNone
  <2>5. \A x \in Elems(p) : x \in K <=> x \in L BY <2>1, <1>3, <1>4, <1>6, <1>9
  <2>6. Queued(f, p, K) = Queued(f, p, L)
    BY ONLY <2>5, p \in Seq(Cell), QueuedAgree
  <2> QED BY <2>2, <2>4, <2>6, <1>7, <1>8
<1>12. Only(q, N) = Queued(f, s, L)
  <2>1. PICK K : K = {x \in Cell : x \in L /\ f[x] \in N} OBVIOUS
  <2>2. Only(q, N) = Queued(f, r, K)
    BY ONLY <2>1, <1>2, <1>5, r \in Seq(Cell), OnlyQueued
  <2>3. Elems(p) \cap K = {} BY <2>1, <1>4, <1>10 DEF Time
  <2>4. Queued(f, p, K) = << >> BY ONLY <2>3, p \in Seq(Cell), QueuedNone
  <2>5. \A x \in Elems(s) : x \in K <=> x \in L BY <2>1, <1>3, <1>4, <1>6, <1>10
  <2>6. Queued(f, s, K) = Queued(f, s, L)
    BY ONLY <2>5, s \in Seq(Cell), QueuedAgree
  <2> QED BY <2>2, <2>4, <2>6, <1>7, <1>8
<1>13. Promise!Entries(q) = Elems(q) BY DEF Promise!Entries, Elems
<1> QED BY <1>1, <1>9, <1>10, <1>11, <1>12, <1>13, PromiseOnly DEF Until, Later

(* The time list ascends when a cell is inserted after those not later.      *)
LEMMA TimesInserted ==
  ASSUME NEW B \in Seq(Cell), NEW i \in 0 .. Len(B), NEW x \in Cell,
         NEW cb \in [Cell -> Cb_Cell], NEW cb2 \in [Cell -> Cb_Cell],
         NEW t \in Time, NEW now \in Time, NEW first \in Time, Times(B, cb, now, first),
         \A y \in Elems(B) : cb2[y].T = cb[y].T, cb2[x].T = t, now <= t,
         \A k \in 1 .. i : cb[B[k]].T <= t, i < Len(B) => cb[B[i + 1]].T > t
  PROVE  /\ \A k \in i + 1 .. Len(B) : cb[B[k]].T > t
         /\ Times(Inserted(B, i, x), cb2, now, IF i = 0 THEN t ELSE first)
<1>1. PICK n \in Nat : n = Len(B) OBVIOUS
<1>2. PICK s : s = Inserted(B, i, x) OBVIOUS
<1>3. /\ Len(s) = n + 1 /\ Elems(s) = Elems(B) \cup {x}
      /\ \A k \in 1 .. n + 1 : s[k] = IF k <= i THEN B[k] ELSE IF k = i + 1 THEN x ELSE B[k - 1]
  <2>1. /\ Len(Inserted(B, i, x)) = Len(B) + 1 /\ Elems(Inserted(B, i, x)) = Elems(B) \cup {x}
        /\ \A k \in 1 .. Len(B) + 1 : Inserted(B, i, x)[k] =
             IF k <= i THEN B[k] ELSE IF k = i + 1 THEN x ELSE B[k - 1]
    BY InsertedType
  <2> QED BY ONLY <2>1, <1>1, <1>2
<1>4. \A y \in Cell : cb[y].T \in Int /\ cb2[y].T \in Int BY DEF Cb_Cell, Time
<1>5. /\ \A k \in 1 .. n : B[k] \in Cell /\ B[k] \in Elems(B) /\ cb2[B[k]].T = cb[B[k]].T
      /\ t \in Int /\ now \in Int /\ first \in Int
  BY <1>1, ElementOfSeq DEF Elems, Time
<1>6. \A j, k \in 1 .. n : j < k => cb[B[j]].T <= cb[B[k]].T BY <1>1 DEF Times
<1>7. ASSUME NEW k \in i + 1 .. n PROVE cb[B[k]].T > t
  <2>1. i + 1 \in 1 .. n /\ k \in 1 .. n /\ cb[B[i + 1]].T > t BY <1>1
  <2>2. k = i + 1 \/ cb[B[i + 1]].T <= cb[B[k]].T BY <2>1, <1>6
  <2> QED BY <2>1, <2>2, <1>4, <1>5
<1>8. ASSUME NEW j \in 1 .. n + 1, NEW k \in 1 .. n + 1, j < k
      PROVE  cb2[s[j]].T <= cb2[s[k]].T
  <2>1. CASE k <= i
    <3>1. j \in 1 .. n /\ k \in 1 .. n /\ j <= i BY <2>1, <1>1, <1>8
    <3>2. s[j] = B[j] /\ s[k] = B[k] BY <2>1, <3>1, <1>3
    <3> QED BY <3>1, <3>2, <1>5, <1>6, <1>8
  <2>2. CASE k = i + 1
    <3>1. j \in 1 .. n /\ j \in 1 .. i /\ ~(k <= i) BY <2>2, <1>1, <1>8
    <3>2. s[j] = B[j] /\ s[k] = x BY <2>2, <3>1, <1>3
    <3> QED BY <3>1, <3>2, <1>5
  <2>3. CASE k > i + 1
    <3>1. k - 1 \in i + 1 .. n /\ k - 1 \in 1 .. n /\ ~(k <= i) /\ k # i + 1 BY <2>3, <1>1
    <3>2. s[k] = B[k - 1] /\ cb2[s[k]].T > t
      <4>1. s[k] = B[k - 1] BY ONLY <3>1, <1>3, k \in 1 .. n + 1
      <4>2. cb[B[k - 1]].T > t BY ONLY <3>1, <1>7
      <4>3. cb2[B[k - 1]].T = cb[B[k - 1]].T BY ONLY <3>1, <1>5
      <4> QED BY ONLY <4>1, <4>2, <4>3
    <3>3. CASE j <= i
      <4>1. j \in 1 .. n /\ j \in 1 .. i BY <3>3, <1>1
      <4>2. s[j] = B[j] /\ cb2[s[j]].T <= t BY <4>1, <3>3, <1>3, <1>5
      <4>3. s[j] \in Cell /\ s[k] \in Cell BY <4>1, <4>2, <3>1, <3>2, <1>5
      <4>4. cb2[s[j]].T \in Int /\ cb2[s[k]].T \in Int /\ t \in Int BY ONLY <4>3, <1>4, <1>5
      <4> QED BY ONLY <4>2, <4>4, <3>2
    <3>4. CASE j = i + 1
      <4>1. s[j] = x BY <3>4, <1>3
      <4>2. s[k] \in Cell BY <3>1, <3>2, <1>5
      <4>3. cb2[s[k]].T \in Int /\ t \in Int BY ONLY <4>2, <1>4, <1>5
      <4>4. cb2[s[j]].T = t BY <4>1
      <4> QED BY ONLY <3>2, <4>3, <4>4
    <3>5. CASE j > i + 1
      <4>1. j - 1 \in 1 .. n /\ j - 1 < k - 1 /\ ~(j <= i) /\ j # i + 1 BY <3>5, <1>1, <1>8
      <4>2. s[j] = B[j - 1] BY <4>1, <1>3
      <4>3. cb[B[j - 1]].T <= cb[B[k - 1]].T BY ONLY <4>1, <3>1, <1>6
      <4> QED BY <4>1, <4>2, <4>3, <3>1, <3>2, <1>5
    <3> QED BY <3>3, <3>4, <3>5
  <2> QED BY <2>1, <2>2, <2>3
<1>9. PICK first2 : first2 = IF i = 0 THEN t ELSE first OBVIOUS
<1>10. ASSUME NEW y \in Elems(s) PROVE now <= cb2[y].T /\ first2 <= cb2[y].T
  <2>1. now <= cb2[y].T BY <1>3, <1>5 DEF Times
  <2>2. CASE i = 0
    <3>1. first2 = t BY <2>2, <1>9
    <3>2. CASE y = x BY <3>1, <3>2, <1>5
    <3>3. CASE y # x
      <4>1. PICK k \in 1 .. n : y = B[k] BY <3>3, <1>1, <1>3 DEF Elems
      <4>2. cb[B[k]].T > t BY <2>2, <1>7
      <4> QED BY <4>1, <4>2, <3>1, <1>4, <1>5
    <3> QED BY <3>2, <3>3
  <2>3. CASE i # 0
    <3>1. first2 = first /\ 1 \in 1 .. i /\ 1 \in 1 .. n BY <2>3, <1>1, <1>9
    <3>2. first <= cb[B[1]].T /\ cb[B[1]].T <= t BY <3>1, <1>5 DEF Times
    <3>3. first <= t BY <3>1, <3>2, <1>4, <1>5
    <3> QED BY <3>1, <3>3, <1>3 DEF Times
  <2> QED BY <2>1, <2>2, <2>3
<1>11. Times(s, cb2, now, first2) BY <1>3, <1>8, <1>10 DEF Times
<1> QED BY <1>1, <1>2, <1>7, <1>9, <1>11

(* Register_Callback_At inserts an entry after those not later than it.      *)
LEMMA RegisterAtSeen ==
  ASSUME LinkInv, LinkInv', UserInv,
         NEW c \in Callback, NEW t \in Time, Register_Callback_At(c, t)
  PROVE  UserInv' /\ Promise!Register_At(c, t)
<1>1. PICK A, B, D, cb, hd, w, run, cur, fin, L :
        Setup(A, B, D, cb, hd, w, run, cur, fin, L)
  BY SetupNow
<1>2. PICK A2, B2, D2, cb2, hd2, w2, run2, cur2, fin2, L2 :
        Setup_Next(A2, B2, D2, cb2, hd2, w2, run2, cur2, fin2, L2)
  BY SetupNext
<1>3. /\ Cells_Right(A, B, D) /\ Users_Right(A, B, cb, hd, w, run, cur)
      /\ Walking(A, w, cur, fin)
      /\ Queue(Chain(First)) = Queued(Entry(cb), A, L)
      /\ Queue(To_Call) = Queued(Entry(cb), D, L)
      /\ Timed_Queue(Chain(Time_First)) = Queued(Timed_Entry(cb), B, L)
  BY <1>1, SetupFacts
<1>4. /\ Queue(Chain(First))' = Queued(Entry(cb2), A2, L2)
      /\ Queue(To_Call)' = Queued(Entry(cb2), D2, L2)
      /\ Timed_Queue(Chain(Time_First))' = Queued(Timed_Entry(cb2), B2, L2)
  BY <1>2, SetupSeen
<1>5. PICK now, first : now = Current_Time /\ first = First_Timeout OBVIOUS
<1>6. Times(B, cb, now, first) BY <1>1, <1>5, TimesNow
<1>7. /\ A = Chain(First) /\ B = Chain(Time_First) /\ D = Ahead(A, w, run, cur, fin)
      /\ cb = Cb /\ hd = handle /\ w = walk /\ run = running /\ cur = Cur /\ fin = Final
      /\ L = Alive(cb, run, cur)
  BY <1>1 DEF Setup
<1>8. /\ A2 = Chain(First)' /\ B2 = Chain(Time_First)' /\ D2 = Ahead(A2, w2, run2, cur2, fin2)
      /\ cb2 = Cb' /\ hd2 = handle' /\ w2 = walk' /\ run2 = running' /\ cur2 = Cur'
      /\ fin2 = Final' /\ L2 = Alive(cb2, run2, cur2)
  BY <1>2 DEF Setup_Next
<1>9. PICK i \in 0 .. Len(B), x \in Cell :
        /\ x \notin Elems(A) /\ x \notin Elems(B) /\ A2 = A /\ B2 = Inserted(B, i, x)
        /\ cb2 = [cb EXCEPT ![x] = [T |-> t, Mode |-> "Timed", Proc |-> c]]
        /\ hd2 = [hd EXCEPT ![c] = x] /\ hd[c] = Null /\ c # run
        /\ First_Timeout' = IF i = 0 THEN t ELSE first
        /\ \A k \in 1 .. i : cb[B[k]].T <= t
        /\ i < Len(B) => cb[B[i + 1]].T > t
  <2>1. PICK i \in 0 .. Len(B) :
          /\ New_Handle \in Cell
          /\ New_Handle \notin Elems(A) /\ New_Handle \notin Elems(B)
          /\ Chain(First)' = A /\ Chain(Time_First)' = Inserted(B, i, New_Handle)
          /\ Cb' = [Cb EXCEPT ![New_Handle] = [T |-> t, Mode |-> "Timed", Proc |-> c]]
          /\ handle' = [handle EXCEPT ![c] = New_Handle]
          /\ Insert_After(t, i)
          /\ First_Timeout' = IF i = 0 THEN t ELSE First_Timeout
          /\ handle[c] = Null /\ c # running
    BY <1>7, RegisterAtLists
  <2>2. /\ \A k \in 1 .. i : cb[B[k]].T <= t
        /\ i < Len(B) => cb[B[i + 1]].T > t
    BY <2>1, <1>7 DEF Insert_After
  <2> QED BY <2>1, <2>2, <1>5, <1>7, <1>8
<1>10. PICK cell : cell = [T |-> t, Mode |-> "Timed", Proc |-> c] OBVIOUS
<1>11. /\ w2 = w /\ run2 = run /\ cur2 = cur /\ fin2 = fin
       /\ Current_Time' = Current_Time /\ running' = running /\ Current_Time <= t
  BY <1>7, <1>8 DEF Register_Callback_At, walkVars, LinkInv, TypeOK, Time
<1>12. cell \in Cb_Cell /\ cell.Proc = c BY <1>10 DEF Cb_Cell
<1>13. Registering(A, B, D, cb, hd, w, run, cur, L, c, x, cell, cb2, hd2, L2)
  BY <1>3, <1>7, <1>8, <1>9, <1>10, <1>11, <1>12 DEF Registering
<1>14. /\ \A y \in Elems(A) \cup Elems(B) :
            cb2[y] = cb[y] /\ (y \in L2 <=> y \in L) /\ (y \in L => cb[y].Proc # c)
       /\ x \in L2 /\ cb2[x] = cell
       /\ \A y \in Elems(A) \cup Elems(B) \cup {x} :
            /\ cb2[y].Proc # Nop => hd2[cb2[y].Proc] = y
            /\ run # Nobody /\ cb2[y].Proc = run => w = "list" /\ y = cur
  BY ONLY <1>13, RegisterCells
<1>15. /\ A \in Seq(Cell) /\ B \in Seq(Cell) /\ D \in Seq(Cell) /\ Elems(D) \subseteq Elems(A)
       /\ cb \in [Cell -> Cb_Cell]
  BY ONLY <1>3 DEF Cells_Right, Users_Right
<1>16. cb2 \in [Cell -> Cb_Cell] BY ONLY <1>9, <1>10, <1>12, <1>15
<1>17. Elems(B2) = Elems(B) \cup {x}
  <2>1. Elems(Inserted(B, i, x)) = Elems(B) \cup {x}
    BY ONLY <1>15, i \in 0 .. Len(B), x \in Cell, InsertedType
  <2> QED BY ONLY <2>1, <1>9
<1>18. /\ \A k \in i + 1 .. Len(B) : cb[B[k]].T > t
       /\ Times(Inserted(B, i, x), cb2, now, IF i = 0 THEN t ELSE first)
  <2>1. now \in Time /\ first \in Time /\ now <= t
    BY <1>5, <1>11 DEF LinkInv, TypeOK
  <2>2. \A y \in Elems(B) : cb2[y].T = cb[y].T BY ONLY <1>14
  <2>3. cb2[x].T = t BY ONLY <1>10, <1>14
  <2>4. /\ \A k \in 1 .. i : cb[B[k]].T <= t
        /\ i < Len(B) => cb[B[i + 1]].T > t
    BY ONLY <1>9
  <2>5. B \in Seq(Cell) /\ cb \in [Cell -> Cb_Cell] BY ONLY <1>15
  <2> QED BY ONLY <2>1, <2>2, <2>3, <2>4, <2>5, <1>6, <1>16, i \in 0 .. Len(B), x \in Cell,
              t \in Time, TimesInserted
<1>19. UserInv'
  <2>1. Owners(A2, B2, cb2, hd2, w2, run2, cur2)
    BY ONLY <1>3, <1>9, <1>11, <1>14, <1>17 DEF Owners, Users_Right
  <2>2. Times(B2, cb2, Current_Time', First_Timeout')
    BY ONLY <1>5, <1>9, <1>11, <1>18
  <2> QED BY ONLY <1>2, <2>1, <2>2, UserNext
<1>21. \A y \in Elems(A) : y \in L <=> y \in L /\ cb[y].Proc # c BY ONLY <1>14
<1>22. \A y \in Elems(B) : y \in L <=> y \in L /\ cb[y].Proc # c BY ONLY <1>14
<1>23. Promise!Without(Queue(Chain(First)), c) = Queue(Chain(First))
  BY ONLY <1>3, <1>15, <1>21, QueueWithout
<1>24. Promise!Without(Timed_Queue(Chain(Time_First)), c) = Timed_Queue(Chain(Time_First))
  BY ONLY <1>3, <1>15, <1>22, TimedWithout
<1>25. \A y \in Elems(A) : cb2[y] = cb[y] /\ (y \in L2 <=> y \in L) BY ONLY <1>14
<1>26. Queue(Chain(First))' = Queue(Chain(First))
  <2>1. A \in Seq(Cell) BY ONLY <1>15
  <2>2. Queued(Entry(cb2), A, L2) = Queued(Entry(cb), A, L)
    BY ONLY <2>1, <1>25, QueueSame
  <2> QED BY ONLY <2>2, <1>3, <1>4, <1>9
<1>27. Queue(To_Call)' = Queue(To_Call)
  <2>1. D2 = D BY ONLY <1>7, <1>8, <1>9, <1>11
  <2>2. \A y \in Elems(D) : cb2[y] = cb[y] /\ (y \in L2 <=> y \in L) BY ONLY <1>15, <1>25
  <2> QED BY ONLY <2>1, <2>2, <1>3, <1>4, <1>15, QueueSame
<1>28. Timed_Queue(Chain(Time_First))'
         = (Until(Timed_Queue(Chain(Time_First)), t) \o <<[cb |-> c, at |-> t]>>)
             \o Later(Timed_Queue(Chain(Time_First)), t)
  <2>1. PICK p \in Seq(Cell), s \in Seq(Cell) :
          /\ p = SubSeq(B, 1, i) /\ s = SubSeq(B, i + 1, Len(B)) /\ B = p \o s
          /\ Elems(p) = {B[k] : k \in 1 .. i}
          /\ Elems(s) = {B[k] : k \in i + 1 .. Len(B)}
    BY ONLY <1>15, i \in 0 .. Len(B), CutCells
  <2>2. /\ \A y \in Elems(p) : cb[y].T <= t /\ y \in Elems(B)
        /\ \A y \in Elems(s) : cb[y].T > t /\ y \in Elems(B)
    <3>1. \A k \in 1 .. i : k \in 1 .. Len(B) OBVIOUS
    <3>2. \A k \in i + 1 .. Len(B) : k \in 1 .. Len(B) OBVIOUS
    <3> QED BY ONLY <2>1, <3>1, <3>2, <1>9, <1>18 DEF Elems
  <2>3. PICK q : q = Timed_Queue(Chain(Time_First)) OBVIOUS
  <2>4. q = Queued(Timed_Entry(cb), p \o s, L) BY ONLY <2>1, <2>3, <1>3
  <2>5. /\ Until(q, t) = Queued(Timed_Entry(cb), p, L)
        /\ Later(q, t) = Queued(Timed_Entry(cb), s, L)
    <3>1. cb \in [Cell -> Cb_Cell] BY ONLY <1>15
    <3>2. \A y \in Elems(p) : cb[y].T <= t BY ONLY <2>2
    <3>3. \A y \in Elems(s) : cb[y].T > t BY ONLY <2>2
    <3>4. p \in Seq(Cell) /\ s \in Seq(Cell) /\ t \in Time OBVIOUS
    <3> QED BY ONLY <2>4, <3>1, <3>2, <3>3, <3>4, TimedSplit
  <2>6. PICK f : f = Timed_Entry(cb2) OBVIOUS
  <2>7. Maps(f, Cell, Any_Timed_Entry) BY ONLY <2>6, <1>16, EntryType
  <2>8. Queued(f, Inserted(B, i, x), L2)
          = (Queued(f, SubSeq(B, 1, i), L2) \o One(f, x, L2))
              \o Queued(f, SubSeq(B, i + 1, Len(B)), L2)
    BY ONLY <2>7, <1>15, i \in 0 .. Len(B), x \in Cell, QueuedInserted
  <2>9. One(f, x, L2) = <<[cb |-> c, at |-> t]>>
    BY ONLY <2>6, <1>10, <1>14, x \in Cell DEF One, Timed_Entry
  <2>10. \A y \in Elems(B) : cb2[y] = cb[y] /\ (y \in L2 <=> y \in L) BY ONLY <1>14
  <2>11. Queued(Timed_Entry(cb2), p, L2) = Queued(Timed_Entry(cb), p, L)
    <3>1. \A y \in Elems(p) : cb2[y] = cb[y] /\ (y \in L2 <=> y \in L) BY ONLY <2>2, <2>10
    <3> QED BY ONLY <3>1, p \in Seq(Cell), TimedSame
  <2>12. Queued(Timed_Entry(cb2), s, L2) = Queued(Timed_Entry(cb), s, L)
    <3>1. \A y \in Elems(s) : cb2[y] = cb[y] /\ (y \in L2 <=> y \in L) BY ONLY <2>2, <2>10
    <3> QED BY ONLY <3>1, s \in Seq(Cell), TimedSame
  <2> QED BY ONLY <2>1, <2>3, <2>5, <2>6, <2>8, <2>9, <2>11, <2>12, <1>4, <1>9
<1>29. c # running /\ t >= Current_Time BY <1>7, <1>9 DEF Register_Callback_At
<1> QED BY <1>11, <1>19, <1>23, <1>24, <1>26, <1>27, <1>28, <1>29 DEF Promise!Register_At, Until, Later

-----------------------------------------------------------------------------
(* Callback c, whose cell is h, is removed.                                  *)
Deregistering(A, B, D, cb, hd, w, run, cur, c, h, hd2) ==
  /\ Cells_Right(A, B, D) /\ Users_Right(A, B, cb, hd, w, run, cur)
  /\ c \in Callback /\ h = hd[c] /\ h \in Elems(A) \cup Elems(B) /\ cb[h].Proc = c
  /\ hd2 = [hd EXCEPT ![c] = Null]

(* No cell but h belongs to the callback that is removed.                    *)
LEMMA DeregisterCells ==
  ASSUME NEW A, NEW B, NEW D, NEW cb, NEW hd, NEW w, NEW run, NEW cur,
         NEW c, NEW h, NEW hd2,
         Deregistering(A, B, D, cb, hd, w, run, cur, c, h, hd2)
  PROVE  \A y \in Elems(A) \cup Elems(B) : y # h =>
           /\ cb[y].Proc # c
           /\ cb[y].Proc # Nop => hd2[cb[y].Proc] = y
           /\ run # Nobody /\ cb[y].Proc = run => w = "list" /\ y = cur
<1> USE DEF Deregistering, Cells_Right, Users_Right
<1>1. SUFFICES ASSUME NEW y \in Elems(A) \cup Elems(B), y # h
               PROVE  /\ cb[y].Proc # c
                      /\ cb[y].Proc # Nop => hd2[cb[y].Proc] = y
                      /\ run # Nobody /\ cb[y].Proc = run => w = "list" /\ y = cur
  OBVIOUS
<1>2. y \in Cell /\ c # Nop BY CallbackAssumption
<1>3. cb[y].Proc # c BY <1>1, <1>2
<1>4. cb[y].Proc \in Callback \cup {Nop} BY <1>2 DEF Cb_Cell
<1>5. \A d \in Callback : d # c => hd2[d] = hd[d] OBVIOUS
<1>6. cb[y].Proc # Nop => hd2[cb[y].Proc] = y BY <1>3, <1>4, <1>5
<1> QED BY <1>3, <1>6

(* Delete_Callback, which marks the cell, removes the entry from the queue.  *)
LEMMA DeleteSeen ==
  ASSUME LinkInv, LinkInv', UserInv, NEW c \in Callback, Delete_Callback(c)
  PROVE  UserInv' /\ Promise!Remove(c)
<1>1. PICK A, B, D, cb, hd, w, run, cur, fin, L :
        Setup(A, B, D, cb, hd, w, run, cur, fin, L)
  BY SetupNow
<1>2. PICK A2, B2, D2, cb2, hd2, w2, run2, cur2, fin2, L2 :
        Setup_Next(A2, B2, D2, cb2, hd2, w2, run2, cur2, fin2, L2)
  BY SetupNext
<1>3. /\ Cells_Right(A, B, D) /\ Users_Right(A, B, cb, hd, w, run, cur)
      /\ Walking(A, w, cur, fin)
      /\ Queue(Chain(First)) = Queued(Entry(cb), A, L)
      /\ Queue(To_Call) = Queued(Entry(cb), D, L)
      /\ Timed_Queue(Chain(Time_First)) = Queued(Timed_Entry(cb), B, L)
  BY <1>1, SetupFacts
<1>4. /\ Queue(Chain(First))' = Queued(Entry(cb2), A2, L2)
      /\ Queue(To_Call)' = Queued(Entry(cb2), D2, L2)
      /\ Timed_Queue(Chain(Time_First))' = Queued(Timed_Entry(cb2), B2, L2)
  BY <1>2, SetupSeen
<1>5. PICK now, first : now = Current_Time /\ first = First_Timeout OBVIOUS
<1>6. Times(B, cb, now, first) BY <1>1, <1>5, TimesNow
<1>7. /\ A = Chain(First) /\ B = Chain(Time_First) /\ D = Ahead(A, w, run, cur, fin)
      /\ cb = Cb /\ hd = handle /\ w = walk /\ run = running /\ cur = Cur /\ fin = Final
      /\ L = Alive(cb, run, cur)
  BY <1>1 DEF Setup
<1>8. /\ A2 = Chain(First)' /\ B2 = Chain(Time_First)' /\ D2 = Ahead(A2, w2, run2, cur2, fin2)
      /\ cb2 = Cb' /\ hd2 = handle' /\ w2 = walk' /\ run2 = running' /\ cur2 = Cur'
      /\ fin2 = Final' /\ L2 = Alive(cb2, run2, cur2)
  BY <1>2 DEF Setup_Next
<1>9. /\ A \in Seq(Cell) /\ B \in Seq(Cell) /\ D \in Seq(Cell) /\ Elems(D) \subseteq Elems(A)
      /\ Elems(A) \subseteq Cell /\ Elems(B) \subseteq Cell /\ Elems(A) \cap Elems(B) = {}
      /\ \A j, k \in 1 .. Len(A) : A[j] = A[k] => j = k
      /\ \A j, k \in 1 .. Len(B) : B[j] = B[k] => j = k
      /\ cb \in [Cell -> Cb_Cell] /\ hd \in [Callback -> Handle]
  BY ONLY <1>3 DEF Cells_Right, Users_Right
<1>10. PICK h : h = hd[c] OBVIOUS
<1>11. h \in Elems(A) \cup Elems(B) /\ cb[h].Proc = c /\ h \in Cell
  <2>1. h # Null /\ ~(c = running /\ walk = "time")
    BY <1>7, <1>10 DEF Delete_Callback, May_Remove
  <2> QED BY <2>1, <1>7, <1>9, <1>10 DEF LinkInv, Handles
<1>12. /\ cb2 = [cb EXCEPT ![h].Proc = Nop,
                          ![h].Mode = IF @ = "Repeat" THEN "Oneshot" ELSE @]
       /\ hd2 = [hd EXCEPT ![c] = Null]
       /\ w2 = w /\ run2 = run /\ cur2 = cur /\ fin2 = fin
       /\ Current_Time' = now /\ First_Timeout' = first /\ running' = running
  BY <1>5, <1>7, <1>8, <1>10 DEF Delete_Callback, timeListVars, walkVars
<1>13. A2 = A /\ B2 = B
  BY <1>7, <1>8, ListsSame DEF LinkInv, Delete_Callback, listVars, timeListVars
<1>14. Deregistering(A, B, D, cb, hd, w, run, cur, c, h, hd2)
  BY <1>3, <1>10, <1>11, <1>12 DEF Deregistering
<1>15. \A y \in Elems(A) \cup Elems(B) : y # h =>
         /\ cb[y].Proc # c
         /\ cb[y].Proc # Nop => hd2[cb[y].Proc] = y
         /\ run # Nobody /\ cb[y].Proc = run => w = "list" /\ y = cur
  BY ONLY <1>14, DeregisterCells
<1>16. /\ cb2[h].Proc = Nop /\ cb2[h].T = cb[h].T
       /\ \A y \in Elems(A) \cup Elems(B) : y # h => cb2[y] = cb[y]
  <2>1. cb[h] \in Cb_Cell BY <1>9, <1>11
  <2> QED BY <2>1, <1>9, <1>11, <1>12 DEF Cb_Cell
<1>17. \A y \in Elems(A) \cup Elems(B) :
         /\ y \in L2 <=> y \in L /\ cb[y].Proc # c
         /\ y \in L2 => cb2[y] = cb[y]
  <2> SUFFICES ASSUME NEW y \in Elems(A) \cup Elems(B)
               PROVE  /\ y \in L2 <=> y \in L /\ cb[y].Proc # c
                      /\ y \in L2 => cb2[y] = cb[y]
    OBVIOUS
  <2>1. CASE y = h
    <3>1. y \notin L2 BY <2>1, <1>8, <1>16 DEF Alive
    <3> QED BY <2>1, <3>1, <1>11
  <2>2. CASE y # h
    <3>1. y \in Cell BY <1>9
    <3>2. cb2[y] = cb[y] BY <2>2, <1>16
    <3>3. y \in Alive(cb2, run, cur) <=> y \in Alive(cb, run, cur)
      BY ONLY <3>1, <3>2, AliveCell
    <3> QED BY <2>2, <3>2, <3>3, <1>7, <1>8, <1>12, <1>15
  <2> QED BY <2>1, <2>2
<1>18. UserInv'
  <2>1. Owners(A2, B2, cb2, hd2, w2, run2, cur2)
    <3>1. run # Nobody => run # Nop BY <1>3, CallbackAssumption DEF Users_Right
    <3> QED BY ONLY <3>1, <1>3, <1>12, <1>13, <1>15, <1>16 DEF Owners, Users_Right
  <2>2. \A y \in Elems(B) : cb2[y].T = cb[y].T BY ONLY <1>16
  <2>3. Times(B, cb2, now, first) BY ONLY <2>2, <1>6, TimesKept
  <2>4. Times(B2, cb2, Current_Time', First_Timeout') BY ONLY <2>3, <1>12, <1>13
  <2> QED BY ONLY <1>2, <2>1, <2>4, UserNext
<1>19. Queue(Chain(First))' = Promise!Without(Queue(Chain(First)), c)
  <2>1. \A y \in Elems(A) : y \in L2 <=> y \in L /\ cb[y].Proc # c BY ONLY <1>17
  <2>2. \A y \in Elems(A) : y \in L2 => cb2[y] = cb[y] BY ONLY <1>17
  <2>3. Promise!Without(Queued(Entry(cb), A, L), c) = Queued(Entry(cb2), A, L2)
    <3>1. A \in Seq(Cell) /\ cb \in [Cell -> Cb_Cell] BY ONLY <1>9
    <3> QED BY ONLY <2>1, <2>2, <3>1, QueueWithout
  <2> QED BY ONLY <2>3, <1>3, <1>4, <1>13
<1>20. Queue(To_Call)' = Promise!Without(Queue(To_Call), c)
  <2>1. \A y \in Elems(D) : y \in L2 <=> y \in L /\ cb[y].Proc # c BY ONLY <1>9, <1>17
  <2>2. \A y \in Elems(D) : y \in L2 => cb2[y] = cb[y] BY ONLY <1>9, <1>17
  <2>3. Promise!Without(Queued(Entry(cb), D, L), c) = Queued(Entry(cb2), D, L2)
    <3>1. D \in Seq(Cell) /\ cb \in [Cell -> Cb_Cell] BY ONLY <1>9
    <3> QED BY ONLY <2>1, <2>2, <3>1, QueueWithout
  <2>4. D2 = D BY ONLY <1>7, <1>8, <1>12, <1>13
  <2> QED BY ONLY <2>3, <2>4, <1>3, <1>4
<1>21. Timed_Queue(Chain(Time_First))' = Promise!Without(Timed_Queue(Chain(Time_First)), c)
  <2>1. \A y \in Elems(B) : y \in L2 <=> y \in L /\ cb[y].Proc # c BY ONLY <1>17
  <2>2. \A y \in Elems(B) : y \in L2 => cb2[y] = cb[y] BY ONLY <1>17
  <2>3. Promise!Without(Queued(Timed_Entry(cb), B, L), c) = Queued(Timed_Entry(cb2), B, L2)
    <3>1. B \in Seq(Cell) /\ cb \in [Cell -> Cb_Cell] BY ONLY <1>9
    <3> QED BY ONLY <2>1, <2>2, <3>1, TimedWithout
  <2> QED BY ONLY <2>3, <1>3, <1>4, <1>13
<1> QED BY <1>5, <1>12, <1>18, <1>19, <1>20, <1>21 DEF Promise!Remove

(* Unregister_Callback_At, which unlinks the cell, removes the entry too.    *)
LEMMA UnregisterSeen ==
  ASSUME LinkInv, LinkInv', UserInv, NEW c \in Callback, Unregister_Callback_At(c)
  PROVE  UserInv' /\ Promise!Remove(c)
<1>1. PICK A, B, D, cb, hd, w, run, cur, fin, L :
        Setup(A, B, D, cb, hd, w, run, cur, fin, L)
  BY SetupNow
<1>2. PICK A2, B2, D2, cb2, hd2, w2, run2, cur2, fin2, L2 :
        Setup_Next(A2, B2, D2, cb2, hd2, w2, run2, cur2, fin2, L2)
  BY SetupNext
<1>3. /\ Cells_Right(A, B, D) /\ Users_Right(A, B, cb, hd, w, run, cur)
      /\ Walking(A, w, cur, fin)
      /\ Queue(Chain(First)) = Queued(Entry(cb), A, L)
      /\ Queue(To_Call) = Queued(Entry(cb), D, L)
      /\ Timed_Queue(Chain(Time_First)) = Queued(Timed_Entry(cb), B, L)
  BY <1>1, SetupFacts
<1>4. /\ Queue(Chain(First))' = Queued(Entry(cb2), A2, L2)
      /\ Queue(To_Call)' = Queued(Entry(cb2), D2, L2)
      /\ Timed_Queue(Chain(Time_First))' = Queued(Timed_Entry(cb2), B2, L2)
  BY <1>2, SetupSeen
<1>5. PICK now, first : now = Current_Time /\ first = First_Timeout OBVIOUS
<1>6. Times(B, cb, now, first) BY <1>1, <1>5, TimesNow
<1>7. /\ A = Chain(First) /\ B = Chain(Time_First) /\ D = Ahead(A, w, run, cur, fin)
      /\ cb = Cb /\ hd = handle /\ w = walk /\ run = running /\ cur = Cur /\ fin = Final
      /\ L = Alive(cb, run, cur)
  BY <1>1 DEF Setup
<1>8. /\ A2 = Chain(First)' /\ B2 = Chain(Time_First)' /\ D2 = Ahead(A2, w2, run2, cur2, fin2)
      /\ cb2 = Cb' /\ hd2 = handle' /\ w2 = walk' /\ run2 = running' /\ cur2 = Cur'
      /\ fin2 = Final' /\ L2 = Alive(cb2, run2, cur2)
  BY <1>2 DEF Setup_Next
<1>9. /\ A \in Seq(Cell) /\ B \in Seq(Cell) /\ D \in Seq(Cell) /\ Elems(D) \subseteq Elems(A)
      /\ Elems(A) \subseteq Cell /\ Elems(B) \subseteq Cell /\ Elems(A) \cap Elems(B) = {}
      /\ \A j, k \in 1 .. Len(A) : A[j] = A[k] => j = k
      /\ \A j, k \in 1 .. Len(B) : B[j] = B[k] => j = k
      /\ cb \in [Cell -> Cb_Cell] /\ hd \in [Callback -> Handle]
  BY ONLY <1>3 DEF Cells_Right, Users_Right
<1>10. PICK i \in 1 .. Len(B) :
         B[i] = hd[c] /\ cb[hd[c]].Proc = c /\ A2 = A /\ B2 = Removed(B, i)
  BY <1>7, <1>8, UnregisterLists
<1>11. PICK h \in Cell : h = hd[c] /\ h = B[i] /\ h \in Elems(B) /\ cb[h].Proc = c
  <2>1. B[i] \in Elems(B) BY DEF Elems
  <2> QED BY <2>1, <1>9, <1>10
<1>12. /\ cb2 = cb /\ hd2 = [hd EXCEPT ![c] = Null]
       /\ w2 = w /\ run2 = run /\ cur2 = cur /\ fin2 = fin
       /\ Current_Time' = now /\ First_Timeout' = first /\ running' = running
  BY <1>5, <1>7, <1>8 DEF Unregister_Callback_At, walkVars
<1>13. L2 = L BY <1>7, <1>8, <1>12
<1>14. Deregistering(A, B, D, cb, hd, w, run, cur, c, h, hd2)
  BY <1>3, <1>11, <1>12 DEF Deregistering
<1>15. \A y \in Elems(A) \cup Elems(B) : y # h =>
         /\ cb[y].Proc # c
         /\ cb[y].Proc # Nop => hd2[cb[y].Proc] = y
         /\ run # Nobody /\ cb[y].Proc = run => w = "list" /\ y = cur
  BY ONLY <1>14, DeregisterCells
<1>16. B2 \in Seq(Cell) /\ Elems(B2) = Elems(B) \ {h}
  <2>1. Removed(B, i) \in Seq(Cell) /\ Elems(Removed(B, i)) = Elems(B) \ {B[i]}
    BY ONLY <1>9, i \in 1 .. Len(B), RemovedType
  <2> QED BY ONLY <2>1, <1>10, <1>11
<1>17. UserInv'
  <2>1. Owners(A2, B2, cb2, hd2, w2, run2, cur2)
    BY ONLY <1>3, <1>9, <1>10, <1>11, <1>12, <1>15, <1>16 DEF Owners, Users_Right
  <2>2. Times(Removed(B, i), cb, now, first)
    BY ONLY <1>6, <1>9, i \in 1 .. Len(B), TimesRemoved
  <2>3. Times(B2, cb2, Current_Time', First_Timeout') BY ONLY <2>2, <1>10, <1>12
  <2> QED BY ONLY <1>2, <2>1, <2>3, UserNext
<1>18. \A y \in Elems(A) : cb[y].Proc # c BY ONLY <1>9, <1>11, <1>15
<1>19. Queue(Chain(First))' = Promise!Without(Queue(Chain(First)), c)
  <2>1. \A y \in Elems(A) : y \in L <=> y \in L /\ cb[y].Proc # c BY ONLY <1>18
  <2>2. \A y \in Elems(A) : y \in L => cb[y] = cb[y] OBVIOUS
  <2>3. Promise!Without(Queued(Entry(cb), A, L), c) = Queued(Entry(cb), A, L)
    <3>1. A \in Seq(Cell) /\ cb \in [Cell -> Cb_Cell] BY ONLY <1>9
    <3> QED BY ONLY <2>1, <2>2, <3>1, QueueWithout
  <2> QED BY ONLY <2>3, <1>3, <1>4, <1>10, <1>12, <1>13
<1>20. Queue(To_Call)' = Promise!Without(Queue(To_Call), c)
  <2>1. \A y \in Elems(D) : y \in L <=> y \in L /\ cb[y].Proc # c BY ONLY <1>9, <1>18
  <2>2. \A y \in Elems(D) : y \in L => cb[y] = cb[y] OBVIOUS
  <2>3. Promise!Without(Queued(Entry(cb), D, L), c) = Queued(Entry(cb), D, L)
    <3>1. D \in Seq(Cell) /\ cb \in [Cell -> Cb_Cell] BY ONLY <1>9
    <3> QED BY ONLY <2>1, <2>2, <3>1, QueueWithout
  <2>4. D2 = D BY ONLY <1>7, <1>8, <1>10, <1>12
  <2> QED BY ONLY <2>3, <2>4, <1>3, <1>4, <1>12, <1>13
<1>21. Timed_Queue(Chain(Time_First))' = Promise!Without(Timed_Queue(Chain(Time_First)), c)
  <2>1. PICK M : M = L \ {h} OBVIOUS
  <2>2. \A y \in Elems(B) : y \in M <=> y \in L /\ cb[y].Proc # c
    BY ONLY <2>1, <1>11, <1>15
  <2>3. \A y \in Elems(B) : y \in M => cb[y] = cb[y] OBVIOUS
  <2>4. Promise!Without(Queued(Timed_Entry(cb), B, L), c) = Queued(Timed_Entry(cb), B, M)
    <3>1. B \in Seq(Cell) /\ cb \in [Cell -> Cb_Cell] BY ONLY <1>9
    <3> QED BY ONLY <2>2, <2>3, <3>1, TimedWithout
  <2>5. PICK f : f = Timed_Entry(cb) OBVIOUS
  <2>6. Maps(f, Cell, Any_Timed_Entry) BY ONLY <2>5, <1>9, EntryType
  <2>7. B[i] \notin M BY ONLY <2>1, <1>11
  <2>8. Queued(f, Removed(B, i), M) = Queued(f, B, M)
    BY ONLY <2>6, <2>7, <1>9, i \in 1 .. Len(B), QueuedRemovedDead
  <2>9. \A y \in Elems(B2) : cb[y] = cb[y] /\ (y \in M <=> y \in L)
    BY ONLY <2>1, <1>16
  <2>10. Queued(Timed_Entry(cb), B2, M) = Queued(Timed_Entry(cb), B2, L)
    BY ONLY <2>9, <1>16, TimedSame
  <2> QED BY ONLY <2>4, <2>5, <2>8, <2>10, <1>3, <1>4, <1>10, <1>12, <1>13
<1> QED BY <1>5, <1>12, <1>17, <1>19, <1>20, <1>21 DEF Promise!Remove

-----------------------------------------------------------------------------
(* The walk.                                                                 *)
LEMMA StartSeen ==
  ASSUME LinkInv, LinkInv', UserInv, Start_Callbacks
  PROVE  UserInv' /\ Promise!Begin
<1>1. PICK A, B, D, cb, hd, w, run, cur, fin, L :
        Setup(A, B, D, cb, hd, w, run, cur, fin, L)
  BY SetupNow
<1>2. PICK A2, B2, D2, cb2, hd2, w2, run2, cur2, fin2, L2 :
        Setup_Next(A2, B2, D2, cb2, hd2, w2, run2, cur2, fin2, L2)
  BY SetupNext
<1>3. /\ Cells_Right(A, B, D) /\ Users_Right(A, B, cb, hd, w, run, cur)
      /\ Walking(A, w, cur, fin)
      /\ Queue(Chain(First)) = Queued(Entry(cb), A, L)
      /\ Queue(To_Call) = Queued(Entry(cb), D, L)
      /\ Timed_Queue(Chain(Time_First)) = Queued(Timed_Entry(cb), B, L)
  BY <1>1, SetupFacts
<1>4. /\ Queue(Chain(First))' = Queued(Entry(cb2), A2, L2)
      /\ Queue(To_Call)' = Queued(Entry(cb2), D2, L2)
      /\ Timed_Queue(Chain(Time_First))' = Queued(Timed_Entry(cb2), B2, L2)
  BY <1>2, SetupSeen
<1>5. PICK now, first : now = Current_Time /\ first = First_Timeout OBVIOUS
<1>6. Times(B, cb, now, first) BY <1>1, <1>5, TimesNow
<1>7. /\ A = Chain(First) /\ B = Chain(Time_First) /\ D = Ahead(A, w, run, cur, fin)
      /\ cb = Cb /\ hd = handle /\ w = walk /\ run = running /\ cur = Cur /\ fin = Final
      /\ L = Alive(cb, run, cur)
  BY <1>1 DEF Setup
<1>8. /\ A2 = Chain(First)' /\ B2 = Chain(Time_First)' /\ D2 = Ahead(A2, w2, run2, cur2, fin2)
      /\ cb2 = Cb' /\ hd2 = handle' /\ w2 = walk' /\ run2 = running' /\ cur2 = Cur'
      /\ fin2 = Final' /\ L2 = Alive(cb2, run2, cur2)
  BY <1>2 DEF Setup_Next
<1>9. /\ A \in Seq(Cell) /\ B \in Seq(Cell) /\ D \in Seq(Cell) /\ Elems(D) \subseteq Elems(A)
      /\ Elems(A) \subseteq Cell /\ Elems(B) \subseteq Cell /\ Elems(A) \cap Elems(B) = {}
      /\ \A j, k \in 1 .. Len(A) : A[j] = A[k] => j = k
      /\ \A j, k \in 1 .. Len(B) : B[j] = B[k] => j = k
      /\ cb \in [Cell -> Cb_Cell] /\ hd \in [Callback -> Handle]
  BY ONLY <1>3 DEF Cells_Right, Users_Right
<1>10. /\ w = "none" /\ run = Nobody /\ cb2 = cb /\ hd2 = hd
       /\ w2 = "list" /\ run2 = run /\ cur2 = First /\ fin2 = Last
       /\ Current_Time' = now /\ First_Timeout' = first /\ running' = running
  BY <1>5, <1>7, <1>8 DEF Start_Callbacks, timeListVars, LinkInv, Running
<1>11. A2 = A /\ B2 = B
  BY <1>7, <1>8, ListsSame DEF LinkInv, Start_Callbacks, listVars, timeListVars
<1>12. PICK m, n \in 1 .. Len(A) : m = 1 /\ n = Len(A) /\ A[m] = cur2 /\ A[n] = fin2
  <2>1. First = IF Len(A) = 0 THEN Null ELSE A[1] BY <1>7, ListsCells DEF LinkInv
  <2>2. Len(A) \in Nat /\ Len(A) # 0 BY <2>1, <1>9 DEF Start_Callbacks
  <2>3. A # << >> BY <2>2
  <2>4. Last = A[Len(A)] BY <2>3, <1>7 DEF LinkInv, ListEnds
  <2> QED BY <2>1, <2>2, <2>4, <1>10
<1>13. D2 = A
  <2>1. \A j, k \in 1 .. Len(A) : A[j] = A[k] => j = k BY ONLY <1>9
  <2>2. Ahead(A, "list", Nobody, A[m], A[n]) = SubSeq(A, m, n)
    <3>1. Ahead(A, "list", Nobody, A[m], A[n])
            = SubSeq(A, IF Nobody = Nobody THEN m ELSE m + 1, n)
      BY <2>1, <1>9, AheadCells
    <3> QED BY <3>1
  <2>3. SubSeq(A, 1, Len(A)) = A BY <1>9, SubSeqEnds
  <2> QED BY ONLY <2>2, <2>3, <1>8, <1>10, <1>11, <1>12
<1>14. L2 = L BY <1>7, <1>8, <1>10 DEF Alive
<1>15. UserInv'
  <2>1. Owners(A2, B2, cb2, hd2, w2, run2, cur2)
    BY ONLY <1>3, <1>10, <1>11 DEF Owners, Users_Right
  <2>2. Times(B2, cb2, Current_Time', First_Timeout') BY ONLY <1>6, <1>10, <1>11
  <2> QED BY ONLY <1>2, <2>1, <2>2, UserNext
<1>16. Queue(To_Call) = << >>
  <2>1. D = << >> BY <1>7, <1>10 DEF Ahead
  <2> QED BY ONLY <2>1, <1>3, QueuedEmpty
<1>17. /\ Queue(Chain(First))' = Queue(Chain(First))
       /\ Queue(To_Call)' = Queue(Chain(First))
       /\ Timed_Queue(Chain(Time_First))' = Timed_Queue(Chain(Time_First))
  BY ONLY <1>3, <1>4, <1>10, <1>11, <1>13, <1>14
<1> QED BY <1>5, <1>7, <1>10, <1>15, <1>16, <1>17 DEF Promise!Begin

(* Cells to be called, the first of them, and the others.                    *)
LEMMA FirstAhead ==
  ASSUME NEW s \in Seq(Cell), NEW i \in 1 .. Len(s), NEW j \in 1 .. Len(s), i <= j,
         \A k, l \in 1 .. Len(s) : s[k] = s[l] => k = l
  PROVE  /\ SubSeq(s, i, j) = <<s[i]>> \o SubSeq(s, i + 1, j)
         /\ SubSeq(s, i + 1, j) \in Seq(Cell)
         /\ Elems(SubSeq(s, i + 1, j)) \subseteq Elems(s) \ {s[i]}
<1>1. PICK m \in 1 .. Len(s) + 1 : m = i + 1 OBVIOUS
<1>2. PICK n \in 0 .. Len(s) : n = j OBVIOUS
<1>3. SubSeq(s, m, n) \in Seq(Cell) /\ Elems(SubSeq(s, m, n)) = {s[k] : k \in m .. n}
  BY ElemsSubSeq
<1>4. \A k \in m .. n : k \in 1 .. Len(s) /\ k # i BY <1>1, <1>2
<1>5. {s[k] : k \in m .. n} \subseteq Elems(s) \ {s[i]} BY <1>4 DEF Elems
<1>6. SubSeq(s, i, j) = <<s[i]>> \o SubSeq(s, i + 1, j)
  <2>1. i \in Int /\ j \in Int /\ \A k \in i .. j : s[k] \in Cell
    <3> SUFFICES ASSUME NEW k \in i .. j PROVE s[k] \in Cell OBVIOUS
    <3>1. k \in 1 .. Len(s) OBVIOUS
    <3> QED BY <3>1
  <2> QED BY <2>1, SubSeqRecursiveFirst
<1> QED BY <1>1, <1>2, <1>3, <1>5, <1>6

(* Call_Callback calls the callback of the first entry still to be called.   *)
LEMMA CallSeen ==
  ASSUME LinkInv, LinkInv', UserInv, Call_Callback
  PROVE  UserInv' /\ Promise!Call
<1>1. PICK A, B, D, cb, hd, w, run, cur, fin, L :
        Setup(A, B, D, cb, hd, w, run, cur, fin, L)
  BY SetupNow
<1>2. PICK A2, B2, D2, cb2, hd2, w2, run2, cur2, fin2, L2 :
        Setup_Next(A2, B2, D2, cb2, hd2, w2, run2, cur2, fin2, L2)
  BY SetupNext
<1>3. /\ Cells_Right(A, B, D) /\ Users_Right(A, B, cb, hd, w, run, cur)
      /\ Walking(A, w, cur, fin)
      /\ Queue(Chain(First)) = Queued(Entry(cb), A, L)
      /\ Queue(To_Call) = Queued(Entry(cb), D, L)
      /\ Timed_Queue(Chain(Time_First)) = Queued(Timed_Entry(cb), B, L)
  BY <1>1, SetupFacts
<1>4. /\ Queue(Chain(First))' = Queued(Entry(cb2), A2, L2)
      /\ Queue(To_Call)' = Queued(Entry(cb2), D2, L2)
      /\ Timed_Queue(Chain(Time_First))' = Queued(Timed_Entry(cb2), B2, L2)
  BY <1>2, SetupSeen
<1>5. PICK now, first : now = Current_Time /\ first = First_Timeout OBVIOUS
<1>6. Times(B, cb, now, first) BY <1>1, <1>5, TimesNow
<1>7. /\ A = Chain(First) /\ B = Chain(Time_First) /\ D = Ahead(A, w, run, cur, fin)
      /\ cb = Cb /\ hd = handle /\ w = walk /\ run = running /\ cur = Cur /\ fin = Final
      /\ L = Alive(cb, run, cur)
  BY <1>1 DEF Setup
<1>8. /\ A2 = Chain(First)' /\ B2 = Chain(Time_First)' /\ D2 = Ahead(A2, w2, run2, cur2, fin2)
      /\ cb2 = Cb' /\ hd2 = handle' /\ w2 = walk' /\ run2 = running' /\ cur2 = Cur'
      /\ fin2 = Final' /\ L2 = Alive(cb2, run2, cur2)
  BY <1>2 DEF Setup_Next
<1>9. /\ A \in Seq(Cell) /\ B \in Seq(Cell) /\ D \in Seq(Cell) /\ Elems(D) \subseteq Elems(A)
      /\ Elems(A) \subseteq Cell /\ Elems(B) \subseteq Cell /\ Elems(A) \cap Elems(B) = {}
      /\ \A j, k \in 1 .. Len(A) : A[j] = A[k] => j = k
      /\ \A j, k \in 1 .. Len(B) : B[j] = B[k] => j = k
      /\ cb \in [Cell -> Cb_Cell] /\ hd \in [Callback -> Handle]
  BY ONLY <1>3 DEF Cells_Right, Users_Right
<1>10. /\ w = "list" /\ run = Nobody /\ cb2 = cb /\ hd2 = hd
       /\ w2 = w /\ cur2 = cur /\ fin2 = fin
       /\ cb[cur].Proc # Nop /\ run2 = cb[cur].Proc /\ running' = run2
       /\ Current_Time' = now /\ First_Timeout' = first
  BY <1>5, <1>7, <1>8 DEF Call_Callback, timeListVars
<1>11. A2 = A /\ B2 = B
  BY <1>7, <1>8, ListsSame DEF LinkInv, Call_Callback, listVars, timeListVars
<1>12. PICK i, j \in 1 .. Len(A) : A[i] = cur /\ A[j] = fin /\ i <= j
  BY <1>7, <1>10 DEF LinkInv, ListEnds
<1>13. /\ cur \in Elems(A) /\ cur \in Cell /\ cur \notin Elems(B)
       /\ cb[cur] \in Cb_Cell /\ run2 \in Callback /\ run2 # Nobody
  BY <1>9, <1>10, <1>12, CallbackAssumption DEF Elems, Cb_Cell
<1>14. \A k, l \in 1 .. Len(A) : A[k] = A[l] => k = l BY ONLY <1>9
<1>15. PICK T \in Seq(Cell) :
         /\ T = SubSeq(A, i + 1, j) /\ D = <<cur>> \o T /\ D2 = T
         /\ Elems(T) \subseteq Elems(A) \ {cur}
  <2>1. /\ SubSeq(A, i, j) = <<A[i]>> \o SubSeq(A, i + 1, j)
        /\ SubSeq(A, i + 1, j) \in Seq(Cell)
        /\ Elems(SubSeq(A, i + 1, j)) \subseteq Elems(A) \ {A[i]}
    BY <1>9, <1>12, <1>14, FirstAhead
  <2>2. \A r : Ahead(A, "list", r, A[i], A[j])
                 = SubSeq(A, IF r = Nobody THEN i ELSE i + 1, j)
    BY <1>9, <1>14, AheadCells
  <2>3. D = SubSeq(A, i, j) /\ D2 = SubSeq(A, i + 1, j)
    BY <2>2, <1>7, <1>8, <1>10, <1>11, <1>12, <1>13
  <2> QED BY ONLY <2>1, <2>3, <1>12
<1>16. \A y \in Elems(A) \cup Elems(B) :
         /\ y # cur => (y \in L2 <=> y \in L)
         /\ cb[y].Proc = run2 => y = cur
  BY <1>3, <1>7, <1>8, <1>10, <1>13 DEF Alive, Users_Right
<1>17. cur \in L /\ (cur \in L2 <=> cb[cur].Mode # "Oneshot")
  BY <1>7, <1>8, <1>10, <1>13 DEF Alive
<1>18. UserInv'
  <2>1. Owners(A2, B2, cb2, hd2, w2, run2, cur2)
    BY ONLY <1>3, <1>10, <1>11, <1>16 DEF Owners, Users_Right
  <2>2. Times(B2, cb2, Current_Time', First_Timeout') BY ONLY <1>6, <1>10, <1>11
  <2> QED BY ONLY <1>2, <2>1, <2>2, UserNext
<1>19. PICK e : e = Entry(cb) OBVIOUS
<1>20. e[cur] = [cb |-> run2, once |-> cb[cur].Mode = "Oneshot"]
  BY <1>10, <1>13, <1>19 DEF Entry
<1>21. /\ Queue(To_Call) # << >> /\ Head(Queue(To_Call)) = e[cur]
       /\ Queue(To_Call)' = Tail(Queue(To_Call))
  <2>1. Maps(e, Cell, Any_Entry) BY ONLY <1>9, <1>19, EntryType
  <2>2. PICK x \in Cell : x = cur BY <1>13
  <2>3. x \in L BY ONLY <2>2, <1>17
  <2>4. /\ Queued(e, <<x>> \o T, L) # << >>
        /\ Head(Queued(e, <<x>> \o T, L)) = e[x]
        /\ Tail(Queued(e, <<x>> \o T, L)) = Queued(e, T, L)
    BY ONLY <2>1, <2>3, x \in Cell, T \in Seq(Cell), QueuedFirst
  <2>5. \A y \in Elems(T) : cb[y] = cb[y] /\ (y \in L2 <=> y \in L) BY ONLY <1>15, <1>16
  <2>6. Queued(Entry(cb), T, L2) = Queued(Entry(cb), T, L)
    BY ONLY <2>5, T \in Seq(Cell), QueueSame
  <2> QED BY ONLY <2>2, <2>4, <2>6, <1>3, <1>4, <1>10, <1>15, <1>19
<1>22. Queue(Chain(First))'
         = IF e[cur].once THEN Promise!Without(Queue(Chain(First)), e[cur].cb)
           ELSE Queue(Chain(First))
  <2>1. A \in Seq(Cell) /\ cb \in [Cell -> Cb_Cell] BY ONLY <1>9
  <2>2. CASE cb[cur].Mode = "Oneshot"
    <3>1. \A y \in Elems(A) : y \in L2 <=> y \in L /\ cb[y].Proc # run2
      BY ONLY <2>2, <1>10, <1>16, <1>17
    <3>2. \A y \in Elems(A) : y \in L2 => cb[y] = cb[y] OBVIOUS
    <3>3. Promise!Without(Queued(Entry(cb), A, L), run2) = Queued(Entry(cb), A, L2)
      BY ONLY <2>1, <3>1, <3>2, QueueWithout
    <3>4. e[cur].once /\ e[cur].cb = run2
      <4>1. PICK v : v = e[cur] OBVIOUS
      <4>2. v = [cb |-> run2, once |-> cb[cur].Mode = "Oneshot"] BY ONLY <4>1, <1>20
      <4>3. v.once /\ v.cb = run2 BY ONLY <4>2, <2>2
      <4> QED BY ONLY <4>1, <4>3
    <3> QED BY ONLY <3>3, <3>4, <1>3, <1>4, <1>10, <1>11
  <2>3. CASE cb[cur].Mode # "Oneshot"
    <3>1. \A y \in Elems(A) : cb[y] = cb[y] /\ (y \in L2 <=> y \in L)
      BY ONLY <2>3, <1>16, <1>17
    <3>2. Queued(Entry(cb), A, L2) = Queued(Entry(cb), A, L)
      BY ONLY <2>1, <3>1, QueueSame
    <3>3. ~e[cur].once
      <4>1. PICK v : v = e[cur] OBVIOUS
      <4>2. v = [cb |-> run2, once |-> cb[cur].Mode = "Oneshot"] BY ONLY <4>1, <1>20
      <4>3. ~v.once BY ONLY <4>2, <2>3
      <4> QED BY ONLY <4>1, <4>3
    <3> QED BY ONLY <3>2, <3>3, <1>3, <1>4, <1>10, <1>11
  <2> QED BY <2>2, <2>3
<1>23. Timed_Queue(Chain(Time_First))' = Timed_Queue(Chain(Time_First))
  <2>1. \A y \in Elems(B) : cb[y] = cb[y] /\ (y \in L2 <=> y \in L) BY ONLY <1>13, <1>16
  <2>2. B \in Seq(Cell) BY ONLY <1>9
  <2>3. Queued(Timed_Entry(cb), B, L2) = Queued(Timed_Entry(cb), B, L)
    BY ONLY <2>1, <2>2, TimedSame
  <2> QED BY ONLY <2>3, <1>3, <1>4, <1>10, <1>11
<1>24. running = Nobody /\ running' = e[cur].cb BY <1>7, <1>10, <1>20
<1> QED BY <1>5, <1>10, <1>18, <1>21, <1>22, <1>23, <1>24 DEF Promise!Call

(* A cell that is not live does not change the queue at the head of the list.*)
LEMMA QueuedFirstDead ==
  ASSUME NEW R, NEW e, Maps(e, Cell, R), NEW s \in Seq(Cell), NEW x \in Cell,
         NEW K, x \notin K
  PROVE  Queued(e, <<x>> \o s, K) = Queued(e, s, K)
<1>1. PICK u \in Seq(Cell) : u = <<x>>
  <2>1. <<x>> \in Seq(Cell) OBVIOUS
  <2> QED BY <2>1
<1>2. Queued(e, u \o s, K) = Queued(e, u, K) \o Queued(e, s, K)
  BY ONLY u \in Seq(Cell), s \in Seq(Cell), Maps(e, Cell, R), QueuedCells
<1>3. Queued(e, <<x>>, K) = One(e, x, K)
  BY ONLY x \in Cell, Maps(e, Cell, R), QueuedSingle DEF One
<1>4. One(e, x, K) = << >> BY DEF One
<1>5. PICK t \in Seq(R) : t = Queued(e, s, K)
  BY ONLY s \in Seq(Cell), Maps(e, Cell, R), QueuedType
<1>6. << >> \o t = t BY ONLY t \in Seq(R), ConcatEmptySeq
<1> QED BY ONLY <1>1, <1>2, <1>3, <1>4, <1>5, <1>6

(* Next_Callback: the callback returns, or a deleted cell is passed.         *)
LEMMA NextSeen ==
  ASSUME LinkInv, LinkInv', UserInv, Next_Callback
  PROVE  UserInv' /\ (Promise!Return \/ UNCHANGED Promise!vars)
<1>1. PICK A, B, D, cb, hd, w, run, cur, fin, L :
        Setup(A, B, D, cb, hd, w, run, cur, fin, L)
  BY SetupNow
<1>2. PICK A2, B2, D2, cb2, hd2, w2, run2, cur2, fin2, L2 :
        Setup_Next(A2, B2, D2, cb2, hd2, w2, run2, cur2, fin2, L2)
  BY SetupNext
<1>3. /\ Cells_Right(A, B, D) /\ Users_Right(A, B, cb, hd, w, run, cur)
      /\ Walking(A, w, cur, fin)
      /\ Queue(Chain(First)) = Queued(Entry(cb), A, L)
      /\ Queue(To_Call) = Queued(Entry(cb), D, L)
      /\ Timed_Queue(Chain(Time_First)) = Queued(Timed_Entry(cb), B, L)
  BY <1>1, SetupFacts
<1>4. /\ Queue(Chain(First))' = Queued(Entry(cb2), A2, L2)
      /\ Queue(To_Call)' = Queued(Entry(cb2), D2, L2)
      /\ Timed_Queue(Chain(Time_First))' = Queued(Timed_Entry(cb2), B2, L2)
  BY <1>2, SetupSeen
<1>5. PICK now, first : now = Current_Time /\ first = First_Timeout OBVIOUS
<1>6. Times(B, cb, now, first) BY <1>1, <1>5, TimesNow
<1>7. /\ A = Chain(First) /\ B = Chain(Time_First) /\ D = Ahead(A, w, run, cur, fin)
      /\ cb = Cb /\ hd = handle /\ w = walk /\ run = running /\ cur = Cur /\ fin = Final
      /\ L = Alive(cb, run, cur)
  BY <1>1 DEF Setup
<1>8. /\ A2 = Chain(First)' /\ B2 = Chain(Time_First)' /\ D2 = Ahead(A2, w2, run2, cur2, fin2)
      /\ cb2 = Cb' /\ hd2 = handle' /\ w2 = walk' /\ run2 = running' /\ cur2 = Cur'
      /\ fin2 = Final' /\ L2 = Alive(cb2, run2, cur2)
  BY <1>2 DEF Setup_Next
<1>9. /\ A \in Seq(Cell) /\ B \in Seq(Cell) /\ D \in Seq(Cell) /\ Elems(D) \subseteq Elems(A)
      /\ Elems(A) \subseteq Cell /\ Elems(B) \subseteq Cell /\ Elems(A) \cap Elems(B) = {}
      /\ \A j, k \in 1 .. Len(A) : A[j] = A[k] => j = k
      /\ \A j, k \in 1 .. Len(B) : B[j] = B[k] => j = k
      /\ cb \in [Cell -> Cb_Cell] /\ hd \in [Callback -> Handle]
  BY ONLY <1>3 DEF Cells_Right, Users_Right
<1>10. /\ w = "list" /\ (run = Nobody => cb[cur].Proc = Nop) /\ cb2 = cb
       /\ run2 = Nobody /\ running' = Nobody
       /\ Current_Time' = now /\ First_Timeout' = first
  BY <1>5, <1>7, <1>8 DEF Next_Callback, timeListVars
<1>11. PICK i, j \in 1 .. Len(A) :
         /\ A[i] = cur /\ A[j] = fin /\ i <= j
         /\ Prev = IF i = 1 THEN Null ELSE A[i - 1]
  BY <1>7, <1>10 DEF LinkInv, ListEnds
<1>12. /\ cur \in Elems(A) /\ cur \in Cell /\ cur \notin Elems(B)
       /\ cb[cur] \in Cb_Cell
  BY <1>9, <1>11 DEF Elems
<1>13. \A k, l \in 1 .. Len(A) : A[k] = A[l] => k = l BY ONLY <1>9
<1>14. \A r : Ahead(A, "list", r, A[i], A[j])
                = SubSeq(A, IF r = Nobody THEN i ELSE i + 1, j)
  BY <1>9, <1>13, AheadCells
<1>15. PICK T \in Seq(Cell) :
         /\ T = SubSeq(A, i + 1, j) /\ Elems(T) \subseteq Elems(A) \ {cur}
         /\ D = IF run = Nobody THEN <<cur>> \o T ELSE T
  <2>1. /\ SubSeq(A, i, j) = <<A[i]>> \o SubSeq(A, i + 1, j)
        /\ SubSeq(A, i + 1, j) \in Seq(Cell)
        /\ Elems(SubSeq(A, i + 1, j)) \subseteq Elems(A) \ {A[i]}
    BY <1>9, <1>11, <1>13, FirstAhead
  <2>2. D = SubSeq(A, IF run = Nobody THEN i ELSE i + 1, j)
    BY <1>7, <1>10, <1>11, <1>14
  <2> QED BY ONLY <2>1, <2>2, <1>11
<1>16. PICK next : next = IF i = j THEN Null ELSE A[i + 1] OBVIOUS
<1>17. /\ w2 = (IF i = j THEN "none" ELSE "list") /\ cur2 = next
       /\ fin2 = (IF i = j THEN Null ELSE fin)
  <2>1. PICK N, a : N = Next_Cell /\ a = First OBVIOUS
  <2>2. List(N, A, a) BY <1>7, <2>1 DEF LinkInv, Lists, Heap
  <2>3. N[A[i]] = IF i = Len(A) THEN Null ELSE A[i + 1] BY <2>2 DEF List
  <2>4. i # j => Next_Cell[cur] = A[i + 1]
    <3>1. Len(A) \in Nat BY <1>9
    <3> QED BY <2>1, <2>3, <3>1, <1>11
  <2>5. Is_Final_Cell(Next_Cell[Cur]) <=> i = j
    BY <1>7, <1>11, <1>13 DEF Is_Final_Cell
  <2> QED BY <2>4, <2>5, <1>7, <1>8, <1>16 DEF Next_Callback
<1>18. \A y \in Elems(A) \cup Elems(B) :
         /\ y \in Cell /\ (y # cur => (y \in L2 <=> y \in L))
         /\ run # Nobody /\ cb[y].Proc = run => y = cur
  BY <1>3, <1>7, <1>8, <1>9, <1>10 DEF Alive, Users_Right
<1>19. run = Nobody => cur \notin L BY <1>7, <1>10 DEF Alive
<1>20. PICK e : e = Entry(cb) OBVIOUS
<1>21. Maps(e, Cell, Any_Entry) BY ONLY <1>9, <1>20, EntryType
<1>22. Queued(e, D, L) = Queued(e, T, L2)
  <2>1. \A y \in Elems(T) : cb[y] = cb[y] /\ (y \in L2 <=> y \in L) BY ONLY <1>15, <1>18
  <2>2. Queued(Entry(cb), T, L2) = Queued(Entry(cb), T, L)
    BY ONLY <2>1, T \in Seq(Cell), QueueSame
  <2>3. CASE run = Nobody
    <3>1. PICK x \in Cell : x = cur BY <1>12
    <3>2. x \notin L BY <2>3, <3>1, <1>19
    <3>3. Queued(e, <<x>> \o T, L) = Queued(e, T, L)
      BY ONLY <3>2, <1>21, x \in Cell, T \in Seq(Cell), QueuedFirstDead
    <3> QED BY ONLY <2>2, <2>3, <3>1, <3>3, <1>15, <1>20
  <2>4. CASE run # Nobody BY ONLY <2>2, <2>4, <1>15, <1>20
  <2> QED BY <2>3, <2>4
<1>23. B2 = B => Timed_Queue(Chain(Time_First))' = Timed_Queue(Chain(Time_First))
  <2>1. \A y \in Elems(B) : cb[y] = cb[y] /\ (y \in L2 <=> y \in L) BY ONLY <1>12, <1>18
  <2>2. B \in Seq(Cell) BY ONLY <1>9
  <2>3. Queued(Timed_Entry(cb), B, L2) = Queued(Timed_Entry(cb), B, L)
    BY ONLY <2>1, <2>2, TimedSame
  <2> QED BY ONLY <2>3, <1>3, <1>4, <1>10
<1>24. /\ UserInv' /\ D2 = T /\ B2 = B
       /\ Queue(Chain(First))' = Queue(Chain(First))
  <2>1. CASE cb[cur].Mode = "Oneshot"
    <3>1. A2 = Removed(A, i) /\ B2 = B
      BY <2>1, <1>7, <1>8, <1>11, OneshotLists
    <3>2. hd2 = [c \in Callback |-> IF c = run THEN Null ELSE hd[c]]
      BY <2>1, <1>7, <1>8 DEF Next_Callback
    <3>3. /\ A2 \in Seq(Cell) /\ Len(A2) = Len(A) - 1 /\ Elems(A2) = Elems(A) \ {cur}
          /\ \A k \in 1 .. Len(A) - 1 : A2[k] = IF k < i THEN A[k] ELSE A[k + 1]
      <4>1. /\ Removed(A, i) \in Seq(Cell) /\ Len(Removed(A, i)) = Len(A) - 1
            /\ Elems(Removed(A, i)) = Elems(A) \ {A[i]}
        BY ONLY <1>9, i \in 1 .. Len(A), RemovedType
      <4>2. \A k \in 1 .. Len(A) - 1 :
              Removed(A, i)[k] = IF k < i THEN A[k] ELSE A[k + 1]
        BY ONLY <1>9, i \in 1 .. Len(A), RemovedType
      <4> QED BY ONLY <4>1, <4>2, <3>1, <1>11
    <3>4. D2 = T
      <4>1. CASE i = j
        <5>1. D2 = << >> BY <4>1, <1>8, <1>17 DEF Ahead
        <5>2. SubSeq(A, i + 1, j) = << >>
          <6>1. i + 1 \in Int /\ j \in Int /\ j < i + 1 BY <4>1
          <6> QED BY <6>1, SubSeqEmpty
        <5> QED BY <5>1, <5>2, <1>15
      <4>2. CASE i # j
        <5>1. PICK n \in Nat : n = Len(A) BY <1>9
        <5>2. PICK l \in 1 .. Len(A2) : l = j - 1
          <6>1. j - 1 \in 1 .. n - 1 BY <4>2, <5>1, <1>11
          <6> QED BY <6>1, <5>1, <3>3
        <5>3. PICK k \in 1 .. Len(A2) : k = i
          <6>1. i \in 1 .. n - 1 BY <4>2, <5>1, <1>11
          <6> QED BY <6>1, <5>1, <3>3
        <5>4. \A p \in k .. l : A2[p] \in Cell /\ A[p + 1] = A2[p]
          <6> SUFFICES ASSUME NEW p \in k .. l PROVE A2[p] \in Cell /\ A[p + 1] = A2[p]
            OBVIOUS
          <6>1. p \in 1 .. n - 1 /\ ~(p < i) BY <5>1, <5>2, <5>3, <3>3
          <6>2. A2[p] = A[p + 1] BY <6>1, <5>1, <3>3
          <6>3. p \in 1 .. Len(A2) BY <6>1, <5>1, <3>3
          <6> QED BY <6>2, <6>3, <3>3
        <5>5. A2[k] = A[i + 1] /\ A2[l] = A[j]
          <6>1. k \in 1 .. Len(A) - 1 /\ l \in 1 .. Len(A) - 1 /\ ~(k < i) /\ ~(l < i)
                /\ l + 1 = j
            BY <4>2, <5>1, <5>2, <5>3, <3>3, <1>11
          <6> QED BY <6>1, <5>3, <3>3
        <5>6. \A p, q \in 1 .. Len(A2) : A2[p] = A2[q] => p = q
          <6> SUFFICES ASSUME NEW p \in 1 .. Len(A2), NEW q \in 1 .. Len(A2), A2[p] = A2[q]
                       PROVE  p = q
            OBVIOUS
          <6>1. p \in 1 .. n - 1 /\ q \in 1 .. n - 1 BY <5>1, <3>3
          <6>2. PICK u, v \in 1 .. n : /\ A2[p] = A[u] /\ u = IF p < i THEN p ELSE p + 1
                                       /\ A2[q] = A[v] /\ v = IF q < i THEN q ELSE q + 1
            BY <6>1, <5>1, <3>3
          <6>3. u = v BY <6>2, <5>1, <1>13
          <6> QED BY <6>1, <6>2, <6>3
        <5>7. Ahead(A2, "list", Nobody, A2[k], A2[l])
                = SubSeq(A2, IF Nobody = Nobody THEN k ELSE k + 1, l)
          BY <5>6, <3>3, AheadCells
        <5>8. D2 = SubSeq(A2, k, l)
          BY <5>5, <5>7, <4>2, <1>8, <1>10, <1>11, <1>16, <1>17
        <5>9. SubSeq(A, k + 1, l + 1) = SubSeq(A2, k, l)
          <6>1. k \in Int /\ l \in Int /\ 1 \in Int OBVIOUS
          <6> QED BY ONLY <5>4, <6>1, SubSeqShifted
        <5>10. k + 1 = i + 1 /\ l + 1 = j BY <5>2, <5>3
        <5> QED BY ONLY <5>8, <5>9, <5>10, <1>15
      <4> QED BY <4>1, <4>2
    <3>5. UserInv'
      <4>1. Owners(A2, B2, cb2, hd2, w2, run2, cur2)
        <5>1. ASSUME NEW y \in Elems(A2) \cup Elems(B2), cb[y].Proc # Nop
              PROVE  hd2[cb[y].Proc] = y
          <6>1. y \in Elems(A) \cup Elems(B) /\ y # cur /\ y \in Cell
            BY <5>1, <3>1, <3>3, <1>12, <1>18
          <6>2. hd[cb[y].Proc] = y BY <6>1, <5>1, <1>3 DEF Users_Right
          <6>3. cb[y].Proc \in Callback BY <6>1, <5>1, <1>9 DEF Cb_Cell
          <6>4. cb[y].Proc # run BY <6>1, <6>3, <1>18, CallbackAssumption
          <6> QED BY <6>2, <6>3, <6>4, <3>2
        <5> QED BY <5>1, <1>10, <1>16, <1>17 DEF Owners
      <4>2. Times(B2, cb2, Current_Time', First_Timeout') BY ONLY <3>1, <1>6, <1>10
      <4> QED BY ONLY <1>2, <4>1, <4>2, UserNext
    <3>6. Queue(Chain(First))' = Queue(Chain(First))
      <4>1. cur \notin L BY <2>1, <1>7, <1>10 DEF Alive
      <4>2. Queued(e, Removed(A, i), L) = Queued(e, A, L)
        <5>1. A[i] \notin L BY <4>1, <1>11
        <5> QED BY ONLY <5>1, <1>9, <1>21, i \in 1 .. Len(A), QueuedRemovedDead
      <4>3. \A y \in Elems(A2) : cb[y] = cb[y] /\ (y \in L2 <=> y \in L)
        BY ONLY <3>3, <1>18
      <4>4. A2 \in Seq(Cell) BY ONLY <3>3
      <4>5. Queued(Entry(cb), A2, L2) = Queued(Entry(cb), A2, L)
        BY ONLY <4>3, <4>4, QueueSame
      <4> QED BY ONLY <4>2, <4>5, <3>1, <1>3, <1>4, <1>10, <1>20
    <3> QED BY <3>1, <3>4, <3>5, <3>6
  <2>2. CASE cb[cur].Mode # "Oneshot"
    <3>1. /\ hd2 = hd /\ Next_Cell' = Next_Cell /\ Recycled_Handles' = Recycled_Handles
          /\ First' = First /\ allocated' = allocated /\ Time_First' = Time_First
      BY <2>2, <1>7, <1>8 DEF Next_Callback, listVars, linkVars, timeListVars
    <3>2. A2 = A /\ B2 = B
      BY <3>1, <1>7, <1>8, ListsSame DEF LinkInv, linkVars
    <3>3. D2 = T
      <4>1. CASE i = j
        <5>1. D2 = << >> BY <4>1, <1>8, <1>17 DEF Ahead
        <5>2. SubSeq(A, i + 1, j) = << >>
          <6>1. i + 1 \in Int /\ j \in Int /\ j < i + 1 BY <4>1
          <6> QED BY <6>1, SubSeqEmpty
        <5> QED BY <5>1, <5>2, <1>15
      <4>2. CASE i # j
        <5>1. PICK k \in 1 .. Len(A) : k = i + 1 BY <4>2, <1>11
        <5>2. Ahead(A, "list", Nobody, A[k], A[j])
                = SubSeq(A, IF Nobody = Nobody THEN k ELSE k + 1, j)
          BY <1>9, <1>13, AheadCells
        <5> QED BY <5>1, <5>2, <4>2, <3>2, <1>8, <1>10, <1>11, <1>15, <1>16, <1>17
      <4> QED BY <4>1, <4>2
    <3>4. UserInv'
      <4>1. Owners(A2, B2, cb2, hd2, w2, run2, cur2)
        BY ONLY <3>1, <3>2, <1>3, <1>10, <1>16, <1>17 DEF Owners, Users_Right
      <4>2. Times(B2, cb2, Current_Time', First_Timeout') BY ONLY <3>2, <1>6, <1>10
      <4> QED BY ONLY <1>2, <4>1, <4>2, UserNext
    <3>5. Queue(Chain(First))' = Queue(Chain(First))
      <4>1. cur \in L2 <=> cur \in L BY <2>2, <1>7, <1>8, <1>10 DEF Alive
      <4>2. \A y \in Elems(A) : cb[y] = cb[y] /\ (y \in L2 <=> y \in L)
        BY ONLY <4>1, <1>18
      <4>3. A \in Seq(Cell) BY ONLY <1>9
      <4>4. Queued(Entry(cb), A, L2) = Queued(Entry(cb), A, L)
        BY ONLY <4>2, <4>3, QueueSame
      <4> QED BY ONLY <4>4, <3>2, <1>3, <1>4, <1>10
    <3> QED BY <3>2, <3>3, <3>4, <3>5
  <2> QED BY <2>1, <2>2
<1>25. Queue(To_Call)' = Queue(To_Call)
  BY ONLY <1>3, <1>4, <1>10, <1>20, <1>22, <1>24
<1>26. Timed_Queue(Chain(Time_First))' = Timed_Queue(Chain(Time_First))
  BY <1>23, <1>24
<1>27. CASE running = Nobody
  BY <1>27, <1>5, <1>10, <1>24, <1>25, <1>26 DEF Promise!vars
<1>28. CASE running # Nobody
  BY <1>28, <1>5, <1>10, <1>24, <1>25, <1>26 DEF Promise!Return
<1> QED BY <1>27, <1>28

-----------------------------------------------------------------------------
(* The callbacks at a time, and time itself.                                 *)
LEMMA TimeSeen ==
  ASSUME LinkInv, LinkInv', UserInv,
         Start_Time_Callbacks \/ End_Time_Callbacks \/ UNCHANGED vars
  PROVE  UserInv' /\ UNCHANGED Promise!vars
<1>1. PICK A, B, D, cb, hd, w, run, cur, fin, L :
        Setup(A, B, D, cb, hd, w, run, cur, fin, L)
  BY SetupNow
<1>2. PICK A2, B2, D2, cb2, hd2, w2, run2, cur2, fin2, L2 :
        Setup_Next(A2, B2, D2, cb2, hd2, w2, run2, cur2, fin2, L2)
  BY SetupNext
<1>3. /\ Cells_Right(A, B, D) /\ Users_Right(A, B, cb, hd, w, run, cur)
      /\ Walking(A, w, cur, fin)
      /\ Queue(Chain(First)) = Queued(Entry(cb), A, L)
      /\ Queue(To_Call) = Queued(Entry(cb), D, L)
      /\ Timed_Queue(Chain(Time_First)) = Queued(Timed_Entry(cb), B, L)
  BY <1>1, SetupFacts
<1>4. /\ Queue(Chain(First))' = Queued(Entry(cb2), A2, L2)
      /\ Queue(To_Call)' = Queued(Entry(cb2), D2, L2)
      /\ Timed_Queue(Chain(Time_First))' = Queued(Timed_Entry(cb2), B2, L2)
  BY <1>2, SetupSeen
<1>5. PICK now, first : now = Current_Time /\ first = First_Timeout OBVIOUS
<1>6. Times(B, cb, now, first) BY <1>1, <1>5, TimesNow
<1>7. /\ A = Chain(First) /\ B = Chain(Time_First) /\ D = Ahead(A, w, run, cur, fin)
      /\ cb = Cb /\ hd = handle /\ w = walk /\ run = running /\ cur = Cur /\ fin = Final
      /\ L = Alive(cb, run, cur)
  BY <1>1 DEF Setup
<1>8. /\ A2 = Chain(First)' /\ B2 = Chain(Time_First)' /\ D2 = Ahead(A2, w2, run2, cur2, fin2)
      /\ cb2 = Cb' /\ hd2 = handle' /\ w2 = walk' /\ run2 = running' /\ cur2 = Cur'
      /\ fin2 = Final' /\ L2 = Alive(cb2, run2, cur2)
  BY <1>2 DEF Setup_Next
<1>9. /\ A \in Seq(Cell) /\ B \in Seq(Cell) /\ D \in Seq(Cell) /\ Elems(D) \subseteq Elems(A)
      /\ Elems(A) \subseteq Cell /\ Elems(B) \subseteq Cell /\ Elems(A) \cap Elems(B) = {}
      /\ \A j, k \in 1 .. Len(A) : A[j] = A[k] => j = k
      /\ \A j, k \in 1 .. Len(B) : B[j] = B[k] => j = k
      /\ cb \in [Cell -> Cb_Cell] /\ hd \in [Callback -> Handle]
  BY ONLY <1>3 DEF Cells_Right, Users_Right
<1>10. /\ A2 = A /\ B2 = B
       /\ cb2 = cb /\ hd2 = hd /\ run2 = run /\ cur2 = cur /\ fin2 = fin
       /\ Current_Time' = now /\ running' = running
       /\ (w2 = w \/ (w # "list" /\ w2 # "list"))
  <2>1. /\ Next_Cell' = Next_Cell /\ Recycled_Handles' = Recycled_Handles
        /\ allocated' = allocated /\ First' = First /\ Time_First' = Time_First
        /\ Cb' = Cb /\ handle' = handle /\ running' = running /\ Cur' = Cur
        /\ Final' = Final /\ Current_Time' = Current_Time
        /\ (walk' = walk \/ (walk # "list" /\ walk' # "list"))
    BY DEF Start_Time_Callbacks, End_Time_Callbacks, vars, linkVars, listVars, timeListVars,
           walkVars
  <2>2. Chain(First)' = Chain(First) /\ Chain(Time_First)' = Chain(Time_First)
    BY <2>1, ListsSame DEF LinkInv, linkVars
  <2> QED BY <2>1, <2>2, <1>5, <1>7, <1>8
<1>11. L2 = L BY ONLY <1>7, <1>8, <1>10
<1>12. D2 = D BY ONLY <1>7, <1>8, <1>10 DEF Ahead
<1>13. Times(B2, cb2, Current_Time', First_Timeout')
  <2>1. CASE First_Timeout' = First_Timeout BY ONLY <2>1, <1>5, <1>6, <1>10
  <2>2. CASE End_Time_Callbacks
    <3>1. First_Timeout' = IF Time_First = Null THEN Last_Time ELSE Cb[Time_First].T
      BY <2>2 DEF End_Time_Callbacks, First_Time
    <3>2. Time_First = IF Len(B) = 0 THEN Null ELSE B[1] BY <1>7, ListsCells DEF LinkInv
    <3>3. ASSUME NEW y \in Elems(B) PROVE First_Timeout' <= cb[y].T
      <4>1. PICK k \in 1 .. Len(B) : y = B[k] BY DEF Elems
      <4>2. Len(B) \in Nat /\ Len(B) # 0 /\ 1 \in 1 .. Len(B) BY <4>1, <1>9
      <4>3. B[1] \in Cell BY <4>2, <1>9
      <4>4. Time_First = B[1] /\ Time_First # Null
        BY <4>2, <4>3, <3>2, CallbackAssumption DEF Cell, Null
      <4>5. First_Timeout' = cb[B[1]].T BY <4>4, <3>1, <1>7
      <4>6. cb[B[1]].T \in Int BY <4>3, <1>9 DEF Cb_Cell, Time
      <4>7. k = 1 \/ 1 < k BY <4>1, <1>9
      <4> QED BY <4>1, <4>2, <4>5, <4>6, <4>7, <1>6 DEF Times
    <3> QED BY <3>3, <1>6, <1>10 DEF Times
  <2> QED BY <2>1, <2>2 DEF Start_Time_Callbacks, vars, timeListVars
<1>14. UserInv'
  <2>1. Owners(A2, B2, cb2, hd2, w2, run2, cur2)
    BY ONLY <1>3, <1>10 DEF Owners, Users_Right
  <2> QED BY ONLY <1>2, <1>13, <2>1, UserNext
<1>15. /\ Queue(Chain(First))' = Queue(Chain(First))
       /\ Queue(To_Call)' = Queue(To_Call)
       /\ Timed_Queue(Chain(Time_First))' = Timed_Queue(Chain(Time_First))
  BY ONLY <1>3, <1>4, <1>10, <1>11, <1>12
<1> QED BY <1>5, <1>10, <1>14, <1>15 DEF Promise!vars

(* Return_Time_Callback: the callback returns.                               *)
LEMMA ReturnTimeSeen ==
  ASSUME LinkInv, LinkInv', UserInv, Return_Time_Callback
  PROVE  UserInv' /\ Promise!Return
<1>1. PICK A, B, D, cb, hd, w, run, cur, fin, L :
        Setup(A, B, D, cb, hd, w, run, cur, fin, L)
  BY SetupNow
<1>2. PICK A2, B2, D2, cb2, hd2, w2, run2, cur2, fin2, L2 :
        Setup_Next(A2, B2, D2, cb2, hd2, w2, run2, cur2, fin2, L2)
  BY SetupNext
<1>3. /\ Cells_Right(A, B, D) /\ Users_Right(A, B, cb, hd, w, run, cur)
      /\ Walking(A, w, cur, fin)
      /\ Queue(Chain(First)) = Queued(Entry(cb), A, L)
      /\ Queue(To_Call) = Queued(Entry(cb), D, L)
      /\ Timed_Queue(Chain(Time_First)) = Queued(Timed_Entry(cb), B, L)
  BY <1>1, SetupFacts
<1>4. /\ Queue(Chain(First))' = Queued(Entry(cb2), A2, L2)
      /\ Queue(To_Call)' = Queued(Entry(cb2), D2, L2)
      /\ Timed_Queue(Chain(Time_First))' = Queued(Timed_Entry(cb2), B2, L2)
  BY <1>2, SetupSeen
<1>5. PICK now, first : now = Current_Time /\ first = First_Timeout OBVIOUS
<1>6. Times(B, cb, now, first) BY <1>1, <1>5, TimesNow
<1>7. /\ A = Chain(First) /\ B = Chain(Time_First) /\ D = Ahead(A, w, run, cur, fin)
      /\ cb = Cb /\ hd = handle /\ w = walk /\ run = running /\ cur = Cur /\ fin = Final
      /\ L = Alive(cb, run, cur)
  BY <1>1 DEF Setup
<1>8. /\ A2 = Chain(First)' /\ B2 = Chain(Time_First)' /\ D2 = Ahead(A2, w2, run2, cur2, fin2)
      /\ cb2 = Cb' /\ hd2 = handle' /\ w2 = walk' /\ run2 = running' /\ cur2 = Cur'
      /\ fin2 = Final' /\ L2 = Alive(cb2, run2, cur2)
  BY <1>2 DEF Setup_Next
<1>9. /\ A \in Seq(Cell) /\ B \in Seq(Cell) /\ D \in Seq(Cell) /\ Elems(D) \subseteq Elems(A)
      /\ Elems(A) \subseteq Cell /\ Elems(B) \subseteq Cell /\ Elems(A) \cap Elems(B) = {}
      /\ \A j, k \in 1 .. Len(A) : A[j] = A[k] => j = k
      /\ \A j, k \in 1 .. Len(B) : B[j] = B[k] => j = k
      /\ cb \in [Cell -> Cb_Cell] /\ hd \in [Callback -> Handle]
  BY ONLY <1>3 DEF Cells_Right, Users_Right
<1>10. /\ w = "time" /\ run # Nobody
       /\ cb2 = cb /\ hd2 = [hd EXCEPT ![run] = Null]
       /\ w2 = w /\ run2 = Nobody /\ cur2 = cur /\ fin2 = fin
       /\ Current_Time' = now /\ First_Timeout' = first
  BY <1>5, <1>7, <1>8 DEF Return_Time_Callback, timeListVars
<1>11. A2 = A /\ B2 = B
  BY <1>7, <1>8, ListsSame DEF LinkInv, Return_Time_Callback, listVars, timeListVars
<1>12. cur = Null /\ Null \notin Cell
  BY ONLY <1>3, <1>10 DEF Users_Right, Cell, Null
<1>13. L2 = L BY ONLY <1>7, <1>8, <1>10, <1>12 DEF Alive
<1>14. D2 = D BY ONLY <1>7, <1>8, <1>10 DEF Ahead
<1>15. UserInv'
  <2>1. Owners(A2, B2, cb2, hd2, w2, run2, cur2)
    <3>1. ASSUME NEW y \in Elems(A) \cup Elems(B), cb[y].Proc # Nop
          PROVE  hd2[cb[y].Proc] = y
      <4>1. cb[y].Proc # run BY <1>3, <1>10 DEF Users_Right
      <4>2. y \in Cell BY <1>9
      <4>3. cb[y].Proc \in Callback BY <4>2, <3>1, <1>9 DEF Cb_Cell
      <4>4. hd[cb[y].Proc] = y BY <3>1, <1>3 DEF Users_Right
      <4> QED BY <4>1, <4>3, <4>4, <1>9, <1>10
    <3> QED BY <3>1, <1>10, <1>11, <1>12 DEF Owners
  <2>2. Times(B2, cb2, Current_Time', First_Timeout') BY ONLY <1>6, <1>10, <1>11
  <2> QED BY ONLY <1>2, <2>1, <2>2, UserNext
<1>16. /\ Queue(Chain(First))' = Queue(Chain(First))
       /\ Queue(To_Call)' = Queue(To_Call)
       /\ Timed_Queue(Chain(Time_First))' = Timed_Queue(Chain(Time_First))
  BY ONLY <1>3, <1>4, <1>10, <1>11, <1>13, <1>14
<1>17. running # Nobody /\ running' = Nobody BY <1>7, <1>8, <1>10
<1> QED BY <1>5, <1>10, <1>15, <1>16, <1>17 DEF Promise!Return

(* Advance: time does not pass an entry of the time queue.                   *)
LEMMA AdvanceSeen ==
  ASSUME LinkInv, LinkInv', UserInv,
         NEW t \in (Current_Time + 1) .. First_Timeout, Advance(t)
  PROVE  UserInv' /\ Promise!Advance
<1>1. PICK A, B, D, cb, hd, w, run, cur, fin, L :
        Setup(A, B, D, cb, hd, w, run, cur, fin, L)
  BY SetupNow
<1>2. PICK A2, B2, D2, cb2, hd2, w2, run2, cur2, fin2, L2 :
        Setup_Next(A2, B2, D2, cb2, hd2, w2, run2, cur2, fin2, L2)
  BY SetupNext
<1>3. /\ Cells_Right(A, B, D) /\ Users_Right(A, B, cb, hd, w, run, cur)
      /\ Walking(A, w, cur, fin)
      /\ Queue(Chain(First)) = Queued(Entry(cb), A, L)
      /\ Queue(To_Call) = Queued(Entry(cb), D, L)
      /\ Timed_Queue(Chain(Time_First)) = Queued(Timed_Entry(cb), B, L)
  BY <1>1, SetupFacts
<1>4. /\ Queue(Chain(First))' = Queued(Entry(cb2), A2, L2)
      /\ Queue(To_Call)' = Queued(Entry(cb2), D2, L2)
      /\ Timed_Queue(Chain(Time_First))' = Queued(Timed_Entry(cb2), B2, L2)
  BY <1>2, SetupSeen
<1>5. PICK now, first : now = Current_Time /\ first = First_Timeout OBVIOUS
<1>6. Times(B, cb, now, first) BY <1>1, <1>5, TimesNow
<1>7. /\ A = Chain(First) /\ B = Chain(Time_First) /\ D = Ahead(A, w, run, cur, fin)
      /\ cb = Cb /\ hd = handle /\ w = walk /\ run = running /\ cur = Cur /\ fin = Final
      /\ L = Alive(cb, run, cur)
  BY <1>1 DEF Setup
<1>8. /\ A2 = Chain(First)' /\ B2 = Chain(Time_First)' /\ D2 = Ahead(A2, w2, run2, cur2, fin2)
      /\ cb2 = Cb' /\ hd2 = handle' /\ w2 = walk' /\ run2 = running' /\ cur2 = Cur'
      /\ fin2 = Final' /\ L2 = Alive(cb2, run2, cur2)
  BY <1>2 DEF Setup_Next
<1>9. /\ A \in Seq(Cell) /\ B \in Seq(Cell) /\ D \in Seq(Cell) /\ Elems(D) \subseteq Elems(A)
      /\ Elems(A) \subseteq Cell /\ Elems(B) \subseteq Cell /\ Elems(A) \cap Elems(B) = {}
      /\ \A j, k \in 1 .. Len(A) : A[j] = A[k] => j = k
      /\ \A j, k \in 1 .. Len(B) : B[j] = B[k] => j = k
      /\ cb \in [Cell -> Cb_Cell] /\ hd \in [Callback -> Handle]
  BY ONLY <1>3 DEF Cells_Right, Users_Right
<1>10. /\ w = "none" /\ run = Nobody
       /\ cb2 = cb /\ hd2 = hd /\ w2 = w /\ run2 = run /\ cur2 = cur /\ fin2 = fin
       /\ Current_Time' = t /\ First_Timeout' = first /\ running' = running
  BY <1>5, <1>7, <1>8 DEF Advance, timeListVars, walkVars, LinkInv, Running
<1>11. A2 = A /\ B2 = B
  BY <1>7, <1>8, ListsSame DEF LinkInv, Advance, listVars, timeListVars
<1>12. L2 = L BY ONLY <1>7, <1>8, <1>10
<1>13. D2 = D /\ D = << >> BY ONLY <1>7, <1>8, <1>10 DEF Ahead
<1>14. t \in now + 1 .. first /\ now \in Time /\ first \in Time /\ t \in Int
  BY <1>5 DEF LinkInv, TypeOK, Time
<1>15. \A y \in Elems(B) : t <= cb[y].T
  <2> SUFFICES ASSUME NEW y \in Elems(B) PROVE t <= cb[y].T OBVIOUS
  <2>1. first <= cb[y].T BY <1>6 DEF Times
  <2>2. cb[y] \in Cb_Cell BY <1>9
  <2>3. cb[y].T \in Int BY <2>2 DEF Cb_Cell, Time
  <2> QED BY <2>1, <2>3, <1>14 DEF Time
<1>16. UserInv'
  <2>1. Owners(A2, B2, cb2, hd2, w2, run2, cur2)
    BY ONLY <1>3, <1>10, <1>11 DEF Owners, Users_Right
  <2>2. Times(B2, cb2, Current_Time', First_Timeout')
    BY ONLY <1>6, <1>10, <1>11, <1>15 DEF Times
  <2> QED BY ONLY <1>2, <2>1, <2>2, UserNext
<1>17. /\ Queue(Chain(First))' = Queue(Chain(First))
       /\ Queue(To_Call)' = Queue(To_Call)
       /\ Timed_Queue(Chain(Time_First))' = Timed_Queue(Chain(Time_First))
  BY ONLY <1>3, <1>4, <1>10, <1>11, <1>12, <1>13
<1>18. Queue(To_Call) = << >> BY ONLY <1>3, <1>13, QueuedEmpty
<1>19. Timed_Queue(Chain(Time_First)) # << >> => t <= Head(Timed_Queue(Chain(Time_First))).at
  <2>1. PICK f : f = Timed_Entry(cb) OBVIOUS
  <2>2. Maps(f, Cell, Any_Timed_Entry) BY ONLY <2>1, <1>9, EntryType
  <2>3. B \in Seq(Cell) BY ONLY <1>9
  <2>4. PICK q : q = Queued(f, B, L) OBVIOUS
  <2>5. q \in Seq(Any_Timed_Entry) /\ Elems(q) = {f[x] : x \in Elems(B) \cap L}
    BY ONLY <2>2, <2>3, <2>4, QueuedType
  <2>6. ASSUME q # << >> PROVE t <= Head(q).at
    <3>1. Len(q) \in Nat /\ Len(q) # 0 /\ Head(q) = q[1] BY <2>5, <2>6, EmptySeq
    <3>2. q[1] \in Elems(q) BY <3>1 DEF Elems
    <3>3. PICK y \in Elems(B) : q[1] = f[y] BY <2>5, <3>2
    <3>4. f[y].at = cb[y].T BY <2>1, <1>9 DEF Timed_Entry
    <3> QED BY <3>1, <3>3, <3>4, <1>15
  <2> QED BY ONLY <2>1, <2>4, <2>6, <1>3
<1>20. t \in Current_Time + 1 .. Last_Time
  BY <1>5, <1>14, CallbackAssumption DEF Time
<1> QED BY <1>7, <1>10, <1>16, <1>17, <1>18, <1>19, <1>20 DEF Promise!Advance

(* A list whose first cell leaves it.                                        *)
LEMMA RemovedFirst ==
  ASSUME NEW s \in Seq(Cell), NEW i \in 1 .. Len(s), i = 1,
         \A j, k \in 1 .. Len(s) : s[j] = s[k] => j = k
  PROVE  /\ Removed(s, i) \in Seq(Cell) /\ Elems(Removed(s, i)) = Elems(s) \ {s[i]}
         /\ s = <<s[i]>> \o Removed(s, i)
<1>1. PICK x \in Cell : x = s[i] OBVIOUS
<1>2. PICK r \in Seq(Cell) : r = Removed(s, i) BY RemovedInserted
<1>3. PICK l \in 0 .. Len(r) : l = i - 1
  <2>1. i - 1 \in 0 .. Len(Removed(s, i)) BY RemovedInserted
  <2> QED BY ONLY <2>1, <1>2
<1>4. Inserted(r, l, x) = s
  <2>1. Inserted(Removed(s, i), i - 1, s[i]) = s BY RemovedInserted
  <2> QED BY ONLY <2>1, <1>1, <1>2, <1>3
<1>5. Inserted(r, l, x) = (SubSeq(r, 1, l) \o <<x>>) \o SubSeq(r, l + 1, Len(r))
  BY InsertedSplit
<1>6. SubSeq(r, 1, l) = << >> /\ SubSeq(r, l + 1, Len(r)) = r
  <2>1. l = 0 /\ l + 1 = 1 BY <1>3
  <2> QED BY ONLY <2>1, r \in Seq(Cell), SubSeqEnds
<1>7. << >> \o <<x>> = <<x>> OBVIOUS
<1>8. s = <<x>> \o r BY ONLY <1>4, <1>5, <1>6, <1>7
<1>9. Elems(Removed(s, i)) = Elems(s) \ {s[i]} BY RemovedType
<1> QED BY ONLY <1>1, <1>2, <1>8, <1>9

(* Call_Time_Callback: the first entry that is due is called; users do not   *)
(* see that a deleted cell is dropped.                                       *)
LEMMA CallTimeSeen ==
  ASSUME LinkInv, LinkInv', UserInv, Call_Time_Callback
  PROVE  UserInv' /\ (Promise!Call_Timed \/ UNCHANGED Promise!vars)
<1>1. PICK A, B, D, cb, hd, w, run, cur, fin, L :
        Setup(A, B, D, cb, hd, w, run, cur, fin, L)
  BY SetupNow
<1>2. PICK A2, B2, D2, cb2, hd2, w2, run2, cur2, fin2, L2 :
        Setup_Next(A2, B2, D2, cb2, hd2, w2, run2, cur2, fin2, L2)
  BY SetupNext
<1>3. /\ Cells_Right(A, B, D) /\ Users_Right(A, B, cb, hd, w, run, cur)
      /\ Walking(A, w, cur, fin)
      /\ Queue(Chain(First)) = Queued(Entry(cb), A, L)
      /\ Queue(To_Call) = Queued(Entry(cb), D, L)
      /\ Timed_Queue(Chain(Time_First)) = Queued(Timed_Entry(cb), B, L)
  BY <1>1, SetupFacts
<1>4. /\ Queue(Chain(First))' = Queued(Entry(cb2), A2, L2)
      /\ Queue(To_Call)' = Queued(Entry(cb2), D2, L2)
      /\ Timed_Queue(Chain(Time_First))' = Queued(Timed_Entry(cb2), B2, L2)
  BY <1>2, SetupSeen
<1>5. PICK now, first : now = Current_Time /\ first = First_Timeout OBVIOUS
<1>6. Times(B, cb, now, first) BY <1>1, <1>5, TimesNow
<1>7. /\ A = Chain(First) /\ B = Chain(Time_First) /\ D = Ahead(A, w, run, cur, fin)
      /\ cb = Cb /\ hd = handle /\ w = walk /\ run = running /\ cur = Cur /\ fin = Final
      /\ L = Alive(cb, run, cur)
  BY <1>1 DEF Setup
<1>8. /\ A2 = Chain(First)' /\ B2 = Chain(Time_First)' /\ D2 = Ahead(A2, w2, run2, cur2, fin2)
      /\ cb2 = Cb' /\ hd2 = handle' /\ w2 = walk' /\ run2 = running' /\ cur2 = Cur'
      /\ fin2 = Final' /\ L2 = Alive(cb2, run2, cur2)
  BY <1>2 DEF Setup_Next
<1>9. /\ A \in Seq(Cell) /\ B \in Seq(Cell) /\ D \in Seq(Cell) /\ Elems(D) \subseteq Elems(A)
      /\ Elems(A) \subseteq Cell /\ Elems(B) \subseteq Cell /\ Elems(A) \cap Elems(B) = {}
      /\ \A j, k \in 1 .. Len(A) : A[j] = A[k] => j = k
      /\ \A j, k \in 1 .. Len(B) : B[j] = B[k] => j = k
      /\ cb \in [Cell -> Cb_Cell] /\ hd \in [Callback -> Handle]
  BY ONLY <1>3 DEF Cells_Right, Users_Right
<1>10. PICK i \in 1 .. Len(B), x \in Cell :
         i = 1 /\ x = B[i] /\ x = Time_First /\ A2 = A /\ B2 = Removed(B, i)
  BY <1>7, <1>8, CallTimeLists
<1>11. /\ w = "time" /\ run = Nobody /\ cb[x].T <= now
       /\ run2 = IF cb[x].Proc = Nop THEN Nobody ELSE cb[x].Proc
       /\ cb2 = cb /\ hd2 = hd /\ w2 = w /\ cur2 = cur /\ fin2 = fin
       /\ Current_Time' = now /\ First_Timeout' = first /\ running' = run2
  BY <1>5, <1>7, <1>8, <1>10 DEF Call_Time_Callback
<1>12. cur = Null /\ Null \notin Cell
  BY ONLY <1>3, <1>11 DEF Users_Right, Cell, Null
<1>13. L2 = L BY ONLY <1>7, <1>8, <1>11, <1>12 DEF Alive
<1>14. D2 = D /\ D = << >> BY ONLY <1>7, <1>8, <1>11 DEF Ahead
<1>15. /\ B2 \in Seq(Cell) /\ Elems(B2) = Elems(B) \ {x} /\ B = <<x>> \o B2
       /\ x \in Elems(B) /\ x \notin Elems(A)
  <2>1. \A j, k \in 1 .. Len(B) : B[j] = B[k] => j = k BY ONLY <1>9
  <2>2. /\ Removed(B, i) \in Seq(Cell) /\ Elems(Removed(B, i)) = Elems(B) \ {B[i]}
        /\ B = <<B[i]>> \o Removed(B, i)
    BY <2>1, <1>9, <1>10, RemovedFirst
  <2>3. B[i] \in Elems(B) BY DEF Elems
  <2> QED BY ONLY <2>2, <2>3, <1>9, <1>10
<1>16. cb[x].T = now
  <2>1. now <= cb[x].T BY <1>6, <1>15 DEF Times
  <2>2. cb[x] \in Cb_Cell /\ now \in Time BY <1>5, <1>9 DEF LinkInv, TypeOK
  <2> QED BY <2>1, <2>2, <1>11 DEF Cb_Cell, Time
<1>17. UserInv'
  <2>1. Owners(A2, B2, cb2, hd2, w2, run2, cur2)
    BY ONLY <1>3, <1>10, <1>11, <1>12, <1>15 DEF Owners, Users_Right
  <2>2. Times(Removed(B, i), cb, now, first)
    BY ONLY <1>6, <1>9, i \in 1 .. Len(B), TimesRemoved
  <2>3. Times(B2, cb2, Current_Time', First_Timeout') BY ONLY <2>2, <1>10, <1>11
  <2> QED BY ONLY <1>2, <2>1, <2>3, UserNext
<1>18. /\ Queue(Chain(First))' = Queue(Chain(First))
       /\ Queue(To_Call)' = Queue(To_Call) /\ Queue(To_Call) = << >>
  BY ONLY <1>3, <1>4, <1>10, <1>11, <1>13, <1>14, QueuedEmpty
<1>19. PICK f : f = Timed_Entry(cb) OBVIOUS
<1>20. Maps(f, Cell, Any_Timed_Entry) BY ONLY <1>9, <1>19, EntryType
<1>21. CASE cb[x].Proc = Nop
  <2>1. x \notin L BY <1>7, <1>21 DEF Alive
  <2>2. B2 \in Seq(Cell) BY ONLY <1>15
  <2>3. Queued(f, <<x>> \o B2, L) = Queued(f, B2, L)
    BY ONLY <2>1, <2>2, <1>20, x \in Cell, QueuedFirstDead
  <2>4. Timed_Queue(Chain(Time_First))' = Timed_Queue(Chain(Time_First))
    BY ONLY <2>3, <1>3, <1>4, <1>11, <1>13, <1>15, <1>19
  <2>5. running' = running BY <1>7, <1>11, <1>21
  <2> QED BY <2>4, <2>5, <1>5, <1>11, <1>17, <1>18 DEF Promise!vars
<1>22. CASE cb[x].Proc # Nop
  <2>1. x \in L BY <1>7, <1>11, <1>22 DEF Alive
  <2>2. B2 \in Seq(Cell) BY ONLY <1>15
  <2>3. /\ Queued(f, <<x>> \o B2, L) # << >>
        /\ Head(Queued(f, <<x>> \o B2, L)) = f[x]
        /\ Tail(Queued(f, <<x>> \o B2, L)) = Queued(f, B2, L)
    BY ONLY <2>1, <2>2, <1>20, x \in Cell, QueuedFirst
  <2>4. /\ Timed_Queue(Chain(Time_First)) # << >>
        /\ Head(Timed_Queue(Chain(Time_First))) = f[x]
        /\ Timed_Queue(Chain(Time_First))' = Tail(Timed_Queue(Chain(Time_First)))
    BY ONLY <2>3, <1>3, <1>4, <1>11, <1>13, <1>15, <1>19
  <2>5. f[x].at = now /\ f[x].cb = run2
    BY <1>11, <1>16, <1>19, <1>22 DEF Timed_Entry
  <2>6. running = Nobody BY <1>7, <1>11
  <2> QED BY <2>4, <2>5, <2>6, <1>5, <1>11, <1>17, <1>18 DEF Promise!Call_Timed
<1> QED BY <1>21, <1>22

-----------------------------------------------------------------------------
(* At first, the lists are empty and so are the queues.                      *)
LEMMA InitSeen == Init => UserInv /\ Promise!Init
<1> SUFFICES ASSUME Init PROVE UserInv /\ Promise!Init OBVIOUS
<1>1. LinkInv BY InitLink
<1>2. PICK A, B, D, cb, hd, w, run, cur, fin, L :
        Setup(A, B, D, cb, hd, w, run, cur, fin, L)
  BY SetupNow
<1>3. /\ A = Chain(First) /\ B = Chain(Time_First) /\ D = Ahead(A, w, run, cur, fin)
      /\ cb = Cb /\ hd = handle /\ w = walk /\ run = running /\ cur = Cur /\ fin = Final
      /\ L = Alive(cb, run, cur)
  BY <1>2 DEF Setup
<1>4. /\ A \in Seq(Cell) /\ B \in Seq(Cell)
      /\ First = IF Len(A) = 0 THEN Null ELSE A[1]
      /\ Time_First = IF Len(B) = 0 THEN Null ELSE B[1]
  BY <1>1, <1>3, ListsCells DEF LinkInv
<1>5. A = << >> /\ B = << >>
  <2>1. First = Null /\ Time_First = Null /\ Null \notin Cell
    BY DEF Init, Cell, Null
  <2>2. Len(A) = 0
    <3>1. Len(A) \in Nat BY <1>4
    <3>2. ASSUME Len(A) # 0 PROVE FALSE
      <4>1. 1 \in 1 .. Len(A) BY <3>1, <3>2
      <4> QED BY <4>1, <3>2, <2>1, <1>4
    <3> QED BY <3>2
  <2>3. Len(B) = 0
    <3>1. Len(B) \in Nat BY <1>4
    <3>2. ASSUME Len(B) # 0 PROVE FALSE
      <4>1. 1 \in 1 .. Len(B) BY <3>1, <3>2
      <4> QED BY <4>1, <3>2, <2>1, <1>4
    <3> QED BY <3>2
  <2> QED BY <2>2, <2>3, <1>4, EmptySeq
<1>6. Elems(<< >>) = {} /\ Len(<< >>) = 0 BY DEF Elems
<1>7. walk = "none" /\ running = Nobody /\ Cur = Null /\ Current_Time = 0 BY DEF Init
<1>8. UserInv
  BY <1>3, <1>5, <1>6, <1>7 DEF UserInv, Owned, Called, Ascending, To_Come, Listed
<1>9. D = << >> BY <1>3, <1>7 DEF Ahead
<1>10. /\ Queue(Chain(First)) = << >> /\ Queue(To_Call) = << >>
       /\ Timed_Queue(Chain(Time_First)) = << >>
  BY <1>1, <1>2, <1>5, <1>8, <1>9, SetupFacts, QueuedEmpty
<1> QED BY <1>7, <1>8, <1>10 DEF Promise!Init

(* Every step is one of the steps shown above.                               *)
LEMMA NextSteps ==
  ASSUME LinkInv, UserInv, [Next]_vars
  PROVE  UserInv' /\ [Promise!Next]_Promise!vars
<1>0. LinkInv' BY NextKeepsLink
<1>1. ASSUME NEW c \in Callback, NEW mode \in {"Repeat", "Oneshot"},
             Register_Callback(c, mode)
      PROVE  UserInv' /\ Promise!Next
  <2>1. UserInv' /\ Promise!Register(c, mode = "Oneshot") BY <1>0, <1>1, RegisterSeen
  <2>2. (mode = "Oneshot") \in BOOLEAN OBVIOUS
  <2> QED BY <2>1, <2>2 DEF Promise!Next
<1>2. ASSUME NEW c \in Callback, NEW t \in Time, Register_Callback_At(c, t)
      PROVE  UserInv' /\ Promise!Next
  <2>1. UserInv' /\ Promise!Register_At(c, t) BY <1>0, <1>2, RegisterAtSeen
  <2>2. t \in 0 .. Last_Time BY DEF Time
  <2> QED BY <2>1, <2>2 DEF Promise!Next
<1>3. ASSUME NEW c \in Callback, Delete_Callback(c) PROVE UserInv' /\ Promise!Next
  <2>1. UserInv' /\ Promise!Remove(c) BY <1>0, <1>3, DeleteSeen
  <2> QED BY <2>1 DEF Promise!Next
<1>4. ASSUME NEW c \in Callback, Unregister_Callback_At(c) PROVE UserInv' /\ Promise!Next
  <2>1. UserInv' /\ Promise!Remove(c) BY <1>0, <1>4, UnregisterSeen
  <2> QED BY <2>1 DEF Promise!Next
<1>5. CASE Start_Callbacks BY <1>0, <1>5, StartSeen DEF Promise!Next
<1>6. CASE Call_Callback BY <1>0, <1>6, CallSeen DEF Promise!Next
<1>7. CASE Next_Callback BY <1>0, <1>7, NextSeen DEF Promise!Next
<1>8. CASE Call_Time_Callback BY <1>0, <1>8, CallTimeSeen DEF Promise!Next
<1>9. CASE Return_Time_Callback BY <1>0, <1>9, ReturnTimeSeen DEF Promise!Next
<1>10. CASE \E t \in (Current_Time + 1) .. First_Timeout : Advance(t)
  <2>1. PICK t \in (Current_Time + 1) .. First_Timeout : Advance(t) BY <1>10
  <2> QED BY <2>1, <1>0, AdvanceSeen DEF Promise!Next
<1>11. CASE Start_Time_Callbacks \/ End_Time_Callbacks \/ UNCHANGED vars
  BY <1>0, <1>11, TimeSeen
<1> QED BY <1>1, <1>2, <1>3, <1>4, <1>5, <1>6, <1>7, <1>8, <1>9, <1>10, <1>11
        DEF Next, User_Step, Walk_Step

(* For any users and any number of cells, Callbacks implements CallbackQueue:*)
(* the users of grt-callbacks.adb see their callbacks called in the order of *)
(* registration, in the calls of the list that begin after it, once if they  *)
(* are one-shot, at their time if they are timed, and never after removal,   *)
(* whatever callbacks register and remove while the list is walked.          *)
THEOREM QueueImplemented == Spec => ImplementsQueue
<1>1. Init => LinkInv /\ UserInv /\ Promise!Init BY InitLink, InitSeen
<1>2. LinkInv /\ UserInv /\ [Next]_vars => LinkInv' /\ UserInv' /\ [Promise!Next]_Promise!vars
  BY NextKeepsLink, NextSteps
<1> QED BY <1>1, <1>2, PTL DEF Spec, ImplementsQueue, Promise!Spec
=============================================================================
