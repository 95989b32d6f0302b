---------------------------- MODULE DriversProofs ----------------------------
(***************************************************************************)
(* Theorems about the drivers of Drivers, for any signals and drivers, any *)
(* delays, callbacks and force requests: types and forces; the chain of    *)
(* active signals and the times of transactions; the values of signals.    *)
(***************************************************************************)
EXTENDS Drivers, TLAPS, WellFoundedInduction, FiniteSetTheorems, SequenceTheorems

-----------------------------------------------------------------------------
(* Sets of naturals have a least element, bounded ones a greatest.           *)
LEMMA NatLeast ==
  ASSUME NEW S \in SUBSET Nat, S # {}
  PROVE  \E n \in S : \A m \in S : n <= m
<1>. DEFINE R == {ss \in Nat \X Nat : ss[1] < ss[2]}
<1>1. IsWellFoundedOn(R, Nat)
  BY NatLessThanWellFounded DEF OpToRel
<1>2. PICK n \in S : \A m \in S : ~ (<<m, n>> \in R)
  BY <1>1, WFMin, Zenon
<1>3. ASSUME NEW m \in S PROVE n <= m
  <2>1. n \in Nat /\ m \in Nat
    OBVIOUS
  <2>2. m < n => <<m, n>> \in R
    BY <2>1
  <2>. QED
    BY <1>2, <2>1, <2>2
<1>. QED
  BY <1>3

LEMMA NatGreatest ==
  ASSUME NEW n \in Nat, NEW S \in SUBSET (0 .. n), S # {}
  PROVE  \E m \in S : \A k \in S : k <= m
<1>. DEFINE D == {e \in Nat : n - e \in S}
<1>1. ASSUME NEW k \in S PROVE n - k \in D /\ n - (n - k) = k
  OBVIOUS
<1>2. PICK e \in D : \A f \in D : e <= f
  <2>1. D \in SUBSET Nat /\ D # {}
    BY <1>1
  <2>. HIDE DEF D
  <2>. QED
    BY <2>1, NatLeast
<1>3. ASSUME NEW k \in S PROVE k <= n - e
  <2>1. e <= n - k
    BY <1>1, <1>2
  <2>. QED
    BY <2>1
<1>4. n - e \in S
  OBVIOUS
<1>. QED
  BY <1>3, <1>4

-----------------------------------------------------------------------------
(* Lemmas about lists of transactions.                                       *)
Ascending(W) == \A i, j \in 1 .. Len(W) : i < j => W[i].Time < W[j].Time

LEMMA TransactionTime ==
  /\ \A tr \in Transaction : tr.Time \in Time /\ tr.Time \in Nat /\ tr.Val \in Value
  /\ \A W \in Seq(Transaction) :
       Len(W) \in Nat /\ \A i \in 1 .. Len(W) : W[i] \in Transaction
<1>1. Time \subseteq Nat
  BY BoundAssumption DEF Time
<1>. QED
  BY <1>1, ElementOfSeq, LenProperties DEF Transaction

(* The search loop stops where the times reach t.                            *)
LEMMA BeforeProperty ==
  ASSUME NEW W \in Seq(Transaction), Ascending(W), NEW t \in Int
  PROVE  /\ Before(W, t) \in 0 .. Len(W)
         /\ \A i \in 1 .. Before(W, t) : W[i].Time < t
         /\ \A i \in (Before(W, t) + 1) .. Len(W) : W[i].Time >= t
<1>. DEFINE Stop(n) == /\ \A i \in 1 .. n : W[i].Time < t
                       /\ n < Len(W) => W[n + 1].Time >= t
<1>1. Len(W) \in Nat /\ \A i \in 1 .. Len(W) : W[i].Time \in Int
  BY TransactionTime
<1>2. \E n \in 0 .. Len(W) : Stop(n)
  <2>. DEFINE S == {i \in 1 .. Len(W) : W[i].Time >= t}
  <2>1. CASE S = {}
    <3>1. Stop(Len(W))
      BY <1>1, <2>1
    <3>. QED
      BY <1>1, <3>1
  <2>2. CASE S # {}
    <3>1. PICK m \in S : \A k \in S : m <= k
      <4>1. S \in SUBSET Nat
        BY <1>1
      <4>. HIDE DEF S
      <4>. QED
        BY <2>2, <4>1, NatLeast
    <3>2. /\ m - 1 \in 0 .. Len(W) /\ (m - 1) + 1 = m
          /\ \A i \in 1 .. (m - 1) : i \in 1 .. Len(W) /\ i \notin S
      BY <1>1, <3>1
    <3>3. Stop(m - 1)
      BY <1>1, <3>1, <3>2
    <3>. QED
      BY <3>2, <3>3
  <2>. QED
    BY <2>1, <2>2
<1>. DEFINE n == Before(W, t)
<1>3. n \in 0 .. Len(W) /\ Stop(n)
  BY <1>2 DEF Before
<1>4. ASSUME NEW i \in (n + 1) .. Len(W) PROVE W[i].Time >= t
  <2>1. n + 1 \in 1 .. Len(W) /\ i \in 1 .. Len(W) /\ n + 1 <= i
    BY <1>1, <1>3
  <2>2. W[n + 1].Time >= t
    BY <1>3, <2>1
  <2>3. W[n + 1].Time <= W[i].Time
    BY <1>1, <2>1 DEF Ascending
  <2>. QED
    BY <1>1, <2>1, <2>2, <2>3
<1>. QED
  BY <1>3, <1>4

(* Preemption keeps the transactions before the new one.                     *)
LEMMA PreemptProperty ==
  ASSUME NEW W \in Seq(Transaction), Ascending(W), NEW t \in Int
  PROVE  /\ Preempt(W, t) \in Seq(Transaction)
         /\ Ascending(Preempt(W, t))
         /\ Len(Preempt(W, t)) = Before(W, t)
         /\ \A i \in 1 .. Len(Preempt(W, t)) :
              Preempt(W, t)[i] = W[i] /\ W[i].Time < t
<1>1. /\ Before(W, t) \in 0 .. Len(W) /\ Len(W) \in Nat
      /\ \A i \in 1 .. Before(W, t) : W[i].Time < t
  BY BeforeProperty, TransactionTime
<1>2. /\ SubSeq(W, 1, Before(W, t)) \in Seq(Transaction)
      /\ Len(SubSeq(W, 1, Before(W, t))) = Before(W, t)
      /\ \A i \in 1 .. Before(W, t) : SubSeq(W, 1, Before(W, t))[i] = W[i]
  BY <1>1, SubSeqProperties
<1>3. Ascending(SubSeq(W, 1, Before(W, t)))
  <2>. DEFINE P == SubSeq(W, 1, Before(W, t))
  <2>1. ASSUME NEW i \in 1 .. Len(P), NEW j \in 1 .. Len(P), i < j
        PROVE  P[i].Time < P[j].Time
    <3>1. /\ i \in 1 .. Len(W) /\ j \in 1 .. Len(W)
          /\ P[i] = W[i] /\ P[j] = W[j]
      BY <1>1, <1>2
    <3>. QED
      BY <2>1, <3>1 DEF Ascending
  <2>. QED
    BY <2>1 DEF Ascending
<1>. QED
  BY <1>1, <1>2, <1>3 DEF Preempt

(* R is W without the transactions after prev, up to next.                   *)
Rejected(W, R, prev, next, t, val) ==
  /\ prev = Before(W, t)
  /\ prev <= next
  /\ next = prev \/ W[next].Val # val
  /\ \A j \in (next + 1) .. Len(W) : W[j].Val = val
  /\ R \in Seq(Transaction)
  /\ Ascending(R)
  /\ Len(R) = prev + (Len(W) - next)
  /\ \A i \in 1 .. prev : R[i] = W[i]
  /\ \A i \in (prev + 1) .. Len(R) : R[i] = W[next + (i - prev)]
  /\ \A i \in (next + 1) .. Len(W) : R[(i - next) + prev] = W[i]

(* Rejection keeps the transactions before the interval and those that       *)
(* follow the last one of another value.                                     *)
LEMMA RejectProperty ==
  ASSUME NEW W \in Seq(Transaction), Ascending(W), NEW reject \in Int,
         NEW t \in Int, NEW val
  PROVE  \E prev, next \in 0 .. Len(W) :
           Rejected(W, Reject_Pulses(W, reject, t, val), prev, next, t - reject, val)
<1>. DEFINE prev == Before(W, t - reject)
            differ == {i \in (prev + 1) .. Len(W) : W[i].Val # val}
            Last(i) == \A j \in differ : j <= i
            next == IF differ = {} THEN prev ELSE CHOOSE i \in differ : Last(i)
            A == SubSeq(W, 1, prev)
            B == SubSeq(W, next + 1, Len(W))
            R == A \o B
<1>1. Len(W) \in Nat /\ prev \in 0 .. Len(W)
  BY BeforeProperty, TransactionTime
<1>2. /\ next \in prev .. Len(W)
      /\ next = prev \/ W[next].Val # val
      /\ \A j \in (next + 1) .. Len(W) : W[j].Val = val
  <2>1. CASE differ = {}
    BY <1>1, <2>1
  <2>2. CASE differ # {}
    <3>1. \E i \in differ : Last(i)
      <4>1. differ \in SUBSET (0 .. Len(W))
        BY <1>1
      <4>. HIDE DEF differ
      <4>. QED
        BY <1>1, <2>2, <4>1, NatGreatest
    <3>2. next \in differ /\ Last(next)
      <4>. HIDE DEF differ, Last
      <4>. QED
        BY <2>2, <3>1
    <3>. HIDE DEF next
    <3>. QED
      BY <1>1, <3>2
  <2>. QED
    BY <2>1, <2>2
<1>. HIDE DEF prev, next
<1>3. /\ A \in Seq(Transaction) /\ Len(A) = prev
      /\ \A i \in 1 .. prev : A[i] = W[i]
  BY <1>1, SubSeqProperties
<1>4. /\ B \in Seq(Transaction) /\ Len(B) = Len(W) - next
      /\ \A i \in 1 .. Len(B) : B[i] = W[next + i]
  BY <1>1, <1>2, SubSeqProperties
<1>5. /\ R \in Seq(Transaction) /\ Len(R) = prev + (Len(W) - next)
      /\ \A i \in 1 .. prev : R[i] = W[i]
      /\ \A i \in (prev + 1) .. Len(R) : R[i] = W[next + (i - prev)]
  <2>. HIDE DEF A, B
  <2>1. R \in Seq(Transaction) /\ Len(R) = prev + (Len(W) - next)
    <3>1. R \in Seq(Transaction) /\ Len(R) = Len(A) + Len(B)
      BY <1>3, <1>4, ConcatProperties
    <3>. QED
      BY <1>3, <1>4, <3>1
  <2>2. \A i \in 1 .. prev : R[i] = W[i]
    BY <1>1, <1>2, <1>3, <1>4
  <2>3. ASSUME NEW i \in (prev + 1) .. Len(R) PROVE R[i] = W[next + (i - prev)]
    <3>1. i - prev \in 1 .. Len(B) /\ R[i] = B[i - prev]
      BY <1>1, <1>2, <1>3, <1>4, <2>1
    <3>. QED
      BY <1>4, <3>1
  <2>. QED
    BY <2>1, <2>2, <2>3
<1>. HIDE DEF R
<1>6. ASSUME NEW i \in 1 .. Len(R), NEW j \in 1 .. Len(R), i < j
      PROVE  R[i].Time < R[j].Time
  <2>. DEFINE k(x) == IF x <= prev THEN x ELSE next + (x - prev)
  <2>1. ASSUME NEW x \in 1 .. Len(R) PROVE k(x) \in 1 .. Len(W) /\ R[x] = W[k(x)]
    BY <1>1, <1>2, <1>5
  <2>2. k(i) < k(j)
    BY <1>1, <1>2, <1>5, <1>6
  <2>. QED
    BY <2>1, <2>2 DEF Ascending
<1>7. \A i \in (next + 1) .. Len(W) : R[(i - next) + prev] = W[i]
  BY <1>1, <1>2, <1>5
<1>8. Reject_Pulses(W, reject, t, val) = R
  BY DEF Reject_Pulses, R, prev, next
<1>9. Ascending(R)
  BY <1>6 DEF Ascending
<1>10. prev = Before(W, t - reject)
  BY DEF prev
<1>11. prev \in 0 .. Len(W) /\ next \in 0 .. Len(W) /\ prev <= next
  BY <1>1, <1>2
<1>12. Rejected(W, R, prev, next, t - reject, val)
  BY <1>2, <1>5, <1>7, <1>9, <1>10, <1>11 DEF Rejected
<1>. QED
  BY <1>8, <1>11, <1>12

(* Appending a transaction after all the others.                             *)
LEMMA AppendAscending ==
  ASSUME NEW W \in Seq(Transaction), Ascending(W), NEW tr \in Transaction,
         \A i \in 1 .. Len(W) : W[i].Time < tr.Time
  PROVE  /\ Append(W, tr) \in Seq(Transaction)
         /\ Ascending(Append(W, tr))
         /\ Len(Append(W, tr)) = Len(W) + 1
         /\ Append(W, tr)[Len(W) + 1] = tr
         /\ \A i \in 1 .. Len(W) : Append(W, tr)[i] = W[i]
<1>1. /\ Append(W, tr) \in Seq(Transaction)
      /\ Len(Append(W, tr)) = Len(W) + 1 /\ Len(W) \in Nat
      /\ Append(W, tr)[Len(W) + 1] = tr
      /\ \A i \in 1 .. Len(W) : Append(W, tr)[i] = W[i]
  BY AppendProperties, LenProperties
<1>2. Ascending(Append(W, tr))
  BY <1>1 DEF Ascending
<1>. QED
  BY <1>1, <1>2

(* The waveform P once a transaction is projected on W: the new one is last, *)
(* the others are old ones from before its time.                             *)
Projected(W, P, t, val) ==
  /\ P \in Seq(Transaction)
  /\ Ascending(P)
  /\ Len(P) \in Nat \ {0}
  /\ P[Len(P)] = [Time |-> t, Val |-> val]
  /\ \A i \in 1 .. Len(P) : i < Len(P) =>
       \E j \in 1 .. Len(W) : P[i] = W[j] /\ W[j].Time < t

(* Transport delay keeps the first transaction.                              *)
LEMMA ProjectProperty ==
  ASSUME NEW W \in Seq(Transaction), Ascending(W), NEW reject \in Int,
         NEW t \in Time, NEW val \in Value
  PROVE  /\ Projected(W, Project(W, reject, t, val), t, val)
         /\ reject <= 0 /\ Len(W) >= 1 /\ W[1].Time < t
              => Project(W, reject, t, val)[1] = W[1]
<1>. DEFINE new == [Time |-> t, Val |-> val]
            V == Preempt(W, t)
            U == IF reject > 0 THEN Reject_Pulses(V, reject, t, val) ELSE V
<1>0. /\ new \in Transaction /\ new.Time = t /\ t \in Int /\ Len(W) \in Nat
      /\ W # << >> => Len(W) >= 1
  BY BoundAssumption, TransactionTime, EmptySeq DEF Transaction, Time
<1>1. /\ V \in Seq(Transaction) /\ Ascending(V) /\ Len(V) \in 0 .. Len(W)
      /\ Len(V) = Before(W, t)
      /\ \A i \in 1 .. Len(V) : V[i] = W[i] /\ W[i].Time < t
  BY <1>0, PreemptProperty, BeforeProperty
<1>2. /\ U \in Seq(Transaction) /\ Ascending(U) /\ Len(U) \in Nat
      /\ \A i \in 1 .. Len(U) : \E j \in 1 .. Len(V) : U[i] = V[j]
  <2>1. CASE reject > 0
    <3>0. Reject_Pulses(V, reject, t, val) = U
      BY <2>1
    <3>. HIDE DEF U, V
    <3>1. PICK prev \in 0 .. Len(V), next \in 0 .. Len(V) :
            Rejected(V, U, prev, next, t - reject, val)
      BY <1>0, <1>1, <3>0, RejectProperty
    <3>2. U \in Seq(Transaction) /\ Ascending(U) /\ Len(U) \in Nat
      BY <3>1 DEF Rejected
    <3>3. ASSUME NEW i \in 1 .. Len(U) PROVE \E j \in 1 .. Len(V) : U[i] = V[j]
      <4>1. CASE i <= prev
        <5>1. i \in 1 .. Len(V) /\ U[i] = V[i]
          BY <1>1, <3>1, <3>2, <4>1 DEF Rejected
        <5>. QED
          BY <5>1
      <4>2. CASE i > prev
        <5>1. i \in (prev + 1) .. Len(U) /\ Len(U) = prev + (Len(V) - next)
          BY <3>1, <3>2, <4>2 DEF Rejected
        <5>2. U[i] = V[next + (i - prev)]
          BY <3>1, <5>1 DEF Rejected
        <5>3. next + (i - prev) \in 1 .. Len(V)
          BY <1>1, <3>2, <5>1
        <5>. QED
          BY <5>2, <5>3
      <4>. QED
        BY <3>1, <3>2, <4>1, <4>2
    <3>. QED
      BY <3>2, <3>3
  <2>2. CASE ~(reject > 0)
    BY <1>1, <2>2
  <2>. QED
    BY <2>1, <2>2
<1>3. Project(W, reject, t, val) = Append(U, new)
  BY DEF Project
<1>4. reject <= 0 /\ Len(W) >= 1 /\ W[1].Time < t => U[1] = W[1] /\ Len(U) >= 1
  <2>. SUFFICES ASSUME reject <= 0, Len(W) >= 1, W[1].Time < t
                PROVE  U[1] = W[1] /\ Len(U) >= 1
    OBVIOUS
  <2>1. U = V
    OBVIOUS
  <2>2. Before(W, t) # 0
    <3>. HIDE DEF U, V
    <3>1. Before(W, t) = 0 => W[1].Time >= t
      BY <1>0, BeforeProperty
    <3>2. W[1].Time \in Nat
      BY <1>0, TransactionTime
    <3>. QED
      BY <1>0, <3>1, <3>2
  <2>. QED
    BY <1>1, <2>1, <2>2
<1>. HIDE DEF U, V, new
<1>5. \A i \in 1 .. Len(U) : \E j \in 1 .. Len(W) : U[i] = W[j] /\ W[j].Time < t
  <2>. TAKE i \in 1 .. Len(U)
  <2>1. PICK j \in 1 .. Len(V) : U[i] = V[j]
    BY <1>2
  <2>2. j \in 1 .. Len(W) /\ U[i] = W[j] /\ W[j].Time < t
    BY <1>0, <1>1, <2>1
  <2>. QED
    BY <2>2
<1>6. /\ Append(U, new) \in Seq(Transaction) /\ Ascending(Append(U, new))
      /\ Len(Append(U, new)) = Len(U) + 1
      /\ Append(U, new)[Len(U) + 1] = new
      /\ \A i \in 1 .. Len(U) : Append(U, new)[i] = U[i]
  BY <1>0, <1>2, <1>5, AppendAscending
<1>. DEFINE P == Append(U, new)
<1>7. Len(P) \in Nat \ {0} /\ P[Len(P)] = new
  BY <1>2, <1>6
<1>8. ASSUME NEW i \in 1 .. Len(P), i < Len(P)
      PROVE  \E j \in 1 .. Len(W) : P[i] = W[j] /\ W[j].Time < t
  <2>1. i \in 1 .. Len(U) /\ P[i] = U[i]
    BY <1>2, <1>6, <1>8
  <2>. QED
    BY <1>5, <2>1
<1>9. reject <= 0 /\ Len(W) >= 1 /\ W[1].Time < t => P[1] = W[1]
  BY <1>2, <1>4, <1>6
<1>. HIDE DEF P
<1>10. Project(W, reject, t, val) = P
  BY <1>3 DEF P
<1>. QED
  BY <1>6, <1>7, <1>8, <1>9, <1>10 DEF new, P, Projected

(* What is left once the first transaction is taken.                         *)
LEMMA TailProperty ==
  ASSUME NEW W \in Seq(Transaction), Ascending(W), W # << >>
  PROVE  /\ W[1] \in Transaction
         /\ Tail(W) \in Seq(Transaction)
         /\ Ascending(Tail(W))
         /\ Len(W) \in Nat \ {0} /\ Len(Tail(W)) = Len(W) - 1
         /\ \A i \in 1 .. Len(Tail(W)) :
              /\ i + 1 \in 1 .. Len(W)
              /\ Tail(W)[i] = W[i + 1] /\ W[i + 1].Time > W[1].Time
<1>1. /\ Len(W) \in Nat \ {0} /\ Tail(W) \in Seq(Transaction)
      /\ Len(Tail(W)) = Len(W) - 1
      /\ \A i \in 1 .. Len(Tail(W)) : Tail(W)[i] = W[i + 1]
  BY HeadTailProperties, EmptySeq, LenProperties
<1>2. \A i \in 1 .. Len(W) : W[i] \in Transaction /\ W[i].Time \in Nat
  BY TransactionTime
<1>3. ASSUME NEW i \in 1 .. Len(Tail(W))
      PROVE  i + 1 \in 1 .. Len(W) /\ W[i + 1].Time > W[1].Time
  <2>1. i + 1 \in 1 .. Len(W) /\ 1 \in 1 .. Len(W) /\ 1 < i + 1
    BY <1>1
  <2>. QED
    BY <1>2, <2>1 DEF Ascending
<1>4. ASSUME NEW i \in 1 .. Len(Tail(W)), NEW j \in 1 .. Len(Tail(W)), i < j
      PROVE  Tail(W)[i].Time < Tail(W)[j].Time
  <2>1. i + 1 \in 1 .. Len(W) /\ j + 1 \in 1 .. Len(W) /\ i + 1 < j + 1
    BY <1>1, <1>4
  <2>. QED
    BY <1>1, <2>1 DEF Ascending
<1>5. Ascending(Tail(W))
  BY <1>4 DEF Ascending
<1>. QED
  BY <1>1, <1>2, <1>3, <1>5

-----------------------------------------------------------------------------
(* TypeOK is inductive together with the order of requests: deposits are     *)
(* made once no release or force is left, until the end of Update_Signals.   *)
DepositsLast ==
  Deposited # {} =>
    \/ phase = "update"
    \/ phase = "override" /\ Release_Chain = << >> /\ Force_Chain = << >>

TypeInv == TypeOK /\ DepositsLast

LEMMA TypeInit == Init => TypeInv
<1>. SUFFICES ASSUME Init PROVE TypeInv
  OBVIOUS
<1>1. 0 \in Time
  BY BoundAssumption DEF Time
<1>2. PICK v \in Value :
        /\ First_Trans = [d \in Driver |-> v]
        /\ Direct_Value = [d \in Direct |-> v]
        /\ Driving_Value = [s \in Signal |->
             IF s \in Resolved THEN Compute_Resolved_Signal(s, First_Trans) ELSE v]
        /\ Value_Ptr = Driving_Value
  BY DEF Init
<1>3. \A s \in Signal : Compute_Resolved_Signal(s, First_Trans) \in Value
  <2>. TAKE s \in Signal
  <2>1. {First_Trans[d] : d \in Drivers_Of(s)} \in SUBSET Value
    BY <1>2 DEF Drivers_Of
  <2>. QED
    BY <2>1, DriverAssumption DEF Compute_Resolved_Signal
<1>4. /\ First_Trans \in [Driver -> Value] /\ Direct_Value \in [Direct -> Value]
      /\ Driving_Value \in [Signal -> Value] /\ Value_Ptr \in [Signal -> Value]
  BY <1>2, <1>3
<1>5. Waveform \in [Driver -> Seq(Transaction)] /\ WaveformAscending
  BY DEF Init, WaveformAscending
<1>6. /\ Release_Chain = << >> /\ Force_Chain = << >> /\ Deposite_Chain = << >>
      /\ Override_Present = FALSE
      /\ << >> \in Seq(Overrides)
  BY DEF Init
<1>7. /\ phase \in Phase /\ assigning \in Driver \cup {No_Driver}
      /\ Current_Time = 0 /\ Next_Time = 0 /\ Tn = 0
      /\ Signal_Active_Chain = {} /\ Future_List = {} /\ Is_Direct_Active = {}
      /\ Forced = {} /\ Deposited = {} /\ Saved_Forced = {}
  BY DEF Init, Phase
<1>. QED
  BY <1>1, <1>4, <1>5, <1>6, <1>7 DEF TypeOK, TypeInv, DepositsLast

(* A waveform that replaces that of one driver.                              *)
LEMMA TypeWaveform ==
  ASSUME TypeOK, NEW d \in Driver, NEW W \in Seq(Transaction), Ascending(W),
         Waveform' = [Waveform EXCEPT ![d] = W]
  PROVE  /\ Waveform' \in [Driver -> Seq(Transaction)]
         /\ WaveformAscending'
<1>1. Waveform \in [Driver -> Seq(Transaction)] /\ WaveformAscending
  BY DEF TypeOK
<1>2. \A e \in Driver : Waveform'[e] = IF e = d THEN W ELSE Waveform[e]
  BY <1>1
<1>3. Waveform' \in [Driver -> Seq(Transaction)]
  BY <1>1
<1>4. ASSUME NEW e \in Driver PROVE Ascending(Waveform'[e])
  BY <1>1, <1>2 DEF Ascending, WaveformAscending
<1>. QED
  BY <1>3, <1>4 DEF WaveformAscending, Ascending

(* The time and the chain that Compute_Next_Time computes.                   *)
LEMMA NextTimeType ==
  ASSUME TypeOK, NEW tn \in Current_Time .. Last_Time, NEW chain \in SUBSET Signal
  PROVE  /\ tn \in Time
         /\ Compute_Next_Time(tn, chain).time \in Time
         /\ Compute_Next_Time(tn, chain).chain \in SUBSET Signal
<1>0. Current_Time \in Time /\ tn \in Time /\ Time \subseteq Nat /\ Future_List \subseteq Signal
  BY BoundAssumption DEF TypeOK, Time
<1>. DEFINE times == {t \in Time : t <= tn /\ Projected_At(t) # {}} \cup {tn}
            Least(t) == \A u \in times : t <= u
            res == CHOOSE t \in times : Least(t)
<1>1. \E t \in times : Least(t)
  <2>1. times \in SUBSET Nat /\ times # {}
    BY <1>0
  <2>. HIDE DEF times
  <2>. QED
    BY <2>1, NatLeast
<1>2. res \in times
  <2>. HIDE DEF times, Least
  <2>. QED
    BY <1>1
<1>3. res \in Time
  <2>. HIDE DEF res
  <2>. QED
    BY <1>0, <1>2
<1>. HIDE DEF res
<1>4. Projected_At(res) \subseteq Signal
  BY <1>0 DEF Projected_At
<1>5. Find_Next_Time(tn, chain) =
        IF chain # {} \/ Override_Present
        THEN [time |-> Current_Time, chain |-> chain]
        ELSE [time |-> res, chain |-> Projected_At(res)]
  BY DEF Find_Next_Time, res
<1>. QED
  BY <1>0, <1>3, <1>4, <1>5 DEF Compute_Next_Time

(* What a computation of the next time keeps.                                *)
LEMMA TypeCompute ==
  ASSUME TypeOK, NEW tn \in Current_Time .. Last_Time, NEW chain \in SUBSET Signal,
         NEW delta \in SUBSET Phase, NEW later \in SUBSET Phase,
         Compute(tn, chain, delta, later),
         Current_Time' \in Time, Next_Time' \in Time
  PROVE  TypeOK'
<1>1. Tn' \in Time /\ Signal_Active_Chain' \subseteq Signal
  BY NextTimeType DEF Compute
<1>2. phase' \in Phase
  BY DEF Compute, Phase
<1>3. /\ assigning' = No_Driver
      /\ UNCHANGED <<driverVars, Future_List, Is_Direct_Active, valueVars,
                     forcedVars, overrideVars>>
  BY DEF Compute
<1>. QED
  BY <1>1, <1>2, <1>3 DEF TypeOK, WaveformAscending, driverVars, valueVars, forcedVars, overrideVars

(* A transaction that a further element of a waveform appends.               *)
After_Last(d, new) ==
  /\ new \in Transaction
  /\ new.Time > Current_Time \/ Waveform[d] # << >>
  /\ new.Time >= Current_Time
  /\ \A i \in 1 .. Len(Waveform[d]) : Waveform[d][i].Time < new.Time

LEMMA AfterLast ==
  ASSUME TypeOK, NEW d \in Driver, NEW after \in Delays, NEW val \in Value,
         ~(Beyond(after) \/ Current_Time + after <= Last_Trans_Time(d))
  PROVE  After_Last(d, [Time |-> Current_Time + after, Val |-> val])
<1>. DEFINE new == [Time |-> Current_Time + after, Val |-> val]
            W == Waveform[d]
<1>0. /\ W \in Seq(Transaction) /\ Ascending(W)
      /\ Current_Time \in Time /\ Time = 0 .. Last_Time /\ Last_Time \in Nat
      /\ after \in Nat
  BY BoundAssumption DEF TypeOK, WaveformAscending, Ascending, Time
<1>1. new \in Transaction /\ new.Time = Current_Time + after
  BY <1>0 DEF Beyond, Transaction
<1>2. new.Time >= Current_Time
  BY <1>0, <1>1
<1>3. new.Time > Current_Time \/ W # << >>
  BY <1>0, <1>1 DEF Last_Trans_Time
<1>4. ASSUME NEW i \in 1 .. Len(W) PROVE W[i].Time < new.Time
  <2>1. /\ Len(W) \in Nat /\ Len(W) \in 1 .. Len(W) /\ W # << >>
        /\ W[i].Time \in Nat /\ W[Len(W)].Time \in Nat
    BY <1>0, TransactionTime
  <2>2. W[i].Time <= W[Len(W)].Time
    BY <1>0, <2>1 DEF Ascending
  <2>3. W[Len(W)].Time < Current_Time + after
    BY <1>0, <2>1 DEF Last_Trans_Time
  <2>. QED
    BY <1>0, <1>1, <2>1, <2>2, <2>3
<1>. QED
  BY <1>1, <1>2, <1>3, <1>4 DEF After_Last

(* Assignments keep the types.                                               *)
LEMMA TypeAssignment ==
  ASSUME TypeOK, NEW d \in Driver, Assignment(d)
  PROVE  TypeOK'
<1>. USE DEF timeVars, driverVars, chainVars, valueVars, forcedVars, overrideVars
<1>0. /\ Waveform[d] \in Seq(Transaction) /\ Ascending(Waveform[d])
      /\ Signal_Of[d] \in Signal
      /\ Current_Time \in Time /\ Time = 0 .. Last_Time /\ Last_Time \in Nat
      /\ Delays \subseteq Nat /\ Delays \subseteq Int
  BY DriverAssumption, BoundAssumption DEF TypeOK, WaveformAscending, Ascending, Time
<1>1. ASSUME NEW reject \in Delays, NEW after \in Delays, NEW val \in Value,
             Start_Assign(d, reject, after, val)
      PROVE  TypeOK'
  <2>. USE <1>1
  <2>1. CASE Beyond(after)
    <3>1. UNCHANGED <<Waveform, phase>> /\ Signal_Active_Chain' \subseteq Signal
      BY <1>0, <2>1 DEF Start_Assign, TypeOK
    <3>2. Future_List' \subseteq Signal /\ assigning' \in Driver
      BY <1>0 DEF Start_Assign, TypeOK, Insert_Future_List
    <3>. QED
      BY <3>1, <3>2 DEF Start_Assign, TypeOK, WaveformAscending
  <2>2. CASE ~Beyond(after)
    <3>. DEFINE rej == IF reject > after THEN 0 ELSE reject
                W == Project(Waveform[d], rej, Current_Time + after, val)
    <3>1. Current_Time + after \in Time /\ rej \in Int
      BY <1>0, <2>2 DEF Beyond
    <3>2. W \in Seq(Transaction) /\ Ascending(W)
      <4>. HIDE DEF rej
      <4>. QED
        BY <1>0, <3>1, ProjectProperty DEF Projected
    <3>3. Waveform' = [Waveform EXCEPT ![d] = W]
      BY <2>2 DEF Start_Assign, TypeOK
    <3>. HIDE DEF W, rej
    <3>4. Waveform' \in [Driver -> Seq(Transaction)] /\ WaveformAscending'
      BY <3>2, <3>3, TypeWaveform
    <3>5. Signal_Active_Chain' \subseteq Signal /\ phase' \in Phase
      BY <1>0, <2>2 DEF Start_Assign, TypeOK, Phase
    <3>6. Future_List' \subseteq Signal /\ assigning' \in Driver
      BY <1>0 DEF Start_Assign, TypeOK, Insert_Future_List
    <3>. QED
      BY <3>4, <3>5, <3>6 DEF Start_Assign, TypeOK
  <2>. QED
    BY <2>1, <2>2
<1>2. ASSUME NEW after \in Delays, NEW val \in Value, Next_Assign(d, after, val)
      PROVE  TypeOK'
  <2>. USE <1>2
  <2>1. CASE Beyond(after) \/ Current_Time + after <= Last_Trans_Time(d)
    BY <2>1 DEF Next_Assign, TypeOK, WaveformAscending, Phase
  <2>2. CASE ~(Beyond(after) \/ Current_Time + after <= Last_Trans_Time(d))
    <3>. DEFINE new == [Time |-> Current_Time + after, Val |-> val]
                W == Waveform[d]
    <3>1. After_Last(d, new)
      BY <2>2, AfterLast
    <3>3. Append(W, new) \in Seq(Transaction) /\ Ascending(Append(W, new))
      <4>. HIDE DEF new
      <4>1. new \in Transaction /\ \A i \in 1 .. Len(W) : W[i].Time < new.Time
        BY <3>1 DEF After_Last
      <4>2. W \in Seq(Transaction) /\ Ascending(W)
        BY <1>0 DEF W
      <4>. HIDE DEF W
      <4>. QED
        BY <4>1, <4>2, AppendAscending
    <3>4. Waveform' = [Waveform EXCEPT ![d] = Append(W, new)]
      BY <2>2 DEF Next_Assign, TypeOK
    <3>. HIDE DEF new, W
    <3>5. Waveform' \in [Driver -> Seq(Transaction)] /\ WaveformAscending'
      BY <3>3, <3>4, TypeWaveform
    <3>6. Future_List' \subseteq Signal
      BY <1>0, <2>2 DEF Next_Assign, TypeOK, Insert_Future_List
    <3>. QED
      BY <2>2, <3>5, <3>6 DEF Next_Assign, TypeOK
  <2>. QED
    BY <2>1, <2>2
<1>3. ASSUME NEW val \in Value, Direct_Assign(d, val) PROVE TypeOK'
  BY <1>0, <1>3 DEF Direct_Assign, TypeOK, WaveformAscending
<1>4. ASSUME NEW val \in Value, Start_Assign_Direct(d, val) PROVE TypeOK'
  BY <1>0, <1>4, DriverAssumption DEF Start_Assign_Direct, TypeOK, WaveformAscending
<1>. QED
  BY <1>1, <1>2, <1>3, <1>4 DEF Assignment

(* A value given to the driving or the effective value of a signal.          *)
LEMMA SetValueType ==
  ASSUME TypeOK, NEW f \in Overrides, NEW val \in Value, Set_Value(f, val)
  PROVE  /\ Driving_Value' \in [Signal -> Value]
         /\ Value_Ptr' \in [Signal -> Value]
  BY DEF TypeOK, Set_Value

(* The types of the fields of a request.                                     *)
LEMMA OverrideType ==
  \A f \in Overrides : f.Kind \in Force_Kind /\ f.Sig \in Signal /\ f.Mode \in Force_Mode
                         /\ f.Val \in Value
  BY OverrideAssumption

LEMMA RequestHead ==
  ASSUME NEW chain \in Seq(Overrides), chain # << >>
  PROVE  Head(chain) \in Overrides /\ Tail(chain) \in Seq(Overrides)
  BY HeadTailProperties

(* Requests, handled at the beginning of Update_Signals, keep the types.     *)
LEMMA TypeRequest ==
  ASSUME TypeOK,
         UNCHANGED <<timeVars, driverVars, assigning, Future_List, Is_Direct_Active>>,
         phase' \in Phase,
         Signal_Active_Chain' \subseteq Signal,
         Driving_Value' \in [Signal -> Value], Value_Ptr' \in [Signal -> Value],
         Forced' \subseteq Signal \X Force_Mode, Deposited' \subseteq Forced',
         Saved_Forced' \subseteq [Sig : Signal, Mode : Force_Mode, Val : Value],
         Release_Chain' \in Seq(Overrides), Force_Chain' \in Seq(Overrides),
         Deposite_Chain' \in Seq(Overrides), Override_Present' \in BOOLEAN
  PROVE  TypeOK'
<1>1. WaveformAscending'
  BY DEF TypeOK, WaveformAscending, driverVars
<1>. QED
  BY <1>1 DEF TypeOK, timeVars, driverVars

LEMMA TypeRelease == TypeInv /\ Apply_Release => TypeOK'
<1>. SUFFICES ASSUME TypeOK, DepositsLast, Apply_Release PROVE TypeOK'
  BY DEF TypeInv
<1>. DEFINE f == Head(Release_Chain)
<1>1. f \in Overrides /\ Release_Chain' \in Seq(Overrides)
  BY RequestHead DEF Apply_Release, TypeOK
<1>2. Deposited = {}
  BY DEF Apply_Release, DepositsLast
<1>3. UNCHANGED <<timeVars, phase, driverVars, assigning, Future_List,
                  Is_Direct_Active, Deposited, Force_Chain, Deposite_Chain,
                  Override_Present>>
  BY DEF Apply_Release
<1>4. Signal_Active_Chain' \subseteq Signal
  BY <1>1, OverrideType DEF Apply_Release, Mark_Force_Active, TypeOK
<1>5. CASE <<f.Sig, f.Mode>> \in Forced
  <2>1. PICK old \in Saved_Forced :
          /\ Set_Value(f, old.Val)
          /\ Saved_Forced' = Saved_Forced \ {old}
          /\ Forced' = Forced \ {<<f.Sig, f.Mode>>}
    BY <1>5 DEF Apply_Release
  <2>. HIDE DEF f
  <2>2. old.Val \in Value
    BY DEF TypeOK
  <2>3. Driving_Value' \in [Signal -> Value] /\ Value_Ptr' \in [Signal -> Value]
    BY <1>1, <2>1, <2>2, SetValueType
  <2>4. /\ Forced' \subseteq Signal \X Force_Mode /\ Deposited' \subseteq Forced'
        /\ Saved_Forced' \subseteq [Sig : Signal, Mode : Force_Mode, Val : Value]
    BY <1>2, <1>3, <2>1 DEF TypeOK
  <2>. QED
    BY <1>1, <1>3, <1>4, <2>3, <2>4, TypeRequest DEF TypeOK
<1>6. CASE <<f.Sig, f.Mode>> \notin Forced
  <2>1. UNCHANGED <<Driving_Value, Value_Ptr, Saved_Forced, Forced>>
    BY <1>6 DEF Apply_Release, valueVars
  <2>. QED
    BY <1>1, <1>3, <1>4, <2>1, TypeRequest DEF TypeOK
<1>. QED
  BY <1>5, <1>6

LEMMA TypeForce == TypeOK /\ Apply_Force => TypeOK'
<1>. SUFFICES ASSUME TypeOK, Apply_Force PROVE TypeOK'
  OBVIOUS
<1>. DEFINE f == Head(Force_Chain)
<1>1. f \in Overrides /\ Force_Chain' \in Seq(Overrides)
  BY RequestHead DEF Apply_Force, TypeOK
<1>2. f.Sig \in Signal /\ f.Mode \in Force_Mode /\ f.Val \in Value
  BY <1>1, OverrideType
<1>3. UNCHANGED <<timeVars, phase, driverVars, assigning, Future_List,
                  Is_Direct_Active, Deposited, Release_Chain, Deposite_Chain,
                  Override_Present>>
  BY DEF Apply_Force
<1>4. /\ Signal_Active_Chain' = Signal_Active_Chain \cup {f.Sig}
      /\ Forced' = Forced \cup {<<f.Sig, f.Mode>>}
      /\ Set_Value(f, f.Val)
      /\ Save_Forced_Value(f)
  BY DEF Apply_Force, Mark_Force_Active
<1>. HIDE DEF f
<1>5. Driving_Value' \in [Signal -> Value] /\ Value_Ptr' \in [Signal -> Value]
  BY <1>1, <1>2, <1>4, SetValueType
<1>6. Old_Value(f) \in Value
  BY <1>2 DEF Old_Value, TypeOK
<1>7. Saved_Forced' \subseteq [Sig : Signal, Mode : Force_Mode, Val : Value]
  BY <1>2, <1>4, <1>6 DEF Save_Forced_Value, TypeOK
<1>8. /\ Signal_Active_Chain' \subseteq Signal
      /\ Forced' \subseteq Signal \X Force_Mode /\ Deposited' \subseteq Forced'
  BY <1>2, <1>3, <1>4 DEF TypeOK
<1>. QED
  BY <1>1, <1>3, <1>5, <1>7, <1>8, TypeRequest DEF TypeOK

LEMMA TypeDeposite == TypeOK /\ Apply_Deposite => TypeOK'
<1>. SUFFICES ASSUME TypeOK, Apply_Deposite PROVE TypeOK'
  OBVIOUS
<1>. DEFINE f == Head(Deposite_Chain)
            sm == <<f.Sig, f.Mode>>
<1>1. f \in Overrides /\ Deposite_Chain' \in Seq(Overrides)
  BY RequestHead DEF Apply_Deposite, TypeOK
<1>2. f.Sig \in Signal /\ f.Mode \in Force_Mode /\ f.Val \in Value
  BY <1>1, OverrideType
<1>3. UNCHANGED <<timeVars, phase, driverVars, assigning, Future_List,
                  Is_Direct_Active, Saved_Forced, Release_Chain, Force_Chain,
                  Override_Present>>
  BY DEF Apply_Deposite
<1>4. CASE sm \notin Forced \/ sm \in Deposited
  <2>1. /\ Signal_Active_Chain' = Signal_Active_Chain \cup {f.Sig}
        /\ Forced' = Forced \cup {sm} /\ Deposited' = Deposited \cup {sm}
        /\ Set_Value(f, f.Val)
    BY <1>4 DEF Apply_Deposite, Mark_Force_Active
  <2>. HIDE DEF f
  <2>2. Driving_Value' \in [Signal -> Value] /\ Value_Ptr' \in [Signal -> Value]
    BY <1>1, <1>2, <2>1, SetValueType
  <2>3. /\ Signal_Active_Chain' \subseteq Signal
        /\ Forced' \subseteq Signal \X Force_Mode /\ Deposited' \subseteq Forced'
    BY <1>2, <2>1 DEF TypeOK
  <2>. QED
    BY <1>1, <1>3, <2>2, <2>3, TypeRequest DEF TypeOK
<1>5. CASE ~(sm \notin Forced \/ sm \in Deposited)
  <2>1. UNCHANGED <<Forced, Deposited, Driving_Value, Value_Ptr, Signal_Active_Chain>>
    BY <1>5 DEF Apply_Deposite, valueVars
  <2>. QED
    BY <1>1, <1>3, <2>1, TypeRequest DEF TypeOK
<1>. QED
  BY <1>4, <1>5

(* The drivers of the signal that is updated, and its values.                *)
LEMMA UpdateType ==
  ASSUME TypeOK, NEW s \in Signal, Update_A_Signal(s)
  PROVE  /\ First_Trans' \in [Driver -> Value]
         /\ Waveform' \in [Driver -> Seq(Transaction)] /\ WaveformAscending'
         /\ Driving_Value' \in [Signal -> Value]
         /\ Value_Ptr' \in [Signal -> Value]
<1>. DEFINE own == Drivers_Of(s)
            taking == {d \in own \ Direct : Takes(d)}
            kept == Is_Drv_Forced(s) \/ Net(s) = "No_Net"
                      \/ (Net(s) = "One_Driver" /\ taking = {})
            driving == IF kept THEN Driving_Value[s]
                       ELSE IF Net(s) = "One_Resolved"
                       THEN Compute_Resolved_Signal(s, First_Trans')
                       ELSE First_Trans'[CHOOSE d \in own : TRUE]
<1>0. \A d \in Driver : Waveform[d] \in Seq(Transaction) /\ Ascending(Waveform[d])
  BY DEF TypeOK, WaveformAscending, Ascending
<1>1. \A d \in taking : d \in Driver /\ Waveform[d] # << >> /\ Waveform[d][1].Val \in Value
  <2>1. \A d \in taking : d \in Driver /\ Waveform[d] # << >>
    BY DEF Takes, Drivers_Of
  <2>. QED
    BY <1>0, <2>1, TailProperty, TransactionTime
<1>2. First_Trans' \in [Driver -> Value]
  <2>1. First_Trans' = [d \in Driver |->
                          IF d \in own \cap Direct THEN Direct_Value[d]
                          ELSE IF d \in taking THEN Waveform[d][1].Val
                          ELSE First_Trans[d]]
    BY DEF Update_A_Signal
  <2>. HIDE DEF own, taking
  <2>. QED
    BY <1>1, <2>1 DEF TypeOK
<1>3. /\ Waveform' \in [Driver -> Seq(Transaction)]
      /\ \A d \in Driver : Ascending(Waveform'[d])
  <2>1. Waveform' = [d \in Driver |-> IF d \in taking THEN Tail(Waveform[d])
                                      ELSE Waveform[d]]
    BY DEF Update_A_Signal
  <2>. HIDE DEF taking
  <2>2. \A d \in taking : Tail(Waveform[d]) \in Seq(Transaction) /\ Ascending(Tail(Waveform[d]))
    BY <1>0, <1>1, TailProperty
  <2>. QED
    BY <1>0, <2>1, <2>2
<1>4. WaveformAscending'
  BY <1>3 DEF WaveformAscending, Ascending
<1>5. driving \in Value
  <2>1. CASE kept
    BY <2>1 DEF TypeOK
  <2>2. CASE ~kept /\ Net(s) = "One_Resolved"
    <3>1. {First_Trans'[d] : d \in Drivers_Of(s)} \in SUBSET Value
      BY <1>2 DEF Drivers_Of
    <3>2. Compute_Resolved_Signal(s, First_Trans') \in Value
      BY <3>1, DriverAssumption DEF Compute_Resolved_Signal
    <3>. QED
      BY <2>2, <3>2
  <2>3. CASE ~kept /\ Net(s) # "One_Resolved"
    <3>1. own # {}
      BY <2>3 DEF Net
    <3>2. (CHOOSE d \in own : TRUE) \in Driver
      BY <3>1 DEF Drivers_Of
    <3>. QED
      BY <1>2, <2>3, <3>2
  <2>. QED
    BY <2>1, <2>2, <2>3
<1>6. /\ Driving_Value' = [Driving_Value EXCEPT ![s] = driving]
      /\ Value_Ptr' = IF Is_Eff_Forced(s) THEN Value_Ptr
                      ELSE [Value_Ptr EXCEPT ![s] = driving]
  BY DEF Update_A_Signal
<1>. HIDE DEF driving
<1>. QED
  BY <1>2, <1>3, <1>4, <1>5, <1>6 DEF TypeOK

LEMMA TypeUpdate == ASSUME TypeOK, NEW s \in Signal, Update_A_Signal(s) PROVE TypeOK'
<1>1. /\ UNCHANGED <<timeVars, phase, Direct_Value, assigning, Future_List,
                     forcedVars, overrideVars>>
      /\ Signal_Active_Chain' = Signal_Active_Chain \ {s}
      /\ Is_Direct_Active' = Is_Direct_Active \ {s}
  BY DEF Update_A_Signal
<1>. QED
  BY <1>1, UpdateType DEF TypeOK, timeVars, forcedVars, overrideVars

(* Steps that computation of the next time is not part of.                   *)
LEMMA TypeQuiet ==
  ASSUME TypeOK,
         \/ Elab_Postponed \/ No_Postponed \/ Run_Postponed
         \/ Start_Cycle \/ Update_Signals \/ End_Override \/ End_Update
         \/ \E f \in Overrides : Append_Force_Value(f)
  PROVE  TypeOK'
<1>. USE DEF timeVars, driverVars, chainVars, valueVars, forcedVars, overrideVars
<1>0. UNCHANGED driverVars => WaveformAscending'
  BY DEF TypeOK, WaveformAscending
<1>1. CASE Elab_Postponed
  BY <1>0, <1>1 DEF Elab_Postponed, TypeOK, Phase
<1>2. CASE No_Postponed
  BY <1>0, <1>2 DEF No_Postponed, TypeOK, Phase
<1>3. CASE Run_Postponed
  BY <1>0, <1>3 DEF Run_Postponed, TypeOK, Phase
<1>4. CASE Start_Cycle
  <2>1. 0 \in Time
    BY BoundAssumption DEF Time
  <2>. QED
    BY <1>0, <1>4, <2>1 DEF Start_Cycle, TypeOK, Phase
<1>5. CASE Update_Signals
  BY <1>0, <1>5 DEF Update_Signals, TypeOK, Phase
<1>6. CASE End_Override
  BY <1>0, <1>6 DEF End_Override, TypeOK, Phase
<1>7. CASE End_Update
  BY <1>0, <1>7 DEF End_Update, TypeOK, Phase
<1>8. ASSUME NEW f \in Overrides, Append_Force_Value(f) PROVE TypeOK'
  <2>1. /\ Release_Chain' \in Seq(Overrides) /\ Force_Chain' \in Seq(Overrides)
        /\ Deposite_Chain' \in Seq(Overrides)
    BY <1>8 DEF Append_Force_Value, TypeOK
  <2>. QED
    BY <1>0, <1>8, <2>1 DEF Append_Force_Value, TypeOK
<1>. QED
  BY <1>1, <1>2, <1>3, <1>4, <1>5, <1>6, <1>7, <1>8

(* The six places where the next time is computed: from the active chain as  *)
(* it is, or from an empty one after the callbacks of the last known delta.  *)
Next_Time_Step(tn, chain, delta, later) ==
  /\ Compute(tn, chain, delta, later)
  /\ UNCHANGED Current_Time
  /\ \/ /\ chain = Signal_Active_Chain
        /\ phase \in {"elab_postponed", "run", "postponed", "end_step"}
     \/ chain = {} /\ phase \in {"elab_last_known", "last_known"}
  /\ delta \in {{"cycle"}, {"cycle", "finished"}, {"error"}}
  /\ delta = {"error"} => phase = "postponed"
  /\ later \in {{"cycle"}, {"elab_last_known"}, {"last_known"}, {"postponed_test"},
               {"end_step"}}
  /\ later = {"elab_last_known"} => phase = "elab_postponed"
  /\ later \in {{"last_known"}, {"postponed_test"}} => phase \in {"run", "last_known"}
  /\ later = {"end_step"} => phase = "postponed" /\ "end_step" \in Callbacks
  /\ IF phase \in {"run", "last_known"}
     THEN UNCHANGED Next_Time /\ later \in {{"last_known"}, {"postponed_test"}}
     ELSE IF phase = "postponed" /\ phase' # "cycle" THEN UNCHANGED Next_Time
     ELSE Next_Time' = Tn'

LEMMA CycleStep ==
  ASSUME NEW tn, Cycle_Step(tn)
  PROVE  \E chain, delta, later : Next_Time_Step(tn, chain, delta, later)
<1>. DEFINE Later(p, q, c) == {IF c \in Callbacks THEN p ELSE q}
<1>1. CASE Elab_Next_Time(tn)
  <2>1. Next_Time_Step(tn, Signal_Active_Chain, {"cycle"},
                       Later("elab_last_known", "cycle", "last_known"))
    BY <1>1 DEF Elab_Next_Time, Next_Time_Step
  <2>. QED
    BY <2>1
<1>2. CASE Elab_Last_Known(tn)
  <2>1. Next_Time_Step(tn, {}, {"cycle"}, {"cycle"})
    BY <1>2 DEF Elab_Last_Known, Next_Time_Step
  <2>. QED
    BY <2>1
<1>3. CASE End_Run(tn)
  <2>1. Next_Time_Step(tn, Signal_Active_Chain, Delta,
                       Later("last_known", "postponed_test", "last_known"))
    BY <1>3 DEF End_Run, Next_Time_Step, Delta
  <2>. QED
    BY <2>1
<1>4. CASE End_Last_Known(tn)
  <2>1. Next_Time_Step(tn, {}, Delta, {"postponed_test"})
    BY <1>4 DEF End_Last_Known, Next_Time_Step, Delta
  <2>. QED
    BY <2>1
<1>5. CASE End_Postponed(tn)
  <2>1. Next_Time_Step(tn, Signal_Active_Chain, {"error"},
                       Later("end_step", "cycle", "end_step"))
    BY <1>5 DEF End_Postponed, Next_Time_Step
  <2>. QED
    BY <2>1
<1>6. CASE End_Of_Time_Step(tn)
  <2>1. Next_Time_Step(tn, Signal_Active_Chain, {"cycle"}, {"cycle"})
    BY <1>6 DEF End_Of_Time_Step, Next_Time_Step
  <2>. QED
    BY <2>1
<1>. QED
  BY <1>1, <1>2, <1>3, <1>4, <1>5, <1>6 DEF Cycle_Step

LEMMA TypeCycle ==
  ASSUME TypeOK, NEW tn \in Current_Time .. Last_Time, Cycle_Step(tn)
  PROVE  TypeOK'
<1>1. PICK chain, delta, later : Next_Time_Step(tn, chain, delta, later)
  BY CycleStep
<1>2. chain \in SUBSET Signal /\ delta \in SUBSET Phase /\ later \in SUBSET Phase
  BY <1>1 DEF Next_Time_Step, TypeOK, Phase
<1>3. Compute(tn, chain, delta, later) /\ Current_Time' \in Time
  BY <1>1 DEF Next_Time_Step, TypeOK
<1>4. Next_Time' \in Time
  <2>1. Tn' \in Time
    BY <1>2, <1>3, NextTimeType DEF Compute
  <2>. QED
    BY <1>1, <2>1 DEF Next_Time_Step, TypeOK
<1>. QED
  BY <1>2, <1>3, <1>4, TypeCompute

(* Deposits are made last.                                                   *)
LEMMA DepositsStep == TypeInv /\ [Next]_vars => DepositsLast'
<1>. SUFFICES ASSUME TypeOK, DepositsLast, [Next]_vars PROVE DepositsLast'
  BY DEF TypeInv
<1>. USE DEF DepositsLast
<1>1. CASE UNCHANGED vars
  BY <1>1 DEF vars, forcedVars, overrideVars
<1>2. CASE \E d \in Driver : Assignment(d)
  <2>1. PICK d \in Driver : Assignment(d)
    BY <1>2
  <2>2. May_Assign(d) /\ UNCHANGED <<forcedVars, overrideVars>>
    BY <2>1 DEF Assignment, Start_Assign, Start_Assign_Direct, Next_Assign, Direct_Assign
  <2>3. Deposited = {}
    BY <2>2 DEF May_Assign
  <2>. QED
    BY <2>2, <2>3 DEF forcedVars
<1>3. CASE \E f \in Overrides : Append_Force_Value(f)
  BY <1>3 DEF Append_Force_Value, forcedVars
<1>4. CASE \E tn \in Current_Time .. Last_Time : Cycle_Step(tn)
  <2>1. PICK tn, chain, delta, later : Next_Time_Step(tn, chain, delta, later)
    BY <1>4, CycleStep
  <2>. QED
    BY <2>1 DEF Next_Time_Step, Compute, forcedVars
<1>5. CASE Elab_Postponed \/ No_Postponed \/ Run_Postponed
  BY <1>5 DEF Elab_Postponed, No_Postponed, Run_Postponed, forcedVars
<1>6. CASE Update_Step
  BY <1>6 DEF Update_Step, Start_Cycle, Update_Signals, Apply_Release, Apply_Force, Apply_Deposite,
              End_Override, Update_A_Signal, End_Update, forcedVars, overrideVars
<1>. QED
  BY <1>1, <1>2, <1>3, <1>4, <1>5, <1>6 DEF Next

LEMMA TypeStep == TypeInv /\ [Next]_vars => TypeInv'
<1>. SUFFICES ASSUME TypeInv, [Next]_vars PROVE TypeOK'
  BY DepositsStep DEF TypeInv
<1>0. TypeOK
  BY DEF TypeInv
<1>1. CASE UNCHANGED vars
  BY <1>0, <1>1 DEF vars, timeVars, driverVars, chainVars, valueVars, forcedVars,
                    overrideVars, TypeOK, WaveformAscending
<1>2. CASE Next
  BY <1>0, <1>2, TypeAssignment, TypeCycle, TypeQuiet, TypeRelease, TypeForce,
     TypeDeposite, TypeUpdate DEF Next, Update_Step
<1>. QED
  BY <1>1, <1>2

LEMMA TypeInvariant == Spec => []TypeInv
  BY TypeInit, TypeStep, PTL DEF Spec

(* Every variable keeps its type, and the transactions of a driver stay in   *)
(* strictly ascending order of time: the search loops of                     *)
(* Ghdl_Signal_Start_Assign may stop at the first one that is late enough.   *)
THEOREM DriversTypeCorrect == Spec => []TypeOK
<1>1. TypeInv => TypeOK
  BY DEF TypeInv
<1>. QED
  BY <1>1, TypeInvariant, PTL

-----------------------------------------------------------------------------
(* Force, deposit and release.                                               *)

(* A value is saved for what is forced and not deposited, and only one.      *)
SavedExact ==
  /\ \A s \in Signal, m \in Force_Mode :
       (\E v \in Saved_Forced : v.Sig = s /\ v.Mode = m)
         <=> <<s, m>> \in Forced \ Deposited
  /\ \A v, w \in Saved_Forced : v.Sig = w.Sig /\ v.Mode = w.Mode => v = w

LEMMA SavedRelease == TypeInv /\ SavedExact /\ Apply_Release => SavedExact'
<1>. SUFFICES ASSUME TypeOK, DepositsLast, SavedExact, Apply_Release PROVE SavedExact'
  BY DEF TypeInv
<1>. DEFINE f == Head(Release_Chain)
<1>1. Deposited = {} /\ Deposited' = {}
  BY DEF Apply_Release, DepositsLast
<1>2. CASE <<f.Sig, f.Mode>> \in Forced
  <2>1. PICK old \in Saved_Forced :
          /\ old.Sig = f.Sig /\ old.Mode = f.Mode
          /\ Saved_Forced' = Saved_Forced \ {old}
          /\ Forced' = Forced \ {<<f.Sig, f.Mode>>}
    BY <1>2 DEF Apply_Release
  <2>. HIDE DEF f
  <2>2. \A v, w \in Saved_Forced' : v.Sig = w.Sig /\ v.Mode = w.Mode => v = w
    BY <2>1 DEF SavedExact
  <2>3. ASSUME NEW s \in Signal, NEW m \in Force_Mode
        PROVE  (\E v \in Saved_Forced' : v.Sig = s /\ v.Mode = m)
                 <=> <<s, m>> \in Forced' \ Deposited'
    <3>1. CASE s = f.Sig /\ m = f.Mode
      BY <2>1, <3>1 DEF SavedExact
    <3>2. CASE ~(s = f.Sig /\ m = f.Mode)
      BY <1>1, <2>1, <3>2 DEF SavedExact
    <3>. QED
      BY <3>1, <3>2
  <2>. QED
    BY <2>2, <2>3 DEF SavedExact
<1>3. CASE <<f.Sig, f.Mode>> \notin Forced
  <2>1. UNCHANGED <<Saved_Forced, Forced>>
    BY <1>3 DEF Apply_Release
  <2>. QED
    BY <1>1, <2>1 DEF SavedExact
<1>. QED
  BY <1>2, <1>3

LEMMA SavedForce == TypeInv /\ SavedExact /\ Apply_Force => SavedExact'
<1>. SUFFICES ASSUME TypeOK, DepositsLast, SavedExact, Apply_Force PROVE SavedExact'
  BY DEF TypeInv
<1>. DEFINE f == Head(Force_Chain)
            new == [Sig |-> f.Sig, Mode |-> f.Mode, Val |-> Old_Value(f)]
<1>1. Deposited = {} /\ Deposited' = {}
  BY DEF Apply_Force, DepositsLast
<1>2. Forced' = Forced \cup {<<f.Sig, f.Mode>>} /\ Save_Forced_Value(f)
  BY DEF Apply_Force
<1>3. f.Sig \in Signal /\ f.Mode \in Force_Mode
  BY RequestHead, OverrideType DEF Apply_Force, TypeOK
<1>. HIDE DEF f
<1>4. CASE <<f.Sig, f.Mode>> \in Forced
  <2>1. UNCHANGED <<Saved_Forced, Forced>>
    BY <1>2, <1>4 DEF Save_Forced_Value
  <2>. QED
    BY <1>1, <2>1 DEF SavedExact
<1>5. CASE <<f.Sig, f.Mode>> \notin Forced
  <2>1. Saved_Forced' = Saved_Forced \cup {new} /\ new.Sig = f.Sig /\ new.Mode = f.Mode
    BY <1>2, <1>5 DEF Save_Forced_Value
  <2>. HIDE DEF new
  <2>2. \A v \in Saved_Forced : ~(v.Sig = f.Sig /\ v.Mode = f.Mode)
    BY <1>3, <1>5 DEF SavedExact
  <2>3. \A v, w \in Saved_Forced' : v.Sig = w.Sig /\ v.Mode = w.Mode => v = w
    BY <2>1, <2>2 DEF SavedExact
  <2>4. ASSUME NEW s \in Signal, NEW m \in Force_Mode
        PROVE  (\E v \in Saved_Forced' : v.Sig = s /\ v.Mode = m)
                 <=> <<s, m>> \in Forced' \ Deposited'
    BY <1>1, <1>2, <2>1 DEF SavedExact
  <2>. QED
    BY <2>3, <2>4 DEF SavedExact
<1>. QED
  BY <1>4, <1>5

LEMMA SavedDeposite == TypeInv /\ SavedExact /\ Apply_Deposite => SavedExact'
<1>. SUFFICES ASSUME TypeOK, SavedExact, Apply_Deposite PROVE SavedExact'
  BY DEF TypeInv
<1>. DEFINE f == Head(Deposite_Chain)
            sm == <<f.Sig, f.Mode>>
<1>1. Saved_Forced' = Saved_Forced
  BY DEF Apply_Deposite
<1>2. Forced' \ Deposited' = Forced \ Deposited
  <2>1. CASE sm \notin Forced \/ sm \in Deposited
    BY <2>1 DEF Apply_Deposite
  <2>2. CASE ~(sm \notin Forced \/ sm \in Deposited)
    BY <2>2 DEF Apply_Deposite
  <2>. QED
    BY <2>1, <2>2
<1>. QED
  BY <1>1, <1>2 DEF SavedExact

(* Only requests and the end of Update_Signals modify what is forced.        *)
LEMMA ForcedKept ==
  ASSUME TypeInv, [Next]_vars
  PROVE  \/ Apply_Release \/ Apply_Force \/ Apply_Deposite \/ End_Update
         \/ UNCHANGED forcedVars
<1>1. ASSUME NEW d \in Driver, Assignment(d) PROVE UNCHANGED forcedVars
  BY <1>1 DEF Assignment, Start_Assign, Start_Assign_Direct, Next_Assign, Direct_Assign
<1>2. ASSUME NEW tn \in Current_Time .. Last_Time, Cycle_Step(tn)
      PROVE  UNCHANGED forcedVars
  <2>1. PICK chain, delta, later : Next_Time_Step(tn, chain, delta, later)
    BY <1>2, CycleStep
  <2>. QED
    BY <2>1 DEF Next_Time_Step, Compute
<1>. QED
  BY <1>1, <1>2 DEF Next, vars, Append_Force_Value, Elab_Postponed, No_Postponed,
     Run_Postponed, Update_Step, Start_Cycle, Update_Signals, End_Override, Update_A_Signal

LEMMA SavedStep == TypeInv /\ SavedExact /\ [Next]_vars => SavedExact'
<1>. SUFFICES ASSUME TypeInv, SavedExact, [Next]_vars PROVE SavedExact'
  OBVIOUS
<1>1. CASE End_Update
  BY <1>1 DEF End_Update, SavedExact
<1>2. CASE UNCHANGED forcedVars
  BY <1>2 DEF forcedVars, SavedExact
<1>. QED
  BY <1>1, <1>2, SavedRelease, SavedForce, SavedDeposite, ForcedKept

(* The set of the values saved for a signal and a mode, as ForcedIsSaved     *)
(* counts them.                                                              *)
LEMMA SavedCount == TypeOK /\ SavedExact => ForcedIsSaved
<1>. SUFFICES ASSUME TypeOK, SavedExact, NEW s \in Signal, NEW m \in Force_Mode
              PROVE  Cardinality({v \in Saved_Forced : v.Sig = s /\ v.Mode = m}) =
                       IF <<s, m>> \in Forced \ Deposited THEN 1 ELSE 0
  BY DEF ForcedIsSaved
<1>. DEFINE V == {v \in Saved_Forced : v.Sig = s /\ v.Mode = m}
<1>1. CASE <<s, m>> \in Forced \ Deposited
  <2>1. PICK v \in Saved_Forced : v.Sig = s /\ v.Mode = m
    BY <1>1 DEF SavedExact
  <2>2. V = {v}
    BY <2>1 DEF SavedExact
  <2>. QED
    BY <1>1, <2>2, FS_Singleton
<1>2. CASE <<s, m>> \notin Forced \ Deposited
  <2>1. V = {}
    BY <1>2 DEF SavedExact
  <2>. QED
    BY <1>2, <2>1, FS_EmptySet
<1>. QED
  BY <1>1, <1>2

(* Get_Forced_Old_Value always finds one value, the only one saved: whatever *)
(* forces are repeated and deposits made in between.                         *)
THEOREM SavedCorrect == Spec => []ForcedIsSaved
<1>1. Init => SavedExact
  BY DEF Init, SavedExact
<1>2. Spec => [](TypeInv /\ SavedExact)
  BY <1>1, TypeInit, TypeStep, SavedStep, PTL DEF Spec
<1>3. TypeInv /\ SavedExact => ForcedIsSaved
  BY SavedCount DEF TypeInv
<1>. QED
  BY <1>2, <1>3, PTL

(* Which steps modify the values of signals.                                 *)
LEMMA ValuesKept ==
  ASSUME TypeInv, [Next]_vars
  PROVE  \/ phase = "override"
         \/ \E s \in Signal : Update_A_Signal(s)
         \/ UNCHANGED valueVars
<1>1. ASSUME NEW d \in Driver, Assignment(d) PROVE UNCHANGED valueVars
  BY <1>1 DEF Assignment, Start_Assign, Start_Assign_Direct, Next_Assign, Direct_Assign
<1>2. ASSUME NEW tn \in Current_Time .. Last_Time, Cycle_Step(tn)
      PROVE  UNCHANGED valueVars
  <2>1. PICK chain, delta, later : Next_Time_Step(tn, chain, delta, later)
    BY <1>2, CycleStep
  <2>. QED
    BY <2>1 DEF Next_Time_Step, Compute
<1>. QED
  BY <1>1, <1>2 DEF Next, vars, Append_Force_Value, Elab_Postponed, No_Postponed,
     Run_Postponed, Update_Step, Start_Cycle, Update_Signals, Apply_Release,
     Apply_Force, Apply_Deposite, End_Override, End_Update

(* While a signal is forced, in either mode, no driver changes its value.    *)
THEOREM ForceHoldsAlways == Spec => ForceHolds
<1>. DEFINE Holds ==
       \A s \in Signal :
         /\ <<s, "effective">> \in Forced /\ Value_Ptr'[s] # Value_Ptr[s]
              => phase = "override"
         /\ <<s, "driving">> \in Forced /\ Driving_Value'[s] # Driving_Value[s]
              => phase = "override"
<1>1. ASSUME TypeInv, [Next]_vars PROVE [Holds]_vars
  <2>1. CASE phase = "override"
    BY <2>1
  <2>2. ASSUME NEW u \in Signal, Update_A_Signal(u) PROVE Holds
    <3>1. /\ \E val : Driving_Value' = [Driving_Value EXCEPT ![u] = val]
                        /\ (Is_Drv_Forced(u) => val = Driving_Value[u])
          /\ \/ Is_Eff_Forced(u) /\ Value_Ptr' = Value_Ptr
             \/ ~Is_Eff_Forced(u) /\ \E val : Value_Ptr' = [Value_Ptr EXCEPT ![u] = val]
      BY <2>2 DEF Update_A_Signal
    <3>2. Driving_Value \in [Signal -> Value] /\ Value_Ptr \in [Signal -> Value]
      BY <1>1 DEF TypeInv, TypeOK
    <3>. QED
      BY <3>1, <3>2 DEF Is_Drv_Forced, Is_Eff_Forced
  <2>3. CASE UNCHANGED valueVars
    BY <2>3 DEF valueVars
  <2>. QED
    BY <1>1, <2>1, <2>2, <2>3, ValuesKept
<1>2. [][Holds]_vars <=> ForceHolds
  BY DEF ForceHolds
<1>. HIDE DEF Holds
<1>. QED
  BY <1>1, <1>2, TypeInvariant, PTL DEF Spec

-----------------------------------------------------------------------------
(* The chain of active signals, the next time, and when transactions are     *)
(* taken.                                                                    *)

(* The cycle between the computation of a later time and the time step.      *)
Later_Phases == {"elab_last_known", "last_known", "postponed_test", "end_step"}

Stopped == {"finished", "error", "internal_error"}

(* Direct drivers have no list of transactions.                              *)
DirectIdle ==
  /\ assigning \notin Direct
  /\ \A d \in Direct : Waveform[d] = << >>

(* No normal driver can remove the signal from the active chain.             *)
Only_Direct(s) == Drivers_Of(s) \subseteq Direct

(* The times of the cycle, and the signals of a later time, that take a      *)
(* transaction of a normal driver; Internal_Error ("find_next_time(2)") is   *)
(* not raised.                                                               *)
TimesInv ==
  /\ phase # "internal_error"
  /\ phase = "end_step" => "end_step" \in Callbacks
  /\ phase \notin {"cycle", "elab_last_known"} => Next_Time = Current_Time
  /\ phase = "cycle" => Next_Time >= Current_Time
  /\ phase \in Later_Phases =>
       /\ Tn > Current_Time
       /\ Is_Direct_Active = {}
       /\ \A d \in Driver : \A i \in 1 .. Len(Waveform[d]) : Waveform[d][i].Time >= Tn
       /\ \A s \in Signal_Active_Chain : Pending(s)

(* No active signal is missing from the chain.                               *)
ChainComplete ==
  /\ Is_Direct_Active \subseteq Signal_Active_Chain
  /\ phase \notin Stopped =>
       \A s \in Signal : Active_At(s, Active_Time) => s \in Signal_Active_Chain

(* A signal of the chain is active, or has a direct driver that was assigned *)
(* in place, or was forced, deposited or released in this cycle; the         *)
(* callbacks of the end of a time step excepted.                             *)
ChainSound ==
  phase \notin Stopped /\ "end_step" \notin Callbacks =>
    \A s \in Signal_Active_Chain :
      \/ Active_At(s, Active_Time)
      \/ Started_At(s, Active_Time)
      \/ s \in Overridable /\ phase \in {"override", "update"}

(* The inductive invariant.                                                  *)
ChainInv == DirectIdle /\ NoOverdueTransaction /\ TimesInv /\ ChainComplete /\ ChainSound

LEMMA ChainInit == Init => ChainInv
<1>. SUFFICES ASSUME Init PROVE ChainInv
  OBVIOUS
<1>1. \A d \in Driver : Waveform[d] = << >>
  BY DEF Init
<1>2. phase = "elab" /\ Next_Time = Current_Time
      /\ Signal_Active_Chain = {} /\ Is_Direct_Active = {} /\ assigning \notin Direct
  BY DriverAssumption DEF Init
<1>3. \A s \in Signal : \A t : ~Active_At(s, t)
  BY <1>1, <1>2 DEF Active_At, Drivers_Of
<1>4. DirectIdle /\ NoOverdueTransaction
  BY <1>1, <1>2, DriverAssumption DEF DirectIdle, NoOverdueTransaction
<1>. QED
  BY <1>2, <1>3, <1>4 DEF ChainInv, TimesInv, ChainComplete, ChainSound, Later_Phases

(* The first transaction of a driver is the earliest.                        *)
LEMMA FirstTransaction ==
  ASSUME TypeOK, NEW d \in Driver, NEW i \in 1 .. Len(Waveform[d])
  PROVE  /\ Waveform[d] # << >>
         /\ Waveform[d][1] \in Transaction /\ Waveform[d][i] \in Transaction
         /\ Waveform[d][1].Time \in Nat /\ Waveform[d][i].Time \in Nat
         /\ Waveform[d][1].Time <= Waveform[d][i].Time
<1>1. Waveform[d] \in Seq(Transaction) /\ Ascending(Waveform[d])
  BY DEF TypeOK, WaveformAscending, Ascending
<1>2. /\ Len(Waveform[d]) \in Nat /\ 1 \in 1 .. Len(Waveform[d]) /\ Waveform[d] # << >>
      /\ \A j \in 1 .. Len(Waveform[d]) :
           Waveform[d][j] \in Transaction /\ Waveform[d][j].Time \in Nat
  BY <1>1, TransactionTime
<1>3. CASE i = 1
  BY <1>2, <1>3
<1>4. CASE 1 < i
  BY <1>1, <1>2, <1>4 DEF Ascending
<1>. QED
  BY <1>2, <1>3, <1>4

(* Simulation time and the times of the cycle are naturals.                  *)
LEMMA TimesAreNat ==
  TypeOK => /\ Time \subseteq Nat /\ Last_Time \in Nat
            /\ Current_Time \in Nat /\ Next_Time \in Nat /\ Tn \in Nat
  BY BoundAssumption DEF TypeOK, Time

(* Compute_Next_Time, when no signal is active but those of the chain: the   *)
(* current time with the same chain, or a later time, that no transaction    *)
(* precedes, with exactly the signals that will be active at that time.      *)
LEMMA NextTimeExact ==
  ASSUME TypeOK, NoOverdueTransaction, DirectIdle,
         NEW tn \in Current_Time .. Last_Time, NEW chain \in SUBSET Signal,
         \A s \in Signal : Active_At(s, Current_Time) => s \in chain
  PROVE  LET next == Compute_Next_Time(tn, chain)
         IN  \/ /\ next.time = Current_Time /\ next.chain = chain
                /\ tn = Current_Time \/ chain # {} \/ Override_Present
             \/ /\ next.time > Current_Time
                /\ chain = {} /\ Is_Direct_Active = {}
                /\ \A d \in Driver : \A i \in 1 .. Len(Waveform[d]) :
                     Waveform[d][i].Time >= next.time
                /\ \A s \in Signal : s \in next.chain <=> Active_At(s, next.time)
<1>. DEFINE times == {t \in Time : t <= tn /\ Projected_At(t) # {}} \cup {tn}
            Least(t) == \A u \in times : t <= u
            res == CHOOSE t \in times : Least(t)
<1>0. /\ Time \subseteq Nat /\ Current_Time \in Nat /\ tn \in Nat /\ tn >= Current_Time
      /\ Future_List \subseteq Signal /\ Is_Direct_Active \subseteq Signal
  BY TimesAreNat DEF TypeOK
<1>1. CASE tn = Current_Time \/ chain # {} \/ Override_Present
  BY <1>1 DEF Compute_Next_Time, Find_Next_Time
<1>2. CASE ~(tn = Current_Time \/ chain # {} \/ Override_Present)
  <2>1. \A s \in Signal : ~Active_At(s, Current_Time)
    BY <1>2
  <2>2. Is_Direct_Active = {}
    BY <1>0, <2>1 DEF Active_At
  <2>3. ASSUME NEW d \in Driver, NEW i \in 1 .. Len(Waveform[d])
        PROVE  /\ d \in Drivers_Of(Signal_Of[d]) \ Direct /\ Signal_Of[d] \in Signal
               /\ Waveform[d][i].Time > Current_Time
    <3>1. /\ d \notin Direct
      BY FirstTransaction DEF DirectIdle
    <3>2. d \in Drivers_Of(Signal_Of[d]) /\ Signal_Of[d] \in Signal
      BY DriverAssumption DEF Drivers_Of
    <3>3. 1 \in 1 .. Len(Waveform[d])
      BY FirstTransaction
    <3>4. Waveform[d][1].Time >= Current_Time
      BY <3>3 DEF NoOverdueTransaction
    <3>5. Waveform[d][1].Time # Current_Time
      BY <2>1, <3>1, <3>2, FirstTransaction DEF Active_At
    <3>. QED
      BY <1>0, <3>1, <3>2, <3>4, <3>5, FirstTransaction
  <2>4. ASSUME NEW d \in Driver, Waveform[d] # << >>
        PROVE  /\ 1 \in 1 .. Len(Waveform[d])
               /\ Waveform[d][1].Time \in Time
               /\ Signal_Of[d] \in Projected_At(Waveform[d][1].Time)
    <3>1. 1 \in 1 .. Len(Waveform[d])
      BY <2>4, TransactionTime, EmptySeq DEF TypeOK
    <3>2. Waveform[d][1].Time \in Time
      BY <3>1, FirstTransaction, TransactionTime
    <3>3. Signal_Of[d] \in Future_List
      BY <2>3, <3>1 DEF NoOverdueTransaction
    <3>. QED
      BY <2>3, <2>4, <3>1, <3>2, <3>3 DEF Projected_At
  <2>5. res \in times /\ Least(res)
    <3>1. times \in SUBSET Nat /\ times # {}
      BY <1>0
    <3>2. \E t \in times : Least(t)
      <4>. HIDE DEF times
      <4>. QED
        BY <3>1, NatLeast
    <3>. HIDE DEF times, Least
    <3>. QED
      BY <3>2
  <2>6. Compute_Next_Time(tn, chain) = [time |-> res, chain |-> Projected_At(res)]
    BY <1>2 DEF Compute_Next_Time, Find_Next_Time
  <2>. HIDE DEF res
  <2>7. res \in Nat /\ res > Current_Time
    <3>1. CASE res = tn
      BY <1>0, <1>2, <3>1
    <3>2. CASE res # tn
      <4>1. res \in Time /\ Projected_At(res) # {}
        BY <2>5, <3>2
      <4>2. PICK d \in Driver : Waveform[d] # << >> /\ Waveform[d][1].Time = res
        BY <4>1 DEF Projected_At, Drivers_Of
      <4>. QED
        BY <1>0, <2>3, <2>4, <4>1, <4>2
    <3>. QED
      BY <3>1, <3>2
  <2>8. ASSUME NEW d \in Driver, NEW i \in 1 .. Len(Waveform[d])
        PROVE  Waveform[d][i].Time >= res
    <3>1. Waveform[d][1].Time \in times \/ Waveform[d][1].Time > tn
      BY <1>0, <2>4, FirstTransaction
    <3>2. Waveform[d][1].Time >= res
      BY <1>0, <2>5, <2>7, <3>1, FirstTransaction
    <3>. QED
      BY <2>7, <3>2, FirstTransaction
  <2>9. ASSUME NEW s \in Signal PROVE s \in Projected_At(res) <=> Active_At(s, res)
    <3>1. ASSUME Active_At(s, res) PROVE s \in Projected_At(res)
      <4>1. PICK d \in Drivers_Of(s) \ Direct : Waveform[d] # << >> /\ Waveform[d][1].Time = res
        BY <2>2, <3>1 DEF Active_At
      <4>. QED
        BY <2>4, <4>1 DEF Drivers_Of
    <3>. QED
      BY <3>1 DEF Active_At, Projected_At
  <2>. QED
    BY <1>2, <2>2, <2>6, <2>7, <2>8, <2>9
<1>. QED
  BY <1>1, <1>2

(* Every computation of the next time keeps the invariant.                   *)
LEMMA ChainCycle ==
  ASSUME TypeOK, ChainInv, NEW tn \in Current_Time .. Last_Time, Cycle_Step(tn)
  PROVE  ChainInv'
<1>1. PICK chain, delta, later : Next_Time_Step(tn, chain, delta, later)
  BY CycleStep
<1>. DEFINE next == Compute_Next_Time(tn, chain)
<1>2. /\ Current_Time \in Nat /\ Next_Time \in Nat /\ Tn \in Nat
      /\ chain \in SUBSET Signal
  BY <1>1, TimesAreNat DEF Next_Time_Step, TypeOK
<1>3. \A s \in Signal : Active_At(s, Current_Time) => s \in chain
  <2>1. CASE phase \in {"elab_postponed", "run", "postponed"}
    <3>1. Active_Time = Current_Time /\ phase \notin Stopped /\ chain = Signal_Active_Chain
      BY <1>1, <2>1 DEF Active_Time, Stopped, Next_Time_Step
    <3>. QED
      BY <3>1 DEF ChainInv, ChainComplete
  <2>2. CASE phase \in Later_Phases
    <3>1. /\ Tn > Current_Time /\ Is_Direct_Active = {}
          /\ \A d \in Driver : \A i \in 1 .. Len(Waveform[d]) : Waveform[d][i].Time >= Tn
      BY <2>2 DEF ChainInv, TimesInv
    <3>2. ASSUME NEW s \in Signal, Active_At(s, Current_Time) PROVE FALSE
      <4>1. PICK d \in Driver : Waveform[d] # << >> /\ Waveform[d][1].Time = Current_Time
        BY <3>1, <3>2 DEF Active_At, Drivers_Of
      <4>2. 1 \in 1 .. Len(Waveform[d])
        BY <4>1, TransactionTime, EmptySeq DEF TypeOK
      <4>. QED
        BY <1>2, <3>1, <4>1, <4>2
    <3>. QED
      BY <3>2
  <2>. QED
    BY <1>1, <2>1, <2>2 DEF Next_Time_Step, Later_Phases
<1>4. /\ Tn' = next.time /\ Signal_Active_Chain' = next.chain
      /\ phase' \in IF next.time > Current_Time THEN later
                    ELSE IF tn # Current_Time /\ chain = {} /\ ~Override_Present
                    THEN {"internal_error"} ELSE delta
      /\ assigning' = No_Driver
      /\ UNCHANGED <<driverVars, Future_List, Is_Direct_Active, Current_Time>>
  BY <1>1 DEF Next_Time_Step, Compute
<1>5. /\ UNCHANGED <<Waveform, Future_List, Is_Direct_Active, Current_Time>>
      /\ assigning' \notin Direct
  BY <1>4, DriverAssumption DEF driverVars
<1>6. phase \in {"elab_postponed", "run", "postponed", "end_step", "elab_last_known",
                 "last_known"}
  BY <1>1 DEF Next_Time_Step
<1>7. /\ NoOverdueTransaction /\ DirectIdle /\ TimesInv /\ ChainSound
  BY DEF ChainInv
<1>8. DirectIdle'
  BY <1>5, <1>7 DEF DirectIdle
<1>. HIDE DEF next
<1>9. CASE /\ next.time = Current_Time /\ next.chain = chain
           /\ tn = Current_Time \/ chain # {} \/ Override_Present
  <2>1. phase' \in {"cycle", "finished", "error"} /\ Tn' = Current_Time
    BY <1>1, <1>2, <1>4, <1>9 DEF Next_Time_Step
  <2>2. Next_Time' = Current_Time
    <3>1. Next_Time' = Next_Time => Next_Time = Current_Time \/ Next_Time' = Tn'
      BY <1>1, <1>7 DEF Next_Time_Step, TimesInv
    <3>. QED
      BY <1>1, <2>1, <3>1 DEF Next_Time_Step
  <2>3. NoOverdueTransaction'
    BY <1>2, <1>5, <1>7, <2>1, <2>2 DEF NoOverdueTransaction
  <2>4. TimesInv'
    BY <1>2, <1>5, <2>1, <2>2 DEF TimesInv, Later_Phases
  <2>5. phase' \notin Stopped => phase' = "cycle" /\ Active_Time' = Current_Time
    BY <2>1, <2>2 DEF Active_Time, Stopped
  <2>6. ChainComplete'
    <3>1. Is_Direct_Active' \subseteq Signal_Active_Chain'
      BY <1>3, <1>4, <1>5, <1>9 DEF Active_At, TypeOK
    <3>2. ASSUME phase' \notin Stopped, NEW s \in Signal, Active_At(s, Active_Time)'
          PROVE  s \in Signal_Active_Chain'
      BY <1>3, <1>4, <1>5, <1>9, <2>5, <3>2 DEF Active_At
    <3>. QED
      BY <3>1, <3>2 DEF ChainComplete
  <2>7. ChainSound'
    <3>. SUFFICES ASSUME phase' \notin Stopped, "end_step" \notin Callbacks,
                         NEW s \in Signal_Active_Chain'
                  PROVE  Active_At(s, Active_Time)' \/ Started_At(s, Active_Time)'
      BY DEF ChainSound
    <3>1. s \in chain /\ chain = Signal_Active_Chain
          /\ phase \in {"elab_postponed", "run", "postponed"}
      BY <1>1, <1>4, <1>7, <1>9 DEF Next_Time_Step, TimesInv
    <3>2. Active_Time = Current_Time /\ phase \notin Stopped
          /\ phase \notin {"override", "update"}
      BY <3>1 DEF Active_Time, Stopped
    <3>3. Active_At(s, Current_Time) \/ Started_At(s, Current_Time)
      BY <1>7, <3>1, <3>2 DEF ChainSound
    <3>. QED
      BY <1>5, <2>5, <3>3 DEF Active_At, Started_At
  <2>. QED
    BY <1>8, <2>3, <2>4, <2>6, <2>7 DEF ChainInv
<1>10. CASE /\ next.time > Current_Time
            /\ chain = {} /\ Is_Direct_Active = {}
            /\ \A d \in Driver : \A i \in 1 .. Len(Waveform[d]) :
                 Waveform[d][i].Time >= next.time
            /\ \A s \in Signal : s \in next.chain <=> Active_At(s, next.time)
  <2>1. phase' \in later /\ Tn' = next.time
    BY <1>4, <1>10
  <2>2. phase' \in Later_Phases \/ (phase' = "cycle" /\ Next_Time' = Tn')
    <3>1. phase' \in Later_Phases \/ phase' = "cycle"
      BY <1>1, <2>1 DEF Next_Time_Step, Later_Phases
    <3>2. phase' = "cycle" => Next_Time' = Tn'
      <4>. SUFFICES ASSUME phase' = "cycle" PROVE Next_Time' = Tn'
        OBVIOUS
      <4>1. "cycle" \in later
        BY <2>1
      <4>2. later \notin {{"last_known"}, {"postponed_test"}}
        BY <4>1
      <4>. QED
        BY <1>1, <4>2 DEF Next_Time_Step
    <3>. QED
      BY <3>1, <3>2
  <2>3. phase' \in Later_Phases \ {"elab_last_known"} => Next_Time' = Current_Time
    BY <1>1, <1>7, <2>1 DEF Next_Time_Step, Later_Phases, TimesInv
  <2>4. Active_Time' = Tn'
    BY <2>2 DEF Active_Time, Later_Phases
  <2>5. NoOverdueTransaction'
    BY <1>2, <1>5, <1>7, <1>10, <2>1, <2>2 DEF NoOverdueTransaction, Later_Phases
  <2>8. Signal_Active_Chain' \subseteq Signal
    BY <1>2, <1>4, NextTimeType DEF next
  <2>6. TimesInv'
    <3>1. phase' = "end_step" => "end_step" \in Callbacks
      BY <1>1, <2>1 DEF Next_Time_Step
    <3>2. Tn' > Current_Time'
      BY <1>5, <1>10, <2>1
    <3>3. phase' = "cycle" => Next_Time' >= Current_Time'
      <4>1. Tn' \in Nat
        BY <1>2, <2>1, NextTimeType, TimesAreNat DEF next
      <4>. QED
        BY <1>2, <1>5, <2>2, <3>2, <4>1 DEF Later_Phases
    <3>4. phase' # "internal_error"
      BY <2>2 DEF Later_Phases
    <3>5. phase' \notin {"cycle", "elab_last_known"} => Next_Time' = Current_Time'
      BY <1>5, <2>2, <2>3
    <3>6. \A d \in Driver : \A i \in 1 .. Len(Waveform'[d]) : Waveform'[d][i].Time >= Tn'
      BY <1>5, <1>10, <2>1
    <3>7. Is_Direct_Active' = {}
      BY <1>5, <1>10
    <3>8. \A s \in Signal_Active_Chain' : Pending(s)'
      BY <1>4, <1>5, <1>10, <2>8 DEF Active_At, Pending
    <3>. QED
      BY <3>1, <3>2, <3>3, <3>4, <3>5, <3>6, <3>7, <3>8 DEF TimesInv
  <2>7. \A s \in Signal : s \in Signal_Active_Chain' <=> Active_At(s, Active_Time)'
    BY <1>4, <1>5, <1>10, <2>1, <2>4 DEF Active_At
  <2>9. ChainComplete' /\ ChainSound'
    BY <1>5, <1>10, <2>7, <2>8 DEF ChainComplete, ChainSound
  <2>. QED
    BY <1>8, <2>5, <2>6, <2>9 DEF ChainInv
<1>. QED
  BY <1>2, <1>3, <1>7, <1>9, <1>10, NextTimeExact DEF next

-----------------------------------------------------------------------------
(* Signals whose drivers and flag are left alone are as active as before.    *)
LEMMA OthersActive ==
  ASSUME NEW s \in Signal, NEW u \in Signal, u # s,
         \A d \in Driver : Signal_Of[d] # s => Waveform'[d] = Waveform[d],
         u \in Is_Direct_Active' <=> u \in Is_Direct_Active,
         NEW CONSTANT t
  PROVE  Active_At(u, t)' <=> Active_At(u, t)
  BY DEF Active_At, Drivers_Of

(* The processes that assign run in phases that have no next time yet.       *)
LEMMA AssignPhase ==
  ASSUME NEW d \in Driver, May_Assign(d)
  PROVE  /\ phase \in {"elab", "run", "elab_postponed", "postponed"}
         /\ Active_Time = Current_Time
  BY DEF May_Assign, Active_Time

(* What an assignment that projects the waveform W of driver d has to do for *)
(* the invariant: no transaction in the past, the signal where               *)
(* Find_Next_Time looks, and in the chain exactly if it is active.           *)
LEMMA ChainAssign ==
  ASSUME TypeOK, ChainInv, NEW d \in Driver, d \notin Direct, NEW W,
         May_Assign(d), assigning' \notin Direct,
         UNCHANGED <<Current_Time, Next_Time, Is_Direct_Active>>,
         phase' \in {phase, "error"},
         Waveform' = [Waveform EXCEPT ![d] = W],
         Future_List \subseteq Future_List',
         \A i \in 1 .. Len(W) :
           /\ W[i].Time >= Current_Time
           /\ W[i].Time > Current_Time => Signal_Of[d] \in Future_List',
         Signal_Active_Chain \ {Signal_Of[d]} = Signal_Active_Chain' \ {Signal_Of[d]},
         Signal_Of[d] \in Is_Direct_Active => Signal_Of[d] \in Signal_Active_Chain',
         phase' # "error" =>
           (Active_At(Signal_Of[d], Current_Time)' => Signal_Of[d] \in Signal_Active_Chain'),
         phase' # "error" /\ "end_step" \notin Callbacks =>
           (Signal_Of[d] \in Signal_Active_Chain' =>
              \/ Active_At(Signal_Of[d], Current_Time)'
              \/ Started_At(Signal_Of[d], Current_Time))
  PROVE  ChainInv'
<1>. DEFINE s == Signal_Of[d]
<1>0. /\ DirectIdle /\ NoOverdueTransaction /\ TimesInv /\ ChainComplete /\ ChainSound
      /\ s \in Signal /\ Signal_Active_Chain \subseteq Signal
      /\ phase \in {"elab", "run", "elab_postponed", "postponed"}
      /\ Active_Time = Current_Time /\ Active_Time' = Current_Time
  BY AssignPhase, DriverAssumption DEF ChainInv, TypeOK, Active_Time
<1>1. /\ \A e \in Driver : e # d => Waveform'[e] = Waveform[e]
      /\ Waveform'[d] = W
  BY DEF TypeOK
<1>2. \A u \in Signal : u # s =>
        (Active_At(u, Current_Time)' <=> Active_At(u, Current_Time))
  <2>1. ASSUME NEW u \in Signal, u # s
        PROVE  Active_At(u, Current_Time)' <=> Active_At(u, Current_Time)
    BY <1>1, <2>1 DEF Active_At, Drivers_Of
  <2>. QED
    BY <2>1
<1>3. DirectIdle'
  BY <1>0, <1>1 DEF DirectIdle
<1>4. NoOverdueTransaction'
  BY <1>0, <1>1 DEF NoOverdueTransaction
<1>5. TimesInv'
  BY <1>0 DEF TimesInv, Later_Phases
<1>6. ChainComplete'
  <2>1. Is_Direct_Active' \subseteq Signal_Active_Chain'
    BY <1>0 DEF ChainComplete
  <2>2. ASSUME phase' \notin Stopped, NEW u \in Signal, Active_At(u, Active_Time)'
        PROVE  u \in Signal_Active_Chain'
    <3>1. Active_At(u, Current_Time)'
      BY <1>0, <2>2 DEF Active_At
    <3>2. phase \notin Stopped /\ phase' # "error"
      BY <1>0, <2>2 DEF Stopped
    <3>. QED
      BY <1>0, <1>2, <3>1, <3>2 DEF ChainComplete
  <2>. QED
    BY <2>1, <2>2 DEF ChainComplete
<1>7. ChainSound'
  <2>. SUFFICES ASSUME phase' \notin Stopped, "end_step" \notin Callbacks,
                       NEW u \in Signal_Active_Chain'
                PROVE  Active_At(u, Active_Time)' \/ Started_At(u, Active_Time)'
    BY DEF ChainSound
  <2>1. CASE u = s
    BY <1>0, <2>1 DEF Stopped, Started_At
  <2>2. CASE u # s
    BY <1>0, <1>2, <2>2 DEF ChainSound, Stopped, Started_At
  <2>. QED
    BY <2>1, <2>2
<1>. QED
  BY <1>3, <1>4, <1>5, <1>6, <1>7 DEF ChainInv

(* When the transactions of the waveform R are, once one at time t is        *)
(* projected on W, of which no transaction is before time NOW: the first is  *)
(* at NOW only if it is the new one or if the first of W was.                *)
Projected_Times(W, R, reject, t, now) ==
  /\ Len(R) \in Nat \ {0} /\ R # << >>
  /\ \A i \in 1 .. Len(R) :
       /\ R[i].Time \in Nat /\ R[i].Time >= now
       /\ R[i].Time = t \/ \E j \in 1 .. Len(W) : R[i].Time = W[j].Time
  /\ now < t /\ R[1].Time = now => W # << >> /\ W[1].Time = now
  /\ now = t => R[1].Time = now
  /\ now < t /\ reject <= 0 /\ W # << >> /\ W[1].Time = now => R[1].Time = now

LEMMA ProjectTimes ==
  ASSUME NEW W \in Seq(Transaction), Ascending(W), NEW reject \in Int,
         NEW t \in Time, NEW val \in Value, NEW now \in Nat, now <= t,
         \A i \in 1 .. Len(W) : W[i].Time >= now
  PROVE  Projected_Times(W, Project(W, reject, t, val), reject, t, now)
<1>. DEFINE R == Project(W, reject, t, val)
<1>. HIDE DEF R
<1>0. /\ t \in Nat /\ Len(W) \in Nat
      /\ \A i \in 1 .. Len(W) : W[i].Time \in Nat
      /\ W # << >> => Len(W) >= 1
  BY BoundAssumption, TransactionTime, EmptySeq DEF Time
<1>1. /\ R \in Seq(Transaction)
      /\ Len(R) \in Nat \ {0}
      /\ R[Len(R)] = [Time |-> t, Val |-> val]
      /\ \A i \in 1 .. Len(R) : i < Len(R) =>
           \E j \in 1 .. Len(W) : R[i] = W[j] /\ W[j].Time < t
      /\ reject <= 0 /\ Len(W) >= 1 /\ W[1].Time < t => R[1] = W[1]
  <2>1. /\ Projected(W, R, t, val)
        /\ reject <= 0 /\ Len(W) >= 1 /\ W[1].Time < t => R[1] = W[1]
    BY ProjectProperty DEF R
  <2>. QED
    BY <2>1 DEF Projected
<1>2. R # << >> /\ 1 \in 1 .. Len(R)
  BY <1>1
<1>3. R[Len(R)].Time = t
  BY <1>1
<1>4. ASSUME NEW i \in 1 .. Len(R), i < Len(R)
      PROVE  \E j \in 1 .. Len(W) : R[i].Time = W[j].Time /\ W[j].Time < t
  BY <1>1, <1>4
<1>5. ASSUME NEW i \in 1 .. Len(R)
      PROVE  /\ R[i].Time \in Nat /\ R[i].Time >= now
             /\ R[i].Time = t \/ \E j \in 1 .. Len(W) : R[i].Time = W[j].Time
  <2>1. CASE i = Len(R)
    BY <1>0, <1>3, <2>1
  <2>2. CASE i < Len(R)
    BY <1>0, <1>4, <2>2
  <2>. QED
    BY <1>1, <2>1, <2>2
<1>6. now < t /\ R[1].Time = now => W # << >> /\ W[1].Time = now
  <2>. SUFFICES ASSUME now < t, R[1].Time = now PROVE W # << >> /\ W[1].Time = now
    OBVIOUS
  <2>1. 1 < Len(R)
    BY <1>0, <1>1, <1>3
  <2>2. PICK j \in 1 .. Len(W) : W[j].Time = now
    BY <1>2, <1>4, <2>1
  <2>3. 1 \in 1 .. Len(W) /\ W # << >>
    BY <1>0
  <2>4. j = 1 \/ W[1].Time < W[j].Time
    BY <1>0, <2>3 DEF Ascending
  <2>. QED
    BY <1>0, <2>2, <2>3, <2>4
<1>7. now = t => R[1].Time = now
  <2>. SUFFICES ASSUME now = t PROVE R[1].Time = now
    OBVIOUS
  <2>1. ASSUME 1 < Len(R) PROVE FALSE
    <3>1. PICK j \in 1 .. Len(W) : W[j].Time < t
      BY <1>2, <1>4, <2>1
    <3>2. W[j].Time \in Nat /\ W[j].Time >= now
      BY <1>0
    <3>. QED
      BY <1>0, <3>1, <3>2
  <2>2. Len(R) = 1
    <3>1. \A n \in Nat \ {0} : 1 < n \/ n = 1
      OBVIOUS
    <3>2. Len(R) \in Nat \ {0}
      BY <1>1
    <3>. QED
      BY <2>1, <3>1, <3>2
  <2>. QED
    BY <1>3, <2>2
<1>8. now < t /\ reject <= 0 /\ W # << >> /\ W[1].Time = now => R[1].Time = now
  BY <1>0, <1>1
<1>. QED
  BY <1>1, <1>2, <1>5, <1>6, <1>7, <1>8 DEF Projected_Times, R

LEMMA ChainStartAssign ==
  ASSUME TypeOK, ChainInv, NEW d \in Driver, NEW reject \in Delays, NEW after \in Delays,
         NEW val \in Value, Start_Assign(d, reject, after, val)
  PROVE  ChainInv'
<1>. DEFINE s == Signal_Of[d]
            chain == IF after = 0 THEN Signal_Active_Chain \cup {s}
                     ELSE Signal_Active_Chain
            rej == IF reject > after THEN 0 ELSE reject
            time == Current_Time + after
            W == Waveform[d]
            P == Project(W, rej, time, val)
<1>0. /\ NoOverdueTransaction /\ ChainComplete /\ ChainSound
      /\ s \in Signal /\ Signal_Active_Chain \subseteq Signal
      /\ Active_Time = Current_Time
      /\ phase \in {"elab", "run", "elab_postponed", "postponed"}
      /\ phase \notin Stopped /\ phase \notin {"override", "update"}
      /\ Current_Time \in Nat /\ Current_Time <= Last_Time /\ Last_Time \in Nat
      /\ Time = 0 .. Last_Time
      /\ after \in Nat /\ reject \in Nat
      /\ W \in Seq(Transaction) /\ Ascending(W)
  BY AssignPhase, DriverAssumption, BoundAssumption
     DEF ChainInv, TypeOK, Start_Assign, WaveformAscending, Ascending, Time, Stopped
<1>1. /\ May_Assign(d) /\ d \notin Direct /\ assigning' = d
      /\ UNCHANGED <<Current_Time, Next_Time, Is_Direct_Active>>
      /\ Future_List \subseteq Future_List'
      /\ after # 0 => s \in Future_List'
  BY DEF Start_Assign, Insert_Future_List, timeVars
<1>2. \A i \in 1 .. Len(W) : W[i].Time \in Nat /\ W[i].Time >= Current_Time
                               /\ (W[i].Time > Current_Time => s \in Future_List)
  BY <1>0, FirstTransaction DEF NoOverdueTransaction
<1>3. CASE Beyond(after)
  <2>1. after # 0 /\ Signal_Active_Chain' = Signal_Active_Chain /\ UNCHANGED <<Waveform, phase>>
    BY <1>0, <1>3 DEF Start_Assign, Beyond
  <2>2. Waveform' = [Waveform EXCEPT ![d] = W]
    BY <2>1 DEF TypeOK
  <2>3. Active_At(s, Current_Time)' <=> Active_At(s, Current_Time)
    BY <1>1, <2>1 DEF Active_At
  <2>4. /\ s \in Is_Direct_Active => s \in Signal_Active_Chain
        /\ Active_At(s, Current_Time) => s \in Signal_Active_Chain
        /\ "end_step" \notin Callbacks /\ s \in Signal_Active_Chain
             => Active_At(s, Current_Time) \/ Started_At(s, Current_Time)
    BY <1>0 DEF ChainComplete, ChainSound
  <2>5. phase' \in {phase, "error"} /\ assigning' \notin Direct
    BY <1>1, <2>1
  <2>. HIDE DEF W
  <2>. QED
    BY <1>1, <1>2, <2>1, <2>2, <2>3, <2>4, <2>5, ChainAssign
<1>4. CASE ~Beyond(after)
  <2>1. /\ time \in Time /\ rej \in Int /\ Current_Time <= time
        /\ after = 0 <=> Current_Time = time
        /\ Current_Time < time <=> after # 0
        /\ reject = 0 => rej <= 0
    BY <1>0, <1>4 DEF Beyond
  <2>2. Waveform' = [Waveform EXCEPT ![d] = P]
    BY <1>4 DEF Start_Assign
  <2>3. /\ phase' = IF reject > after THEN "error" ELSE phase
        /\ Signal_Active_Chain' =
             IF reject \in 1 .. after /\ ~Has_Transaction_In_Next_Delta(s, Waveform')
             THEN chain \ {s} ELSE chain
    BY <1>4 DEF Start_Assign
  <2>4. /\ Len(P) \in Nat \ {0} /\ P # << >>
        /\ \A i \in 1 .. Len(P) :
             /\ P[i].Time \in Nat /\ P[i].Time >= Current_Time
             /\ P[i].Time = time \/ \E j \in 1 .. Len(W) : P[i].Time = W[j].Time
        /\ Current_Time < time /\ P[1].Time = Current_Time
             => W # << >> /\ W[1].Time = Current_Time
        /\ Current_Time = time => P[1].Time = Current_Time
        /\ Current_Time < time /\ rej <= 0 /\ W # << >> /\ W[1].Time = Current_Time
             => P[1].Time = Current_Time
    <3>. HIDE DEF W, rej, time
    <3>1. /\ W \in Seq(Transaction) /\ Ascending(W)
          /\ Current_Time \in Nat
          /\ \A i \in 1 .. Len(W) : W[i].Time >= Current_Time
      BY <1>0, <1>2
    <3>2. Projected_Times(W, P, rej, time, Current_Time)
      BY <2>1, <3>1, ProjectTimes
    <3>. HIDE DEF P
    <3>. QED
      BY <3>2 DEF Projected_Times
  <2>. HIDE DEF P, rej, time
  <2>5. /\ Waveform'[d] = P
        /\ \A e \in Driver : e # d => Waveform'[e] = Waveform[e]
    BY <2>2 DEF TypeOK
  <2>6. Has_Transaction_In_Next_Delta(s, Waveform') <=> Active_At(s, Current_Time)'
    BY <1>1 DEF Has_Transaction_In_Next_Delta, Active_At
  <2>7. ASSUME NEW i \in 1 .. Len(P)
        PROVE  /\ P[i].Time >= Current_Time
               /\ P[i].Time > Current_Time => s \in Future_List'
    <3>1. CASE P[i].Time = time
      BY <1>1, <2>1, <2>4, <3>1
    <3>2. CASE \E j \in 1 .. Len(W) : P[i].Time = W[j].Time
      BY <1>1, <1>2, <2>4, <3>2
    <3>. QED
      BY <2>4, <3>1, <3>2
  <2>8. s \in Is_Direct_Active => s \in Signal_Active_Chain'
    BY <1>0, <1>1, <2>3, <2>6 DEF ChainComplete, Active_At
  <2>9. Active_At(s, Current_Time)' => s \in Signal_Active_Chain'
    <3>. SUFFICES ASSUME Active_At(s, Current_Time)', after # 0
                  PROVE  s \in Signal_Active_Chain
      BY <2>3, <2>6
    <3>1. CASE s \in Is_Direct_Active
      BY <1>0, <3>1 DEF ChainComplete
    <3>2. ASSUME NEW e \in Drivers_Of(s) \ Direct,
                 Waveform'[e] # << >>, Waveform'[e][1].Time = Current_Time
          PROVE  s \in Signal_Active_Chain
      <4>1. Waveform[e] # << >> /\ Waveform[e][1].Time = Current_Time
        BY <2>1, <2>4, <2>5, <3>2 DEF Drivers_Of
      <4>. QED
        BY <1>0, <4>1 DEF ChainComplete, Active_At
    <3>. QED
      BY <1>1, <3>1, <3>2 DEF Active_At
  <2>10. phase' # "error" /\ "end_step" \notin Callbacks /\ s \in Signal_Active_Chain'
           => Active_At(s, Current_Time)' \/ Started_At(s, Current_Time)
    <3>. SUFFICES ASSUME phase' # "error", "end_step" \notin Callbacks,
                         s \in Signal_Active_Chain', ~(reject \in 1 .. after),
                         ~Started_At(s, Current_Time)
                  PROVE  Active_At(s, Current_Time)'
      BY <2>3, <2>6
    <3>1. reject = 0 /\ rej <= 0
      BY <1>0, <2>1, <2>3
    <3>2. d \in Drivers_Of(s) \ Direct
      BY <1>1 DEF Drivers_Of
    <3>3. CASE after = 0
      BY <1>1, <2>1, <2>4, <2>5, <3>2, <3>3 DEF Active_At
    <3>4. CASE after # 0
      <4>1. Active_At(s, Current_Time)
        BY <1>0, <2>3, <3>4 DEF ChainSound
      <4>2. CASE s \in Is_Direct_Active
        BY <1>1, <4>2 DEF Active_At
      <4>3. ASSUME NEW e \in Drivers_Of(s) \ Direct,
                   Waveform[e] # << >>, Waveform[e][1].Time = Current_Time
            PROVE  Active_At(s, Current_Time)'
        <5>1. Waveform'[e] # << >> /\ Waveform'[e][1].Time = Current_Time
          BY <2>1, <2>4, <2>5, <3>1, <3>4, <4>3 DEF Drivers_Of
        <5>. QED
          BY <1>1, <5>1 DEF Active_At
      <4>. QED
        BY <4>1, <4>2, <4>3 DEF Active_At
    <3>. QED
      BY <3>3, <3>4
  <2>11. Signal_Active_Chain \ {s} = Signal_Active_Chain' \ {s}
    BY <2>3
  <2>12. phase' \in {phase, "error"} /\ assigning' \notin Direct
    BY <1>1, <2>3
  <2>. QED
    BY <1>1, <2>2, <2>7, <2>8, <2>9, <2>10, <2>11, <2>12, ChainAssign
<1>. QED
  BY <1>3, <1>4

LEMMA ChainNextAssign ==
  ASSUME TypeOK, ChainInv, NEW d \in Driver, NEW after \in Delays, NEW val \in Value,
         Next_Assign(d, after, val)
  PROVE  ChainInv'
<1>. DEFINE s == Signal_Of[d]
            W == Waveform[d]
            new == [Time |-> Current_Time + after, Val |-> val]
<1>0. /\ NoOverdueTransaction /\ ChainComplete /\ ChainSound
      /\ s \in Signal /\ Signal_Active_Chain \subseteq Signal
      /\ Active_Time = Current_Time
      /\ phase \in {"elab", "run", "elab_postponed", "postponed"}
      /\ phase \notin Stopped /\ phase \notin {"override", "update"}
      /\ Current_Time \in Nat
      /\ W \in Seq(Transaction) /\ Ascending(W)
  BY AssignPhase, DriverAssumption, TimesAreNat
     DEF ChainInv, TypeOK, Next_Assign, WaveformAscending, Ascending, Stopped
<1>1. /\ May_Assign(d) /\ d \notin Direct /\ assigning' \notin Direct
      /\ UNCHANGED <<Current_Time, Next_Time, Is_Direct_Active, Signal_Active_Chain>>
      /\ Future_List \subseteq Future_List'
  BY DEF Next_Assign, Insert_Future_List, timeVars, ChainInv, DirectIdle
<1>2. \A i \in 1 .. Len(W) : W[i].Time \in Nat /\ W[i].Time >= Current_Time
                               /\ (W[i].Time > Current_Time => s \in Future_List)
  BY <1>0, FirstTransaction DEF NoOverdueTransaction
<1>3. /\ s \in Is_Direct_Active => s \in Signal_Active_Chain
      /\ Active_At(s, Current_Time) => s \in Signal_Active_Chain
      /\ "end_step" \notin Callbacks /\ s \in Signal_Active_Chain
           => Active_At(s, Current_Time) \/ Started_At(s, Current_Time)
  BY <1>0 DEF ChainComplete, ChainSound
<1>4. CASE Beyond(after) \/ Current_Time + after <= Last_Trans_Time(d)
  <2>1. phase' = "error" /\ Waveform' = Waveform
    BY <1>4 DEF Next_Assign
  <2>2. Waveform' = [Waveform EXCEPT ![d] = W]
    BY <2>1 DEF TypeOK
  <2>. HIDE DEF W
  <2>. QED
    BY <1>1, <1>2, <1>3, <2>1, <2>2, ChainAssign
<1>5. CASE ~(Beyond(after) \/ Current_Time + after <= Last_Trans_Time(d))
  <2>1. /\ Waveform' = [Waveform EXCEPT ![d] = Append(W, new)]
        /\ phase' = phase /\ s \in Future_List'
    BY <1>5 DEF Next_Assign, Insert_Future_List, TypeOK
  <2>2. After_Last(d, new)
    BY <1>5, AfterLast
  <2>. HIDE DEF new
  <2>3. /\ new \in Transaction /\ new.Time \in Nat /\ new.Time >= Current_Time
        /\ new.Time > Current_Time \/ W # << >>
        /\ \A i \in 1 .. Len(W) : W[i].Time < new.Time
    BY <2>2, TransactionTime DEF After_Last
  <2>. HIDE DEF W
  <2>4. /\ Len(W) \in Nat /\ Len(Append(W, new)) = Len(W) + 1
        /\ Append(W, new)[Len(W) + 1] = new
        /\ \A i \in 1 .. Len(W) : Append(W, new)[i] = W[i]
        /\ Append(W, new) # << >>
        /\ W # << >> => 1 \in 1 .. Len(W)
        /\ W = << >> => Len(W) = 0
    BY <1>0, <2>3, AppendAscending, TransactionTime, EmptySeq
  <2>5. ASSUME NEW i \in 1 .. Len(Append(W, new))
        PROVE  /\ Append(W, new)[i].Time >= Current_Time
               /\ Append(W, new)[i].Time > Current_Time => s \in Future_List'
    <3>1. CASE i \in 1 .. Len(W)
      BY <1>2, <2>1, <2>4, <3>1
    <3>2. CASE i = Len(W) + 1
      BY <2>1, <2>3, <2>4, <3>2
    <3>. QED
      BY <2>4, <3>1, <3>2
  <2>6. Active_At(s, Current_Time)' <=> Active_At(s, Current_Time)
    <3>1. /\ Waveform'[d] = Append(W, new) /\ Waveform[d] = W
          /\ \A e \in Driver : e # d => Waveform'[e] = Waveform[e]
      BY <2>1 DEF TypeOK, W
    <3>2. Append(W, new)[1].Time = Current_Time <=> W # << >> /\ W[1].Time = Current_Time
      BY <1>0, <2>3, <2>4
    <3>. QED
      BY <1>1, <2>4, <3>1, <3>2 DEF Active_At, Drivers_Of
  <2>. QED
    BY <1>1, <1>3, <2>1, <2>5, <2>6, ChainAssign
<1>. QED
  BY <1>4, <1>5

LEMMA ChainDirectAssign ==
  ASSUME TypeOK, ChainInv, NEW d \in Driver, NEW val \in Value, Direct_Assign(d, val)
  PROVE  ChainInv'
<1>. DEFINE s == Signal_Of[d]
<1>0. /\ DirectIdle /\ NoOverdueTransaction /\ TimesInv /\ ChainComplete /\ ChainSound
      /\ s \in Signal
      /\ Active_Time = Current_Time
      /\ phase \in {"elab", "run", "elab_postponed", "postponed"}
      /\ phase \notin Stopped /\ phase \notin {"override", "update"}
  BY AssignPhase, DriverAssumption DEF ChainInv, Direct_Assign, Stopped
<1>1. /\ UNCHANGED <<phase, Current_Time, Next_Time, Waveform, Future_List>>
      /\ assigning' \notin Direct
  BY DriverAssumption DEF Direct_Assign, timeVars
<1>2. Active_Time' = Current_Time
  BY <1>0, <1>1 DEF Active_Time
<1>3. \/ UNCHANGED <<Signal_Active_Chain, Is_Direct_Active>>
      \/ /\ Signal_Active_Chain' = Signal_Active_Chain \cup {s}
         /\ Is_Direct_Active' = Is_Direct_Active \cup {s}
  BY DEF Direct_Assign
<1>4. DirectIdle' /\ NoOverdueTransaction'
  BY <1>0, <1>1 DEF DirectIdle, NoOverdueTransaction
<1>5. TimesInv'
  BY <1>0, <1>1 DEF TimesInv, Later_Phases
<1>6. ChainComplete'
  BY <1>0, <1>1, <1>2, <1>3 DEF ChainComplete, Active_At
<1>7. ChainSound'
  BY <1>0, <1>1, <1>2, <1>3 DEF ChainSound, Active_At, Started_At
<1>. QED
  BY <1>4, <1>5, <1>6, <1>7 DEF ChainInv

LEMMA ChainStartAssignDirect ==
  ASSUME TypeOK, ChainInv, NEW d \in Driver, NEW val \in Value,
         Start_Assign_Direct(d, val)
  PROVE  ChainInv'
<1>. DEFINE s == Signal_Of[d]
<1>0. /\ DirectIdle /\ NoOverdueTransaction /\ TimesInv /\ ChainComplete /\ ChainSound
      /\ s \in Signal
      /\ Active_Time = Current_Time
      /\ phase \in {"elab", "run", "elab_postponed", "postponed"}
      /\ phase \notin Stopped /\ phase \notin {"override", "update"}
  BY AssignPhase, DriverAssumption DEF ChainInv, Start_Assign_Direct, Stopped
<1>1. /\ UNCHANGED <<phase, Current_Time, Next_Time, Waveform, Future_List,
                     Is_Direct_Active>>
      /\ Signal_Active_Chain' = Signal_Active_Chain \cup {s}
      /\ assigning' \notin Direct
  BY DriverAssumption DEF Start_Assign_Direct, timeVars
<1>2. Active_Time' = Current_Time
  BY <1>0, <1>1 DEF Active_Time
<1>3. Started_At(s, Current_Time)
  BY DEF Start_Assign_Direct, Started_At, Drivers_Of
<1>4. DirectIdle' /\ NoOverdueTransaction'
  BY <1>0, <1>1 DEF DirectIdle, NoOverdueTransaction
<1>5. TimesInv'
  BY <1>0, <1>1 DEF TimesInv, Later_Phases
<1>6. ChainComplete'
  BY <1>0, <1>1, <1>2 DEF ChainComplete, Active_At
<1>7. ChainSound'
  BY <1>0, <1>1, <1>2, <1>3 DEF ChainSound, Active_At, Started_At
<1>. QED
  BY <1>4, <1>5, <1>6, <1>7 DEF ChainInv

LEMMA ChainAssignment ==
  ASSUME TypeOK, ChainInv, NEW d \in Driver, Assignment(d)
  PROVE  ChainInv'
  BY ChainStartAssign, ChainStartAssignDirect, ChainNextAssign, ChainDirectAssign
     DEF Assignment

-----------------------------------------------------------------------------
(* The drivers of an active signal that take their first transaction.        *)
Taking(s) == {d \in Drivers_Of(s) \ Direct : Takes(d)}

(* What Update_A_Signal does with the transactions.                          *)
LEMMA UpdateTakes ==
  ASSUME TypeOK, NEW s \in Signal, Update_A_Signal(s), NEW d \in Driver
  PROVE  /\ Waveform[d] \in Seq(Transaction) /\ Ascending(Waveform[d])
         /\ d \in Taking(s) => Waveform[d] # << >> /\ Waveform'[d] = Tail(Waveform[d])
         /\ d \notin Taking(s) => Waveform'[d] = Waveform[d]
<1>1. Waveform' = [e \in Driver |-> IF e \in Taking(s) THEN Tail(Waveform[e])
                                    ELSE Waveform[e]]
  BY DEF Update_A_Signal, Taking
<1>. QED
  BY <1>1 DEF Taking, Takes, TypeOK, WaveformAscending, Ascending

LEMMA ChainUpdate ==
  ASSUME TypeOK, ChainInv, NEW s \in Signal, Update_A_Signal(s)
  PROVE  ChainInv'
<1>0. /\ DirectIdle /\ NoOverdueTransaction /\ TimesInv /\ ChainComplete /\ ChainSound
      /\ phase = "update" /\ phase' = "update" /\ Active_Time = Current_Time
      /\ Current_Time \in Nat
  BY TimesAreNat DEF ChainInv, Update_A_Signal, Active_Time
<1>1. /\ UNCHANGED <<Current_Time, Next_Time, assigning, Future_List>>
      /\ Active_Time' = Current_Time
      /\ Signal_Active_Chain' = Signal_Active_Chain \ {s}
      /\ Is_Direct_Active' = Is_Direct_Active \ {s}
  BY <1>0 DEF Update_A_Signal, timeVars, Active_Time
<1>2. ASSUME NEW d \in Driver, NEW i \in 1 .. Len(Waveform'[d])
      PROVE  \E j \in 1 .. Len(Waveform[d]) :
               /\ Waveform'[d][i] = Waveform[d][j]
               /\ d \in Taking(s) => Waveform[d][j].Time > Waveform[d][1].Time
  <2>1. CASE d \in Taking(s)
    <3>. DEFINE W == Waveform[d]
    <3>1. W \in Seq(Transaction) /\ Ascending(W) /\ W # << >> /\ Waveform'[d] = Tail(W)
      BY <2>1, UpdateTakes
    <3>. HIDE DEF W
    <3>2. i + 1 \in 1 .. Len(W) /\ Tail(W)[i] = W[i + 1] /\ W[i + 1].Time > W[1].Time
      BY <3>1, TailProperty
    <3>3. \E j \in 1 .. Len(W) : Waveform'[d][i] = W[j] /\ W[j].Time > W[1].Time
      BY <3>1, <3>2
    <3>. QED
      BY <3>3 DEF W
  <2>2. CASE d \notin Taking(s)
    BY <2>2, UpdateTakes
  <2>. QED
    BY <2>1, <2>2
<1>3. DirectIdle'
  <2>1. ASSUME NEW d \in Direct PROVE Waveform'[d] = << >>
    <3>1. d \in Driver /\ d \notin Taking(s)
      BY DriverAssumption DEF Taking
    <3>. QED
      BY <1>0, <3>1, UpdateTakes DEF DirectIdle
  <2>. QED
    BY <1>0, <1>1, <2>1 DEF DirectIdle
<1>4. NoOverdueTransaction'
  <2>. SUFFICES ASSUME NEW d \in Driver, NEW i \in 1 .. Len(Waveform'[d])
                PROVE  /\ Waveform'[d][i].Time >= Current_Time
                       /\ Waveform'[d][i].Time > Current_Time => Signal_Of[d] \in Future_List
    BY <1>0, <1>1 DEF NoOverdueTransaction
  <2>. QED
    BY <1>0, <1>2 DEF NoOverdueTransaction
<1>5. TimesInv'
  BY <1>0, <1>1 DEF TimesInv, Later_Phases
<1>6. ASSUME NEW u \in Signal, u # s
      PROVE  Active_At(u, Current_Time)' <=> Active_At(u, Current_Time)
  <2>1. \A d \in Drivers_Of(u) : Waveform'[d] = Waveform[d]
    BY <1>6, UpdateTakes DEF Taking, Drivers_Of
  <2>. QED
    BY <1>1, <1>6, <2>1 DEF Active_At
<1>7. ~Active_At(s, Current_Time)'
  <2>1. ASSUME NEW d \in Drivers_Of(s) \ Direct,
               Waveform'[d] # << >>, Waveform'[d][1].Time = Current_Time
        PROVE  FALSE
    <3>0. /\ d \in Driver /\ Signal_Of[d] = s
          /\ Waveform'[d] \in Seq(Transaction)
      BY UpdateType DEF Drivers_Of
    <3>1. 1 \in 1 .. Len(Waveform'[d])
      BY <2>1, <3>0, EmptySeq, TransactionTime
    <3>2. CASE d \in Taking(s)
      <4>1. PICK j \in 1 .. Len(Waveform[d]) :
              Waveform[d][j].Time = Current_Time /\ Waveform[d][j].Time > Waveform[d][1].Time
        BY <1>2, <2>1, <3>0, <3>1, <3>2
      <4>2. /\ Waveform[d][1].Time \in Nat /\ 1 \in 1 .. Len(Waveform[d])
        BY <3>0, FirstTransaction
      <4>3. Waveform[d][1].Time >= Current_Time
        BY <1>0, <3>0, <4>2 DEF NoOverdueTransaction
      <4>. QED
        BY <1>0, <4>1, <4>2, <4>3
    <3>3. CASE d \notin Taking(s)
      <4>1. Waveform'[d] = Waveform[d]
        BY <3>0, <3>3, UpdateTakes
      <4>2. ~Takes(d)
        BY <3>3 DEF Taking
      <4>. QED
        BY <2>1, <4>1, <4>2 DEF Takes
    <3>. QED
      BY <3>2, <3>3
  <2>2. s \notin Is_Direct_Active'
    BY <1>1
  <2>. QED
    BY <1>1, <2>1, <2>2 DEF Active_At
<1>8. ChainComplete'
  <2>1. Is_Direct_Active' \subseteq Signal_Active_Chain'
    BY <1>0, <1>1 DEF ChainComplete
  <2>2. ASSUME NEW u \in Signal, Active_At(u, Active_Time)'
        PROVE  u \in Signal_Active_Chain'
    <3>1. Active_At(u, Current_Time)'
      BY <1>1, <2>2 DEF Active_At
    <3>2. u # s /\ Active_At(u, Current_Time)
      BY <1>6, <1>7, <3>1
    <3>. QED
      BY <1>0, <1>1, <3>2 DEF ChainComplete, Stopped
  <2>. QED
    BY <2>1, <2>2 DEF ChainComplete
<1>9. ChainSound'
  <2>. SUFFICES ASSUME "end_step" \notin Callbacks, NEW u \in Signal_Active_Chain',
                       u \notin Overridable
                PROVE  Active_At(u, Active_Time)' \/ Started_At(u, Active_Time)'
    BY <1>0 DEF ChainSound
  <2>1. u \in Signal /\ u \in Signal_Active_Chain /\ u # s
    BY <1>1 DEF TypeOK
  <2>2. Active_At(u, Current_Time) \/ Started_At(u, Current_Time)
    BY <1>0, <2>1 DEF ChainSound, Stopped
  <2>3. Active_At(u, Current_Time)' \/ Started_At(u, Current_Time)
    BY <1>6, <2>1, <2>2
  <2>. QED
    BY <1>1, <2>3 DEF Active_At, Started_At
<1>. QED
  BY <1>3, <1>4, <1>5, <1>8, <1>9 DEF ChainInv

(* A request that Update_Signals handles puts its signal in the chain, or    *)
(* nothing.                                                                  *)
LEMMA ChainRequest ==
  ASSUME TypeOK, ChainInv, Apply_Release \/ Apply_Force \/ Apply_Deposite
  PROVE  ChainInv'
<1>1. /\ phase = "override"
      /\ UNCHANGED <<timeVars, phase, driverVars, assigning, Future_List, Is_Direct_Active>>
  BY DEF Apply_Release, Apply_Force, Apply_Deposite
<1>2. \/ Signal_Active_Chain' = Signal_Active_Chain
      \/ \E f \in Overrides : Signal_Active_Chain' = Signal_Active_Chain \cup {f.Sig}
  <2>1. CASE Apply_Release
    BY <2>1, RequestHead DEF Apply_Release, Mark_Force_Active, TypeOK
  <2>2. CASE Apply_Force
    BY <2>2, RequestHead DEF Apply_Force, Mark_Force_Active, TypeOK
  <2>3. CASE Apply_Deposite
    BY <2>3, RequestHead DEF Apply_Deposite, Mark_Force_Active, TypeOK
  <2>. QED
    BY <2>1, <2>2, <2>3
<1>3. /\ UNCHANGED <<Current_Time, Next_Time, Tn, phase, Waveform, assigning,
                     Future_List, Is_Direct_Active>>
      /\ Active_Time' = Active_Time
  BY <1>1 DEF timeVars, driverVars, Active_Time
<1>4. DirectIdle' /\ NoOverdueTransaction' /\ TimesInv'
  BY <1>1, <1>3 DEF ChainInv, DirectIdle, NoOverdueTransaction, TimesInv, Later_Phases
<1>5. \A u : Active_At(u, Active_Time)' <=> Active_At(u, Active_Time)
  BY <1>3 DEF Active_At
<1>6. ChainComplete'
  BY <1>2, <1>3, <1>5 DEF ChainInv, ChainComplete, Stopped
<1>7. ChainSound'
  <2>1. \A u : Started_At(u, Active_Time)' <=> Started_At(u, Active_Time)
    BY <1>3 DEF Started_At
  <2>. QED
    BY <1>1, <1>2, <1>3, <1>5, <2>1 DEF ChainInv, ChainSound, Overridable
<1>. QED
  BY <1>4, <1>6, <1>7 DEF ChainInv

(* Steps that neither assign, nor compute the next time, nor update.         *)
LEMMA ChainQuiet ==
  ASSUME TypeOK, ChainInv,
         \/ Elab_Postponed \/ No_Postponed \/ Run_Postponed
         \/ Start_Cycle \/ Update_Signals \/ End_Override \/ End_Update
         \/ \E f \in Overrides : Append_Force_Value(f)
  PROVE  ChainInv'
<1>0. /\ DirectIdle /\ NoOverdueTransaction /\ TimesInv /\ ChainComplete /\ ChainSound
      /\ Current_Time \in Nat /\ Next_Time \in Nat /\ Tn \in Nat
  BY TimesAreNat DEF ChainInv
<1>1. /\ UNCHANGED <<Waveform, Future_List, Is_Direct_Active>>
      /\ assigning' \in {assigning, No_Driver}
  BY DEF Elab_Postponed, No_Postponed, Run_Postponed, Start_Cycle, Update_Signals,
         End_Override, End_Update, Append_Force_Value, driverVars, chainVars
<1>2. DirectIdle'
  BY <1>0, <1>1, DriverAssumption DEF DirectIdle
<1>3. \A u, t : Active_At(u, t)' <=> Active_At(u, t)
  BY <1>1 DEF Active_At
<1>4. CASE Run_Postponed
  <2>1. /\ phase = "postponed_test" /\ phase' = "postponed"
        /\ Signal_Active_Chain' = {}
        /\ UNCHANGED <<Current_Time, Next_Time>>
    BY <1>4 DEF Run_Postponed, timeVars
  <2>2. /\ Tn > Current_Time /\ Is_Direct_Active = {} /\ Next_Time = Current_Time
        /\ \A d \in Driver : \A i \in 1 .. Len(Waveform[d]) : Waveform[d][i].Time >= Tn
    BY <1>0, <2>1 DEF TimesInv, Later_Phases
  <2>3. ASSUME NEW s \in Signal, Active_At(s, Current_Time) PROVE FALSE
    <3>1. PICK d \in Driver : Waveform[d] # << >> /\ Waveform[d][1].Time = Current_Time
      BY <2>2, <2>3 DEF Active_At, Drivers_Of
    <3>2. 1 \in 1 .. Len(Waveform[d])
      BY <3>1, TransactionTime, EmptySeq DEF TypeOK
    <3>. QED
      BY <1>0, <2>2, <3>1, <3>2
  <2>4. Active_Time' = Current_Time
    BY <2>1 DEF Active_Time
  <2>5. NoOverdueTransaction' /\ TimesInv'
    BY <1>0, <1>1, <2>1, <2>2 DEF NoOverdueTransaction, TimesInv, Later_Phases
  <2>6. ChainComplete' /\ ChainSound'
    BY <1>1, <1>3, <2>1, <2>2, <2>3, <2>4 DEF ChainComplete, ChainSound, Active_At
  <2>. QED
    BY <1>2, <2>5, <2>6 DEF ChainInv
<1>5. CASE \/ Elab_Postponed \/ No_Postponed \/ Start_Cycle \/ Update_Signals
           \/ End_Override \/ End_Update \/ \E f \in Overrides : Append_Force_Value(f)
  <2>1. /\ Signal_Active_Chain' = Signal_Active_Chain
        /\ \/ phase = "elab" /\ phase' = "elab_postponed" /\ UNCHANGED timeVars
           \/ /\ phase = "postponed_test" /\ "end_step" \in Callbacks
              /\ phase' = "end_step" /\ UNCHANGED timeVars
           \/ /\ phase = "postponed_test" /\ phase' = "cycle"
              /\ UNCHANGED <<Current_Time, Tn>> /\ Next_Time' = Tn
           \/ /\ phase = "cycle" /\ phase' = "start"
              /\ Current_Time' = Next_Time /\ Next_Time' = Next_Time
           \/ phase = "start" /\ phase' \in {"override", "update"} /\ UNCHANGED timeVars
           \/ phase = "override" /\ phase' = "update" /\ UNCHANGED timeVars
           \/ /\ phase = "update" /\ phase' = "run" /\ UNCHANGED timeVars
              /\ Signal_Active_Chain = {}
           \/ phase' = phase /\ UNCHANGED timeVars
    BY <1>5 DEF Elab_Postponed, No_Postponed, Start_Cycle, Update_Signals,
         End_Override, End_Update, Append_Force_Value, chainVars, timeVars
  <2>2. Active_Time' = Active_Time
    BY <1>0, <2>1 DEF Active_Time, TimesInv, timeVars
  <2>3. TimesInv'
    <3>1. phase' # "internal_error" /\ (phase' = "end_step" => "end_step" \in Callbacks)
      BY <1>0, <2>1 DEF TimesInv
    <3>2. phase' \in Later_Phases =>
            phase \in Later_Phases /\ UNCHANGED <<Current_Time, Tn>>
      BY <2>1 DEF Later_Phases, timeVars
    <3>3. phase' \notin {"cycle", "elab_last_known"} => Next_Time' = Current_Time'
      BY <1>0, <2>1 DEF TimesInv, timeVars
    <3>4. phase' = "cycle" => Next_Time' >= Current_Time'
      BY <1>0, <2>1 DEF TimesInv, timeVars, Later_Phases
    <3>. QED
      BY <1>0, <1>1, <2>1, <3>1, <3>2, <3>3, <3>4 DEF TimesInv, Pending
  <2>4. NoOverdueTransaction'
    <3>. SUFFICES ASSUME NEW d \in Driver, NEW i \in 1 .. Len(Waveform[d])
                  PROVE  /\ Waveform[d][i].Time >= Current_Time'
                         /\ phase' = "cycle" => Waveform[d][i].Time >= Next_Time'
                         /\ Waveform[d][i].Time > Current_Time' => Signal_Of[d] \in Future_List
      BY <1>1 DEF NoOverdueTransaction
    <3>1. /\ Waveform[d][i].Time \in Nat
          /\ Waveform[d][i].Time >= Current_Time
          /\ phase = "cycle" => Waveform[d][i].Time >= Next_Time
          /\ Waveform[d][i].Time > Current_Time => Signal_Of[d] \in Future_List
          /\ phase = "postponed_test" => Waveform[d][i].Time >= Tn
          /\ phase = "cycle" => Next_Time >= Current_Time
      BY <1>0, FirstTransaction DEF NoOverdueTransaction, TimesInv, Later_Phases
    <3>. QED
      BY <1>0, <2>1, <3>1 DEF timeVars
  <2>5. ChainComplete'
    <3>1. phase' \notin Stopped => phase \notin Stopped
      BY <2>1 DEF Stopped
    <3>2. \A u : Active_At(u, Active_Time)' <=> Active_At(u, Active_Time)
      BY <1>1, <2>2 DEF Active_At
    <3>. QED
      BY <1>0, <1>1, <2>1, <3>1, <3>2 DEF ChainComplete
  <2>6. ChainSound'
    <3>1. phase' \notin Stopped => phase \notin Stopped
      BY <2>1 DEF Stopped
    <3>2. \A u : Active_At(u, Active_Time)' <=> Active_At(u, Active_Time)
      BY <1>1, <2>2 DEF Active_At
    <3>3. phase \in {"override", "update"} =>
            phase' \in {"override", "update"} \/ Signal_Active_Chain' = {}
      BY <2>1
    <3>4. \A u : Started_At(u, Active_Time) => Started_At(u, Active_Time)'
      BY <2>1, <2>2 DEF Started_At, Active_Time, timeVars
    <3>. QED
      BY <1>0, <2>1, <3>1, <3>2, <3>3, <3>4 DEF ChainSound
  <2>. QED
    BY <1>2, <2>3, <2>4, <2>5, <2>6 DEF ChainInv
<1>. QED
  BY <1>4, <1>5

LEMMA ChainStep == TypeOK /\ ChainInv /\ [Next]_vars => ChainInv'
<1>. SUFFICES ASSUME TypeOK, ChainInv, [Next]_vars PROVE ChainInv'
  OBVIOUS
<1>1. CASE UNCHANGED vars
  BY <1>1 DEF vars, timeVars, driverVars, chainVars, ChainInv, DirectIdle, TimesInv,
     NoOverdueTransaction, ChainComplete, ChainSound, Active_At, Active_Time,
     Started_At, Pending
<1>2. CASE Next
  BY <1>2, ChainAssignment, ChainCycle, ChainUpdate, ChainRequest, ChainQuiet
     DEF Next, Update_Step
<1>. QED
  BY <1>1, <1>2

LEMMA ChainInvariant == Spec => [](TypeInv /\ ChainInv)
<1>1. Init => TypeInv /\ ChainInv
  BY TypeInit, ChainInit
<1>2. TypeInv /\ ChainInv /\ [Next]_vars => (TypeInv /\ ChainInv)'
  BY TypeStep, ChainStep DEF TypeInv
<1>. QED
  BY <1>1, <1>2, PTL DEF Spec

(* Simulation time never passes a transaction that has not been taken, and   *)
(* a signal with a transaction in the future is where Find_Next_Time looks.  *)
THEOREM NeverOverdue == Spec => []NoOverdueTransaction
<1>1. ChainInv => NoOverdueTransaction
  BY DEF ChainInv
<1>. QED
  BY <1>1, ChainInvariant, PTL

(* Find_Next_Time never finds a signal active right now that is not in the   *)
(* active chain: Internal_Error ("find_next_time(2)") is unreachable, with   *)
(* any callbacks and any force requests.                                     *)
THEOREM NoInternalError == Spec => [](phase # "internal_error")
<1>1. ChainInv => phase # "internal_error"
  BY DEF ChainInv, TimesInv
<1>. QED
  BY <1>1, ChainInvariant, PTL

(* Without callbacks at the end of a time step, which put signals in the     *)
(* chain that are active later only, the active chain is exact whatever is   *)
(* forced: it lacks no signal of the next cycle, and in excess it can have   *)
(* only signals with a direct driver assigned through                        *)
(* Ghdl_Signal_Start_Assign.                                                 *)
THEOREM ChainExact ==
  ASSUME "end_step" \notin Callbacks
  PROVE  Spec => []ActiveChainExact
<1>1. TypeInv /\ ChainInv => ActiveChainExact
  <2>. SUFFICES ASSUME TypeInv, ChainInv,
                       phase \notin {"override", "update", "finished", "error",
                                     "internal_error"},
                       NEW s \in Signal
                PROVE  /\ Active_At(s, Active_Time) => s \in Signal_Active_Chain
                       /\ s \in Signal_Active_Chain =>
                            Active_At(s, Active_Time) \/ Started_At(s, Active_Time)
    BY DEF ActiveChainExact
  <2>. QED
    BY DEF ChainInv, ChainComplete, ChainSound, Stopped
<1>. QED
  BY <1>1, ChainInvariant, PTL

(* "If there is signals in the active list, then next cycle is a delta       *)
(* cycle" (Find_Next_Time): in a delta cycle every signal of the active      *)
(* chain has a transaction for the current time, or has a direct driver that *)
(* was assigned in place.  Only the callbacks of the end of a time step      *)
(* break this.                                                               *)
THEOREM ActiveAlwaysMeansDelta ==
  ASSUME "end_step" \notin Callbacks
  PROVE  Spec => []ActiveMeansDelta
<1>1. TypeInv /\ ChainInv => ActiveMeansDelta
  <2>. SUFFICES ASSUME ChainInv, phase = "cycle", Next_Time = Current_Time,
                       NEW s \in Signal_Active_Chain
                PROVE  Active_At(s, Current_Time) \/ Started_At(s, Current_Time)
    BY DEF ActiveMeansDelta
  <2>1. Active_Time = Current_Time
    BY DEF Active_Time
  <2>. QED
    BY <2>1 DEF ChainInv, ChainSound, Stopped
<1>. QED
  BY <1>1, ChainInvariant, PTL

-----------------------------------------------------------------------------
(* The values that drivers give to signals.                                  *)

(* A signal without resolution function has one driver at most.              *)
LEMMA OneDriver ==
  ASSUME NEW d \in Driver, Signal_Of[d] \notin Resolved
  PROVE  /\ Drivers_Of(Signal_Of[d]) = {d}
         /\ (CHOOSE e \in Drivers_Of(Signal_Of[d]) : TRUE) = d
<1>1. Drivers_Of(Signal_Of[d]) = {d}
  BY DriverAssumption DEF Drivers_Of
<1>. QED
  BY <1>1

(* What a step may do to the flag of direct drivers.                         *)
LEMMA FlagStep ==
  ASSUME [Next]_vars
  PROVE  \/ Is_Direct_Active' \subseteq Is_Direct_Active
         \/ \E d \in Direct : Is_Direct_Active' = Is_Direct_Active \cup {Signal_Of[d]}
<1>. USE DEF chainVars
<1>1. ASSUME NEW tn \in Current_Time .. Last_Time, Cycle_Step(tn)
      PROVE  UNCHANGED Is_Direct_Active
  <2>1. PICK chain, delta, later : Next_Time_Step(tn, chain, delta, later)
    BY <1>1, CycleStep
  <2>. QED
    BY <2>1 DEF Next_Time_Step, Compute
<1>2. ASSUME NEW d \in Driver, Assignment(d)
      PROVE  \/ UNCHANGED Is_Direct_Active
             \/ d \in Direct /\ Is_Direct_Active' = Is_Direct_Active \cup {Signal_Of[d]}
  BY <1>2 DEF Assignment, Start_Assign, Start_Assign_Direct, Next_Assign, Direct_Assign
<1>. QED
  BY <1>1, <1>2 DEF Next, vars, Append_Force_Value, Elab_Postponed, No_Postponed,
     Run_Postponed, Update_Step, Start_Cycle, Update_Signals, Apply_Release,
     Apply_Force, Apply_Deposite, End_Override, Update_A_Signal, End_Update

(* Only signals of direct drivers have the flag.                             *)
DirectFlagged == \A s \in Is_Direct_Active : \E d \in Direct : Signal_Of[d] = s

LEMMA FlagInvariant == Spec => []DirectFlagged
<1>1. Init => DirectFlagged
  BY DEF Init, DirectFlagged
<1>2. DirectFlagged /\ [Next]_vars => DirectFlagged'
  BY FlagStep DEF DirectFlagged
<1>. QED
  BY <1>1, <1>2, PTL DEF Spec

(* Only assignments and updates touch the transactions of drivers.           *)
LEMMA WaveformKept ==
  ASSUME [Next]_vars
  PROVE  \/ \E d \in Driver : Assignment(d)
         \/ \E s \in Signal : Update_A_Signal(s)
         \/ UNCHANGED driverVars
<1>1. ASSUME NEW tn \in Current_Time .. Last_Time, Cycle_Step(tn)
      PROVE  UNCHANGED driverVars
  <2>1. PICK chain, delta, later : Next_Time_Step(tn, chain, delta, later)
    BY <1>1, CycleStep
  <2>. QED
    BY <2>1 DEF Next_Time_Step, Compute
<1>. QED
  BY <1>1 DEF Next, vars, Append_Force_Value, Elab_Postponed, No_Postponed,
     Run_Postponed, Update_Step, Start_Cycle, Update_Signals, Apply_Release,
     Apply_Force, Apply_Deposite, End_Override, End_Update

-----------------------------------------------------------------------------
(* The chain says when the single driver of an unresolved signal takes a     *)
(* transaction; so the signal must not be put in the chain by a request or   *)
(* by the callbacks of the end of a time step.                               *)
SingleAssumption ==
  \A s \in Signal : Net(s) = "One_Driver" =>
    s \notin Overridable /\ "end_step" \notin Callbacks

(* The taken transactions are those of the current time.                     *)
LEMMA TakingOnTime ==
  ASSUME SingleAssumption, TypeOK, ChainInv, DirectFlagged,
         NEW s \in Signal, Update_A_Signal(s), NEW d \in Taking(s)
  PROVE  /\ d \in Driver \ Direct /\ Signal_Of[d] = s
         /\ Waveform[d] # << >> /\ Waveform[d][1].Time = Current_Time
<1>1. /\ d \in Driver \ Direct /\ d \in Drivers_Of(s) /\ Signal_Of[d] = s /\ Takes(d)
      /\ Waveform[d] # << >>
  BY DEF Taking, Drivers_Of, Takes
<1>2. CASE s \in Resolved
  BY <1>1, <1>2 DEF Takes, Net
<1>3. CASE s \notin Resolved
  <2>1. Drivers_Of(s) = {d}
    BY <1>1, <1>3, OneDriver
  <2>2. Net(s) = "One_Driver"
    BY <1>1, <1>3 DEF Net
  <2>3. s \notin Is_Direct_Active
    BY <1>1, <2>1, DriverAssumption DEF DirectFlagged, Drivers_Of
  <2>4. Active_At(s, Current_Time)
    <3>0. ~Started_At(s, Current_Time)
      BY <1>1, <2>1, DriverAssumption DEF Started_At
    <3>1. /\ phase = "update" /\ Active_Time = Current_Time /\ s \in Signal_Active_Chain
          /\ s \notin Overridable /\ "end_step" \notin Callbacks
      BY <2>2 DEF Update_A_Signal, Active_Time, SingleAssumption
    <3>. QED
      BY <3>0, <3>1 DEF ChainInv, ChainSound, Stopped
  <2>. QED
    BY <1>1, <2>1, <2>3, <2>4 DEF Active_At
<1>. QED
  BY <1>2, <1>3

(* A driver takes a transaction only when its time has come: of a resolved   *)
(* signal whatever is forced and called, of another one unless requests or   *)
(* the callbacks of the end of a time step put its signal in the chain.      *)
THEOREM AlwaysTakenOnTime ==
  ASSUME SingleAssumption
  PROVE  Spec => TakenOnTime
<1>. DEFINE OnTime == \A d \in Driver :
              phase = "update" /\ Waveform'[d] # Waveform[d] =>
                Waveform[d][1].Time = Current_Time
<1>1. ASSUME TypeInv, ChainInv, DirectFlagged, [Next]_vars PROVE [OnTime]_vars
  <2>1. TypeOK
    BY <1>1 DEF TypeInv
  <2>2. CASE \E d \in Driver : Assignment(d)
    <3>1. phase # "update"
      BY <2>2 DEF Assignment, Start_Assign, Start_Assign_Direct, Next_Assign,
         Direct_Assign, May_Assign
    <3>. QED
      BY <3>1
  <2>3. CASE \E s \in Signal : Update_A_Signal(s)
    <3>1. PICK s \in Signal : Update_A_Signal(s)
      BY <2>3
    <3>2. ASSUME NEW d \in Driver, Waveform'[d] # Waveform[d]
          PROVE  Waveform[d][1].Time = Current_Time
      <4>1. d \in Taking(s)
        BY <2>1, <3>1, <3>2, UpdateTakes
      <4>. QED
        BY <1>1, <2>1, <3>1, <4>1, TakingOnTime
    <3>. QED
      BY <3>2
  <2>4. CASE UNCHANGED driverVars
    BY <2>4 DEF driverVars
  <2>. QED
    BY <1>1, <2>2, <2>3, <2>4, WaveformKept
<1>. QED
  BY <1>1, ChainInvariant, FlagInvariant, PTL DEF Spec, TakenOnTime

-----------------------------------------------------------------------------
(* The values of the signals on which no request is made.                    *)

Plain(s) == s \notin Overridable /\ Net(s) # "No_Net"

(* The value that the drivers of a signal give it.                           *)
Driver_Value(s) ==
  IF s \in Resolved THEN Compute_Resolved_Signal(s, First_Trans)
  ELSE First_Trans[CHOOSE d \in Drivers_Of(s) : TRUE]

(* The signal will be updated: in the next cycle, whatever normal drivers    *)
(* do, or, if d is assigned as a normal driver is, with a transaction of one *)
(* that took the signal off the active chain.                                *)
Will_Take(d, s) ==
  \/ s \in Is_Direct_Active
  \/ (Only_Direct(s) \/ d \in Started) /\ s \in Signal_Active_Chain
  \/ d \in Started /\ Pending(s)

ValueExact(s) ==
  /\ Driving_Value[s] = Driver_Value(s)
  /\ Value_Ptr[s] = Driver_Value(s)
  /\ \A d \in Drivers_Of(s) \cap Direct :
       First_Trans[d] # Direct_Value[d] => Will_Take(d, s)

ForcedOverridable == \A sm \in Forced : sm[1] \in Overridable

(* The inductive invariant: only signals with requests are forced; the two   *)
(* values of the others are those of the drivers, and the signal of a direct *)
(* driver whose new value is not theirs yet is going to take it.             *)
ValueInv == ForcedOverridable /\ \A s \in Signal : Plain(s) => ValueExact(s)

LEMMA PlainNet ==
  ASSUME NEW s \in Signal, Net(s) # "No_Net"
  PROVE  /\ Drivers_Of(s) # {} /\ Drivers_Of(s) \subseteq Driver
         /\ (CHOOSE d \in Drivers_Of(s) : TRUE) \in Drivers_Of(s)
<1>1. Drivers_Of(s) # {}
  BY DriverAssumption DEF Net
<1>. QED
  BY <1>1 DEF Drivers_Of

LEMMA ValueInit == Init => ValueInv
<1>. SUFFICES ASSUME Init PROVE ValueInv
  OBVIOUS
<1>1. PICK v \in Value :
        /\ First_Trans = [d \in Driver |-> v]
        /\ Direct_Value = [d \in Direct |-> v]
        /\ Driving_Value = [s \in Signal |->
             IF s \in Resolved THEN Compute_Resolved_Signal(s, First_Trans) ELSE v]
        /\ Value_Ptr = Driving_Value
  BY DEF Init
<1>2. ASSUME NEW s \in Signal, Plain(s) PROVE ValueExact(s)
  <2>1. (CHOOSE d \in Drivers_Of(s) : TRUE) \in Driver
    BY <1>2, PlainNet DEF Plain
  <2>2. Driving_Value[s] = Driver_Value(s)
    BY <1>1, <2>1 DEF Driver_Value
  <2>3. \A d \in Drivers_Of(s) \cap Direct : First_Trans[d] = Direct_Value[d]
    BY <1>1 DEF Drivers_Of
  <2>. QED
    BY <1>1, <2>2, <2>3 DEF ValueExact
<1>3. ForcedOverridable
  BY DEF Init, ForcedOverridable
<1>. QED
  BY <1>2, <1>3 DEF ValueInv

(* Signals whose values, drivers and flag are left alone.                    *)
LEMMA ValueKept ==
  ASSUME NEW s \in Signal, Plain(s), ValueExact(s),
         Driving_Value'[s] = Driving_Value[s], Value_Ptr'[s] = Value_Ptr[s],
         \A d \in Drivers_Of(s) : First_Trans'[d] = First_Trans[d],
         \A d \in Drivers_Of(s) \cap Direct : Direct_Value'[d] = Direct_Value[d],
         \A d \in Driver : Will_Take(d, s) => Will_Take(d, s)'
  PROVE  ValueExact(s)'
<1>1. {First_Trans'[d] : d \in Drivers_Of(s)} = {First_Trans[d] : d \in Drivers_Of(s)}
  OBVIOUS
<1>2. (CHOOSE d \in Drivers_Of(s) : TRUE) \in Drivers_Of(s)
  BY PlainNet DEF Plain
<1>3. Driver_Value(s)' = Driver_Value(s)
  <2>1. CASE s \in Resolved
    BY <1>1, <2>1 DEF Driver_Value, Compute_Resolved_Signal
  <2>2. CASE s \notin Resolved
    BY <1>2, <2>2 DEF Driver_Value
  <2>. QED
    BY <2>1, <2>2
<1>4. \A d \in Drivers_Of(s) \cap Direct :
        /\ First_Trans'[d] = First_Trans[d] /\ Direct_Value'[d] = Direct_Value[d]
        /\ Will_Take(d, s) => Will_Take(d, s)'
  BY DEF Drivers_Of
<1>. QED
  BY <1>3, <1>4 DEF ValueExact

(* A signal leaves the active chain only for a transaction.                  *)
LEMMA AssignPending ==
  ASSUME TypeOK, NEW d \in Driver,
         \/ \E reject, after \in Delays, val \in Value : Start_Assign(d, reject, after, val)
         \/ \E after \in Delays, val \in Value : Next_Assign(d, after, val)
  PROVE  /\ \A e \in Driver : Waveform[e] # << >> => Waveform'[e] # << >>
         /\ \/ Signal_Active_Chain \subseteq Signal_Active_Chain'
            \/ /\ d \notin Direct /\ Waveform'[d] # << >>
               /\ Signal_Active_Chain \ {Signal_Of[d]} \subseteq Signal_Active_Chain'
<1>1. Waveform[d] \in Seq(Transaction) /\ Ascending(Waveform[d])
  BY DEF TypeOK, WaveformAscending, Ascending
<1>2. ASSUME NEW P, P # << >>, Waveform' = [Waveform EXCEPT ![d] = P]
      PROVE  Waveform'[d] # << >> /\ \A e \in Driver : Waveform[e] # << >> => Waveform'[e] # << >>
  BY <1>2 DEF TypeOK
<1>3. ASSUME NEW reject \in Delays, NEW after \in Delays, NEW val \in Value,
             Start_Assign(d, reject, after, val), ~Beyond(after)
      PROVE  /\ \A e \in Driver : Waveform[e] # << >> => Waveform'[e] # << >>
             /\ d \notin Direct /\ Waveform'[d] # << >>
             /\ Signal_Active_Chain \ {Signal_Of[d]} \subseteq Signal_Active_Chain'
  <2>. DEFINE rej == IF reject > after THEN 0 ELSE reject
              P == Project(Waveform[d], rej, Current_Time + after, val)
  <2>1. rej \in Int /\ Current_Time + after \in Time
    BY <1>3, BoundAssumption, TimesAreNat DEF Beyond, Time, TypeOK
  <2>2. Waveform' = [Waveform EXCEPT ![d] = P]
    BY <1>3 DEF Start_Assign
  <2>3. P # << >>
    <3>1. Len(P) \in Nat \ {0}
      BY <1>1, <1>3, <2>1, ProjectProperty DEF Projected
    <3>. QED
      BY <3>1, Len(<< >>) = 0
  <2>. HIDE DEF P
  <2>4. Waveform'[d] # << >> /\ \A e \in Driver : Waveform[e] # << >> => Waveform'[e] # << >>
    BY <1>2, <2>2, <2>3
  <2>. QED
    BY <1>3, <2>4 DEF Start_Assign
<1>4. ASSUME NEW after \in Delays, NEW val \in Value, Next_Assign(d, after, val),
             UNCHANGED Waveform => FALSE
      PROVE  \A e \in Driver : Waveform[e] # << >> => Waveform'[e] # << >>
  <2>. DEFINE new == [Time |-> Current_Time + after, Val |-> val]
  <2>1. Waveform' = [Waveform EXCEPT ![d] = Append(Waveform[d], new)]
    BY <1>4 DEF Next_Assign
  <2>2. Append(Waveform[d], new) # << >>
    BY <1>1
  <2>. QED
    BY <1>2, <2>1, <2>2
<1>5. ASSUME NEW reject \in Delays, NEW after \in Delays, NEW val \in Value,
             Start_Assign(d, reject, after, val), Beyond(after)
      PROVE  UNCHANGED Waveform /\ Signal_Active_Chain \subseteq Signal_Active_Chain'
  BY <1>5 DEF Start_Assign
<1>6. ASSUME NEW after \in Delays, NEW val \in Value, Next_Assign(d, after, val)
      PROVE  Signal_Active_Chain \subseteq Signal_Active_Chain'
  BY <1>6 DEF Next_Assign
<1>. QED
  BY <1>3, <1>4, <1>5, <1>6

LEMMA ValueAssignment ==
  ASSUME TypeOK, ValueInv, NEW d \in Driver, Assignment(d)
  PROVE  ValueInv'
<1>1. UNCHANGED <<First_Trans, Driving_Value, Value_Ptr, Forced>>
  BY DEF Assignment, Start_Assign, Start_Assign_Direct, Next_Assign, Direct_Assign,
     valueVars, forcedVars
<1>2. CASE \/ \E reject, after \in Delays, val \in Value :
                 Start_Assign(d, reject, after, val)
           \/ \E after \in Delays, val \in Value : Next_Assign(d, after, val)
  <2>0. /\ \A e \in Driver : Waveform[e] # << >> => Waveform'[e] # << >>
        /\ \/ Signal_Active_Chain \subseteq Signal_Active_Chain'
           \/ /\ d \notin Direct /\ Waveform'[d] # << >>
              /\ Signal_Active_Chain \ {Signal_Of[d]} \subseteq Signal_Active_Chain'
    BY <1>2, AssignPending
  <2>1. UNCHANGED <<Direct_Value, Is_Direct_Active>>
    BY <1>2 DEF Start_Assign, Next_Assign
  <2>2. \A u \in Signal : /\ Pending(u) => Pending(u)'
                          /\ u \in Signal_Active_Chain =>
                               \/ u \in Signal_Active_Chain'
                               \/ ~Only_Direct(u) /\ Pending(u)'
    BY <2>0 DEF Pending, Only_Direct, Drivers_Of
  <2>3. \A u \in Signal, e \in Driver : Will_Take(e, u) => Will_Take(e, u)'
    BY <2>1, <2>2 DEF Will_Take
  <2>4. ASSUME NEW u \in Signal, Plain(u) PROVE ValueExact(u)'
    BY <1>1, <2>1, <2>3, <2>4, ValueKept DEF ValueInv
  <2>. QED
    BY <1>1, <2>4 DEF ValueInv, ForcedOverridable
<1>3. ASSUME NEW val \in Value, Direct_Assign(d, val) PROVE ValueInv'
  <2>. DEFINE s == Signal_Of[d]
              active == Has_Active(s) \/ Driving_Value[s] # val
  <2>1. /\ d \in Direct /\ s \in Signal /\ d \in Drivers_Of(s)
        /\ Direct_Value' = [Direct_Value EXCEPT ![d] = val]
        /\ Is_Direct_Active' = IF active THEN Is_Direct_Active \cup {s} ELSE Is_Direct_Active
        /\ Signal_Active_Chain \subseteq Signal_Active_Chain'
        /\ UNCHANGED Waveform
    BY <1>3, DriverAssumption DEF Direct_Assign, Drivers_Of
  <2>2. \A e \in Direct : e # d => Direct_Value'[e] = Direct_Value[e]
    BY <2>1 DEF TypeOK
  <2>3. ASSUME NEW u \in Signal, Plain(u), u # s PROVE ValueExact(u)'
    <3>1. \A e \in Drivers_Of(u) \cap Direct : Direct_Value'[e] = Direct_Value[e]
      BY <2>2, <2>3 DEF Drivers_Of
    <3>2. \A e \in Driver : Will_Take(e, u) => Will_Take(e, u)'
      BY <2>1 DEF Will_Take, Pending
    <3>. QED
      BY <1>1, <2>3, <3>1, <3>2, ValueKept DEF ValueInv
  <2>4. ASSUME Plain(s) PROVE ValueExact(s)'
    <3>1. ValueExact(s)
      BY <2>1, <2>4 DEF ValueInv
    <3>2. Driver_Value(s)' = Driver_Value(s)
      BY <1>1 DEF Driver_Value
    <3>3. ASSUME NEW e \in Drivers_Of(s) \cap Direct,
                 First_Trans[e] # Direct_Value'[e]
          PROVE  Will_Take(e, s)'
      <4>1. CASE active
        BY <2>1, <4>1 DEF Will_Take
      <4>2. CASE ~active
        <5>1. s \notin Resolved /\ Driving_Value[s] = val
          BY <4>2 DEF Has_Active
        <5>2. e = d /\ First_Trans[d] = Driving_Value[s]
          BY <3>1, <5>1, OneDriver DEF ValueExact, Driver_Value
        <5>. QED
          BY <2>1, <3>3, <5>1, <5>2 DEF TypeOK
      <4>. QED
        BY <4>1, <4>2
    <3>. QED
      BY <1>1, <3>1, <3>2, <3>3 DEF ValueExact
  <2>. QED
    BY <1>1, <2>3, <2>4 DEF ValueInv, ForcedOverridable
<1>4. ASSUME NEW val \in Value, Start_Assign_Direct(d, val) PROVE ValueInv'
  <2>. DEFINE s == Signal_Of[d]
  <2>1. /\ d \in Started /\ d \in Direct /\ s \in Signal
        /\ Direct_Value' = [Direct_Value EXCEPT ![d] = val]
        /\ UNCHANGED <<Is_Direct_Active, Waveform>>
        /\ Signal_Active_Chain' = Signal_Active_Chain \cup {s}
    BY <1>4, DriverAssumption DEF Start_Assign_Direct
  <2>2. \A e \in Direct : e # d => Direct_Value'[e] = Direct_Value[e]
    BY <2>1 DEF TypeOK
  <2>3. \A u \in Signal, e \in Driver : Will_Take(e, u) => Will_Take(e, u)'
    BY <2>1 DEF Will_Take, Pending
  <2>4. ASSUME NEW u \in Signal, Plain(u), u # s PROVE ValueExact(u)'
    <3>1. \A e \in Drivers_Of(u) \cap Direct : Direct_Value'[e] = Direct_Value[e]
      BY <2>2, <2>4 DEF Drivers_Of
    <3>. QED
      BY <1>1, <2>3, <2>4, <3>1, ValueKept DEF ValueInv
  <2>5. ASSUME Plain(s) PROVE ValueExact(s)'
    <3>1. ValueExact(s)
      BY <2>1, <2>5 DEF ValueInv
    <3>2. Driver_Value(s)' = Driver_Value(s)
      BY <1>1 DEF Driver_Value
    <3>3. ASSUME NEW e \in Drivers_Of(s) \cap Direct,
                 First_Trans[e] # Direct_Value'[e]
          PROVE  Will_Take(e, s)'
      <4>1. CASE e = d
        BY <2>1, <4>1 DEF Will_Take
      <4>2. CASE e # d
        BY <2>1, <2>2, <2>3, <3>1, <3>3, <4>2 DEF ValueExact, Drivers_Of
      <4>. QED
        BY <4>1, <4>2
    <3>. QED
      BY <1>1, <3>1, <3>2, <3>3 DEF ValueExact
  <2>. QED
    BY <1>1, <2>4, <2>5 DEF ValueInv, ForcedOverridable
<1>. QED
  BY <1>2, <1>3, <1>4 DEF Assignment

LEMMA ValueUpdate ==
  ASSUME TypeOK, ValueInv, NEW s \in Signal, Update_A_Signal(s)
  PROVE  ValueInv'
<1>. DEFINE own == Drivers_Of(s)
            kept == Is_Drv_Forced(s) \/ Net(s) = "No_Net"
                      \/ (Net(s) = "One_Driver" /\ Taking(s) = {})
            driving == IF kept THEN Driving_Value[s]
                       ELSE IF Net(s) = "One_Resolved"
                       THEN Compute_Resolved_Signal(s, First_Trans')
                       ELSE First_Trans'[CHOOSE d \in own : TRUE]
<1>1. /\ Is_Direct_Active' = Is_Direct_Active \ {s}
      /\ First_Trans' = [d \in Driver |->
                          IF d \in own \cap Direct THEN Direct_Value[d]
                          ELSE IF d \in Taking(s) THEN Waveform[d][1].Val
                          ELSE First_Trans[d]]
      /\ Driving_Value' = [Driving_Value EXCEPT ![s] = driving]
      /\ Value_Ptr' = IF Is_Eff_Forced(s) THEN Value_Ptr
                      ELSE [Value_Ptr EXCEPT ![s] = driving]
      /\ UNCHANGED <<Direct_Value, Forced>>
      /\ Signal_Active_Chain' = Signal_Active_Chain \ {s}
      /\ Waveform' = [d \in Driver |-> IF d \in Taking(s) THEN Tail(Waveform[d])
                                       ELSE Waveform[d]]
  BY DEF Update_A_Signal, Taking, forcedVars
<1>. HIDE DEF driving
<1>2. /\ \A u \in Signal : u # s =>
           Driving_Value'[u] = Driving_Value[u] /\ Value_Ptr'[u] = Value_Ptr[u]
      /\ Driving_Value'[s] = driving
      /\ ~Is_Eff_Forced(s) => Value_Ptr'[s] = driving
  BY <1>1 DEF TypeOK
<1>. USE DEF driving
<1>3. ASSUME NEW u \in Signal, Plain(u), u # s PROVE ValueExact(u)'
  <2>1. \A d \in Drivers_Of(u) : d \in Driver /\ d \notin own /\ d \notin Taking(s)
    BY <1>3 DEF Drivers_Of, Taking
  <2>. HIDE DEF driving, own
  <2>2. \A d \in Drivers_Of(u) : First_Trans'[d] = First_Trans[d]
    BY <1>1, <2>1
  <2>3. \A e \in Driver : Will_Take(e, u) => Will_Take(e, u)'
    <3>1. Pending(u) => Pending(u)'
      BY <1>1, <2>1 DEF Pending
    <3>. QED
      BY <1>1, <1>3, <3>1 DEF Will_Take
  <2>4. ValueExact(u)
    BY <1>3 DEF ValueInv
  <2>. QED
    BY <1>1, <1>2, <1>3, <2>2, <2>3, <2>4, ValueKept
<1>4. ASSUME Plain(s) PROVE ValueExact(s)'
  <2>1. ~Is_Drv_Forced(s) /\ ~Is_Eff_Forced(s) /\ Net(s) # "No_Net" /\ ValueExact(s)
    BY <1>4 DEF ValueInv, ForcedOverridable, Plain, Is_Drv_Forced, Is_Eff_Forced
  <2>2. driving = Driver_Value(s)'
    <3>1. CASE s \in Resolved
      BY <2>1, <3>1 DEF Net, Driver_Value
    <3>2. CASE s \notin Resolved /\ ~kept
      BY <3>2 DEF Net, Driver_Value
    <3>3. CASE s \notin Resolved /\ kept
      <4>1. Net(s) = "One_Driver" /\ Taking(s) = {} /\ ~(own \subseteq Direct)
        BY <2>1, <3>3 DEF Net
      <4>2. PICK d \in own : d \notin Direct
        BY <4>1
      <4>3. d \in Driver /\ Signal_Of[d] = s
        BY DEF Drivers_Of
      <4>4. own = {d} /\ (CHOOSE e \in own : TRUE) = d
        BY <3>3, <4>3, OneDriver
      <4>5. First_Trans'[d] = First_Trans[d]
        BY <1>1, <4>1, <4>2, <4>3
      <4>6. Driver_Value(s)' = First_Trans[d] /\ Driver_Value(s) = First_Trans[d]
        BY <3>3, <4>4, <4>5 DEF Driver_Value
      <4>. QED
        BY <2>1, <3>3, <4>6 DEF ValueExact
    <3>. QED
      BY <3>1, <3>2, <3>3
  <2>3. \A d \in Drivers_Of(s) \cap Direct : First_Trans'[d] = Direct_Value'[d]
    BY <1>1 DEF Drivers_Of
  <2>. HIDE DEF driving
  <2>. QED
    BY <1>2, <2>1, <2>2, <2>3 DEF ValueExact
<1>. QED
  BY <1>1, <1>3, <1>4 DEF ValueInv, ForcedOverridable

(* A request changes the values of its signal only.                          *)
LEMMA ValueRequest ==
  ASSUME TypeOK, ValueInv, Apply_Release \/ Apply_Force \/ Apply_Deposite
  PROVE  ValueInv'
<1>1. \E f \in Overrides :
        /\ \/ UNCHANGED valueVars
           \/ \E val : Set_Value(f, val)
        /\ Forced' \subseteq Forced \cup {<<f.Sig, f.Mode>>}
        /\ UNCHANGED <<driverVars, Is_Direct_Active>>
        /\ Signal_Active_Chain \subseteq Signal_Active_Chain'
  <2>1. CASE Apply_Release
    BY <2>1, RequestHead DEF Apply_Release, Mark_Force_Active, TypeOK
  <2>2. CASE Apply_Force
    BY <2>2, RequestHead DEF Apply_Force, Mark_Force_Active, TypeOK
  <2>3. CASE Apply_Deposite
    BY <2>3, RequestHead DEF Apply_Deposite, Mark_Force_Active, TypeOK
  <2>. QED
    BY <2>1, <2>2, <2>3
<1>2. PICK f \in Overrides :
        /\ \/ UNCHANGED valueVars
           \/ \E val : Set_Value(f, val)
        /\ Forced' \subseteq Forced \cup {<<f.Sig, f.Mode>>}
        /\ UNCHANGED <<driverVars, Is_Direct_Active>>
        /\ Signal_Active_Chain \subseteq Signal_Active_Chain'
  BY <1>1
<1>3. f.Sig \in Overridable
  BY DEF Overridable
<1>4. ForcedOverridable'
  BY <1>2, <1>3 DEF ValueInv, ForcedOverridable
<1>5. ASSUME NEW s \in Signal, Plain(s) PROVE ValueExact(s)'
  <2>1. s # f.Sig
    BY <1>3, <1>5 DEF Plain
  <2>2. Driving_Value'[s] = Driving_Value[s] /\ Value_Ptr'[s] = Value_Ptr[s]
    BY <1>2, <2>1 DEF Set_Value, valueVars, TypeOK
  <2>3. \A d \in Driver : Will_Take(d, s) => Will_Take(d, s)'
    BY <1>2 DEF Will_Take, Pending, driverVars
  <2>. QED
    BY <1>2, <1>5, <2>2, <2>3, ValueKept DEF ValueInv, driverVars
<1>. QED
  BY <1>4, <1>5 DEF ValueInv

(* The next time is computed without dropping from the active chain a signal *)
(* without transaction.                                                      *)
LEMMA NotPendingKept ==
  ASSUME ChainInv, NEW tn \in Current_Time .. Last_Time, Cycle_Step(tn),
         NEW s \in Signal_Active_Chain, ~Pending(s)
  PROVE  s \in Signal_Active_Chain'
<1>1. PICK chain, delta, later : Next_Time_Step(tn, chain, delta, later)
  BY CycleStep
<1>2. chain = Signal_Active_Chain
  BY <1>1 DEF Next_Time_Step, ChainInv, TimesInv, Later_Phases
<1>3. Compute_Next_Time(tn, chain).chain = chain
  BY <1>2 DEF Compute_Next_Time, Find_Next_Time
<1>. QED
  BY <1>1, <1>2, <1>3 DEF Next_Time_Step, Compute

LEMMA ValueStep == TypeInv /\ ChainInv /\ ValueInv /\ [Next]_vars => ValueInv'
<1>. SUFFICES ASSUME TypeInv, TypeOK, ChainInv, ValueInv, [Next]_vars PROVE ValueInv'
  BY DEF TypeInv
<1>1. CASE /\ UNCHANGED <<driverVars, valueVars, Is_Direct_Active>> /\ Forced' \subseteq Forced
           /\ \A s \in Signal_Active_Chain : Pending(s) \/ s \in Signal_Active_Chain'
  <2>1. ForcedOverridable'
    BY <1>1 DEF ValueInv, ForcedOverridable
  <2>2. ASSUME NEW s \in Signal, Plain(s) PROVE ValueExact(s)'
    <3>1. (Pending(s) => Pending(s)') /\ (Pending(s) => ~Only_Direct(s))
      BY <1>1 DEF Pending, Only_Direct, driverVars
    <3>2. \A d \in Driver : Will_Take(d, s) => Will_Take(d, s)'
      BY <1>1, <3>1 DEF Will_Take
    <3>. QED
      BY <1>1, <2>2, <3>2, ValueKept DEF ValueInv, driverVars, valueVars
  <2>. QED
    BY <2>1, <2>2 DEF ValueInv
<1>2. ASSUME NEW tn \in Current_Time .. Last_Time, Cycle_Step(tn) PROVE ValueInv'
  <2>1. PICK chain, delta, later : Next_Time_Step(tn, chain, delta, later)
    BY <1>2, CycleStep
  <2>. QED
    BY <1>1, <1>2, <2>1, NotPendingKept DEF Next_Time_Step, Compute, forcedVars
<1>3. CASE \/ Elab_Postponed \/ No_Postponed \/ Run_Postponed
           \/ Start_Cycle \/ Update_Signals \/ End_Override \/ End_Update
           \/ \E f \in Overrides : Append_Force_Value(f)
  <2>1. UNCHANGED <<driverVars, valueVars, Is_Direct_Active>> /\ Forced' \subseteq Forced
    BY <1>3 DEF Elab_Postponed, No_Postponed, Run_Postponed, Start_Cycle, Update_Signals,
       End_Override, End_Update, Append_Force_Value, chainVars, forcedVars
  <2>2. ASSUME NEW s \in Signal_Active_Chain, ~Pending(s)
        PROVE  s \in Signal_Active_Chain'
    <3>1. ~Run_Postponed
      BY <2>2 DEF Run_Postponed, ChainInv, TimesInv, Later_Phases
    <3>. QED
      BY <1>3, <3>1 DEF Elab_Postponed, No_Postponed, Start_Cycle, Update_Signals,
         End_Override, End_Update, Append_Force_Value, chainVars
  <2>. QED
    BY <1>1, <2>1, <2>2
<1>4. CASE UNCHANGED vars
  BY <1>1, <1>4 DEF vars, chainVars, forcedVars
<1>. QED
  BY <1>2, <1>3, <1>4, ValueAssignment, ValueRequest, ValueUpdate DEF Next, Update_Step

LEMMA ValueInvariant == Spec => [](TypeInv /\ ValueInv)
<1>1. Init => ValueInv
  BY ValueInit
<1>2. TypeInv /\ ChainInv /\ ValueInv /\ [Next]_vars => ValueInv'
  BY ValueStep
<1>. QED
  BY <1>1, <1>2, ChainInvariant, PTL DEF Spec

(* Outside of Update_Signals, a signal on which no force, deposit or release *)
(* is made has the value of its drivers, and a direct driver has given it    *)
(* its last value or will in the next cycle; a value that is written through *)
(* Ghdl_Signal_Start_Assign may come later, with a transaction of a normal   *)
(* driver of the signal.                                                     *)
THEOREM DriverValueAlwaysVisible == Spec => []DriverValueVisible
<1>1. TypeInv /\ ValueInv /\ ChainInv => DriverValueVisible
  <2>. SUFFICES ASSUME ValueInv, ChainInv, NEW s \in Signal \ Overridable, Net(s) # "No_Net"
                PROVE  /\ Value_Ptr[s] = Driver_Value(s)
                       /\ \A d \in Drivers_Of(s) \cap Direct :
                            First_Trans[d] # Direct_Value[d] =>
                              s \in Signal_Active_Chain \/ (d \in Started /\ Pending(s))
    BY DEF DriverValueVisible, Driver_Value
  <2>1. ValueExact(s)
    BY DEF ValueInv, Plain
  <2>2. Is_Direct_Active \subseteq Signal_Active_Chain
    BY DEF ChainInv, ChainComplete
  <2>. QED
    BY <2>1, <2>2 DEF ValueExact, Will_Take
<1>. QED
  BY <1>1, ValueInvariant, ChainInvariant, PTL

(* The early return of Ghdl_Signal_Simple_Assign loses nothing: the driver   *)
(* has the value already and no transaction is to be deleted.                *)
THEOREM SkipAlwaysHarmless == Spec => []SkipHarmless
<1>1. TypeInv /\ ValueInv => SkipHarmless
  <2>. SUFFICES ASSUME TypeOK, ValueInv, NEW d \in Driver, NEW val \in Value,
                       d \notin Direct, Signal_Of[d] \notin Overridable,
                       Simple_Assign_Skips(d, val)
                PROVE  /\ First_Trans[d] = val
                       /\ Preempt(Waveform[d], Current_Time) = Waveform[d]
    BY DEF SkipHarmless, TypeInv
  <2>. DEFINE s == Signal_Of[d]
  <2>1. s \in Signal /\ Net(s) = "One_Driver" /\ val = Value_Ptr[s] /\ Waveform[d] = << >>
    BY DriverAssumption DEF Simple_Assign_Skips
  <2>2. s \notin Resolved
    BY <2>1 DEF Net
  <2>3. Value_Ptr[s] = First_Trans[d]
    BY <2>1, <2>2, OneDriver DEF ValueInv, ValueExact, Plain, Driver_Value
  <2>4. /\ Preempt(Waveform[d], Current_Time) \in Seq(Transaction)
        /\ Len(Preempt(Waveform[d], Current_Time)) = 0
    <3>1. /\ Waveform[d] \in Seq(Transaction) /\ Ascending(Waveform[d])
          /\ Current_Time \in Int /\ Len(Waveform[d]) = 0
      BY <2>1, TimesAreNat DEF TypeOK, WaveformAscending, Ascending
    <3>2. /\ Before(Waveform[d], Current_Time) \in 0 .. Len(Waveform[d])
          /\ Preempt(Waveform[d], Current_Time) \in Seq(Transaction)
          /\ Len(Preempt(Waveform[d], Current_Time)) = Before(Waveform[d], Current_Time)
      BY <3>1, BeforeProperty, PreemptProperty
    <3>. QED
      BY <3>1, <3>2
  <2>. QED
    BY <2>1, <2>3, <2>4, EmptySeq
<1>. QED
  BY <1>1, ValueInvariant, PTL
=============================================================================
