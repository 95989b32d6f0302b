-------------------------- MODULE DriversRefinement --------------------------
(***************************************************************************)
(* Drivers implements Waveforms, the rules of the language for projected   *)
(* output waveforms, under the refinement mapping LRM of Drivers: a list   *)
(* of transactions stands for the set of its elements.                     *)
(***************************************************************************)
EXTENDS DriversProofs

Set_Of(W) == {W[i] : i \in 1 .. Len(W)}

-----------------------------------------------------------------------------
(* The pulse rejection of Ghdl_Signal_Start_Assign is the marking of the     *)
(* language.                                                                 *)

(* The sets of transactions closed under the marking rules.                  *)
Closed(M, old, new, reject) ==
  /\ new \in M
  /\ \A o \in old : o.Time < new.Time - reject => o \in M
  /\ \A o \in old, m \in M :
       LRM!Precedes(o, m, old \cup {new}) /\ o.Val = m.Val => o \in M

(* The least closed set is the set of the marked transactions.               *)
LEMMA LeastMarked ==
  ASSUME NEW old, NEW new, NEW reject, NEW M \in SUBSET (old \cup {new}),
         Closed(M, old, new, reject),
         \A N \in SUBSET (old \cup {new}) : Closed(N, old, new, reject) => M \subseteq N
  PROVE  LRM!Marked(old, new, reject) = M
<1>. DEFINE Least(K) == /\ Closed(K, old, new, reject)
                        /\ \A N \in SUBSET (old \cup {new}) :
                             Closed(N, old, new, reject) => K \subseteq N
<1>1. LRM!Marked(old, new, reject) = CHOOSE K \in SUBSET (old \cup {new}) : Least(K)
  BY DEF LRM!Marked, Closed
<1>2. Least(M)
  OBVIOUS
<1>3. \A K \in SUBSET (old \cup {new}) : Least(K) => K = M
  <2>. SUFFICES ASSUME NEW K \in SUBSET (old \cup {new}), Least(K) PROVE K = M
    OBVIOUS
  <2>. QED
    BY <1>2
<1>. HIDE DEF Least
<1>. QED
  BY <1>1, <1>2, <1>3

(* The transaction that follows immediately the one at position i of V, once *)
(* a later one is appended.                                                  *)
LEMMA FollowsNext ==
  ASSUME NEW V \in Seq(Transaction), Ascending(V), NEW new \in Transaction,
         \A i \in 1 .. Len(V) : V[i].Time < new.Time,
         NEW i \in 1 .. Len(V)
  PROVE  /\ i < Len(V) => LRM!Precedes(V[i], V[i + 1], Set_Of(V) \cup {new})
         /\ i = Len(V) => LRM!Precedes(V[i], new, Set_Of(V) \cup {new})
         /\ \A j \in 1 .. Len(V) :
              LRM!Precedes(V[i], V[j], Set_Of(V) \cup {new}) => j = i + 1
         /\ LRM!Precedes(V[i], new, Set_Of(V) \cup {new}) => i = Len(V)
<1>0. /\ Len(V) \in Nat /\ new.Time \in Nat
      /\ \A j \in 1 .. Len(V) : V[j] \in Transaction /\ V[j].Time \in Nat
  BY TransactionTime
<1>1. \A j, k \in 1 .. Len(V) : V[j].Time < V[k].Time => j < k
  <2>. SUFFICES ASSUME NEW j \in 1 .. Len(V), NEW k \in 1 .. Len(V),
                       V[j].Time < V[k].Time, ~(j < k)
                PROVE  FALSE
    OBVIOUS
  <2>1. j = k \/ k < j
    OBVIOUS
  <2>. QED
    BY <1>0, <2>1 DEF Ascending
<1>2. \A j, k \in 1 .. Len(V) : j < k => V[j].Time < V[k].Time
  BY DEF Ascending
<1>3. \A c \in Set_Of(V) : \E k \in 1 .. Len(V) : c = V[k]
  BY DEF Set_Of
<1>4. \A k \in 1 .. Len(V) : V[k] \in Set_Of(V)
  BY DEF Set_Of
<1>5. ASSUME i < Len(V)
      PROVE  LRM!Precedes(V[i], V[i + 1], Set_Of(V) \cup {new})
  <2>1. i + 1 \in 1 .. Len(V) /\ V[i].Time < V[i + 1].Time
    BY <1>0, <1>2, <1>5
  <2>2. ASSUME NEW c \in Set_Of(V) \cup {new}, V[i].Time < c.Time, c.Time < V[i + 1].Time
        PROVE  FALSE
    <3>1. CASE c = new
      BY <1>0, <2>1, <2>2, <3>1
    <3>2. CASE c \in Set_Of(V)
      <4>1. PICK k \in 1 .. Len(V) : c = V[k]
        BY <1>3, <3>2
      <4>2. i < k /\ k < i + 1
        BY <1>1, <2>1, <2>2, <4>1
      <4>. QED
        BY <1>0, <4>2
    <3>. QED
      BY <3>1, <3>2
  <2>. QED
    BY <2>1, <2>2 DEF LRM!Precedes
<1>6. ASSUME i = Len(V)
      PROVE  LRM!Precedes(V[i], new, Set_Of(V) \cup {new})
  <2>1. ASSUME NEW c \in Set_Of(V) \cup {new}, V[i].Time < c.Time, c.Time < new.Time
        PROVE  FALSE
    <3>1. CASE c = new
      BY <1>0, <2>1, <3>1
    <3>2. CASE c \in Set_Of(V)
      <4>1. PICK k \in 1 .. Len(V) : c = V[k]
        BY <1>3, <3>2
      <4>2. i < k
        BY <1>1, <2>1, <4>1
      <4>. QED
        BY <1>0, <1>6, <4>2
    <3>. QED
      BY <3>1, <3>2
  <2>. QED
    BY <2>1 DEF LRM!Precedes
<1>7. ASSUME NEW j \in 1 .. Len(V), LRM!Precedes(V[i], V[j], Set_Of(V) \cup {new})
      PROVE  j = i + 1
  <2>1. /\ V[i].Time < V[j].Time
        /\ \A k \in 1 .. Len(V) : ~(V[i].Time < V[k].Time /\ V[k].Time < V[j].Time)
    BY <1>4, <1>7 DEF LRM!Precedes
  <2>2. i < j
    BY <1>1, <2>1
  <2>3. ASSUME i + 1 < j PROVE FALSE
    <3>1. i + 1 \in 1 .. Len(V) /\ i < i + 1
      BY <1>0, <2>3
    <3>. QED
      BY <1>2, <2>1, <2>3, <3>1
  <2>. QED
    BY <2>2, <2>3
<1>8. ASSUME LRM!Precedes(V[i], new, Set_Of(V) \cup {new}) PROVE i = Len(V)
  <2>1. \A k \in 1 .. Len(V) : ~(V[i].Time < V[k].Time /\ V[k].Time < new.Time)
    BY <1>4, <1>8 DEF LRM!Precedes
  <2>2. ASSUME i < Len(V) PROVE FALSE
    <3>1. i + 1 \in 1 .. Len(V) /\ i < i + 1
      BY <1>0, <2>2
    <3>. QED
      BY <1>2, <2>1, <3>1
  <2>. QED
    BY <1>0, <2>2
<1>. QED
  BY <1>5, <1>6, <1>7, <1>8

(* What Reject_Pulses keeps, and the new transaction, is what is marked.     *)
LEMMA RejectMarks ==
  ASSUME NEW V \in Seq(Transaction), Ascending(V), NEW reject \in Nat,
         NEW new \in Transaction, \A i \in 1 .. Len(V) : V[i].Time < new.Time
  PROVE  LRM!Marked(Set_Of(V), new, reject) =
           Set_Of(Reject_Pulses(V, reject, new.Time, new.Val)) \cup {new}
<1>. DEFINE t == new.Time
            val == new.Val
            R == Reject_Pulses(V, reject, t, val)
            old == Set_Of(V)
            M == Set_Of(R) \cup {new}
<1>0. /\ Len(V) \in Nat /\ t \in Nat /\ t \in Int /\ reject \in Int
      /\ \A j \in 1 .. Len(V) : V[j] \in Transaction /\ V[j].Time \in Nat
  BY TransactionTime
<1>. HIDE DEF t, val
<1>1. PICK prev \in 0 .. Len(V), next \in 0 .. Len(V) :
        Rejected(V, R, prev, next, t - reject, val)
  BY <1>0, RejectProperty
<1>2. /\ \A i \in 1 .. prev : V[i].Time < t - reject
      /\ \A i \in (prev + 1) .. Len(V) : V[i].Time >= t - reject
  <2>. DEFINE limit == t - reject
  <2>1. limit \in Int /\ prev = Before(V, limit)
    BY <1>0, <1>1 DEF Rejected
  <2>. HIDE DEF limit
  <2>2. /\ \A i \in 1 .. prev : V[i].Time < limit
        /\ \A i \in (prev + 1) .. Len(V) : V[i].Time >= limit
    BY <2>1, BeforeProperty
  <2>. QED
    BY <2>2 DEF limit
<1>. HIDE DEF R
<1>3. Set_Of(R) = {V[i] : i \in (1 .. prev) \cup ((next + 1) .. Len(V))}
  <2>1. /\ Len(R) = prev + (Len(V) - next) /\ prev <= next
        /\ \A i \in 1 .. prev : R[i] = V[i]
        /\ \A i \in (prev + 1) .. Len(R) : R[i] = V[next + (i - prev)]
        /\ \A i \in (next + 1) .. Len(V) : R[(i - next) + prev] = V[i]
    BY <1>1 DEF Rejected
  <2>2. ASSUME NEW i \in 1 .. Len(R)
        PROVE  \E j \in (1 .. prev) \cup ((next + 1) .. Len(V)) : R[i] = V[j]
    <3>1. CASE i <= prev
      BY <2>1, <3>1
    <3>2. CASE i > prev
      <4>1. next + (i - prev) \in (next + 1) .. Len(V) /\ i \in (prev + 1) .. Len(R)
        BY <1>0, <2>1, <3>2
      <4>. QED
        BY <2>1, <4>1
    <3>. QED
      BY <3>1, <3>2
  <2>3. ASSUME NEW i \in (1 .. prev) \cup ((next + 1) .. Len(V))
        PROVE  \E j \in 1 .. Len(R) : V[i] = R[j]
    <3>1. CASE i \in 1 .. prev
      BY <1>0, <2>1, <3>1
    <3>2. CASE i \in (next + 1) .. Len(V)
      <4>1. (i - next) + prev \in 1 .. Len(R)
        BY <1>0, <2>1, <3>2
      <4>. QED
        BY <2>1, <3>2, <4>1
    <3>. QED
      BY <3>1, <3>2
  <2>. DEFINE K == {V[i] : i \in (1 .. prev) \cup ((next + 1) .. Len(V))}
  <2>4. ASSUME NEW x \in Set_Of(R) PROVE x \in K
    BY <2>2 DEF Set_Of
  <2>5. ASSUME NEW x \in K PROVE x \in Set_Of(R)
    BY <2>3 DEF Set_Of
  <2>. QED
    BY <2>4, <2>5
<1>4. /\ prev <= next
      /\ next = prev \/ V[next].Val # val
      /\ \A j \in (next + 1) .. Len(V) : V[j].Val = val
  BY <1>1 DEF Rejected
<1>5. M \in SUBSET (old \cup {new})
  BY <1>0, <1>3 DEF Set_Of
<1>6. \A o \in old : \E i \in 1 .. Len(V) : o = V[i]
  BY DEF Set_Of
<1>7. Closed(M, old, new, reject)
  <2>1. ASSUME NEW o \in old, o.Time < t - reject PROVE o \in M
    <3>1. PICK i \in 1 .. Len(V) : o = V[i]
      BY <1>6
    <3>2. i <= prev
      BY <1>0, <1>2, <2>1, <3>1
    <3>. QED
      BY <1>3, <3>1, <3>2
  <2>2. ASSUME NEW o \in old, NEW m \in M, LRM!Precedes(o, m, old \cup {new}),
               o.Val = m.Val, o \notin M
        PROVE  FALSE
    <3>1. PICK i \in 1 .. Len(V) : o = V[i]
      BY <1>6
    <3>2. prev < i /\ i <= next
      BY <1>3, <2>2, <3>1
    <3>3. V[next].Val # val
      BY <1>4, <3>2
    <3>4. CASE m = new
      <4>1. i = Len(V)
        BY <2>2, <3>1, <3>4, FollowsNext
      <4>. QED
        BY <2>2, <3>1, <3>2, <3>3, <3>4, <4>1 DEF val
    <3>5. ASSUME NEW j \in (1 .. prev) \cup ((next + 1) .. Len(V)), m = V[j]
          PROVE  FALSE
      <4>0. j \in 1 .. Len(V) /\ LRM!Precedes(V[i], V[j], Set_Of(V) \cup {new})
        BY <1>0, <1>4, <2>2, <3>1, <3>5
      <4>1. j \in 1 .. Len(V) /\ j = i + 1
        BY <4>0, FollowsNext
      <4>2. i = next /\ j \in (next + 1) .. Len(V)
        BY <1>4, <3>2, <4>1
      <4>. QED
        BY <1>4, <2>2, <3>1, <3>3, <3>5, <4>2
    <3>. QED
      BY <1>3, <3>4, <3>5
  <2>. QED
    BY <2>1, <2>2 DEF Closed, t
<1>8. ASSUME NEW N \in SUBSET (old \cup {new}), Closed(N, old, new, reject)
      PROVE  M \subseteq N
  <2>1. /\ new \in N
        /\ \A o \in old : o.Time < t - reject => o \in N
        /\ \A o \in old, m \in N :
             LRM!Precedes(o, m, old \cup {new}) /\ o.Val = m.Val => o \in N
    BY <1>8 DEF Closed, t
  <2>2. \A i \in 1 .. Len(V) : V[i] \in old
    BY DEF Set_Of
  <2>3. \A i \in 1 .. prev : V[i] \in N
    BY <1>0, <1>2, <2>1, <2>2
  <2>4. \A i \in (next + 1) .. Len(V) : V[i] \in N
    <3>. DEFINE B == {i \in (next + 1) .. Len(V) : V[i] \notin N}
    <3>. SUFFICES ASSUME B # {} PROVE FALSE
      OBVIOUS
    <3>1. PICK i \in B : \A k \in B : k <= i
      <4>1. B \in SUBSET (0 .. Len(V))
        BY <1>0
      <4>. HIDE DEF B
      <4>. QED
        BY <1>0, <4>1, NatGreatest
    <3>2. i \in 1 .. Len(V) /\ V[i] \in old /\ V[i] \notin N /\ V[i].Val = val
      BY <1>0, <1>4, <2>2
    <3>3. CASE i = Len(V)
      BY <2>1, <3>2, <3>3, FollowsNext DEF val
    <3>4. CASE i < Len(V)
      <4>1. i + 1 \in (next + 1) .. Len(V)
        BY <1>0, <3>4
      <4>2. V[i + 1] \in N
        BY <3>1, <4>1
      <4>3. V[i + 1].Val = val /\ LRM!Precedes(V[i], V[i + 1], old \cup {new})
        BY <1>4, <3>2, <3>4, <4>1, FollowsNext
      <4>. QED
        BY <2>1, <3>2, <4>2, <4>3
    <3>. QED
      BY <3>2, <3>3, <3>4
  <2>. QED
    BY <1>3, <2>1, <2>3, <2>4
<1>. HIDE DEF M, old
<1>9. LRM!Marked(old, new, reject) = M
  BY <1>5, <1>7, <1>8, LeastMarked
<1>. QED
  BY <1>9 DEF M, old, R, t, val

(* The new transaction is one more.                                          *)
LEMMA AppendSet ==
  ASSUME NEW U \in Seq(Transaction), NEW new \in Transaction
  PROVE  Set_Of(Append(U, new)) = Set_Of(U) \cup {new}
<1>0. /\ Append(U, new) \in Seq(Transaction)
      /\ Len(Append(U, new)) = Len(U) + 1 /\ Len(U) \in Nat
      /\ Append(U, new)[Len(U) + 1] = new
      /\ \A i \in 1 .. Len(U) : Append(U, new)[i] = U[i]
  BY AppendProperties, LenProperties
<1>1. ASSUME NEW x \in Set_Of(Append(U, new)) PROVE x \in Set_Of(U) \cup {new}
  <2>1. PICK i \in 1 .. (Len(U) + 1) : x = Append(U, new)[i]
    BY <1>0 DEF Set_Of
  <2>2. i = Len(U) + 1 \/ i \in 1 .. Len(U)
    BY <1>0
  <2>. QED
    BY <1>0, <2>1, <2>2 DEF Set_Of
<1>2. ASSUME NEW x \in Set_Of(U) \cup {new} PROVE x \in Set_Of(Append(U, new))
  <2>1. \E i \in 1 .. (Len(U) + 1) : x = Append(U, new)[i]
    BY <1>0, <1>2 DEF Set_Of
  <2>. QED
    BY <1>0, <2>1 DEF Set_Of
<1>. QED
  BY <1>1, <1>2

Earlier(W, t) == {o \in Set_Of(W) : o.Time < t}

(* What Ghdl_Signal_Start_Assign leaves of a waveform is what the language   *)
(* leaves of it.                                                             *)
LEMMA ProjectRefines ==
  ASSUME NEW W \in Seq(Transaction), Ascending(W), NEW reject \in Nat,
         NEW new \in Transaction
  PROVE  Set_Of(Project(W, reject, new.Time, new.Val)) =
           IF reject > 0 THEN LRM!Marked(Earlier(W, new.Time), new, reject)
           ELSE Earlier(W, new.Time) \cup {new}
<1>. DEFINE t == new.Time
            old == Earlier(W, t)
            V == Preempt(W, t)
            R == Reject_Pulses(V, reject, t, new.Val)
            U == IF reject > 0 THEN R ELSE V
<1>0. /\ Len(W) \in Nat /\ t \in Nat /\ t \in Int /\ t \in Time /\ new.Val \in Value
      /\ \A i \in 1 .. Len(W) : W[i] \in Transaction /\ W[i].Time \in Nat
      /\ new = [Time |-> t, Val |-> new.Val]
  <2>1. new = [Time |-> new.Time, Val |-> new.Val]
    BY DEF Transaction
  <2>. QED
    BY <2>1, TransactionTime
<1>1. /\ V \in Seq(Transaction) /\ Ascending(V) /\ Len(V) \in 0 .. Len(W)
      /\ \A i \in 1 .. Len(V) : V[i] = W[i] /\ W[i].Time < t
      /\ \A i \in 1 .. Len(W) : W[i].Time < t => i \in 1 .. Len(V)
  <2>. HIDE DEF t
  <2>1. /\ V \in Seq(Transaction) /\ Ascending(V) /\ Len(V) = Before(W, t)
        /\ \A i \in 1 .. Len(V) : V[i] = W[i] /\ W[i].Time < t
    BY <1>0, PreemptProperty
  <2>2. /\ Before(W, t) \in 0 .. Len(W)
        /\ \A i \in (Before(W, t) + 1) .. Len(W) : W[i].Time >= t
    BY <1>0, BeforeProperty
  <2>. HIDE DEF V
  <2>3. ASSUME NEW i \in 1 .. Len(W), W[i].Time < t PROVE i \in 1 .. Len(V)
    <3>1. ~(i \in (Before(W, t) + 1) .. Len(W))
      BY <1>0, <2>2, <2>3
    <3>. QED
      BY <1>0, <2>1, <2>2, <3>1
  <2>. QED
    BY <2>1, <2>2, <2>3
<1>. HIDE DEF V
<1>2. Set_Of(V) = old
  <2>1. ASSUME NEW o \in old PROVE o \in Set_Of(V)
    <3>1. PICK i \in 1 .. Len(W) : o = W[i] /\ W[i].Time < t
      BY DEF Set_Of, Earlier
    <3>. QED
      BY <1>1, <3>1 DEF Set_Of
  <2>2. ASSUME NEW o \in Set_Of(V) PROVE o \in old
    <3>1. PICK i \in 1 .. Len(V) : o = V[i]
      BY DEF Set_Of
    <3>2. i \in 1 .. Len(W) /\ o = W[i] /\ W[i].Time < t
      BY <1>0, <1>1, <3>1
    <3>. QED
      BY <3>2 DEF Set_Of, Earlier
  <2>. QED
    BY <2>1, <2>2
<1>3. U \in Seq(Transaction)
  <2>1. CASE reject > 0
    <3>. HIDE DEF t
    <3>1. PICK prev \in 0 .. Len(V), next \in 0 .. Len(V) :
            Rejected(V, R, prev, next, t - reject, new.Val)
      BY <1>0, <1>1, RejectProperty
    <3>. QED
      BY <2>1, <3>1 DEF Rejected
  <2>2. CASE ~(reject > 0)
    BY <1>1, <2>2
  <2>. QED
    BY <2>1, <2>2
<1>4. Project(W, reject, t, new.Val) = Append(U, new)
  <2>1. Project(W, reject, t, new.Val) = Append(U, [Time |-> t, Val |-> new.Val])
    BY DEF Project, V
  <2>. HIDE DEF U
  <2>. QED
    BY <1>0, <2>1
<1>5. Set_Of(Append(U, new)) = Set_Of(U) \cup {new}
  BY <1>3, AppendSet
<1>6. CASE reject > 0
  <2>1. \A i \in 1 .. Len(V) : V[i].Time < new.Time
    BY <1>1
  <2>2. LRM!Marked(Set_Of(V), new, reject) = Set_Of(R) \cup {new}
    BY <1>1, <2>1, RejectMarks
  <2>. QED
    BY <1>2, <1>4, <1>5, <1>6, <2>2
<1>7. CASE ~(reject > 0)
  BY <1>2, <1>4, <1>5, <1>7
<1>. QED
  BY <1>6, <1>7

-----------------------------------------------------------------------------
(* The refinement, step by step.                                             *)

Listed == Driver \ Direct

(* The values of wave and current under the refinement mapping.              *)
Wave == [d \in Listed |-> Set_Of(Waveform[d])]
Current == [d \in Listed |-> First_Trans[d]]

LEMMA MappedTransaction == LRM!Transaction = Transaction
  BY DEF LRM!Transaction, Transaction, Time

LEMMA RefineInit == Init => LRM!Init
<1>. SUFFICES ASSUME Init PROVE LRM!Init
  OBVIOUS
<1>1. /\ Current_Time = 0
      /\ \A d \in Driver : Waveform[d] = << >> /\ First_Trans[d] \in Value
  BY DEF Init
<1>2. \A d \in Listed : {Waveform[d][i] : i \in 1 .. Len(Waveform[d])} = {}
  BY <1>1 DEF Listed
<1>. QED
  BY <1>1, <1>2 DEF LRM!Init, Listed

(* Steps that leave the transactions and the time alone.                     *)
LEMMA RefineStutter ==
  ASSUME UNCHANGED <<Current_Time, Waveform, First_Trans>>
  PROVE  UNCHANGED LRM!vars
  BY DEF LRM!vars

(* A step that replaces the transactions of one driver.                      *)
LEMMA MappedWave ==
  ASSUME TypeOK, NEW d \in Listed, NEW W, Waveform' = [Waveform EXCEPT ![d] = W]
  PROVE  Wave' = [Wave EXCEPT ![d] = Set_Of(W)]
<1>1. \A e \in Listed : Waveform'[e] = IF e = d THEN W ELSE Waveform[e]
  BY DEF TypeOK, Listed
<1>2. ASSUME NEW e \in Listed
      PROVE  Set_Of(Waveform'[e]) = IF e = d THEN Set_Of(W) ELSE Set_Of(Waveform[e])
  BY <1>1
<1>3. Wave' = [e \in Listed |-> Set_Of(Waveform'[e])]
  BY DEF Wave, Set_Of
<1>. QED
  BY <1>2, <1>3 DEF Wave

LEMMA RefineStart ==
  ASSUME TypeOK, NEW d \in Driver, NEW reject \in Delays, NEW after \in Delays,
         NEW val \in Value, Start_Assign(d, reject, after, val)
  PROVE  LRM!Next \/ UNCHANGED LRM!vars
<1>1. d \in Listed /\ UNCHANGED <<Current_Time, First_Trans>>
  BY DEF Start_Assign, Listed, timeVars
<1>2. CASE Beyond(after)
  BY <1>1, <1>2, RefineStutter DEF Start_Assign
<1>3. CASE ~Beyond(after)
  <2>. DEFINE rej == IF reject > after THEN 0 ELSE reject
              W == Waveform[d]
  <2>0. PICK new : new = [Time |-> Current_Time + after, Val |-> val]
    OBVIOUS
  <2>. DEFINE old == {o \in Wave[d] : o.Time < new.Time}
  <2>1. /\ Current_Time \in Nat /\ Last_Time \in Nat /\ after \in Nat /\ reject \in Nat
        /\ Delays \subseteq 0 .. Last_Time
        /\ W \in Seq(Transaction) /\ Ascending(W)
    <3>1. W \in Seq(Transaction) /\ Ascending(W)
      BY DEF TypeOK, WaveformAscending, Ascending
    <3>2. Current_Time \in Nat /\ Last_Time \in Nat
      BY TimesAreNat
    <3>3. Delays \subseteq 0 .. Last_Time
      BY ONLY BoundAssumption DEF BoundAssumption
    <3>. HIDE DEF W
    <3>. QED
      BY ONLY <3>1, <3>2, <3>3, after \in Delays, reject \in Delays
  <2>2. /\ new \in Transaction /\ new.Time = Current_Time + after /\ new.Val = val
        /\ rej \in Nat /\ rej \in 0 .. Last_Time
        /\ Current_Time <= new.Time - rej
    BY <1>3, <2>0, <2>1 DEF Beyond, Transaction, Time
  <2>3. Waveform' = [Waveform EXCEPT ![d] = Project(W, rej, new.Time, new.Val)]
    BY <1>3, <2>2 DEF Start_Assign
  <2>4. Wave[d] = Set_Of(W)
    BY <1>1 DEF Wave
  <2>. HIDE DEF rej, W
  <2>5. Set_Of(Project(W, rej, new.Time, new.Val)) =
          IF rej > 0 THEN LRM!Marked(old, new, rej) ELSE old \cup {new}
    <3>1. old = Earlier(W, new.Time)
      BY <2>4 DEF Earlier
    <3>. HIDE DEF old
    <3>. QED
      BY <2>1, <2>2, <3>1, ProjectRefines
  <2>6. Wave' = [Wave EXCEPT ![d] = Set_Of(Project(W, rej, new.Time, new.Val))]
    BY <1>1, <2>3, MappedWave
  <2>7. Current' = Current
    BY <1>1 DEF Current
  <2>8. LRM!Assign(d, rej, new)
    <3>1. Wave' = [Wave EXCEPT ![d] = IF rej > 0 THEN LRM!Marked(old, new, rej)
                                      ELSE old \cup {new}]
      BY <2>5, <2>6
    <3>. QED
      BY <1>1, <2>2, <2>7, <3>1 DEF LRM!Assign, Wave, Current, Listed, Set_Of
  <2>9. new \in LRM!Transaction
    BY <2>2, MappedTransaction
  <2>. QED
    BY <1>1, <2>2, <2>8, <2>9 DEF LRM!Next, Listed
<1>. QED
  BY <1>2, <1>3

LEMMA RefineNext ==
  ASSUME TypeOK, ChainInv, NEW d \in Driver, NEW after \in Delays, NEW val \in Value,
         Next_Assign(d, after, val)
  PROVE  LRM!Next \/ UNCHANGED LRM!vars
<1>1. d \in Listed /\ UNCHANGED <<Current_Time, First_Trans>>
  BY DEF Next_Assign, Listed, timeVars, ChainInv, DirectIdle
<1>2. CASE Beyond(after) \/ Current_Time + after <= Last_Trans_Time(d)
  BY <1>1, <1>2, RefineStutter DEF Next_Assign
<1>3. CASE ~(Beyond(after) \/ Current_Time + after <= Last_Trans_Time(d))
  <2>. DEFINE W == Waveform[d]
  <2>0. PICK new : new = [Time |-> Current_Time + after, Val |-> val]
    OBVIOUS
  <2>1. After_Last(d, new)
    BY <1>3, <2>0, AfterLast
  <2>2. Waveform' = [Waveform EXCEPT ![d] = Append(W, new)]
    BY <1>3, <2>0 DEF Next_Assign, TypeOK
  <2>3. /\ new \in Transaction /\ new.Time \in Nat /\ Current_Time \in Nat
        /\ W \in Seq(Transaction)
        /\ \A i \in 1 .. Len(W) : W[i].Time < new.Time /\ W[i] \in Transaction
    BY <2>1, TransactionTime, TimesAreNat DEF After_Last, TypeOK
  <2>4. new.Time > Current_Time
    <3>1. CASE W = << >>
      BY <2>1, <3>1 DEF After_Last
    <3>2. CASE W # << >>
      <4>1. 1 \in 1 .. Len(W)
        BY <2>3, <3>2, EmptySeq, TransactionTime
      <4>2. W[1].Time >= Current_Time /\ W[1].Time \in Nat
        BY <2>3, <4>1, FirstTransaction DEF ChainInv, NoOverdueTransaction
      <4>. QED
        BY <2>3, <4>1, <4>2
    <3>. QED
      BY <3>1, <3>2
  <2>5. Wave[d] = Set_Of(W)
    BY <1>1 DEF Wave
  <2>. HIDE DEF W
  <2>6. Set_Of(Append(W, new)) = Set_Of(W) \cup {new}
    BY <2>3, AppendSet
  <2>7. Wave' = [Wave EXCEPT ![d] = Wave[d] \cup {new}]
    BY <1>1, <2>2, <2>5, <2>6, MappedWave
  <2>8. \A o \in Wave[d] : o.Time < new.Time
    BY <2>3, <2>5 DEF Set_Of
  <2>9. Current' = Current
    BY <1>1 DEF Current
  <2>10. LRM!Extend(d, new)
    BY <1>1, <2>4, <2>7, <2>8, <2>9 DEF LRM!Extend, Wave, Current, Listed, Set_Of
  <2>11. new \in LRM!Transaction
    BY <2>3, MappedTransaction
  <2>. QED
    BY <1>1, <2>10, <2>11 DEF LRM!Next, Listed
<1>. QED
  BY <1>2, <1>3

LEMMA RefineAssignment ==
  ASSUME TypeOK, ChainInv, NEW d \in Driver, Assignment(d)
  PROVE  LRM!Next \/ UNCHANGED LRM!vars
<1>1. ASSUME NEW val \in Value, Direct_Assign(d, val) PROVE UNCHANGED LRM!vars
  BY <1>1, RefineStutter DEF Direct_Assign, timeVars
<1>2. ASSUME NEW val \in Value, Start_Assign_Direct(d, val) PROVE UNCHANGED LRM!vars
  BY <1>2, RefineStutter DEF Start_Assign_Direct, timeVars
<1>. QED
  BY <1>1, <1>2, RefineStart, RefineNext DEF Assignment

(* A driver that takes its first transaction, the only one of the current    *)
(* time.                                                                     *)
LEMMA TakeRefines ==
  ASSUME NEW W \in Seq(Transaction), Ascending(W), W # << >>,
         NEW now, W[1].Time = now
  PROVE  /\ \E tr \in Set_Of(W) : tr.Time = now
         /\ Set_Of(Tail(W)) = {tr \in Set_Of(W) : tr.Time # now}
         /\ (CHOOSE tr \in Set_Of(W) : tr.Time = now) = W[1]
<1>1. /\ Len(W) \in Nat \ {0} /\ Len(Tail(W)) = Len(W) - 1
      /\ \A i \in 1 .. Len(Tail(W)) :
           i + 1 \in 1 .. Len(W) /\ Tail(W)[i] = W[i + 1] /\ W[i + 1].Time > W[1].Time
      /\ \A i \in 1 .. Len(W) : W[i].Time \in Nat
  BY TailProperty, TransactionTime
<1>2. W[1] \in Set_Of(W)
  BY <1>1 DEF Set_Of
<1>3. ASSUME NEW i \in 1 .. Len(W) PROVE i = 1 \/ (i - 1 \in 1 .. Len(Tail(W)) /\ W[i] = Tail(W)[i - 1])
  <2>1. CASE i # 1
    <3>1. i - 1 \in 1 .. Len(Tail(W)) /\ (i - 1) + 1 = i
      BY <1>1, <2>1
    <3>. QED
      BY <1>1, <3>1
  <2>. QED
    BY <2>1
<1>4. \A i \in 1 .. Len(Tail(W)) : Tail(W)[i] \in Set_Of(W) /\ Tail(W)[i].Time # now
  <2>. TAKE i \in 1 .. Len(Tail(W))
  <2>1. i + 1 \in 1 .. Len(W) /\ Tail(W)[i] = W[i + 1] /\ W[i + 1].Time > W[1].Time
    BY <1>1
  <2>2. W[i + 1].Time \in Nat /\ W[1].Time \in Nat
    BY <1>1, <2>1
  <2>. QED
    BY <2>1, <2>2 DEF Set_Of
<1>5. \A tr \in Set_Of(W) : tr = W[1] \/ tr \in Set_Of(Tail(W))
  BY <1>3 DEF Set_Of
<1>6. \A tr \in Set_Of(Tail(W)) : tr \in Set_Of(W) /\ tr.Time # now
  BY <1>4 DEF Set_Of
<1>. QED
  BY <1>2, <1>5, <1>6

LEMMA RefineUpdate ==
  ASSUME SingleAssumption, TypeOK, ChainInv, DirectFlagged,
         NEW s \in Signal, Update_A_Signal(s)
  PROVE  LRM!Next
<1>. DEFINE D == Taking(s)
<1>0. PICK now : now = Current_Time
  OBVIOUS
<1>1. /\ Current_Time' = Current_Time
      /\ First_Trans' = [d \in Driver |->
                          IF d \in Drivers_Of(s) \cap Direct THEN Direct_Value[d]
                          ELSE IF d \in D THEN Waveform[d][1].Val
                          ELSE First_Trans[d]]
  BY DEF Update_A_Signal, Taking, timeVars
<1>2. D \subseteq Listed
  BY DEF Taking, Listed, Drivers_Of
<1>. HIDE DEF D
<1>3. \A d \in Listed : First_Trans'[d] = IF d \in D THEN Waveform[d][1].Val ELSE First_Trans[d]
  BY <1>1 DEF Listed
<1>4. ASSUME NEW d \in D
      PROVE  /\ \E tr \in Set_Of(Waveform[d]) : tr.Time = Current_Time
             /\ Set_Of(Waveform'[d]) = {tr \in Set_Of(Waveform[d]) : tr.Time # Current_Time}
             /\ (CHOOSE tr \in Set_Of(Waveform[d]) : tr.Time = Current_Time) = Waveform[d][1]
  <2>. DEFINE W == Waveform[d]
  <2>1. /\ W \in Seq(Transaction) /\ Ascending(W) /\ W # << >> /\ W[1].Time = now
        /\ Waveform'[d] = Tail(W)
    BY <1>0, TakingOnTime, UpdateTakes DEF D
  <2>. HIDE DEF W
  <2>2. /\ \E tr \in Set_Of(W) : tr.Time = now
        /\ Set_Of(Tail(W)) = {tr \in Set_Of(W) : tr.Time # now}
        /\ (CHOOSE tr \in Set_Of(W) : tr.Time = now) = W[1]
    BY <2>1, TakeRefines
  <2>. QED
    BY <1>0, <2>1, <2>2 DEF W
<1>5. \A d \in Listed \ D : Waveform'[d] = Waveform[d]
  BY UpdateTakes DEF D, Listed
<1>6. \A d \in D : \E tr \in Wave[d] : tr.Time = Current_Time
  BY <1>2, <1>4 DEF Wave
<1>7. Wave' = [d \in Listed |-> IF d \in D THEN {tr \in Wave[d] : tr.Time # Current_Time}
                                ELSE Wave[d]]
  <2>1. Wave' = [d \in Listed |-> Set_Of(Waveform'[d])]
    BY DEF Wave, Set_Of
  <2>2. \A d \in Listed : Wave[d] = Set_Of(Waveform[d])
    BY DEF Wave
  <2>3. ASSUME NEW d \in Listed
        PROVE  Set_Of(Waveform'[d]) = IF d \in D THEN {tr \in Wave[d] : tr.Time # Current_Time}
                                      ELSE Wave[d]
    BY <1>4, <1>5, <2>2
  <2>. QED
    BY <2>1, <2>3
<1>8. Current' = [d \in Listed |->
                   IF d \in D THEN (CHOOSE tr \in Wave[d] : tr.Time = Current_Time).Val
                   ELSE Current[d]]
  <2>1. Current' = [d \in Listed |-> First_Trans'[d]]
    BY DEF Current
  <2>2. ASSUME NEW d \in D
        PROVE  (CHOOSE tr \in Wave[d] : tr.Time = Current_Time) = Waveform[d][1]
    <3>1. Wave[d] = Set_Of(Waveform[d])
      BY <1>2 DEF Wave
    <3>. QED
      BY <1>4, <3>1
  <2>3. ASSUME NEW d \in Listed
        PROVE  First_Trans'[d] =
                 IF d \in D THEN (CHOOSE tr \in Wave[d] : tr.Time = Current_Time).Val
                 ELSE Current[d]
    BY <1>3, <2>2 DEF Current
  <2>. QED
    BY <2>1, <2>3
<1>9. PICK E : E = D
  OBVIOUS
<1>10. LRM!Mature(E)
  BY <1>1, <1>6, <1>7, <1>8, <1>9 DEF LRM!Mature, Wave, Current, Listed, Set_Of
<1>. QED
  BY <1>2, <1>9, <1>10 DEF LRM!Next, Listed

LEMMA RefineCycle ==
  ASSUME TypeOK, ChainInv, Start_Cycle
  PROVE  LRM!Next \/ UNCHANGED LRM!vars
<1>1. /\ phase = "cycle" /\ Current_Time' = Next_Time
      /\ UNCHANGED <<Waveform, First_Trans>>
  BY DEF Start_Cycle, driverVars
<1>2. /\ Next_Time >= Current_Time
      /\ \A d \in Driver : \A i \in 1 .. Len(Waveform[d]) : Waveform[d][i].Time >= Next_Time
  BY <1>1 DEF ChainInv, TimesInv, NoOverdueTransaction
<1>3. /\ Current_Time \in Nat /\ Next_Time \in Nat /\ Last_Time \in Nat
      /\ Next_Time <= Last_Time
  BY TimesAreNat DEF TypeOK, Time
<1>4. CASE Next_Time = Current_Time
  BY <1>1, <1>4, RefineStutter
<1>5. CASE Next_Time # Current_Time
  <2>1. Current_Time' \in (Current_Time + 1) .. Last_Time
    BY <1>1, <1>2, <1>3, <1>5
  <2>2. \A d \in Driver \ Direct :
          \A tr \in {Waveform[d][i] : i \in 1 .. Len(Waveform[d])} : tr.Time >= Current_Time'
    BY <1>1, <1>2
  <2>3. LRM!Advance
    BY <1>1, <2>1, <2>2 DEF LRM!Advance
  <2>. QED
    BY <2>3 DEF LRM!Next
<1>. QED
  BY <1>4, <1>5

LEMMA RefineStep ==
  ASSUME SingleAssumption, TypeInv, ChainInv, DirectFlagged, [Next]_vars
  PROVE  [LRM!Next]_(LRM!vars)
<1>0. TypeOK
  BY DEF TypeInv
<1>1. CASE UNCHANGED vars
  BY <1>1, RefineStutter DEF vars, timeVars, driverVars
<1>2. ASSUME NEW d \in Driver, Assignment(d) PROVE [LRM!Next]_(LRM!vars)
  BY <1>0, <1>2, RefineAssignment
<1>3. ASSUME NEW tn \in Current_Time .. Last_Time, Cycle_Step(tn)
      PROVE  [LRM!Next]_(LRM!vars)
  <2>1. PICK chain, delta, later : Next_Time_Step(tn, chain, delta, later)
    BY <1>3, CycleStep
  <2>. QED
    BY <2>1, RefineStutter DEF Next_Time_Step, Compute, driverVars
<1>4. ASSUME NEW s \in Signal, Update_A_Signal(s) PROVE [LRM!Next]_(LRM!vars)
  BY <1>0, <1>4, RefineUpdate
<1>5. CASE Start_Cycle
  BY <1>0, <1>5, RefineCycle
<1>6. CASE \/ Elab_Postponed \/ No_Postponed \/ Run_Postponed \/ Update_Signals
           \/ Apply_Release \/ Apply_Force \/ Apply_Deposite
           \/ End_Override \/ End_Update
           \/ \E f \in Overrides : Append_Force_Value(f)
  <2>1. UNCHANGED <<Current_Time, Waveform, First_Trans>>
    BY <1>6 DEF Elab_Postponed, No_Postponed, Run_Postponed, Update_Signals, Apply_Release,
       Apply_Force, Apply_Deposite, End_Override, End_Update, Append_Force_Value,
       timeVars, driverVars
  <2>. QED
    BY <2>1, RefineStutter
<1>. QED
  BY <1>1, <1>2, <1>3, <1>4, <1>5, <1>6 DEF Next, Update_Step

(* Waveforms are modified as the language says, for any signals, drivers,    *)
(* delays and rejection limits: pulses are rejected by its marking rules, a  *)
(* transaction takes effect at its time, and time never passes one.          *)
THEOREM WaveformsImplemented ==
  ASSUME SingleAssumption
  PROVE  Spec => ImplementsWaveforms
<1>1. TypeInv /\ ChainInv /\ DirectFlagged /\ [Next]_vars => [LRM!Next]_(LRM!vars)
  BY RefineStep
<1>2. Spec => LRM!Init /\ [][LRM!Next]_(LRM!vars)
  BY <1>1, RefineInit, ChainInvariant, FlagInvariant, PTL DEF Spec
<1>. QED
  BY <1>2 DEF ImplementsWaveforms, LRM!Spec
=============================================================================
