------------------------------ MODULE Waveforms ------------------------------
(***************************************************************************)
(* What the language promises of the projected output waveform of a driver *)
(* (LRM93 8.4.1 and 12.6.1, quoted in the comments of                      *)
(* Ghdl_Signal_Start_Assign): the abstract specification that Drivers      *)
(* implements.  A waveform is a set of transactions; no list, no chain of  *)
(* active signals and no cached next time.                                 *)
(***************************************************************************)
EXTENDS Integers

CONSTANTS
  Driver,      \* the drivers
  Value,       \* the values of a transaction
  Horizon      \* TIME'HIGH

VARIABLES
  now,         \* the current time, Tc
  wave,        \* the projected transactions of each driver
  current      \* the value of the driver: its current transaction

vars == <<now, wave, current>>

Transaction == [Time : 0 .. Horizon, Val : Value]

Init ==
  /\ now = 0
  /\ wave = [d \in Driver |-> {}]
  /\ current \in [Driver -> Value]

(* Transaction b is the one that immediately follows a in W.                 *)
Precedes(a, b, W) ==
  /\ a.Time < b.Time
  /\ ~\E c \in W : a.Time < c.Time /\ c.Time < b.Time

(* The marked transactions of an inertial assignment: the new one, the old   *)
(* ones before the pulse rejection limit, and, going back from a marked      *)
(* one, those of the same value.  The least set closed under these rules.    *)
Marked(old, new, reject) ==
  LET W == old \cup {new}
      Closed(M) ==
        /\ new \in M
        /\ \A o \in old : o.Time < new.Time - reject => o \in M
        /\ \A o \in old, m \in M :
             Precedes(o, m, W) /\ o.Val = m.Val => o \in M
  IN  CHOOSE M \in SUBSET W :
        Closed(M) /\ \A N \in SUBSET W : Closed(N) => M \subseteq N

(* A signal assignment: the old transactions at or after the new one are     *)
(* deleted, and the unmarked ones if the delay is inertial; the rejection    *)
(* limit is at most the delay.                                               *)
Assign(d, reject, new) ==
  /\ UNCHANGED <<now, current>>
  /\ now <= new.Time - reject
  /\ LET old == {o \in wave[d] : o.Time < new.Time}
     IN  wave' = [wave EXCEPT ![d] = IF reject > 0 THEN Marked(old, new, reject)
                                     ELSE old \cup {new}]

(* A further element of the waveform of the assignment.                      *)
Extend(d, new) ==
  /\ UNCHANGED <<now, current>>
  /\ new.Time > now
  /\ \A o \in wave[d] : o.Time < new.Time
  /\ wave' = [wave EXCEPT ![d] = wave[d] \cup {new}]

(* The transactions whose time has come take effect, on all the drivers of a *)
(* signal at once.                                                           *)
Mature(D) ==
  /\ \A d \in D : \E tr \in wave[d] : tr.Time = now
  /\ wave' = [d \in Driver |-> IF d \in D THEN {tr \in wave[d] : tr.Time # now}
                               ELSE wave[d]]
  /\ current' = [d \in Driver |->
                  IF d \in D THEN (CHOOSE tr \in wave[d] : tr.Time = now).Val
                  ELSE current[d]]
  /\ UNCHANGED now

(* Time advances, never past a transaction that has not taken effect.        *)
Advance ==
  /\ now' \in (now + 1) .. Horizon
  /\ \A d \in Driver : \A tr \in wave[d] : tr.Time >= now'
  /\ UNCHANGED <<wave, current>>

Next ==
  \/ \E d \in Driver, reject \in 0 .. Horizon, new \in Transaction :
       Assign(d, reject, new)
  \/ \E d \in Driver, new \in Transaction : Extend(d, new)
  \/ \E D \in SUBSET Driver : Mature(D)
  \/ Advance

Spec == Init /\ [][Next]_vars
=============================================================================
