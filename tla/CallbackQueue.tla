---------------------------- MODULE CallbackQueue ----------------------------
(***************************************************************************)
(* What grt-callbacks.ads promises to those who register callbacks: a list *)
(* is called in order of registration, one-shot callbacks once; those that *)
(* are appended while the list is called wait for the next call; timed     *)
(* callbacks are called at their time, in order; a removed callback is     *)
(* never called.  No cell, no link, no mark and no cached time.            *)
(***************************************************************************)
EXTENDS Integers, Sequences, Subsequence

CONSTANTS Callback, Horizon, Nobody

VARIABLES
  now,
  queue,   \* the registered callbacks: [cb, once]
  todo,    \* what is left of the call of the queue that has begun
  timed,   \* the callbacks registered at a time: [cb, at], ascending
  running  \* the callback being called

vars == <<now, queue, todo, timed, running>>

Entries(s) == {s[i] : i \in 1 .. Len(s)}

Without(s, c) == Only(s, {e \in Entries(s) : e.cb # c})

Init ==
  /\ now = 0
  /\ queue = << >> /\ todo = << >> /\ timed = << >>
  /\ running = Nobody

Register(c, once) ==
  /\ Without(queue, c) = queue /\ Without(timed, c) = timed /\ c # running
  /\ queue' = Append(queue, [cb |-> c, once |-> once])
  /\ UNCHANGED <<now, todo, timed, running>>

(* After those of the same time, before the later ones.                      *)
Register_At(c, t) ==
  /\ Without(queue, c) = queue /\ Without(timed, c) = timed /\ c # running
  /\ t >= now
  /\ timed' = Only(timed, {e \in Entries(timed) : e.at <= t})
                \o <<[cb |-> c, at |-> t]>>
                \o Only(timed, {e \in Entries(timed) : e.at > t})
  /\ UNCHANGED <<now, queue, todo, running>>

Remove(c) ==
  /\ queue' = Without(queue, c)
  /\ todo' = Without(todo, c)
  /\ timed' = Without(timed, c)
  /\ UNCHANGED <<now, running>>

Begin ==
  /\ running = Nobody /\ todo = << >>
  /\ todo' = queue
  /\ UNCHANGED <<now, queue, timed, running>>

Call ==
  /\ running = Nobody /\ todo # << >>
  /\ LET e == Head(todo)
     IN  /\ running' = e.cb
         /\ queue' = IF e.once THEN Without(queue, e.cb) ELSE queue
  /\ todo' = Tail(todo)
  /\ UNCHANGED <<now, timed>>

Call_Timed ==
  /\ running = Nobody /\ todo = << >>
  /\ timed # << >> /\ Head(timed).at = now
  /\ running' = Head(timed).cb
  /\ timed' = Tail(timed)
  /\ UNCHANGED <<now, queue, todo>>

Return ==
  /\ running # Nobody
  /\ running' = Nobody
  /\ UNCHANGED <<now, queue, todo, timed>>

(* Time never passes a callback that has not been called.                    *)
Advance ==
  /\ running = Nobody /\ todo = << >>
  /\ now' \in (now + 1) .. Horizon
  /\ timed # << >> => now' <= Head(timed).at
  /\ UNCHANGED <<queue, todo, timed, running>>

Next ==
  \/ \E c \in Callback :
       \/ \E once \in BOOLEAN : Register(c, once)
       \/ \E t \in 0 .. Horizon : Register_At(c, t)
       \/ Remove(c)
  \/ Begin \/ Call \/ Call_Timed \/ Return \/ Advance

Spec == Init /\ [][Next]_vars
=============================================================================
