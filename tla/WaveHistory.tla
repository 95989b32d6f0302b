----------------------------- MODULE WaveHistory -----------------------------
(***************************************************************************)
(* What a waveform file promises: whoever reads it is shown, in order,     *)
(* what the simulation recorded, all of it if the simulation closed the    *)
(* file, and at least nothing else if it did not.                          *)
(***************************************************************************)
EXTENDS Naturals, Sequences

VARIABLES
  recorded,   \* by the simulation, times and values
  writer,     \* "recording", "closed" or "lost"
  shown,      \* to the reader
  reader      \* "reading", "eof" or "error"

vars == <<recorded, writer, shown, reader>>

Init ==
  /\ recorded = << >> /\ writer = "recording"
  /\ shown = << >> /\ reader = "reading"

Record ==
  /\ writer = "recording"
  /\ Len(recorded') = Len(recorded) + 1
  /\ SubSeq(recorded', 1, Len(recorded)) = recorded
  /\ UNCHANGED <<writer, shown, reader>>

(* The file is closed, or the program dies.                                  *)
Stop ==
  /\ writer = "recording"
  /\ writer' \in {"closed", "lost"}
  /\ UNCHANGED <<recorded, shown, reader>>

Show ==
  /\ writer # "recording" /\ reader = "reading"
  /\ Len(shown) < Len(recorded)
  /\ shown' = Append(shown, recorded[Len(shown) + 1])
  /\ UNCHANGED <<recorded, writer, reader>>

(* The reader ends, before it has seen everything only if the file was lost, *)
(* and fails only then or if there is nothing to see.                        *)
End ==
  /\ writer # "recording" /\ reader = "reading"
  /\ reader' \in {"eof", "error"}
  /\ shown = recorded \/ writer = "lost"
  /\ reader' = "error" => writer = "lost" \/ recorded = << >>
  /\ UNCHANGED <<recorded, writer, shown>>

Next == Record \/ Stop \/ Show \/ End

(* Once the simulation is over, the reader comes to an end.                  *)
Comes_To_End == writer # "recording" ~> reader # "reading"

Spec == Init /\ [][Next]_vars /\ Comes_To_End
=============================================================================
