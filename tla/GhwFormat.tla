------------------------------ MODULE GhwFormat ------------------------------
(***************************************************************************)
(* The units a GHW waveform file is made of, as src/src/grt/grt-waves.adb  *)
(* writes them and src/ghw/libghw.c reads them: bytes, numbers in variable *)
(* length (ULEB128, SLEB128, LSLEB128), numbers of a fixed size, and the   *)
(* names and kinds that mark sections and elements.                        *)
(*                                                                         *)
(* A file is a sequence of units [k, v].  Every byte of a number of        *)
(* variable length is a unit, so that a file that ends too early may end   *)
(* inside a number; a mark and a number of fixed size are one unit.  The   *)
(* widths are parameters.                                                  *)
(***************************************************************************)
EXTENDS Integers, Sequences, SequencesExt

CONSTANTS
  Group,        \* bits of a number in a byte: 7
  Prefix_Group, \* bits of a prefix length in a byte of the strings: 5
  Word,         \* bits of the 32 bit numbers
  Long          \* bits of the 64 bit numbers: two words

ASSUME FormatAssumption ==
  /\ Group \in Nat \ {0} /\ Prefix_Group \in Nat \ {0}
  /\ Word \in Nat \ {0} /\ Long = 2 * Word

VARIABLE file   \* the units written so far, or what is left of them

Byte(n) == [k |-> "byte", v |-> n]
Char(c) == [k |-> "char", v |-> c]
Mark(name) == [k |-> name, v |-> 0]
I32(n) == [k |-> "i32", v |-> n]

-----------------------------------------------------------------------------
(* Writing a number.                                                         *)

(* Groups of g bits of v, the lowest first; all but the last are flagged.    *)
Put_Groups(g, v) ==
  LET Put[n \in Nat] ==
        IF n < 2 ^ g THEN <<Byte(n)>>
        ELSE <<Byte(2 ^ g + (n % 2 ^ g))>> \o Put[n \div 2 ^ g]
  IN Put[v]

Wave_Put_ULEB128(v) == Put_Groups(Group, v)

(* Seeded fault: the sign bit of the last group is not looked at.            *)
Wave_Put_Signed_Short(v) ==
  LET Put[n \in Int] ==
        LET low == n % 2 ^ Group
            rest == n \div 2 ^ Group
        IN IF rest \in {0, -1} THEN <<Byte(low)>>
           ELSE <<Byte(2 ^ Group + low)>> \o Put[rest]
  IN Put[v]

(* Wave_Put_SLEB128 and Wave_Put_LSLEB128: the last group is the one whose   *)
(* top bit says what the rest, all zeros or all ones, would say.             *)
Wave_Put_Signed(v) ==
  LET Put[n \in Int] ==
        LET low == n % 2 ^ Group
            rest == n \div 2 ^ Group
        IN IF \/ rest = 0 /\ low < 2 ^ (Group - 1)
              \/ rest = -1 /\ low >= 2 ^ (Group - 1)
           THEN <<Byte(low)>>
           ELSE <<Byte(2 ^ Group + low)>> \o Put[rest]
  IN Put[v]

Wave_Put_I64(v) == <<[k |-> "i64", v |-> v % 2 ^ Long]>>

-----------------------------------------------------------------------------
(* Reading.  A function that fails at the end of the file gives the position *)
(* Past_End, from which every other gives Past_End again.                    *)

Past_End == Len(file) + 2

At(p) == IF p <= Len(file) THEN file[p] ELSE [k |-> "end", v |-> 0]

Skip(p) == IF p <= Len(file) THEN p + 1 ELSE Past_End

(* After the mark of this name, which must be there (memcmp).                *)
After_Mark(p, name) == IF At(p).k = name THEN p + 1 ELSE Past_End

(* After a number in groups of g bits.                                       *)
After_Groups(g, p) ==
  LET last == {q \in p .. Len(file) : file[q].v < 2 ^ g}
  IN IF last = {} THEN Past_End ELSE Min(last) + 1

(* The bits of that number.                                                  *)
Groups_At(g, p) ==
  FoldLeft(LAMBDA sum, i : sum + (At(p + i).v % 2 ^ g) * 2 ^ (g * i), 0,
           [i \in 1 .. (After_Groups(g, p) - p) |-> i - 1])

(* After n numbers.                                                          *)
After_Numbers(n, p) ==
  FoldLeft(LAMBDA q, i : After_Groups(Group, q), p, [i \in 1 .. n |-> i])

(* The signed number of this width with the bits of n.                       *)
To_Signed(width, n) ==
  LET bits == n % 2 ^ width
  IN IF bits >= 2 ^ (width - 1) THEN bits - 2 ^ width ELSE bits

ghw_read_uleb128(p) == Groups_At(Group, p) % 2 ^ Word

(* ghw_read_sleb128 and ghw_read_lsleb128: the bits above those read are set *)
(* when the top one of the last group is and they do not reach the width.    *)
Read_Signed(width, p) ==
  LET next == After_Groups(Group, p)
      off == Group * (next - p)
      extend == At(next - 1).v >= 2 ^ (Group - 1) /\ off < width
  IN To_Signed(width, Groups_At(Group, p) + (IF extend THEN 2 ^ width - 2 ^ off ELSE 0))

ghw_read_sleb128(p) == Read_Signed(Word, p)
ghw_read_lsleb128(p) == Read_Signed(Long, p)

(* The low word is an int: its sign reaches the high word.                   *)
ghw_get_i64(p) ==
  LET low == At(p).v % 2 ^ Word
      high == At(p).v \div 2 ^ Word
  IN IF low < 2 ^ (Word - 1) THEN To_Signed(Long, high * 2 ^ Word + low)
     ELSE low - 2 ^ Word
=============================================================================
