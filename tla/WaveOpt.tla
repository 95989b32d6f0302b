------------------------------- MODULE WaveOpt -------------------------------
(***************************************************************************)
(* The wave option file (src/src/grt/grt-wave_opt-file.adb and             *)
(* grt-wave_opt-design.adb): its lines are paths of signals, with "*" and  *)
(* "**", kept as a tree; a walk over the design goes down the tree with a  *)
(* list of the elements that match so far, and what has an empty list is   *)
(* not dumped.                                                             *)
(*                                                                         *)
(* A name is a sequence of characters.  An element of the tree is its path *)
(* from the root, which is << >>; the tree is the sequence of its elements *)
(* in the order of their creation, which is also the order of siblings.    *)
(***************************************************************************)
EXTENDS Integers, Sequences, SequencesExt

Star == <<42>>            \* "*"
Star_Star == <<42, 42>>   \* "**"

Next_Child(tree, n) ==    \* the children, in order
  SelectSeq(tree, LAMBDA c : Len(c) = Len(n) + 1 /\ IsPrefix(n, c))

(* Update_Tree for each name of a line.  A line that goes on below the end   *)
(* of an earlier one is superseded; one that ends above earlier ones         *)
(* supersedes them.                                                          *)
Parse_Path(tree, line) ==
  LET known == {n \in 0 .. Len(line) : n = 0 \/ Contains(tree, SubSeq(line, 1, n))}
      cursor == SubSeq(line, 1, Max(known))
  IN IF cursor = line
     THEN SelectSeq(tree, LAMBDA n : ~IsStrictPrefix(line, n))
     ELSE IF cursor # << >> /\ Next_Child(tree, cursor) = << >> THEN tree
     ELSE tree \o [i \in 1 .. (Len(line) - Len(cursor)) |->
                     SubSeq(line, 1, Len(cursor) + i)]

Parse_File(lines) == FoldLeft(Parse_Path, << >>, lines)

Match_Expr(tree, c, name, is_signal) ==
  LET leaf == Next_Child(tree, c) = << >>
  IN \/ Last(c) = name
     \/ Last(c) = Star /\ is_signal = leaf
     \/ Last(c) = Star_Star /\ (~is_signal \/ leaf)

(* Seeded fault: "**" stands for the sub-entities of one level only.         *)
Find_Cursor_Flat(tree, parents, name, is_signal) ==
  {c \in ToSet(tree) : /\ \E n \in parents : Contains(Next_Child(tree, n), c)
                       /\ Match_Expr(tree, c, name, is_signal)}

(* The elements that match an object of this name in a scope that matches    *)
(* the parents.  "**" stays in the list unless its first child matches.      *)
Find_Cursor(tree, parents, name, is_signal) ==
  LET stay(n) ==
        LET kids == Next_Child(tree, n)
        IN CASE n = << >> -> {}
             [] n # << >> /\ Last(n) # Star_Star -> {}
             [] OTHER ->
                  IF kids # << >> /\ Last(kids[1]) = name THEN {kids[1]}
                  ELSE IF ~is_signal \/ kids = << >> THEN {n} ELSE {}
  IN Find_Cursor_Flat(tree, parents, name, is_signal) \cup UNION {stay(n) : n \in parents}

-----------------------------------------------------------------------------
(* What the lines of a file say of a path: "*" stands for any name, "**" for *)
(* one or more (doc/using/Simulation.rst:207-237), with two rules of GHDL's  *)
(* own.  A line that ends above another supersedes it.  And "**" does not    *)
(* stand for a name, after its first one, with which the first of the lines  *)
(* that go on after it does so.                                              *)
Line_Names(lines, line, path) ==
  LET goes_on(i) ==
        LET after == SelectSeq(lines, LAMBDA l : IsStrictPrefix(SubSeq(line, 1, i), l))
        IN IF i = Len(line) THEN {} ELSE {after[1][i + 1]}
      Names[x \in (0 .. Len(line)) \X (0 .. Len(path))] ==
        LET i == x[1]
            j == x[2]
        IN IF i = 0 \/ j = 0 THEN i = j
           ELSE CASE line[i] = Star_Star ->
                       \E k \in 0 .. (j - 1) :
                         /\ Names[<<i - 1, k>>]
                         /\ \A m \in (k + 2) .. j : path[m] \notin goes_on(i)
                  [] line[i] = Star -> Names[<<i - 1, j - 1>>]
                  [] OTHER -> line[i] = path[j] /\ Names[<<i - 1, j - 1>>]
  IN /\ \A l \in ToSet(lines) : ~IsStrictPrefix(l, line)
     /\ Names[<<Len(line), Len(path)>>]
=============================================================================
