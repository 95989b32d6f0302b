---------------------------- MODULE SourceBuffer ----------------------------
(***************************************************************************)
(* The text of a document as the language server keeps it: a buffer with a *)
(* gap and a table of line positions (src/src/files_map-editor.adb and     *)
(* src/src/files_map.adb), filled, edited and extended by Document         *)
(* (src/pyGHDL/lsp/document.py) as the messages of the client say.         *)
(*                                                                         *)
(* A Source_File_Record is a record F.  F.Source is a function from 0, the *)
(* character at each position; what is in the gap may be anything left by  *)
(* previous edits, and is written Stale.                                   *)
(***************************************************************************)
EXTENDS Integers, Sequences, FiniteSets, FiniteSetsExt, SequencesExt

CONSTANTS
  Letters,           \* characters that do not end a line
  Eols,              \* the ends of line: a document has one of them
  Inserts,           \* the texts that a change inserts, of letters and "eol"
  Files,             \* the texts that a document is opened with
  Initial_Gap,       \* Document.initial_gap_size
  Max_Length,        \* longest document of the client (a bound)
  Max_Gap_Size,      \* no extension beyond this gap_size (a bound)
  Assertions         \* whether pragma Assert is compiled in (-gnata)

ASSUME SourceBufferAssumption ==
  /\ Letters \cap {"eol", "LF", "CR", "EOT", "stale"} = {}
  /\ Eols \subseteq {<<"LF">>, <<"CR", "LF">>} /\ Eols # {}
  /\ Inserts \subseteq Seq(Letters \cup {"eol"}) /\ Files \subseteq Seq(Letters \cup {"eol"})
  /\ Initial_Gap \in Nat /\ Initial_Gap >= 2 /\ Assertions \in BOOLEAN

VARIABLES
  F,         \* the Source_File_Record of the document
  gap_size,  \* Document.gap_size
  eol,       \* the end of line of the document
  document,  \* the text in the client
  status     \* "closed": not open, never loaded; "changing": in the loop of
             \* apply_changes; "analyzed": between two messages; "failed": an
             \* exception was raised in libghdl

vars == <<F, gap_size, eol, document, status>>

Stale == "stale"

(* The bytes of a text of the client.                                        *)
Encoded(text, newline) ==
  LET B[i \in 0 .. Len(text)] ==
        IF i = 0 THEN << >> ELSE B[i - 1] \o (IF text[i] = "eol" THEN newline ELSE <<text[i]>>)
  IN B[Len(text)]
Bytes(text) == Encoded(text, eol)

(* The position of the client before the character i + 1 of its text: the    *)
(* line, from 1, and the offset.                                             *)
Line_Of(text, i) == 1 + Cardinality({j \in 1 .. i : text[j] = "eol"})
Offset_Of(text, i) == i - Max({0} \cup {j \in 1 .. i : text[j] = "eol"})

-----------------------------------------------------------------------------
(* files_map.adb                                                             *)

Get_Buffer_Length(f) == Cardinality(DOMAIN f.Source)

Gap_Length(f) == f.Gap_Last - f.Gap_Start + 1

Get_Content_Length(f) ==
  IF f.Gap_Start >= f.File_Length THEN f.File_Length ELSE f.File_Length - Gap_Length(f)

Skip_Gap(f, p) == IF p = f.Gap_Start THEN f.Gap_Last + 1 ELSE p

(* The new file of Reserve_Source_File.                                      *)
Reserve_Source_File(length) ==
  [Source |-> [p \in 0 .. length - 1 |-> Stale], File_Length |-> 0,
   Gap_Start |-> length, Gap_Last |-> length, \* Source_Ptr_Last: nowhere
   Lines |-> <<0>>, Cache_Line |-> 1, Cache_Pos |-> 0]

(* Seeded fault: one character is not moved.                                 *)
Moved_Short(source, to, from, length) ==
  [p \in DOMAIN source |->
     IF p \in to .. to + length - 2 THEN source[from + p - to] ELSE source[p]]

(* The characters from of a source, moved to the position to.                *)
Moved(source, to, from, length) ==
  [p \in DOMAIN source |->
     IF p \in to .. to + length - 1 THEN source[from + p - to] ELSE source[p]]

(* A text written at a position.                                             *)
Written(source, to, bytes) ==
  [p \in DOMAIN source |->
     IF p \in to .. to + Len(bytes) - 1 THEN bytes[p - to + 1] ELSE source[p]]

Clear_Gap(f) ==
  [f EXCEPT !.Source = [p \in DOMAIN @ |-> IF p \in f.Gap_Start .. f.Gap_Last THEN Stale ELSE @[p]]]

(* Seeded fault: the cache of the line table survives an edition.            *)
Clear_Cache_Not(f) == f

Clear_Cache(f) == [f EXCEPT !.Cache_Line = 1, !.Cache_Pos = 0]

(* The line of a position, of its line table from Low to Hi.                 *)
Location_To_Line(f, pos) ==
  LET Search[b \in (1 .. Len(f.Lines)) \X (0 .. Len(f.Lines))] ==
        LET Low == b[1]
            Hi == b[2]
            Mid == (Hi + Low) \div 2
        IN IF Hi < Low THEN 0 \* an assertion fails
           ELSE IF pos < f.Lines[Mid] THEN IF Mid = Low THEN 0 ELSE Search[<<Low, Mid - 1>>]
           ELSE IF Mid = Len(f.Lines) THEN Mid
           ELSE IF pos < f.Lines[Mid + 1] \/ pos = f.Lines[Mid] THEN Mid
           ELSE IF Mid + 1 > Hi THEN 0
           ELSE Search[<<Mid + 1, Hi>>]
  IN IF f.Cache_Line > Len(f.Lines) THEN 0
     ELSE IF pos >= f.Cache_Pos THEN Search[<<f.Cache_Line, Len(f.Lines)>>]
     ELSE Search[<<1, f.Cache_Line>>]

(* Location_To_Coord: the four lines after the cached one are tried first.   *)
Located_Line(f, pos) ==
  LET next == {i \in 1 .. 4 : f.Cache_Line + 4 <= Len(f.Lines) /\ f.Lines[f.Cache_Line + i] > pos}
  IN IF pos >= f.Cache_Pos /\ next # {} THEN f.Cache_Line + Min(next) - 1
     ELSE Location_To_Line(f, pos)

-----------------------------------------------------------------------------
(* files_map-editor.adb                                                      *)

(* The length of the end of line at p, in a source that ends at last.        *)
Is_Newline(text, p, last) ==
  CASE text[p] = "CR" -> IF p < last /\ text[p + 1] = "LF" THEN 2 ELSE 1
    [] text[p] = "LF" -> IF p < last /\ text[p + 1] = "CR" THEN 2 ELSE 1
    [] OTHER -> 0

(* The positions after each end of line of a file.                           *)
Ends_Of_Lines(f) ==
  LET last == Get_Buffer_Length(f) - 1
      After[p \in 0 .. f.File_Length] ==
        LET n == Is_Newline(f.Source, p, last)
            next == Skip_Gap(f, p + n)
        IN IF p = f.File_Length THEN << >>
           ELSE IF n = 0 THEN After[p + 1]
           ELSE <<next>> \o After[next]
  IN After[0]

(* The positions of the lines of a buffer: Compute_Lines, and what the       *)
(* scanner gives to File_Add_Line_Number.                                    *)
Compute_Lines(f) == <<0>> \o Ends_Of_Lines(f)

(* A text to insert is read likewise, without a gap.                         *)
As_File(text) ==
  [Source |-> [p \in 0 .. Len(text) - 1 |-> text[p + 1]], File_Length |-> Len(text),
   Gap_Start |-> Len(text) + 1, Gap_Last |-> Len(text) + 1]
After_Newlines(text) == Ends_Of_Lines(As_File(text))

(* [error, f]: the file with the gap moved to the end of a line.             *)
Move_Gap(f, Line) ==
  LET at_end == Line = Len(f.Lines)
      there == IF at_end THEN f.Gap_Start >= f.File_Length
               ELSE f.Lines[Line + 1] = f.Gap_Last + 1
      target == IF at_end THEN f.File_Length + 2 ELSE f.Lines[Line + 1]
      gap == Gap_Length(f)
      back(diff) ==
        [f EXCEPT
           !.Source = Moved(@, f.Gap_Last - diff + 1, target, diff),
           !.File_Length = IF f.Gap_Start >= @ THEN @ + gap ELSE @,
           !.Lines = [L \in DOMAIN @ |->
                        IF L > Line /\ (\A k \in Line + 1 .. L : @[k] < f.Gap_Start)
                        THEN @[L] + gap ELSE @[L]],
           !.Gap_Start = target, !.Gap_Last = target + gap - 1]
      forth(start, diff) ==
        [f EXCEPT
           !.Source = Moved(@, f.Gap_Start, f.Gap_Last + 1, diff),
           !.File_Length = IF target > @ THEN @ - gap ELSE @,
           !.Lines = [L \in DOMAIN @ |->
                        IF L <= Line /\ (\A k \in L .. Line : @[k] > f.Gap_Start)
                        THEN @[L] - gap ELSE @[L]],
           !.Gap_Start = start, !.Gap_Last = start + gap - 1]
  IN IF there
     THEN [error |-> Assertions /\ at_end /\ f.Gap_Start # f.File_Length + 2, f |-> f]
     ELSE [error |-> FALSE,
           f |-> Clear_Cache(IF target < f.Gap_Start THEN back(f.Gap_Start - target)
                             ELSE forth(target - gap, target - gap - f.Gap_Start))]

(* The number of characters in [start, end), or -1 if the gap is partly in.  *)
Get_Range_Length(f, start, end) ==
  IF end < start \/ end > f.File_Length THEN -1
  ELSE IF f.Gap_Last < start \/ f.Gap_Start >= end THEN end - start
  ELSE IF f.Gap_Last > end \/ f.Gap_Start <= start THEN -1
  ELSE end - start - Gap_Length(f)

(* Seeded fault: the lines joined by a deletion stay in the table.           *)
Renumbered_Joined(Lines, Start_Line, End_Line, start, text) ==
  LET new == After_Newlines(text)
  IN SubSeq(Lines, 1, Start_Line) \o [i \in DOMAIN new |-> start + new[i]]
       \o SubSeq(Lines, Start_Line + 1, Len(Lines))

(* The line table after the lines after Start_Line up to End_Line gave place *)
(* to those of a text written at start.                                      *)
Renumbered(Lines, Start_Line, End_Line, start, text) ==
  LET new == After_Newlines(text)
  IN SubSeq(Lines, 1, Start_Line) \o [i \in DOMAIN new |-> start + new[i]]
       \o SubSeq(Lines, End_Line + 1, Len(Lines))

(* The characters of [start, end) replaced: the gap is at the end of the     *)
(* line of end.                                                              *)
Replaced(f, Start_Line, End_Line, start, end, range, text) ==
  LET move == f.Gap_Start - end
      new == start + Len(text)
      lines == Renumbered(f.Lines, Start_Line, End_Line, start, text)
      same == Start_Line = End_Line /\ After_Newlines(text) = << >>
      g == [f EXCEPT
              !.Source = Written(Moved(@, new, end, move), start, text),
              !.File_Length = IF f.Gap_Start > @ THEN @ + Len(text) - range ELSE @,
              !.Gap_Start = new + move,
              !.Lines = lines]
  IN Clear_Gap(IF same THEN g ELSE Clear_Cache(g))

(* [status, f]: "done", "full" (nothing replaced) or "error".                *)
Replace_Text(f, Start_Line, Start_Off, End_Line, End_Off, text) ==
  LET replace(g, start, end, range) ==
        IF range = -1 THEN [status |-> "error", f |-> g]
        ELSE IF Len(text) > Gap_Length(g) + range THEN [status |-> "full", f |-> g]
        ELSE [status |-> "done",
              f |-> Replaced(g, Start_Line, End_Line, start, end, range, text)]
      moved(m) ==
        IF m.error THEN [status |-> "error", f |-> m.f]
        ELSE LET start == m.f.Lines[Start_Line] + Start_Off
                 end == m.f.Lines[End_Line] + End_Off
             IN replace(m.f, start, end, Get_Range_Length(m.f, start, end))
  IN moved(Move_Gap(f, End_Line))

(* Seeded fault: the gap begins at the second EOT.                           *)
Fill_Text_Over(f, text) ==
  Clear_Gap(Clear_Cache(
    [f EXCEPT !.Source = Written(@, 0, text \o <<"EOT", "EOT">>),
              !.File_Length = Len(text),
              !.Gap_Start = Len(text) + 1, !.Gap_Last = Get_Buffer_Length(f) - 1,
              !.Lines = <<0>>]))

(* Fill_Text_Ptr, when the text fits: the gap is after the two EOT.          *)
Fills(f, text) == Len(text) + 2 <= Get_Buffer_Length(f)
Fill_Text(f, text) ==
  Clear_Gap(Clear_Cache(
    [f EXCEPT !.Source = Written(@, 0, text \o <<"EOT", "EOT">>),
              !.File_Length = Len(text),
              !.Gap_Start = Len(text) + 2, !.Gap_Last = Get_Buffer_Length(f) - 1,
              !.Lines = <<0>>]))

(* Copy_Source_File asserts that a gap which is not in the content of src is *)
(* after the two EOT: an empty one in front of the first EOT is not.         *)
Copy_Fails(src) ==
  Assertions /\ src.Gap_Start >= src.File_Length /\ src.Gap_Start # Get_Content_Length(src) + 2

(* A change that first copies src, with its result if the copy is made.      *)
Copied(src, result) ==
  IF Copy_Fails(src) THEN [status |-> "error", f |-> src] ELSE result

(* Copy_Source_File: the content of src, without its gap.                    *)
Content(f) ==
  LET at(i) == IF f.Gap_Start < f.File_Length /\ i >= f.Gap_Start THEN i + Gap_Length(f) ELSE i
  IN [i \in 1 .. Get_Content_Length(f) |-> f.Source[at(i - 1)]]
Copy_Source_File(dest, src) ==
  LET filled == Fill_Text(dest, Content(src))
  IN [filled EXCEPT !.Lines = Compute_Lines(filled)]

-----------------------------------------------------------------------------
(* document.py                                                               *)

(* Seeded fault: no room for the new text.                                   *)
Extended_Less(f, new_size, gap) ==
  Copy_Source_File(Reserve_Source_File(f.File_Length + gap), f)

(* __extend_source_buffer, with the gap size already doubled.                *)
Extended(f, new_size, gap) ==
  Copy_Source_File(Reserve_Source_File(f.File_Length + new_size + gap), f)

(* The file after it was analyzed: the scanner adds the lines it finds, and  *)
(* those already known must be the same (File_Add_Line_Number).              *)
Lint_OK(f) ==
  LET scanned == Compute_Lines(f)
  IN \A L \in DOMAIN scanned \cap DOMAIN f.Lines : scanned[L] = f.Lines[L]
Linted(f) ==
  LET scanned == Compute_Lines(f)
  IN [f EXCEPT !.Lines = IF Len(scanned) > Len(@) THEN scanned ELSE @]

Analyze(f) ==
  /\ F' = Linted(f)
  /\ status' = IF Lint_OK(f) THEN "analyzed" ELSE "failed"

Init ==
  /\ F = Reserve_Source_File(0) /\ gap_size = Initial_Gap /\ eol \in Eols
  /\ document = << >> /\ status = "closed"

(* textDocument/didOpen of a document that is not loaded.                    *)
Load ==
  /\ status = "closed"
  /\ \E text \in Files :
       /\ document' = text
       /\ Analyze(Fill_Text(Reserve_Source_File(Len(Bytes(text)) + Initial_Gap), Bytes(text)))
  /\ UNCHANGED <<gap_size, eol>>

(* Whether reload extends the buffer for a text of l bytes.                  *)
Reload_Extends(l) == l >= Get_Buffer_Length(F)

(* textDocument/didOpen of a document that is loaded; the client closed it   *)
(* and its file has now another text.  If the buffer cannot be extended, the *)
(* one that is kept is too short.                                            *)
Reload ==
  /\ status = "analyzed"
  /\ \E text \in Files :
       LET l == Len(Bytes(text))
           gap == IF Reload_Extends(l) THEN 2 * gap_size ELSE gap_size
           f == IF Reload_Extends(l) /\ ~Copy_Fails(F) THEN Extended(F, l, gap) ELSE F
       IN /\ document' = text /\ gap <= Max_Gap_Size
          /\ gap_size' = gap
          /\ \/ Fills(f, Bytes(text)) /\ Analyze(Fill_Text(f, Bytes(text)))
             \/ ~Fills(f, Bytes(text)) /\ F' = f /\ status' = "failed"
  /\ UNCHANGED eol

(* The end of a change: what was replaced, or what failed.                   *)
Ends_Change(r) == F' = r.f /\ status' = IF r.status = "done" THEN "changing" ELSE "failed"

(* apply_change: one of the changes of textDocument/didChange, the text from *)
(* first to last of the client replaced.  The buffer is extended if the gap  *)
(* is too small.                                                             *)
Apply_Change ==
  /\ status \in {"analyzed", "changing"}
  /\ \E first \in 0 .. Len(document), last \in 0 .. Len(document), text \in Inserts :
       LET replace(f) == Replace_Text(f, Line_Of(document, first), Offset_Of(document, first),
                                      Line_Of(document, last), Offset_Of(document, last),
                                      Bytes(text))
           once == replace(F)
           again == Copied(once.f, replace(Extended(once.f, Len(Bytes(text)), 2 * gap_size)))
       IN /\ first <= last
          /\ Len(document) + Len(text) - (last - first) <= Max_Length
          /\ document' = SubSeq(document, 1, first) \o text
                           \o SubSeq(document, last + 1, Len(document))
          /\ \/ once.status # "full" /\ Ends_Change(once) /\ gap_size' = gap_size
             \/ /\ once.status = "full" /\ 2 * gap_size <= Max_Gap_Size
                /\ Ends_Change(again) /\ gap_size' = 2 * gap_size
  /\ UNCHANGED eol

(* The end of textDocument/didChange, or textDocument/didSave: the document  *)
(* is analyzed.                                                              *)
Lint ==
  /\ status \in {"analyzed", "changing"}
  /\ Analyze(F)
  /\ UNCHANGED <<gap_size, eol, document>>

(* A location of a node or of a message is converted to a line: the cache    *)
(* is set.                                                                   *)
Locate ==
  /\ status = "analyzed"
  /\ \E p \in (0 .. F.File_Length) \ (F.Gap_Start .. F.Gap_Last) :
       LET Line == Located_Line(F, p)
       IN F' = [F EXCEPT !.Cache_Line = Line, !.Cache_Pos = F.Lines[Line]]
  /\ UNCHANGED <<gap_size, eol, document, status>>

Next == Load \/ Reload \/ Apply_Change \/ Lint \/ Locate

Spec == Init /\ [][Next]_vars

-----------------------------------------------------------------------------
In_Use == status \in {"analyzed", "changing"}

(* Type invariant of the Source_File_Record (files_map.ads:304-345).         *)
TypeOK ==
  /\ gap_size \in Nat /\ eol \in Eols /\ document \in Seq(Letters \cup {"eol"})
  /\ status \in {"closed", "changing", "analyzed", "failed"}
  /\ DOMAIN F.Source = 0 .. Get_Buffer_Length(F) - 1
  /\ F.File_Length \in Nat /\ F.Gap_Start \in Nat /\ F.Gap_Last \in F.Gap_Start - 1 .. Get_Buffer_Length(F)
  /\ F.Lines \in Seq(0 .. F.File_Length)
  /\ F.Cache_Line \in DOMAIN F.Lines /\ F.Cache_Pos = F.Lines[F.Cache_Line]

(* The gap is after the two EOT, to the end of the buffer, or between the    *)
(* end of a line and the next line, and then the EOT end the buffer: the     *)
(* scanner skips the gap nowhere else (files_map.adb:898, used by            *)
(* vhdl-scanner.adb:1634; files_map-editor.adb:155).                         *)
GapSound ==
  In_Use =>
    /\ F.Source[F.File_Length] = "EOT" /\ F.Source[F.File_Length + 1] = "EOT"
    /\ \/ F.Gap_Start = F.File_Length + 2 /\ F.Gap_Last = Get_Buffer_Length(F) - 1
       \/ /\ F.Gap_Last < F.File_Length /\ F.File_Length + 2 = Get_Buffer_Length(F)
          /\ Contains(F.Lines, F.Gap_Last + 1)
          /\ F.Source[F.Gap_Start - 1] = Last(eol)

(* The Source_File_Record is sound after every step (files_map.ads:304-345). *)
BufferSound == TypeOK /\ GapSound

(* After each change the buffer without its gap is the text of the client    *)
(* (files_map-editor.adb:292-321, document.py:98-120), as didSave checks.    *)
ContentMirrors == In_Use => Content(F) = Bytes(document)

(* The position of the client before each character is a position of the     *)
(* buffer: that of the character (files_map-editor.adb:199-227, 323-363).    *)
Buffer_Position(i) ==
  LET b == Len(Bytes(SubSeq(document, 1, i)))
  IN IF b >= F.Gap_Start THEN b + Gap_Length(F) ELSE b
PositionsExact ==
  In_Use =>
    /\ Len(F.Lines) = Line_Of(document, Len(document))
    /\ \A i \in 0 .. Len(document) :
         F.Lines[Line_Of(document, i)] + Offset_Of(document, i) = Buffer_Position(i)

(* The line of a position is the line of the client, whatever was looked up  *)
(* before the last changes (files_map.adb:195-338).                          *)
LookupExact ==
  status = "analyzed" =>
    \A i \in 0 .. Len(document) : Located_Line(F, Buffer_Position(i)) = Line_Of(document, i)

(* A call of libghdl fails only for a text that would fill the buffer but    *)
(* for one EOT, or when the gap is empty and in front of the EOT             *)
(* (document.py:69, files_map-editor.adb:168 and 453).                       *)
FailsOnlyIfFull ==
  status = "failed" => \/ Len(Bytes(document)) + 1 = Get_Buffer_Length(F)
                       \/ Gap_Length(F) = 0 /\ F.Gap_Start = F.File_Length
=============================================================================
