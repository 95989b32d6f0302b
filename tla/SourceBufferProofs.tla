------------------------- MODULE SourceBufferProofs -------------------------
(***************************************************************************)
(* Proofs about SourceBuffer: the invariants of its run, for all values of *)
(* the constants, with assertions compiled in.                             *)
(*                                                                         *)
(* The inductive invariant says that the file mirrors a text: its          *)
(* characters but the gap are those of the text and two EOT, the gap is    *)
(* after an end of line or after the EOT, and the line table has exactly   *)
(* the lines of the text, each at its place.  The first parts of the       *)
(* module are about texts, tables of lines and the scan of a buffer; then  *)
(* each operation of files_map-editor.adb is shown to keep a file that     *)
(* mirrors its text, or to make it mirror the new one.                     *)
(***************************************************************************)
EXTENDS SourceBuffer, FiniteSetTheorems, SequenceTheorems, TLAPS

-----------------------------------------------------------------------------
(* Induction over the natural numbers, for a set.                            *)
LEMMA SetInduction ==
  ASSUME NEW T, T \subseteq Nat, 0 \in T, \A n \in T : n + 1 \in T
  PROVE  Nat \subseteq T
<1> SUFFICES ASSUME NEW n \in Nat, n \notin T PROVE FALSE OBVIOUS
<1> DEFINE B == (0 .. n) \cap T
<1> DEFINE f == [x \in B |-> x + 1]
<1>1. IsFiniteSet(B)
  <2>1. IsFiniteSet(0 .. n) BY FS_Interval, 0 \in Int, n \in Int
  <2> QED BY <2>1, FS_Subset, B \subseteq 0 .. n
<1>2. 0 \in B OBVIOUS
<1>3. IsFiniteSet(B \ {0}) /\ Cardinality(B \ {0}) = Cardinality(B) - 1
  BY <1>1, <1>2, FS_RemoveElement
<1>4. Cardinality(B) \in Nat BY <1>1, FS_CardinalityType
<1>5. f \in [B -> B \ {0}]
  <2>1. ASSUME NEW x \in B PROVE x + 1 \in B \ {0} BY <2>1, x # n
  <2> QED BY <2>1
<1>6. \A x, y \in B : x # y => f[x] # f[y] OBVIOUS
<1> HIDE DEF B, f
<1>7. Cardinality(B \ {0}) < Cardinality(B) BY <1>3, <1>4
<1> QED BY <1>1, <1>3, <1>5, <1>6, <1>7, FS_PigeonHole

(* Induction over sequences, for a set.                                      *)
LEMMA SequenceInduction ==
  ASSUME NEW S, NEW T, << >> \in T,
         \A s \in Seq(S), x \in S : s \in T => Append(s, x) \in T
  PROVE  Seq(S) \subseteq T
<1> DEFINE U == {n \in Nat : \A s \in Seq(S) : Len(s) = n => s \in T}
<1>1. 0 \in U
  <2>1. \A s \in Seq(S) : Len(s) = 0 => s = << >> BY EmptySeq
  <2> QED BY <2>1
<1>2. ASSUME NEW n \in U PROVE n + 1 \in U
  <2>1. n \in Nat /\ \A s \in Seq(S) : Len(s) = n => s \in T OBVIOUS
  <2> HIDE DEF U
  <2>2. ASSUME NEW s \in Seq(S), Len(s) = n + 1 PROVE s \in T
    <3>1. s # << >> BY <2>1, <2>2
    <3>2. PICK u \in Seq(S), x \in S : s = Append(u, x)
      BY <3>1, SequenceEmptyOrAppend
    <3>3. Len(u) = n BY <2>1, <2>2, <3>2, AppendProperties
    <3> QED BY <2>1, <3>2, <3>3
  <2> QED BY <2>1, <2>2 DEF U
<1> HIDE DEF U
<1>3. Nat \subseteq U BY <1>1, <1>2, SetInduction DEF U
<1>4. ASSUME NEW s \in Seq(S) PROVE s \in T
  <2>1. Len(s) \in U BY <1>3
  <2> QED BY <2>1 DEF U
<1> QED BY <1>4

(* An interval of the natural numbers has one element more than its last.    *)
LEMMA IntervalSize ==
  ASSUME NEW n \in Nat
  PROVE  IsFiniteSet(0 .. n - 1) /\ Cardinality(0 .. n - 1) = n
<1>1. 0 \in Int /\ n - 1 \in Int OBVIOUS
<1> QED BY <1>1, FS_Interval

-----------------------------------------------------------------------------
(* The bytes of a text.                                                      *)
Chars == Letters \cup {"eol"}
Newlines == {<<"LF">>, <<"CR", "LF">>}
Bytes_Of(e) == Letters \cup {e[i] : i \in 1 .. Len(e)}
Chunk(c, e) == IF c = "eol" THEN e ELSE <<c>>

(* The body of the recursive function of Encoded.                            *)
Encoded_Body(text, e, f, i) ==
  IF i = 0 THEN << >> ELSE f[i - 1] \o Chunk(text[i], e)

(* At each character but the first position.                                 *)
LEMMA EncodedStep ==
  \A text, e, f, i, j :
    i # 0 /\ j = i - 1 => Encoded_Body(text, e, f, i) = f[j] \o Chunk(text[i], e)
BY Zenon DEF Encoded_Body

(* f is the recursive function of Encoded, on 0 .. n.                        *)
Encodes(text, e, f, n) == f = [i \in 0 .. n |-> Encoded_Body(text, e, f, i)]

(* The function that Encoded chooses exists.                                 *)
LEMMA EncodesExists ==
  ASSUME NEW text, NEW e, NEW n \in Nat
  PROVE  \E f : Encodes(text, e, f, n)
<1> DEFINE T == {k \in Nat : \E f : Encodes(text, e, f, k)}
<1>1. 0 \in T
  <2> DEFINE g == [i \in 0 .. 0 |-> << >>]
  <2>1. \A i \in 0 .. 0 : g[i] = Encoded_Body(text, e, g, i) BY DEF Encoded_Body
  <2>2. g = [i \in 0 .. 0 |-> g[i]] OBVIOUS
  <2> HIDE DEF g
  <2>3. Encodes(text, e, g, 0) BY <2>1, <2>2 DEF Encodes
  <2> QED BY <2>3
<1>2. ASSUME NEW k \in T PROVE k + 1 \in T
  <2>1. PICK f : Encodes(text, e, f, k) BY <1>2
  <2> DEFINE g == [i \in 0 .. k + 1 |-> IF i <= k THEN f[i] ELSE Encoded_Body(text, e, f, i)]
  <2>2. \A i \in 0 .. k : f[i] = Encoded_Body(text, e, f, i) BY <2>1 DEF Encodes
  <2>3. \A i \in 0 .. k + 1 : g[i] = Encoded_Body(text, e, f, i) BY <2>2
  <2>4. \A i \in 0 .. k : g[i] = f[i] BY <1>2
  <2>5. g = [i \in 0 .. k + 1 |-> g[i]] OBVIOUS
  <2> HIDE DEF g
  <2>6. ASSUME NEW i \in 0 .. k + 1
        PROVE Encoded_Body(text, e, f, i) = Encoded_Body(text, e, g, i)
    <3>1. CASE i = 0 BY <3>1 DEF Encoded_Body
    <3>2. CASE i # 0
      <4>1. i - 1 \in 0 .. k BY <3>2, <1>2
      <4>2. g[i - 1] = f[i - 1] BY <2>4, <4>1
      <4> QED BY <4>2 DEF Encoded_Body
    <3> QED BY <3>1, <3>2
  <2>7. \A i \in 0 .. k + 1 : g[i] = Encoded_Body(text, e, g, i) BY <2>3, <2>6
  <2>8. Encodes(text, e, g, k + 1) BY <2>5, <2>7 DEF Encodes
  <2> QED BY <2>8, <1>2
<1> HIDE DEF T
<1>3. Nat \subseteq T BY <1>1, <1>2, SetInduction DEF T
<1> QED BY <1>3 DEF T

(* So Encoded is its last value.                                             *)
LEMMA EncodedChoice ==
  ASSUME NEW text, NEW e, Len(text) \in Nat
  PROVE  \E f : Encodes(text, e, f, Len(text)) /\ Encoded(text, e) = f[Len(text)]
<1> DEFINE F1 == CHOOSE f : Encodes(text, e, f, Len(text))
<1>1. Encoded(text, e) = F1[Len(text)] BY DEF Encoded, Encodes, Encoded_Body, Chunk
<1>2. Encodes(text, e, F1, Len(text)) BY EncodesExists
<1> HIDE DEF F1
<1> QED BY <1>1, <1>2

(* The bytes of the empty text.                                              *)
LEMMA EncodedEmpty == \A e : Encoded(<< >>, e) = << >>
<1> SUFFICES ASSUME NEW e PROVE Encoded(<< >>, e) = << >> OBVIOUS
<1>1. PICK s : s = << >> OBVIOUS
<1>2. Len(s) = 0 BY <1>1
<1>3. PICK f : Encodes(s, e, f, Len(s)) /\ Encoded(s, e) = f[Len(s)]
  BY <1>2, EncodedChoice
<1>4. f[0] = Encoded_Body(s, e, f, 0) BY <1>2, <1>3 DEF Encodes
<1> QED BY <1>1, <1>2, <1>3, <1>4 DEF Encoded_Body

(* The bytes of a text with a last character.                                *)
LEMMA EncodedAppend ==
  ASSUME NEW S, NEW s \in Seq(S), NEW x \in S, NEW e
  PROVE  Encoded(Append(s, x), e) = Encoded(s, e) \o Chunk(x, e)
<1>1. PICK n \in Nat : n = Len(s) OBVIOUS
<1>2. PICK t : t = Append(s, x) OBVIOUS
<1>3. /\ t \in Seq(S) /\ Len(t) = n + 1 /\ t[n + 1] = x
      /\ \A i \in 1 .. n : t[i] = s[i]
  BY <1>1, <1>2, AppendProperties
<1>4. PICK f : Encodes(s, e, f, n) /\ Encoded(s, e) = f[n] BY <1>1, EncodedChoice
<1>5. PICK g : Encodes(t, e, g, n + 1) /\ Encoded(t, e) = g[n + 1]
  <2>1. n + 1 \in Nat OBVIOUS
  <2> QED BY <2>1, <1>3, EncodedChoice
<1>6. \A i \in 0 .. n : f[i] = Encoded_Body(s, e, f, i) BY <1>4 DEF Encodes
<1>7. \A i \in 0 .. n + 1 : g[i] = Encoded_Body(t, e, g, i) BY <1>5 DEF Encodes
<1> DEFINE T == {i \in Nat : i <= n => f[i] = g[i]}
<1>8. 0 \in T
  <2>1. 0 \in 0 .. n /\ 0 \in 0 .. n + 1 OBVIOUS
  <2>2. f[0] = << >> /\ g[0] = << >> BY <1>6, <1>7, <2>1, Zenon DEF Encoded_Body
  <2> QED BY <2>2
<1>9. ASSUME NEW i \in T PROVE i + 1 \in T
  <2> SUFFICES ASSUME i + 1 <= n PROVE f[i + 1] = g[i + 1] BY <1>9
  <2>1. i \in Nat /\ i + 1 \in 0 .. n /\ i + 1 \in 0 .. n + 1 /\ i + 1 # 0
        /\ i + 1 - 1 = i /\ i + 1 \in 1 .. n
    BY <1>9
  <2>2. f[i] = g[i] BY <1>9, <2>1
  <2>3. t[i + 1] = s[i + 1] BY <1>3, <2>1
  <2>4. PICK j : j = i + 1 OBVIOUS
  <2>5. j # 0 /\ i = j - 1 BY <2>1, <2>4
  <2>6. /\ Encoded_Body(s, e, f, j) = f[i] \o Chunk(s[j], e)
        /\ Encoded_Body(t, e, g, j) = g[i] \o Chunk(t[j], e)
    BY <2>5, EncodedStep, Zenon
  <2>7. Encoded_Body(s, e, f, i + 1) = Encoded_Body(t, e, g, i + 1)
    BY <2>2, <2>3, <2>4, <2>6, Zenon
  <2> QED BY <1>6, <1>7, <2>1, <2>7
<1> HIDE DEF T
<1>10. n \in T BY <1>8, <1>9, SetInduction DEF T
<1>11. f[n] = g[n] BY <1>10 DEF T
<1>12. g[n + 1] = g[n] \o Chunk(x, e)
  <2>1. n + 1 \in 0 .. n + 1 /\ n + 1 # 0 /\ n + 1 - 1 = n OBVIOUS
  <2>2. g[n + 1] = Encoded_Body(t, e, g, n + 1) BY <1>7, <2>1
  <2>3. PICK j : j = n + 1 OBVIOUS
  <2>4. j # 0 /\ n = j - 1 BY <2>3
  <2>5. Encoded_Body(t, e, g, j) = g[n] \o Chunk(t[j], e) BY <2>4, EncodedStep, Zenon
  <2> QED BY <1>3, <2>2, <2>3, <2>5, Zenon
<1> QED BY <1>2, <1>4, <1>5, <1>11, <1>12

(* What a character gives.                                                   *)
LEMMA ChunkType ==
  ASSUME NEW e \in Newlines, NEW c \in Chars
  PROVE  Chunk(c, e) \in Seq(Bytes_Of(e))
<1>1. e \in Seq({"LF", "CR"}) BY DEF Newlines
<1>2. e \in Seq(Bytes_Of(e))
  <2>1. \A i \in 1 .. Len(e) : e[i] \in Bytes_Of(e) BY DEF Bytes_Of
  <2> QED BY <1>1, <2>1, SeqDef
<1>3. c # "eol" => c \in Bytes_Of(e) BY DEF Chars, Bytes_Of
<1> QED BY <1>2, <1>3 DEF Chunk

(* The bytes of a text are bytes.                                            *)
LEMMA EncodedType ==
  ASSUME NEW e \in Newlines, NEW text \in Seq(Chars)
  PROVE  Encoded(text, e) \in Seq(Bytes_Of(e))
<1> DEFINE T == {t \in Seq(Chars) : Encoded(t, e) \in Seq(Bytes_Of(e))}
<1>1. << >> \in T
  <2>1. PICK z : z = << >> OBVIOUS
  <2>2. Encoded(z, e) = << >> BY <2>1, EncodedEmpty
  <2>3. z \in Seq(Chars) /\ z \in Seq(Bytes_Of(e)) BY ONLY <2>1, EmptySeq
  <2>4. z \in T BY <2>1, <2>2, <2>3
  <2> QED BY <2>1, <2>4
<1>2. ASSUME NEW s \in Seq(Chars), NEW x \in Chars, s \in T PROVE Append(s, x) \in T
  <2>1. Encoded(s, e) \in Seq(Bytes_Of(e)) BY <1>2
  <2>2. Encoded(Append(s, x), e) = Encoded(s, e) \o Chunk(x, e) BY EncodedAppend
  <2>3. Encoded(s, e) \o Chunk(x, e) \in Seq(Bytes_Of(e)) BY <2>1, ChunkType, ConcatProperties
  <2>4. Append(s, x) \in Seq(Chars) BY AppendProperties
  <2> QED BY <2>2, <2>3, <2>4
<1> HIDE DEF T
<1>3. Seq(Chars) \subseteq T BY <1>1, <1>2, SequenceInduction
<1> QED BY <1>3 DEF T

(* The bytes of two texts one after the other.                               *)
LEMMA EncodedConcat ==
  ASSUME NEW e \in Newlines, NEW s \in Seq(Chars), NEW text \in Seq(Chars)
  PROVE  Encoded(s \o text, e) = Encoded(s, e) \o Encoded(text, e)
<1> DEFINE T == {t \in Seq(Chars) : Encoded(s \o t, e) = Encoded(s, e) \o Encoded(t, e)}
<1>0. Encoded(s, e) \in Seq(Bytes_Of(e)) BY EncodedType
<1>1. << >> \in T
  <2>1. PICK z : z = << >> OBVIOUS
  <2>2. s \o z = s /\ Encoded(s, e) \o z = Encoded(s, e) BY <1>0, <2>1, ConcatEmptySeq
  <2>3. Encoded(z, e) = z BY <2>1, EncodedEmpty
  <2>4. Encoded(s \o z, e) = Encoded(s, e) \o Encoded(z, e) BY <2>2, <2>3
  <2>5. z \in Seq(Chars) BY <2>1
  <2>6. z \in T BY <2>4, <2>5
  <2> QED BY <2>1, <2>6
<1>2. ASSUME NEW t \in Seq(Chars), NEW x \in Chars, t \in T PROVE Append(t, x) \in T
  <2>1. PICK u : u = Encoded(t, e) OBVIOUS
  <2>2. PICK v : v = Encoded(s, e) OBVIOUS
  <2>3. PICK w : w = Chunk(x, e) OBVIOUS
  <2>4. u \in Seq(Bytes_Of(e)) /\ v \in Seq(Bytes_Of(e)) /\ w \in Seq(Bytes_Of(e))
    BY <2>1, <2>2, <2>3, EncodedType, ChunkType
  <2>5. Encoded(Append(t, x), e) = u \o w BY <2>1, <2>3, EncodedAppend
  <2>6. s \o t \in Seq(Chars) BY ConcatProperties
  <2>7. s \o Append(t, x) = Append(s \o t, x)
    <3>1. <<x>> \in Seq(Chars) OBVIOUS
    <3>2. Append(t, x) = t \o <<x>> /\ Append(s \o t, x) = (s \o t) \o <<x>>
      BY <2>6, AppendIsConcat
    <3>3. (s \o t) \o <<x>> = s \o (t \o <<x>>) BY <3>1, ConcatAssociative
    <3> QED BY <3>2, <3>3
  <2>8. Encoded(Append(s \o t, x), e) = Encoded(s \o t, e) \o w BY <2>3, <2>6, EncodedAppend
  <2>9. Encoded(s \o t, e) = v \o u BY <1>2, <2>1, <2>2
  <2>10. (v \o u) \o w = v \o (u \o w) BY <2>4, ConcatAssociative
  <2>11. Append(t, x) \in Seq(Chars) BY AppendProperties
  <2> QED BY <2>2, <2>5, <2>7, <2>8, <2>9, <2>10, <2>11
<1> HIDE DEF T
<1>3. Seq(Chars) \subseteq T BY <1>1, <1>2, SequenceInduction
<1> QED BY <1>3 DEF T

(* In the bytes of a text a CR and a LF only come as ends of line.           *)
Clean(b, e) ==
  /\ Len(e) = 1 => \A p \in 1 .. Len(b) : b[p] # "CR"
  /\ Len(e) = 2 =>
       \A p \in 1 .. Len(b) : /\ b[p] = "CR" => p < Len(b) /\ b[p + 1] = "LF"
                              /\ b[p] = "LF" => p > 1 /\ b[p - 1] = "CR"

(* No letter is a byte of an end of line.                                    *)
LEMMA LettersApart == \A c \in Letters : c # "eol" /\ c # "LF" /\ c # "CR" /\ c # "EOT"
BY SourceBufferAssumption

(* The two ends of line.                                                     *)
LEMMA NewlineForms ==
  ASSUME NEW e \in Newlines
  PROVE  \/ Len(e) = 1 /\ e[1] = "LF"
         \/ Len(e) = 2 /\ e[1] = "CR" /\ e[2] = "LF"
<1>1. PICK x : x = <<"LF">> OBVIOUS
<1>2. PICK y : y = <<"CR", "LF">> OBVIOUS
<1>3. Len(x) = 1 /\ x[1] = "LF" BY <1>1
<1>4. Len(y) = 2 /\ y[1] = "CR" /\ y[2] = "LF" BY <1>2
<1>5. e = x \/ e = y BY <1>1, <1>2 DEF Newlines
<1> QED BY <1>3, <1>4, <1>5

(* The bytes of a character are clean.                                       *)
LEMMA ChunkClean ==
  ASSUME NEW e \in Newlines, NEW c \in Chars
  PROVE  Clean(Chunk(c, e), e)
<1>1. CASE c = "eol"
  <2>1. Clean(e, e)
    <3>1. CASE Len(e) = 1 BY <3>1, NewlineForms DEF Clean
    <3>2. CASE Len(e) = 2
      <4>1. e[1] = "CR" /\ e[2] = "LF" BY <3>2, NewlineForms
      <4>2. \A p \in 1 .. 2 : p = 1 \/ p = 2 OBVIOUS
      <4> QED BY <3>2, <4>1, <4>2 DEF Clean
    <3> QED BY <3>1, <3>2, NewlineForms
  <2> QED BY <1>1, <2>1 DEF Chunk
<1>2. CASE c # "eol"
  <2>1. c # "LF" /\ c # "CR" BY <1>2, LettersApart DEF Chars
  <2>2. PICK b : b = <<c>> OBVIOUS
  <2>3. Len(b) = 1 /\ b[1] = c BY <2>2
  <2>4. Clean(b, e) BY <2>1, <2>3 DEF Clean
  <2> QED BY <1>2, <2>2, <2>4 DEF Chunk
<1> QED BY <1>1, <1>2

(* So is the concatenation of clean texts.                                   *)
LEMMA CleanConcat ==
  ASSUME NEW e \in Newlines, NEW S, NEW b \in Seq(S), NEW d \in Seq(S), Clean(b, e), Clean(d, e)
  PROVE  Clean(b \o d, e)
<1>1. PICK x : x = b \o d OBVIOUS
<1>2. PICK m \in Nat, n \in Nat : m = Len(b) /\ n = Len(d) OBVIOUS
<1>3. /\ Len(x) = m + n
      /\ \A i \in 1 .. m : x[i] = b[i]
      /\ \A i \in m + 1 .. m + n : x[i] = d[i - m]
  BY <1>1, <1>2, ConcatProperties
<1>4. ASSUME Len(e) = 1, NEW p \in 1 .. Len(x) PROVE x[p] # "CR"
  <2>1. CASE p \in 1 .. m BY <1>2, <1>3, <1>4, <2>1 DEF Clean
  <2>2. CASE p \in m + 1 .. m + n
    <3>1. p - m \in 1 .. n BY <2>2
    <3> QED BY <1>2, <1>3, <1>4, <2>2, <3>1 DEF Clean
  <2> QED BY <1>3, <2>1, <2>2
<1>5. ASSUME Len(e) = 2, NEW p \in 1 .. Len(x)
      PROVE /\ x[p] = "CR" => p < Len(x) /\ x[p + 1] = "LF"
            /\ x[p] = "LF" => p > 1 /\ x[p - 1] = "CR"
  <2>1. CASE p \in 1 .. m
    <3>1. x[p] = b[p] BY <1>3, <2>1
    <3>2. /\ b[p] = "CR" => p < m /\ b[p + 1] = "LF"
          /\ b[p] = "LF" => p > 1 /\ b[p - 1] = "CR"
      BY <1>2, <1>5, <2>1 DEF Clean
    <3>3. p < m => x[p + 1] = b[p + 1]
      <4>1. p < m => p + 1 \in 1 .. m BY <2>1
      <4> QED BY <1>3, <4>1
    <3>4. p > 1 => x[p - 1] = b[p - 1]
      <4>1. p > 1 => p - 1 \in 1 .. m BY <2>1
      <4> QED BY <1>3, <4>1
    <3>5. p < m => p < m + n BY <1>2, <2>1
    <3> QED BY <1>3, <3>1, <3>2, <3>3, <3>4, <3>5
  <2>2. CASE p \in m + 1 .. m + n
    <3>0. PICK q \in 1 .. n : p = q + m
      <4>1. p - m \in 1 .. n /\ p = (p - m) + m BY <2>2
      <4> QED BY <4>1
    <3>1. x[p] = d[q] /\ q = p - m BY <1>3, <2>2, <3>0
    <3>2. /\ d[q] = "CR" => q < n /\ d[q + 1] = "LF"
          /\ d[q] = "LF" => q > 1 /\ d[q - 1] = "CR"
      BY <1>2, <1>5, <3>0 DEF Clean
    <3>3. q < n => x[p + 1] = d[q + 1] /\ p < m + n
      <4>1. q < n => p + 1 \in m + 1 .. m + n /\ (p + 1) - m = q + 1 /\ p < m + n BY <3>0
      <4> QED BY <1>3, <4>1
    <3>4. q > 1 => x[p - 1] = d[q - 1] /\ p > 1
      <4>1. q > 1 => p - 1 \in m + 1 .. m + n /\ (p - 1) - m = q - 1 /\ p > 1 BY <3>0
      <4> QED BY <1>3, <4>1
    <3> QED BY <1>3, <3>1, <3>2, <3>3, <3>4
  <2> QED BY <1>3, <2>1, <2>2
<1> QED BY <1>1, <1>4, <1>5 DEF Clean

(* The bytes of every text are clean.                                        *)
LEMMA EncodedClean ==
  ASSUME NEW e \in Newlines, NEW text \in Seq(Chars)
  PROVE  Clean(Encoded(text, e), e)
<1> DEFINE T == {t \in Seq(Chars) : Clean(Encoded(t, e), e)}
<1>1. << >> \in T
  <2>1. PICK z : z = << >> OBVIOUS
  <2>2. Encoded(z, e) = z BY <2>1, EncodedEmpty
  <2>3. z \in Seq(Chars) /\ Len(z) = 0 BY ONLY <2>1, EmptySeq
  <2>4. Clean(z, e) BY <2>3 DEF Clean
  <2>5. z \in T BY <2>2, <2>3, <2>4
  <2> QED BY <2>1, <2>5
<1>2. ASSUME NEW s \in Seq(Chars), NEW x \in Chars, s \in T PROVE Append(s, x) \in T
  <2>1. Encoded(Append(s, x), e) = Encoded(s, e) \o Chunk(x, e) BY EncodedAppend
  <2>2. Encoded(s, e) \in Seq(Bytes_Of(e)) /\ Chunk(x, e) \in Seq(Bytes_Of(e))
    BY EncodedType, ChunkType
  <2>3. Clean(Encoded(s, e), e) /\ Clean(Chunk(x, e), e) BY <1>2, ChunkClean
  <2>4. Clean(Encoded(s, e) \o Chunk(x, e), e) BY ONLY <2>2, <2>3, CleanConcat, e \in Newlines
  <2>5. Append(s, x) \in Seq(Chars) BY AppendProperties
  <2> QED BY <2>1, <2>4, <2>5
<1> HIDE DEF T
<1>3. Seq(Chars) \subseteq T BY <1>1, <1>2, SequenceInduction
<1> QED BY <1>3 DEF T

-----------------------------------------------------------------------------
(* The bytes before each character of a text.                                *)
Byte_At(text, i, e) == Len(Encoded(SubSeq(text, 1, i), e))

(* A text in two parts.                                                      *)
LEMMA EncodedSplit ==
  ASSUME NEW e \in Newlines, NEW text \in Seq(Chars), NEW i \in 0 .. Len(text)
  PROVE  /\ SubSeq(text, 1, i) \in Seq(Chars) /\ SubSeq(text, i + 1, Len(text)) \in Seq(Chars)
         /\ Encoded(text, e) =
              Encoded(SubSeq(text, 1, i), e) \o Encoded(SubSeq(text, i + 1, Len(text)), e)
<1>1. PICK n \in Nat : n = Len(text) OBVIOUS
<1>2. PICK p : p = SubSeq(text, 1, i) OBVIOUS
<1>3. PICK q : q = SubSeq(text, i + 1, n) OBVIOUS
<1>4. p \in Seq(Chars) /\ Len(p) = i /\ \A j \in 1 .. i : p[j] = text[j]
  BY <1>1, <1>2, SubSeqProperties
<1>5. q \in Seq(Chars) /\ Len(q) = n - i /\ \A j \in 1 .. n - i : q[j] = text[i + j]
  BY <1>1, <1>3, SubSeqProperties
<1>6. text = p \o q
  <2>1. PICK x : x = p \o q OBVIOUS
  <2>2. /\ x \in Seq(Chars) /\ Len(x) = n
        /\ \A j \in 1 .. i : x[j] = p[j]
        /\ \A j \in i + 1 .. n : x[j] = q[j - i]
    BY <1>1, <1>4, <1>5, <2>1, ConcatProperties
  <2>3. ASSUME NEW j \in 1 .. n PROVE x[j] = text[j]
    <3>1. CASE j <= i BY <1>1, <1>4, <2>2, <3>1
    <3>2. CASE j > i
      <4>1. j \in i + 1 .. n /\ j - i \in 1 .. n - i /\ i + (j - i) = j BY <1>1, <3>2
      <4> QED BY <1>5, <2>2, <4>1
    <3> QED BY <1>1, <3>1, <3>2
  <2> QED BY <1>1, <2>1, <2>2, <2>3, SeqEqual
<1>7. Encoded(p \o q, e) = Encoded(p, e) \o Encoded(q, e) BY <1>4, <1>5, EncodedConcat
<1> QED BY <1>1, <1>2, <1>3, <1>4, <1>5, <1>6, <1>7

(* The first character is at byte 0.                                         *)
LEMMA ByteZero ==
  ASSUME NEW e, NEW text \in Seq(Chars) PROVE Byte_At(text, 0, e) = 0
<1>1. PICK z : z = SubSeq(text, 1, 0) OBVIOUS
<1>2. z = << >> BY <1>1, SubSeqProperties
<1>3. Encoded(z, e) = z BY <1>2, EncodedEmpty
<1>4. Len(z) = 0 BY <1>2
<1> QED BY <1>1, <1>3, <1>4 DEF Byte_At

(* The bytes of the next character.                                          *)
LEMMA ByteStep ==
  ASSUME NEW e \in Newlines, NEW text \in Seq(Chars), NEW i \in 1 .. Len(text)
  PROVE  LET at == Byte_At(text, i - 1, e)
             c == Chunk(text[i], e)
             b == Encoded(text, e)
         IN /\ at \in Nat /\ Len(c) \in Nat /\ b \in Seq(Bytes_Of(e))
            /\ Byte_At(text, i, e) = at + Len(c) /\ at + Len(c) <= Len(b)
            /\ \A k \in 1 .. Len(c) : b[at + k] = c[k]
<1>1. PICK n \in Nat : n = Len(text) OBVIOUS
<1>2. PICK p : p = SubSeq(text, 1, i - 1) OBVIOUS
<1>3. PICK q : q = SubSeq(text, 1, i) OBVIOUS
<1>4. p \in Seq(Chars) /\ Len(p) = i - 1 /\ \A j \in 1 .. i - 1 : p[j] = text[j]
  BY <1>1, <1>2, SubSeqProperties
<1>5. q \in Seq(Chars) /\ Len(q) = i /\ \A j \in 1 .. i : q[j] = text[j]
  BY <1>1, <1>3, SubSeqProperties
<1>6. PICK x \in Chars : x = text[i] BY <1>1
<1>7. q = Append(p, x)
  <2>1. PICK y : y = Append(p, x) OBVIOUS
  <2>2. y \in Seq(Chars) /\ Len(y) = i /\ y[i] = x /\ \A j \in 1 .. i - 1 : y[j] = p[j]
    BY <1>4, <2>1, AppendProperties
  <2>3. ASSUME NEW j \in 1 .. i PROVE y[j] = q[j]
    <3>1. j = i \/ j \in 1 .. i - 1 BY <1>1
    <3> QED BY <1>4, <1>5, <1>6, <2>2, <3>1
  <2> QED BY <1>5, <2>1, <2>2, <2>3, SeqEqual
<1>8. PICK c : c = Chunk(x, e) OBVIOUS
<1>9. PICK u : u = Encoded(p, e) OBVIOUS
<1>10. PICK v : v = Encoded(q, e) OBVIOUS
<1>11. PICK w : w = Encoded(SubSeq(text, i + 1, Len(text)), e) OBVIOUS
<1>12. PICK b : b = Encoded(text, e) OBVIOUS
<1>13. v = u \o c BY <1>4, <1>6, <1>7, <1>8, <1>9, <1>10, EncodedAppend
<1>14. b = v \o w
  <2>1. i \in 0 .. Len(text) BY <1>1
  <2> QED BY <2>1, <1>3, <1>10, <1>11, <1>12, EncodedSplit
<1>15. /\ u \in Seq(Bytes_Of(e)) /\ v \in Seq(Bytes_Of(e)) /\ w \in Seq(Bytes_Of(e))
       /\ c \in Seq(Bytes_Of(e)) /\ b \in Seq(Bytes_Of(e))
  <2>1. SubSeq(text, i + 1, Len(text)) \in Seq(Chars) BY EncodedSplit
  <2> QED BY <1>4, <1>5, <1>6, <1>8, <1>9, <1>10, <1>11, <1>12, <2>1, EncodedType, ChunkType
<1>16. /\ Len(u) \in Nat /\ Len(c) \in Nat /\ Len(w) \in Nat
       /\ Len(v) = Len(u) + Len(c) /\ Len(b) = Len(v) + Len(w)
       /\ \A k \in Len(u) + 1 .. Len(u) + Len(c) : v[k] = c[k - Len(u)]
       /\ \A k \in 1 .. Len(v) : b[k] = v[k]
  BY ONLY <1>13, <1>14, <1>15, ConcatProperties, LenProperties
<1>17. ASSUME NEW k \in 1 .. Len(c) PROVE b[Len(u) + k] = c[k]
  <2>1. /\ Len(u) + k \in Len(u) + 1 .. Len(u) + Len(c) /\ (Len(u) + k) - Len(u) = k
        /\ Len(u) + k \in 1 .. Len(v)
    BY <1>16
  <2> QED BY <1>16, <2>1
<1>18. Byte_At(text, i - 1, e) = Len(u) /\ Byte_At(text, i, e) = Len(v)
  BY <1>2, <1>3, <1>9, <1>10 DEF Byte_At
<1>19. Len(u) + Len(c) <= Len(b) BY <1>16
<1> QED BY <1>6, <1>8, <1>12, <1>15, <1>16, <1>17, <1>18, <1>19

-----------------------------------------------------------------------------
(* The lines of some bytes: they start at 0 and after each LF.               *)
LFs(b) == {q \in 1 .. Len(b) : b[q] = "LF"}
Starts(b) == {0} \cup LFs(b)

(* The sequence of the elements of a set of numbers, in ascending order.     *)
Rows(r, S) ==
  /\ r \in Seq(Nat)
  /\ \A i, j \in 1 .. Len(r) : i < j => r[i] < r[j]
  /\ \A i \in 1 .. Len(r) : r[i] \in S
  /\ \A q \in S : \E i \in 1 .. Len(r) : r[i] = q

(* The line and the offset of the positions of a text, from one to the next. *)
LEMMA LineZero == ASSUME NEW text PROVE Line_Of(text, 0) = 1
<1>1. {j \in 1 .. 0 : text[j] = "eol"} = {} OBVIOUS
<1> QED BY <1>1, FS_EmptySet DEF Line_Of

(* A character after the end of a line is on the next line.                  *)
LEMMA LineStep ==
  ASSUME NEW text, NEW i \in Nat
  PROVE  /\ Line_Of(text, i) \in Nat
         /\ Line_Of(text, i + 1) = IF text[i + 1] = "eol" THEN Line_Of(text, i) + 1
                                   ELSE Line_Of(text, i)
<1> DEFINE S == {j \in 1 .. i : text[j] = "eol"}
           T == {j \in 1 .. i + 1 : text[j] = "eol"}
<1>1. IsFiniteSet(S) /\ Cardinality(S) \in Nat
  <2>1. 1 \in Int /\ i \in Int OBVIOUS
  <2>2. IsFiniteSet(1 .. i) BY <2>1, FS_Interval
  <2>3. S \subseteq 1 .. i OBVIOUS
  <2> QED BY <2>2, <2>3, FS_Subset, FS_CardinalityType
<1>2. CASE text[i + 1] = "eol"
  <2>1. T = S \cup {i + 1} BY <1>2
  <2>2. i + 1 \notin S OBVIOUS
  <2>3. Cardinality(T) = Cardinality(S) + 1 BY <1>1, <2>1, <2>2, FS_AddElement
  <2> QED BY <1>1, <1>2, <2>3 DEF Line_Of
<1>3. CASE text[i + 1] # "eol"
  <2>1. T = S
    <3>1. ASSUME NEW j \in T PROVE j \in S
      <4>1. j \in 1 .. i + 1 /\ text[j] = "eol" OBVIOUS
      <4>2. j # i + 1 BY <1>3, <4>1
      <4> QED BY <4>1, <4>2
    <3>2. S \subseteq T OBVIOUS
    <3> QED BY <3>1, <3>2
  <2> HIDE DEF S, T
  <2>2. Cardinality(T) = Cardinality(S) BY <2>1
  <2> USE DEF S, T
  <2> QED BY <1>1, <1>3, <2>2 DEF Line_Of
<1> QED BY <1>2, <1>3

(* The greatest of some numbers.                                             *)
LEMMA MaxIs ==
  ASSUME NEW S \in SUBSET Nat, NEW m \in S, \A y \in S : y <= m
  PROVE  Max(S) = m
<1>1. m \in S /\ \A y \in S : m >= y OBVIOUS
<1>2. Max(S) = CHOOSE x \in S : \A y \in S : x >= y BY DEF Max
<1>3. PICK x : x = Max(S) OBVIOUS
<1>4. x \in S /\ \A y \in S : x >= y BY <1>1, <1>2, <1>3
<1>5. x \in Nat /\ m \in Nat /\ x <= m /\ m <= x BY <1>4
<1> QED BY <1>3, <1>5

(* The minimum of a set of numbers, by its property.                         *)
LEMMA MinIs ==
  ASSUME NEW S \in SUBSET Nat, NEW m \in S, \A y \in S : m <= y
  PROVE  Min(S) = m
<1>1. m \in S /\ \A y \in S : m <= y OBVIOUS
<1>2. Min(S) = CHOOSE x \in S : \A y \in S : x <= y BY DEF Min
<1>3. PICK x : x = Min(S) OBVIOUS
<1>4. x \in S /\ \A y \in S : x <= y BY <1>1, <1>2, <1>3
<1>5. x \in Nat /\ m \in Nat /\ x <= m /\ m <= x BY <1>4
<1> QED BY <1>3, <1>5

(* The ends of line among the first i characters, and 0: the offset of the   *)
(* client is from the last of them.                                          *)
Eol_Ends(text, i) == {0} \cup {j \in 1 .. i : text[j] = "eol"}

(* The offset of a position, from the last of them.                          *)
LEMMA OffsetIs ==
  ASSUME NEW text, NEW i \in Nat, NEW m \in Eol_Ends(text, i), \A y \in Eol_Ends(text, i) : y <= m
  PROVE  Offset_Of(text, i) = i - m
<1>1. Eol_Ends(text, i) \subseteq Nat BY DEF Eol_Ends
<1>2. PICK S : S = Eol_Ends(text, i) OBVIOUS
<1>3. Max(S) = m BY <1>1, <1>2, MaxIs
<1> QED BY <1>2, <1>3 DEF Offset_Of, Eol_Ends

(* There is a last end of line before each position.                         *)
LEMMA OffsetStep ==
  ASSUME NEW text, NEW i \in Nat,
         NEW m \in Eol_Ends(text, i), \A y \in Eol_Ends(text, i) : y <= m
  PROVE  \E k \in Eol_Ends(text, i + 1) :
            /\ \A y \in Eol_Ends(text, i + 1) : y <= k
            /\ k = IF text[i + 1] = "eol" THEN i + 1 ELSE m
<1>0. m \in Nat BY DEF Eol_Ends
<1>1. CASE text[i + 1] = "eol"
  <2>1. i + 1 \in Eol_Ends(text, i + 1) BY <1>1 DEF Eol_Ends
  <2>2. \A y \in Eol_Ends(text, i + 1) : y <= i + 1 BY DEF Eol_Ends
  <2> QED BY <1>1, <2>1, <2>2
<1>2. CASE text[i + 1] # "eol"
  <2>1. m \in Eol_Ends(text, i + 1) BY DEF Eol_Ends
  <2>2. ASSUME NEW y \in Eol_Ends(text, i + 1) PROVE y <= m
    <3>1. y = 0 \/ (y \in 1 .. i + 1 /\ text[y] = "eol") BY DEF Eol_Ends
    <3>2. y # i + 1 BY <1>2, <3>1
    <3>3. y \in Eol_Ends(text, i) BY <3>1, <3>2 DEF Eol_Ends
    <3> QED BY <3>3
  <2> QED BY <1>2, <2>1, <2>2
<1> QED BY <1>1, <1>2

(* The line and the offset of a position find its byte.                      *)
Positioned(text, e, r, i) ==
  LET L == Line_Of(text, i)
  IN /\ L \in 1 .. Len(r) /\ Offset_Of(text, i) \in Nat
     /\ r[L] + Offset_Of(text, i) = Byte_At(text, i, e)
     /\ L < Len(r) => Byte_At(text, i, e) < r[L + 1]

(* The first line is at 0.                                                   *)
LEMMA FirstRow ==
  ASSUME NEW S, NEW r, Rows(r, S), 0 \in S, S \subseteq Nat
  PROVE  Len(r) \in Nat /\ Len(r) >= 1 /\ r[1] = 0
<1>1. PICK k \in 1 .. Len(r) : r[k] = 0 BY DEF Rows
<1>2. Len(r) \in Nat /\ \A i \in 1 .. Len(r) : r[i] \in Nat BY DEF Rows
<1>3. 1 \in 1 .. Len(r) BY <1>1, <1>2
<1>4. k > 1 => r[1] < r[k] BY <1>1, <1>3 DEF Rows
<1> QED BY <1>1, <1>2, <1>3, <1>4

(* If the line and the offset of a position find its byte, so do those of    *)
(* the next position.                                                        *)
LEMMA PositionStep ==
  ASSUME NEW e \in Newlines, NEW text \in Seq(Chars), NEW r, Rows(r, Starts(Encoded(text, e))),
         NEW i \in Nat, i + 1 <= Len(text), Positioned(text, e, r, i),
         NEW m \in Eol_Ends(text, i), \A y \in Eol_Ends(text, i) : y <= m
  PROVE  Positioned(text, e, r, i + 1)
<1>1. PICK b : b = Encoded(text, e) OBVIOUS
<1>2. PICK c : c = Chunk(text[i + 1], e) OBVIOUS
<1>3. PICK at \in Nat : at = Byte_At(text, i, e)
  <2>1. i + 1 \in 1 .. Len(text) /\ (i + 1) - 1 = i OBVIOUS
  <2> QED BY <2>1, ByteStep
<1>4. /\ Len(c) \in Nat /\ Byte_At(text, i + 1, e) = at + Len(c) /\ at + Len(c) <= Len(b)
      /\ \A k \in 1 .. Len(c) : b[at + k] = c[k]
      /\ b \in Seq(Bytes_Of(e))
  <2>1. i + 1 \in 1 .. Len(text) /\ (i + 1) - 1 = i OBVIOUS
  <2> QED BY <1>1, <1>2, <1>3, <2>1, ByteStep
<1>5. PICK L : L = Line_Of(text, i) OBVIOUS
<1>6. PICK o : o = Offset_Of(text, i) OBVIOUS
<1>7. /\ L \in 1 .. Len(r) /\ o \in Nat /\ r[L] + o = at
      /\ (L < Len(r) => at < r[L + 1])
  BY <1>3, <1>5, <1>6 DEF Positioned
<1>8. /\ r \in Seq(Nat) /\ Len(r) \in Nat
      /\ \A k, j \in 1 .. Len(r) : k < j => r[k] < r[j]
      /\ \A k \in 1 .. Len(r) : r[k] \in Nat /\ r[k] \in Starts(b)
      /\ \A q \in Starts(b) : \E k \in 1 .. Len(r) : r[k] = q
  BY <1>1 DEF Rows
<1>9. o = i - m /\ m \in Nat BY <1>6, OffsetIs DEF Eol_Ends
<1>10. PICK k \in Eol_Ends(text, i + 1) :
            /\ \A y \in Eol_Ends(text, i + 1) : y <= k
            /\ k = IF text[i + 1] = "eol" THEN i + 1 ELSE m
  BY OffsetStep
<1>11. Offset_Of(text, i + 1) = (i + 1) - k
  <2>1. i + 1 \in Nat OBVIOUS
  <2> QED BY <1>10, <2>1, OffsetIs
<1>12. Line_Of(text, i + 1) = IF text[i + 1] = "eol" THEN L + 1 ELSE L
  BY <1>5, LineStep
<1>13. CASE text[i + 1] # "eol"
  <2>1. c = <<text[i + 1]>> BY <1>2, <1>13 DEF Chunk
  <2>2. Len(c) = 1 /\ c[1] = text[i + 1] BY <2>1
  <2>3. text[i + 1] \in Letters
    <3>1. text[i + 1] \in Chars BY i + 1 \in 1 .. Len(text)
    <3> QED BY <1>13, <3>1 DEF Chars
  <2>4. b[at + 1] # "LF" BY <1>4, <2>2, <2>3, LettersApart
  <2>5. ASSUME L < Len(r) PROVE at + 1 < r[L + 1]
    <3>1. r[L + 1] \in Starts(b) /\ r[L + 1] \in Nat /\ at < r[L + 1]
      <4>1. PICK M : M = L + 1 OBVIOUS
      <4>2. M \in 1 .. Len(r) BY ONLY <1>7, <1>8, <2>5, <4>1
      <4>3. r[M] \in Nat /\ r[M] \in Starts(b) BY ONLY <1>8, <4>2
      <4>4. at < r[M] BY ONLY <1>7, <2>5, <4>1
      <4> QED BY ONLY <4>1, <4>3, <4>4
    <3>2. r[L + 1] # at + 1 BY <2>4, <3>1 DEF Starts, LFs
    <3> QED BY <3>1, <3>2
  <2>6. Offset_Of(text, i + 1) = o + 1 BY <1>9, <1>10, <1>11, <1>13
  <2>7. Byte_At(text, i + 1, e) = at + 1 /\ Line_Of(text, i + 1) = L
    BY <1>4, <1>12, <1>13, <2>2
  <2>8. r[L] + (o + 1) = at + 1 /\ o + 1 \in Nat
    <3>1. PICK v \in Nat : v = r[L] BY ONLY <1>7, <1>8
    <3> QED BY ONLY <1>7, <3>1, v \in Nat, at \in Nat
  <2> QED BY <1>7, <2>5, <2>6, <2>7, <2>8 DEF Positioned
<1>14. CASE text[i + 1] = "eol"
  <2>1. c = e BY <1>2, <1>14 DEF Chunk
  <2>2. PICK z \in Nat : z = at + Len(c) BY <1>4
  <2>3. z >= 1 /\ b[z] = "LF" /\ \A y \in at + 1 .. z - 1 : b[y] # "LF"
    <3>1. CASE Len(e) = 1
      <4>1. e[1] = "LF" BY <3>1, NewlineForms
      <4>2. z = at + 1 /\ b[at + 1] = "LF" BY <1>4, <2>1, <2>2, <3>1, <4>1
      <4> QED BY <4>2
    <3>2. CASE Len(e) = 2
      <4>1. e[1] = "CR" /\ e[2] = "LF" BY <3>2, NewlineForms
      <4>2. z = at + 2 /\ b[at + 1] = "CR" /\ b[at + 2] = "LF" BY <1>4, <2>1, <2>2, <3>2, <4>1
      <4>3. \A y \in at + 1 .. z - 1 : y = at + 1 BY <4>2
      <4> QED BY <4>2, <4>3
    <3> QED BY <3>1, <3>2, NewlineForms
  <2>4. z \in Starts(b) BY <1>4, <2>2, <2>3 DEF Starts, LFs
  <2>5. PICK j \in 1 .. Len(r) : r[j] = z BY <1>8, <2>4
  <2>6. z > at BY <1>4, <2>1, <2>2, NewlineForms
  <2>7. j > L
    <3>1. r[L] <= at BY <1>7, <1>8
    <3>2. j < L => r[j] < r[L] BY <1>7, <1>8
    <3>3. j = L => r[L] = z BY <2>5
    <3> QED BY <1>7, <1>8, <2>5, <2>6, <3>1, <3>2, <3>3
  <2>8. j = L + 1
    <3> SUFFICES ASSUME L + 1 < j PROVE FALSE BY <1>7, <2>7
    <3>1. L + 1 \in 1 .. Len(r) /\ L < Len(r) BY <1>7, <1>8
    <3>2. r[L + 1] < z /\ at < r[L + 1] BY <1>7, <1>8, <2>5, <3>1
    <3>3. r[L + 1] \in Starts(b) /\ r[L + 1] \in Nat BY <1>8, <3>1
    <3>4. b[r[L + 1]] = "LF" BY <3>2, <3>3 DEF Starts, LFs
    <3> QED BY <2>3, <3>2, <3>3, <3>4
  <2>9. Offset_Of(text, i + 1) = 0 BY <1>10, <1>11, <1>14
  <2>10. Line_Of(text, i + 1) = j /\ Byte_At(text, i + 1, e) = z
    BY <1>4, <1>12, <1>14, <2>2, <2>8
  <2>11. ASSUME j < Len(r) PROVE z < r[j + 1]
    <3>1. j + 1 \in 1 .. Len(r) /\ j < j + 1 BY <1>8, <2>11
    <3> QED BY <1>8, <2>5, <3>1
  <2>12. r[j] + 0 = z BY <2>2, <2>5
  <2> QED BY <2>5, <2>9, <2>10, <2>11, <2>12 DEF Positioned
<1> QED BY <1>13, <1>14

(* Every position of the text is found.                                      *)
LEMMA Positions ==
  ASSUME NEW e \in Newlines, NEW text \in Seq(Chars), NEW r, Rows(r, Starts(Encoded(text, e)))
  PROVE  \A i \in 0 .. Len(text) : Positioned(text, e, r, i)
<1> DEFINE T == {i \in Nat : i <= Len(text) =>
                   /\ Positioned(text, e, r, i)
                   /\ \E m \in Eol_Ends(text, i) : \A y \in Eol_Ends(text, i) : y <= m}
<1>1. 0 \in T
  <2>1. Eol_Ends(text, 0) = {0} BY DEF Eol_Ends
  <2>2. Offset_Of(text, 0) = 0 BY <2>1, OffsetIs
  <2>3. Byte_At(text, 0, e) = 0 /\ Line_Of(text, 0) = 1 BY ByteZero, LineZero
  <2>4. PICK S : S = Starts(Encoded(text, e)) OBVIOUS
  <2>5. 0 \in S /\ S \subseteq Nat BY <2>4 DEF Starts, LFs
  <2>6. Len(r) \in Nat /\ Len(r) >= 1 /\ r[1] = 0 BY <2>4, <2>5, FirstRow
  <2>7. 1 < Len(r) => r[2] > 0
    <3>1. 1 < Len(r) => r[1] < r[2] BY <2>6 DEF Rows
    <3> QED BY <2>6, <3>1
  <2>8. Positioned(text, e, r, 0) BY <2>2, <2>3, <2>6, <2>7 DEF Positioned
  <2> QED BY <2>1, <2>8
<1>2. ASSUME NEW i \in T PROVE i + 1 \in T
  <2> SUFFICES ASSUME i + 1 <= Len(text)
               PROVE /\ Positioned(text, e, r, i + 1)
                     /\ \E m \in Eol_Ends(text, i + 1) : \A y \in Eol_Ends(text, i + 1) : y <= m
    BY <1>2
  <2>1. i \in Nat /\ i <= Len(text) BY <1>2
  <2>2. Positioned(text, e, r, i) BY <1>2, <2>1
  <2>3. PICK m \in Eol_Ends(text, i) : \A y \in Eol_Ends(text, i) : y <= m BY <1>2, <2>1
  <2>4. Positioned(text, e, r, i + 1) BY ONLY <2>1, <2>2, <2>3, PositionStep, e \in Newlines,
          text \in Seq(Chars), Rows(r, Starts(Encoded(text, e))), i + 1 <= Len(text)
  <2> QED BY <2>1, <2>3, <2>4, OffsetStep
<1> HIDE DEF T
<1>3. Nat \subseteq T BY <1>1, <1>2, SetInduction DEF T
<1> QED BY <1>3 DEF T

(* The last position of the text is on the last line, and no row is after it. *)
LEMMA LastPosition ==
  ASSUME NEW e \in Newlines, NEW text \in Seq(Chars), NEW r, Rows(r, Starts(Encoded(text, e)))
  PROVE  /\ Byte_At(text, Len(text), e) = Len(Encoded(text, e))
         /\ Line_Of(text, Len(text)) = Len(r)
<1>1. PICK n \in Nat : n = Len(text) OBVIOUS
<1>2. SubSeq(text, 1, n) = text
  <2>1. PICK x : x = SubSeq(text, 1, n) OBVIOUS
  <2>2. x \in Seq(Chars) /\ Len(x) = n /\ \A j \in 1 .. n : x[j] = text[j]
    BY <1>1, <2>1, SubSeqProperties
  <2> QED BY <1>1, <2>1, <2>2, SeqEqual
<1>3. PICK b : b = Encoded(text, e) OBVIOUS
<1>4. Byte_At(text, n, e) = Len(b) BY <1>2, <1>3 DEF Byte_At
<1>5. Positioned(text, e, r, n) BY <1>1, Positions
<1>6. PICK L : L = Line_Of(text, n) OBVIOUS
<1>7. L \in 1 .. Len(r) /\ (L < Len(r) => Len(b) < r[L + 1]) BY <1>4, <1>5, <1>6 DEF Positioned
<1>8. b \in Seq(Bytes_Of(e)) BY <1>3, EncodedType
<1>9. Len(b) \in Nat BY <1>8
<1>10. Len(r) \in Nat /\ \A k \in 1 .. Len(r) : r[k] \in Starts(b) BY <1>3 DEF Rows
<1>11. \A q \in Starts(b) : q <= Len(b) BY <1>9 DEF Starts, LFs
<1>12. ~(L < Len(r))
  <2> SUFFICES ASSUME L < Len(r) PROVE FALSE OBVIOUS
  <2>1. L + 1 \in 1 .. Len(r) BY <1>7, <1>10
  <2>2. r[L + 1] <= Len(b) /\ r[L + 1] \in Starts(b) BY <1>10, <1>11, <2>1
  <2>3. r[L + 1] \in Nat BY <2>2 DEF Starts, LFs
  <2> QED BY <1>7, <1>9, <2>2, <2>3
<1> QED BY <1>1, <1>3, <1>4, <1>6, <1>7, <1>10, <1>12

-----------------------------------------------------------------------------
(* The position in a file of a byte of its content.                          *)
At(f, q) == IF q < f.Gap_Start THEN q ELSE q + Gap_Length(f)

(* The rows of a table of lines, as positions in the file.                   *)
Placed(f, r) == [k \in 1 .. Len(r) |-> At(f, r[k])]

(* A position in the file is a number, not before the byte.                  *)
LEMMA AtType ==
  ASSUME NEW f, f.Gap_Start \in Nat, Gap_Length(f) \in Nat, NEW q \in Nat
  PROVE  At(f, q) \in Nat /\ At(f, q) >= q
BY DEF At

(* The placed lines are as many, each at its place.                          *)
LEMMA PlacedType ==
  ASSUME NEW f, f.Gap_Start \in Nat, Gap_Length(f) \in Nat, NEW r \in Seq(Nat)
  PROVE  /\ Placed(f, r) \in Seq(Nat) /\ Len(Placed(f, r)) = Len(r)
         /\ \A k \in 1 .. Len(r) : Placed(f, r)[k] = At(f, r[k])
<1>1. PICK n \in Nat : n = Len(r) OBVIOUS
<1>2. \A k \in 1 .. n : r[k] \in Nat BY <1>1
<1>3. \A k \in 1 .. n : At(f, r[k]) \in Nat BY <1>2, AtType
<1>4. PICK p : p = [k \in 1 .. n |-> At(f, r[k])] OBVIOUS
<1>5. p \in [1 .. n -> Nat] /\ \A k \in 1 .. n : p[k] = At(f, r[k]) BY <1>3, <1>4
<1>6. p \in Seq(Nat) /\ Len(p) = n BY <1>5
<1>7. p = Placed(f, r) BY <1>1, <1>4 DEF Placed
<1> QED BY <1>1, <1>5, <1>6, <1>7

(* The elements of a concatenation, and of a sequence with one in front.     *)
LEMMA ConcatParts ==
  ASSUME NEW S, NEW s \in Seq(S), NEW t \in Seq(S)
  PROVE  /\ s \o t \in Seq(S) /\ Len(s) \in Nat /\ Len(t) \in Nat
         /\ Len(s \o t) = Len(s) + Len(t)
         /\ \A i \in 1 .. Len(s) : (s \o t)[i] = s[i]
         /\ \A i \in 1 .. Len(t) : (s \o t)[Len(s) + i] = t[i]
<1>1. PICK m \in Nat, n \in Nat : m = Len(s) /\ n = Len(t) OBVIOUS
<1>2. PICK u : u = s \o t OBVIOUS
<1>3. /\ u \in Seq(S) /\ Len(u) = m + n
      /\ \A i \in 1 .. m + n : u[i] = IF i <= m THEN s[i] ELSE t[i - m]
  BY <1>1, <1>2, ConcatProperties
<1>4. \A i \in 1 .. m : u[i] = s[i] BY <1>3
<1>5. ASSUME NEW i \in 1 .. n PROVE u[m + i] = t[i]
  <2>1. m + i \in 1 .. m + n /\ ~(m + i <= m) /\ (m + i) - m = i OBVIOUS
  <2> QED BY <1>3, <2>1
<1> QED BY <1>1, <1>2, <1>3, <1>4, <1>5

(* The elements of a sequence with an element put in front.                  *)
LEMMA ConsParts ==
  ASSUME NEW S, NEW x \in S, NEW r \in Seq(S)
  PROVE  /\ <<x>> \o r \in Seq(S) /\ Len(r) \in Nat /\ Len(<<x>> \o r) = Len(r) + 1
         /\ (<<x>> \o r)[1] = x
         /\ \A i \in 2 .. Len(r) + 1 : (<<x>> \o r)[i] = r[i - 1]
<1>1. PICK h : h = <<x>> OBVIOUS
<1>2. h \in Seq(S) /\ Len(h) = 1 /\ h[1] = x BY <1>1
<1>3. PICK t : t = h \o r OBVIOUS
<1>4. PICK n \in Nat : n = Len(r) OBVIOUS
<1>5. /\ t \in Seq(S) /\ Len(t) = 1 + n
      /\ \A i \in 1 .. 1 : t[i] = h[i]
      /\ \A i \in 1 + 1 .. 1 + n : t[i] = r[i - 1]
  <2>1. h \in Seq(S) /\ r \in Seq(S) BY <1>2
  <2>2. /\ h \o r \in Seq(S) /\ Len(h \o r) = Len(h) + Len(r)
        /\ \A i \in 1 .. Len(h) + Len(r) : (h \o r)[i] = IF i <= Len(h) THEN h[i] ELSE r[i - Len(h)]
    BY ONLY <2>1, ConcatProperties
  <2> QED BY <1>2, <1>3, <1>4, <2>2
<1>6. t[1] = x BY <1>2, <1>5
<1>7. \A i \in 2 .. n + 1 : t[i] = r[i - 1] BY <1>5
<1> QED BY <1>1, <1>3, <1>4, <1>5, <1>6, <1>7

(* One row in front.                                                         *)
LEMMA RowsCons ==
  ASSUME NEW r, NEW S \in SUBSET Nat, Rows(r, S), NEW x \in Nat, \A y \in S : x < y
  PROVE  Rows(<<x>> \o r, S \cup {x})
<1>1. PICK n \in Nat : n = Len(r) BY DEF Rows
<1>4. PICK t : t = <<x>> \o r OBVIOUS
<1>5. r \in Seq(Nat) BY DEF Rows
<1>6. /\ t \in Seq(Nat) /\ Len(t) = n + 1 /\ t[1] = x
      /\ \A i \in 2 .. n + 1 : t[i] = r[i - 1]
  BY <1>1, <1>4, <1>5, ConsParts
<1>7. \A i \in 1 .. n : r[i] \in S /\ r[i] \in Nat BY <1>1 DEF Rows
<1>8. ASSUME NEW i \in 1 .. n + 1, NEW j \in 1 .. n + 1, i < j PROVE t[i] < t[j]
  <2>1. j \in 2 .. n + 1 /\ j - 1 \in 1 .. n /\ t[j] = r[j - 1] BY <1>6, <1>8
  <2>2. CASE i = 1 BY <1>6, <1>7, <2>1, <2>2
  <2>3. CASE i # 1
    <3>1. i - 1 \in 1 .. n /\ i - 1 < j - 1 /\ t[i] = r[i - 1] BY <1>6, <1>8, <2>3
    <3> QED BY <1>1, <2>1, <3>1 DEF Rows
  <2> QED BY <2>2, <2>3
<1>9. ASSUME NEW i \in 1 .. n + 1 PROVE t[i] \in S \cup {x}
  <2>1. CASE i = 1 BY <1>6, <2>1
  <2>2. CASE i # 1
    <3>1. i - 1 \in 1 .. n /\ t[i] = r[i - 1] BY <1>6, <2>2
    <3> QED BY <1>7, <3>1
  <2> QED BY <2>1, <2>2
<1>10. ASSUME NEW q \in S \cup {x} PROVE \E i \in 1 .. n + 1 : t[i] = q
  <2>1. CASE q = x BY <1>6, <2>1, 1 \in 1 .. n + 1
  <2>2. CASE q \in S
    <3>1. PICK i \in 1 .. n : r[i] = q BY <1>1, <2>2 DEF Rows
    <3>2. i + 1 \in 2 .. n + 1 /\ (i + 1) - 1 = i /\ i + 1 \in 1 .. n + 1 OBVIOUS
    <3>3. t[i + 1] = r[i] BY <1>6, <3>2
    <3> QED BY <3>1, <3>2, <3>3
  <2> QED BY <2>1, <2>2
<1> QED BY <1>4, <1>6, <1>8, <1>9, <1>10 DEF Rows

(* A line put in front of the others is placed in front of them.             *)
LEMMA PlacedCons ==
  ASSUME NEW f, f.Gap_Start \in Nat, Gap_Length(f) \in Nat, NEW r \in Seq(Nat), NEW x \in Nat
  PROVE  Placed(f, <<x>> \o r) = <<At(f, x)>> \o Placed(f, r)
<1>1. PICK n \in Nat : n = Len(r) OBVIOUS
<1>4. At(f, x) \in Nat BY AtType
<1>7. PICK t : t = <<x>> \o r OBVIOUS
<1>8. /\ t \in Seq(Nat) /\ Len(t) = n + 1 /\ t[1] = x
      /\ \A i \in 2 .. n + 1 : t[i] = r[i - 1]
  BY <1>1, <1>7, ConsParts
<1>9. PICK p : p = Placed(f, r) OBVIOUS
<1>10. p \in Seq(Nat) /\ Len(p) = n /\ \A k \in 1 .. n : p[k] = At(f, r[k])
  BY <1>1, <1>9, PlacedType
<1>11. PICK u : u = <<At(f, x)>> \o p OBVIOUS
<1>12. /\ u \in Seq(Nat) /\ Len(u) = n + 1 /\ u[1] = At(f, x)
       /\ \A i \in 2 .. n + 1 : u[i] = p[i - 1]
  BY <1>4, <1>10, <1>11, ConsParts
<1>13. PICK v : v = Placed(f, t) OBVIOUS
<1>14. v \in Seq(Nat) /\ Len(v) = n + 1 /\ \A k \in 1 .. n + 1 : v[k] = At(f, t[k])
  <2>1. /\ v \in Seq(Nat) /\ Len(v) = Len(t)
        /\ \A k \in 1 .. Len(t) : v[k] = At(f, t[k])
    BY <1>8, <1>13, PlacedType
  <2> QED BY <1>8, <2>1
<1>15. ASSUME NEW i \in 1 .. n + 1 PROVE v[i] = u[i]
  <2>1. CASE i = 1 BY <1>8, <1>12, <1>14, <2>1
  <2>2. CASE i # 1
    <3>1. i \in 2 .. n + 1 /\ i - 1 \in 1 .. n BY <2>2
    <3> QED BY <1>8, <1>10, <1>12, <1>14, <3>1
  <2> QED BY <2>1, <2>2
<1>16. v = u BY <1>12, <1>14, <1>15, SeqEqual
<1> QED BY <1>7, <1>9, <1>11, <1>13, <1>16

-----------------------------------------------------------------------------
(* Ends_Of_Lines reads the bytes b in f.                                     *)
Reads(f, b, e) ==
  /\ f.Gap_Start \in Nat /\ f.Gap_Last \in Int /\ Gap_Length(f) \in Nat
  /\ f.File_Length = At(f, Len(b))
  /\ f.Gap_Start > Len(b) \/ (f.Gap_Start \in 1 .. Len(b) /\ b[f.Gap_Start] = "LF")
  /\ Get_Buffer_Length(f) \in Nat /\ f.File_Length <= Get_Buffer_Length(f)
  /\ f.File_Length < Get_Buffer_Length(f) => f.Source[f.File_Length] \notin {"CR", "LF"}
  /\ \A q \in 0 .. Len(b) - 1 : f.Source[At(f, q)] = b[q + 1]
  /\ Len(e) = 1 => \A p \in 0 .. Get_Buffer_Length(f) - 1 : f.Source[p] # "CR"

(* The position after the end of line at p.                                  *)
Next_Line(f, p) == Skip_Gap(f, p + Is_Newline(f.Source, p, Get_Buffer_Length(f) - 1))

(* The body of the recursive function of Ends_Of_Lines.                      *)
After_Body(f, h, p) ==
  IF p = f.File_Length THEN << >>
  ELSE IF Is_Newline(f.Source, p, Get_Buffer_Length(f) - 1) = 0 THEN h[p + 1]
  ELSE <<Next_Line(f, p)>> \o h[Next_Line(f, p)]

(* h is the recursive function of Ends_Of_Lines, from n.                     *)
Ends(f, h, n) == h = [p \in n .. f.File_Length |-> After_Body(f, h, p)]

(* The scan goes forward, inside the file.                                   *)
LEMMA ScanForward ==
  ASSUME NEW f, NEW b, Len(b) \in Nat, NEW e, Reads(f, b, e),
         NEW p \in 0 .. f.File_Length - 1,
         Is_Newline(f.Source, p, Get_Buffer_Length(f) - 1) # 0
  PROVE  Next_Line(f, p) \in p + 1 .. f.File_Length
<1>1. PICK n : n = Is_Newline(f.Source, p, Get_Buffer_Length(f) - 1) OBVIOUS
<1>2. PICK N \in Nat : N = Len(b) OBVIOUS
<1>3. PICK G \in Nat : G = Gap_Length(f) BY DEF Reads
<1>4. PICK s \in Nat : s = f.Gap_Start BY DEF Reads
<1>5. f.Gap_Last = s + G - 1 BY <1>3, <1>4 DEF Reads, Gap_Length
<1>6. PICK FL \in Nat : FL = f.File_Length BY <1>2, <1>3, <1>4 DEF Reads, At
<1>7. FL = (IF N < s THEN N ELSE N + G) /\ (s > N \/ s \in 1 .. N)
  BY <1>2, <1>3, <1>4, <1>6 DEF Reads, At
<1>8. n = 1 \/ n = 2 BY <1>1 DEF Is_Newline
<1>9. p + n <= FL
  <2>1. CASE n = 1 BY <1>6, <2>1
  <2>2. CASE n = 2
    <3>1. /\ p < Get_Buffer_Length(f) - 1
          /\ f.Source[p + 1] = "LF" \/ f.Source[p + 1] = "CR"
      BY <1>1, <2>2 DEF Is_Newline
    <3>2. p + 1 # FL BY <1>6, <3>1 DEF Reads
    <3> QED BY <1>6, <2>2, <3>2
  <2> QED BY <1>8, <2>1, <2>2
<1>10. Next_Line(f, p) = IF p + n = s THEN s + G ELSE p + n
  BY <1>1, <1>3, <1>4, <1>5 DEF Next_Line, Skip_Gap
<1>11. p + n = s => s + G <= FL BY <1>7, <1>9
<1> QED BY <1>6, <1>8, <1>9, <1>10, <1>11

(* The length of a file that reads b is a number.                            *)
LEMMA FileLengthNat ==
  ASSUME NEW f, NEW b, Len(b) \in Nat, NEW e, Reads(f, b, e)
  PROVE  f.File_Length \in Nat
BY AtType DEF Reads

(* The function that Ends_Of_Lines chooses exists.                           *)
LEMMA EndsExists ==
  ASSUME NEW f, NEW b, Len(b) \in Nat, NEW e, Reads(f, b, e)
  PROVE  \E h : Ends(f, h, 0)
<1>1. PICK N \in Nat : N = f.File_Length BY FileLengthNat
<1> DEFINE T == {k \in Nat : k <= N => \E h : Ends(f, h, N - k)}
<1>2. 0 \in T
  <2> DEFINE g == [p \in N .. N |-> << >>]
  <2>1. \A p \in N .. N : g[p] = After_Body(f, g, p)
    <3>1. \A p \in N .. N : p = N /\ g[p] = << >> OBVIOUS
    <3> QED BY <1>1, <3>1 DEF After_Body
  <2>2. g = [p \in N .. N |-> g[p]] OBVIOUS
  <2> HIDE DEF g
  <2>3. Ends(f, g, N) BY <1>1, <2>1, <2>2 DEF Ends
  <2>4. N - 0 = N OBVIOUS
  <2> QED BY <2>3, <2>4
<1>3. ASSUME NEW k \in T PROVE k + 1 \in T
  <2> SUFFICES ASSUME k + 1 <= N PROVE \E h : Ends(f, h, N - (k + 1)) BY <1>3
  <2>1. k \in Nat /\ k <= N BY <1>3
  <2>2. PICK m \in Nat : m = N - k /\ m - 1 = N - (k + 1) /\ m >= 1 /\ m <= N BY <2>1
  <2>3. PICK h : Ends(f, h, m) BY <1>3, <2>1, <2>2
  <2> DEFINE g == [p \in m - 1 .. N |-> IF p >= m THEN h[p] ELSE After_Body(f, h, p)]
  <2>4. \A p \in m .. N : h[p] = After_Body(f, h, p) BY <1>1, <2>3 DEF Ends
  <2>5. \A p \in m - 1 .. N : g[p] = After_Body(f, h, p) BY <2>2, <2>4
  <2>6. \A p \in m .. N : g[p] = h[p] BY <2>2
  <2>7. g = [p \in m - 1 .. N |-> g[p]] OBVIOUS
  <2> HIDE DEF g
  <2>8. ASSUME NEW p \in m - 1 .. N PROVE After_Body(f, h, p) = After_Body(f, g, p)
    <3>1. p \in Nat /\ p <= N /\ p >= m - 1 BY <2>2
    <3>2. CASE p = N BY <1>1, <3>2 DEF After_Body
    <3>3. CASE p # N
      <4>1. p \in 0 .. N - 1 /\ p + 1 \in m .. N BY <2>2, <3>1, <3>3
      <4>2. g[p + 1] = h[p + 1] BY <2>6, <4>1
      <4>3. Is_Newline(f.Source, p, Get_Buffer_Length(f) - 1) # 0
              => g[Next_Line(f, p)] = h[Next_Line(f, p)]
        <5> SUFFICES ASSUME Is_Newline(f.Source, p, Get_Buffer_Length(f) - 1) # 0
                     PROVE  g[Next_Line(f, p)] = h[Next_Line(f, p)]
          OBVIOUS
        <5>1. Next_Line(f, p) \in p + 1 .. N BY <1>1, <4>1, ScanForward
        <5>2. Next_Line(f, p) \in m .. N BY <2>2, <4>1, <5>1
        <5> QED BY <2>6, <5>2
      <4> QED BY <4>2, <4>3, Zenon DEF After_Body
    <3> QED BY <3>2, <3>3
  <2>9. \A p \in m - 1 .. N : g[p] = After_Body(f, g, p) BY <2>5, <2>8
  <2>10. Ends(f, g, m - 1) BY <1>1, <2>7, <2>9 DEF Ends
  <2> QED BY <2>2, <2>10
<1> HIDE DEF T
<1>4. Nat \subseteq T BY <1>2, <1>3, SetInduction DEF T
<1>5. N \in T BY <1>4
<1>6. N <= N /\ N - N = 0 OBVIOUS
<1> QED BY <1>5, <1>6 DEF T

(* It is the one that Ends_Of_Lines chooses.                                 *)
LEMMA EndsChoice ==
  ASSUME NEW f, NEW b, Len(b) \in Nat, NEW e, Reads(f, b, e)
  PROVE  \E h : Ends(f, h, 0) /\ Ends_Of_Lines(f) = h[0]
<1> DEFINE h == CHOOSE h : Ends(f, h, 0)
<1>1. Ends_Of_Lines(f) = h[0] BY DEF Ends_Of_Lines, Ends, After_Body, Next_Line
<1>2. Ends(f, h, 0) BY EndsExists
<1> HIDE DEF h
<1> QED BY <1>1, <1>2

(* The next byte is next in the file, unless it is behind the gap.           *)
LEMMA AtNext ==
  ASSUME NEW f, NEW b, Len(b) \in Nat, NEW e, Reads(f, b, e), NEW q \in 0 .. Len(b) - 1
  PROVE  /\ At(f, q) \in Nat /\ At(f, q) < f.File_Length
         /\ b[q + 1] # "LF" => At(f, q + 1) = At(f, q) + 1
         /\ Skip_Gap(f, At(f, q) + 1) = At(f, q + 1)
<1>1. PICK N \in Nat : N = Len(b) OBVIOUS
<1>2. PICK G \in Nat : G = Gap_Length(f) BY DEF Reads
<1>3. PICK s \in Nat : s = f.Gap_Start BY DEF Reads
<1>4. f.Gap_Last = s + G - 1 BY <1>2, <1>3 DEF Reads, Gap_Length
<1>5. s > N \/ (s \in 1 .. N /\ b[s] = "LF") BY <1>1, <1>3 DEF Reads
<1>6. \A x \in Nat : At(f, x) = IF x < s THEN x ELSE x + G BY <1>2, <1>3 DEF At
<1>7. f.File_Length = IF N < s THEN N ELSE N + G BY <1>1, <1>6 DEF Reads
<1>8. At(f, q) = IF q < s THEN q ELSE q + G BY <1>6
<1>9. At(f, q + 1) = IF q + 1 < s THEN q + 1 ELSE q + 1 + G BY <1>6
<1>10. Skip_Gap(f, At(f, q) + 1) = IF At(f, q) + 1 = s THEN s + G ELSE At(f, q) + 1
  BY <1>3, <1>4 DEF Skip_Gap
<1>11. q \in Nat /\ q < N BY <1>1
<1>12. At(f, q) < f.File_Length BY <1>7, <1>8, <1>11
<1>13. b[q + 1] # "LF" => q + 1 # s BY <1>1, <1>5, <1>11
<1> QED BY <1>8, <1>9, <1>10, <1>11, <1>12, <1>13

(* The lines after a byte, and the bytes at which the scan stops.            *)
After(b, q) == {x \in LFs(b) : x > q}

(* The scan never stops between CR and LF.                                   *)
Ready(b, q) == q = 0 \/ b[q] # "CR"

(* From byte q the scan finds the lines after it.                            *)
Scanned(f, h, b, q) == \E r : Rows(r, After(b, q)) /\ h[At(f, q)] = Placed(f, r)

(* No line at all.                                                           *)
LEMMA RowsEmpty == Rows(<< >>, {})
<1>1. PICK z : z = << >> OBVIOUS
<1>2. z \in Seq(Nat) /\ Len(z) = 0 BY ONLY <1>1, EmptySeq
<1>3. Rows(z, {}) BY <1>2 DEF Rows
<1> QED BY <1>1, <1>3

(* At the end of the file nothing is left to find.                           *)
LEMMA ScannedEnd ==
  ASSUME NEW f, NEW b, Len(b) \in Nat, NEW e, Reads(f, b, e), NEW h, Ends(f, h, 0)
  PROVE  Scanned(f, h, b, Len(b))
<1>1. PICK z : z = << >> OBVIOUS
<1>2. After(b, Len(b)) = {} BY DEF After, LFs
<1>3. Rows(z, After(b, Len(b))) BY <1>1, <1>2, RowsEmpty
<1>4. f.File_Length \in Nat BY FileLengthNat
<1>5. h[f.File_Length] = << >>
  <2>1. f.File_Length \in 0 .. f.File_Length BY <1>4
  <2>2. h[f.File_Length] = After_Body(f, h, f.File_Length) BY <2>1 DEF Ends
  <2> QED BY <2>2 DEF After_Body
<1>6. Placed(f, z) = << >>
  <2>1. z \in Seq(Nat) /\ Len(z) = 0 BY ONLY <1>1, EmptySeq
  <2>2. f.Gap_Start \in Nat /\ Gap_Length(f) \in Nat BY DEF Reads
  <2>3. Placed(f, z) \in Seq(Nat) /\ Len(Placed(f, z)) = 0 BY <2>1, <2>2, PlacedType
  <2> QED BY <2>3, EmptySeq
<1>7. f.File_Length = At(f, Len(b)) BY DEF Reads
<1> QED BY <1>3, <1>5, <1>6, <1>7 DEF Scanned

(* One line more.                                                            *)
LEMMA ScannedLine ==
  ASSUME NEW f, NEW b, Len(b) \in Nat, NEW e, Reads(f, b, e), NEW h,
         NEW q \in Nat, NEW x \in LFs(b), q < x, \A y \in q + 1 .. x - 1 : b[y] # "LF",
         Scanned(f, h, b, x), h[At(f, q)] = <<At(f, x)>> \o h[At(f, x)]
  PROVE  Scanned(f, h, b, q)
<1>1. PICK r : Rows(r, After(b, x)) /\ h[At(f, x)] = Placed(f, r) BY DEF Scanned
<1>2. x \in Nat /\ x \in 1 .. Len(b) BY DEF LFs
<1>3. After(b, q) = After(b, x) \cup {x}
  <2>1. ASSUME NEW y \in After(b, q), y # x PROVE y \in After(b, x)
    <3>1. y \in LFs(b) /\ y > q /\ y \in Nat /\ b[y] = "LF" BY DEF After, LFs
    <3>2. ~(y < x) BY <1>2, <3>1
    <3> QED BY <1>2, <2>1, <3>1, <3>2 DEF After
  <2>2. After(b, x) \subseteq After(b, q) BY <1>2 DEF After, LFs
  <2>3. x \in After(b, q) BY DEF After
  <2> QED BY <2>1, <2>2, <2>3
<1>4. PICK S : S = After(b, x) OBVIOUS
<1>5. S \in SUBSET Nat /\ \A y \in S : x < y BY <1>4 DEF After, LFs
<1>6. Rows(<<x>> \o r, S \cup {x}) BY <1>1, <1>2, <1>4, <1>5, RowsCons
<1>7. r \in Seq(Nat) /\ f.Gap_Start \in Nat /\ Gap_Length(f) \in Nat BY <1>1 DEF Rows, Reads
<1>8. Placed(f, <<x>> \o r) = <<At(f, x)>> \o Placed(f, r) BY <1>2, <1>7, PlacedCons
<1>9. PICK t : t = <<x>> \o r OBVIOUS
<1>10. Rows(t, After(b, q)) BY <1>3, <1>4, <1>6, <1>9
<1>11. h[At(f, q)] = Placed(f, t) BY <1>1, <1>8, <1>9
<1> QED BY <1>10, <1>11 DEF Scanned

(* A step of the scan: a character, or an end of line of one or two          *)
(* characters and the gap after it.                                          *)
LEMMA ScannedStep ==
  ASSUME NEW e \in Newlines, NEW b \in Seq(Bytes_Of(e)), Clean(b, e), NEW f, Reads(f, b, e),
         NEW h, Ends(f, h, 0), NEW q \in 0 .. Len(b) - 1, Ready(b, q),
         \A x \in q + 1 .. Len(b) : Ready(b, x) => Scanned(f, h, b, x)
  PROVE  Scanned(f, h, b, q)
<1>1. PICK N \in Nat : N = Len(b) OBVIOUS
<1>2. PICK p : p = At(f, q) OBVIOUS
<1>3. PICK c : c = b[q + 1] OBVIOUS
<1>4. PICK last : last = Get_Buffer_Length(f) - 1 OBVIOUS
<1>5. f.File_Length \in Nat /\ last \in Int /\ f.File_Length <= last + 1
  BY <1>1, <1>4, FileLengthNat DEF Reads
<1>6. p \in Nat /\ p < f.File_Length BY <1>1, <1>2, AtNext
<1>7. c # "LF" => At(f, q + 1) = p + 1 BY <1>1, <1>2, <1>3, AtNext
<1>8. Skip_Gap(f, p + 1) = At(f, q + 1) BY <1>1, <1>2, AtNext
<1>9. f.Source[p] = c BY <1>1, <1>2, <1>3 DEF Reads
<1>10. h[p] = After_Body(f, h, p)
  <2>1. p \in 0 .. f.File_Length BY <1>5, <1>6
  <2> QED BY <2>1 DEF Ends
<1>11. PICK n : n = Is_Newline(f.Source, p, last) OBVIOUS
<1>12. /\ n = 0 => h[p] = h[p + 1]
       /\ n # 0 => h[p] = <<Next_Line(f, p)>> \o h[Next_Line(f, p)]
       /\ Next_Line(f, p) = Skip_Gap(f, p + n)
  BY <1>4, <1>5, <1>6, <1>10, <1>11 DEF After_Body, Next_Line
<1>13. q \in Nat /\ q < N /\ q + 1 \in 1 .. N /\ q + 1 \in q + 1 .. N BY <1>1
<1>14. CASE c \notin {"CR", "LF"}
  <2>1. n = 0 BY <1>9, <1>11, <1>14 DEF Is_Newline
  <2>2. h[p] = h[At(f, q + 1)] BY <1>7, <1>12, <1>14, <2>1
  <2>3. Ready(b, q + 1) BY <1>3, <1>14 DEF Ready
  <2>4. Scanned(f, h, b, q + 1) BY <1>1, <1>13, <2>3
  <2>5. After(b, q + 1) = After(b, q)
    <3>1. ASSUME NEW y \in After(b, q) PROVE y > q + 1
      <4>1. y \in Nat /\ y > q /\ b[y] = "LF" BY DEF After, LFs
      <4>2. y # q + 1 BY <1>3, <1>14, <4>1
      <4> QED BY <1>13, <4>1, <4>2
    <3>2. After(b, q) \subseteq After(b, q + 1) BY <3>1 DEF After
    <3>3. After(b, q + 1) \subseteq After(b, q) BY <1>13 DEF After, LFs
    <3> QED BY <3>2, <3>3
  <2> QED BY <1>2, <2>2, <2>4, <2>5 DEF Scanned
<1>15. CASE c = "LF"
  <2>1. Len(e) = 1
    <3> SUFFICES ASSUME Len(e) = 2 PROVE FALSE BY NewlineForms
    <3>1. q + 1 > 1 /\ b[(q + 1) - 1] = "CR" BY <1>1, <1>3, <1>13, <1>15 DEF Clean
    <3>2. (q + 1) - 1 = q /\ q # 0 BY <1>13, <3>1
    <3> QED BY <3>1, <3>2 DEF Ready
  <2>2. p < last => f.Source[p + 1] # "CR"
    <3>1. p < last => p + 1 \in 0 .. last BY <1>5, <1>6
    <3> QED BY <1>4, <2>1, <3>1 DEF Reads
  <2>3. n = 1 BY <1>9, <1>11, <1>15, <2>2 DEF Is_Newline
  <2>4. Next_Line(f, p) = At(f, q + 1) BY <1>8, <1>12, <2>3
  <2>5. Ready(b, q + 1) BY <1>3, <1>15 DEF Ready
  <2>6. Scanned(f, h, b, q + 1) BY <1>1, <1>13, <2>5
  <2>7. q + 1 \in LFs(b) BY <1>1, <1>3, <1>13, <1>15 DEF LFs
  <2>8. h[At(f, q)] = <<At(f, q + 1)>> \o h[At(f, q + 1)] BY <1>2, <1>12, <2>3, <2>4
  <2>9. q < q + 1 /\ \A y \in q + 1 .. (q + 1) - 1 : b[y] # "LF" BY <1>13
  <2> QED BY <1>1, <1>13, <2>6, <2>7, <2>8, <2>9, ScannedLine
<1>16. CASE c = "CR"
  <2>1. Len(e) = 2
    <3>1. Len(e) # 1 BY <1>1, <1>3, <1>13, <1>16 DEF Clean
    <3> QED BY <3>1, NewlineForms
  <2>2. q + 1 < N /\ b[(q + 1) + 1] = "LF" BY <1>1, <1>3, <1>13, <1>16, <2>1 DEF Clean
  <2>3. PICK z \in Nat : z = q + 1 BY <1>13
  <2>4. z \in 0 .. N - 1 /\ z + 1 \in 1 .. N /\ z + 1 \in q + 1 .. N /\ z + 1 = q + 2
    BY <1>13, <2>2, <2>3
  <2>5. At(f, z) = p + 1 BY <1>7, <1>16, <2>3
  <2>6. At(f, z) < f.File_Length /\ Skip_Gap(f, At(f, z) + 1) = At(f, z + 1)
    BY <1>1, <2>4, AtNext
  <2>7. f.Source[p + 1] = "LF"
    <3>1. f.Source[At(f, z)] = b[z + 1] BY <1>1, <2>4 DEF Reads
    <3> QED BY <2>2, <2>3, <2>5, <3>1
  <2>8. p < last BY <1>5, <1>6, <2>5, <2>6
  <2>9. n = 2 BY <1>9, <1>11, <1>16, <2>7, <2>8 DEF Is_Newline
  <2>10. Next_Line(f, p) = At(f, z + 1)
    <3>1. (p + 1) + 1 = p + 2 BY <1>6
    <3> QED BY <1>12, <2>5, <2>6, <2>9, <3>1
  <2>11. b[z + 1] = "LF" /\ b[z] = "CR" BY <1>3, <1>16, <2>2, <2>3
  <2>12. Ready(b, z + 1) BY <2>11 DEF Ready
  <2>13. Scanned(f, h, b, z + 1) BY <1>1, <2>4, <2>12
  <2>14. z + 1 \in LFs(b) BY <1>1, <2>4, <2>11 DEF LFs
  <2>15. h[At(f, q)] = <<At(f, z + 1)>> \o h[At(f, z + 1)] BY <1>2, <1>12, <2>9, <2>10
  <2>16. q < z + 1 /\ \A y \in q + 1 .. (z + 1) - 1 : b[y] # "LF"
    <3>1. \A y \in q + 1 .. (z + 1) - 1 : y = z BY <1>13, <2>3
    <3> QED BY <1>13, <2>3, <2>11, <3>1
  <2> QED BY <1>1, <1>13, <2>13, <2>14, <2>15, <2>16, ScannedLine
<1> QED BY <1>14, <1>15, <1>16

(* Ends_Of_Lines finds the position after each LF, in order.                 *)
LEMMA EndsAre ==
  ASSUME NEW e \in Newlines, NEW b \in Seq(Bytes_Of(e)), Clean(b, e), NEW f, Reads(f, b, e)
  PROVE  \E r : Rows(r, LFs(b)) /\ Ends_Of_Lines(f) = Placed(f, r)
<1>1. PICK N \in Nat : N = Len(b) OBVIOUS
<1>2. PICK h : Ends(f, h, 0) /\ Ends_Of_Lines(f) = h[0] BY <1>1, EndsChoice
<1> DEFINE T == {k \in Nat : \A q \in 0 .. N : q >= N - k /\ Ready(b, q) => Scanned(f, h, b, q)}
<1>3. 0 \in T
  <2>1. Scanned(f, h, b, N) BY <1>1, <1>2, ScannedEnd
  <2>2. \A q \in 0 .. N : q >= N - 0 => q = N OBVIOUS
  <2> QED BY <2>1, <2>2
<1>4. ASSUME NEW k \in T PROVE k + 1 \in T
  <2>1. k \in Nat /\ \A q \in 0 .. N : q >= N - k /\ Ready(b, q) => Scanned(f, h, b, q) BY <1>4
  <2> HIDE DEF T
  <2>2. ASSUME NEW q \in 0 .. N, q >= N - (k + 1), Ready(b, q) PROVE Scanned(f, h, b, q)
    <3>1. CASE q >= N - k BY <2>1, <2>2, <3>1
    <3>2. CASE q < N - k
      <4>1. q \in 0 .. N - 1 BY <2>1, <3>2
      <4>2. \A x \in q + 1 .. N : x \in 0 .. N /\ x >= N - k BY <2>1, <2>2
      <4>3. \A x \in q + 1 .. N : Ready(b, x) => Scanned(f, h, b, x) BY <2>1, <4>2
      <4> QED BY <1>1, <1>2, <2>2, <4>1, <4>3, ScannedStep
    <3> QED BY <2>1, <3>1, <3>2
  <2> QED BY <2>1, <2>2 DEF T
<1> HIDE DEF T
<1>5. Nat \subseteq T BY <1>3, <1>4, SetInduction DEF T
<1>6. N \in T BY <1>5
<1>7. Scanned(f, h, b, 0)
  <2>1. 0 \in 0 .. N /\ 0 >= N - N /\ Ready(b, 0) BY DEF Ready
  <2> QED BY <1>6, <2>1 DEF T
<1>8. After(b, 0) = LFs(b) BY DEF After, LFs
<1>9. At(f, 0) = 0
  <2>1. f.Gap_Start > 0 BY <1>1 DEF Reads
  <2> QED BY <2>1 DEF At
<1> QED BY <1>2, <1>7, <1>8, <1>9 DEF Scanned

(* The starts of the lines are 0 and what follows each LF.                   *)
LEMMA StartsSplit == ASSUME NEW b PROVE Starts(b) = LFs(b) \cup {0} /\ LFs(b) \in SUBSET Nat
BY DEF Starts, LFs

(* Compute_Lines finds the lines of the bytes that a file holds.             *)
LEMMA ComputeLinesAre ==
  ASSUME NEW e \in Newlines, NEW b \in Seq(Bytes_Of(e)), Clean(b, e), NEW f, Reads(f, b, e)
  PROVE  \E r : Rows(r, Starts(b)) /\ Compute_Lines(f) = Placed(f, r)
<1>1. PICK r : Rows(r, LFs(b)) /\ Ends_Of_Lines(f) = Placed(f, r) BY EndsAre
<1>2. r \in Seq(Nat) /\ f.Gap_Start \in Nat /\ Gap_Length(f) \in Nat BY <1>1 DEF Rows, Reads
<1>3. Placed(f, <<0>> \o r) = <<At(f, 0)>> \o Placed(f, r) BY <1>2, PlacedCons, 0 \in Nat
<1>4. At(f, 0) = 0
  <2>1. f.Gap_Start > 0
    <3>1. Len(b) \in Nat OBVIOUS
    <3> QED BY <1>2, <3>1 DEF Reads
  <2> QED BY <2>1 DEF At
<1>5. PICK t : t = <<0>> \o r OBVIOUS
<1>6. PICK S : S = LFs(b) OBVIOUS
<1>7. S \in SUBSET Nat /\ \A y \in S : 0 < y BY <1>6 DEF LFs
<1>8. Rows(<<0>> \o r, S \cup {0}) BY <1>1, <1>6, <1>7, RowsCons, 0 \in Nat
<1>9. Rows(t, Starts(b)) BY <1>5, <1>6, <1>8, StartsSplit
<1>10. Compute_Lines(f) = Placed(f, t) BY <1>1, <1>3, <1>4, <1>5 DEF Compute_Lines
<1> QED BY <1>9, <1>10

(* A text to insert is read as a file without gap.                           *)
LEMMA TextReads ==
  ASSUME NEW e \in Newlines, NEW b \in Seq(Bytes_Of(e)), Clean(b, e)
  PROVE  /\ Reads(As_File(b), b, e)
         /\ \A q \in 0 .. Len(b) : At(As_File(b), q) = q
<1>1. PICK N \in Nat : N = Len(b) OBVIOUS
<1>2. PICK f : f = As_File(b) OBVIOUS
<1>3. /\ f.Source = [p \in 0 .. N - 1 |-> b[p + 1]] /\ f.File_Length = N
      /\ f.Gap_Start = N + 1 /\ f.Gap_Last = N + 1
  BY <1>1, <1>2 DEF As_File
<1>4. Gap_Length(f) = 1 BY <1>3 DEF Gap_Length
<1>5. DOMAIN f.Source = 0 .. N - 1 /\ \A p \in 0 .. N - 1 : f.Source[p] = b[p + 1] BY <1>3
<1>6. Get_Buffer_Length(f) = N BY <1>5, IntervalSize DEF Get_Buffer_Length
<1>7. \A q \in 0 .. N : At(f, q) = q BY <1>3 DEF At
<1>8. Len(e) = 1 => \A p \in 0 .. N - 1 : f.Source[p] # "CR"
  <2> SUFFICES ASSUME Len(e) = 1, NEW p \in 0 .. N - 1 PROVE f.Source[p] # "CR" OBVIOUS
  <2>1. p + 1 \in 1 .. N OBVIOUS
  <2>2. b[p + 1] # "CR" BY <1>1, <2>1 DEF Clean
  <2> QED BY <1>5, <2>2
<1>9. \A q \in 0 .. N - 1 : f.Source[At(f, q)] = b[q + 1] BY <1>5, <1>7
<1>10. f.File_Length = At(f, N) BY <1>3, <1>7
<1>11. Reads(f, b, e) BY <1>1, <1>3, <1>4, <1>6, <1>8, <1>9, <1>10 DEF Reads
<1> QED BY <1>1, <1>2, <1>7, <1>11

(* A text to insert is scanned exactly.                                      *)
LEMMA AfterNewlinesAre ==
  ASSUME NEW e \in Newlines, NEW b \in Seq(Bytes_Of(e)), Clean(b, e)
  PROVE  Rows(After_Newlines(b), LFs(b))
<1>1. PICK f : f = As_File(b) OBVIOUS
<1>2. Reads(f, b, e) /\ \A q \in 0 .. Len(b) : At(f, q) = q BY <1>1, TextReads
<1>3. PICK r : Rows(r, LFs(b)) /\ Ends_Of_Lines(f) = Placed(f, r) BY <1>2, EndsAre
<1>4. r \in Seq(Nat) /\ f.Gap_Start \in Nat /\ Gap_Length(f) \in Nat
  BY <1>2, <1>3 DEF Rows, Reads
<1>5. PICK p : p = Placed(f, r) OBVIOUS
<1>6. /\ p \in Seq(Nat) /\ Len(p) = Len(r)
      /\ \A k \in 1 .. Len(r) : p[k] = At(f, r[k])
  BY <1>4, <1>5, PlacedType
<1>7. ASSUME NEW k \in 1 .. Len(r) PROVE p[k] = r[k]
  <2>1. r[k] \in LFs(b) BY <1>3 DEF Rows
  <2>2. r[k] \in 0 .. Len(b) BY <2>1 DEF LFs
  <2> QED BY <1>2, <1>6, <2>2
<1>8. p = r BY <1>4, <1>6, <1>7, SeqEqual
<1> QED BY <1>1, <1>3, <1>5, <1>8 DEF After_Newlines

-----------------------------------------------------------------------------
(* A buffer that holds some bytes and two EOT, around a gap.                 *)
Cells(e) == Bytes_Of(e) \cup {"EOT", Stale}

(* The buffers, of any length; the text, the EOT and what the gap holds.     *)
Sources(e) == UNION {[0 .. n - 1 -> Cells(e)] : n \in Nat}
Source_File_Records(e) ==
  [Source : Sources(e), File_Length : Nat, Gap_Start : Nat, Gap_Last : Int,
   Lines : Seq(Nat), Cache_Line : Nat, Cache_Pos : Nat]

(* A text with the two EOT.                                                  *)
Ended(b) == b \o <<"EOT", "EOT">>

(* The characters c are in src, but for the G characters of a gap at s.      *)
Laid(src, c, s, G) ==
  /\ DOMAIN src = 0 .. Len(c) + G - 1
  /\ \A q \in 0 .. Len(c) - 1 : src[IF q < s THEN q ELSE q + G] = c[q + 1]

(* The gap is after the EOT or after an end of line.                         *)
Gap_Placed(b, s) == s = Len(b) + 2 \/ (s \in 1 .. Len(b) /\ b[s] = "LF")

(* f holds the bytes b, and r are its lines.                                 *)
Holds(f, b, e) ==
  /\ f \in Source_File_Records(e) /\ Gap_Length(f) \in Nat
  /\ Laid(f.Source, Ended(b), f.Gap_Start, Gap_Length(f))
  /\ Gap_Placed(b, f.Gap_Start)
  /\ f.File_Length = At(f, Len(b))

(* f mirrors b: it holds it, its table has exactly the lines r of b, and its *)
(* cache is a line of the table.                                             *)
Mirrors(f, b, r, e) ==
  /\ Holds(f, b, e)
  /\ Rows(r, Starts(b)) /\ f.Lines = Placed(f, r)
  /\ f.Cache_Line \in 1 .. Len(f.Lines) /\ f.Cache_Pos = f.Lines[f.Cache_Line]

(* A buffer as a function, with its length.                                  *)
LEMMA SourceIs ==
  ASSUME NEW e, NEW src \in Sources(e)
  PROVE  \E n \in Nat : /\ DOMAIN src = 0 .. n - 1 /\ Cardinality(DOMAIN src) = n
                        /\ src = [p \in 0 .. n - 1 |-> src[p]]
                        /\ \A p \in 0 .. n - 1 : src[p] \in Cells(e)
<1>1. PICK n \in Nat : src \in [0 .. n - 1 -> Cells(e)] BY DEF Sources
<1>2. /\ DOMAIN src = 0 .. n - 1 /\ src = [p \in 0 .. n - 1 |-> src[p]]
      /\ \A p \in 0 .. n - 1 : src[p] \in Cells(e)
  BY <1>1
<1> QED BY <1>2, IntervalSize

(* The characters of a text with the two EOT.                                *)
LEMMA EndedIs ==
  ASSUME NEW S, NEW b \in Seq(S)
  PROVE  /\ Ended(b) \in Seq(S \cup {"EOT"}) /\ Len(Ended(b)) = Len(b) + 2
         /\ \A i \in 1 .. Len(b) : Ended(b)[i] = b[i]
         /\ Ended(b)[Len(b) + 1] = "EOT" /\ Ended(b)[Len(b) + 2] = "EOT"
<1>1. PICK x : x = <<"EOT", "EOT">> OBVIOUS
<1>2. PICK U : U = S \cup {"EOT"} OBVIOUS
<1>3. x \in Seq(U) /\ Len(x) = 2 /\ x[1] = "EOT" /\ x[2] = "EOT" BY <1>1, <1>2
<1>4. b \in Seq(U)
  <2>1. \A i \in 1 .. Len(b) : b[i] \in U BY <1>2
  <2> QED BY <1>2, <2>1
<1>5. PICK c : c = b \o x OBVIOUS
<1>6. /\ c \in Seq(U) /\ Len(c) = Len(b) + 2
      /\ \A i \in 1 .. Len(b) : c[i] = b[i]
      /\ \A i \in 1 .. 2 : c[Len(b) + i] = x[i]
  BY <1>3, <1>4, <1>5, ConcatParts
<1>7. c[Len(b) + 1] = "EOT" /\ c[Len(b) + 2] = "EOT" BY <1>3, <1>6
<1> QED BY <1>1, <1>2, <1>5, <1>6, <1>7 DEF Ended

(* So it can be read.                                                        *)
LEMMA HoldsReads ==
  ASSUME NEW e \in Newlines, NEW b \in Seq(Bytes_Of(e)), NEW f, Holds(f, b, e)
  PROVE  /\ Reads(f, b, e) /\ Get_Buffer_Length(f) = Len(b) + 2 + Gap_Length(f)
         /\ DOMAIN f.Source = 0 .. Len(b) + 1 + Gap_Length(f)
         /\ f.Source[f.File_Length] = "EOT" /\ f.Source[f.File_Length + 1] = "EOT"
<1>1. PICK N \in Nat : N = Len(b) OBVIOUS
<1>2. PICK c : c = Ended(b) OBVIOUS
<1>3. /\ Len(c) = N + 2 /\ c[N + 1] = "EOT" /\ c[N + 2] = "EOT"
      /\ \A i \in 1 .. N : c[i] = b[i]
  BY <1>1, <1>2, EndedIs
<1>4. PICK G \in Nat : G = Gap_Length(f) BY DEF Holds
<1>5. PICK s \in Nat : s = f.Gap_Start BY DEF Holds, Source_File_Records
<1>6. f.Gap_Last \in Int /\ f.Source \in Sources(e) BY DEF Holds, Source_File_Records
<1>7. PICK n \in Nat : /\ DOMAIN f.Source = 0 .. n - 1 /\ Cardinality(DOMAIN f.Source) = n
                       /\ \A p \in 0 .. n - 1 : f.Source[p] \in Cells(e)
  BY <1>6, SourceIs
<1>8. n = N + 2 + G
  <2>1. 0 .. n - 1 = 0 .. N + 2 + G - 1 BY <1>2, <1>3, <1>4, <1>7 DEF Holds, Laid
  <2>2. PICK k \in Nat : k = N + 2 + G OBVIOUS
  <2>3. n - 1 \in 0 .. n - 1 \/ n = 0 OBVIOUS
  <2>4. k - 1 \in 0 .. k - 1 BY <2>2
  <2>5. 0 .. n - 1 = 0 .. k - 1 BY <2>1, <2>2
  <2>6. k - 1 <= n - 1 BY <2>4, <2>5
  <2>7. n # 0 BY <2>6, <2>2
  <2>8. n - 1 <= k - 1 BY <2>3, <2>5, <2>7
  <2> QED BY <2>2, <2>6, <2>8
<1>9. \A q \in 0 .. N + 1 : f.Source[IF q < s THEN q ELSE q + G] = c[q + 1]
  <2>1. \A q \in 0 .. Len(c) - 1 : f.Source[IF q < s THEN q ELSE q + G] = c[q + 1]
    BY <1>2, <1>4, <1>5 DEF Holds, Laid
  <2> QED BY <1>3, <2>1
<1>10. \A q \in Nat : At(f, q) = IF q < s THEN q ELSE q + G BY <1>4, <1>5 DEF At
<1>11. f.File_Length = At(f, N) BY <1>1 DEF Holds
<1>12. s = N + 2 \/ (s \in 1 .. N /\ b[s] = "LF") BY <1>1, <1>5 DEF Holds, Gap_Placed
<1>13. Get_Buffer_Length(f) = N + 2 + G BY <1>7, <1>8 DEF Get_Buffer_Length
<1>14. f.File_Length \in Nat /\ f.File_Length <= N + G BY <1>10, <1>11
<1>15. \A q \in 0 .. N - 1 : f.Source[At(f, q)] = b[q + 1]
  <2> SUFFICES ASSUME NEW q \in 0 .. N - 1 PROVE f.Source[At(f, q)] = b[q + 1] OBVIOUS
  <2>1. q \in 0 .. N + 1 /\ q + 1 \in 1 .. N /\ q \in Nat OBVIOUS
  <2> QED BY <1>3, <1>9, <1>10, <2>1
<1>16. f.Source[f.File_Length] = "EOT"
  <2>1. N \in 0 .. N + 1 /\ N \in Nat OBVIOUS
  <2> QED BY <1>3, <1>9, <1>10, <1>11, <2>1
<1>17. f.Source[f.File_Length + 1] = "EOT"
  <2>1. N + 1 \in 0 .. N + 1 /\ (N + 1) + 1 = N + 2 OBVIOUS
  <2>2. (IF N + 1 < s THEN N + 1 ELSE N + 1 + G) = f.File_Length + 1 BY <1>10, <1>11, <1>12
  <2>3. f.Source[IF N + 1 < s THEN N + 1 ELSE N + 1 + G] = c[(N + 1) + 1] BY <1>9, <2>1
  <2> QED BY <1>3, <2>1, <2>2, <2>3
<1>18. Len(e) = 1 => \A p \in 0 .. n - 1 : f.Source[p] # "CR"
  <2> SUFFICES ASSUME Len(e) = 1, NEW p \in 0 .. n - 1 PROVE f.Source[p] # "CR" OBVIOUS
  <2>1. e[1] = "LF" BY NewlineForms
  <2>2. \A i \in 1 .. Len(e) : e[i] = "LF" BY <2>1
  <2>3. "CR" \notin Cells(e) BY <2>2, LettersApart DEF Cells, Bytes_Of, Stale
  <2> QED BY <1>7, <2>3
<1>19. s > N \/ (s \in 1 .. N /\ b[s] = "LF") BY <1>12
<1>20. Reads(f, b, e)
  <2>1. f.Gap_Start \in Nat /\ f.Gap_Last \in Int /\ Gap_Length(f) \in Nat BY <1>4, <1>5, <1>6
  <2>2. f.File_Length = At(f, Len(b)) BY <1>1, <1>11
  <2>3. f.Gap_Start > Len(b) \/ (f.Gap_Start \in 1 .. Len(b) /\ b[f.Gap_Start] = "LF") BY <1>1, <1>5, <1>19
  <2>4. Get_Buffer_Length(f) \in Nat /\ f.File_Length <= Get_Buffer_Length(f) BY <1>13, <1>14
  <2>5. f.Source[f.File_Length] \notin {"CR", "LF"} BY <1>16
  <2>6. \A q \in 0 .. Len(b) - 1 : f.Source[At(f, q)] = b[q + 1] BY ONLY <1>1, <1>15
  <2>7. Len(e) = 1 => \A p \in 0 .. Get_Buffer_Length(f) - 1 : f.Source[p] # "CR" BY ONLY <1>8, <1>13, <1>18
  <2> QED BY ONLY <2>1, <2>2, <2>3, <2>4, <2>5, <2>6, <2>7 DEF Reads
<1>21. DOMAIN f.Source = 0 .. N + 1 + G BY <1>7, <1>8
<1>22. Get_Buffer_Length(f) = Len(b) + 2 + Gap_Length(f) BY ONLY <1>1, <1>4, <1>13
<1>23. DOMAIN f.Source = 0 .. Len(b) + 1 + Gap_Length(f) BY ONLY <1>1, <1>4, <1>21
<1> QED BY ONLY <1>16, <1>17, <1>20, <1>22, <1>23

-----------------------------------------------------------------------------
(* The moves of the characters around the gap.                               *)
Takes(w, src, to, from, k, n) ==
  /\ DOMAIN w = 0 .. n - 1
  /\ \A p \in 0 .. n - 1 : w[p] = IF p \in to .. to + k - 1 THEN src[from + p - to] ELSE src[p]

(* w is src with the text x written at to.                                   *)
Gives(w, src, to, x, n) ==
  /\ DOMAIN w = 0 .. n - 1
  /\ \A p \in 0 .. n - 1 : w[p] = IF p \in to .. to + Len(x) - 1 THEN x[p - to + 1] ELSE src[p]

(* A move inside a buffer gives a buffer.                                    *)
LEMMA MovedType ==
  ASSUME NEW e, NEW src \in Sources(e), NEW n \in Nat, DOMAIN src = 0 .. n - 1,
         NEW to \in Nat, NEW from \in Nat, NEW k \in Nat, from + k <= n
  PROVE  /\ Moved(src, to, from, k) \in Sources(e)
         /\ Takes(Moved(src, to, from, k), src, to, from, k, n)
<1>1. \A p \in 0 .. n - 1 : src[p] \in Cells(e)
  <2>1. PICK m \in Nat : DOMAIN src = 0 .. m - 1 /\ \A p \in 0 .. m - 1 : src[p] \in Cells(e)
    BY SourceIs
  <2>2. 0 .. m - 1 = 0 .. n - 1 BY <2>1
  <2> QED BY <2>1, <2>2
<1>2. PICK g : g = Moved(src, to, from, k) OBVIOUS
<1>3. g = [p \in 0 .. n - 1 |-> IF p \in to .. to + k - 1 THEN src[from + p - to] ELSE src[p]]
  BY <1>2 DEF Moved
<1>4. ASSUME NEW p \in 0 .. n - 1
      PROVE  (IF p \in to .. to + k - 1 THEN src[from + p - to] ELSE src[p]) \in Cells(e)
  <2>1. CASE p \in to .. to + k - 1
    <3>1. from + p - to \in 0 .. n - 1 BY <2>1
    <3> QED BY <1>1, <2>1, <3>1
  <2>2. CASE p \notin to .. to + k - 1 BY <1>1, <2>2
  <2> QED BY <2>1, <2>2
<1>5. g \in [0 .. n - 1 -> Cells(e)] BY <1>3, <1>4
<1>6. g \in Sources(e) BY <1>5 DEF Sources
<1>7. Takes(g, src, to, from, k, n) BY <1>3 DEF Takes
<1> QED BY <1>2, <1>6, <1>7

(* The gap goes back to t: the characters between t and it are moved behind  *)
(* it.                                                                       *)
LEMMA LaidBack ==
  ASSUME NEW e, NEW src \in Sources(e), NEW S, NEW c \in Seq(S), NEW G \in Nat,
         NEW s \in 0 .. Len(c), NEW t \in 0 .. s, Laid(src, c, s, G)
  PROVE  /\ Laid(Moved(src, t + G, t, s - t), c, t, G)
         /\ Moved(src, t + G, t, s - t) \in Sources(e)
<1>1. PICK n \in Nat : n = Len(c) OBVIOUS
<1>2. PICK m \in Nat : m = n + G OBVIOUS
<1>3. DOMAIN src = 0 .. m - 1 /\ \A q \in 0 .. n - 1 : src[IF q < s THEN q ELSE q + G] = c[q + 1]
  BY <1>1, <1>2 DEF Laid
<1>4. PICK g : g = Moved(src, t + G, t, s - t) OBVIOUS
<1>21. s \in Nat /\ t \in Nat /\ t <= s /\ s <= n BY <1>1
<1>20. PICK to \in Nat, l \in Nat : to = t + G /\ l = s - t BY <1>21
<1>5. t + l <= m /\ t \in Nat /\ s \in Nat /\ s <= n BY <1>1, <1>2, <1>20, <1>21
<1>6. /\ g \in Sources(e) /\ DOMAIN g = 0 .. m - 1
      /\ \A p \in 0 .. m - 1 :
           g[p] = IF p \in to .. to + l - 1 THEN src[t + p - to] ELSE src[p]
  <2>1. g = Moved(src, to, t, l) BY <1>4, <1>20
  <2>2. g \in Sources(e) /\ Takes(g, src, to, t, l, m) BY <1>3, <1>5, <1>20, <2>1, MovedType
  <2> QED BY <2>2 DEF Takes
<1>7. ASSUME NEW q \in 0 .. n - 1 PROVE g[IF q < t THEN q ELSE q + G] = c[q + 1]
  <2>1. CASE q < t
    <3>1. q \in 0 .. m - 1 /\ q \notin to .. to + l - 1 /\ q < s BY <1>2, <1>5, <1>20, <2>1
    <3> QED BY <1>3, <1>6, <2>1, <3>1
  <2>2. CASE ~(q < t) /\ q < s
    <3>1. q + G \in 0 .. m - 1 /\ q + G \in to .. to + l - 1 /\ t + (q + G) - to = q
      BY <1>2, <1>5, <1>20, <2>2
    <3> QED BY <1>3, <1>6, <2>2, <3>1
  <2>3. CASE ~(q < t) /\ ~(q < s)
    <3>1. q + G \in 0 .. m - 1 /\ q + G \notin to .. to + l - 1 BY <1>2, <1>5, <1>20, <2>3
    <3> QED BY <1>3, <1>6, <2>3, <3>1
  <2> QED BY <2>1, <2>2, <2>3
<1>8. Laid(g, c, t, G) BY <1>1, <1>2, <1>6, <1>7 DEF Laid
<1> QED BY <1>4, <1>6, <1>8

(* The gap goes forth to t: the characters between it and t are moved in     *)
(* front of it.                                                              *)
LEMMA LaidForth ==
  ASSUME NEW e, NEW src \in Sources(e), NEW S, NEW c \in Seq(S), NEW G \in Nat,
         NEW s \in Nat, NEW t \in s .. Len(c), Laid(src, c, s, G)
  PROVE  /\ Laid(Moved(src, s, s + G, t - s), c, t, G)
         /\ Moved(src, s, s + G, t - s) \in Sources(e)
<1>1. PICK n \in Nat : n = Len(c) OBVIOUS
<1>2. PICK m \in Nat : m = n + G OBVIOUS
<1>3. DOMAIN src = 0 .. m - 1 /\ \A q \in 0 .. n - 1 : src[IF q < s THEN q ELSE q + G] = c[q + 1]
  BY <1>1, <1>2 DEF Laid
<1>4. PICK g : g = Moved(src, s, s + G, t - s) OBVIOUS
<1>21. s \in Nat /\ t \in Nat /\ s <= t /\ t <= n BY <1>1
<1>20. PICK from \in Nat, l \in Nat : from = s + G /\ l = t - s BY <1>21
<1>5. from + l <= m /\ t \in Nat /\ t <= n BY <1>1, <1>2, <1>20, <1>21
<1>6. /\ g \in Sources(e) /\ DOMAIN g = 0 .. m - 1
      /\ \A p \in 0 .. m - 1 :
           g[p] = IF p \in s .. s + l - 1 THEN src[from + p - s] ELSE src[p]
  <2>1. g = Moved(src, s, from, l) BY <1>4, <1>20
  <2>2. g \in Sources(e) /\ Takes(g, src, s, from, l, m) BY <1>3, <1>5, <1>20, <2>1, MovedType
  <2> QED BY <2>2 DEF Takes
<1>7. ASSUME NEW q \in 0 .. n - 1 PROVE g[IF q < t THEN q ELSE q + G] = c[q + 1]
  <2>1. CASE q < s
    <3>1. q \in 0 .. m - 1 /\ q \notin s .. s + l - 1 /\ q < t BY <1>2, <1>5, <1>20, <2>1
    <3> QED BY <1>3, <1>6, <2>1, <3>1
  <2>2. CASE ~(q < s) /\ q < t
    <3>1. q \in 0 .. m - 1 /\ q \in s .. s + l - 1 /\ from + q - s = q + G
      BY <1>2, <1>5, <1>20, <2>2
    <3> QED BY <1>3, <1>6, <2>2, <3>1
  <2>3. CASE ~(q < s) /\ ~(q < t)
    <3>1. q + G \in 0 .. m - 1 /\ q + G \notin s .. s + l - 1 BY <1>2, <1>5, <1>20, <2>3
    <3> QED BY <1>3, <1>6, <2>3, <3>1
  <2> QED BY <2>1, <2>2, <2>3
<1>8. Laid(g, c, t, G) BY <1>1, <1>2, <1>6, <1>7 DEF Laid
<1> QED BY <1>4, <1>6, <1>8

(* d is c with its elements after s up to t replaced by x.                   *)
Spliced(c, s, t, x, d) ==
  /\ Len(d) = s + Len(x) + (Len(c) - t)
  /\ \A i \in 1 .. s : d[i] = c[i]
  /\ \A i \in 1 .. Len(x) : d[s + i] = x[i]
  /\ \A i \in 1 .. Len(c) - t : d[s + Len(x) + i] = c[t + i]

(* A text written in a buffer gives a buffer.                                *)
LEMMA WrittenType ==
  ASSUME NEW e, NEW src \in Sources(e), NEW n \in Nat, DOMAIN src = 0 .. n - 1,
         NEW to \in Nat, NEW x \in Seq(Cells(e))
  PROVE  /\ Written(src, to, x) \in Sources(e)
         /\ Gives(Written(src, to, x), src, to, x, n)
<1>1. \A p \in 0 .. n - 1 : src[p] \in Cells(e)
  <2>1. PICK m \in Nat : DOMAIN src = 0 .. m - 1 /\ \A p \in 0 .. m - 1 : src[p] \in Cells(e)
    BY SourceIs
  <2>2. 0 .. m - 1 = 0 .. n - 1 BY <2>1
  <2> QED BY <2>1, <2>2
<1>2. PICK g : g = Written(src, to, x) OBVIOUS
<1>9. PICK k \in Nat : k = Len(x) OBVIOUS
<1>3. g = [p \in 0 .. n - 1 |-> IF p \in to .. to + k - 1 THEN x[p - to + 1] ELSE src[p]]
  BY <1>2, <1>9 DEF Written
<1>4. ASSUME NEW p \in 0 .. n - 1
      PROVE  (IF p \in to .. to + k - 1 THEN x[p - to + 1] ELSE src[p]) \in Cells(e)
  <2>1. CASE p \in to .. to + k - 1
    <3>1. p - to + 1 \in 1 .. k BY <2>1
    <3>2. x[p - to + 1] \in Cells(e) BY <1>9, <3>1
    <3> QED BY <2>1, <3>2
  <2>2. CASE p \notin to .. to + k - 1 BY <1>1, <2>2
  <2> QED BY <2>1, <2>2
<1>5. g \in [0 .. n - 1 -> Cells(e)] BY <1>3, <1>4
<1>6. g \in Sources(e) BY <1>5 DEF Sources
<1>7. Gives(g, src, to, x, n) BY <1>3, <1>9 DEF Gives
<1> QED BY <1>2, <1>6, <1>7

(* The text after a replacement, when it fits: the tail is moved to the gap, *)
(* then the new text is written.                                             *)
LEMMA LaidReplaced ==
  ASSUME NEW e, NEW src \in Sources(e), NEW S, NEW c \in Seq(S), NEW G \in Nat,
         NEW g \in 0 .. Len(c), NEW t \in 0 .. g, NEW s \in 0 .. t, NEW x \in Seq(Cells(e)),
         Len(x) <= G + (t - s), Laid(src, c, g, G), NEW T, NEW d \in Seq(T), Spliced(c, s, t, x, d)
  PROVE  LET new == Written(Moved(src, s + Len(x), t, g - t), s, x)
         IN /\ Laid(new, d, s + Len(x) + (g - t), G + (t - s) - Len(x))
            /\ new \in Sources(e)
<1>1. PICK n \in Nat, k \in Nat : n = Len(c) /\ k = Len(x) OBVIOUS
<1>2. PICK m \in Nat : m = n + G OBVIOUS
<1>3. DOMAIN src = 0 .. m - 1 /\ \A q \in 0 .. n - 1 : src[IF q < g THEN q ELSE q + G] = c[q + 1]
  <2>1. n + G - 1 = m - 1 BY ONLY <1>2, n \in Nat, m \in Nat, G \in Nat
  <2>2. /\ DOMAIN src = 0 .. n + G - 1
        /\ \A q \in 0 .. n - 1 : src[IF q < g THEN q ELSE q + G] = c[q + 1]
    BY ONLY <1>1, Laid(src, c, g, G), Zenon DEF Laid
  <2> QED BY ONLY <2>1, <2>2, Zenon
<1>21. s \in Nat /\ t \in Nat /\ g \in Nat /\ s <= t /\ t <= g /\ g <= n BY <1>1
<1>20. PICK y \in Nat, v \in Nat : y = s + k /\ v = g - t BY <1>21
<1>4. PICK w : w = Moved(src, s + k, t, g - t) OBVIOUS
<1>5. /\ g \in Nat /\ t \in Nat /\ s \in Nat /\ g - t \in Nat /\ s + k \in Nat /\ t + v <= m
      /\ g <= n /\ t <= g /\ s <= t /\ k <= G + (t - s)
  BY <1>1, <1>2, <1>20, <1>21
<1>6. /\ w \in Sources(e) /\ DOMAIN w = 0 .. m - 1
      /\ \A p \in 0 .. m - 1 :
           w[p] = IF p \in s + k .. s + k + (g - t) - 1 THEN src[t + p - (s + k)] ELSE src[p]
  <2>1. w = Moved(src, y, t, v) BY <1>4, <1>20
  <2>2. w \in Sources(e) /\ Takes(w, src, y, t, v, m) BY <1>3, <1>5, <1>20, <2>1, MovedType
  <2>3. Takes(w, src, s + k, t, g - t, m) BY <1>20, <2>2
  <2> QED BY <2>2, <2>3 DEF Takes
<1>7. PICK new : new = Written(w, s, x) OBVIOUS
<1>8. /\ new \in Sources(e) /\ DOMAIN new = 0 .. m - 1
      /\ \A p \in 0 .. m - 1 : new[p] = IF p \in s .. s + k - 1 THEN x[p - s + 1] ELSE w[p]
  <2>1. new \in Sources(e) /\ Gives(new, w, s, x, m) BY <1>5, <1>6, <1>7, WrittenType
  <2> QED BY <1>1, <2>1 DEF Gives
<1>9. PICK H \in Nat : H = G + (t - s) - k BY <1>5
<1>10. PICK h \in Nat : h = s + k + (g - t) BY <1>5
<1>11. PICK l \in Nat : l = s + k + (n - t) BY <1>5
<1>12. /\ Len(d) = l /\ \A i \in 1 .. s : d[i] = c[i]
       /\ \A i \in 1 .. k : d[s + i] = x[i]
       /\ \A i \in 1 .. n - t : d[s + k + i] = c[t + i]
  BY <1>1, <1>11 DEF Spliced
<1>13. m = l + H BY <1>2, <1>5, <1>9, <1>11
<1>14. ASSUME NEW q \in 0 .. l - 1 PROVE new[IF q < h THEN q ELSE q + H] = d[q + 1]
  <2>1. CASE q < s
    <3>1. /\ q \in 0 .. m - 1 /\ q \in 0 .. n - 1 /\ q < h /\ q < g /\ q + 1 \in 1 .. s
          /\ q \notin s .. s + k - 1 /\ q \notin s + k .. s + k + (g - t) - 1
      BY <1>2, <1>5, <1>10, <2>1
    <3> QED BY <1>3, <1>6, <1>8, <1>12, <3>1
  <2>2. CASE ~(q < s) /\ q < s + k
    <3>1. /\ q \in 0 .. m - 1 /\ q < h /\ q \in s .. s + k - 1 /\ q - s + 1 \in 1 .. k
          /\ s + (q - s + 1) = q + 1
      BY <1>2, <1>5, <1>10, <2>2
    <3>2. d[s + (q - s + 1)] = x[q - s + 1] BY <1>12, <3>1
    <3> QED BY <1>8, <3>1, <3>2
  <2>3. CASE ~(q < s + k) /\ q < h
    <3>1. PICK u \in Nat : u = t + q - (s + k) BY <1>5, <2>3
    <3>2. /\ q \in 0 .. m - 1 /\ q \notin s .. s + k - 1 /\ q \in s + k .. s + k + (g - t) - 1
          /\ u \in 0 .. n - 1 /\ u < g /\ u + 1 - t \in 1 .. n - t /\ s + k + (u + 1 - t) = q + 1
          /\ t + (u + 1 - t) = u + 1
      BY <1>5, <1>10, <1>11, <1>13, <2>3, <3>1
    <3>3. d[s + k + (u + 1 - t)] = c[t + (u + 1 - t)] BY <1>12, <3>2
    <3>4. src[u] = c[u + 1] BY <1>3, <3>2
    <3>5. new[q] = src[u] BY <1>6, <1>8, <3>1, <3>2
    <3> QED BY <2>3, <3>2, <3>3, <3>4, <3>5
  <2>4. CASE ~(q < h)
    <3>1. PICK u \in Nat : u = t + q - (s + k) BY <1>5, <1>10, <2>4
    <3>2. /\ q + H \in 0 .. m - 1 /\ q + H \notin s .. s + k - 1
          /\ q + H \notin s + k .. s + k + (g - t) - 1
          /\ u \in 0 .. n - 1 /\ ~(u < g) /\ q + H = u + G
          /\ u + 1 - t \in 1 .. n - t /\ s + k + (u + 1 - t) = q + 1
          /\ t + (u + 1 - t) = u + 1
      BY <1>5, <1>9, <1>10, <1>11, <1>13, <2>4, <3>1
    <3>3. d[s + k + (u + 1 - t)] = c[t + (u + 1 - t)] BY <1>12, <3>2
    <3>4. src[u + G] = c[u + 1] BY <1>3, <3>2
    <3>5. new[q + H] = src[q + H] BY <1>6, <1>8, <3>2
    <3>6. new[q + H] = d[q + 1] BY <3>2, <3>3, <3>4, <3>5
    <3> QED BY <2>4, <3>6
  <2> QED BY <1>5, <2>1, <2>2, <2>3, <2>4
<1>15. Laid(new, d, h, H) BY <1>8, <1>12, <1>13, <1>14 DEF Laid
<1>16. h = s + Len(x) + (g - t) /\ H = G + (t - s) - Len(x) BY <1>1, <1>9, <1>10
<1> QED BY <1>1, <1>4, <1>7, <1>8, <1>15, <1>16

-----------------------------------------------------------------------------
(* The records that the operations make.                                     *)
Remade(f, src, fl, li, gs, gl) ==
  [f EXCEPT !.Source = src, !.File_Length = fl, !.Lines = li, !.Gap_Start = gs, !.Gap_Last = gl]

(* The fields of a file that was remade.                                     *)
LEMMA RecordMade ==
  ASSUME NEW e, NEW f \in Source_File_Records(e), NEW src \in Sources(e), NEW fl \in Nat,
         NEW gs \in Nat, NEW gl \in Int, NEW li \in Seq(Nat)
  PROVE  LET g == Remade(f, src, fl, li, gs, gl)
         IN /\ g \in Source_File_Records(e)
            /\ g.Source = src /\ g.File_Length = fl /\ g.Gap_Start = gs /\ g.Gap_Last = gl
            /\ g.Lines = li /\ g.Cache_Line = f.Cache_Line /\ g.Cache_Pos = f.Cache_Pos
BY DEF Remade, Source_File_Records

(* The types of the fields of a file.                                        *)
LEMMA RecordFields ==
  ASSUME NEW e, NEW f \in Source_File_Records(e)
  PROVE  /\ f.Source \in Sources(e) /\ f.File_Length \in Nat /\ f.Gap_Start \in Nat
         /\ f.Gap_Last \in Int /\ f.Lines \in Seq(Nat)
         /\ f.Cache_Line \in Nat /\ f.Cache_Pos \in Nat
BY DEF Source_File_Records

(* A file after its cache was cleared.                                       *)
LEMMA CacheCleared ==
  ASSUME NEW e, NEW f \in Source_File_Records(e)
  PROVE  LET g == Clear_Cache(f)
         IN /\ g \in Source_File_Records(e)
            /\ g.Source = f.Source /\ g.File_Length = f.File_Length /\ g.Gap_Start = f.Gap_Start
            /\ g.Gap_Last = f.Gap_Last /\ g.Lines = f.Lines
            /\ g.Cache_Line = 1 /\ g.Cache_Pos = 0
BY DEF Source_File_Records, Clear_Cache

(* What the fields of a buffer that holds some bytes are.                    *)
Fields(b, s, G, gl, fl) ==
  /\ G \in Nat /\ s \in Nat /\ s >= 1 /\ gl = s + G - 1 /\ Len(b) \in Nat
  /\ (s > Len(b) /\ s = Len(b) + 2 /\ fl = Len(b)) \/ (s <= Len(b) /\ fl = Len(b) + G)

(* The fields of a file that holds b say where its gap is.                   *)
LEMMA FieldsOf ==
  ASSUME NEW e, NEW S, NEW b \in Seq(S), NEW f, Holds(f, b, e)
  PROVE  Fields(b, f.Gap_Start, Gap_Length(f), f.Gap_Last, f.File_Length)
<1>1. PICK N \in Nat, s \in Nat, G \in Nat : N = Len(b) /\ s = f.Gap_Start /\ G = Gap_Length(f)
  BY DEF Holds, Source_File_Records
<1>2. f.Gap_Last \in Int BY DEF Holds, Source_File_Records
<1>3. f.Gap_Last = s + G - 1 BY <1>1, <1>2 DEF Gap_Length
<1>4. \A q \in Nat : At(f, q) = IF q < s THEN q ELSE q + G BY <1>1 DEF At
<1>5. f.File_Length = At(f, N) BY <1>1 DEF Holds
<1>6. s = N + 2 \/ s \in 1 .. N BY <1>1 DEF Holds, Gap_Placed
<1>7. (s > N /\ s = N + 2 /\ f.File_Length = N) \/ (s <= N /\ f.File_Length = N + G)
  BY <1>4, <1>5, <1>6
<1>8. s >= 1 BY <1>6
<1> QED BY <1>1, <1>3, <1>7, <1>8 DEF Fields

(* The same, with the place of each byte.                                    *)
LEMMA HoldsFields ==
  ASSUME NEW e, NEW S, NEW b \in Seq(S), NEW f, Holds(f, b, e)
  PROVE  LET s == f.Gap_Start
             G == Gap_Length(f)
         IN /\ G \in Nat /\ s \in Nat /\ s >= 1 /\ f.Gap_Last = s + G - 1 /\ Len(b) \in Nat
            /\ (s > Len(b) /\ s = Len(b) + 2 /\ f.File_Length = Len(b))
               \/ (s <= Len(b) /\ f.File_Length = Len(b) + G)
            /\ \A q \in Nat : At(f, q) = IF q < s THEN q ELSE q + G
<1>1. Fields(b, f.Gap_Start, Gap_Length(f), f.Gap_Last, f.File_Length) BY FieldsOf
<1> QED BY <1>1 DEF Fields, At

(* The lines of b: the first is at 0, each other one after an LF.            *)
LEMMA RowsOf ==
  ASSUME NEW S, NEW b \in Seq(S), NEW r, Rows(r, Starts(b))
  PROVE  /\ r \in Seq(Nat) /\ Len(r) \in Nat /\ Len(r) >= 1 /\ r[1] = 0
         /\ \A k \in 1 .. Len(r) : r[k] \in 0 .. Len(b)
         /\ \A k, l \in 1 .. Len(r) : k < l => r[k] < r[l]
         /\ \A k \in 2 .. Len(r) : r[k] \in 1 .. Len(b) /\ b[r[k]] = "LF"
<1>1. PICK N \in Nat : N = Len(b) OBVIOUS
<1>2. 0 \in Starts(b) /\ Starts(b) \subseteq Nat BY DEF Starts, LFs
<1>3. Len(r) \in Nat /\ Len(r) >= 1 /\ r[1] = 0 BY <1>2, FirstRow
<1>4. \A k \in 1 .. Len(r) : r[k] \in Starts(b) BY DEF Rows
<1>5. \A k, l \in 1 .. Len(r) : k < l => r[k] < r[l] BY DEF Rows
<1>6. ASSUME NEW k \in 2 .. Len(r) PROVE r[k] \in 1 .. Len(b) /\ b[r[k]] = "LF"
  <2>1. k \in 1 .. Len(r) /\ 1 \in 1 .. Len(r) /\ 1 < k BY <1>3
  <2>2. r[1] < r[k] BY <1>5, <2>1
  <2>3. r[k] \in Starts(b) /\ r[k] # 0 BY <1>3, <1>4, <2>1, <2>2
  <2> QED BY <2>3 DEF Starts, LFs
<1>7. \A k \in 1 .. Len(r) : r[k] \in 0 .. Len(b) BY <1>1, <1>4 DEF Starts, LFs
<1>8. r \in Seq(Nat) BY DEF Rows
<1> QED BY <1>3, <1>5, <1>6, <1>7, <1>8

(* A buffer with its gap at the start of a line or after the EOT, that has   *)
(* the table of lines.                                                       *)
LEMMA MirrorsMade ==
  ASSUME NEW e, NEW S, NEW b \in Seq(S), NEW r, Rows(r, Starts(b)), NEW G \in Nat, NEW T \in Nat,
         Gap_Placed(b, T), NEW g \in Source_File_Records(e), Laid(g.Source, Ended(b), T, G),
         g.Gap_Start = T, g.Gap_Last = T + G - 1,
         g.File_Length = IF T > Len(b) THEN Len(b) ELSE Len(b) + G,
         Len(g.Lines) = Len(r),
         \A L \in 1 .. Len(r) : g.Lines[L] = IF r[L] < T THEN r[L] ELSE r[L] + G,
         g.Cache_Line = 1, g.Cache_Pos = 0
  PROVE  Mirrors(g, b, r, e) /\ Gap_Length(g) = G
<1>1. PICK N \in Nat, n \in Nat : N = Len(b) /\ n = Len(r) BY RowsOf
<1>2. Gap_Length(g) = G BY DEF Gap_Length
<1>3. T \in 1 .. N \/ T = N + 2 BY <1>1 DEF Gap_Placed
<1>4. \A q \in Nat : At(g, q) = IF q < T THEN q ELSE q + G BY <1>2 DEF At
<1>5. g.File_Length = At(g, N) BY <1>1, <1>3, <1>4
<1>6. Holds(g, b, e) BY <1>1, <1>2, <1>5 DEF Holds
<1>7. n >= 1 /\ r[1] = 0 /\ r \in Seq(Nat) BY <1>1, RowsOf
<1>8. PICK p : p = Placed(g, r) OBVIOUS
<1>9. p \in Seq(Nat) /\ Len(p) = n /\ \A k \in 1 .. n : p[k] = At(g, r[k])
  BY <1>1, <1>2, <1>7, <1>8, PlacedType
<1>10. PICK l : l = g.Lines OBVIOUS
<1>11. l \in Seq(Nat) /\ Len(l) = n BY <1>1, <1>10, RecordFields
<1>12. ASSUME NEW k \in 1 .. n PROVE l[k] = p[k]
  <2>1. r[k] \in Nat BY <1>1, <1>7
  <2> QED BY <1>1, <1>4, <1>9, <1>10, <2>1
<1>13. l = p BY <1>9, <1>11, <1>12, SeqEqual
<1>14. l[1] = 0
  <2>1. 1 \in 1 .. n BY <1>7
  <2>2. At(g, 0) = 0 BY <1>3, <1>4
  <2> QED BY <1>7, <1>9, <1>13, <2>1, <2>2
<1>15. Mirrors(g, b, r, e) BY <1>6, <1>7, <1>8, <1>10, <1>11, <1>13, <1>14 DEF Mirrors
<1> QED BY <1>2, <1>15

-----------------------------------------------------------------------------
(* The parts of Move_Gap.                                                    *)
There(f, Line) ==
  IF Line = Len(f.Lines) THEN f.Gap_Start >= f.File_Length ELSE f.Lines[Line + 1] = f.Gap_Last + 1

(* Where the gap has to go.                                                  *)
Target(f, Line) == IF Line = Len(f.Lines) THEN f.File_Length + 2 ELSE f.Lines[Line + 1]

(* The line table, the gap having gone back or forth.                        *)
Lines_Back(f, Line) ==
  [L \in DOMAIN f.Lines |->
     IF L > Line /\ (\A k \in Line + 1 .. L : f.Lines[k] < f.Gap_Start)
     THEN f.Lines[L] + Gap_Length(f) ELSE f.Lines[L]]
Lines_Forth(f, Line) ==
  [L \in DOMAIN f.Lines |->
     IF L <= Line /\ (\A k \in L .. Line : f.Lines[k] > f.Gap_Start)
     THEN f.Lines[L] - Gap_Length(f) ELSE f.Lines[L]]

(* The file, the gap having gone back or forth.                              *)
Moved_Back(f, Line, target, diff) ==
  [f EXCEPT
     !.Source = Moved(f.Source, f.Gap_Last - diff + 1, target, diff),
     !.File_Length = IF f.Gap_Start >= f.File_Length THEN f.File_Length + Gap_Length(f)
                     ELSE f.File_Length,
     !.Lines = Lines_Back(f, Line),
     !.Gap_Start = target, !.Gap_Last = target + Gap_Length(f) - 1]
Moved_Forth(f, Line, target, start, diff) ==
  [f EXCEPT
     !.Source = Moved(f.Source, f.Gap_Start, f.Gap_Last + 1, diff),
     !.File_Length = IF target > f.File_Length THEN f.File_Length - Gap_Length(f) ELSE f.File_Length,
     !.Lines = Lines_Forth(f, Line),
     !.Gap_Start = start, !.Gap_Last = start + Gap_Length(f) - 1]

(* Move_Gap in its three cases.                                              *)
LEMMA MoveGapParts ==
  ASSUME NEW e, NEW f \in Source_File_Records(e), NEW Line
  PROVE  /\ There(f, Line) =>
              Move_Gap(f, Line) =
                [error |-> Assertions /\ Line = Len(f.Lines) /\ f.Gap_Start # f.File_Length + 2,
                 f |-> f]
         /\ ~There(f, Line) /\ Target(f, Line) < f.Gap_Start =>
              Move_Gap(f, Line) =
                [error |-> FALSE,
                 f |-> Clear_Cache(Moved_Back(f, Line, Target(f, Line),
                                              f.Gap_Start - Target(f, Line)))]
         /\ ~There(f, Line) /\ ~(Target(f, Line) < f.Gap_Start) =>
              Move_Gap(f, Line) =
                [error |-> FALSE,
                 f |-> Clear_Cache(Moved_Forth(f, Line, Target(f, Line),
                                               Target(f, Line) - Gap_Length(f),
                                               Target(f, Line) - Gap_Length(f) - f.Gap_Start))]
BY DEF There, Target, Lines_Back, Lines_Forth, Moved_Back, Moved_Forth, Move_Gap

-----------------------------------------------------------------------------
(* The lines of a buffer, as rows or as positions.                           *)
Lined(l, r, s, G) ==
  /\ Len(l) = Len(r) /\ l \in Seq(Nat)
  /\ \A k \in 1 .. Len(r) : l[k] = IF r[k] < s THEN r[k] ELSE r[k] + G

(* The line table of a file that mirrors its text.                           *)
LEMMA MirrorsLines ==
  ASSUME NEW e, NEW S, NEW b \in Seq(S), NEW f, NEW r, Mirrors(f, b, r, e)
  PROVE  f \in Source_File_Records(e) /\ Lined(f.Lines, r, f.Gap_Start, Gap_Length(f))
<1>1. f \in Source_File_Records(e) /\ Holds(f, b, e) /\ Rows(r, Starts(b)) /\ f.Lines = Placed(f, r)
  BY DEF Mirrors, Holds
<1>2. f.Gap_Start \in Nat /\ Gap_Length(f) \in Nat BY <1>1, HoldsFields
<1>3. r \in Seq(Nat) BY <1>1, RowsOf
<1>4. \A q \in Nat : At(f, q) = IF q < f.Gap_Start THEN q ELSE q + Gap_Length(f) BY DEF At
<1>5. PICK l : l = f.Lines OBVIOUS
<1>6. l \in Seq(Nat) /\ Len(l) = Len(r) /\ \A k \in 1 .. Len(r) : l[k] = At(f, r[k])
  BY <1>1, <1>2, <1>3, <1>5, PlacedType
<1>7. \A k \in 1 .. Len(r) : r[k] \in Nat BY <1>3
<1> QED BY <1>1, <1>4, <1>5, <1>6, <1>7 DEF Lined

(* The gap is moved back to the end of a line.                               *)
LEMMA MovedBack ==
  ASSUME NEW e, NEW S, NEW b \in Seq(S), NEW f, NEW r, Mirrors(f, b, r, e),
         NEW Line \in 1 .. Len(r) - 1, r[Line + 1] < f.Gap_Start
  PROVE  LET g == Clear_Cache(Moved_Back(f, Line, r[Line + 1], f.Gap_Start - r[Line + 1]))
         IN Mirrors(g, b, r, e) /\ g.Gap_Start = r[Line + 1] /\ Gap_Length(g) = Gap_Length(f)
<1>1. Rows(r, Starts(b)) /\ Holds(f, b, e) BY DEF Mirrors
<1>2. PICK N \in Nat, n \in Nat, s \in Nat, G \in Nat :
        N = Len(b) /\ n = Len(r) /\ s = f.Gap_Start /\ G = Gap_Length(f)
  BY <1>1, RowsOf, HoldsFields
<1>3. /\ \A k \in 1 .. n : r[k] \in 0 .. N
      /\ \A k, l \in 1 .. n : k < l => r[k] < r[l]
      /\ \A k \in 2 .. n : r[k] \in 1 .. N /\ b[r[k]] = "LF"
  BY <1>1, <1>2, RowsOf
<1>4. Line \in Nat /\ Line >= 1 /\ Line + 1 <= n BY <1>2
<1>40. Line + 1 \in 2 .. n /\ Line + 1 \in 1 .. n BY <1>4
<1>41. r[Line + 1] \in 1 .. N /\ b[r[Line + 1]] = "LF" BY <1>3, <1>40
<1>5. PICK t \in Nat : t = r[Line + 1] BY <1>41
<1>6. t \in 1 .. N /\ b[t] = "LF" /\ t < s BY <1>2, <1>5, <1>41
<1>7. /\ f.Gap_Last = s + G - 1
      /\ (s > N /\ s = N + 2 /\ f.File_Length = N) \/ (s <= N /\ f.File_Length = N + G)
  BY <1>1, <1>2, HoldsFields
<1>8. PICK c : c = Ended(b) OBVIOUS
<1>9. c \in Seq(S \cup {"EOT"}) /\ Len(c) = N + 2 BY <1>2, <1>8, EndedIs
<1>10. Laid(f.Source, c, s, G) /\ f.Source \in Sources(e) /\ f \in Source_File_Records(e)
  BY <1>1, <1>2, <1>8, RecordFields DEF Holds
<1>11. s \in 0 .. Len(c) /\ t \in 0 .. s BY <1>6, <1>7, <1>9
<1>12. PICK src : src = Moved(f.Source, t + G, t, s - t) OBVIOUS
<1>13. Laid(src, c, t, G) /\ src \in Sources(e) BY <1>9, <1>10, <1>11, <1>12, LaidBack
<1>14. PICK fl : fl = IF f.Gap_Start >= f.File_Length THEN f.File_Length + Gap_Length(f)
                      ELSE f.File_Length
  OBVIOUS
<1>15. fl = N + G /\ fl \in Nat
  <2>1. fl = IF s >= f.File_Length THEN f.File_Length + G ELSE f.File_Length BY ONLY <1>2, <1>14
  <2>2. CASE s > N BY <1>7, <2>1, <2>2
  <2>3. CASE s <= N
    <3>1. f.File_Length = N + G BY <1>7, <2>3
    <3>2. CASE s >= N + G
      <4>1. G = 0 BY <2>3, <3>2
      <4> QED BY <2>1, <3>1, <3>2, <4>1
    <3>3. CASE ~(s >= N + G) BY <2>1, <3>1, <3>3
    <3> QED BY <3>2, <3>3
  <2> QED BY <2>2, <2>3
<1>16. PICK old : old = f.Lines OBVIOUS
<1>17. /\ Len(old) = n /\ old \in Seq(Nat)
       /\ \A k \in 1 .. n : old[k] = IF r[k] < s THEN r[k] ELSE r[k] + G
  <2>1. Lined(f.Lines, r, f.Gap_Start, Gap_Length(f)) BY MirrorsLines
  <2> QED BY ONLY <1>2, <1>16, <2>1 DEF Lined
<1>18. PICK li : li = Lines_Back(f, Line) OBVIOUS
<1>19. li = [L \in 1 .. n |-> IF L > Line /\ (\A k \in Line + 1 .. L : old[k] < s)
                              THEN old[L] + G ELSE old[L]]
  <2>1. DOMAIN old = 1 .. n BY <1>17
  <2> QED BY <1>2, <1>16, <1>18, <2>1 DEF Lines_Back
<1>20. ASSUME NEW L \in 1 .. n PROVE li[L] = IF r[L] < t THEN r[L] ELSE r[L] + G
  <2>1. CASE L <= Line
    <3>1. r[L] < t BY <1>3, <1>4, <1>5, <2>1
    <3> QED BY <1>3, <1>4, <1>6, <1>17, <1>19, <2>1, <3>1
  <2>2. CASE L > Line /\ r[L] < s
    <3>1. ASSUME NEW k \in Line + 1 .. L PROVE old[k] < s
      <4>1. k \in 1 .. n /\ (k = L \/ k < L) BY <1>4
      <4>2. r[k] < s BY <1>3, <2>2, <4>1
      <4> QED BY <1>3, <1>17, <4>1, <4>2
    <3>2. ~(r[L] < t)
      <4>1. L = Line + 1 \/ Line + 1 < L BY <1>4, <2>2
      <4>2. Line + 1 \in 1 .. n BY <1>4
      <4> QED BY <1>3, <1>5, <4>1, <4>2
    <3> QED BY <1>3, <1>17, <1>19, <2>2, <3>1, <3>2
  <2>3. CASE L > Line /\ ~(r[L] < s)
    <3>1. old[L] = r[L] + G /\ ~(old[L] < s) /\ r[L] \in Nat BY <1>3, <1>17, <2>3
    <3>2. L \in Line + 1 .. L BY <1>4, <2>3
    <3> QED BY <1>6, <1>19, <2>3, <3>1, <3>2
  <2> QED BY <1>4, <2>1, <2>2, <2>3
<1>21. li \in Seq(Nat) /\ Len(li) = n
  <2>1. ASSUME NEW L \in 1 .. n PROVE li[L] \in Nat
    <3>1. r[L] \in Nat /\ (li[L] = r[L] \/ li[L] = r[L] + G) BY <1>3, <1>20
    <3> QED BY <3>1
  <2> QED BY <1>19, <2>1
<1>22. PICK g : g = Moved_Back(f, Line, t, s - t) OBVIOUS
<1>23. f.Gap_Last - (s - t) + 1 = t + G /\ t + G - 1 \in Int BY <1>7
<1>42. PICK gl \in Int : gl = t + G - 1 OBVIOUS
<1>24. g = Remade(f, src, fl, li, t, gl)
  BY <1>2, <1>12, <1>14, <1>18, <1>22, <1>23, <1>42 DEF Remade, Moved_Back
<1>25. /\ g \in Source_File_Records(e) /\ g.Source = src /\ g.File_Length = fl
       /\ g.Gap_Start = t /\ g.Gap_Last = gl /\ g.Lines = li
  BY <1>10, <1>13, <1>15, <1>21, <1>24, RecordMade
<1>26. PICK h : h = Clear_Cache(g) OBVIOUS
<1>27. /\ h \in Source_File_Records(e) /\ h.Source = src /\ h.File_Length = fl
       /\ h.Gap_Start = t /\ h.Gap_Last = gl /\ h.Lines = li
       /\ h.Cache_Line = 1 /\ h.Cache_Pos = 0
  BY <1>25, <1>26, CacheCleared
<1>28. Gap_Placed(b, t) BY <1>2, <1>6 DEF Gap_Placed
<1>29. Mirrors(h, b, r, e) /\ Gap_Length(h) = G
  <2>1. h.File_Length = IF t > Len(b) THEN Len(b) ELSE Len(b) + G BY <1>2, <1>6, <1>15, <1>27
  <2>2. Len(h.Lines) = Len(r) BY <1>2, <1>21, <1>27
  <2>3. \A L \in 1 .. Len(r) : h.Lines[L] = IF r[L] < t THEN r[L] ELSE r[L] + G
    BY ONLY <1>2, <1>20, <1>27
  <2>4. Laid(h.Source, Ended(b), t, G) BY <1>8, <1>13, <1>27
  <2>5. h.Gap_Last = t + G - 1 BY <1>27, <1>42
  <2> QED BY ONLY b \in Seq(S), t \in Nat, G \in Nat, <1>1, <1>27, <1>28, <2>1, <2>2, <2>3, <2>4, <2>5, MirrorsMade
<1> QED BY <1>2, <1>5, <1>22, <1>26, <1>27, <1>29

(* The gap is moved forth, to the end of a line or after the EOT.            *)
LEMMA MovedForth ==
  ASSUME NEW e, NEW S, NEW b \in Seq(S), NEW f, NEW r, Mirrors(f, b, r, e),
         NEW Line \in 1 .. Len(r), f.Gap_Start <= Len(b),
         NEW t \in Nat, f.Gap_Start < t,
         (Line = Len(r) /\ t = Len(b) + 2) \/ (Line < Len(r) /\ t = r[Line + 1])
  PROVE  LET g == Clear_Cache(Moved_Forth(f, Line, t + Gap_Length(f), t, t - f.Gap_Start))
         IN Mirrors(g, b, r, e) /\ g.Gap_Start = t /\ Gap_Length(g) = Gap_Length(f)
<1>1. Rows(r, Starts(b)) /\ Holds(f, b, e) BY DEF Mirrors
<1>2. PICK N \in Nat, n \in Nat, s \in Nat, G \in Nat :
        N = Len(b) /\ n = Len(r) /\ s = f.Gap_Start /\ G = Gap_Length(f)
  BY <1>1, RowsOf, HoldsFields
<1>3. /\ \A k \in 1 .. n : r[k] \in 0 .. N
      /\ \A k, l \in 1 .. n : k < l => r[k] < r[l]
      /\ \A k \in 2 .. n : r[k] \in 1 .. N /\ b[r[k]] = "LF"
  BY <1>1, <1>2, RowsOf
<1>4. Line \in Nat /\ Line >= 1 /\ Line <= n BY <1>2
<1>6. (Line = n /\ t = N + 2) \/ (Line < n /\ t = r[Line + 1] /\ t \in 1 .. N /\ b[t] = "LF")
  BY <1>2, <1>3, <1>4
<1>7. /\ f.Gap_Last = s + G - 1 /\ s <= N /\ f.File_Length = N + G /\ s < t
  <2>1. /\ f.Gap_Last = s + G - 1
        /\ (s > N /\ s = N + 2 /\ f.File_Length = N) \/ (s <= N /\ f.File_Length = N + G)
    <3>1. Fields(b, f.Gap_Start, Gap_Length(f), f.Gap_Last, f.File_Length) BY <1>1, FieldsOf
    <3> QED BY ONLY <1>2, <3>1 DEF Fields
  <2> QED BY <1>2, <2>1
<1>8. PICK c : c = Ended(b) OBVIOUS
<1>9. c \in Seq(S \cup {"EOT"}) /\ Len(c) = N + 2 BY <1>2, <1>8, EndedIs
<1>10. Laid(f.Source, c, s, G) /\ f.Source \in Sources(e) /\ f \in Source_File_Records(e)
  BY <1>1, <1>2, <1>8, RecordFields DEF Holds
<1>11. t \in s .. Len(c) BY <1>6, <1>7, <1>9
<1>12. PICK src : src = Moved(f.Source, s, s + G, t - s) OBVIOUS
<1>13. Laid(src, c, t, G) /\ src \in Sources(e) BY <1>9, <1>10, <1>11, <1>12, LaidForth
<1>14. PICK fl : fl = IF t + G > f.File_Length THEN f.File_Length - Gap_Length(f) ELSE f.File_Length
  OBVIOUS
<1>15. fl = (IF t > N THEN N ELSE N + G) /\ fl \in Nat
  <2>1. fl = IF t + G > N + G THEN N + G - G ELSE N + G BY ONLY <1>2, <1>7, <1>14
  <2>2. N + G - G = N /\ (t + G > N + G <=> t > N) OBVIOUS
  <2> QED BY <2>1, <2>2
<1>16. PICK old : old = f.Lines OBVIOUS
<1>17. /\ Len(old) = n /\ old \in Seq(Nat)
       /\ \A k \in 1 .. n : old[k] = IF r[k] < s THEN r[k] ELSE r[k] + G
  <2>1. Lined(f.Lines, r, f.Gap_Start, Gap_Length(f)) BY MirrorsLines
  <2> QED BY ONLY <1>2, <1>16, <2>1 DEF Lined
<1>18. PICK li : li = Lines_Forth(f, Line) OBVIOUS
<1>19. li = [L \in 1 .. n |-> IF L <= Line /\ (\A k \in L .. Line : old[k] > s)
                              THEN old[L] - G ELSE old[L]]
  <2>1. DOMAIN old = 1 .. n BY <1>17
  <2> QED BY <1>2, <1>16, <1>18, <2>1 DEF Lines_Forth
<1>20. ASSUME NEW L \in 1 .. n PROVE li[L] = IF r[L] < t THEN r[L] ELSE r[L] + G
  <2>1. CASE L > Line
    <3>1. ~(r[L] < t)
      <4>1. Line + 1 \in 1 .. n /\ (L = Line + 1 \/ Line + 1 < L) BY <1>4, <2>1
      <4> QED BY <1>3, <1>4, <1>6, <2>1, <4>1
    <3>2. r[L] \in Nat /\ ~(r[L] < s) BY <1>3, <1>7, <3>1
    <3>3. old[L] = r[L] + G BY <1>17, <3>2
    <3>4. ~(L <= Line) BY <1>4, <2>1
    <3>5. li[L] = old[L] BY <1>19, <3>4
    <3> QED BY <3>1, <3>3, <3>5
  <2>2. CASE L <= Line /\ r[L] < s
    <3>1. old[L] = r[L] /\ ~(old[L] > s) /\ L \in L .. Line /\ r[L] \in Nat BY <1>3, <1>4, <1>17, <2>2
    <3> QED BY <1>7, <1>19, <2>2, <3>1
  <2>3. CASE L <= Line /\ ~(r[L] < s)
    <3>1. old[L] = r[L] + G /\ r[L] \in Nat BY <1>3, <1>17, <2>3
    <3>2. r[L] < t
      <4>1. r[L] <= N BY <1>3
      <4>2. CASE Line = n BY <1>6, <3>1, <4>1, <4>2
      <4>3. CASE Line < n
        <5>1. Line + 1 \in 1 .. n /\ L < Line + 1 BY <1>4, <2>3, <4>3
        <5> QED BY <1>3, <1>6, <4>3, <5>1
      <4> QED BY <1>4, <4>2, <4>3
    <3>3. CASE G = 0
      <4>1. li[L] = old[L] BY <1>19, <3>1, <3>3
      <4> QED BY <3>1, <3>2, <3>3, <4>1
    <3>4. CASE G # 0
      <4>1. ASSUME NEW k \in L .. Line PROVE old[k] > s
        <5>1. k \in 1 .. n /\ (k = L \/ L < k) BY <1>4
        <5>2. r[k] \in Nat /\ ~(r[k] < s) BY <1>3, <2>3, <5>1
        <5> QED BY <1>17, <3>4, <5>1, <5>2
      <4>2. li[L] = old[L] - G BY <1>19, <2>3, <4>1
      <4> QED BY <3>1, <3>2, <4>2
    <3> QED BY <3>3, <3>4
  <2> QED BY <1>4, <2>1, <2>2, <2>3
<1>21. li \in Seq(Nat) /\ Len(li) = n
  <2>1. ASSUME NEW L \in 1 .. n PROVE li[L] \in Nat
    <3>1. r[L] \in Nat /\ (li[L] = r[L] \/ li[L] = r[L] + G) BY <1>3, <1>20
    <3> QED BY <3>1
  <2> QED BY <1>19, <2>1
<1>22. PICK g : g = Moved_Forth(f, Line, t + G, t, t - s) OBVIOUS
<1>23. f.Gap_Last + 1 = s + G /\ t + G - 1 \in Int BY <1>7
<1>42. PICK gl \in Int : gl = t + G - 1 OBVIOUS
<1>24. g = Remade(f, src, fl, li, t, gl)
  BY <1>2, <1>12, <1>14, <1>18, <1>22, <1>23, <1>42 DEF Remade, Moved_Forth
<1>25. /\ g \in Source_File_Records(e) /\ g.Source = src /\ g.File_Length = fl
       /\ g.Gap_Start = t /\ g.Gap_Last = gl /\ g.Lines = li
  BY <1>10, <1>13, <1>15, <1>21, <1>24, RecordMade
<1>26. PICK h : h = Clear_Cache(g) OBVIOUS
<1>27. /\ h \in Source_File_Records(e) /\ h.Source = src /\ h.File_Length = fl
       /\ h.Gap_Start = t /\ h.Gap_Last = gl /\ h.Lines = li
       /\ h.Cache_Line = 1 /\ h.Cache_Pos = 0
  BY <1>25, <1>26, CacheCleared
<1>28. Gap_Placed(b, t) BY <1>2, <1>6 DEF Gap_Placed
<1>29. Mirrors(h, b, r, e) /\ Gap_Length(h) = G
  <2>1. h.File_Length = IF t > Len(b) THEN Len(b) ELSE Len(b) + G BY <1>2, <1>6, <1>15, <1>27
  <2>2. Len(h.Lines) = Len(r) BY <1>2, <1>21, <1>27
  <2>3. \A L \in 1 .. Len(r) : h.Lines[L] = IF r[L] < t THEN r[L] ELSE r[L] + G
    BY ONLY <1>2, <1>20, <1>27
  <2>4. Laid(h.Source, Ended(b), t, G) BY <1>8, <1>13, <1>27
  <2>5. h.Gap_Last = t + G - 1 BY <1>27, <1>42
  <2> QED BY ONLY b \in Seq(S), t \in Nat, G \in Nat, <1>1, <1>27, <1>28, <2>1, <2>2, <2>3, <2>4, <2>5, MirrorsMade
<1> QED BY <1>2, <1>22, <1>26, <1>27, <1>29

-----------------------------------------------------------------------------
(* Where Move_Gap leaves the gap.                                            *)
Line_End(b, r, Line) == IF Line = Len(r) THEN Len(b) + 2 ELSE r[Line + 1]

(* What Move_Gap does: an assertion fails, which needs an empty gap in front *)
(* of the EOT, or the file mirrors the same text with the gap at the end of  *)
(* the line.                                                                 *)
Gap_Moved(m, f, b, r, e, Line) ==
  /\ m.error => m.f = f /\ Gap_Length(f) = 0 /\ f.Gap_Start = f.File_Length
  /\ ~m.error => /\ Mirrors(m.f, b, r, e) /\ m.f.Gap_Start = Line_End(b, r, Line)
                 /\ Gap_Length(m.f) = Gap_Length(f)

(* Move_Gap does so from every file that mirrors its text, for each line.    *)
LEMMA MoveGapMirrors ==
  ASSUME NEW e, NEW S, NEW b \in Seq(S), NEW f, NEW r, Mirrors(f, b, r, e),
         NEW Line \in 1 .. Len(r), Assertions
  PROVE  Gap_Moved(Move_Gap(f, Line), f, b, r, e, Line)
<1>1. Rows(r, Starts(b)) /\ Holds(f, b, e) /\ f \in Source_File_Records(e) BY DEF Mirrors, Holds
<1>2. PICK N \in Nat, n \in Nat, s \in Nat, G \in Nat :
        N = Len(b) /\ n = Len(r) /\ s = f.Gap_Start /\ G = Gap_Length(f)
  BY <1>1, RowsOf, HoldsFields
<1>3. /\ f.Gap_Last = s + G - 1 /\ s >= 1
      /\ (s > N /\ s = N + 2 /\ f.File_Length = N) \/ (s <= N /\ f.File_Length = N + G)
  <2>1. Fields(b, f.Gap_Start, Gap_Length(f), f.Gap_Last, f.File_Length) BY <1>1, FieldsOf
  <2> QED BY ONLY <1>2, <2>1 DEF Fields
<1>4. Len(f.Lines) = n /\ \A k \in 1 .. n : f.Lines[k] = IF r[k] < s THEN r[k] ELSE r[k] + G
  <2>1. Lined(f.Lines, r, f.Gap_Start, Gap_Length(f)) BY MirrorsLines
  <2> QED BY ONLY <1>2, <2>1 DEF Lined
<1>5. Line \in Nat /\ Line >= 1 /\ Line <= n BY <1>2
<1>6. PICK m : m = Move_Gap(f, Line) OBVIOUS
<1>7. CASE Line = n
  <2>1. There(f, Line) <=> s >= f.File_Length BY <1>2, <1>4, <1>7 DEF There
  <2>2. CASE s > N
    <3>1. There(f, Line) /\ s = f.File_Length + 2 BY <1>3, <2>1, <2>2
    <3>2. m = [error |-> Assertions /\ Line = Len(f.Lines) /\ f.Gap_Start # f.File_Length + 2,
               f |-> f]
      BY <1>1, <1>6, <3>1, MoveGapParts
    <3>3. ~m.error /\ m.f = f BY <1>2, <3>1, <3>2
    <3>4. f.Gap_Start = Line_End(b, r, Line) BY <1>2, <1>3, <1>7, <2>2 DEF Line_End
    <3> QED BY <1>6, <3>3, <3>4 DEF Gap_Moved
  <2>3. CASE s <= N /\ s >= f.File_Length
    <3>1. s = N /\ G = 0 /\ f.File_Length = N BY <1>3, <2>3
    <3>2. m = [error |-> Assertions /\ Line = Len(f.Lines) /\ f.Gap_Start # f.File_Length + 2,
               f |-> f]
      BY <1>1, <1>6, <2>1, <2>3, MoveGapParts
    <3>3. f.Gap_Start # f.File_Length + 2 BY <1>2, <3>1
    <3>4. m.error /\ m.f = f BY <1>4, <1>7, <3>2, <3>3
    <3> QED BY <1>2, <1>6, <3>1, <3>4 DEF Gap_Moved
  <2>4. CASE s <= N /\ ~(s >= f.File_Length)
    <3>1. Target(f, Line) = N + 2 + G BY <1>3, <1>4, <1>7, <2>4 DEF Target
    <3>2. PICK t \in Nat : t = N + 2 OBVIOUS
    <3>3. t + G = Target(f, Line) /\ ~(Target(f, Line) < f.Gap_Start) BY <1>2, <2>4, <3>1, <3>2
    <3>4. Target(f, Line) - Gap_Length(f) = t BY <1>2, <3>1, <3>2
    <3>5. m = [error |-> FALSE,
               f |-> Clear_Cache(Moved_Forth(f, Line, t + Gap_Length(f), t, t - f.Gap_Start))]
      BY <1>1, <1>2, <1>6, <2>1, <2>4, <3>3, <3>4, MoveGapParts
    <3>6. /\ f.Gap_Start <= Len(b) /\ f.Gap_Start < t
          /\ Line = Len(r) /\ t = Len(b) + 2
      BY <1>2, <1>7, <2>4, <3>2
    <3>7. PICK g : g = Clear_Cache(Moved_Forth(f, Line, t + Gap_Length(f), t, t - f.Gap_Start))
      OBVIOUS
    <3>8. Mirrors(g, b, r, e) /\ g.Gap_Start = t /\ Gap_Length(g) = Gap_Length(f)
      BY <3>6, <3>7, MovedForth
    <3>9. t = Line_End(b, r, Line) BY <3>6 DEF Line_End
    <3>10. ~m.error /\ m.f = g BY <3>5, <3>7
    <3> QED BY <1>6, <3>8, <3>9, <3>10 DEF Gap_Moved
  <2> QED BY <1>3, <2>2, <2>3, <2>4
<1>8. CASE Line # n
  <2>1. Line + 1 \in 1 .. n /\ Line < n BY <1>5, <1>8
  <2>2. PICK t \in Nat : t = r[Line + 1] /\ t \in 0 .. N BY <1>1, <1>2, <2>1, RowsOf
  <2>3. There(f, Line) <=> f.Lines[Line + 1] = s + G
    BY <1>3, <1>4, <1>8 DEF There
  <2>4. Target(f, Line) = f.Lines[Line + 1] BY <1>4, <1>8 DEF Target
  <2>5. f.Lines[Line + 1] = IF t < s THEN t ELSE t + G BY <1>4, <2>1, <2>2
  <2>6. t = Line_End(b, r, Line) BY <1>2, <1>8, <2>2 DEF Line_End
  <2>7. CASE t = s
    <3>1. There(f, Line) BY <2>3, <2>5, <2>7
    <3>2. m = [error |-> Assertions /\ Line = Len(f.Lines) /\ f.Gap_Start # f.File_Length + 2,
               f |-> f]
      BY <1>1, <1>6, <3>1, MoveGapParts
    <3>3. ~m.error /\ m.f = f BY <1>4, <1>8, <3>2
    <3> QED BY <1>2, <1>6, <2>6, <2>7, <3>3 DEF Gap_Moved
  <2>8. CASE t < s
    <3>1. Target(f, Line) = t /\ ~There(f, Line) BY <2>3, <2>4, <2>5, <2>8
    <3>2. m = [error |-> FALSE,
               f |-> Clear_Cache(Moved_Back(f, Line, r[Line + 1], f.Gap_Start - r[Line + 1]))]
      BY <1>1, <1>2, <1>6, <2>2, <2>8, <3>1, MoveGapParts
    <3>3. Line \in 1 .. Len(r) - 1 /\ r[Line + 1] < f.Gap_Start BY <1>2, <1>5, <2>1, <2>2, <2>8
    <3>4. PICK g : g = Clear_Cache(Moved_Back(f, Line, r[Line + 1], f.Gap_Start - r[Line + 1]))
      OBVIOUS
    <3>5. Mirrors(g, b, r, e) /\ g.Gap_Start = r[Line + 1] /\ Gap_Length(g) = Gap_Length(f)
      BY <3>3, <3>4, MovedBack
    <3>6. ~m.error /\ m.f = g BY <3>2, <3>4
    <3> QED BY <1>6, <2>2, <2>6, <3>5, <3>6 DEF Gap_Moved
  <2>9. CASE t > s
    <3>1. Target(f, Line) = t + G /\ ~There(f, Line) /\ ~(Target(f, Line) < f.Gap_Start)
      BY <1>2, <2>3, <2>4, <2>5, <2>9
    <3>2. Target(f, Line) - Gap_Length(f) = t BY <1>2, <3>1
    <3>3. m = [error |-> FALSE,
               f |-> Clear_Cache(Moved_Forth(f, Line, t + Gap_Length(f), t, t - f.Gap_Start))]
      BY <1>1, <1>2, <1>6, <3>1, <3>2, MoveGapParts
    <3>6. /\ f.Gap_Start <= Len(b) /\ f.Gap_Start < t
          /\ Line < Len(r) /\ t = r[Line + 1]
      BY <1>2, <2>1, <2>2, <2>9
    <3>7. PICK g : g = Clear_Cache(Moved_Forth(f, Line, t + Gap_Length(f), t, t - f.Gap_Start))
      OBVIOUS
    <3>8. Mirrors(g, b, r, e) /\ g.Gap_Start = t /\ Gap_Length(g) = Gap_Length(f)
      BY <3>6, <3>7, MovedForth
    <3>10. ~m.error /\ m.f = g BY <3>3, <3>7
    <3> QED BY <1>6, <2>6, <3>8, <3>10 DEF Gap_Moved
  <2> QED BY <2>7, <2>8, <2>9
<1> QED BY <1>7, <1>8

-----------------------------------------------------------------------------
(* Tables of lines, in parts.                                                *)
Between(r, i, j) == SubSeq(r, i, j)
Shifted(s, r) == [i \in DOMAIN r |-> s + r[i]]

(* The lines of two sets, one before the other.                              *)
LEMMA RowsConcat ==
  ASSUME NEW p, NEW A, Rows(p, A), NEW q, NEW B, Rows(q, B),
         \A x \in A, y \in B : x < y
  PROVE  Rows(p \o q, A \cup B)
<1>1. PICK m \in Nat, n \in Nat : m = Len(p) /\ n = Len(q) BY DEF Rows
<1>2. PICK u : u = p \o q OBVIOUS
<1>3. p \in Seq(Nat) /\ q \in Seq(Nat) BY DEF Rows
<1>4. /\ u \in Seq(Nat) /\ Len(u) = m + n
      /\ \A i \in 1 .. m : u[i] = p[i]
      /\ \A i \in 1 .. n : u[m + i] = q[i]
  BY <1>1, <1>2, <1>3, ConcatParts
<1>5. /\ \A i \in 1 .. m : p[i] \in A /\ p[i] \in Nat
      /\ \A i \in 1 .. n : q[i] \in B /\ q[i] \in Nat
      /\ \A i, j \in 1 .. m : i < j => p[i] < p[j]
      /\ \A i, j \in 1 .. n : i < j => q[i] < q[j]
      /\ \A x \in A : \E i \in 1 .. m : p[i] = x
      /\ \A x \in B : \E i \in 1 .. n : q[i] = x
  BY <1>1 DEF Rows
<1>6. ASSUME NEW i \in 1 .. m + n
      PROVE  \/ i \in 1 .. m /\ u[i] = p[i]
             \/ i - m \in 1 .. n /\ i > m /\ u[i] = q[i - m]
  <2>1. CASE i <= m BY <1>4, <2>1
  <2>2. CASE ~(i <= m)
    <3>1. i - m \in 1 .. n /\ m + (i - m) = i /\ i > m BY <2>2
    <3>2. u[m + (i - m)] = q[i - m] BY <1>4, <3>1
    <3> QED BY <3>1, <3>2
  <2> QED BY <2>1, <2>2
<1>7. ASSUME NEW i \in 1 .. m + n, NEW j \in 1 .. m + n, i < j PROVE u[i] < u[j]
  <2>1. CASE i \in 1 .. m /\ j \in 1 .. m BY <1>4, <1>5, <1>7, <2>1
  <2>2. CASE i \in 1 .. m /\ j > m
    <3>1. u[i] = p[i] /\ j - m \in 1 .. n /\ u[j] = q[j - m] BY <1>4, <1>6, <2>2
    <3> QED BY <1>5, <2>2, <3>1
  <2>3. CASE i > m
    <3>1. /\ i - m \in 1 .. n /\ u[i] = q[i - m] /\ j - m \in 1 .. n /\ u[j] = q[j - m]
          /\ i - m < j - m
      BY <1>6, <1>7, <2>3
    <3> QED BY <1>5, <3>1
  <2> QED BY <2>1, <2>2, <2>3
<1>8. \A i \in 1 .. m + n : u[i] \in A \cup B BY <1>5, <1>6
<1>9. ASSUME NEW x \in A \cup B PROVE \E i \in 1 .. m + n : u[i] = x
  <2>1. CASE x \in A
    <3>1. PICK i \in 1 .. m : p[i] = x BY <1>5, <2>1
    <3>2. i \in 1 .. m + n OBVIOUS
    <3> QED BY <1>4, <3>1, <3>2
  <2>2. CASE x \in B
    <3>1. PICK i \in 1 .. n : q[i] = x BY <1>5, <2>2
    <3>2. m + i \in 1 .. m + n OBVIOUS
    <3> QED BY <1>4, <3>1, <3>2
  <2> QED BY <2>1, <2>2
<1> QED BY <1>2, <1>4, <1>7, <1>8, <1>9 DEF Rows

(* The elements of a part of a sequence.                                     *)
LEMMA BetweenParts ==
  ASSUME NEW S, NEW r \in Seq(S), NEW i \in 1 .. Len(r) + 1, NEW j \in i - 1 .. Len(r)
  PROVE  /\ Between(r, i, j) \in Seq(S) /\ Len(Between(r, i, j)) = j - i + 1
         /\ \A k \in 1 .. j - i + 1 : Between(r, i, j)[k] = r[i + k - 1]
<1>1. PICK n \in Nat : n = Len(r) OBVIOUS
<1>2. i \in Nat /\ j \in Int /\ i >= 1 /\ j <= n /\ j - i + 1 \in Nat BY <1>1
<1>3. PICK l \in Nat : l = j - i + 1 BY <1>2
<1>4. PICK u : u = SubSeq(r, i, j) OBVIOUS
<1>5. \A k \in i .. j : r[k] \in S BY <1>1, <1>2
<1>6. /\ u \in Seq(S) /\ Len(u) = (IF i <= j THEN j - i + 1 ELSE 0)
      /\ \A k \in 1 .. j - i + 1 : u[k] = r[i + k - 1]
  BY <1>2, <1>4, <1>5, SubSeqProperties
<1>7. Len(u) = l BY <1>2, <1>3, <1>6
<1>8. u \in Seq(S) /\ Len(u) = l /\ \A k \in 1 .. l : u[k] = r[i + k - 1] BY <1>3, <1>6, <1>7
<1> QED BY <1>3, <1>4, <1>8 DEF Between

(* The elements of a shifted sequence.                                       *)
LEMMA ShiftedParts ==
  ASSUME NEW r \in Seq(Nat), NEW s \in Int, \A i \in 1 .. Len(r) : s + r[i] \in Nat
  PROVE  /\ Shifted(s, r) \in Seq(Nat) /\ Len(Shifted(s, r)) = Len(r)
         /\ \A i \in 1 .. Len(r) : Shifted(s, r)[i] = s + r[i]
<1>1. PICK n \in Nat : n = Len(r) OBVIOUS
<1>2. DOMAIN r = 1 .. n BY <1>1
<1>3. PICK u : u = Shifted(s, r) OBVIOUS
<1>4. u = [i \in 1 .. n |-> s + r[i]] BY <1>2, <1>3 DEF Shifted
<1>5. u \in [1 .. n -> Nat] BY <1>1, <1>4
<1>6. u \in Seq(Nat) /\ Len(u) = n /\ \A i \in 1 .. n : u[i] = s + r[i] BY <1>4, <1>5
<1> QED BY <1>1, <1>3, <1>6

(* A set of positions, shifted.                                              *)
Plus(s, A) == {s + x : x \in A}

(* The lines of a shifted set.                                               *)
LEMMA RowsShifted ==
  ASSUME NEW r, NEW A, Rows(r, A), NEW s \in Int, \A x \in A : s + x \in Nat
  PROVE  Rows(Shifted(s, r), Plus(s, A))
<1>1. r \in Seq(Nat) BY DEF Rows
<1>2. PICK n \in Nat : n = Len(r) BY <1>1
<1>3. /\ \A i \in 1 .. n : r[i] \in A /\ r[i] \in Nat
      /\ \A i, j \in 1 .. n : i < j => r[i] < r[j]
      /\ \A x \in A : \E i \in 1 .. n : r[i] = x
  BY <1>2 DEF Rows
<1>4. PICK u : u = Shifted(s, r) OBVIOUS
<1>5. u \in Seq(Nat) /\ Len(u) = n /\ \A i \in 1 .. n : u[i] = s + r[i]
  BY <1>1, <1>2, <1>3, <1>4, ShiftedParts
<1>6. ASSUME NEW i \in 1 .. n, NEW j \in 1 .. n, i < j PROVE u[i] < u[j]
  <2>1. r[i] < r[j] /\ r[i] \in Nat /\ r[j] \in Nat BY <1>3, <1>6
  <2>2. u[i] = s + r[i] /\ u[j] = s + r[j] BY <1>5
  <2> QED BY <2>1, <2>2
<1>7. PICK B : B = {s + x : x \in A} /\ B = Plus(s, A) BY DEF Plus
<1>8. \A i \in 1 .. n : u[i] \in B BY <1>3, <1>5, <1>7
<1>9. ASSUME NEW y \in B PROVE \E i \in 1 .. n : u[i] = y
  <2>1. PICK x \in A : y = s + x BY <1>7
  <2>2. PICK i \in 1 .. n : r[i] = x BY <1>3
  <2> QED BY <1>5, <2>1, <2>2
<1>10. Rows(u, B) BY <1>5, <1>6, <1>8, <1>9 DEF Rows
<1> QED BY <1>4, <1>7, <1>10

(* The lines up to a position, and after it.                                 *)
Up_To(A, v) == {x \in A : x <= v}
Beyond(A, v) == {x \in A : x > v}

(* v is on the k-th of the lines r.                                          *)
On_Line(r, k, v) == r[k] <= v /\ (k < Len(r) => v < r[k + 1])

(* u is m elements of r, after the first o.                                  *)
Copies(u, r, o, m) ==
  u \in Seq(Nat) /\ Len(u) = m /\ \A i \in 1 .. m : u[i] = r[o + i]

(* The first lines of a table.                                               *)
LEMMA HeadIs ==
  ASSUME NEW r \in Seq(Nat), NEW k \in 1 .. Len(r)
  PROVE  Copies(Between(r, 1, k), r, 0, k)
<1>1. 1 \in 1 .. Len(r) + 1 /\ k \in 1 - 1 .. Len(r) /\ k - 1 + 1 = k OBVIOUS
<1>2. PICK p : p = Between(r, 1, k) OBVIOUS
<1>3. p \in Seq(Nat) /\ Len(p) = k /\ \A i \in 1 .. k : p[i] = r[1 + i - 1]
  BY <1>1, <1>2, BetweenParts
<1>4. \A i \in 1 .. k : 1 + i - 1 = 0 + i OBVIOUS
<1> QED BY <1>2, <1>3, <1>4 DEF Copies

(* The last lines of a table.                                                *)
LEMMA TailIs ==
  ASSUME NEW r \in Seq(Nat), NEW k \in 1 .. Len(r)
  PROVE  Copies(Between(r, k + 1, Len(r)), r, k, Len(r) - k)
<1>1. PICK n \in Nat, m \in Nat, l \in Nat : n = Len(r) /\ m = n - k /\ l = k + 1 OBVIOUS
<1>2. l \in 1 .. Len(r) + 1 /\ n \in l - 1 .. Len(r) /\ n - l + 1 = m /\ k \in Nat BY <1>1
<1>3. PICK q : q = Between(r, l, n) OBVIOUS
<1>4. q \in Seq(Nat) /\ Len(q) = m /\ \A i \in 1 .. m : q[i] = r[l + i - 1]
  BY <1>2, <1>3, BetweenParts
<1>5. \A i \in 1 .. m : l + i - 1 = k + i BY <1>1, <1>2
<1> QED BY <1>1, <1>3, <1>4, <1>5 DEF Copies

(* The table, cut at the line of v, gives the lines up to v and those beyond *)
(* it.                                                                       *)
LEMMA RowsUpTo ==
  ASSUME NEW r, NEW A, Rows(r, A), NEW k \in 1 .. Len(r), NEW v \in Nat,
         On_Line(r, k, v)
  PROVE  /\ Rows(Between(r, 1, k), Up_To(A, v))
         /\ Rows(Between(r, k + 1, Len(r)), Beyond(A, v))
<1>1. r \in Seq(Nat) BY DEF Rows
<1>2. PICK n \in Nat : n = Len(r) BY <1>1
<1>3. /\ \A i \in 1 .. n : r[i] \in A /\ r[i] \in Nat
      /\ \A i, j \in 1 .. n : i < j => r[i] < r[j]
      /\ \A x \in A : \E i \in 1 .. n : r[i] = x
  BY <1>2 DEF Rows
<1>4. k \in Nat /\ k >= 1 /\ k <= n BY <1>2
<1>5. PICK p : p = Between(r, 1, k) OBVIOUS
<1>6. PICK q : q = Between(r, k + 1, n) OBVIOUS
<1>7. p \in Seq(Nat) /\ Len(p) = k /\ \A i \in 1 .. k : p[i] = r[i]
  <2>1. Copies(p, r, 0, k) BY <1>1, <1>5, HeadIs
  <2>2. \A i \in 1 .. k : 0 + i = i OBVIOUS
  <2> QED BY <2>1, <2>2 DEF Copies
<1>8. PICK m \in Nat : m = n - k BY <1>4
<1>9. q \in Seq(Nat) /\ Len(q) = m /\ \A i \in 1 .. m : q[i] = r[k + i]
  <2>1. Copies(q, r, k, m) BY <1>1, <1>2, <1>6, <1>8, TailIs
  <2> QED BY <2>1 DEF Copies
<1>10. \A i \in 1 .. k : i \in 1 .. n /\ r[i] <= v
  <2> SUFFICES ASSUME NEW i \in 1 .. k PROVE i \in 1 .. n /\ r[i] <= v OBVIOUS
  <2>1. i \in 1 .. n /\ k \in 1 .. n /\ (i = k \/ i < k) BY <1>4
  <2>2. r[k] <= v BY DEF On_Line
  <2> QED BY <1>3, <2>1, <2>2
<1>11. \A i \in 1 .. m : k + i \in 1 .. n /\ r[k + i] > v
  <2> SUFFICES ASSUME NEW i \in 1 .. m PROVE k + i \in 1 .. n /\ r[k + i] > v OBVIOUS
  <2>1. k + i \in 1 .. n /\ k + 1 \in 1 .. n /\ (k + i = k + 1 \/ k + 1 < k + i) /\ k < n
    BY <1>4, <1>8
  <2>2. v < r[k + 1] BY <1>2, <2>1 DEF On_Line
  <2> QED BY <1>3, <2>1, <2>2
<1>12. Rows(p, {x \in A : x <= v})
  <2>1. \A i, j \in 1 .. k : i < j => p[i] < p[j] BY <1>3, <1>7, <1>10
  <2>2. \A i \in 1 .. k : p[i] \in {x \in A : x <= v} BY <1>3, <1>7, <1>10
  <2>3. ASSUME NEW x \in {y \in A : y <= v} PROVE \E i \in 1 .. k : p[i] = x
    <3>1. PICK i \in 1 .. n : r[i] = x BY <1>3
    <3>2. i <= k
      <4>1. SUFFICES ASSUME i > k PROVE FALSE BY <1>4
      <4>2. i - k \in 1 .. m /\ k + (i - k) = i BY <1>4, <1>8, <4>1
      <4>3. r[k + (i - k)] > v BY <1>11, <4>2
      <4> QED BY <1>3, <2>3, <3>1, <4>2, <4>3
    <3>3. i \in 1 .. k BY <3>2, <1>4
    <3> QED BY <1>7, <3>1, <3>3
  <2> QED BY <1>7, <2>1, <2>2, <2>3 DEF Rows
<1>13. Rows(q, {x \in A : x > v})
  <2>1. ASSUME NEW i \in 1 .. m, NEW j \in 1 .. m, i < j PROVE q[i] < q[j]
    <3>1. k + i < k + j BY <2>1
    <3> QED BY <1>3, <1>9, <1>11, <3>1
  <2>2. \A i \in 1 .. m : q[i] \in {x \in A : x > v} BY <1>3, <1>9, <1>11
  <2>3. ASSUME NEW x \in {y \in A : y > v} PROVE \E i \in 1 .. m : q[i] = x
    <3>1. PICK i \in 1 .. n : r[i] = x BY <1>3
    <3>2. i > k
      <4>1. SUFFICES ASSUME i <= k PROVE FALSE BY <1>4
      <4>2. i \in 1 .. k BY <4>1, <1>4
      <4>3. r[i] <= v BY <1>10, <4>2
      <4> QED BY <1>3, <2>3, <3>1, <4>3
    <3>3. i - k \in 1 .. m /\ k + (i - k) = i BY <3>2, <1>4, <1>8
    <3>4. q[i - k] = r[k + (i - k)] BY <1>9, <3>3
    <3> QED BY <3>1, <3>3, <3>4
  <2> QED BY <1>9, <2>1, <2>2, <2>3 DEF Rows
<1> QED BY <1>2, <1>5, <1>6, <1>12, <1>13 DEF Up_To, Beyond

-----------------------------------------------------------------------------
(* The starts of the lines after a replacement.                              *)
LEMMA StartsSpliced ==
  ASSUME NEW S, NEW b \in Seq(S), NEW t \in Nat, t <= Len(b), NEW s \in Nat, s <= t, NEW x \in Seq(S),
         NEW d \in Seq(S), Spliced(b, s, t, x, d), NEW k \in Int, k = s + Len(x) - t
  PROVE  Starts(d) = (Up_To(Starts(b), s) \cup Plus(s, LFs(x))) \cup Plus(k, Beyond(Starts(b), t))
<1>1. PICK N \in Nat, l \in Nat, D \in Nat : N = Len(b) /\ l = Len(x) /\ D = Len(d) OBVIOUS
<1>2. /\ D = s + l + (N - t)
      /\ \A i \in 1 .. s : d[i] = b[i]
      /\ \A i \in 1 .. l : d[s + i] = x[i]
      /\ \A i \in 1 .. N - t : d[s + l + i] = b[t + i]
  BY <1>1 DEF Spliced
<1>3. s \in Nat /\ t \in Nat /\ s <= t /\ t <= N /\ k = s + l - t BY <1>1
<1>4. PICK A, B, C : /\ A = {q \in Starts(b) : q <= s}
                     /\ B = {s + y : y \in LFs(x)}
                     /\ C = {k + y : y \in {q \in Starts(b) : q > t}}
  OBVIOUS
<1>5. \A q : q \in LFs(d) <=> q \in 1 .. D /\ d[q] = "LF" BY <1>1 DEF LFs
<1>6. \A q : q \in LFs(b) <=> q \in 1 .. N /\ b[q] = "LF" BY <1>1 DEF LFs
<1>7. \A q : q \in LFs(x) <=> q \in 1 .. l /\ x[q] = "LF" BY <1>1 DEF LFs
<1>8. ASSUME NEW q \in Starts(d) PROVE q \in (A \cup B) \cup C
  <2>1. CASE q = 0
    <3>1. 0 \in Starts(b) /\ 0 <= s BY <1>3, StartsSplit
    <3> QED BY <1>4, <2>1, <3>1
  <2>2. CASE q # 0
    <3>1. q \in 1 .. D /\ d[q] = "LF" BY <1>5, <2>2, StartsSplit
    <3>2. CASE q <= s
      <4>1. q \in 1 .. s /\ q \in 1 .. N BY <1>3, <3>1, <3>2
      <4>2. q \in LFs(b) BY <1>2, <1>6, <3>1, <4>1
      <4> QED BY <1>4, <3>2, <4>2, StartsSplit
    <3>3. CASE q > s /\ q <= s + l
      <4>1. PICK y \in Nat : y = q - s BY <1>3, <3>1, <3>3
      <4>2. y \in 1 .. l /\ s + y = q BY <1>3, <3>1, <3>3, <4>1
      <4>3. y \in LFs(x) BY <1>2, <1>7, <3>1, <4>2
      <4> QED BY <1>4, <4>2, <4>3
    <3>4. CASE q > s + l
      <4>1. PICK y \in Nat : y = t + (q - (s + l)) BY <1>3, <3>1, <3>4
      <4>2. PICK i \in Nat : i = q - (s + l) BY <1>3, <3>1, <3>4
      <4>3. /\ i \in 1 .. N - t /\ s + l + i = q /\ t + i = y /\ y \in 1 .. N /\ y > t /\ k + y = q
        <5>1. D = s + l + (N - t) /\ q <= D /\ q \in Nat BY <1>2, <3>1
        <5> QED BY ONLY <5>1, <1>3, <3>4, <4>1, <4>2, s \in Nat, l \in Nat, N \in Nat, t \in Nat
      <4>4. d[s + l + i] = b[t + i] BY <1>2, <4>3
      <4>5. y \in LFs(b) BY <1>6, <3>1, <4>3, <4>4
      <4>6. y \in {z \in Starts(b) : z > t} BY <4>3, <4>5, StartsSplit
      <4> QED BY <1>4, <4>3, <4>6
    <3> QED BY <1>3, <3>1, <3>2, <3>3, <3>4
  <2> QED BY <2>1, <2>2
<1>9. ASSUME NEW q \in A PROVE q \in Starts(d)
  <2>1. q \in Starts(b) /\ q <= s BY <1>4
  <2>2. CASE q = 0 BY <2>2, StartsSplit
  <2>3. CASE q # 0
    <3>1. q \in 1 .. N /\ b[q] = "LF" BY <1>6, <2>1, <2>3, StartsSplit
    <3>2. q \in 1 .. s /\ q \in 1 .. D BY <1>2, <1>3, <2>1, <3>1
    <3>3. q \in LFs(d) BY <1>2, <1>5, <3>1, <3>2
    <3> QED BY <3>3, StartsSplit
  <2> QED BY <2>2, <2>3
<1>10. ASSUME NEW q \in B PROVE q \in Starts(d)
  <2>1. PICK y \in LFs(x) : q = s + y BY <1>4
  <2>2. y \in 1 .. l /\ x[y] = "LF" BY <1>7, <2>1
  <2>3. q \in 1 .. D BY <1>2, <1>3, <2>1, <2>2
  <2>4. q \in LFs(d) BY <1>2, <1>5, <2>1, <2>2, <2>3
  <2> QED BY <2>4, StartsSplit
<1>11. ASSUME NEW q \in C PROVE q \in Starts(d)
  <2>1. PICK y \in {z \in Starts(b) : z > t} : q = k + y BY <1>4
  <2>2. y \in LFs(b) /\ y > t BY <1>3, <2>1, StartsSplit
  <2>3. y \in 1 .. N /\ b[y] = "LF" BY <1>6, <2>2
  <2>4. PICK i \in Nat : i = y - t BY <1>3, <2>2, <2>3
  <2>5. i \in 1 .. N - t /\ t + i = y /\ s + l + i = q BY <1>3, <2>1, <2>2, <2>3, <2>4
  <2>6. q \in 1 .. D BY <1>2, <1>3, <2>5
  <2>7. d[s + l + i] = b[t + i] BY <1>2, <2>5
  <2>8. q \in LFs(d) BY <1>5, <2>3, <2>5, <2>6, <2>7
  <2> QED BY <2>8, StartsSplit
<1>12. Starts(d) = (A \cup B) \cup C BY <1>8, <1>9, <1>10, <1>11
<1> QED BY <1>4, <1>12 DEF Up_To, Beyond, Plus

(* The table of the lines after a replacement.                               *)
Spliced_Rows(r, SL, EL, s, new, k) ==
  (Between(r, 1, SL) \o Shifted(s, new)) \o Shifted(k, Between(r, EL + 1, Len(r)))

(* The lines after a replacement: those up to s, those of the new text,      *)
(* those beyond t.                                                           *)
LEMMA RowsSpliced ==
  ASSUME NEW S, NEW b \in Seq(S), NEW t \in Nat, t <= Len(b), NEW s \in Nat, s <= t, NEW x \in Seq(S),
         NEW d \in Seq(S), Spliced(b, s, t, x, d), NEW k \in Int, k = s + Len(x) - t,
         NEW r, Rows(r, Starts(b)), NEW new, Rows(new, LFs(x)),
         NEW SL \in 1 .. Len(r), NEW EL \in 1 .. Len(r),
         On_Line(r, SL, s), On_Line(r, EL, t)
  PROVE  Rows(Spliced_Rows(r, SL, EL, s, new, k), Starts(d))
<1>1. PICK A, B, C, D : /\ A = Up_To(Starts(b), s) /\ B = Plus(s, LFs(x))
                        /\ C = Beyond(Starts(b), t) /\ D = Plus(k, C)
  OBVIOUS
<1>2. PICK l \in Nat, N \in Nat : l = Len(x) /\ N = Len(b) OBVIOUS
<1>3. s \in Nat /\ t \in Nat /\ s <= t /\ t <= N BY <1>2
<1>4. Rows(Between(r, 1, SL), A) BY <1>1, <1>3, RowsUpTo
<1>5. Rows(Between(r, EL + 1, Len(r)), C) BY <1>1, <1>3, RowsUpTo
<1>6. \A y \in LFs(x) : y \in 1 .. l BY <1>2 DEF LFs
<1>7. Rows(Shifted(s, new), B)
  <2>1. \A y \in LFs(x) : s + y \in Nat /\ s \in Int BY <1>3, <1>6
  <2>2. s \in Int BY <1>3
  <2> QED BY <1>1, <2>1, <2>2, RowsShifted
<1>8. ASSUME NEW y \in C PROVE y \in Nat /\ y > t /\ k + y \in Nat /\ k + y > s + l
  <2>1. y \in Nat /\ y > t BY <1>1, StartsSplit DEF Beyond
  <2> QED BY <1>2, <1>3, <2>1
<1>9. Rows(Shifted(k, Between(r, EL + 1, Len(r))), D) BY <1>1, <1>5, <1>8, RowsShifted
<1>10. PICK p, q, z : /\ p = Between(r, 1, SL) /\ q = Shifted(s, new)
                      /\ z = Shifted(k, Between(r, EL + 1, Len(r)))
  OBVIOUS
<1>11. \A y \in A : y \in Nat /\ y <= s BY <1>1, StartsSplit DEF Up_To
<1>12. ASSUME NEW y \in B PROVE y \in Nat /\ y > s /\ y <= s + l
  <2>1. PICK w \in LFs(x) : y = s + w BY <1>1 DEF Plus
  <2>2. w \in 1 .. l BY <1>6
  <2> QED BY <1>3, <2>1, <2>2
<1>13. Rows(p \o q, A \cup B)
  <2>1. \A y \in A, w \in B : y < w BY <1>3, <1>11, <1>12
  <2> QED BY <1>4, <1>7, <1>10, <2>1, RowsConcat
<1>14. Rows((p \o q) \o z, (A \cup B) \cup D)
  <2>1. \A w \in D : w \in Nat /\ w > s + l BY <1>1, <1>8 DEF Plus
  <2>2. \A y \in A \cup B : y \in Nat /\ y <= s + l BY <1>3, <1>11, <1>12
  <2>3. \A y \in A \cup B, w \in D : y < w BY <1>3, <2>1, <2>2
  <2>4. PICK pq, AB : pq = p \o q /\ AB = A \cup B OBVIOUS
  <2>5. Rows(pq, AB) /\ Rows(z, D) /\ \A y \in AB, w \in D : y < w BY <1>9, <1>10, <1>13, <2>3, <2>4
  <2>6. Rows(pq \o z, AB \cup D) BY <2>5, RowsConcat
  <2> QED BY <2>4, <2>6
<1>15. (A \cup B) \cup D = Starts(d)
  <2>1. Starts(d) = (Up_To(Starts(b), s) \cup Plus(s, LFs(x))) \cup Plus(k, Beyond(Starts(b), t))
    BY StartsSpliced
  <2> QED BY ONLY <1>1, <2>1
<1> QED BY <1>10, <1>14, <1>15 DEF Spliced_Rows

(* Its positions in the file.                                                *)
LEMMA LinedConcat ==
  ASSUME NEW s, NEW G, NEW l1, NEW r1 \in Seq(Nat), Lined(l1, r1, s, G),
         NEW l2, NEW r2 \in Seq(Nat), Lined(l2, r2, s, G)
  PROVE  Lined(l1 \o l2, r1 \o r2, s, G)
<1>1. PICK m \in Nat, n \in Nat : m = Len(r1) /\ n = Len(r2) OBVIOUS
<1>2. PICK l, r : l = l1 \o l2 /\ r = r1 \o r2 OBVIOUS
<1>3. Len(l1) = m /\ l1 \in Seq(Nat) /\ Len(l2) = n /\ l2 \in Seq(Nat) BY <1>1 DEF Lined
<1>8. \A k \in 1 .. m : l1[k] = IF r1[k] < s THEN r1[k] ELSE r1[k] + G
  BY ONLY <1>1, Lined(l1, r1, s, G) DEF Lined
<1>9. \A k \in 1 .. n : l2[k] = IF r2[k] < s THEN r2[k] ELSE r2[k] + G
  BY ONLY <1>1, Lined(l2, r2, s, G) DEF Lined
<1>10. l1 \in Seq(Nat) /\ l2 \in Seq(Nat) BY <1>3
<1>4. /\ l \in Seq(Nat) /\ Len(l) = m + n
      /\ \A i \in 1 .. m : l[i] = l1[i]
      /\ \A i \in 1 .. n : l[m + i] = l2[i]
  <2>1. /\ l1 \o l2 \in Seq(Nat) /\ Len(l1 \o l2) = Len(l1) + Len(l2)
        /\ \A i \in 1 .. Len(l1) : (l1 \o l2)[i] = l1[i]
        /\ \A i \in 1 .. Len(l2) : (l1 \o l2)[Len(l1) + i] = l2[i]
    BY ONLY <1>10, ConcatParts
  <2> QED BY ONLY <1>2, <1>3, <2>1
<1>5. /\ r \in Seq(Nat) /\ Len(r) = m + n
      /\ \A i \in 1 .. m : r[i] = r1[i]
      /\ \A i \in 1 .. n : r[m + i] = r2[i]
  BY <1>1, <1>2, ConcatParts
<1>6. ASSUME NEW k \in 1 .. m + n PROVE l[k] = IF r[k] < s THEN r[k] ELSE r[k] + G
  <2>1. CASE k <= m
    <3>1. k \in 1 .. m BY <2>1
    <3>2. l[k] = l1[k] /\ r[k] = r1[k] BY <1>4, <1>5, <3>1
    <3> QED BY <1>8, <3>1, <3>2
  <2>2. CASE ~(k <= m)
    <3>1. PICK i \in 1 .. n : k = m + i BY <2>2
    <3>2. l[k] = l2[i] /\ r[k] = r2[i] BY <1>4, <1>5, <3>1
    <3> QED BY <1>9, <3>2
  <2> QED BY <2>1, <2>2
<1>7. Lined(l, r, s, G) BY <1>4, <1>5, <1>6 DEF Lined
<1> QED BY <1>2, <1>7

Is_Line_End(T, b, r, EL) == T = Line_End(b, r, EL)
Within(new, l) == \A i \in 1 .. Len(new) : new[i] <= l

(* The same lines, as positions in the file, with the gap that follows the   *)
(* line of t.                                                                *)
LEMMA LinesSpliced ==
  ASSUME NEW S, NEW b \in Seq(S), NEW t \in Nat, t <= Len(b), NEW s \in Nat, s <= t, NEW l \in Nat,
         NEW k \in Int, k = s + l - t, NEW r, Rows(r, Starts(b)),
         NEW new \in Seq(Nat), Within(new, l),
         NEW SL \in 1 .. Len(r), NEW EL \in 1 .. Len(r), On_Line(r, SL, s),
         NEW T \in Nat, Is_Line_End(T, b, r, EL), t < T, NEW G \in Nat, NEW H \in Nat, k + H = G,
         NEW lines, Lined(lines, r, T, G)
  PROVE  Lined((Between(lines, 1, SL) \o Shifted(s, new)) \o Between(lines, EL + 1, Len(lines)),
               Spliced_Rows(r, SL, EL, s, new, k), T + k, H)
<1>1. PICK n \in Nat, m \in Nat, N \in Nat : n = Len(r) /\ m = Len(new) /\ N = Len(b) BY RowsOf
<1>2. s \in Nat /\ t \in Nat /\ s <= t /\ t <= N BY <1>1
<1>3. /\ r \in Seq(Nat) /\ \A i \in 1 .. n : r[i] \in Nat
      /\ \A i, j \in 1 .. n : i < j => r[i] < r[j]
  <2>1. /\ r \in Seq(Nat) /\ Len(r) \in Nat
        /\ \A i, j \in 1 .. Len(r) : i < j => r[i] < r[j]
    BY ONLY Rows(r, Starts(b)) DEF Rows
  <2> QED BY ONLY <1>1, <2>1
<1>4. /\ Len(lines) = n /\ lines \in Seq(Nat)
      /\ \A i \in 1 .. n : lines[i] = IF r[i] < T THEN r[i] ELSE r[i] + G
  BY ONLY <1>1, Lined(lines, r, T, G) DEF Lined
<1>5. SL \in Nat /\ SL >= 1 /\ SL <= n /\ EL \in Nat /\ EL >= 1 /\ EL <= n BY <1>1
<1>6. PICK U \in Nat : U = T + k BY <1>2
<1>7. U > s + l BY <1>2, <1>6
<1>8. PICK p, q, z, lp, lz :
        /\ p = Between(r, 1, SL) /\ q = Shifted(s, new) /\ z = Between(r, EL + 1, n)
        /\ lp = Between(lines, 1, SL) /\ lz = Between(lines, EL + 1, n)
  OBVIOUS
<1>10. /\ p \in Seq(Nat) /\ Len(p) = SL /\ \A i \in 1 .. SL : p[i] = r[i]
       /\ lp \in Seq(Nat) /\ Len(lp) = SL /\ \A i \in 1 .. SL : lp[i] = lines[i]
  <2>1. Copies(p, r, 0, SL) BY <1>3, <1>8, HeadIs
  <2>2. Copies(lp, lines, 0, SL) BY <1>1, <1>4, <1>8, HeadIs
  <2>3. \A i \in 1 .. SL : 0 + i = i BY <1>5
  <2> QED BY ONLY <2>1, <2>2, <2>3 DEF Copies
<1>11. PICK v \in Nat : v = n - EL BY <1>5
<1>13. /\ z \in Seq(Nat) /\ Len(z) = v /\ \A i \in 1 .. v : z[i] = r[EL + i]
       /\ lz \in Seq(Nat) /\ Len(lz) = v /\ \A i \in 1 .. v : lz[i] = lines[EL + i]
  <2>1. Copies(z, r, EL, v) BY <1>1, <1>3, <1>8, <1>11, TailIs
  <2>2. Copies(lz, lines, EL, v) BY <1>1, <1>4, <1>8, <1>11, TailIs
  <2> QED BY ONLY <2>1, <2>2 DEF Copies
<1>14. Lined(lp, p, U, H)
  <2>1. ASSUME NEW i \in 1 .. SL PROVE lp[i] = IF p[i] < U THEN p[i] ELSE p[i] + H
    <3>1. i \in 1 .. n /\ SL \in 1 .. n /\ (i = SL \/ i < SL) BY <1>5
    <3>5. r[SL] <= s BY DEF On_Line
    <3>6. PICK a \in Nat, c \in Nat : a = r[i] /\ c = r[SL] BY <1>3, <3>1
    <3>7. a = c \/ a < c BY ONLY <1>3, <3>1, <3>6
    <3>2. r[i] <= s /\ r[i] \in Nat BY ONLY <3>5, <3>6, <3>7, <1>2, a \in Nat, c \in Nat
    <3>3. r[i] < T /\ r[i] < U BY <1>2, <1>7, <3>2
    <3>4. lines[i] = r[i] BY <1>4, <3>1, <3>3
    <3> QED BY <1>10, <3>3, <3>4
  <2> QED BY <1>10, <2>1 DEF Lined
<1>15. \A i \in 1 .. m : new[i] \in Nat /\ new[i] <= l /\ s + new[i] \in Nat BY <1>1, <1>2 DEF Within
<1>16. q \in Seq(Nat) /\ Len(q) = m /\ \A i \in 1 .. m : q[i] = s + new[i]
  <2>1. s \in Int BY <1>2
  <2> QED BY <1>1, <1>8, <1>15, <2>1, ShiftedParts
<1>17. Lined(q, q, U, H)
  <2>1. ASSUME NEW i \in 1 .. m PROVE q[i] < U
    <3>1. PICK a \in Nat : a = new[i] /\ a <= l /\ q[i] = s + a BY <1>15, <1>16
    <3> QED BY ONLY <1>2, <1>7, <3>1, a \in Nat, l \in Nat, U \in Nat
  <2> QED BY <1>16, <2>1 DEF Lined
<1>18. ASSUME NEW i \in 1 .. v PROVE EL + i \in 1 .. n /\ r[EL + i] \in Nat /\ r[EL + i] >= T
  <2>1. EL + i \in 1 .. n /\ EL + 1 \in 1 .. n /\ EL # n /\ (EL + i = EL + 1 \/ EL + 1 < EL + i)
    BY <1>5, <1>11
  <2>2. T = r[EL + 1] BY <1>1, <2>1 DEF Line_End, Is_Line_End
  <2>3. PICK g, h : g = EL + i /\ h = EL + 1 OBVIOUS
  <2>4. g \in 1 .. n /\ h \in 1 .. n /\ (g = h \/ h < g) /\ T = r[h] BY ONLY <2>1, <2>2, <2>3
  <2>5. PICK a \in Nat, c \in Nat : a = r[g] /\ c = r[h] BY <1>3, <2>4
  <2>6. a = c \/ c < a BY ONLY <1>3, <2>4, <2>5
  <2>7. g \in 1 .. n /\ r[g] \in Nat /\ r[g] >= T
    BY ONLY <2>4, <2>5, <2>6, a \in Nat, c \in Nat, T \in Nat
  <2> QED BY ONLY <2>3, <2>7
<1>19. PICK y : y = Shifted(k, z) OBVIOUS
<1>20. ASSUME NEW i \in 1 .. v PROVE k + z[i] \in Nat
  <2>1. PICK a \in Nat : a = r[EL + i] /\ a >= T BY <1>18
  <2>2. z[i] = a BY <1>13, <2>1
  <2> QED BY ONLY <2>1, <2>2, <1>2, a \in Nat, T \in Nat, t < T, k = s + l - t, l \in Nat
<1>21. y \in Seq(Nat) /\ Len(y) = v /\ \A i \in 1 .. v : y[i] = k + z[i]
  BY ONLY <1>13, <1>19, <1>20, k \in Int, ShiftedParts
<1>22. Lined(lz, y, U, H)
  <2>1. ASSUME NEW i \in 1 .. v PROVE lz[i] = IF y[i] < U THEN y[i] ELSE y[i] + H
    <3>1. PICK a \in Nat, g \in 1 .. n : g = EL + i /\ a = r[g] /\ a >= T BY <1>18
    <3>2. lz[i] = a + G
      <4>2. lz[i] = lines[EL + i] BY ONLY <1>13, i \in 1 .. v
      <4>3. ~(a < T) BY ONLY <3>1, a \in Nat, T \in Nat
      <4>1. lz[i] = lines[g] /\ ~(r[g] < T) BY ONLY <3>1, <4>2, <4>3
      <4> QED BY ONLY <1>4, <3>1, <4>1, g \in 1 .. n
    <3>3. y[i] = k + a BY ONLY <1>13, <1>21, <3>1, i \in 1 .. v
    <3>4. PICK w \in Int : w = k + a OBVIOUS
    <3>6. a >= T BY <3>1
    <3>5. ~(w < U) /\ w + H = a + G
      BY ONLY <1>6, <3>6, <3>4, a \in Nat, T \in Nat, k \in Int, G \in Nat, H \in Nat, k + H = G
    <3> QED BY ONLY <3>2, <3>3, <3>4, <3>5
  <2> QED BY <1>13, <1>21, <2>1 DEF Lined
<1>23. PICK a, c : a = lp \o q /\ c = p \o q OBVIOUS
<1>24. Lined(a, c, U, H) /\ c \in Seq(Nat)
  <2>1. Lined(a, c, U, H) BY <1>10, <1>14, <1>16, <1>17, <1>23, LinedConcat
  <2>2. c \in Seq(Nat) BY <1>10, <1>16, <1>23, ConcatParts
  <2> QED BY <2>1, <2>2
<1>25. Lined(a \o lz, c \o y, U, H) BY <1>21, <1>22, <1>24, LinedConcat
<1> QED BY <1>1, <1>4, <1>6, <1>8, <1>19, <1>23, <1>25 DEF Spliced_Rows

-----------------------------------------------------------------------------
(* What is in the gap does not matter.                                       *)
Cleared(src, from, last) == [p \in DOMAIN src |-> IF p \in from .. last THEN Stale ELSE src[p]]

(* What is in the gap is not part of the text.                               *)
LEMMA ClearedLaid ==
  ASSUME NEW e, NEW src \in Sources(e), NEW S, NEW c \in Seq(S), NEW G \in Nat, NEW s \in Nat,
         Laid(src, c, s, G), NEW last \in Int, last = s + G - 1
  PROVE  Cleared(src, s, last) \in Sources(e) /\ Laid(Cleared(src, s, last), c, s, G)
<1>1. PICK n \in Nat : DOMAIN src = 0 .. n - 1 /\ \A p \in 0 .. n - 1 : src[p] \in Cells(e)
  BY SourceIs
<1>2. PICK w : w = Cleared(src, s, last) OBVIOUS
<1>3. w = [p \in 0 .. n - 1 |-> IF p \in s .. last THEN Stale ELSE src[p]]
  BY <1>1, <1>2 DEF Cleared
<1>4. Stale \in Cells(e) BY DEF Cells
<1>5. w \in [0 .. n - 1 -> Cells(e)] BY <1>1, <1>3, <1>4
<1>6. w \in Sources(e) BY <1>5 DEF Sources
<1>7. PICK m \in Nat, l \in Nat : m = Len(c) /\ l = m + G OBVIOUS
<1>8. 0 .. n - 1 = 0 .. l - 1 /\ \A q \in 0 .. m - 1 : src[IF q < s THEN q ELSE q + G] = c[q + 1]
  BY ONLY <1>1, <1>7, Laid(src, c, s, G) DEF Laid
<1>9. ASSUME NEW q \in 0 .. m - 1 PROVE w[IF q < s THEN q ELSE q + G] = c[q + 1]
  <2>1. PICK p \in Int : p = IF q < s THEN q ELSE q + G OBVIOUS
  <2>2. p \in 0 .. l - 1 /\ p \notin s .. last BY <1>7, <2>1
  <2>3. p \in 0 .. n - 1 BY <1>8, <2>2
  <2>4. w[p] = src[p] BY <1>3, <2>2, <2>3
  <2>5. src[p] = c[q + 1] BY ONLY <1>8, <2>1, q \in 0 .. m - 1
  <2> QED BY ONLY <2>1, <2>4, <2>5
<1>10. DOMAIN w = 0 .. l - 1 BY <1>3, <1>8
<1>11. Laid(w, c, s, G) BY ONLY <1>7, <1>9, <1>10 DEF Laid
<1> QED BY <1>2, <1>6, <1>11

(* A file after its gap was cleared.                                         *)
LEMMA GapCleared ==
  ASSUME NEW e, NEW f \in Source_File_Records(e), Cleared(f.Source, f.Gap_Start, f.Gap_Last) \in Sources(e)
  PROVE  LET g == Clear_Gap(f)
         IN /\ g \in Source_File_Records(e)
            /\ g.Source = Cleared(f.Source, f.Gap_Start, f.Gap_Last)
            /\ g.File_Length = f.File_Length /\ g.Gap_Start = f.Gap_Start
            /\ g.Gap_Last = f.Gap_Last /\ g.Lines = f.Lines
            /\ g.Cache_Line = f.Cache_Line /\ g.Cache_Pos = f.Cache_Pos
<1>1. PICK src \in Sources(e) : src = Cleared(f.Source, f.Gap_Start, f.Gap_Last) OBVIOUS
<1>2. Clear_Gap(f) = [f EXCEPT !.Source = src] BY <1>1 DEF Clear_Gap, Cleared
<1>3. PICK g : g = [f EXCEPT !.Source = src] OBVIOUS
<1>4. /\ g \in Source_File_Records(e) /\ g.Source = src
      /\ g.File_Length = f.File_Length /\ g.Gap_Start = f.Gap_Start
      /\ g.Gap_Last = f.Gap_Last /\ g.Lines = f.Lines
      /\ g.Cache_Line = f.Cache_Line /\ g.Cache_Pos = f.Cache_Pos
  BY <1>3 DEF Source_File_Records
<1> QED BY <1>1, <1>2, <1>3, <1>4

(* It mirrors the same text.                                                 *)
LEMMA MirrorsCleared ==
  ASSUME NEW e, NEW S, NEW b \in Seq(S), NEW f, NEW r, Mirrors(f, b, r, e)
  PROVE  LET g == Clear_Gap(f)
         IN /\ Mirrors(g, b, r, e) /\ g.Gap_Start = f.Gap_Start /\ Gap_Length(g) = Gap_Length(f)
            /\ g.Cache_Line = f.Cache_Line /\ Get_Buffer_Length(g) = Get_Buffer_Length(f)
<1>1. Holds(f, b, e) /\ f \in Source_File_Records(e) BY DEF Mirrors, Holds
<1>2. PICK G \in Nat, s \in Nat, last \in Int :
        G = Gap_Length(f) /\ s = f.Gap_Start /\ last = f.Gap_Last /\ last = s + G - 1
  <2>1. Fields(b, f.Gap_Start, Gap_Length(f), f.Gap_Last, f.File_Length) BY <1>1, FieldsOf
  <2>2. f.Gap_Last \in Int BY <1>1, RecordFields
  <2> QED BY <2>1, <2>2 DEF Fields
<1>3. PICK c : c = Ended(b) OBVIOUS
<1>4. c \in Seq(S \cup {"EOT"}) BY <1>3, EndedIs
<1>5. Laid(f.Source, c, s, G) /\ f.Source \in Sources(e) BY <1>1, <1>2, <1>3, RecordFields DEF Holds
<1>6. PICK src : src = Cleared(f.Source, s, last) OBVIOUS
<1>7. src \in Sources(e) /\ Laid(src, c, s, G) BY <1>2, <1>4, <1>5, <1>6, ClearedLaid
<1>8. PICK g : g = Clear_Gap(f) OBVIOUS
<1>9. /\ g \in Source_File_Records(e) /\ g.Source = src
      /\ g.File_Length = f.File_Length /\ g.Gap_Start = f.Gap_Start
      /\ g.Gap_Last = f.Gap_Last /\ g.Lines = f.Lines
      /\ g.Cache_Line = f.Cache_Line /\ g.Cache_Pos = f.Cache_Pos
  <2>1. f \in Source_File_Records(e) BY ONLY <1>1
  <2>2. src = Cleared(f.Source, f.Gap_Start, f.Gap_Last) BY ONLY <1>2, <1>6
  <2>3. Cleared(f.Source, f.Gap_Start, f.Gap_Last) \in Sources(e) BY ONLY <1>7, <2>2
  <2> QED BY ONLY <1>8, <2>1, <2>2, <2>3, GapCleared
<1>10. Gap_Length(g) = Gap_Length(f) BY <1>9 DEF Gap_Length
<1>11. \A q : At(g, q) = At(f, q) BY <1>9, <1>10 DEF At
<1>12. Holds(g, b, e) BY <1>1, <1>2, <1>3, <1>7, <1>9, <1>10, <1>11 DEF Holds
<1>13. Placed(g, r) = Placed(f, r) BY <1>11 DEF Placed
<1>14. Mirrors(g, b, r, e) BY <1>9, <1>12, <1>13 DEF Mirrors
<1>15. DOMAIN src = DOMAIN f.Source BY <1>6 DEF Cleared
<1>16. Get_Buffer_Length(g) = Get_Buffer_Length(f) BY <1>9, <1>15 DEF Get_Buffer_Length
<1> QED BY <1>8, <1>9, <1>10, <1>14, <1>16

-----------------------------------------------------------------------------
(* The parts of Replaced.                                                    *)
Spliced_Source(f, s, t, x) == Written(Moved(f.Source, s + Len(x), t, f.Gap_Start - t), s, x)

(* The length of the file after a replacement: the gap is counted in it only *)
(* if it is before the EOT.                                                  *)
Spliced_Length(f, t, s, x) ==
  IF f.Gap_Start > f.File_Length THEN f.File_Length + Len(x) - (t - s) ELSE f.File_Length

(* No line was added nor joined.                                             *)
Same_Lines(SL, EL, x) == SL = EL /\ After_Newlines(x) = << >>

(* The file after a replacement, before its gap and its cache are cleared.   *)
Edited(f, src, fl, gs, li) ==
  [f EXCEPT !.Source = src, !.File_Length = fl, !.Gap_Start = gs, !.Lines = li]

(* The fields of a file that was edited.                                     *)
LEMMA RecordEdited ==
  ASSUME NEW e, NEW f \in Source_File_Records(e), NEW src \in Sources(e), NEW fl \in Nat,
         NEW gs \in Nat, NEW li \in Seq(Nat)
  PROVE  LET g == Edited(f, src, fl, gs, li)
         IN /\ g \in Source_File_Records(e)
            /\ g.Source = src /\ g.File_Length = fl /\ g.Gap_Start = gs /\ g.Gap_Last = f.Gap_Last
            /\ g.Lines = li /\ g.Cache_Line = f.Cache_Line /\ g.Cache_Pos = f.Cache_Pos
BY DEF Edited, Source_File_Records

(* Replaced, as these parts.                                                 *)
LEMMA ReplacedParts ==
  ASSUME NEW f, NEW SL, NEW EL, NEW s, NEW t, NEW x
  PROVE  LET g == Edited(f, Spliced_Source(f, s, t, x), Spliced_Length(f, t, s, x),
                         s + Len(x) + (f.Gap_Start - t), Renumbered(f.Lines, SL, EL, s, x))
         IN Replaced(f, SL, EL, s, t, t - s, x) =
              Clear_Gap(IF Same_Lines(SL, EL, x) THEN g ELSE Clear_Cache(g))
BY DEF Edited, Spliced_Source, Spliced_Length, Same_Lines, Replaced

(* Renumbered, as parts of a sequence.                                       *)
LEMMA RenumberedParts ==
  ASSUME NEW lines, NEW SL, NEW EL, NEW s, NEW x
  PROVE  Renumbered(lines, SL, EL, s, x) =
           (Between(lines, 1, SL) \o Shifted(s, After_Newlines(x)))
             \o Between(lines, EL + 1, Len(lines))
BY DEF Renumbered, Between, Shifted

-----------------------------------------------------------------------------
(* A buffer that holds the bytes and has their table of lines.               *)
LEMMA LinedPlaced ==
  ASSUME NEW g, NEW r \in Seq(Nat), g.Gap_Start \in Nat, Gap_Length(g) \in Nat,
         NEW li, Lined(li, r, g.Gap_Start, Gap_Length(g))
  PROVE  li = Placed(g, r)
<1>1. PICK n \in Nat, s \in Nat, G \in Nat : n = Len(r) /\ s = g.Gap_Start /\ G = Gap_Length(g)
  OBVIOUS
<1>2. li \in Seq(Nat) /\ Len(li) = n BY <1>1 DEF Lined
<1>3. \A k \in 1 .. n : li[k] = IF r[k] < s THEN r[k] ELSE r[k] + G
  BY ONLY <1>1, Lined(li, r, g.Gap_Start, Gap_Length(g)) DEF Lined
<1>4. PICK p : p = Placed(g, r) OBVIOUS
<1>5. p \in Seq(Nat) /\ Len(p) = n /\ \A k \in 1 .. n : p[k] = At(g, r[k])
  BY <1>1, <1>4, PlacedType
<1>6. ASSUME NEW k \in 1 .. n PROVE li[k] = p[k]
  <2>1. PICK a \in Nat : a = r[k] BY <1>1
  <2>2. At(g, a) = IF a < s THEN a ELSE a + G BY <1>1 DEF At
  <2> QED BY ONLY <1>3, <1>5, <2>1, <2>2, <1>6
<1>7. li = p BY <1>2, <1>5, <1>6, SeqEqual
<1> QED BY <1>4, <1>7

(* A file mirrors its text if its table is placed.                           *)
LEMMA MirrorsIf ==
  ASSUME NEW e, NEW S, NEW b \in Seq(S), NEW g, Holds(g, b, e), NEW r, Rows(r, Starts(b)),
         Lined(g.Lines, r, g.Gap_Start, Gap_Length(g)),
         g.Cache_Line \in 1 .. Len(g.Lines), g.Cache_Pos = g.Lines[g.Cache_Line]
  PROVE  Mirrors(g, b, r, e)
<1>1. g.Gap_Start \in Nat /\ Gap_Length(g) \in Nat /\ r \in Seq(Nat)
  BY HoldsFields, RowsOf
<1>2. g.Lines = Placed(g, r) BY <1>1, LinedPlaced
<1> QED BY <1>2 DEF Mirrors

(* It does once the cache is cleared.                                        *)
LEMMA MirrorsCacheCleared ==
  ASSUME NEW e, NEW S, NEW b \in Seq(S), NEW g, Holds(g, b, e), NEW r, Rows(r, Starts(b)),
         Lined(g.Lines, r, g.Gap_Start, Gap_Length(g))
  PROVE  Mirrors(Clear_Cache(g), b, r, e)
<1>1. PICK h : h = Clear_Cache(g) OBVIOUS
<1>2. g \in Source_File_Records(e) BY DEF Holds
<1>3. /\ h \in Source_File_Records(e)
      /\ h.Source = g.Source /\ h.File_Length = g.File_Length /\ h.Gap_Start = g.Gap_Start
      /\ h.Gap_Last = g.Gap_Last /\ h.Lines = g.Lines
      /\ h.Cache_Line = 1 /\ h.Cache_Pos = 0
  BY <1>1, <1>2, CacheCleared
<1>4. Gap_Length(h) = Gap_Length(g) BY <1>3 DEF Gap_Length
<1>5. \A q : At(h, q) = At(g, q) BY <1>3, <1>4 DEF At
<1>6. Holds(h, b, e) BY <1>3, <1>4, <1>5 DEF Holds
<1>7. Len(r) >= 1 /\ r[1] = 0 /\ Len(r) \in Nat BY RowsOf
<1>8. PICK s \in Nat : s = g.Gap_Start /\ s >= 1 BY HoldsFields
<1>9. PICK li : li = g.Lines OBVIOUS
<1>10. Len(li) = Len(r) BY <1>9 DEF Lined
<1>11. li[1] = 0
  <2>1. 1 \in 1 .. Len(r) BY <1>7
  <2>2. li[1] = IF r[1] < s THEN r[1] ELSE r[1] + Gap_Length(g)
    BY ONLY <1>8, <1>9, <2>1, Lined(g.Lines, r, g.Gap_Start, Gap_Length(g)) DEF Lined
  <2> QED BY ONLY <1>7, <1>8, <2>2, s \in Nat
<1>12. h.Cache_Line \in 1 .. Len(h.Lines) /\ h.Cache_Pos = h.Lines[h.Cache_Line]
  BY <1>3, <1>7, <1>9, <1>10, <1>11
<1>13. Lined(h.Lines, r, h.Gap_Start, Gap_Length(h)) BY <1>3, <1>4
<1>14. Mirrors(h, b, r, e) BY <1>6, <1>12, <1>13, MirrorsIf
<1> QED BY <1>1, <1>14

(* The EOT stay at the end.                                                  *)
LEMMA EndedSpliced ==
  ASSUME NEW S, NEW b \in Seq(S), NEW t \in Nat, t <= Len(b), NEW s \in Nat, s <= t, NEW x \in Seq(S),
         NEW d \in Seq(S), Spliced(b, s, t, x, d)
  PROVE  Spliced(Ended(b), s, t, x, Ended(d))
<1>1. PICK N \in Nat, l \in Nat, D \in Nat : N = Len(b) /\ l = Len(x) /\ D = Len(d) OBVIOUS
<1>2. /\ D = s + l + (N - t)
      /\ \A i \in 1 .. s : d[i] = b[i]
      /\ \A i \in 1 .. l : d[s + i] = x[i]
      /\ \A i \in 1 .. N - t : d[s + l + i] = b[t + i]
  BY <1>1 DEF Spliced
<1>3. PICK c, g : c = Ended(b) /\ g = Ended(d) OBVIOUS
<1>4. Len(c) = N + 2 /\ c[N + 1] = "EOT" /\ c[N + 2] = "EOT" /\ \A i \in 1 .. N : c[i] = b[i]
  BY <1>1, <1>3, EndedIs
<1>5. Len(g) = D + 2 /\ g[D + 1] = "EOT" /\ g[D + 2] = "EOT" /\ \A i \in 1 .. D : g[i] = d[i]
  BY <1>1, <1>3, EndedIs
<1>6. t <= N BY <1>1
<1>7. Len(g) = s + l + (N + 2 - t) BY <1>2, <1>5, <1>6
<1>8. \A i \in 1 .. s : g[i] = c[i]
  <2> SUFFICES ASSUME NEW i \in 1 .. s PROVE g[i] = c[i] OBVIOUS
  <2>1. i \in 1 .. N /\ i \in 1 .. D BY <1>2, <1>6
  <2> QED BY <1>2, <1>4, <1>5, <2>1
<1>9. \A i \in 1 .. l : g[s + i] = x[i]
  <2> SUFFICES ASSUME NEW i \in 1 .. l PROVE g[s + i] = x[i] OBVIOUS
  <2>1. s + i \in 1 .. D BY <1>2, <1>6
  <2> QED BY <1>2, <1>5, <2>1
<1>10. ASSUME NEW i \in 1 .. N + 2 - t PROVE g[s + l + i] = c[t + i]
  <2>1. CASE i <= N - t
    <3>1. i \in 1 .. N - t /\ s + l + i \in 1 .. D /\ t + i \in 1 .. N BY <1>2, <1>6, <2>1
    <3> QED BY <1>2, <1>4, <1>5, <3>1
  <2>2. CASE i = N - t + 1
    <3>1. s + l + i = D + 1 /\ t + i = N + 1 BY <1>2, <1>6, <2>2
    <3> QED BY <1>4, <1>5, <3>1
  <2>3. CASE i = N - t + 2
    <3>1. s + l + i = D + 2 /\ t + i = N + 2 BY <1>2, <1>6, <2>3
    <3> QED BY <1>4, <1>5, <3>1
  <2> QED BY <1>6, <2>1, <2>2, <2>3
<1>11. Spliced(c, s, t, x, g) BY ONLY <1>1, <1>4, <1>7, <1>8, <1>9, <1>10 DEF Spliced
<1> QED BY <1>3, <1>11

(* When no line changes the table stays as it is.                            *)
LEMMA RenumberedSame ==
  ASSUME NEW lines \in Seq(Nat), NEW L \in 1 .. Len(lines), NEW s, NEW x, After_Newlines(x) = << >>
  PROVE  Renumbered(lines, L, L, s, x) = lines
<1>1. PICK n \in Nat, v \in Nat : n = Len(lines) /\ v = n - L OBVIOUS
<1>2. PICK p, q, z : /\ p = Between(lines, 1, L) /\ q = Shifted(s, << >>)
                     /\ z = Between(lines, L + 1, Len(lines))
  OBVIOUS
<1>3. L \in Nat /\ L <= n /\ L >= 1 BY <1>1
<1>4. p \in Seq(Nat) /\ Len(p) = L /\ \A i \in 1 .. L : p[i] = lines[i]
  <2>1. Copies(p, lines, 0, L) BY <1>2, HeadIs
  <2>2. \A i \in 1 .. L : 0 + i = i BY <1>3
  <2> QED BY ONLY <2>1, <2>2 DEF Copies
<1>5. z \in Seq(Nat) /\ Len(z) = v /\ \A i \in 1 .. v : z[i] = lines[L + i]
  <2>1. Copies(z, lines, L, v) BY <1>1, <1>2, TailIs
  <2> QED BY ONLY <2>1 DEF Copies
<1>6. q \in Seq(Nat) /\ Len(q) = 0
  <2>1. q = << >> BY <1>2 DEF Shifted
  <2> QED BY <2>1
<1>7. PICK a : a = p \o q OBVIOUS
<1>8. a \in Seq(Nat) /\ Len(a) = L /\ \A i \in 1 .. L : a[i] = p[i]
  <2>1. /\ p \o q \in Seq(Nat) /\ Len(p \o q) = Len(p) + Len(q)
        /\ \A i \in 1 .. Len(p) : (p \o q)[i] = p[i]
    BY <1>4, <1>6, ConcatParts
  <2> QED BY ONLY <2>1, <1>3, <1>4, <1>6, <1>7
<1>9. PICK u : u = a \o z OBVIOUS
<1>10. /\ u \in Seq(Nat) /\ Len(u) = L + v /\ \A i \in 1 .. L : u[i] = a[i]
       /\ \A i \in 1 .. v : u[L + i] = z[i]
  <2>0. a \in Seq(Nat) /\ z \in Seq(Nat) BY <1>5, <1>8
  <2>1. /\ a \o z \in Seq(Nat) /\ Len(a \o z) = Len(a) + Len(z)
        /\ \A i \in 1 .. Len(a) : (a \o z)[i] = a[i]
        /\ \A i \in 1 .. Len(z) : (a \o z)[Len(a) + i] = z[i]
    BY ONLY <2>0, ConcatParts
  <2> QED BY ONLY <2>1, <1>5, <1>8, <1>9
<1>11. ASSUME NEW i \in 1 .. n PROVE u[i] = lines[i]
  <2>1. CASE i <= L BY <1>4, <1>8, <1>10, <2>1
  <2>2. CASE i > L
    <3>1. PICK j \in 1 .. v : i = L + j BY <1>1, <1>3, <2>2
    <3> QED BY <1>5, <1>10, <3>1
  <2> QED BY <1>3, <2>1, <2>2
<1>12. Len(u) = n BY <1>1, <1>3, <1>10
<1>13. u = lines BY <1>1, <1>10, <1>11, <1>12, SeqEqual
<1>14. Renumbered(lines, L, L, s, x) = u BY <1>2, <1>7, <1>9, RenumberedParts
<1> QED BY <1>13, <1>14

-----------------------------------------------------------------------------
(* The gap stays at the end of its line.                                     *)
LEMMA GapPlacedSpliced ==
  ASSUME NEW S, NEW b \in Seq(S), NEW t \in Nat, t <= Len(b), NEW s \in Nat, s <= t, NEW x \in Seq(S),
         NEW d \in Seq(S), Spliced(b, s, t, x, d), NEW T \in Nat, t < T, Gap_Placed(b, T),
         NEW U \in Nat, U = s + Len(x) + (T - t)
  PROVE  Gap_Placed(d, U)
<1>1. PICK N \in Nat, l \in Nat, D \in Nat : N = Len(b) /\ l = Len(x) /\ D = Len(d) OBVIOUS
<1>2. D = s + l + (N - t) /\ \A i \in 1 .. N - t : d[s + l + i] = b[t + i] BY <1>1 DEF Spliced
<1>3. U = s + l + (T - t) BY <1>1
<1>4. CASE T = N + 2
  <2>1. U = D + 2 BY <1>2, <1>3, <1>4
  <2> QED BY <1>1, <2>1 DEF Gap_Placed
<1>5. CASE T \in 1 .. N /\ b[T] = "LF"
  <2>1. PICK j \in 1 .. N - t : T = t + j BY <1>5
  <2>2. d[s + l + j] = b[t + j] BY <1>2
  <2>3. U = s + l + j BY <1>3, <2>1
  <2>4. U \in 1 .. D BY <1>1, <1>2, <2>3
  <2> QED BY <1>1, <1>5, <2>1, <2>2, <2>3, <2>4 DEF Gap_Placed
<1> QED BY <1>1, <1>4, <1>5 DEF Gap_Placed

(* Where the gap is when it was moved to the end of a line.                  *)
LEMMA LineEndAfter ==
  ASSUME NEW S, NEW b \in Seq(S), NEW r, Rows(r, Starts(b)), NEW EL \in 1 .. Len(r),
         NEW t \in Nat, t <= Len(b), On_Line(r, EL, t), NEW T \in Nat, Is_Line_End(T, b, r, EL)
  PROVE  t < T /\ T <= Len(b) + 2
<1>1. PICK N \in Nat, n \in Nat : N = Len(b) /\ n = Len(r) BY RowsOf
<1>2. CASE EL = n BY <1>1, <1>2 DEF Is_Line_End, Line_End
<1>3. CASE EL < n
  <2>1. EL + 1 \in 1 .. n BY <1>1, <1>3
  <2>2. PICK a \in 0 .. N : a = r[EL + 1] BY <1>1, <2>1, RowsOf
  <2>3. t < a BY <1>1, <1>3, <2>2 DEF On_Line
  <2>4. T = a BY <1>1, <1>3, <2>2 DEF Is_Line_End, Line_End
  <2> QED BY <1>1, <2>3, <2>4
<1> QED BY <1>1, <1>2, <1>3

(* The new text is in the buffer.                                            *)
LEMMA SplicedSource ==
  ASSUME NEW e \in Newlines, NEW b \in Seq(Bytes_Of(e)), NEW x \in Seq(Bytes_Of(e)),
         NEW d \in Seq(Bytes_Of(e)), NEW f, Holds(f, b, e),
         NEW t \in Nat, t <= Len(b), NEW s \in Nat, s <= t, Spliced(b, s, t, x, d),
         NEW T \in Nat, T = f.Gap_Start, t < T, T <= Len(b) + 2,
         NEW G \in Nat, G = Gap_Length(f), Len(x) <= G + (t - s),
         NEW H \in Nat, H = G + (t - s) - Len(x), NEW U \in Nat, U = s + Len(x) + (T - t)
  PROVE  /\ Laid(Spliced_Source(f, s, t, x), Ended(d), U, H)
         /\ Spliced_Source(f, s, t, x) \in Sources(e)
<1>1. PICK src, c, y : src = f.Source /\ c = Ended(b) /\ y = Ended(d) OBVIOUS
<1>2. src \in Sources(e) /\ Laid(src, c, T, G)
  <2>1. f \in Source_File_Records(e) /\ Laid(src, c, T, G) BY <1>1 DEF Holds
  <2> QED BY <1>1, <2>1, RecordFields
<1>3. PICK S : S = Bytes_Of(e) \cup {"EOT"} OBVIOUS
<1>4. c \in Seq(S) /\ y \in Seq(S) /\ Len(c) = Len(b) + 2 BY <1>1, <1>3, EndedIs
<1>5. x \in Seq(Cells(e))
  <2>1. Bytes_Of(e) \subseteq Cells(e) BY DEF Cells
  <2> QED BY <2>1
<1>6. Spliced(c, s, t, x, y)
  <2>1. Spliced(Ended(b), s, t, x, Ended(d))
    BY ONLY b \in Seq(Bytes_Of(e)), x \in Seq(Bytes_Of(e)), d \in Seq(Bytes_Of(e)), t \in Nat,
            t <= Len(b), s \in Nat, s <= t, Spliced(b, s, t, x, d), EndedSpliced
  <2> QED BY <1>1, <2>1
<1>7. T \in 0 .. Len(c) /\ t \in 0 .. T /\ s \in 0 .. t
  <2>1. Len(b) \in Nat /\ Len(c) = Len(b) + 2 BY <1>4
  <2> QED BY ONLY <2>1, T \in Nat, t \in Nat, s \in Nat, t < T, s <= t, T <= Len(b) + 2
<1>8. PICK new : new = Written(Moved(src, s + Len(x), t, T - t), s, x) OBVIOUS
<1>9. Laid(new, y, s + Len(x) + (T - t), G + (t - s) - Len(x)) /\ new \in Sources(e)
  BY ONLY <1>2, <1>4, <1>5, <1>6, <1>7, <1>8, G \in Nat, Len(x) <= G + (t - s), LaidReplaced
<1>10. new = Spliced_Source(f, s, t, x) BY <1>1, <1>8 DEF Spliced_Source
<1> QED BY <1>1, <1>9, <1>10

-----------------------------------------------------------------------------
(* The gap before a replacement, at T and of length G, and after it.         *)
Resized(f, s, t, x, T, G, U, H) ==
  /\ T = f.Gap_Start /\ G = Gap_Length(f)
  /\ H = G + (t - s) - Len(x) /\ U = s + Len(x) + (T - t)

(* What it is after it.                                                      *)
Edited_To(g, d, e, U, H, li, f) ==
  /\ Holds(g, d, e) /\ g.Gap_Start = U /\ Gap_Length(g) = H /\ g.Lines = li
  /\ g.Cache_Line = f.Cache_Line /\ g.Cache_Pos = f.Cache_Pos

(* The file after a replacement, before the gap and the cache are cleared.   *)
LEMMA EditedHolds ==
  ASSUME NEW e \in Newlines, NEW b \in Seq(Bytes_Of(e)), NEW x \in Seq(Bytes_Of(e)),
         NEW d \in Seq(Bytes_Of(e)), NEW f, Holds(f, b, e),
         NEW t \in Nat, t <= Len(b), NEW s \in Nat, s <= t, Spliced(b, s, t, x, d),
         NEW T \in Nat, NEW G \in Nat, NEW U \in Nat, NEW H \in Nat, Resized(f, s, t, x, T, G, U, H),
         t < T, T <= Len(b) + 2, Len(x) <= G + (t - s),
         NEW li \in Seq(Nat), NEW g,
         g = Edited(f, Spliced_Source(f, s, t, x), Spliced_Length(f, t, s, x), U, li)
  PROVE  Edited_To(g, d, e, U, H, li, f)
<1>0. /\ T = f.Gap_Start /\ G = Gap_Length(f)
      /\ H = G + (t - s) - Len(x) /\ U = s + Len(x) + (T - t)
  BY DEF Resized
<1>1. PICK N \in Nat, l \in Nat, D \in Nat : N = Len(b) /\ l = Len(x) /\ D = Len(d)
  BY ONLY b \in Seq(Bytes_Of(e)), x \in Seq(Bytes_Of(e)), d \in Seq(Bytes_Of(e))
<1>2. D = s + l + (N - t) BY <1>1 DEF Spliced
<1>3. PICK src, fl : src = Spliced_Source(f, s, t, x) /\ fl = Spliced_Length(f, t, s, x) OBVIOUS
<1>4. Laid(src, Ended(d), U, H) /\ src \in Sources(e) BY <1>0, <1>3, SplicedSource
<1>5. Fields(b, T, G, f.Gap_Last, f.File_Length) BY <1>0, FieldsOf
<1>6. PICK L : L = f.File_Length OBVIOUS
<1>7. /\ f.Gap_Last = T + G - 1 /\ L \in Nat
      /\ (T > N /\ T = N + 2 /\ L = N) \/ (T <= N /\ L = N + G)
  BY ONLY <1>1, <1>5, <1>6, N \in Nat, G \in Nat DEF Fields
<1>8. fl = IF T > L THEN L + l - (t - s) ELSE L BY <1>0, <1>1, <1>3, <1>6 DEF Spliced_Length
<1>9. fl \in Nat /\ fl = IF D < U THEN D ELSE D + H
  <2>1. H = G + (t - s) - l /\ U = s + l + (T - t) /\ t <= N BY <1>0, <1>1
  <2>2. CASE T = N + 2 /\ L = N
    BY ONLY <1>2, <1>8, <2>1, <2>2, N \in Nat, D \in Nat, l \in Nat, s \in Nat, t \in Nat, T \in Nat, s <= t
  <2>3. CASE T <= N /\ L = N + G
    BY ONLY <1>2, <1>8, <2>1, <2>3, N \in Nat, D \in Nat, l \in Nat, s \in Nat, t \in Nat, T \in Nat, s <= t,
            G \in Nat, H \in Nat, t < T
  <2> QED BY <1>7, <2>2, <2>3
<1>10. f \in Source_File_Records(e) BY DEF Holds
<1>11. g = Edited(f, src, fl, U, li) BY <1>3
<1>12. f.Gap_Last \in Int BY <1>10, RecordFields
<1>13. /\ g \in Source_File_Records(e)
       /\ g.Source = src /\ g.File_Length = fl /\ g.Gap_Start = U /\ g.Gap_Last = f.Gap_Last
       /\ g.Lines = li /\ g.Cache_Line = f.Cache_Line /\ g.Cache_Pos = f.Cache_Pos
  <2>1. src \in Sources(e) /\ fl \in Nat BY <1>4, <1>9
  <2> QED BY ONLY <1>10, <1>11, <2>1, U \in Nat, li \in Seq(Nat) DEF Edited, Source_File_Records
<1>14. Gap_Length(g) = H
  <2>1. Gap_Length(g) = (T + G - 1) - U + 1 BY <1>7, <1>13 DEF Gap_Length
  <2>2. H = G + (t - s) - l /\ U = s + l + (T - t) BY <1>0, <1>1
  <2> QED BY ONLY <2>1, <2>2, l \in Nat, G \in Nat, T \in Nat, t \in Nat, s \in Nat
<1>15. At(g, D) = IF D < U THEN D ELSE D + H BY <1>13, <1>14 DEF At
<1>16. Gap_Placed(d, U)
  <2>1. Gap_Placed(b, T) BY <1>0 DEF Holds
  <2>2. U = s + Len(x) + (T - t) BY <1>0
  <2> QED BY ONLY <2>1, <2>2, b \in Seq(Bytes_Of(e)), x \in Seq(Bytes_Of(e)), d \in Seq(Bytes_Of(e)),
                  t \in Nat, t <= Len(b), s \in Nat, s <= t, Spliced(b, s, t, x, d), T \in Nat, t < T,
                  U \in Nat, GapPlacedSpliced
<1>17. Holds(g, d, e) BY ONLY <1>1, <1>4, <1>9, <1>13, <1>14, <1>15, <1>16, H \in Nat DEF Holds
<1> QED BY ONLY <1>13, <1>14, <1>17 DEF Edited_To

-----------------------------------------------------------------------------
(* The lines after a replacement.                                            *)
LEMMA RenumberedLines ==
  ASSUME NEW e \in Newlines, NEW b \in Seq(Bytes_Of(e)), NEW x \in Seq(Bytes_Of(e)), Clean(x, e),
         NEW d \in Seq(Bytes_Of(e)), NEW r, Rows(r, Starts(b)),
         NEW t \in Nat, t <= Len(b), NEW s \in Nat, s <= t, Spliced(b, s, t, x, d),
         NEW SL \in 1 .. Len(r), NEW EL \in 1 .. Len(r), On_Line(r, SL, s), On_Line(r, EL, t),
         NEW T \in Nat, Is_Line_End(T, b, r, EL), t < T, NEW G \in Nat, NEW H \in Nat,
         H = G + (t - s) - Len(x), NEW U \in Nat, U = s + Len(x) + (T - t),
         NEW lines, Lined(lines, r, T, G)
  PROVE  \E r2 : Rows(r2, Starts(d)) /\ Lined(Renumbered(lines, SL, EL, s, x), r2, U, H)
<1>1. PICK l \in Nat, k \in Int : l = Len(x) /\ k = s + l - t OBVIOUS
<1>2. PICK new : new = After_Newlines(x) OBVIOUS
<1>3. Rows(new, LFs(x)) BY <1>2, AfterNewlinesAre
<1>4. new \in Seq(Nat) /\ Within(new, l)
  <2>1. new \in Seq(Nat) /\ \A i \in 1 .. Len(new) : new[i] \in LFs(x) BY <1>3 DEF Rows
  <2>2. ASSUME NEW i \in 1 .. Len(new) PROVE new[i] <= l
    <3>1. PICK a : a = new[i] /\ a \in LFs(x) BY <2>1
    <3> QED BY ONLY <1>1, <3>1, l \in Nat DEF LFs
  <2> QED BY ONLY <2>1, <2>2 DEF Within
<1>5. PICK r2 : r2 = Spliced_Rows(r, SL, EL, s, new, k) OBVIOUS
<1>6. Rows(r2, Starts(d))
  <2>1. k = s + Len(x) - t BY <1>1
  <2> QED BY ONLY <1>3, <1>5, <2>1, k \in Int, b \in Seq(Bytes_Of(e)), x \in Seq(Bytes_Of(e)),
                  d \in Seq(Bytes_Of(e)), t \in Nat, t <= Len(b), s \in Nat, s <= t,
                  Spliced(b, s, t, x, d), Rows(r, Starts(b)), SL \in 1 .. Len(r), EL \in 1 .. Len(r),
                  On_Line(r, SL, s), On_Line(r, EL, t), RowsSpliced
<1>7. k + H = G /\ T + k = U BY <1>1
<1>8. PICK li : li = (Between(lines, 1, SL) \o Shifted(s, new)) \o Between(lines, EL + 1, Len(lines))
  OBVIOUS
<1>9. Lined(li, r2, T + k, H)
  BY ONLY <1>1, <1>4, <1>5, <1>7, <1>8, b \in Seq(Bytes_Of(e)), t \in Nat, t <= Len(b), s \in Nat, s <= t,
          Rows(r, Starts(b)), SL \in 1 .. Len(r), EL \in 1 .. Len(r), On_Line(r, SL, s), T \in Nat,
          Is_Line_End(T, b, r, EL), t < T, G \in Nat, H \in Nat, Lined(lines, r, T, G), LinesSpliced
<1>10. li = Renumbered(lines, SL, EL, s, x) BY <1>2, <1>8, RenumberedParts
<1> QED BY <1>6, <1>7, <1>9, <1>10

(* A replacement that fits is made: the buffer holds the new text and has    *)
(* its lines.                                                                *)
LEMMA ReplacedMirrors ==
  ASSUME NEW e \in Newlines, NEW b \in Seq(Bytes_Of(e)), NEW x \in Seq(Bytes_Of(e)), Clean(x, e),
         NEW d \in Seq(Bytes_Of(e)), NEW f, NEW r, Mirrors(f, b, r, e),
         NEW t \in Nat, t <= Len(b), NEW s \in Nat, s <= t, Spliced(b, s, t, x, d),
         NEW SL \in 1 .. Len(r), NEW EL \in 1 .. Len(r), On_Line(r, SL, s), On_Line(r, EL, t),
         Is_Line_End(f.Gap_Start, b, r, EL), Len(x) <= Gap_Length(f) + (t - s)
  PROVE  \E r2 : Mirrors(Replaced(f, SL, EL, s, t, t - s, x), d, r2, e)
<1>1. Holds(f, b, e) /\ Rows(r, Starts(b)) BY DEF Mirrors
<1>2. PICK T \in Nat, G \in Nat : T = f.Gap_Start /\ G = Gap_Length(f) BY <1>1, HoldsFields
<1>3. Is_Line_End(T, b, r, EL) BY <1>2
<1>4. t < T /\ T <= Len(b) + 2 BY <1>1, <1>3, LineEndAfter
<1>5. PICK H \in Nat, U \in Nat : H = G + (t - s) - Len(x) /\ U = s + Len(x) + (T - t)
  <2>1. Len(x) \in Nat /\ Len(x) <= G + (t - s) BY <1>2
  <2>2. G + (t - s) - Len(x) \in Nat /\ s + Len(x) + (T - t) \in Nat
    BY ONLY <1>4, <2>1, G \in Nat, T \in Nat, t \in Nat, s \in Nat, s <= t
  <2> QED BY <2>2
<1>6. PICK lines, li : lines = f.Lines /\ li = Renumbered(f.Lines, SL, EL, s, x) OBVIOUS
<1>7. Lined(lines, r, T, G) BY <1>2, <1>6, MirrorsLines
<1>8. PICK r2 : Rows(r2, Starts(d)) /\ Lined(li, r2, U, H)
  BY <1>1, <1>3, <1>4, <1>5, <1>6, <1>7, RenumberedLines
<1>9. li \in Seq(Nat) BY <1>8 DEF Lined
<1>10. PICK g : g = Edited(f, Spliced_Source(f, s, t, x), Spliced_Length(f, t, s, x), U, li) OBVIOUS
<1>11. /\ Holds(g, d, e) /\ g.Gap_Start = U /\ Gap_Length(g) = H /\ g.Lines = li
       /\ g.Cache_Line = f.Cache_Line /\ g.Cache_Pos = f.Cache_Pos
  <2>1. Len(x) <= G + (t - s) BY <1>2
  <2>2. Holds(f, b, e) BY <1>1
  <2>3. Resized(f, s, t, x, T, G, U, H) BY <1>2, <1>5 DEF Resized
  <2>4. Edited_To(g, d, e, U, H, li, f)
    BY ONLY <1>4, <1>9, <1>10, <2>1, <2>2, <2>3, T \in Nat, G \in Nat, H \in Nat, U \in Nat,
                  e \in Newlines, b \in Seq(Bytes_Of(e)),
                  x \in Seq(Bytes_Of(e)), d \in Seq(Bytes_Of(e)), t \in Nat, t <= Len(b), s \in Nat, s <= t,
                  Spliced(b, s, t, x, d), EditedHolds
  <2> QED BY ONLY <2>4 DEF Edited_To
<1>12. Lined(g.Lines, r2, g.Gap_Start, Gap_Length(g)) BY <1>8, <1>11
<1>13. PICK h : h = IF Same_Lines(SL, EL, x) THEN g ELSE Clear_Cache(g) OBVIOUS
<1>14. Mirrors(h, d, r2, e)
  <2>1. CASE Same_Lines(SL, EL, x)
    <3>1. SL = EL /\ After_Newlines(x) = << >> BY <2>1 DEF Same_Lines
    <3>2. Len(lines) = Len(r) /\ lines \in Seq(Nat) BY <1>7 DEF Lined
    <3>3. li = lines BY <1>6, <3>1, <3>2, RenumberedSame
    <3>4. f.Cache_Line \in 1 .. Len(f.Lines) /\ f.Cache_Pos = f.Lines[f.Cache_Line] BY DEF Mirrors
    <3>5. g.Cache_Line \in 1 .. Len(g.Lines) /\ g.Cache_Pos = g.Lines[g.Cache_Line]
      BY ONLY <1>6, <1>11, <3>3, <3>4
    <3>6. h = g BY <1>13, <2>1
    <3> QED BY ONLY <1>8, <1>11, <1>12, <3>5, <3>6, d \in Seq(Bytes_Of(e)), MirrorsIf
  <2>2. CASE ~Same_Lines(SL, EL, x)
    <3>1. h = Clear_Cache(g) BY <1>13, <2>2
    <3> QED BY ONLY <1>8, <1>11, <1>12, <3>1, d \in Seq(Bytes_Of(e)), MirrorsCacheCleared
  <2> QED BY <2>1, <2>2
<1>15. Mirrors(Clear_Gap(h), d, r2, e) BY ONLY <1>14, d \in Seq(Bytes_Of(e)), MirrorsCleared
<1>16. Replaced(f, SL, EL, s, t, t - s, x) = Clear_Gap(h)
  <2>1. g = Edited(f, Spliced_Source(f, s, t, x), Spliced_Length(f, t, s, x),
                   s + Len(x) + (f.Gap_Start - t), Renumbered(f.Lines, SL, EL, s, x))
    <3>1. U = s + Len(x) + (f.Gap_Start - t) BY <1>2, <1>5
    <3> QED BY ONLY <1>6, <1>10, <3>1
  <2> QED BY ONLY <1>13, <2>1, ReplacedParts
<1> QED BY <1>15, <1>16

-----------------------------------------------------------------------------
(* The parts of Replace_Text.                                                *)
Start_Of(g, L, off) == g.Lines[L] + off

(* The results of Replace_Text.                                              *)
Failed(g) == [status |-> "error", f |-> g]
Full(g) == [status |-> "full", f |-> g]
Done(g) == [status |-> "done", f |-> g]

(* Replace_Text, once the gap is moved.                                      *)
Replace_At(g, SL, EL, start, end, range, x) ==
  IF range = -1 THEN Failed(g)
  ELSE IF Len(x) > Gap_Length(g) + range THEN Full(g)
  ELSE Done(Replaced(g, SL, EL, start, end, range, x))

(* Replace_Text is Move_Gap, then this.                                      *)
LEMMA ReplaceTextParts ==
  ASSUME NEW f, NEW SL, NEW so, NEW EL, NEW eo, NEW x
  PROVE  LET m == Move_Gap(f, EL)
             start == Start_Of(m.f, SL, so)
             end == Start_Of(m.f, EL, eo)
         IN Replace_Text(f, SL, so, EL, eo, x) =
              IF m.error THEN Failed(m.f)
              ELSE Replace_At(m.f, SL, EL, start, end, Get_Range_Length(m.f, start, end), x)
BY DEF Replace_Text, Start_Of, Failed, Full, Done, Replace_At

(* What Replace_Text gives.                                                  *)
Fits(x, G, n) == Len(x) <= G + n

(* What a replacement does: done, exactly if it fits, and the file mirrors   *)
(* the new text d; full, and it still mirrors b; or an error, with an empty  *)
(* gap in front of the EOT and an unchanged file.                            *)
Outcome(R, f, b, d, r, e, x, n) ==
  \/ R.status = "done" /\ Fits(x, Gap_Length(f), n) /\ \E r2 : Mirrors(R.f, d, r2, e)
  \/ R.status = "full" /\ ~Fits(x, Gap_Length(f), n) /\ Mirrors(R.f, b, r, e) /\ Gap_Length(R.f) = Gap_Length(f)
  \/ R.status = "error" /\ R.f = f /\ Gap_Length(f) = 0 /\ f.Gap_Start = f.File_Length

(* With the gap at the end of the line of t, a position is that of its byte. *)
LEMMA StartIs ==
  ASSUME NEW e, NEW S, NEW b \in Seq(S), NEW g, NEW r, Mirrors(g, b, r, e),
         NEW L \in 1 .. Len(r), NEW off \in Nat, NEW s \in Nat, r[L] + off = s, s < g.Gap_Start
  PROVE  Start_Of(g, L, off) = s
<1>1. PICK T \in Nat, G \in Nat : T = g.Gap_Start /\ G = Gap_Length(g)
  <2>1. Holds(g, b, e) BY DEF Mirrors
  <2> QED BY <2>1, HoldsFields
<1>2. PICK li : li = g.Lines OBVIOUS
<1>3. Lined(li, r, T, G) BY <1>1, <1>2, MirrorsLines
<1>4. r \in Seq(Nat)
  <2>1. Rows(r, Starts(b)) BY DEF Mirrors
  <2> QED BY <2>1, RowsOf
<1>5. PICK a \in Nat : a = r[L] BY <1>4
<1>6. li[L] = IF a < T THEN a ELSE a + G BY ONLY <1>3, <1>5, L \in 1 .. Len(r) DEF Lined
<1>7. a + off = s /\ s < T BY <1>1, <1>5
<1>8. li[L] + off = s BY ONLY <1>6, <1>7, a \in Nat, off \in Nat, s \in Nat, T \in Nat
<1> QED BY <1>2, <1>8 DEF Start_Of

(* With the gap after both, Get_Range_Length counts the bytes between two    *)
(* positions.                                                                *)
LEMMA RangeIs ==
  ASSUME NEW e, NEW S, NEW b \in Seq(S), NEW g, Holds(g, b, e),
         NEW t \in Nat, t <= Len(b), NEW s \in Nat, s <= t, t < g.Gap_Start
  PROVE  Get_Range_Length(g, s, t) = t - s
<1>1. PICK T \in Nat, G \in Nat, N \in Nat : T = g.Gap_Start /\ G = Gap_Length(g) /\ N = Len(b)
  BY HoldsFields
<1>2. PICK fl \in Nat : fl = g.File_Length /\ N <= fl
  <2>1. (T > N /\ T = N + 2 /\ g.File_Length = N) \/ (T <= N /\ g.File_Length = N + G)
    BY <1>1, HoldsFields
  <2> QED BY ONLY <2>1, N \in Nat, G \in Nat
<1>3. Get_Range_Length(g, s, t) =
        IF t < s \/ t > fl THEN -1
        ELSE IF g.Gap_Last < s \/ T >= t THEN t - s
        ELSE IF g.Gap_Last > t \/ T <= s THEN -1 ELSE t - s - G
  BY ONLY <1>1, <1>2 DEF Get_Range_Length
<1>4. t <= N /\ t < T BY <1>1
<1> QED BY ONLY <1>2, <1>3, <1>4, N \in Nat, T \in Nat, fl \in Nat, s \in Nat, t \in Nat, s <= t

-----------------------------------------------------------------------------
(* The bytes after s up to t, given by line and offset, are replaced by x.   *)
Edit_Of(b, r, s, t, x, d, SL, so, EL, eo) ==
  /\ s <= t /\ t <= Len(b) /\ Spliced(b, s, t, x, d)
  /\ SL \in 1 .. Len(r) /\ On_Line(r, SL, s) /\ r[SL] + so = s
  /\ EL \in 1 .. Len(r) /\ On_Line(r, EL, t) /\ r[EL] + eo = t

(* Replace_Text has one of these outcomes.                                   *)
LEMMA ReplaceTextMirrors ==
  ASSUME NEW e \in Newlines, NEW b \in Seq(Bytes_Of(e)), NEW x \in Seq(Bytes_Of(e)), Clean(x, e),
         NEW d \in Seq(Bytes_Of(e)), NEW f, NEW r, Mirrors(f, b, r, e), Assertions,
         NEW s \in Nat, NEW t \in Nat, NEW so \in Nat, NEW eo \in Nat, NEW SL, NEW EL,
         Edit_Of(b, r, s, t, x, d, SL, so, EL, eo)
  PROVE  Outcome(Replace_Text(f, SL, so, EL, eo, x), f, b, d, r, e, x, t - s)
<1>1. /\ s <= t /\ t <= Len(b) /\ Spliced(b, s, t, x, d)
      /\ SL \in 1 .. Len(r) /\ On_Line(r, SL, s) /\ EL \in 1 .. Len(r) /\ On_Line(r, EL, t)
      /\ r[SL] + so = s /\ r[EL] + eo = t
  BY DEF Edit_Of
<1>2. PICK m : m = Move_Gap(f, EL) OBVIOUS
<1>3. Gap_Moved(m, f, b, r, e, EL)
  BY ONLY <1>1, <1>2, b \in Seq(Bytes_Of(e)), Mirrors(f, b, r, e), Assertions, MoveGapMirrors
<1>4. PICK g, start, end : g = m.f /\ start = Start_Of(g, SL, so) /\ end = Start_Of(g, EL, eo) OBVIOUS
<1>5. PICK R : R = Replace_Text(f, SL, so, EL, eo, x) OBVIOUS
<1>6. R = IF m.error THEN Failed(g)
          ELSE Replace_At(g, SL, EL, start, end, Get_Range_Length(g, start, end), x)
  BY ONLY <1>2, <1>4, <1>5, ReplaceTextParts
<1>7. CASE m.error
  <2>1. g = f /\ Gap_Length(f) = 0 /\ f.Gap_Start = f.File_Length BY ONLY <1>3, <1>4, <1>7 DEF Gap_Moved
  <2>2. R = Failed(f) BY <1>6, <1>7, <2>1
  <2>3. R.status = "error" /\ R.f = f BY ONLY <2>2 DEF Failed
  <2> QED BY ONLY <1>5, <2>1, <2>3 DEF Outcome
<1>8. CASE ~m.error
  <2>1. Mirrors(g, b, r, e) /\ g.Gap_Start = Line_End(b, r, EL) /\ Gap_Length(g) = Gap_Length(f)
    BY ONLY <1>3, <1>4, <1>8 DEF Gap_Moved
  <2>2. Holds(g, b, e) /\ Rows(r, Starts(b)) BY ONLY <2>1 DEF Mirrors
  <2>3. PICK T \in Nat : T = g.Gap_Start BY <2>2, HoldsFields
  <2>4. Is_Line_End(T, b, r, EL) BY <2>1, <2>3 DEF Is_Line_End
  <2>5. t < T
    BY ONLY <1>1, <2>2, <2>4, b \in Seq(Bytes_Of(e)), t \in Nat, T \in Nat, LineEndAfter
  <2>6. s < g.Gap_Start /\ t < g.Gap_Start
    BY ONLY <1>1, <2>3, <2>5, s \in Nat, t \in Nat, T \in Nat
  <2>0. Mirrors(g, b, r, e) BY <2>1
  <2>7. start = s
    <3>1. SL \in 1 .. Len(r) /\ r[SL] + so = s /\ s < g.Gap_Start BY ONLY <1>1, <2>6
    <3>2. Start_Of(g, SL, so) = s
      BY ONLY <3>1, <2>0, b \in Seq(Bytes_Of(e)), s \in Nat, so \in Nat, StartIs
    <3> QED BY ONLY <1>4, <3>2
  <2>8. end = t
    <3>1. EL \in 1 .. Len(r) /\ r[EL] + eo = t /\ t < g.Gap_Start BY ONLY <1>1, <2>6
    <3>2. Start_Of(g, EL, eo) = t
      BY ONLY <3>1, <2>0, b \in Seq(Bytes_Of(e)), t \in Nat, eo \in Nat, StartIs
    <3> QED BY ONLY <1>4, <3>2
  <2>9. Get_Range_Length(g, s, t) = t - s
    BY ONLY <1>1, <2>2, <2>6, b \in Seq(Bytes_Of(e)), s \in Nat, t \in Nat, RangeIs
  <2>10. R = Replace_At(g, SL, EL, s, t, t - s, x) BY ONLY <1>6, <1>8, <2>7, <2>8, <2>9
  <2>11. t - s \in Nat BY ONLY <1>1, s \in Nat, t \in Nat
  <2>12. R = IF ~Fits(x, Gap_Length(f), t - s) THEN Full(g)
             ELSE Done(Replaced(g, SL, EL, s, t, t - s, x))
    <3>1. Len(x) \in Nat /\ Gap_Length(g) \in Nat
      <4>1. Gap_Length(g) \in Nat BY <2>2, HoldsFields
      <4> QED BY <4>1
    <3>2. PICK l \in Nat, G \in Nat, k \in Nat : l = Len(x) /\ G = Gap_Length(g) /\ k = t - s
      BY ONLY <2>11, <3>1
    <3>3. R = IF k = -1 THEN Failed(g) ELSE IF l > G + k THEN Full(g)
              ELSE Done(Replaced(g, SL, EL, s, t, t - s, x))
      BY ONLY <2>10, <3>2 DEF Replace_At
    <3>4. Fits(x, Gap_Length(f), t - s) <=> l <= G + k BY ONLY <2>1, <3>2 DEF Fits
    <3> QED BY ONLY <3>3, <3>4, l \in Nat, G \in Nat, k \in Nat
  <2>13. CASE ~Fits(x, Gap_Length(f), t - s)
    <3>1. R.status = "full" /\ R.f = g BY ONLY <2>12, <2>13 DEF Full
    <3> QED BY ONLY <1>5, <2>1, <2>13, <3>1 DEF Outcome
  <2>14. CASE Fits(x, Gap_Length(f), t - s)
    <3>1. R.status = "done" /\ R.f = Replaced(g, SL, EL, s, t, t - s, x)
      BY ONLY <2>12, <2>14 DEF Done
    <3>2. Is_Line_End(g.Gap_Start, b, r, EL) BY <2>3, <2>4
    <3>3. Len(x) <= Gap_Length(g) + (t - s) BY ONLY <2>1, <2>14 DEF Fits
    <3>4. \E r2 : Mirrors(Replaced(g, SL, EL, s, t, t - s, x), d, r2, e)
      BY ONLY <1>1, <2>1, <3>2, <3>3, e \in Newlines, b \in Seq(Bytes_Of(e)), x \in Seq(Bytes_Of(e)),
              Clean(x, e), d \in Seq(Bytes_Of(e)), s \in Nat, t \in Nat, ReplacedMirrors
    <3>5. \E r2 : Mirrors(R.f, d, r2, e) BY ONLY <3>1, <3>4
    <3> QED BY ONLY <1>5, <2>14, <3>1, <3>5 DEF Outcome
  <2> QED BY <2>13, <2>14
<1> QED BY <1>7, <1>8

-----------------------------------------------------------------------------
(* The content of a buffer is the bytes it holds.                            *)
LEMMA ContentIs ==
  ASSUME NEW e \in Newlines, NEW b \in Seq(Bytes_Of(e)), NEW f, Holds(f, b, e)
  PROVE  Content(f) = b
<1>1. PICK T \in Nat, G \in Nat, N \in Nat : T = f.Gap_Start /\ G = Gap_Length(f) /\ N = Len(b)
  BY HoldsFields
<1>2. PICK fl : fl = f.File_Length OBVIOUS
<1>3. (T > N /\ T = N + 2 /\ fl = N) \/ (T <= N /\ fl = N + G)
  <2>1. Fields(b, T, G, f.Gap_Last, fl) BY <1>1, <1>2, FieldsOf
  <2> QED BY ONLY <1>1, <2>1 DEF Fields
<1>4. Get_Content_Length(f) = IF T >= fl THEN fl ELSE fl - G BY ONLY <1>1, <1>2 DEF Get_Content_Length
<1>5. Get_Content_Length(f) = N BY ONLY <1>3, <1>4, N \in Nat, T \in Nat, G \in Nat
<1>6. \A q \in 0 .. N - 1 : f.Source[At(f, q)] = b[q + 1]
  <2>1. Reads(f, b, e) BY HoldsReads
  <2> QED BY ONLY <1>1, <2>1 DEF Reads
<1>7. PICK c : c = Content(f) OBVIOUS
<1>8. c = [i \in 1 .. N |-> f.Source[IF T < fl /\ i - 1 >= T THEN (i - 1) + G ELSE i - 1]]
  BY ONLY <1>1, <1>2, <1>5, <1>7 DEF Content
<1>9. ASSUME NEW i \in 1 .. N PROVE c[i] = b[i]
  <2>1. PICK q \in 0 .. N - 1 : q = i - 1 /\ q + 1 = i BY <1>9
  <2>2. At(f, q) = IF q < T THEN q ELSE q + G BY ONLY <1>1 DEF At
  <2>3. (IF T < fl /\ q >= T THEN q + G ELSE q) = At(f, q)
    BY ONLY <1>3, <2>1, <2>2, N \in Nat, T \in Nat, G \in Nat
  <2>4. c[i] = f.Source[At(f, q)] BY ONLY <1>8, <1>9, <2>1, <2>3
  <2> QED BY ONLY <1>6, <2>1, <2>4
<1>10. c = [i \in 1 .. N |-> c[i]] BY ONLY <1>8
<1>11. b = [i \in 1 .. N |-> b[i]] BY <1>1
<1>12. c = b BY ONLY <1>9, <1>10, <1>11
<1> QED BY <1>7, <1>12

-----------------------------------------------------------------------------
(* A new file.                                                               *)
LEMMA Reserved ==
  ASSUME NEW e, NEW n \in Nat
  PROVE  Reserve_Source_File(n) \in Source_File_Records(e) /\ Get_Buffer_Length(Reserve_Source_File(n)) = n
<1>1. PICK src : src = [p \in 0 .. n - 1 |-> Stale] OBVIOUS
<1>2. src \in [0 .. n - 1 -> Cells(e)] /\ DOMAIN src = 0 .. n - 1 BY <1>1 DEF Cells
<1>3. src \in Sources(e) BY <1>2 DEF Sources
<1>4. PICK li : li = <<0>> /\ li \in Seq(Nat)
  <2>1. <<0>> \in Seq(Nat) OBVIOUS
  <2> QED BY ONLY <2>1
<1>5. PICK f : f = Reserve_Source_File(n) OBVIOUS
<1>6. f = [Source |-> src, File_Length |-> 0, Gap_Start |-> n, Gap_Last |-> n,
           Lines |-> li, Cache_Line |-> 1, Cache_Pos |-> 0]
  BY <1>1, <1>4, <1>5 DEF Reserve_Source_File
<1>7. f \in Source_File_Records(e) BY ONLY <1>3, <1>4, <1>6, n \in Nat DEF Source_File_Records
<1>8. f.Source = src BY <1>6
<1>9. Get_Buffer_Length(f) = n
  <2>1. Cardinality(0 .. n - 1) = n BY IntervalSize
  <2> QED BY ONLY <1>2, <1>8, <2>1 DEF Get_Buffer_Length
<1> QED BY <1>5, <1>7, <1>9

(* A text that was filled: all of it before the gap, and no line known.      *)
Filled(g, b, e, n) ==
  /\ Holds(g, b, e) /\ g.Gap_Start = Len(b) + 2 /\ Gap_Length(g) = n - (Len(b) + 2)
  /\ g.Lines = <<0>> /\ g.Cache_Line = 1 /\ g.Cache_Pos = 0

(* A file that was filled with a text that fits holds it.                    *)
LEMMA FillTextHolds ==
  ASSUME NEW e \in Newlines, NEW b \in Seq(Bytes_Of(e)), NEW f \in Source_File_Records(e), Fills(f, b)
  PROVE  Filled(Fill_Text(f, b), b, e, Get_Buffer_Length(f))
<1>1. PICK src : src = f.Source OBVIOUS
<1>2. src \in Sources(e) BY <1>1, RecordFields
<1>3. PICK n \in Nat : DOMAIN src = 0 .. n - 1 /\ Cardinality(DOMAIN src) = n BY <1>2, SourceIs
<1>4. Get_Buffer_Length(f) = n BY <1>1, <1>3 DEF Get_Buffer_Length
<1>30. PICK c : c = Ended(b) OBVIOUS
<1>5. PICK N \in Nat : N = Len(b) /\ c = Ended(b) BY ONLY <1>30, b \in Seq(Bytes_Of(e))
<1>6. /\ c \in Seq(Bytes_Of(e) \cup {"EOT"}) /\ Len(c) = N + 2
      /\ c \in Seq(Cells(e))
  <2>1. c \in Seq(Bytes_Of(e) \cup {"EOT"}) /\ Len(c) = N + 2 BY <1>5, EndedIs
  <2>2. Bytes_Of(e) \cup {"EOT"} \subseteq Cells(e) BY DEF Cells
  <2> QED BY <2>1, <2>2
<1>7. N + 2 <= n BY <1>4, <1>5 DEF Fills
<1>8. PICK G \in Nat : G = n - (N + 2) BY <1>7
<1>9. PICK w : w = Written(src, 0, c) OBVIOUS
<1>10. w \in Sources(e) /\ Gives(w, src, 0, c, n)
  BY ONLY <1>2, <1>3, <1>6, <1>9, n \in Nat, 0 \in Nat, WrittenType
<1>11. Laid(w, c, N + 2, G)
  <2>1. DOMAIN w = 0 .. n - 1 /\ n - 1 = Len(c) + G - 1 BY <1>6, <1>8, <1>10 DEF Gives
  <2>2. ASSUME NEW q \in 0 .. Len(c) - 1 PROVE w[IF q < N + 2 THEN q ELSE q + G] = c[q + 1]
    <3>1. q \in 0 .. n - 1 /\ q \in 0 .. 0 + Len(c) - 1 /\ q < N + 2 /\ q - 0 + 1 = q + 1
      BY <1>6, <1>7, <2>2
    <3>2. w[q] = c[q + 1] BY ONLY <1>10, <3>1 DEF Gives
    <3> QED BY ONLY <3>1, <3>2
  <2> QED BY ONLY <2>1, <2>2 DEF Laid
<1>12. PICK g0 : g0 = Remade(f, w, N, <<0>>, N + 2, n - 1) OBVIOUS
<1>13. PICK li : li = <<0>> /\ li \in Seq(Nat)
  <2>1. <<0>> \in Seq(Nat) OBVIOUS
  <2> QED BY ONLY <2>1
<1>14. PICK T \in Nat, gl \in Int : T = N + 2 /\ gl = n - 1 OBVIOUS
<1>15. /\ g0 \in Source_File_Records(e)
       /\ g0.Source = w /\ g0.File_Length = N /\ g0.Gap_Start = T /\ g0.Gap_Last = gl
       /\ g0.Lines = li
  <2>1. g0 = Remade(f, w, N, li, T, gl) BY <1>12, <1>13, <1>14
  <2> QED BY ONLY <1>10, <1>13, <2>1, f \in Source_File_Records(e), N \in Nat, T \in Nat, gl \in Int
          DEF Remade, Source_File_Records
<1>16. PICK g1 : g1 = Clear_Cache(g0) OBVIOUS
<1>17. /\ g1 \in Source_File_Records(e)
       /\ g1.Source = w /\ g1.File_Length = N /\ g1.Gap_Start = T /\ g1.Gap_Last = gl
       /\ g1.Lines = li /\ g1.Cache_Line = 1 /\ g1.Cache_Pos = 0
  BY ONLY <1>15, <1>16, CacheCleared
<1>18. PICK v : v = Cleared(w, T, gl) OBVIOUS
<1>19. v \in Sources(e) /\ Laid(v, c, T, G)
  <2>1. gl = T + G - 1 /\ Laid(w, c, T, G) BY <1>8, <1>11, <1>14
  <2> QED BY ONLY <1>6, <1>10, <1>18, <2>1, G \in Nat, T \in Nat, gl \in Int, ClearedLaid
<1>20. PICK g : g = Clear_Gap(g1) OBVIOUS
<1>21. /\ g \in Source_File_Records(e)
       /\ g.Source = v /\ g.File_Length = N /\ g.Gap_Start = T /\ g.Gap_Last = gl
       /\ g.Lines = li /\ g.Cache_Line = 1 /\ g.Cache_Pos = 0
  <2>1. Cleared(g1.Source, g1.Gap_Start, g1.Gap_Last) = v BY <1>17, <1>18
  <2>2. g1 \in Source_File_Records(e) /\ Cleared(g1.Source, g1.Gap_Start, g1.Gap_Last) \in Sources(e)
    BY <1>17, <1>19, <2>1
  <2> QED BY ONLY <1>17, <1>20, <2>1, <2>2, GapCleared
<1>22. Gap_Length(g) = G BY <1>8, <1>14, <1>21 DEF Gap_Length
<1>23. At(g, N) = N BY <1>14, <1>21 DEF At
<1>24. Gap_Placed(b, T) BY <1>5, <1>14 DEF Gap_Placed
<1>25. Holds(g, b, e) BY ONLY <1>5, <1>19, <1>21, <1>22, <1>23, <1>24, G \in Nat DEF Holds
<1>26. Filled(g, b, e, n) BY ONLY <1>5, <1>8, <1>13, <1>14, <1>21, <1>22, <1>25 DEF Filled
<1>27. Fill_Text(f, b) = g
  <2>1. Fill_Text(f, b) =
          Clear_Gap(Clear_Cache(Remade(f, Written(f.Source, 0, Ended(b)), Len(b), <<0>>, Len(b) + 2,
                                       Get_Buffer_Length(f) - 1)))
    BY DEF Fill_Text, Ended, Remade
  <2> QED BY ONLY <1>1, <1>4, <1>5, <1>9, <1>12, <1>16, <1>20, <2>1
<1> QED BY <1>4, <1>26, <1>27

-----------------------------------------------------------------------------
(* There is only one table of some lines.                                    *)
Same_Up_To(r, q, n) ==
  {k \in Nat : k <= n => \A i \in 1 .. k : r[i] = q[i]}

(* Two tables of the lines of a set that agree up to k agree on the next     *)
(* line.                                                                     *)
LEMMA RowsSameNext ==
  ASSUME NEW r, NEW q, NEW S, Rows(r, S), Rows(q, S), NEW k \in Nat,
         k + 1 <= Len(r), k + 1 <= Len(q), \A i \in 1 .. k : r[i] = q[i]
  PROVE  ~(r[k + 1] < q[k + 1])
<1> SUFFICES ASSUME r[k + 1] < q[k + 1] PROVE FALSE OBVIOUS
<1>1. PICK m \in Nat, n \in Nat : m = Len(r) /\ n = Len(q) BY DEF Rows
<1>2. PICK a \in Nat, c \in Nat : a = r[k + 1] /\ c = q[k + 1] /\ a \in S /\ a < c
  <2>1. r \in Seq(Nat) /\ q \in Seq(Nat) /\ k + 1 \in 1 .. m /\ k + 1 \in 1 .. n BY <1>1 DEF Rows
  <2>2. r[k + 1] \in Nat /\ q[k + 1] \in Nat BY <1>1, <2>1
  <2>3. r[k + 1] \in S BY <1>1, <2>1 DEF Rows
  <2> QED BY <2>2, <2>3
<1>3. PICK j \in 1 .. n : q[j] = a BY <1>1, <1>2 DEF Rows
<1>4. j <= k
  <2>1. CASE j = k + 1 BY <1>2, <1>3, <2>1
  <2>2. CASE j > k + 1
    <3>1. k + 1 \in 1 .. n BY <1>1
    <3>2. q[k + 1] < q[j] BY <1>1, <1>3, <2>2, <3>1 DEF Rows
    <3> QED BY <1>2, <1>3, <3>2
  <2> QED BY <2>1, <2>2
<1>5. j \in 1 .. k /\ j \in 1 .. m /\ k + 1 \in 1 .. m BY <1>1, <1>4
<1>6. r[j] = a BY <1>3, <1>5
<1>7. r[j] < r[k + 1] BY <1>1, <1>5 DEF Rows
<1> QED BY <1>2, <1>6, <1>7

(* So they agree as far as both go.                                          *)
LEMMA RowsSame ==
  ASSUME NEW r, NEW q, NEW S, Rows(r, S), Rows(q, S), NEW n \in Nat, n <= Len(r), n <= Len(q)
  PROVE  \A i \in 1 .. n : r[i] = q[i]
<1>1. PICK T : T = Same_Up_To(r, q, n) OBVIOUS
<1>2. T \subseteq Nat /\ 0 \in T BY <1>1 DEF Same_Up_To
<1>3. ASSUME NEW k \in T PROVE k + 1 \in T
  <2>1. k \in Nat /\ (k <= n => \A i \in 1 .. k : r[i] = q[i]) BY <1>1 DEF Same_Up_To
  <2>2. ASSUME k + 1 <= n PROVE \A i \in 1 .. k + 1 : r[i] = q[i]
    <3>1. \A i \in 1 .. k : r[i] = q[i] BY <2>1, <2>2
    <3>2. k + 1 <= Len(r) /\ k + 1 <= Len(q)
      <4>1. Len(r) \in Nat /\ Len(q) \in Nat BY DEF Rows
      <4> QED BY <2>1, <2>2, <4>1
    <3>3. ~(r[k + 1] < q[k + 1]) /\ ~(q[k + 1] < r[k + 1])
      <4>1. \A i \in 1 .. k : q[i] = r[i] BY <3>1
      <4> QED BY ONLY <2>1, <3>1, <3>2, <4>1, Rows(r, S), Rows(q, S), RowsSameNext
    <3>4. r[k + 1] \in Nat /\ q[k + 1] \in Nat
      <4>1. r \in Seq(Nat) /\ q \in Seq(Nat) BY DEF Rows
      <4> QED BY <2>1, <3>2, <4>1
    <3>5. r[k + 1] = q[k + 1]
      <4>1. PICK a \in Nat, c \in Nat : a = r[k + 1] /\ c = q[k + 1] BY <3>4
      <4> QED BY <3>3, <4>1
    <3> QED BY <2>1, <3>1, <3>5
  <2> QED BY <1>1, <2>1, <2>2 DEF Same_Up_To
<1>4. n \in T BY <1>2, <1>3, SetInduction
<1> QED BY <1>1, <1>4 DEF Same_Up_To

(* Neither is longer.                                                        *)
LEMMA RowsNoLonger ==
  ASSUME NEW r, NEW q, NEW S, Rows(r, S), Rows(q, S)
  PROVE  ~(Len(r) < Len(q))
<1> SUFFICES ASSUME Len(r) < Len(q) PROVE FALSE OBVIOUS
<1>1. PICK m \in Nat, n \in Nat : m = Len(r) /\ n = Len(q) BY DEF Rows
<1>2. \A i \in 1 .. m : r[i] = q[i]
  <2>1. m <= Len(r) /\ m <= Len(q) BY <1>1
  <2> QED BY <2>1, RowsSame
<1>3. m + 1 \in 1 .. n BY <1>1
<1>4. q[m + 1] \in S BY <1>1, <1>3 DEF Rows
<1>5. PICK j \in 1 .. m : r[j] = q[m + 1] BY <1>1, <1>4 DEF Rows
<1>6. j \in 1 .. n /\ j < m + 1 BY <1>1
<1>7. q[j] < q[m + 1] BY <1>1, <1>3, <1>6 DEF Rows
<1>8. q[j] = q[m + 1] BY <1>2, <1>5
<1>9. q[m + 1] \in Nat
  <2>1. q \in Seq(Nat) BY DEF Rows
  <2> QED BY <1>1, <1>3, <2>1
<1> QED BY <1>7, <1>8, <1>9

(* A set has one table of lines.                                             *)
LEMMA RowsUnique ==
  ASSUME NEW r, NEW q, NEW S, Rows(r, S), Rows(q, S)
  PROVE  r = q
<1>1. r \in Seq(Nat) /\ q \in Seq(Nat) BY DEF Rows
<1>2. PICK m \in Nat, n \in Nat : m = Len(r) /\ n = Len(q) BY <1>1
<1>3. ~(Len(r) < Len(q)) /\ ~(Len(q) < Len(r)) BY RowsNoLonger
<1>4. m = n BY <1>2, <1>3
<1>5. \A i \in 1 .. m : r[i] = q[i]
  <2>1. m <= Len(r) /\ m <= Len(q) BY <1>2, <1>4
  <2> QED BY <2>1, RowsSame
<1> QED BY <1>1, <1>2, <1>4, <1>5, SeqEqual

-----------------------------------------------------------------------------
(* The table of lines of a text that was filled.                             *)
With_Lines(g, li) == [g EXCEPT !.Lines = li]

(* The fields of a file with another table.                                  *)
LEMMA WithLinesFields ==
  ASSUME NEW e, NEW g \in Source_File_Records(e), NEW li \in Seq(Nat), NEW h, h = With_Lines(g, li)
  PROVE  /\ h \in Source_File_Records(e)
         /\ h.Source = g.Source /\ h.File_Length = g.File_Length /\ h.Gap_Start = g.Gap_Start
         /\ h.Gap_Last = g.Gap_Last /\ h.Lines = li
         /\ h.Cache_Line = g.Cache_Line /\ h.Cache_Pos = g.Cache_Pos
BY DEF With_Lines, Source_File_Records

(* A file that was filled mirrors its text once it has the table.            *)
LEMMA FilledMirrors ==
  ASSUME NEW e \in Newlines, NEW b \in Seq(Bytes_Of(e)), NEW g, NEW n, Filled(g, b, e, n),
         NEW r, Rows(r, Starts(b)), NEW li, li = Placed(g, r)
  PROVE  /\ Mirrors(With_Lines(g, li), b, r, e)
         /\ Gap_Length(With_Lines(g, li)) = n - (Len(b) + 2)
         /\ li \in Seq(Nat) /\ Len(li) = Len(r) /\ Len(r) \in Nat /\ Len(r) >= 1 /\ li[1] = 0
<1>1. /\ Holds(g, b, e) /\ Gap_Length(g) = n - (Len(b) + 2)
      /\ g.Cache_Line = 1 /\ g.Cache_Pos = 0
  BY DEF Filled
<1>2. g \in Source_File_Records(e) BY <1>1 DEF Holds
<1>3. g.Gap_Start \in Nat /\ g.Gap_Start >= 1 /\ Gap_Length(g) \in Nat BY <1>1, HoldsFields
<1>4. r \in Seq(Nat) /\ Len(r) \in Nat /\ Len(r) >= 1 /\ r[1] = 0 BY RowsOf
<1>5. li \in Seq(Nat) /\ Len(li) = Len(r) /\ \A k \in 1 .. Len(r) : li[k] = At(g, r[k])
  BY ONLY <1>3, <1>4, li = Placed(g, r), PlacedType
<1>6. li[1] = 0
  <2>1. li[1] = At(g, 0) BY <1>4, <1>5
  <2>2. 0 < g.Gap_Start BY <1>3
  <2> QED BY ONLY <2>1, <2>2 DEF At
<1>7. PICK h : h = With_Lines(g, li) OBVIOUS
<1>8. /\ h \in Source_File_Records(e)
      /\ h.Source = g.Source /\ h.File_Length = g.File_Length /\ h.Gap_Start = g.Gap_Start
      /\ h.Gap_Last = g.Gap_Last /\ h.Lines = li
      /\ h.Cache_Line = g.Cache_Line /\ h.Cache_Pos = g.Cache_Pos
  BY ONLY <1>2, <1>5, <1>7, WithLinesFields
<1>9. Gap_Length(h) = Gap_Length(g) BY ONLY <1>8 DEF Gap_Length
<1>10. \A q : At(h, q) = At(g, q) BY ONLY <1>8, <1>9 DEF At
<1>11. Holds(h, b, e) BY ONLY <1>1, <1>8, <1>9, <1>10 DEF Holds
<1>12. h.Lines = Placed(h, r) BY ONLY <1>8, <1>10, li = Placed(g, r) DEF Placed
<1>13. h.Cache_Line \in 1 .. Len(h.Lines) /\ h.Cache_Pos = h.Lines[h.Cache_Line]
  BY ONLY <1>1, <1>4, <1>5, <1>6, <1>8
<1>14. Mirrors(h, b, r, e) BY ONLY <1>11, <1>12, <1>13, Rows(r, Starts(b)) DEF Mirrors
<1> QED BY ONLY <1>1, <1>4, <1>5, <1>6, <1>7, <1>9, <1>14

(* The scan of a text that was filled finds its lines.                       *)
LEMMA FilledScanned ==
  ASSUME NEW e \in Newlines, NEW b \in Seq(Bytes_Of(e)), Clean(b, e), NEW g, Holds(g, b, e)
  PROVE  \E r : Rows(r, Starts(b)) /\ Compute_Lines(g) = Placed(g, r)
<1>1. Reads(g, b, e) BY HoldsReads
<1> QED BY <1>1, ComputeLinesAre

(* A file that cannot be copied has an empty gap in front of the EOT.        *)
LEMMA CopyFailsIf ==
  ASSUME NEW e \in Newlines, NEW b \in Seq(Bytes_Of(e)), NEW f, Holds(f, b, e), Copy_Fails(f)
  PROVE  Gap_Length(f) = 0 /\ f.Gap_Start = f.File_Length
<1>1. PICK T \in Nat, G \in Nat, N \in Nat : T = f.Gap_Start /\ G = Gap_Length(f) /\ N = Len(b)
  BY HoldsFields
<1>2. PICK fl : fl = f.File_Length OBVIOUS
<1>3. (T > N /\ T = N + 2 /\ fl = N) \/ (T <= N /\ fl = N + G)
  <2>1. Fields(b, T, G, f.Gap_Last, fl) BY <1>1, <1>2, FieldsOf
  <2> QED BY ONLY <1>1, <2>1 DEF Fields
<1>4. PICK n : n = Get_Content_Length(f) OBVIOUS
<1>5. n = IF T >= fl THEN fl ELSE fl - G BY ONLY <1>1, <1>2, <1>4 DEF Get_Content_Length
<1>6. T >= fl /\ T # n + 2 BY ONLY <1>1, <1>2, <1>4, Copy_Fails(f) DEF Copy_Fails
<1>7. G = 0 /\ T = fl BY ONLY <1>3, <1>5, <1>6, N \in Nat, T \in Nat, G \in Nat
<1> QED BY ONLY <1>1, <1>2, <1>7

(* The copy of a file has the same text, its lines, and the gap at the end.  *)
Room(g, b, n) == Gap_Length(g) = n - (Len(b) + 2)

(* A copy mirrors the text of the original.                                  *)
LEMMA CopyMirrors ==
  ASSUME NEW e \in Newlines, NEW b \in Seq(Bytes_Of(e)), Clean(b, e), NEW f, Holds(f, b, e),
         NEW dest \in Source_File_Records(e), Fills(dest, b)
  PROVE  LET g == Copy_Source_File(dest, f)
         IN (\E r : Mirrors(g, b, r, e)) /\ Room(g, b, Get_Buffer_Length(dest))
<1>1. Content(f) = b BY ContentIs
<1>2. PICK g, n : g = Fill_Text(dest, b) /\ n = Get_Buffer_Length(dest) OBVIOUS
<1>3. Filled(g, b, e, n)
  BY ONLY <1>2, e \in Newlines, b \in Seq(Bytes_Of(e)), dest \in Source_File_Records(e), Fills(dest, b),
          FillTextHolds
<1>4. Holds(g, b, e) BY <1>3 DEF Filled
<1>5. PICK r : Rows(r, Starts(b)) /\ Compute_Lines(g) = Placed(g, r)
  BY ONLY <1>4, e \in Newlines, b \in Seq(Bytes_Of(e)), Clean(b, e), FilledScanned
<1>6. PICK li : li = Compute_Lines(g) OBVIOUS
<1>7. Mirrors(With_Lines(g, li), b, r, e) /\ Gap_Length(With_Lines(g, li)) = n - (Len(b) + 2)
  <2>1. li = Placed(g, r) /\ Rows(r, Starts(b)) BY <1>5, <1>6
  <2> QED BY ONLY <1>3, <2>1, e \in Newlines, b \in Seq(Bytes_Of(e)), FilledMirrors
<1>8. Copy_Source_File(dest, f) = With_Lines(g, li)
  BY ONLY <1>1, <1>2, <1>6 DEF Copy_Source_File, With_Lines
<1> QED BY ONLY <1>2, <1>7, <1>8 DEF Room

(* An extended buffer has room for a new text.                               *)
LEMMA ExtendedMirrors ==
  ASSUME NEW e \in Newlines, NEW b \in Seq(Bytes_Of(e)), Clean(b, e), NEW f, Holds(f, b, e),
         NEW l \in Nat, NEW gap \in Nat, gap >= 2
  PROVE  LET g == Extended(f, l, gap)
         IN (\E r : Mirrors(g, b, r, e)) /\ Gap_Length(g) \in Nat /\ Gap_Length(g) >= l
<1>1. PICK N \in Nat, fl \in Nat : N = Len(b) /\ fl = f.File_Length /\ N <= fl
  <2>1. PICK G \in Nat, T \in Nat : G = Gap_Length(f) /\ T = f.Gap_Start BY HoldsFields
  <2>2. PICK N \in Nat : N = Len(b) OBVIOUS
  <2>3. Fields(b, T, G, f.Gap_Last, f.File_Length) BY <2>1, FieldsOf
  <2>4. f.File_Length = N \/ f.File_Length = N + G BY ONLY <2>2, <2>3 DEF Fields
  <2> QED BY ONLY <2>2, <2>4, N \in Nat, G \in Nat
<1>2. PICK n \in Nat : n = fl + l + gap OBVIOUS
<1>3. PICK dest : dest = Reserve_Source_File(n) OBVIOUS
<1>4. dest \in Source_File_Records(e) /\ Get_Buffer_Length(dest) = n BY ONLY <1>3, n \in Nat, Reserved
<1>5. N + 2 <= n /\ n - (N + 2) \in Nat /\ n - (N + 2) >= l
  <2>1. N <= fl /\ n = fl + l + gap BY <1>1, <1>2
  <2> QED BY ONLY <2>1, N \in Nat, fl \in Nat, l \in Nat, gap \in Nat, gap >= 2
<1>6. Fills(dest, b) BY ONLY <1>1, <1>4, <1>5 DEF Fills
<1>7. PICK g : g = Copy_Source_File(dest, f) OBVIOUS
<1>8. (\E r : Mirrors(g, b, r, e)) /\ Room(g, b, n)
  <2>1. dest \in Source_File_Records(e) BY <1>4
  <2>2. (\E r : Mirrors(Copy_Source_File(dest, f), b, r, e))
        /\ Room(Copy_Source_File(dest, f), b, Get_Buffer_Length(dest))
    BY ONLY <1>6, <2>1, e \in Newlines, b \in Seq(Bytes_Of(e)), Clean(b, e), Holds(f, b, e), CopyMirrors
  <2> QED BY ONLY <1>4, <1>7, <2>2
<1>9. Extended(f, l, gap) = g BY ONLY <1>1, <1>2, <1>3, <1>7 DEF Extended
<1> QED BY ONLY <1>1, <1>5, <1>8, <1>9 DEF Room
-----------------------------------------------------------------------------
(* The file after it was analyzed.                                           *)
LEMMA LintedFilled ==
  ASSUME NEW e \in Newlines, NEW b \in Seq(Bytes_Of(e)), Clean(b, e), NEW g, NEW n, Filled(g, b, e, n)
  PROVE  (\E r : Mirrors(Linted(g), b, r, e)) /\ Lint_OK(g)
<1>1. Holds(g, b, e) /\ g.Lines = <<0>> BY DEF Filled
<1>2. PICK r : Rows(r, Starts(b)) /\ Compute_Lines(g) = Placed(g, r) BY <1>1, FilledScanned
<1>3. PICK li : li = Compute_Lines(g) /\ li = Placed(g, r) BY <1>2
<1>4. /\ Mirrors(With_Lines(g, li), b, r, e)
      /\ li \in Seq(Nat) /\ Len(li) = Len(r) /\ Len(r) \in Nat /\ Len(r) >= 1 /\ li[1] = 0
  BY ONLY <1>2, <1>3, Filled(g, b, e, n), e \in Newlines, b \in Seq(Bytes_Of(e)), FilledMirrors
<1>5. (IF Len(li) > Len(g.Lines) THEN li ELSE g.Lines) = li
  <2>1. CASE Len(li) > 1 BY <1>1, <2>1
  <2>2. CASE Len(li) = 1
    <3>1. li = <<0>> BY <1>4, <2>2
    <3> QED BY <1>1, <3>1
  <2> QED BY <1>4, <2>1, <2>2
<1>6. Linted(g) = With_Lines(g, li) BY ONLY <1>3, <1>5 DEF Linted, With_Lines
<1>7. Lint_OK(g)
  <2>1. \A L \in DOMAIN li \cap DOMAIN g.Lines : li[L] = g.Lines[L]
    <3>1. DOMAIN g.Lines = {1} /\ g.Lines[1] = 0 BY ONLY <1>1
    <3> QED BY ONLY <1>4, <3>1
  <2> QED BY ONLY <1>3, <2>1 DEF Lint_OK
<1> QED BY <1>4, <1>6, <1>7

(* The scanner finds no other line in a file that mirrors its text.          *)
LEMMA LintedMirrors ==
  ASSUME NEW e \in Newlines, NEW b \in Seq(Bytes_Of(e)), Clean(b, e), NEW g, NEW r, Mirrors(g, b, r, e)
  PROVE  Linted(g) = g /\ Lint_OK(g)
<1>1. Holds(g, b, e) /\ Rows(r, Starts(b)) /\ g.Lines = Placed(g, r) BY DEF Mirrors
<1>2. PICK q : Rows(q, Starts(b)) /\ Compute_Lines(g) = Placed(g, q) BY <1>1, FilledScanned
<1>3. q = r BY <1>1, <1>2, RowsUnique
<1>4. PICK li : li = Compute_Lines(g) /\ li = g.Lines BY <1>1, <1>2, <1>3
<1>5. Lint_OK(g) BY ONLY <1>4 DEF Lint_OK
<1>6. g \in Source_File_Records(e) BY <1>1 DEF Holds
<1>7. Linted(g) = With_Lines(g, li) BY ONLY <1>4 DEF Linted, With_Lines
<1>8. With_Lines(g, li) = g BY ONLY <1>4, <1>6 DEF With_Lines, Source_File_Records
<1> QED BY <1>5, <1>7, <1>8

-----------------------------------------------------------------------------
(* The search of a line.                                                     *)
Ascending(li) ==
  /\ li \in Seq(Nat) /\ \A i, j \in 1 .. Len(li) : i < j => li[i] < li[j]

(* A position is before the M-th line exactly if its line is before M.       *)
LEMMA LineCompared ==
  ASSUME NEW li, Ascending(li), NEW A \in 1 .. Len(li), NEW pos \in Nat, On_Line(li, A, pos),
         NEW M \in 1 .. Len(li)
  PROVE  (pos < li[M] <=> A < M) /\ (pos = li[M] => A = M)
<1>1. PICK n \in Nat : n = Len(li) BY DEF Ascending
<1>2. PICK a \in Nat, c \in Nat : a = li[A] /\ c = li[M] BY DEF Ascending
<1>3. a <= pos BY <1>2 DEF On_Line
<1>4. CASE A < M
  <2>1. A + 1 \in 1 .. n /\ A < n BY <1>1, <1>4
  <2>2. PICK k \in Nat : k = li[A + 1] BY <1>1, <2>1 DEF Ascending
  <2>3. pos < k BY <1>1, <2>1, <2>2 DEF On_Line
  <2>4. k <= c
    <3>1. CASE A + 1 = M BY <1>2, <2>2, <3>1
    <3>2. CASE A + 1 < M
      <4>1. li[A + 1] < li[M] BY <1>1, <2>1, <3>2 DEF Ascending
      <4> QED BY <1>2, <2>2, <4>1
    <3> QED BY <1>4, <3>1, <3>2
  <2> QED BY <1>2, <1>4, <2>3, <2>4
<1>5. CASE A = M BY <1>2, <1>3, <1>5
<1>6. CASE A > M
  <2>1. c < a BY <1>2, <1>6 DEF Ascending
  <2> QED BY <1>2, <1>3, <1>6, <2>1
<1> QED BY <1>4, <1>5, <1>6

(* The body of the recursive function of Location_To_Line.                   *)
Search_Body(f, pos, h, Low, Hi) ==
  LET Mid == (Hi + Low) \div 2
  IN IF Hi < Low THEN 0
     ELSE IF pos < f.Lines[Mid] THEN IF Mid = Low THEN 0 ELSE h[<<Low, Mid - 1>>]
     ELSE IF Mid = Len(f.Lines) THEN Mid
     ELSE IF pos < f.Lines[Mid + 1] \/ pos = f.Lines[Mid] THEN Mid
     ELSE IF Mid + 1 > Hi THEN 0
     ELSE h[<<Mid + 1, Hi>>]

(* The line, if it is in the range of the search.                            *)
Within_Lines(A, Low, Hi) == IF Low <= A /\ A <= Hi THEN A ELSE 0

(* The search finds A in each range shorter than d.                          *)
Searched(h, A, n, d) ==
  \A Low \in 1 .. n : \A Hi \in 0 .. n : Hi - Low < d => h[<<Low, Hi>>] = Within_Lines(A, Low, Hi)

(* A step of the search: the range is halved around the line.                *)
LEMMA SearchStep ==
  ASSUME NEW f, NEW li, li = f.Lines, Ascending(li), NEW n \in Nat, n = Len(li),
         NEW A \in 1 .. n, NEW pos \in Nat, On_Line(li, A, pos), NEW h,
         NEW Low \in 1 .. n, NEW Hi \in 0 .. n, Searched(h, A, n, Hi - Low)
  PROVE  Search_Body(f, pos, h, Low, Hi) = Within_Lines(A, Low, Hi)
<1>1. CASE Hi < Low BY <1>1 DEF Search_Body, Within_Lines
<1>2. CASE Low <= Hi
  <2>1. PICK M \in 1 .. n : M = (Hi + Low) \div 2 /\ Low <= M /\ M <= Hi
    <3>1. Low <= (Hi + Low) \div 2 /\ (Hi + Low) \div 2 <= Hi /\ (Hi + Low) \div 2 \in 1 .. n
      BY ONLY <1>2, n \in Nat, Low \in 1 .. n, Hi \in 0 .. n
    <3> QED BY ONLY <3>1
  <2>2. (pos < li[M] <=> A < M) /\ (pos = li[M] => A = M)
    <3>1. M \in 1 .. Len(li) /\ A \in 1 .. Len(li) BY <2>1
    <3> QED BY ONLY <3>1, Ascending(li), pos \in Nat, On_Line(li, A, pos), LineCompared
  <2>3. M # n => (pos < li[M + 1] <=> A < M + 1)
    <3> SUFFICES ASSUME M # n PROVE pos < li[M + 1] <=> A < M + 1 OBVIOUS
    <3>1. M + 1 \in 1 .. Len(li) BY <2>1
    <3> QED BY <3>1, LineCompared
  <2>4. M # Low => h[<<Low, M - 1>>] = Within_Lines(A, Low, M - 1)
    <3> SUFFICES ASSUME M # Low PROVE h[<<Low, M - 1>>] = Within_Lines(A, Low, M - 1) OBVIOUS
    <3>1. M - 1 \in 0 .. n /\ (M - 1) - Low < Hi - Low BY <2>1
    <3> QED BY ONLY <3>1, Low \in 1 .. n, Searched(h, A, n, Hi - Low) DEF Searched
  <2>5. M + 1 <= Hi => h[<<M + 1, Hi>>] = Within_Lines(A, M + 1, Hi)
    <3> SUFFICES ASSUME M + 1 <= Hi PROVE h[<<M + 1, Hi>>] = Within_Lines(A, M + 1, Hi) OBVIOUS
    <3>1. M + 1 \in 1 .. n /\ Hi - (M + 1) < Hi - Low
      BY ONLY <2>1, M + 1 <= Hi, M \in 1 .. n, n \in Nat, Low \in 1 .. n, Hi \in 0 .. n
    <3> QED BY ONLY <3>1, Hi \in 0 .. n, Searched(h, A, n, Hi - Low) DEF Searched
  <2>6. Search_Body(f, pos, h, Low, Hi) =
          IF pos < li[M] THEN IF M = Low THEN 0 ELSE h[<<Low, M - 1>>]
          ELSE IF M = n THEN M
          ELSE IF pos < li[M + 1] \/ pos = li[M] THEN M
          ELSE IF M + 1 > Hi THEN 0
          ELSE h[<<M + 1, Hi>>]
    <3>1. ~(Hi < Low) BY <1>2
    <3> QED BY ONLY <2>1, <3>1, li = f.Lines, n = Len(li) DEF Search_Body
  <2> DEFINE B == Search_Body(f, pos, h, Low, Hi)
             W(i, j) == Within_Lines(A, i, j)
  <2>8. CASE A < M
    <3>1. CASE M = Low
      <4>1. B = 0 BY ONLY <2>2, <2>6, <2>8, <3>1
      <4> QED BY ONLY <2>8, <3>1, <4>1, A \in 1 .. n, Low \in 1 .. n DEF Within_Lines
    <3>2. CASE M # Low
      <4>1. B = W(Low, M - 1) BY ONLY <2>2, <2>4, <2>6, <2>8, <3>2
      <4> QED BY ONLY <2>1, <2>8, <4>1, A \in 1 .. n, Low \in 1 .. n, Hi \in 0 .. n, M \in 1 .. n DEF Within_Lines
    <3> QED BY <3>1, <3>2
  <2>9. CASE A = M
    <3>1. B = M
      <4>1. ~(pos < li[M]) BY ONLY <2>2, <2>9, A \in 1 .. n
      <4>2. M # n => pos < li[M + 1] BY ONLY <2>3, <2>9, A \in 1 .. n
      <4> QED BY ONLY <2>6, <4>1, <4>2
    <3> QED BY ONLY <2>1, <2>9, <3>1, A \in 1 .. n, Low \in 1 .. n, Hi \in 0 .. n DEF Within_Lines
  <2>10. CASE A > M
    <3>1. ~(pos < li[M]) /\ pos # li[M] /\ M # n /\ ~(pos < li[M + 1])
      BY ONLY <2>2, <2>3, <2>10, A \in 1 .. n, M \in 1 .. n
    <3>2. B = IF M + 1 > Hi THEN 0 ELSE h[<<M + 1, Hi>>] BY ONLY <2>6, <3>1
    <3>3. CASE M + 1 > Hi BY ONLY <2>1, <2>10, <3>2, <3>3, A \in 1 .. n, Hi \in 0 .. n, M \in 1 .. n DEF Within_Lines
    <3>4. CASE M + 1 <= Hi
      <4>1. B = W(M + 1, Hi) BY ONLY <2>5, <3>2, <3>4, Hi \in 0 .. n, M \in 1 .. n
      <4> QED BY ONLY <2>1, <2>10, <4>1, A \in 1 .. n, Low \in 1 .. n, Hi \in 0 .. n, M \in 1 .. n DEF Within_Lines
    <3> QED BY <3>3, <3>4
  <2> QED BY <2>8, <2>9, <2>10
<1> QED BY <1>1, <1>2

(* The function that Location_To_Line chooses exists, and there is only one. *)
Searches(f, pos, h) ==
  h = [b \in (1 .. Len(f.Lines)) \X (0 .. Len(f.Lines)) |-> Search_Body(f, pos, h, b[1], b[2])]

(* The parts of a pair.                                                      *)
LEMMA PairParts == \A x, y : <<x, y>>[1] = x /\ <<x, y>>[2] = y
OBVIOUS

(* The function that Location_To_Line chooses exists: the line is found in   *)
(* each range.                                                               *)
LEMMA SearchesExists ==
  ASSUME NEW f, NEW li, li = f.Lines, Ascending(li), NEW n \in Nat, n = Len(li),
         NEW A \in 1 .. n, NEW pos \in Nat, On_Line(li, A, pos)
  PROVE  \E h : Searches(f, pos, h)
<1>1. PICK D : D = (1 .. n) \X (0 .. n) OBVIOUS
<1>2. PICK h : h = [b \in D |-> Within_Lines(A, b[1], b[2])] OBVIOUS
<1>3. ASSUME NEW Low \in 1 .. n, NEW Hi \in 0 .. n PROVE h[<<Low, Hi>>] = Within_Lines(A, Low, Hi)
  <2>1. PICK b : b = <<Low, Hi>> /\ b[1] = Low /\ b[2] = Hi BY ONLY PairParts
  <2>2. b \in D BY ONLY <1>1, <1>3, <2>1
  <2>3. h[b] = Within_Lines(A, b[1], b[2]) BY ONLY <1>2, <2>2
  <2> QED BY ONLY <2>1, <2>3
<1>4. ASSUME NEW b \in D PROVE h[b] = Search_Body(f, pos, h, b[1], b[2])
  <2>1. PICK Low \in 1 .. n, Hi \in 0 .. n : Low = b[1] /\ Hi = b[2] BY ONLY <1>1, <1>4
  <2>2. Searched(h, A, n, Hi - Low) BY ONLY <1>3 DEF Searched
  <2>3. Search_Body(f, pos, h, Low, Hi) = Within_Lines(A, Low, Hi)
    BY ONLY <2>2, li = f.Lines, Ascending(li), n \in Nat, n = Len(li), A \in 1 .. n, pos \in Nat,
            On_Line(li, A, pos), Low \in 1 .. n, Hi \in 0 .. n, SearchStep
  <2>4. h[b] = Within_Lines(A, b[1], b[2]) BY ONLY <1>2, <1>4
  <2> QED BY ONLY <2>1, <2>3, <2>4
<1>5. h = [b \in D |-> Search_Body(f, pos, h, b[1], b[2])]
  <2>1. h = [b \in D |-> h[b]] BY ONLY <1>2
  <2> QED BY ONLY <1>4, <2>1
<1>6. Searches(f, pos, h) BY ONLY <1>1, <1>5, li = f.Lines, n = Len(li) DEF Searches
<1> QED BY <1>6

(* Such a function finds the line in a range if it does in shorter ones.     *)
LEMMA SearchesOnce ==
  ASSUME NEW f, NEW li, li = f.Lines, Ascending(li), NEW n \in Nat, n = Len(li),
         NEW A \in 1 .. n, NEW pos \in Nat, On_Line(li, A, pos), NEW h, Searches(f, pos, h),
         NEW Low \in 1 .. n, NEW Hi \in 0 .. n, Searched(h, A, n, Hi - Low)
  PROVE  h[<<Low, Hi>>] = Within_Lines(A, Low, Hi)
<1>1. PICK D : D = (1 .. n) \X (0 .. n) OBVIOUS
<1>2. h = [b \in D |-> Search_Body(f, pos, h, b[1], b[2])]
  BY ONLY <1>1, li = f.Lines, n = Len(li), Searches(f, pos, h) DEF Searches
<1>3. PICK b : b = <<Low, Hi>> /\ b[1] = Low /\ b[2] = Hi BY ONLY PairParts
<1>4. b \in D BY ONLY <1>1, <1>3, Low \in 1 .. n, Hi \in 0 .. n
<1>5. h[b] = Search_Body(f, pos, h, b[1], b[2]) BY ONLY <1>2, <1>4
<1>6. Search_Body(f, pos, h, Low, Hi) = Within_Lines(A, Low, Hi) BY SearchStep
<1> QED BY ONLY <1>3, <1>5, <1>6

(* So it does in each range.                                                 *)
LEMMA SearchesUnique ==
  ASSUME NEW f, NEW li, li = f.Lines, Ascending(li), NEW n \in Nat, n = Len(li),
         NEW A \in 1 .. n, NEW pos \in Nat, On_Line(li, A, pos), NEW h, Searches(f, pos, h),
         NEW k \in Nat
  PROVE  Searched(h, A, n, k)
<1> DEFINE T == {d \in Nat : Searched(h, A, n, d - n)}
<1>4. 0 \in T
  <2>1. ASSUME NEW Low \in 1 .. n, NEW Hi \in 0 .. n, Hi - Low < 0 - n PROVE FALSE
    BY ONLY <2>1, n \in Nat
  <2>2. Searched(h, A, n, 0 - n) BY ONLY <2>1 DEF Searched
  <2> QED BY <2>2
<1>5. ASSUME NEW d \in T PROVE d + 1 \in T
  <2>1. d \in Nat /\ Searched(h, A, n, d - n) BY <1>5
  <2>2. ASSUME NEW Low \in 1 .. n, NEW Hi \in 0 .. n, Hi - Low < (d + 1) - n
        PROVE  h[<<Low, Hi>>] = Within_Lines(A, Low, Hi)
    <3>1. Hi - Low <= d - n BY ONLY <2>1, <2>2, n \in Nat
    <3>2. ASSUME NEW i \in 1 .. n, NEW j \in 0 .. n, j - i < Hi - Low
          PROVE  h[<<i, j>>] = Within_Lines(A, i, j)
      <4>1. j - i < d - n BY ONLY <2>1, <2>2, <3>1, <3>2, n \in Nat
      <4> QED BY ONLY <2>1, <3>2, <4>1 DEF Searched
    <3>3. Searched(h, A, n, Hi - Low) BY ONLY <3>2 DEF Searched
    <3> QED BY <3>3, SearchesOnce
  <2>3. Searched(h, A, n, (d + 1) - n) BY ONLY <2>2 DEF Searched
  <2>4. PICK m \in Nat : m = d + 1 BY ONLY <2>1
  <2>5. Searched(h, A, n, m - n) BY ONLY <2>3, <2>4
  <2>6. m \in T BY ONLY <2>5, m \in Nat DEF T
  <2> QED BY ONLY <2>4, <2>6
<1> HIDE DEF T
<1>6. Nat \subseteq T BY <1>4, <1>5, SetInduction DEF T
<1>7. n + k \in T BY <1>6
<1>8. Searched(h, A, n, (n + k) - n) BY <1>7 DEF T
<1>9. (n + k) - n = k OBVIOUS
<1> QED BY <1>8, <1>9

(* Location_To_Line starts at the cached line.                               *)
LEMMA LocationToLineChoice ==
  ASSUME NEW f, NEW pos, \E h : Searches(f, pos, h), ~(f.Cache_Line > Len(f.Lines))
  PROVE  \E h : /\ Searches(f, pos, h)
                /\ Location_To_Line(f, pos) =
                     IF pos >= f.Cache_Pos THEN h[<<f.Cache_Line, Len(f.Lines)>>]
                     ELSE h[<<1, f.Cache_Line>>]
<1> DEFINE h == CHOOSE h : Searches(f, pos, h)
<1>1. Location_To_Line(f, pos) =
        IF pos >= f.Cache_Pos THEN h[<<f.Cache_Line, Len(f.Lines)>>] ELSE h[<<1, f.Cache_Line>>]
  BY DEF Location_To_Line, Searches, Search_Body
<1>2. Searches(f, pos, h) OBVIOUS
<1> HIDE DEF h
<1> QED BY <1>1, <1>2

-----------------------------------------------------------------------------
(* The line of a position.                                                   *)
Cached(f, li) == f.Lines = li /\ f.Cache_Line \in 1 .. Len(li) /\ f.Cache_Pos = li[f.Cache_Line]

(* The search finds the line of a position, whatever line is cached.         *)
LEMMA LocationToLineIs ==
  ASSUME NEW f, NEW li, Cached(f, li), Ascending(li), NEW A \in 1 .. Len(li), NEW pos \in Nat,
         On_Line(li, A, pos)
  PROVE  Location_To_Line(f, pos) = A
<1>1. PICK n \in Nat : n = Len(li) BY DEF Ascending
<1>2. li = f.Lines /\ A \in 1 .. n BY <1>1 DEF Cached
<1>3. \E h : Searches(f, pos, h)
  BY ONLY <1>1, <1>2, Ascending(li), pos \in Nat, n \in Nat, On_Line(li, A, pos), SearchesExists
<1>4. PICK h : /\ Searches(f, pos, h)
               /\ Location_To_Line(f, pos) =
                    IF pos >= f.Cache_Pos THEN h[<<f.Cache_Line, Len(f.Lines)>>]
                    ELSE h[<<1, f.Cache_Line>>]
  <2>1. PICK c \in 1 .. n : c = f.Cache_Line BY <1>1 DEF Cached
  <2>2. ~(c > n) BY ONLY c \in 1 .. n, n \in Nat
  <2>3. ~(f.Cache_Line > Len(f.Lines)) BY ONLY <1>1, <1>2, <2>1, <2>2
  <2> QED BY ONLY <1>3, <2>3, LocationToLineChoice
<1>40. PICK p : p = f.Cache_Pos OBVIOUS
<1>5. PICK c \in 1 .. n : c = f.Cache_Line /\ p = f.Cache_Pos /\ p = li[c] BY <1>1, <1>40 DEF Cached
<1>6. Location_To_Line(f, pos) = IF pos >= p THEN h[<<c, n>>] ELSE h[<<1, c>>]
  BY ONLY <1>1, <1>2, <1>4, <1>5
<1>7. p \in Nat BY <1>1, <1>5 DEF Ascending
<1>8. pos < p <=> A < c
  <2>1. c \in 1 .. Len(li) BY <1>1
  <2> QED BY ONLY <1>5, <2>1, Ascending(li), A \in 1 .. Len(li), pos \in Nat, On_Line(li, A, pos), LineCompared
<1>9. Searched(h, A, n, n + 1)
  <2>1. n + 1 \in Nat /\ Searches(f, pos, h) BY <1>4
  <2> QED BY ONLY <1>1, <1>2, <2>1, Ascending(li), pos \in Nat, n \in Nat, On_Line(li, A, pos), SearchesUnique
<1>10. ASSUME NEW i \in 1 .. n, NEW j \in 0 .. n PROVE h[<<i, j>>] = Within_Lines(A, i, j)
  <2>1. j - i < n + 1 BY ONLY <1>10, n \in Nat
  <2> QED BY ONLY <1>9, <1>10, <2>1 DEF Searched
<1>11. CASE pos >= p
  <2>1. h[<<c, n>>] = Within_Lines(A, c, n)
    <3>1. n \in 0 .. n BY ONLY n \in Nat
    <3> QED BY ONLY <1>10, <3>1, c \in 1 .. n
  <2>2. c <= A /\ A <= n BY ONLY <1>2, <1>7, <1>8, <1>11, n \in Nat, c \in 1 .. n, pos \in Nat
  <2> QED BY ONLY <1>6, <1>11, <2>1, <2>2 DEF Within_Lines
<1>12. CASE ~(pos >= p)
  <2>1. h[<<1, c>>] = Within_Lines(A, 1, c)
    <3>1. c \in 0 .. n /\ 1 \in 1 .. n BY ONLY n \in Nat, c \in 1 .. n
    <3> QED BY ONLY <1>10, <3>1
  <2>2. 1 <= A /\ A <= c BY ONLY <1>2, <1>7, <1>8, <1>12, n \in Nat, c \in 1 .. n, pos \in Nat
  <2> QED BY ONLY <1>6, <1>12, <2>1, <2>2 DEF Within_Lines
<1> QED BY <1>11, <1>12

(* Which of the four lines after the cached one begin after the position.    *)
Next_Lines(f, pos) ==
  {i \in 1 .. 4 : f.Cache_Line + 4 <= Len(f.Lines) /\ f.Lines[f.Cache_Line + i] > pos}

(* Located_Line is the line of a position, whatever line is cached.          *)
LEMMA LocatedLineIs ==
  ASSUME NEW f, NEW li, Cached(f, li), Ascending(li), NEW A \in 1 .. Len(li), NEW pos \in Nat,
         On_Line(li, A, pos)
  PROVE  Located_Line(f, pos) = A
<1>1. PICK n \in Nat : n = Len(li) BY DEF Ascending
<1>2. PICK S : S = Next_Lines(f, pos) OBVIOUS
<1>3. Located_Line(f, pos) = IF pos >= f.Cache_Pos /\ S # {} THEN f.Cache_Line + Min(S) - 1
                             ELSE Location_To_Line(f, pos)
  BY ONLY <1>2 DEF Located_Line, Next_Lines
<1>40. PICK p : p = f.Cache_Pos OBVIOUS
<1>4. PICK c \in 1 .. n : c = f.Cache_Line /\ p = f.Cache_Pos /\ p = li[c] BY <1>1, <1>40 DEF Cached
<1>5. p \in Nat BY <1>1, <1>4 DEF Ascending
<1>6. CASE ~(pos >= f.Cache_Pos /\ S # {}) BY <1>3, <1>6, LocationToLineIs
<1>7. CASE pos >= f.Cache_Pos /\ S # {}
  <2>1. pos < p <=> A < c
    <3>1. c \in 1 .. Len(li) BY <1>1
    <3> QED BY ONLY <1>4, <3>1, Ascending(li), A \in 1 .. Len(li), pos \in Nat, On_Line(li, A, pos), LineCompared
  <2>2. c <= A
    <3>1. pos >= p BY <1>4, <1>7
    <3> QED BY ONLY <1>1, <1>5, <2>1, <3>1, n \in Nat, c \in 1 .. n, pos \in Nat, A \in 1 .. Len(li)
  <2>3. S = {i \in 1 .. 4 : c + 4 <= n /\ li[c + i] > pos}
    BY ONLY <1>1, <1>2, <1>4, Cached(f, li) DEF Next_Lines, Cached
  <2>4. c + 4 <= n BY ONLY <1>7, <2>3
  <2>5. ASSUME NEW i \in 1 .. 4 PROVE i \in S <=> A < c + i
    <3>1. c + i \in 1 .. Len(li) BY ONLY <1>1, <2>4, n \in Nat, c \in 1 .. n, i \in 1 .. 4
    <3>2. pos < li[c + i] <=> A < c + i
      BY ONLY <3>1, Ascending(li), A \in 1 .. Len(li), pos \in Nat, On_Line(li, A, pos), LineCompared
    <3>3. PICK a \in Nat : a = li[c + i] BY ONLY <3>1, Ascending(li) DEF Ascending
    <3>4. a > pos <=> pos < a BY ONLY a \in Nat, pos \in Nat
    <3> QED BY ONLY <2>3, <2>4, <2>5, <3>2, <3>3, <3>4
  <2>6. PICK j \in 1 .. 4 : j \in S BY ONLY <1>7, <2>3
  <2>7. PICK m \in Nat : m = A + 1 - c
    BY ONLY <1>1, <2>2, n \in Nat, c \in 1 .. n, A \in 1 .. Len(li)
  <2>8. m \in 1 .. 4 /\ A < c + m
    <3>1. A < c + j BY <2>5, <2>6
    <3> QED BY ONLY <1>1, <2>2, <2>7, <3>1, n \in Nat, c \in 1 .. n, A \in 1 .. Len(li), j \in 1 .. 4
  <2>9. m \in S BY ONLY <2>5, <2>8
  <2>10. ASSUME NEW y \in S PROVE m <= y
    <3>1. y \in 1 .. 4 BY ONLY <2>3, <2>10
    <3>2. A < c + y BY ONLY <2>5, <2>10, <3>1
    <3> QED BY ONLY <1>1, <2>7, <3>1, <3>2, n \in Nat, c \in 1 .. n, A \in 1 .. Len(li)
  <2>11. S \in SUBSET Nat BY ONLY <2>3
  <2>12. Min(S) = m BY ONLY <2>9, <2>10, <2>11, MinIs
  <2>13. Located_Line(f, pos) = c + m - 1 BY ONLY <1>3, <1>4, <1>7, <2>12
  <2> QED BY ONLY <1>1, <2>7, <2>13, n \in Nat, c \in 1 .. n, A \in 1 .. Len(li)
<1> QED BY <1>6, <1>7

-----------------------------------------------------------------------------
(* A change of the text of the client is a replacement of bytes.             *)
LEMMA BytesUpTo ==
  ASSUME NEW e \in Newlines, NEW text \in Seq(Chars), NEW j \in 0 .. Len(text), NEW i \in 0 .. j
  PROVE  Byte_At(text, i, e) \in Nat /\ Byte_At(text, j, e) \in Nat
         /\ Byte_At(text, i, e) <= Byte_At(text, j, e)
<1>1. PICK n \in Nat : n = Len(text) OBVIOUS
<1>2. j \in Nat /\ i \in Nat /\ i <= j /\ j <= n BY <1>1
<1>3. PICK p : p = SubSeq(text, 1, j) OBVIOUS
<1>4. p \in Seq(Chars) /\ Len(p) = j /\ \A k \in 1 .. j : p[k] = text[k]
  BY <1>1, <1>2, <1>3
<1>5. i \in 0 .. Len(p) BY <1>2, <1>4
<1>6. PICK u, v : u = SubSeq(p, 1, i) /\ v = SubSeq(p, i + 1, Len(p)) OBVIOUS
<1>7. u \in Seq(Chars) /\ v \in Seq(Chars) /\ Encoded(p, e) = Encoded(u, e) \o Encoded(v, e)
  BY ONLY <1>4, <1>5, <1>6, e \in Newlines, EncodedSplit
<1>8. PICK a, c : a = Encoded(u, e) /\ c = Encoded(v, e) OBVIOUS
<1>9. a \in Seq(Bytes_Of(e)) /\ c \in Seq(Bytes_Of(e)) BY ONLY <1>7, <1>8, e \in Newlines, EncodedType
<1>10. Len(a) \in Nat /\ Len(c) \in Nat /\ Len(a \o c) = Len(a) + Len(c)
  BY ONLY <1>9, ConcatParts
<1>11. u = SubSeq(text, 1, i)
  <2>1. PICK w : w = SubSeq(text, 1, i) OBVIOUS
  <2>2. w \in Seq(Chars) /\ Len(w) = i /\ \A k \in 1 .. i : w[k] = text[k] BY <1>1, <1>2, <2>1
  <2>3. Len(u) = i /\ \A k \in 1 .. i : u[k] = p[k] BY <1>2, <1>4, <1>6
  <2>4. \A k \in 1 .. i : u[k] = w[k] BY ONLY <1>2, <1>4, <2>2, <2>3
  <2>5. u = w BY ONLY <1>7, <2>2, <2>3, <2>4, SeqEqual
  <2> QED BY <2>1, <2>5
<1>12. Byte_At(text, i, e) = Len(a) BY ONLY <1>8, <1>11 DEF Byte_At
<1>13. Byte_At(text, j, e) = Len(a \o c) BY ONLY <1>3, <1>7, <1>8 DEF Byte_At
<1> QED BY ONLY <1>10, <1>12, <1>13

(* A text in three parts, of which the second is replaced.                   *)
LEMMA SplicedParts ==
  ASSUME NEW S, NEW p \in Seq(S), NEW w \in Seq(S), NEW x \in Seq(S), NEW q \in Seq(S), NEW b, NEW d,
         NEW v \in Seq(S), b = p \o v, b = w \o q, d = (p \o x) \o q,
         NEW s, NEW t, s = Len(p), t = Len(w)
  PROVE  Spliced(b, s, t, x, d) /\ t <= Len(b)
<1>1. PICK i1 \in Nat, i2 \in Nat, i3 \in Nat, i4 \in Nat, i5 \in Nat :
        i1 = Len(p) /\ i2 = Len(w) /\ i3 = Len(x) /\ i4 = Len(q) /\ i5 = Len(v)
  OBVIOUS
<1>2. PICK h : h = p \o x OBVIOUS
<1>3. /\ h \in Seq(S) /\ Len(h) = i1 + i3 /\ \A i \in 1 .. i1 : h[i] = p[i]
      /\ \A i \in 1 .. i3 : h[i1 + i] = x[i]
  <2>1. /\ p \o x \in Seq(S) /\ Len(p \o x) = Len(p) + Len(x)
        /\ \A i \in 1 .. Len(p) : (p \o x)[i] = p[i]
        /\ \A i \in 1 .. Len(x) : (p \o x)[Len(p) + i] = x[i]
    BY ONLY p \in Seq(S), x \in Seq(S), ConcatParts
  <2> QED BY ONLY <1>1, <1>2, <2>1
<1>4. /\ Len(d) = i1 + i3 + i4 /\ \A i \in 1 .. i1 + i3 : d[i] = h[i]
      /\ \A i \in 1 .. i4 : d[i1 + i3 + i] = q[i]
  <2>1. /\ Len(h \o q) = Len(h) + Len(q)
        /\ \A i \in 1 .. Len(h) : (h \o q)[i] = h[i]
        /\ \A i \in 1 .. Len(q) : (h \o q)[Len(h) + i] = q[i]
    <3>1. h \in Seq(S) BY <1>3
    <3> QED BY ONLY <3>1, q \in Seq(S), ConcatParts
  <2>2. d = h \o q BY <1>2
  <2>3. Len(h) = i1 + i3 BY <1>3
  <2> QED BY ONLY <1>1, <2>1, <2>2, <2>3
<1>5. Len(b) = i2 + i4 /\ \A i \in 1 .. i4 : b[i2 + i] = q[i]
  <2>1. /\ Len(w \o q) = Len(w) + Len(q)
        /\ \A i \in 1 .. Len(q) : (w \o q)[Len(w) + i] = q[i]
    BY ONLY w \in Seq(S), q \in Seq(S), ConcatParts
  <2> QED BY ONLY <1>1, <2>1, b = w \o q
<1>6. \A i \in 1 .. i1 : b[i] = p[i]
  <2>1. \A i \in 1 .. Len(p) : (p \o v)[i] = p[i] BY ONLY p \in Seq(S), v \in Seq(S), ConcatParts
  <2> QED BY ONLY <1>1, <2>1, b = p \o v
<1>7. Len(d) = i1 + i3 + (Len(b) - i2)
  BY ONLY <1>4, <1>5, i1 \in Nat, i2 \in Nat, i3 \in Nat, i4 \in Nat
<1>8. \A i \in 1 .. i1 : d[i] = b[i]
  <2> SUFFICES ASSUME NEW i \in 1 .. i1 PROVE d[i] = b[i] OBVIOUS
  <2>1. i \in 1 .. i1 + i3 BY ONLY i1 \in Nat, i3 \in Nat, i \in 1 .. i1
  <2> QED BY ONLY <1>3, <1>4, <1>6, <2>1, i \in 1 .. i1
<1>9. \A i \in 1 .. i3 : d[i1 + i] = x[i]
  <2> SUFFICES ASSUME NEW i \in 1 .. i3 PROVE d[i1 + i] = x[i] OBVIOUS
  <2>1. i1 + i \in 1 .. i1 + i3 BY ONLY i1 \in Nat, i3 \in Nat, i \in 1 .. i3
  <2> QED BY ONLY <1>3, <1>4, <2>1, i \in 1 .. i3
<1>10. \A i \in 1 .. Len(b) - i2 : d[i1 + i3 + i] = b[i2 + i]
  <2>1. Len(b) - i2 = i4 BY ONLY <1>5, i2 \in Nat, i4 \in Nat
  <2> QED BY ONLY <1>4, <1>5, <2>1
<1>11. i2 <= Len(b) BY ONLY <1>5, i2 \in Nat, i4 \in Nat
<1> QED BY ONLY <1>1, <1>7, <1>8, <1>9, <1>10, <1>11, s = Len(p), t = Len(w) DEF Spliced

(* The bytes of a changed text are those of the text before, spliced.        *)
LEMMA ChangeSpliced ==
  ASSUME NEW e \in Newlines, NEW text \in Seq(Chars), NEW new \in Seq(Chars),
         NEW j \in 0 .. Len(text), NEW i \in 0 .. j, NEW after,
         after = SubSeq(text, 1, i) \o new \o SubSeq(text, j + 1, Len(text))
  PROVE  /\ after \in Seq(Chars)
         /\ Spliced(Encoded(text, e), Byte_At(text, i, e), Byte_At(text, j, e), Encoded(new, e),
                    Encoded(after, e))
         /\ Byte_At(text, j, e) <= Len(Encoded(text, e))
<1>1. PICK p, v, w, q : /\ p = SubSeq(text, 1, i) /\ v = SubSeq(text, i + 1, Len(text))
                        /\ w = SubSeq(text, 1, j) /\ q = SubSeq(text, j + 1, Len(text))
  OBVIOUS
<1>2. i \in 0 .. Len(text)
  <2>1. Len(text) \in Nat OBVIOUS
  <2> QED BY ONLY <2>1, j \in 0 .. Len(text), i \in 0 .. j
<1>3. p \in Seq(Chars) /\ v \in Seq(Chars) /\ Encoded(text, e) = Encoded(p, e) \o Encoded(v, e)
  BY ONLY <1>1, <1>2, e \in Newlines, text \in Seq(Chars), EncodedSplit
<1>4. w \in Seq(Chars) /\ q \in Seq(Chars) /\ Encoded(text, e) = Encoded(w, e) \o Encoded(q, e)
  BY ONLY <1>1, j \in 0 .. Len(text), e \in Newlines, text \in Seq(Chars), EncodedSplit
<1>5. PICK h : h = p \o new OBVIOUS
<1>6. h \in Seq(Chars) /\ Encoded(h, e) = Encoded(p, e) \o Encoded(new, e)
  <2>1. p \o new \in Seq(Chars) BY ONLY <1>3, new \in Seq(Chars), ConcatParts
  <2>2. Encoded(p \o new, e) = Encoded(p, e) \o Encoded(new, e)
    BY ONLY <1>3, new \in Seq(Chars), e \in Newlines, EncodedConcat
  <2> QED BY ONLY <1>5, <2>1, <2>2
<1>7. after = h \o q BY ONLY <1>1, <1>5, after = SubSeq(text, 1, i) \o new \o SubSeq(text, j + 1, Len(text))
<1>8. after \in Seq(Chars) /\ Encoded(after, e) = Encoded(h, e) \o Encoded(q, e)
  <2>1. h \o q \in Seq(Chars) BY ONLY <1>4, <1>6, ConcatParts
  <2>2. Encoded(h \o q, e) = Encoded(h, e) \o Encoded(q, e)
    BY ONLY <1>4, <1>6, e \in Newlines, EncodedConcat
  <2> QED BY ONLY <1>7, <2>1, <2>2
<1>9. PICK pe, ve, we, qe, xe : /\ pe = Encoded(p, e) /\ ve = Encoded(v, e) /\ we = Encoded(w, e)
                                /\ qe = Encoded(q, e) /\ xe = Encoded(new, e)
  OBVIOUS
<1>10. PICK S : S = Bytes_Of(e) OBVIOUS
<1>11. pe \in Seq(S) /\ ve \in Seq(S) /\ we \in Seq(S) /\ qe \in Seq(S) /\ xe \in Seq(S)
  BY ONLY <1>3, <1>4, <1>9, <1>10, new \in Seq(Chars), e \in Newlines, EncodedType
<1>12. PICK b, d : b = Encoded(text, e) /\ d = Encoded(after, e) OBVIOUS
<1>13. b = pe \o ve /\ b = we \o qe /\ d = (pe \o xe) \o qe
  BY ONLY <1>3, <1>4, <1>6, <1>8, <1>9, <1>12
<1>14. PICK s, t : s = Len(pe) /\ t = Len(we) OBVIOUS
<1>15. Spliced(b, s, t, xe, d) /\ t <= Len(b) BY ONLY <1>11, <1>13, <1>14, SplicedParts
<1>16. s = Byte_At(text, i, e) /\ t = Byte_At(text, j, e) BY ONLY <1>1, <1>9, <1>14 DEF Byte_At
<1> QED BY ONLY <1>8, <1>9, <1>12, <1>15, <1>16

(* The line and the offset of the client are those of the byte.              *)
LEMMA PositionOnLine ==
  ASSUME NEW e \in Newlines, NEW text \in Seq(Chars), NEW r, Rows(r, Starts(Encoded(text, e))),
         NEW i \in 0 .. Len(text), NEW s \in Nat, s = Byte_At(text, i, e),
         NEW L, L = Line_Of(text, i), NEW o, o = Offset_Of(text, i)
  PROVE  L \in 1 .. Len(r) /\ o \in Nat /\ r[L] + o = s /\ On_Line(r, L, s)
<1>1. Positioned(text, e, r, i)
  BY ONLY e \in Newlines, text \in Seq(Chars), Rows(r, Starts(Encoded(text, e))), i \in 0 .. Len(text), Positions
<1>2. L \in 1 .. Len(r) /\ o \in Nat /\ r[L] + o = s /\ (L < Len(r) => s < r[L + 1])
  BY ONLY <1>1, s = Byte_At(text, i, e), L = Line_Of(text, i), o = Offset_Of(text, i) DEF Positioned
<1>3. r \in Seq(Nat) BY DEF Rows
<1>4. PICK a \in Nat : a = r[L] BY <1>2, <1>3
<1>5. a <= s BY ONLY <1>2, <1>4, s \in Nat
<1> QED BY ONLY <1>2, <1>4, <1>5 DEF On_Line

(* So a change of the client, from first to last, is an edit of the bytes of *)
(* its text.                                                                 *)
LEMMA ChangeIsEdit ==
  ASSUME NEW e \in Newlines, NEW text \in Seq(Chars), NEW new \in Seq(Chars),
         NEW j \in 0 .. Len(text), NEW i \in 0 .. j, NEW after,
         after = SubSeq(text, 1, i) \o new \o SubSeq(text, j + 1, Len(text)),
         NEW r, Rows(r, Starts(Encoded(text, e)))
  PROVE  /\ Edit_Of(Encoded(text, e), r, Byte_At(text, i, e), Byte_At(text, j, e), Encoded(new, e),
                    Encoded(after, e), Line_Of(text, i), Offset_Of(text, i),
                    Line_Of(text, j), Offset_Of(text, j))
         /\ Byte_At(text, i, e) \in Nat /\ Byte_At(text, j, e) \in Nat
         /\ Offset_Of(text, i) \in Nat /\ Offset_Of(text, j) \in Nat
<1>1. PICK s, t, b, d, x : /\ s = Byte_At(text, i, e) /\ t = Byte_At(text, j, e)
                           /\ b = Encoded(text, e) /\ d = Encoded(after, e) /\ x = Encoded(new, e)
  OBVIOUS
<1>2. s \in Nat /\ t \in Nat /\ s <= t
  BY ONLY <1>1, e \in Newlines, text \in Seq(Chars), j \in 0 .. Len(text), i \in 0 .. j, BytesUpTo
<1>3. Spliced(b, s, t, x, d) /\ t <= Len(b)
  BY ONLY <1>1, e \in Newlines, text \in Seq(Chars), new \in Seq(Chars), j \in 0 .. Len(text), i \in 0 .. j,
          after = SubSeq(text, 1, i) \o new \o SubSeq(text, j + 1, Len(text)), ChangeSpliced
<1>4. PICK SL, so, EL, eo : /\ SL = Line_Of(text, i) /\ so = Offset_Of(text, i)
                            /\ EL = Line_Of(text, j) /\ eo = Offset_Of(text, j)
  OBVIOUS
<1>5. i \in 0 .. Len(text)
  <2>1. Len(text) \in Nat OBVIOUS
  <2> QED BY ONLY <2>1, j \in 0 .. Len(text), i \in 0 .. j
<1>6. SL \in 1 .. Len(r) /\ so \in Nat /\ r[SL] + so = s /\ On_Line(r, SL, s)
  BY ONLY <1>1, <1>2, <1>4, <1>5, e \in Newlines, text \in Seq(Chars), Rows(r, Starts(Encoded(text, e))),
          PositionOnLine
<1>7. EL \in 1 .. Len(r) /\ eo \in Nat /\ r[EL] + eo = t /\ On_Line(r, EL, t)
  BY ONLY <1>1, <1>2, <1>4, j \in 0 .. Len(text), e \in Newlines, text \in Seq(Chars),
          Rows(r, Starts(Encoded(text, e))), PositionOnLine
<1>8. Edit_Of(b, r, s, t, x, d, SL, so, EL, eo) BY ONLY <1>2, <1>3, <1>6, <1>7 DEF Edit_Of
<1> QED BY ONLY <1>1, <1>2, <1>4, <1>6, <1>7, <1>8
-----------------------------------------------------------------------------
(* The positions of a buffer that has the bytes and their lines.             *)
LEMMA GapAtRow ==
  ASSUME NEW e, NEW S, NEW b \in Seq(S), NEW f, NEW r, Mirrors(f, b, r, e),
         NEW L \in 1 .. Len(r), NEW q \in 0 .. Len(b), On_Line(r, L, q)
  PROVE  f.Gap_Start <= q <=> f.Gap_Start <= r[L]
<1>1. Holds(f, b, e) /\ Rows(r, Starts(b)) BY DEF Mirrors
<1>2. PICK T \in Nat : T = f.Gap_Start BY <1>1, HoldsFields
<1>3. PICK N \in Nat, n \in Nat : N = Len(b) /\ n = Len(r) BY <1>1, RowsOf
<1>4. PICK a \in Nat : a = r[L] /\ a <= q
  <2>1. r[L] \in Nat /\ r[L] <= q BY ONLY <1>1, L \in 1 .. Len(r), On_Line(r, L, q) DEF Rows, On_Line
  <2> QED BY <2>1
<1>5. q \in Nat /\ q <= N BY <1>3
<1>6. Gap_Placed(b, T) BY ONLY <1>1, <1>2 DEF Holds
<1>7. CASE T = N + 2
  <2>1. ~(T <= q) /\ ~(T <= a) BY ONLY <1>4, <1>5, <1>7, N \in Nat, a \in Nat
  <2> QED BY ONLY <1>2, <1>4, <2>1
<1>8. CASE T \in 1 .. N /\ b[T] = "LF"
  <2>1. T \in Starts(b) BY ONLY <1>3, <1>8 DEF Starts, LFs
  <2>2. PICK k \in 1 .. n : r[k] = T BY ONLY <1>1, <1>3, <2>1 DEF Rows
  <2>3. ASSUME T <= q PROVE T <= a
    <3>1. k <= L
      <4>1. CASE k <= L BY <4>1
      <4>2. CASE k > L
        <5>1. L < n /\ L + 1 \in 1 .. n /\ L + 1 <= k BY ONLY <1>3, <4>2, n \in Nat, L \in 1 .. Len(r), k \in 1 .. n
        <5>2. PICK c \in Nat : c = r[L + 1] BY ONLY <1>1, <1>3, <5>1 DEF Rows
        <5>3. q < c BY ONLY <1>3, <5>1, <5>2, On_Line(r, L, q) DEF On_Line
        <5>4. c <= T
          <6>1. CASE L + 1 = k BY ONLY <2>2, <5>2, <6>1, T \in Nat, c \in Nat
          <6>2. CASE L + 1 < k
            <7>1. r[L + 1] < r[k] BY ONLY <1>1, <1>3, <5>1, <6>2, k \in 1 .. n DEF Rows
            <7> QED BY ONLY <2>2, <5>2, <7>1, T \in Nat, c \in Nat
          <6> QED BY ONLY <5>1, <6>1, <6>2, n \in Nat, L \in 1 .. Len(r), k \in 1 .. n, <1>3
        <5> QED BY ONLY <1>5, <2>3, <5>3, <5>4, T \in Nat, c \in Nat
      <4> QED BY ONLY <1>3, <4>1, <4>2, n \in Nat, L \in 1 .. Len(r), k \in 1 .. n
    <3>2. CASE k = L BY ONLY <1>4, <2>2, <3>2, T \in Nat, a \in Nat
    <3>3. CASE k < L
      <4>1. r[k] < r[L] BY ONLY <1>1, <1>3, <3>3, k \in 1 .. n, L \in 1 .. Len(r) DEF Rows
      <4> QED BY ONLY <1>4, <2>2, <4>1, T \in Nat, a \in Nat
    <3> QED BY ONLY <1>3, <3>1, <3>2, <3>3, n \in Nat, k \in 1 .. n, L \in 1 .. Len(r)
  <2>4. T <= q <=> T <= a BY ONLY <1>4, <1>5, <2>3, T \in Nat, a \in Nat
  <2> QED BY ONLY <1>2, <1>4, <2>4
<1> QED BY ONLY <1>3, <1>6, <1>7, <1>8 DEF Gap_Placed

(* Bytes are in the same order in the file.                                  *)
LEMMA AtMonotone ==
  ASSUME NEW f, f.Gap_Start \in Nat, Gap_Length(f) \in Nat, NEW a \in Nat, NEW c \in Nat
  PROVE  (a <= c => At(f, a) <= At(f, c)) /\ (a < c => At(f, a) < At(f, c))
<1>1. PICK T \in Nat, G \in Nat : T = f.Gap_Start /\ G = Gap_Length(f) OBVIOUS
<1>2. At(f, a) = IF a < T THEN a ELSE a + G BY ONLY <1>1 DEF At
<1>3. At(f, c) = IF c < T THEN c ELSE c + G BY ONLY <1>1 DEF At
<1> QED BY ONLY <1>2, <1>3, a \in Nat, c \in Nat, T \in Nat, G \in Nat

(* The table of lines of a buffer.                                           *)
Lines_Placed(li, f, r) == Len(li) = Len(r) /\ \A k \in 1 .. Len(r) : li[k] = At(f, r[k])

(* The table of a file that mirrors its text ascends, inside the file.       *)
LEMMA LinesOf ==
  ASSUME NEW e, NEW S, NEW b \in Seq(S), NEW f, NEW r, Mirrors(f, b, r, e), NEW li, li = f.Lines
  PROVE  /\ Cached(f, li) /\ Ascending(li) /\ Lines_Placed(li, f, r)
         /\ li \in Seq(0 .. f.File_Length)
<1>1. Holds(f, b, e) /\ Rows(r, Starts(b)) /\ f.Lines = Placed(f, r) BY DEF Mirrors
<1>2. f.Gap_Start \in Nat /\ Gap_Length(f) \in Nat BY ONLY <1>1, b \in Seq(S), HoldsFields
<1>3. r \in Seq(Nat) BY ONLY <1>1 DEF Rows
<1>4. PICK n \in Nat : n = Len(r) BY ONLY <1>3
<1>5. li \in Seq(Nat) /\ Len(li) = n /\ \A k \in 1 .. n : li[k] = At(f, r[k])
  BY ONLY <1>1, <1>2, <1>3, <1>4, li = f.Lines, PlacedType
<1>6. Cached(f, li) BY ONLY li = f.Lines, Mirrors(f, b, r, e) DEF Cached, Mirrors
<1>7. ASSUME NEW i \in 1 .. n, NEW j \in 1 .. n, i < j PROVE li[i] < li[j]
  <2>1. PICK a \in Nat, c \in Nat : a = r[i] /\ c = r[j] BY ONLY <1>3, <1>4, i \in 1 .. n, j \in 1 .. n
  <2>2. r[i] < r[j] BY ONLY <1>1, <1>4, <1>7 DEF Rows
  <2>3. a < c BY ONLY <2>1, <2>2
  <2>4. At(f, a) < At(f, c) BY ONLY <1>2, <2>3, a \in Nat, c \in Nat, AtMonotone
  <2> QED BY ONLY <1>5, <2>1, <2>4, i \in 1 .. n, j \in 1 .. n
<1>8. Ascending(li) BY ONLY <1>5, <1>7 DEF Ascending
<1>9. ASSUME NEW k \in 1 .. n PROVE li[k] \in 0 .. f.File_Length
  <2>1. PICK a \in Nat : a = r[k] /\ a <= Len(b)
    <3>1. r[k] \in 0 .. Len(b) BY ONLY <1>1, <1>4, b \in Seq(S), k \in 1 .. n, RowsOf
    <3>2. Len(b) \in Nat BY ONLY b \in Seq(S)
    <3> QED BY ONLY <3>1, <3>2
  <2>2. PICK N \in Nat : N = Len(b) BY ONLY b \in Seq(S)
  <2>3. At(f, a) <= At(f, N) BY ONLY <1>2, <2>1, <2>2, a \in Nat, N \in Nat, AtMonotone
  <2>4. f.File_Length = At(f, N) BY ONLY <1>1, <2>2 DEF Holds
  <2>5. li[k] \in Nat /\ li[k] = At(f, a) BY ONLY <1>5, <2>1, k \in 1 .. n
  <2>6. f.File_Length \in Nat BY ONLY <1>2, <2>4, N \in Nat, AtType
  <2>7. li[k] <= f.File_Length BY ONLY <2>3, <2>4, <2>5
  <2> QED BY ONLY <2>5, <2>6, <2>7
<1>10. li \in Seq(0 .. f.File_Length)
  <2>1. li = [k \in 1 .. n |-> li[k]] BY ONLY <1>5, n \in Nat
  <2>2. PICK D : D = 0 .. f.File_Length OBVIOUS
  <2>3. \A k \in 1 .. n : li[k] \in D BY ONLY <1>9, <2>2
  <2>4. li \in Seq(D) BY ONLY <2>1, <2>3, n \in Nat
  <2> QED BY ONLY <2>2, <2>4
<1>11. Lines_Placed(li, f, r) BY ONLY <1>4, <1>5 DEF Lines_Placed
<1> QED BY ONLY <1>6, <1>8, <1>10, <1>11

(* A position is on the same line in the bytes and in the buffer.            *)
Offsets_Kept(li, r, L, q, p) == \A o \in Nat : r[L] + o = q => li[L] + o = p

(* The line and the offset of a byte find its place in the file.             *)
LEMMA LinePlaced ==
  ASSUME NEW e, NEW S, NEW b \in Seq(S), NEW f, NEW r, Mirrors(f, b, r, e), NEW li, li = f.Lines,
         NEW L \in 1 .. Len(r), NEW q \in 0 .. Len(b), On_Line(r, L, q)
  PROVE  On_Line(li, L, At(f, q)) /\ Offsets_Kept(li, r, L, q, At(f, q))
<1>1. Len(li) = Len(r) /\ \A k \in 1 .. Len(r) : li[k] = At(f, r[k])
  <2>1. Lines_Placed(li, f, r) BY ONLY b \in Seq(S), Mirrors(f, b, r, e), li = f.Lines, LinesOf
  <2> QED BY ONLY <2>1 DEF Lines_Placed
<1>2. PICK T \in Nat, G \in Nat : T = f.Gap_Start /\ G = Gap_Length(f)
  <2>1. Holds(f, b, e) BY DEF Mirrors
  <2> QED BY ONLY <2>1, b \in Seq(S), HoldsFields
<1>3. r \in Seq(Nat) BY DEF Mirrors, Rows
<1>4. PICK n \in Nat : n = Len(r) BY ONLY <1>3
<1>5. PICK a \in Nat : a = r[L] /\ a <= q
  <2>1. r[L] \in Nat /\ r[L] <= q BY ONLY <1>3, L \in 1 .. Len(r), On_Line(r, L, q) DEF On_Line
  <2> QED BY ONLY <2>1
<1>6. q \in Nat
  <2>1. Len(b) \in Nat BY ONLY b \in Seq(S)
  <2> QED BY ONLY <2>1, q \in 0 .. Len(b)
<1>7. T <= q <=> T <= a
  <2>1. f.Gap_Start <= q <=> f.Gap_Start <= r[L] BY GapAtRow
  <2> QED BY ONLY <1>2, <1>5, <2>1
<1>8. At(f, q) = IF q < T THEN q ELSE q + G BY ONLY <1>2 DEF At
<1>9. At(f, a) = IF a < T THEN a ELSE a + G BY ONLY <1>2 DEF At
<1>10. li[L] = At(f, a) BY ONLY <1>1, <1>5, L \in 1 .. Len(r)
<1>11. \A o \in Nat : a + o = q => li[L] + o = At(f, q)
  BY ONLY <1>6, <1>7, <1>8, <1>9, <1>10, a \in Nat, T \in Nat, G \in Nat
<1>12. li[L] <= At(f, q)
  <2>1. At(f, a) <= At(f, q) BY ONLY <1>2, <1>5, <1>6, a \in Nat, T \in Nat, G \in Nat, AtMonotone
  <2> QED BY ONLY <1>10, <2>1
<1>13. L < n => At(f, q) < li[L + 1]
  <2> SUFFICES ASSUME L < n PROVE At(f, q) < li[L + 1] OBVIOUS
  <2>1. L + 1 \in 1 .. n BY ONLY <1>4, L \in 1 .. Len(r), L < n, n \in Nat
  <2>2. PICK c \in Nat : c = r[L + 1] BY ONLY <1>3, <1>4, <2>1
  <2>3. q < c BY ONLY <1>4, <2>2, L < n, On_Line(r, L, q) DEF On_Line
  <2>4. At(f, q) < At(f, c) BY ONLY <1>2, <1>6, <2>3, c \in Nat, T \in Nat, G \in Nat, AtMonotone
  <2> QED BY ONLY <1>1, <1>4, <2>1, <2>2, <2>4
<1>14. On_Line(li, L, At(f, q)) BY ONLY <1>1, <1>4, <1>12, <1>13 DEF On_Line
<1>15. Offsets_Kept(li, r, L, q, At(f, q)) BY ONLY <1>5, <1>11 DEF Offsets_Kept
<1> QED BY ONLY <1>14, <1>15

-----------------------------------------------------------------------------
(* What the invariants say of a file.                                        *)
Record_OK(f) ==
  /\ DOMAIN f.Source = 0 .. Get_Buffer_Length(f) - 1
  /\ f.File_Length \in Nat /\ f.Gap_Start \in Nat /\ f.Gap_Last \in f.Gap_Start - 1 .. Get_Buffer_Length(f)
  /\ f.Lines \in Seq(0 .. f.File_Length)
  /\ f.Cache_Line \in DOMAIN f.Lines /\ f.Cache_Pos = f.Lines[f.Cache_Line]

(* GapSound, of a file.                                                      *)
Gap_OK(f, e) ==
  /\ f.Source[f.File_Length] = "EOT" /\ f.Source[f.File_Length + 1] = "EOT"
  /\ \/ f.Gap_Start = f.File_Length + 2 /\ f.Gap_Last = Get_Buffer_Length(f) - 1
     \/ /\ f.Gap_Last < f.File_Length /\ f.File_Length + 2 = Get_Buffer_Length(f)
        /\ Contains(f.Lines, f.Gap_Last + 1)
        /\ f.Source[f.Gap_Start - 1] = Last(e)

(* A file that mirrors a text is sound.                                      *)
LEMMA RecordSound ==
  ASSUME NEW e \in Newlines, NEW b \in Seq(Bytes_Of(e)), NEW f, NEW r, Mirrors(f, b, r, e)
  PROVE  Record_OK(f)
<1>1. Holds(f, b, e) BY DEF Mirrors
<1>2. PICK T \in Nat, G \in Nat, N \in Nat : T = f.Gap_Start /\ G = Gap_Length(f) /\ N = Len(b)
  BY ONLY <1>1, b \in Seq(Bytes_Of(e)), HoldsFields
<1>3. PICK fl, gl : fl = f.File_Length /\ gl = f.Gap_Last OBVIOUS
<1>4. /\ gl = T + G - 1
      /\ (T > N /\ T = N + 2 /\ fl = N) \/ (T <= N /\ fl = N + G)
  <2>1. Fields(b, T, G, gl, fl) BY ONLY <1>1, <1>2, <1>3, b \in Seq(Bytes_Of(e)), FieldsOf
  <2> QED BY ONLY <1>2, <2>1 DEF Fields
<1>5. PICK n \in Nat : n = Get_Buffer_Length(f) /\ n = N + 2 + G /\ DOMAIN f.Source = 0 .. N + 1 + G
  <2>1. /\ Get_Buffer_Length(f) = Len(b) + 2 + Gap_Length(f)
        /\ DOMAIN f.Source = 0 .. Len(b) + 1 + Gap_Length(f)
    BY ONLY <1>1, e \in Newlines, b \in Seq(Bytes_Of(e)), HoldsReads
  <2> QED BY ONLY <1>2, <2>1, N \in Nat, G \in Nat
<1>6. DOMAIN f.Source = 0 .. n - 1
  <2>1. n - 1 = N + 1 + G BY ONLY <1>5, N \in Nat, G \in Nat
  <2> QED BY ONLY <1>5, <2>1
<1>7. fl \in Nat /\ gl \in T - 1 .. n
  <2>1. n = N + 2 + G BY <1>5
  <2> QED BY ONLY <1>4, <2>1, N \in Nat, G \in Nat, T \in Nat
<1>8. PICK li : li = f.Lines OBVIOUS
<1>9. li \in Seq(0 .. f.File_Length) BY ONLY <1>8, b \in Seq(Bytes_Of(e)), Mirrors(f, b, r, e), LinesOf
<1>10. f.Cache_Line \in 1 .. Len(li) /\ f.Cache_Pos = li[f.Cache_Line]
  BY ONLY <1>8, Mirrors(f, b, r, e) DEF Mirrors
<1>11. DOMAIN li = 1 .. Len(li) BY ONLY <1>9
<1> QED BY ONLY <1>2, <1>3, <1>5, <1>6, <1>7, <1>8, <1>9, <1>10, <1>11 DEF Record_OK

(* So is its gap.                                                            *)
LEMMA GapSoundOf ==
  ASSUME NEW e \in Newlines, NEW b \in Seq(Bytes_Of(e)), NEW f, NEW r, Mirrors(f, b, r, e)
  PROVE  Gap_OK(f, e)
<1>1. Holds(f, b, e) /\ Rows(r, Starts(b)) BY DEF Mirrors
<1>2. PICK T \in Nat, G \in Nat, N \in Nat : T = f.Gap_Start /\ G = Gap_Length(f) /\ N = Len(b)
  BY ONLY <1>1, b \in Seq(Bytes_Of(e)), HoldsFields
<1>3. PICK fl, gl : fl = f.File_Length /\ gl = f.Gap_Last OBVIOUS
<1>4. /\ gl = T + G - 1
      /\ (T > N /\ T = N + 2 /\ fl = N) \/ (T <= N /\ fl = N + G)
  <2>1. Fields(b, T, G, gl, fl) BY ONLY <1>1, <1>2, <1>3, b \in Seq(Bytes_Of(e)), FieldsOf
  <2> QED BY ONLY <1>2, <2>1 DEF Fields
<1>5. /\ Get_Buffer_Length(f) = N + 2 + G
      /\ f.Source[f.File_Length] = "EOT" /\ f.Source[f.File_Length + 1] = "EOT"
  <2>1. /\ Get_Buffer_Length(f) = Len(b) + 2 + Gap_Length(f)
        /\ f.Source[f.File_Length] = "EOT" /\ f.Source[f.File_Length + 1] = "EOT"
    BY ONLY <1>1, e \in Newlines, b \in Seq(Bytes_Of(e)), HoldsReads
  <2> QED BY ONLY <1>2, <2>1
<1>6. CASE T = N + 2 /\ fl = N
  <2>1. T = fl + 2 /\ gl = (N + 2 + G) - 1 BY ONLY <1>4, <1>6, N \in Nat, G \in Nat
  <2>2. f.Gap_Start = f.File_Length + 2 /\ f.Gap_Last = Get_Buffer_Length(f) - 1
    BY ONLY <1>2, <1>3, <1>5, <2>1
  <2> QED BY ONLY <1>5, <2>2 DEF Gap_OK
<1>7. CASE T <= N /\ fl = N + G
  <2>1. gl < fl /\ fl + 2 = N + 2 + G BY ONLY <1>4, <1>7, N \in Nat, G \in Nat, T \in Nat
  <2>2. T \in 1 .. N /\ b[T] = "LF"
    <3>1. Gap_Placed(b, T) BY ONLY <1>1, <1>2 DEF Holds
    <3>2. T # N + 2 BY ONLY <1>7, T \in Nat, N \in Nat
    <3> QED BY ONLY <1>2, <3>1, <3>2 DEF Gap_Placed
  <2>3. PICK li : li = f.Lines OBVIOUS
  <2>4. Lines_Placed(li, f, r) /\ Ascending(li)
    BY ONLY <2>3, b \in Seq(Bytes_Of(e)), Mirrors(f, b, r, e), LinesOf
  <2>5. T \in Starts(b) BY ONLY <1>2, <2>2 DEF Starts, LFs
  <2>6. PICK k \in 1 .. Len(r) : r[k] = T BY ONLY <1>1, <2>5 DEF Rows
  <2>7. li[k] = At(f, T) /\ k \in 1 .. Len(li) BY ONLY <2>4, <2>6 DEF Lines_Placed
  <2>8. At(f, T) = T + G BY ONLY <1>2, T \in Nat DEF At
  <2>9. li[k] = gl + 1 BY ONLY <1>4, <2>7, <2>8, T \in Nat, G \in Nat
  <2>10. Contains(li, gl + 1) BY ONLY <2>4, <2>7, <2>9 DEF Contains, Ascending
  <2>11. PICK q \in Nat : q = T - 1 /\ q \in 0 .. N - 1 /\ q + 1 = T /\ q < T BY ONLY <2>2, N \in Nat
  <2>12. f.Source[At(f, q)] = b[q + 1]
    <3>1. Reads(f, b, e) BY ONLY <1>1, e \in Newlines, b \in Seq(Bytes_Of(e)), HoldsReads
    <3> QED BY ONLY <1>2, <2>11, <3>1 DEF Reads
  <2>13. At(f, q) = q BY ONLY <1>2, <2>11 DEF At
  <2>14. f.Source[f.Gap_Start - 1] = "LF" BY ONLY <1>2, <2>2, <2>11, <2>12, <2>13
  <2>15. Last(e) = "LF" BY ONLY e \in Newlines, NewlineForms DEF Last
  <2>16. f.Source[f.Gap_Start - 1] = Last(e) BY ONLY <2>14, <2>15
  <2>17. f.Gap_Last < f.File_Length /\ f.File_Length + 2 = Get_Buffer_Length(f)
    BY ONLY <1>3, <1>5, <2>1
  <2>18. Contains(f.Lines, f.Gap_Last + 1) BY ONLY <1>3, <2>3, <2>10
  <2> QED BY ONLY <1>5, <2>16, <2>17, <2>18 DEF Gap_OK
<1> QED BY ONLY <1>4, <1>6, <1>7

-----------------------------------------------------------------------------
(* The positions of the client, in a buffer that has its text.               *)
Position_OK(f, text, e, i) ==
  LET p == At(f, Byte_At(text, i, e))
  IN /\ f.Lines[Line_Of(text, i)] + Offset_Of(text, i) = p
     /\ Located_Line(f, p) = Line_Of(text, i)
     /\ p = IF Byte_At(text, i, e) >= f.Gap_Start THEN Byte_At(text, i, e) + Gap_Length(f)
            ELSE Byte_At(text, i, e)

(* Each position of the client is found, and looked up, in the file.         *)
LEMMA PositionFound ==
  ASSUME NEW e \in Newlines, NEW text \in Seq(Chars), NEW f, NEW r, Mirrors(f, Encoded(text, e), r, e),
         NEW i \in 0 .. Len(text)
  PROVE  Position_OK(f, text, e, i)
<1>1. PICK b : b = Encoded(text, e) OBVIOUS
<1>2. b \in Seq(Bytes_Of(e)) BY ONLY <1>1, e \in Newlines, text \in Seq(Chars), EncodedType
<1>3. Mirrors(f, b, r, e) BY <1>1
<1>4. Holds(f, b, e) /\ Rows(r, Starts(Encoded(text, e))) BY ONLY <1>1, <1>3 DEF Mirrors
<1>5. PICK T \in Nat, G \in Nat : T = f.Gap_Start /\ G = Gap_Length(f)
  BY ONLY <1>2, <1>4, HoldsFields
<1>6. PICK n \in Nat : n = Len(text) BY ONLY text \in Seq(Chars)
<1>7. n \in 0 .. Len(text) /\ i \in 0 .. n BY ONLY <1>6, n \in Nat, i \in 0 .. Len(text)
<1>8. PICK q \in Nat, N \in Nat : q = Byte_At(text, i, e) /\ N = Byte_At(text, n, e) /\ q <= N
  BY ONLY <1>7, e \in Newlines, text \in Seq(Chars), BytesUpTo
<1>9. N = Len(b)
  <2>1. Byte_At(text, Len(text), e) = Len(Encoded(text, e))
    BY ONLY <1>4, e \in Newlines, text \in Seq(Chars), LastPosition
  <2> QED BY ONLY <1>1, <1>6, <1>8, <2>1
<1>10. q \in 0 .. Len(b) BY ONLY <1>8, <1>9, q \in Nat, N \in Nat
<1>11. PICK L, o : L = Line_Of(text, i) /\ o = Offset_Of(text, i) OBVIOUS
<1>12. L \in 1 .. Len(r) /\ o \in Nat /\ r[L] + o = q /\ On_Line(r, L, q)
  BY ONLY <1>4, <1>8, <1>11, q \in Nat, e \in Newlines, text \in Seq(Chars), i \in 0 .. Len(text),
          PositionOnLine
<1>13. PICK li : li = f.Lines OBVIOUS
<1>14. On_Line(li, L, At(f, q)) /\ li[L] + o = At(f, q)
  <2>1. L \in 1 .. Len(r) /\ On_Line(r, L, q) BY <1>12
  <2>2. On_Line(li, L, At(f, q)) /\ Offsets_Kept(li, r, L, q, At(f, q))
    BY ONLY <1>2, <1>3, <1>10, <1>13, <2>1, LinePlaced
  <2> QED BY ONLY <1>12, <2>2 DEF Offsets_Kept
<1>15. Cached(f, li) /\ Ascending(li) /\ Len(li) = Len(r)
  <2>1. Cached(f, li) /\ Ascending(li) /\ Lines_Placed(li, f, r)
    BY ONLY <1>2, <1>3, <1>13, LinesOf
  <2> QED BY ONLY <2>1 DEF Lines_Placed
<1>16. PICK p \in Nat : p = At(f, q) BY ONLY <1>5, q \in Nat, T \in Nat, G \in Nat, AtType
<1>17. Located_Line(f, p) = L
  <2>1. L \in 1 .. Len(li) /\ On_Line(li, L, p) BY ONLY <1>12, <1>14, <1>15, <1>16
  <2> QED BY ONLY <1>15, <2>1, p \in Nat, LocatedLineIs
<1>18. p = IF q >= T THEN q + G ELSE q
  <2>1. p = IF q < T THEN q ELSE q + G BY ONLY <1>5, <1>16 DEF At
  <2> QED BY ONLY <2>1, q \in Nat, T \in Nat, G \in Nat
<1> QED BY ONLY <1>5, <1>8, <1>11, <1>13, <1>14, <1>16, <1>17, <1>18 DEF Position_OK

(* The table has as many lines as the document.                              *)
LEMMA LinesCounted ==
  ASSUME NEW e \in Newlines, NEW text \in Seq(Chars), NEW f, NEW r, Mirrors(f, Encoded(text, e), r, e)
  PROVE  Len(f.Lines) = Line_Of(text, Len(text))
<1>1. PICK b : b = Encoded(text, e) OBVIOUS
<1>2. b \in Seq(Bytes_Of(e)) BY ONLY <1>1, e \in Newlines, text \in Seq(Chars), EncodedType
<1>3. Mirrors(f, b, r, e) BY <1>1
<1>4. Rows(r, Starts(Encoded(text, e))) BY ONLY <1>1, <1>3 DEF Mirrors
<1>5. Line_Of(text, Len(text)) = Len(r)
  BY ONLY <1>4, e \in Newlines, text \in Seq(Chars), LastPosition
<1>6. PICK li : li = f.Lines OBVIOUS
<1>7. Lines_Placed(li, f, r) BY ONLY <1>2, <1>3, <1>6, LinesOf
<1> QED BY ONLY <1>5, <1>6, <1>7 DEF Lines_Placed
-----------------------------------------------------------------------------
(* The inductive invariant: the buffer holds some bytes and has their lines, *)
(* those of the text of the client unless a call failed.                     *)
Kept(f, b, e) == \E r : Mirrors(f, b, r, e)

(* The parts of the inductive invariant: the client, and the file.  The file *)
(* mirrors a text in every state but the first; that text is the document    *)
(* while it is in use, and may be an older one after a failure.              *)
Statuses == {"closed", "changing", "analyzed", "failed"}
Client_OK ==
  /\ eol \in Newlines /\ document \in Seq(Chars) /\ gap_size \in Nat \ {0} /\ status \in Statuses
File_OK ==
  /\ status = "closed" => F = Reserve_Source_File(0)
  /\ status # "closed" => \E b \in Seq(Bytes_Of(eol)) : Clean(b, eol) /\ Kept(F, b, eol)
IInv ==
  /\ Client_OK /\ eol \in Eols /\ File_OK
  /\ In_Use => Kept(F, Bytes(document), eol)
  /\ FailsOnlyIfFull

(* What it says of the states in which the document is in use.               *)
LEMMA InUseKept ==
  ASSUME IInv, In_Use
  PROVE  /\ eol \in Newlines /\ document \in Seq(Chars) /\ Bytes(document) \in Seq(Bytes_Of(eol))
         /\ Clean(Bytes(document), eol)
         /\ \E r : Mirrors(F, Encoded(document, eol), r, eol)
<1>1. eol \in Newlines /\ document \in Seq(Chars) BY DEF IInv, Client_OK
<1>2. Bytes(document) = Encoded(document, eol) BY DEF Bytes
<1>3. Kept(F, Bytes(document), eol) BY DEF IInv
<1>4. Encoded(document, eol) \in Seq(Bytes_Of(eol)) BY <1>1, EncodedType
<1>5. Clean(Encoded(document, eol), eol) BY <1>1, EncodedClean
<1> QED BY ONLY <1>1, <1>2, <1>3, <1>4, <1>5 DEF Kept

(* The invariant holds at the start.                                         *)
LEMMA InvInit == Init => IInv
<1> SUFFICES ASSUME Init PROVE IInv OBVIOUS
<1>1. eol \in Newlines /\ eol \in Eols BY SourceBufferAssumption DEF Init, Newlines
<1>2. document \in Seq(Chars) /\ gap_size \in Nat \ {0} /\ status = "closed"
  BY SourceBufferAssumption DEF Init
<1>3. Client_OK BY <1>1, <1>2 DEF Client_OK, Statuses
<1>4. File_OK BY <1>2 DEF Init, File_OK
<1>5. ~In_Use BY <1>2 DEF In_Use
<1>6. FailsOnlyIfFull BY <1>2 DEF FailsOnlyIfFull
<1> QED BY <1>1, <1>3, <1>4, <1>5, <1>6 DEF IInv

(* It implies the invariants of the model.                                   *)
LEMMA ReservedSound == Record_OK(Reserve_Source_File(0))
<1>1. PICK f : f = Reserve_Source_File(0) OBVIOUS
<1>2. Get_Buffer_Length(f) = 0 BY ONLY <1>1, 0 \in Nat, Reserved
<1>3. /\ f.Source = [p \in 0 .. 0 - 1 |-> Stale] /\ f.File_Length = 0
      /\ f.Gap_Start = 0 /\ f.Gap_Last = 0 /\ f.Lines = <<0>>
      /\ f.Cache_Line = 1 /\ f.Cache_Pos = 0
  BY ONLY <1>1 DEF Reserve_Source_File
<1>4. DOMAIN f.Source = 0 .. 0 - 1 BY ONLY <1>3
<1>5. <<0>> \in Seq(0 .. 0) /\ DOMAIN <<0>> = {1} /\ <<0>>[1] = 0 OBVIOUS
<1>6. f.Gap_Last \in f.Gap_Start - 1 .. 0 /\ f.File_Length \in Nat /\ f.Gap_Start \in Nat BY ONLY <1>3
<1>7. f.Lines \in Seq(0 .. f.File_Length) BY ONLY <1>3, <1>5
<1>8. f.Cache_Line \in DOMAIN f.Lines /\ f.Cache_Pos = f.Lines[f.Cache_Line] BY ONLY <1>3, <1>5
<1> QED BY ONLY <1>1, <1>2, <1>4, <1>6, <1>7, <1>8 DEF Record_OK

(* It implies each invariant of the model.                                   *)
LEMMA InvTyped == IInv => TypeOK
<1> SUFFICES ASSUME IInv PROVE TypeOK OBVIOUS
<1>1. Client_OK /\ eol \in Eols /\ File_OK BY DEF IInv
<1>2. Record_OK(F)
  <2>1. CASE status = "closed" BY ONLY <1>1, <2>1, ReservedSound DEF File_OK
  <2>2. CASE status # "closed"
    <3>1. PICK b \in Seq(Bytes_Of(eol)) : Kept(F, b, eol) BY ONLY <1>1, <2>2 DEF File_OK
    <3>2. PICK r : Mirrors(F, b, r, eol) BY ONLY <3>1 DEF Kept
    <3>3. eol \in Newlines BY ONLY <1>1 DEF Client_OK
    <3> QED BY ONLY <3>2, <3>3, b \in Seq(Bytes_Of(eol)), RecordSound
  <2> QED BY <2>1, <2>2
<1>3. /\ gap_size \in Nat /\ document \in Seq(Letters \cup {"eol"})
      /\ status \in {"closed", "changing", "analyzed", "failed"}
  BY ONLY <1>1 DEF Client_OK, Statuses, Chars
<1> QED BY ONLY <1>1, <1>2, <1>3 DEF TypeOK, Record_OK

(* The buffer is sound.                                                      *)
LEMMA InvSound == IInv => BufferSound
<1> SUFFICES ASSUME IInv PROVE BufferSound OBVIOUS
<1>1. TypeOK BY InvTyped
<1>2. ASSUME In_Use PROVE Gap_OK(F, eol)
  <2>1. PICK r : Mirrors(F, Encoded(document, eol), r, eol) BY <1>2, InUseKept
  <2>2. PICK b : b = Encoded(document, eol) OBVIOUS
  <2>3. eol \in Newlines /\ document \in Seq(Chars) BY <1>2, InUseKept
  <2>4. b \in Seq(Bytes_Of(eol)) /\ Mirrors(F, b, r, eol) BY ONLY <2>1, <2>2, <2>3, EncodedType
  <2> QED BY ONLY <2>3, <2>4, GapSoundOf
<1>3. GapSound BY ONLY <1>2 DEF GapSound, Gap_OK
<1> QED BY <1>1, <1>3 DEF BufferSound

(* Its content is the text of the client.                                    *)
LEMMA InvContent == IInv => ContentMirrors
<1> SUFFICES ASSUME IInv, In_Use PROVE Content(F) = Bytes(document) BY DEF ContentMirrors
<1>1. PICK r : Mirrors(F, Encoded(document, eol), r, eol) BY InUseKept
<1>2. PICK b : b = Encoded(document, eol) OBVIOUS
<1>3. eol \in Newlines /\ document \in Seq(Chars) BY InUseKept
<1>4. b \in Seq(Bytes_Of(eol)) /\ Holds(F, b, eol) BY ONLY <1>1, <1>2, <1>3, EncodedType DEF Mirrors
<1>5. Content(F) = b BY ONLY <1>3, <1>4, ContentIs
<1> QED BY ONLY <1>2, <1>5 DEF Bytes

(* A position of the client, in the file.                                    *)
LEMMA BufferPositionIs ==
  ASSUME IInv, In_Use, NEW i \in 0 .. Len(document)
  PROVE  /\ F.Lines[Line_Of(document, i)] + Offset_Of(document, i) = Buffer_Position(i)
         /\ Located_Line(F, Buffer_Position(i)) = Line_Of(document, i)
<1>1. PICK r : Mirrors(F, Encoded(document, eol), r, eol) BY InUseKept
<1>2. eol \in Newlines /\ document \in Seq(Chars) BY InUseKept
<1>3. Position_OK(F, document, eol, i) BY ONLY <1>1, <1>2, i \in 0 .. Len(document), PositionFound
<1>4. Buffer_Position(i) =
        IF Byte_At(document, i, eol) >= F.Gap_Start THEN Byte_At(document, i, eol) + Gap_Length(F)
        ELSE Byte_At(document, i, eol)
  BY ONLY TRUE DEF Buffer_Position, Byte_At, Bytes
<1> QED BY ONLY <1>3, <1>4 DEF Position_OK

(* The positions of the client are those of the buffer.                      *)
LEMMA InvPositions == IInv => PositionsExact
<1> SUFFICES ASSUME IInv, In_Use
             PROVE  /\ Len(F.Lines) = Line_Of(document, Len(document))
                    /\ \A i \in 0 .. Len(document) :
                         F.Lines[Line_Of(document, i)] + Offset_Of(document, i) = Buffer_Position(i)
  BY DEF PositionsExact
<1>1. PICK r : Mirrors(F, Encoded(document, eol), r, eol) BY InUseKept
<1>2. eol \in Newlines /\ document \in Seq(Chars) BY InUseKept
<1>3. Len(F.Lines) = Line_Of(document, Len(document)) BY ONLY <1>1, <1>2, LinesCounted
<1> QED BY <1>3, BufferPositionIs

(* Each lookup finds the line of the client.                                 *)
LEMMA InvLookup == IInv => LookupExact
<1> SUFFICES ASSUME IInv, status = "analyzed", NEW i \in 0 .. Len(document)
             PROVE  Located_Line(F, Buffer_Position(i)) = Line_Of(document, i)
  BY DEF LookupExact
<1>1. In_Use BY DEF In_Use
<1> QED BY <1>1, BufferPositionIs

-----------------------------------------------------------------------------
(* Each position is on a line.                                               *)
LEMMA LineExists ==
  ASSUME NEW li, Ascending(li), NEW n \in Nat, n = Len(li), n >= 1, li[1] = 0, NEW pos \in Nat
  PROVE  \E A \in 1 .. n : On_Line(li, A, pos)
<1> SUFFICES ASSUME ~\E A \in 1 .. n : On_Line(li, A, pos) PROVE FALSE OBVIOUS
<1> DEFINE T == {k \in Nat : k \in 1 .. n => li[k] <= pos}
<1>1. 0 \in T OBVIOUS
<1>2. ASSUME NEW k \in T PROVE k + 1 \in T
  <2>1. k \in Nat /\ (k \in 1 .. n => li[k] <= pos) BY <1>2
  <2>2. ASSUME k + 1 \in 1 .. n PROVE li[k + 1] <= pos
    <3>1. PICK c \in Nat : c = li[k + 1] BY ONLY <2>2, n = Len(li), Ascending(li) DEF Ascending
    <3>2. CASE k = 0 BY ONLY <3>2, li[1] = 0, pos \in Nat
    <3>3. CASE k # 0
      <4>1. k \in 1 .. n /\ k < n BY ONLY <2>1, <2>2, <3>3, n \in Nat
      <4>2. li[k] <= pos BY <2>1, <4>1
      <4>3. ~On_Line(li, k, pos) BY <4>1
      <4>4. ~(pos < li[k + 1]) BY ONLY <4>1, <4>2, <4>3, n = Len(li) DEF On_Line
      <4> QED BY ONLY <3>1, <4>4, c \in Nat, pos \in Nat
    <3> QED BY <3>2, <3>3
  <2>3. PICK m \in Nat : m = k + 1 BY <2>1
  <2>4. m \in 1 .. n => li[m] <= pos BY ONLY <2>2, <2>3
  <2>5. m \in T BY ONLY <2>4, m \in Nat DEF T
  <2> QED BY ONLY <2>3, <2>5
<1> HIDE DEF T
<1>3. Nat \subseteq T BY <1>1, <1>2, SetInduction DEF T
<1>4. n \in 1 .. n BY ONLY n \in Nat, n >= 1
<1>5. li[n] <= pos BY <1>3, <1>4 DEF T
<1>6. On_Line(li, n, pos) BY ONLY <1>5, n = Len(li), n \in Nat DEF On_Line
<1> QED BY <1>4, <1>6

(* A file after the line of a position was looked up.                        *)
With_Cache(f, L, p) == [f EXCEPT !.Cache_Line = L, !.Cache_Pos = p]

(* The fields of a file with another cache.                                  *)
LEMMA WithCacheFields ==
  ASSUME NEW e, NEW g \in Source_File_Records(e), NEW L \in Nat, NEW p \in Nat, NEW h, h = With_Cache(g, L, p)
  PROVE  /\ h \in Source_File_Records(e)
         /\ h.Source = g.Source /\ h.File_Length = g.File_Length /\ h.Gap_Start = g.Gap_Start
         /\ h.Gap_Last = g.Gap_Last /\ h.Lines = g.Lines
         /\ h.Cache_Line = L /\ h.Cache_Pos = p
BY DEF With_Cache, Source_File_Records

(* A lookup leaves a file that mirrors its text.                             *)
LEMMA LocatedMirrors ==
  ASSUME NEW e, NEW S, NEW b \in Seq(S), NEW f, NEW r, Mirrors(f, b, r, e), NEW pos \in Nat
  PROVE  LET L == Located_Line(f, pos)
         IN Mirrors(With_Cache(f, L, f.Lines[L]), b, r, e)
<1>1. Holds(f, b, e) /\ Rows(r, Starts(b)) /\ f.Lines = Placed(f, r) BY DEF Mirrors
<1>2. PICK li : li = f.Lines OBVIOUS
<1>3. Cached(f, li) /\ Ascending(li) /\ Lines_Placed(li, f, r)
  BY ONLY <1>2, b \in Seq(S), Mirrors(f, b, r, e), LinesOf
<1>4. PICK n \in Nat : n = Len(li) /\ n = Len(r) BY ONLY <1>3 DEF Ascending, Lines_Placed
<1>5. n >= 1 /\ li[1] = 0
  <2>1. Len(r) >= 1 /\ r[1] = 0 BY ONLY <1>1, b \in Seq(S), RowsOf
  <2>2. f.Gap_Start \in Nat /\ f.Gap_Start >= 1 BY ONLY <1>1, b \in Seq(S), HoldsFields
  <2>3. At(f, 0) = 0
    <3>1. 0 < f.Gap_Start BY ONLY <2>2
    <3> QED BY ONLY <3>1 DEF At
  <2>4. 1 \in 1 .. Len(r) BY ONLY <1>4, <2>1, n \in Nat
  <2>5. li[1] = At(f, r[1]) BY ONLY <1>3, <2>4 DEF Lines_Placed
  <2> QED BY ONLY <1>4, <2>1, <2>3, <2>5
<1>6. PICK A \in 1 .. n : On_Line(li, A, pos)
  BY ONLY <1>3, <1>4, <1>5, n \in Nat, pos \in Nat, LineExists
<1>7. Located_Line(f, pos) = A
  <2>1. A \in 1 .. Len(li) BY <1>4
  <2> QED BY ONLY <1>3, <1>6, <2>1, pos \in Nat, LocatedLineIs
<1>8. PICK p \in Nat : p = li[A]
  <2>1. li \in Seq(Nat) BY ONLY <1>3 DEF Ascending
  <2>2. A \in 1 .. Len(li) BY <1>4, <1>6
  <2>3. li[A] \in Nat BY ONLY <2>1, <2>2
  <2> QED BY ONLY <2>3
<1>9. PICK h : h = With_Cache(f, A, p) OBVIOUS
<1>10. f \in Source_File_Records(e) /\ A \in Nat
  <2>1. A \in Nat BY <1>6
  <2> QED BY ONLY <1>1, <2>1 DEF Holds
<1>11. /\ h \in Source_File_Records(e)
       /\ h.Source = f.Source /\ h.File_Length = f.File_Length /\ h.Gap_Start = f.Gap_Start
       /\ h.Gap_Last = f.Gap_Last /\ h.Lines = f.Lines
       /\ h.Cache_Line = A /\ h.Cache_Pos = p
  BY ONLY <1>9, <1>10, p \in Nat DEF With_Cache, Source_File_Records
<1>12. Gap_Length(h) = Gap_Length(f) BY ONLY <1>11 DEF Gap_Length
<1>13. \A q : At(h, q) = At(f, q) BY ONLY <1>11, <1>12 DEF At
<1>14. Holds(h, b, e) BY ONLY <1>1, <1>11, <1>12, <1>13 DEF Holds
<1>15. h.Lines = Placed(h, r) BY ONLY <1>1, <1>11, <1>13 DEF Placed
<1>16. h.Cache_Line \in 1 .. Len(h.Lines) /\ h.Cache_Pos = h.Lines[h.Cache_Line]
  BY ONLY <1>2, <1>4, <1>8, <1>11, A \in 1 .. n
<1>17. Mirrors(h, b, r, e) BY ONLY <1>1, <1>14, <1>15, <1>16 DEF Mirrors
<1> QED BY ONLY <1>2, <1>7, <1>8, <1>9, <1>17

-----------------------------------------------------------------------------
(* A step that keeps the document in use.                                    *)
LEMMA NextInUse ==
  ASSUME Client_OK', eol' \in Eols, status' \in {"analyzed", "changing"},
         Kept(F', Encoded(document', eol'), eol')
  PROVE  IInv'
<1>1. eol' \in Newlines /\ document' \in Seq(Chars) BY ONLY Client_OK' DEF Client_OK
<1>2. PICK b : b = Encoded(document', eol') OBVIOUS
<1>3. b \in Seq(Bytes_Of(eol')) BY ONLY <1>1, <1>2, EncodedType
<1>4. Clean(b, eol') BY ONLY <1>1, <1>2, EncodedClean
<1>5. Kept(F', b, eol') BY ONLY <1>2, Kept(F', Encoded(document', eol'), eol')
<1>6. status' # "closed" /\ status' # "failed" BY ONLY status' \in {"analyzed", "changing"}
<1>7. File_OK' BY ONLY <1>3, <1>4, <1>5, <1>6 DEF File_OK
<1>8. (In_Use => Kept(F, Bytes(document), eol))' BY ONLY Kept(F', Encoded(document', eol'), eol') DEF Bytes
<1>9. FailsOnlyIfFull' BY ONLY <1>6 DEF FailsOnlyIfFull
<1> QED BY ONLY <1>7, <1>8, <1>9, Client_OK', eol' \in Eols DEF IInv

(* A step in which libghdl raises an exception: the file keeps a text.       *)
LEMMA NextFailed ==
  ASSUME Client_OK', eol' \in Eols, status' = "failed",
         NEW b \in Seq(Bytes_Of(eol')), Clean(b, eol'), Kept(F', b, eol'),
         \/ Len(Encoded(document', eol')) + 1 = Get_Buffer_Length(F')
         \/ Gap_Length(F') = 0 /\ F'.Gap_Start = F'.File_Length
  PROVE  IInv'
<1>1. File_OK'
  BY ONLY status' = "failed", b \in Seq(Bytes_Of(eol')), Clean(b, eol'), Kept(F', b, eol') DEF File_OK
<1>2. ~In_Use' BY ONLY status' = "failed" DEF In_Use
<1>3. FailsOnlyIfFull'
  BY ONLY \/ Len(Encoded(document', eol')) + 1 = Get_Buffer_Length(F')
          \/ Gap_Length(F') = 0 /\ F'.Gap_Start = F'.File_Length
     DEF FailsOnlyIfFull, Bytes
<1> QED BY ONLY <1>1, <1>2, <1>3, Client_OK', eol' \in Eols DEF IInv

(* A file just filled, and a file that mirrors the document, are analyzed.   *)
LEMMA AnalyzedFilled ==
  ASSUME NEW g, NEW n, Analyze(g), Client_OK', eol' \in Eols, Filled(g, Encoded(document', eol'), eol', n)
  PROVE  IInv'
<1>1. PICK e : e = eol' OBVIOUS
<1>2. PICK b : b = Encoded(document', eol') OBVIOUS
<1>3. e \in Newlines /\ document' \in Seq(Chars) BY ONLY <1>1, Client_OK' DEF Client_OK
<1>4. b \in Seq(Bytes_Of(e)) /\ Clean(b, e) BY ONLY <1>1, <1>2, <1>3, EncodedType, EncodedClean
<1>5. Filled(g, b, e, n) BY ONLY <1>1, <1>2, Filled(g, Encoded(document', eol'), eol', n)
<1>6. (\E r : Mirrors(Linted(g), b, r, e)) /\ Lint_OK(g) BY ONLY <1>3, <1>4, <1>5, LintedFilled
<1>7. F' = Linted(g) /\ status' = "analyzed" BY ONLY <1>6, Analyze(g) DEF Analyze
<1>8. Kept(F', b, e) BY ONLY <1>6, <1>7 DEF Kept
<1>9. Kept(F', Encoded(document', eol'), eol') BY ONLY <1>1, <1>2, <1>8
<1>10. status' \in {"analyzed", "changing"} BY ONLY <1>7
<1> QED BY ONLY <1>9, <1>10, Client_OK', eol' \in Eols, NextInUse

(* A document that is loaded: the buffer has room for it.                    *)
LEMMA InvLoad == IInv /\ Load => IInv'
<1> SUFFICES ASSUME IInv, Load PROVE IInv' OBVIOUS
<1>1. PICK text \in Files :
        /\ document' = text
        /\ Analyze(Fill_Text(Reserve_Source_File(Len(Bytes(text)) + Initial_Gap), Bytes(text)))
  BY DEF Load
<1>2. gap_size' = gap_size /\ eol' = eol BY DEF Load
<1>3. PICK e : e = eol OBVIOUS
<1>4. e \in Newlines /\ gap_size \in Nat \ {0} /\ e \in Eols BY <1>3 DEF IInv, Client_OK
<1>5. text \in Seq(Chars) BY SourceBufferAssumption DEF Chars
<1>6. PICK b : b = Encoded(text, e) OBVIOUS
<1>7. b \in Seq(Bytes_Of(e)) BY ONLY <1>4, <1>5, <1>6, EncodedType
<1>8. Bytes(text) = b BY ONLY <1>3, <1>6 DEF Bytes
<1>9. PICK n : n = Len(b) + Initial_Gap OBVIOUS
<1>10. Len(b) \in Nat /\ Initial_Gap \in Nat /\ Initial_Gap >= 2 BY ONLY <1>7, SourceBufferAssumption
<1>11. n \in Nat /\ Len(b) + 2 <= n BY ONLY <1>9, <1>10
<1>12. PICK f : f = Reserve_Source_File(n) OBVIOUS
<1>13. f \in Source_File_Records(e) /\ Get_Buffer_Length(f) = n BY ONLY <1>11, <1>12, Reserved
<1>14. Fills(f, b) BY ONLY <1>11, <1>13 DEF Fills
<1>15. PICK g : g = Fill_Text(f, b) OBVIOUS
<1>16. Filled(g, b, e, n) BY ONLY <1>4, <1>7, <1>13, <1>14, <1>15, FillTextHolds
<1>17. Analyze(g) BY ONLY <1>1, <1>8, <1>9, <1>12, <1>15
<1>18. status' \in Statuses BY ONLY <1>17 DEF Analyze, Statuses
<1>19. Client_OK' BY ONLY <1>1, <1>2, <1>3, <1>4, <1>5, <1>18 DEF Client_OK
<1>20. Filled(g, Encoded(document', eol'), eol', n) BY ONLY <1>1, <1>2, <1>3, <1>6, <1>16
<1>21. eol' \in Eols BY ONLY <1>2, <1>3, <1>4
<1> QED BY ONLY <1>17, <1>19, <1>20, <1>21, AnalyzedFilled

(* An analysis of the document leaves the file as it is.                     *)
LEMMA InvLint == IInv /\ Lint => IInv'
<1> SUFFICES ASSUME IInv, Lint PROVE IInv' OBVIOUS
<1>1. In_Use /\ Analyze(F) /\ gap_size' = gap_size /\ eol' = eol /\ document' = document
  BY DEF Lint, In_Use
<1>2. eol \in Eols /\ gap_size \in Nat \ {0} BY DEF IInv, Client_OK
<1>3. PICK e : e = eol OBVIOUS
<1>4. PICK b : b = Encoded(document, eol) OBVIOUS
<1>5. e \in Newlines /\ document \in Seq(Chars) BY <1>1, <1>3, InUseKept
<1>6. b \in Seq(Bytes_Of(e)) /\ Clean(b, e) BY ONLY <1>3, <1>4, <1>5, EncodedType, EncodedClean
<1>7. PICK r : Mirrors(F, b, r, e) BY <1>1, <1>3, <1>4, InUseKept
<1>8. PICK g : g = F OBVIOUS
<1>9. Mirrors(g, b, r, e) BY ONLY <1>7, <1>8
<1>10. Linted(g) = g /\ Lint_OK(g) BY ONLY <1>5, <1>6, <1>9, LintedMirrors
<1>11. F' = g /\ status' = "analyzed" BY ONLY <1>1, <1>8, <1>10 DEF Analyze
<1>12. Kept(F', Encoded(document', eol'), eol') BY ONLY <1>1, <1>3, <1>4, <1>9, <1>11 DEF Kept
<1>13. status' \in {"analyzed", "changing"} /\ status' \in Statuses BY ONLY <1>11 DEF Statuses
<1>14. Client_OK' BY ONLY <1>1, <1>2, <1>3, <1>5, <1>13 DEF Client_OK
<1>15. eol' \in Eols BY ONLY <1>1, <1>2
<1> QED BY ONLY <1>12, <1>13, <1>14, <1>15, NextInUse

(* So does a lookup, but for the cache.                                      *)
LEMMA InvLocate == IInv /\ Locate => IInv'
<1> SUFFICES ASSUME IInv, Locate PROVE IInv' OBVIOUS
<1>1. In_Use /\ status = "analyzed" /\ UNCHANGED <<gap_size, eol, document, status>> BY DEF Locate, In_Use
<1>2. eol \in Eols /\ gap_size \in Nat \ {0} BY DEF IInv, Client_OK
<1>3. PICK e : e = eol OBVIOUS
<1>4. PICK b : b = Encoded(document, eol) OBVIOUS
<1>5. e \in Newlines /\ document \in Seq(Chars) BY <1>1, <1>3, InUseKept
<1>6. b \in Seq(Bytes_Of(e)) BY ONLY <1>3, <1>4, <1>5, EncodedType
<1>7. PICK r : Mirrors(F, b, r, e) BY <1>1, <1>3, <1>4, InUseKept
<1>8. PICK f : f = F OBVIOUS
<1>9. Mirrors(f, b, r, e) BY ONLY <1>7, <1>8
<1>10. PICK p \in 0 .. f.File_Length : F' = With_Cache(f, Located_Line(f, p), f.Lines[Located_Line(f, p)])
  BY <1>8 DEF Locate, With_Cache
<1>11. f.File_Length \in Nat BY ONLY <1>5, <1>6, <1>9, RecordSound DEF Record_OK
<1>12. p \in Nat BY ONLY <1>11, p \in 0 .. f.File_Length
<1>13. PICK L : L = Located_Line(f, p) OBVIOUS
<1>14. Mirrors(With_Cache(f, L, f.Lines[L]), b, r, e)
  BY ONLY <1>6, <1>9, <1>12, <1>13, LocatedMirrors
<1>15. Mirrors(F', b, r, e) BY ONLY <1>10, <1>13, <1>14
<1>16. Kept(F', Encoded(document', eol'), eol') BY ONLY <1>1, <1>3, <1>4, <1>15 DEF Kept
<1>17. status' \in {"analyzed", "changing"} /\ status' \in Statuses BY ONLY <1>1 DEF Statuses
<1>18. Client_OK' BY ONLY <1>1, <1>2, <1>3, <1>5, <1>17 DEF Client_OK
<1>19. eol' \in Eols BY ONLY <1>1, <1>2
<1> QED BY ONLY <1>16, <1>17, <1>18, <1>19, NextInUse

-----------------------------------------------------------------------------
(* The text of a file that is reloaded: the buffer is as long as before, or  *)
(* has room for the text.                                                    *)
LEMMA InvReload == IInv /\ Reload => IInv'
<1> SUFFICES ASSUME IInv, Reload PROVE IInv' OBVIOUS
<1>1. In_Use /\ eol' = eol BY DEF Reload, In_Use
<1>2. eol \in Eols /\ gap_size \in Nat \ {0} BY DEF IInv, Client_OK
<1>3. PICK e : e = eol OBVIOUS
<1>4. PICK c : c = Encoded(document, eol) OBVIOUS
<1>5. e \in Newlines /\ document \in Seq(Chars) BY <1>1, <1>3, InUseKept
<1>6. c \in Seq(Bytes_Of(e)) /\ Clean(c, e) BY ONLY <1>3, <1>4, <1>5, EncodedType, EncodedClean
<1>7. PICK h : h = F OBVIOUS
<1>8. PICK r : Mirrors(h, c, r, e) BY <1>1, <1>3, <1>4, <1>7, InUseKept
<1>9. Holds(h, c, e) BY ONLY <1>8 DEF Mirrors
<1>10. PICK text \in Files : \E f, gap, l :
         /\ l = Len(Bytes(text))
         /\ gap = IF Reload_Extends(l) THEN 2 * gap_size ELSE gap_size
         /\ f = IF Reload_Extends(l) /\ ~Copy_Fails(F) THEN Extended(F, l, gap) ELSE F
         /\ document' = text /\ gap_size' = gap
         /\ \/ Fills(f, Bytes(text)) /\ Analyze(Fill_Text(f, Bytes(text)))
            \/ ~Fills(f, Bytes(text)) /\ F' = f /\ status' = "failed"
  BY DEF Reload
<1>11. PICK f, gap, l :
         /\ l = Len(Bytes(text))
         /\ gap = IF Reload_Extends(l) THEN 2 * gap_size ELSE gap_size
         /\ f = IF Reload_Extends(l) /\ ~Copy_Fails(F) THEN Extended(F, l, gap) ELSE F
         /\ document' = text /\ gap_size' = gap
         /\ \/ Fills(f, Bytes(text)) /\ Analyze(Fill_Text(f, Bytes(text)))
            \/ ~Fills(f, Bytes(text)) /\ F' = f /\ status' = "failed"
  BY ONLY <1>10
<1>12. text \in Seq(Chars) BY SourceBufferAssumption DEF Chars
<1>13. PICK b : b = Encoded(text, e) OBVIOUS
<1>14. b \in Seq(Bytes_Of(e)) BY ONLY <1>5, <1>12, <1>13, EncodedType
<1>15. Bytes(text) = b BY ONLY <1>3, <1>13 DEF Bytes
<1>16. l = Len(b) /\ l \in Nat BY ONLY <1>11, <1>14, <1>15
<1>17. gap \in Nat \ {0}
  <2>1. PICK G \in Nat \ {0} : G = gap_size BY ONLY <1>2
  <2>2. gap = G \/ gap = 2 * G BY ONLY <1>11, <2>1
  <2> QED BY ONLY <2>2, G \in Nat \ {0}
<1>18. eol' \in Eols BY ONLY <1>1, <1>2
<1>19. ASSUME status' \in Statuses PROVE Client_OK'
  BY ONLY <1>1, <1>3, <1>5, <1>11, <1>12, <1>17, <1>19 DEF Client_OK
<1>20. PICK n : n = Get_Buffer_Length(f) OBVIOUS
(* A buffer that is long enough is filled.                                   *)
<1>21. ASSUME f \in Source_File_Records(e), Fills(f, b) PROVE IInv'
  <2>1. PICK g : g = Fill_Text(f, b) OBVIOUS
  <2>2. Filled(g, b, e, n) BY ONLY <1>5, <1>14, <1>20, <1>21, <2>1, FillTextHolds
  <2>3. Analyze(g) BY ONLY <1>11, <1>15, <1>21, <2>1
  <2>4. status' \in Statuses BY ONLY <2>3 DEF Analyze, Statuses
  <2>5. Client_OK' BY ONLY <1>19, <2>4
  <2>6. Filled(g, Encoded(document', eol'), eol', n) BY ONLY <1>1, <1>3, <1>11, <1>13, <2>2
  <2> QED BY ONLY <1>18, <2>3, <2>5, <2>6, AnalyzedFilled
<1>22. CASE Reload_Extends(l) /\ ~Copy_Fails(F)
  <2>1. f = Extended(h, l, gap) BY ONLY <1>7, <1>11, <1>22
  <2>2. gap \in Nat /\ gap >= 2
    <3>1. PICK G \in Nat \ {0} : G = gap_size BY ONLY <1>2
    <3>2. gap = 2 * G BY ONLY <1>11, <1>22, <3>1
    <3> QED BY ONLY <3>2, G \in Nat \ {0}
  <2>3. (\E q : Mirrors(f, c, q, e)) /\ Gap_Length(f) \in Nat /\ Gap_Length(f) >= l
    BY ONLY <1>5, <1>6, <1>9, <1>16, <2>1, <2>2, ExtendedMirrors
  <2>4. PICK G \in Nat : G = Gap_Length(f) BY ONLY <2>3
  <2>5. Holds(f, c, e) BY ONLY <2>3 DEF Mirrors
  <2>6. f \in Source_File_Records(e) BY ONLY <2>5 DEF Holds
  <2>7. n = Len(c) + 2 + G BY ONLY <1>5, <1>6, <1>20, <2>4, <2>5, HoldsReads
  <2>8. PICK k \in Nat : k = Len(c) BY ONLY <1>6
  <2>9. l + 2 <= n BY ONLY <1>16, <2>3, <2>4, <2>7, <2>8, G \in Nat, k \in Nat
  <2>10. Fills(f, b) BY ONLY <1>16, <1>20, <2>9 DEF Fills
  <2> QED BY ONLY <1>21, <2>6, <2>10
<1>23. CASE ~Reload_Extends(l)
  <2>1. f = h BY ONLY <1>7, <1>11, <1>23
  <2>2. f \in Source_File_Records(e) BY ONLY <1>9, <2>1 DEF Holds
  <2>3. CASE Fills(f, b) BY ONLY <1>21, <2>2, <2>3
  <2>4. CASE ~Fills(f, b)
    <3>1. F' = h /\ status' = "failed" BY ONLY <1>11, <1>15, <2>1, <2>4
    <3>2. n = Len(c) + 2 + Gap_Length(h) /\ Gap_Length(h) \in Nat /\ Len(c) \in Nat
      BY ONLY <1>5, <1>6, <1>9, <1>20, <2>1, HoldsReads DEF Holds
    <3>3. PICK G \in Nat, k \in Nat : G = Gap_Length(h) /\ k = Len(c) BY ONLY <3>2
    <3>4. n \in Nat BY ONLY <3>2, <3>3, G \in Nat, k \in Nat
    <3>5. ~(l >= n) BY ONLY <1>7, <1>20, <1>23, <2>1 DEF Reload_Extends
    <3>6. ~(l + 2 <= n) BY ONLY <1>16, <1>20, <2>4 DEF Fills
    <3>7. l + 1 = n BY ONLY <1>16, <3>4, <3>5, <3>6
    <3>8. Len(Encoded(document', eol')) + 1 = Get_Buffer_Length(F')
      BY ONLY <1>1, <1>3, <1>11, <1>13, <1>16, <1>20, <2>1, <3>1, <3>7
    <3>9. Client_OK' BY ONLY <1>19, <3>1 DEF Statuses
    <3>10. Kept(F', c, e) BY ONLY <1>8, <3>1 DEF Kept
    <3>11. c \in Seq(Bytes_Of(eol')) /\ Clean(c, eol') /\ Kept(F', c, eol')
      BY ONLY <1>1, <1>3, <1>6, <3>10
    <3> QED BY ONLY <1>18, <3>1, <3>8, <3>9, <3>11, NextFailed
  <2> QED BY <2>3, <2>4
(* The buffer cannot be extended, and is too short.                          *)
<1>24. CASE Reload_Extends(l) /\ Copy_Fails(F)
  <2>1. f = h BY ONLY <1>7, <1>11, <1>24
  <2>2. n = Len(c) + 2 + Gap_Length(h) /\ Gap_Length(h) \in Nat /\ Len(c) \in Nat
    BY ONLY <1>5, <1>6, <1>9, <1>20, <2>1, HoldsReads DEF Holds
  <2>3. PICK G \in Nat, k \in Nat : G = Gap_Length(h) /\ k = Len(c) BY ONLY <2>2
  <2>4. n \in Nat BY ONLY <2>2, <2>3, G \in Nat, k \in Nat
  <2>5. l >= n BY ONLY <1>7, <1>20, <1>24, <2>1 DEF Reload_Extends
  <2>6. ~(l + 2 <= n) BY ONLY <1>16, <2>4, <2>5
  <2>7. ~Fills(f, b) BY ONLY <1>16, <1>20, <2>6 DEF Fills
  <2>8. F' = h /\ status' = "failed" BY ONLY <1>11, <1>15, <2>1, <2>7
  <2>9. Copy_Fails(h) BY ONLY <1>7, <1>24
  <2>10. Gap_Length(F') = 0 /\ F'.Gap_Start = F'.File_Length
    BY ONLY <1>5, <1>6, <1>9, <2>8, <2>9, CopyFailsIf
  <2>11. Client_OK' BY ONLY <1>19, <2>8 DEF Statuses
  <2>12. Kept(F', c, e) BY ONLY <1>8, <2>8 DEF Kept
  <2>13. c \in Seq(Bytes_Of(eol')) /\ Clean(c, eol') /\ Kept(F', c, eol')
    BY ONLY <1>1, <1>3, <1>6, <2>12
  <2> QED BY ONLY <1>18, <2>8, <2>10, <2>11, <2>13, NextFailed
<1> QED BY <1>22, <1>23, <1>24

-----------------------------------------------------------------------------
(* The two ends of a change keep the invariant.                              *)
LEMMA ChangeEnded ==
  ASSUME Client_OK', eol' \in Eols, NEW e, e = eol', NEW b \in Seq(Bytes_Of(e)), Clean(b, e),
         NEW d, d = Encoded(document', eol'),
         NEW R, NEW f, NEW r, NEW x, NEW n, Outcome(R, f, b, d, r, e, x, n),
         Mirrors(f, b, r, e), Ends_Change(R), R.status # "full"
  PROVE  IInv'
<1>1. CASE R.status = "done" /\ \E q : Mirrors(R.f, d, q, e)
  <2>1. F' = R.f /\ status' = "changing" BY ONLY <1>1, Ends_Change(R) DEF Ends_Change
  <2>2. Kept(F', d, e) BY ONLY <1>1, <2>1 DEF Kept
  <2>3. Kept(F', Encoded(document', eol'), eol')
    BY ONLY <2>2, e = eol', d = Encoded(document', eol')
  <2>4. status' \in {"analyzed", "changing"} BY ONLY <2>1
  <2> QED BY ONLY <2>3, <2>4, Client_OK', eol' \in Eols, NextInUse
<1>2. CASE R.status = "error" /\ R.f = f /\ Gap_Length(f) = 0 /\ f.Gap_Start = f.File_Length
  <2>1. F' = f /\ status' = "failed"
    <3>1. R.status # "done" BY ONLY <1>2
    <3> QED BY ONLY <1>2, <3>1, Ends_Change(R) DEF Ends_Change
  <2>2. Kept(F', b, e) BY ONLY <2>1, Mirrors(f, b, r, e) DEF Kept
  <2>3. Gap_Length(F') = 0 /\ F'.Gap_Start = F'.File_Length BY ONLY <1>2, <2>1
  <2>4. b \in Seq(Bytes_Of(eol')) /\ Clean(b, eol') /\ Kept(F', b, eol')
    BY ONLY <2>2, e = eol', b \in Seq(Bytes_Of(e)), Clean(b, e)
  <2> QED BY ONLY <2>1, <2>3, <2>4, Client_OK', eol' \in Eols, NextFailed
<1> QED BY ONLY <1>1, <1>2, Outcome(R, f, b, d, r, e, x, n), R.status # "full" DEF Outcome

(* A change of the text from first to last, of bytes x.                      *)
Changed_By(f, doc, first, last, text, x) ==
  LET replace(g) == Replace_Text(g, Line_Of(doc, first), Offset_Of(doc, first),
                                 Line_Of(doc, last), Offset_Of(doc, last), x)
      once == replace(f)
      again == Copied(once.f, replace(Extended(once.f, Len(x), 2 * gap_size)))
  IN /\ first <= last
     /\ document' = SubSeq(doc, 1, first) \o text \o SubSeq(doc, last + 1, Len(doc))
     /\ \/ once.status # "full" /\ Ends_Change(once) /\ gap_size' = gap_size
        \/ once.status = "full" /\ Ends_Change(again) /\ gap_size' = 2 * gap_size

(* A change keeps the invariant: its first replacement is done or fails, or  *)
(* it does not fit and the second one does.                                  *)
LEMMA InvChange == Assertions /\ IInv /\ Apply_Change => IInv'
<1> SUFFICES ASSUME Assertions, IInv, Apply_Change PROVE IInv' OBVIOUS
<1>1. In_Use /\ eol' = eol BY DEF Apply_Change, In_Use
<1>2. eol \in Eols /\ gap_size \in Nat \ {0} BY DEF IInv, Client_OK
<1>3. PICK e : e = eol OBVIOUS
<1>4. PICK doc : doc = document OBVIOUS
<1>5. e \in Newlines /\ doc \in Seq(Chars) BY <1>1, <1>3, <1>4, InUseKept
<1>6. PICK b : b = Encoded(doc, e) OBVIOUS
<1>7. b \in Seq(Bytes_Of(e)) /\ Clean(b, e) BY ONLY <1>5, <1>6, EncodedType, EncodedClean
<1>8. PICK h : h = F OBVIOUS
<1>9. PICK r : Mirrors(h, b, r, e) BY <1>1, <1>3, <1>4, <1>6, <1>8, InUseKept
<1>10. PICK first \in 0 .. Len(doc), last \in 0 .. Len(doc), text \in Inserts :
         Changed_By(h, doc, first, last, text, Bytes(text))
  <2>1. PICK first \in 0 .. Len(document), last \in 0 .. Len(document), text \in Inserts :
          Changed_By(F, document, first, last, text, Bytes(text))
    <3>1. \E first \in 0 .. Len(document), last \in 0 .. Len(document), text \in Inserts :
            Changed_By(F, document, first, last, text, Bytes(text))
      BY ONLY Apply_Change, ZenonT(60) DEF Apply_Change, Changed_By
    <3> QED BY ONLY <3>1
  <2> QED BY ONLY <1>4, <1>8, <2>1, first \in 0 .. Len(document), last \in 0 .. Len(document), text \in Inserts
<1>11. first \in 0 .. last /\ text \in Seq(Chars)
  <2>1. Len(doc) \in Nat BY ONLY <1>5
  <2>2. first <= last BY ONLY <1>10 DEF Changed_By
  <2>3. first \in 0 .. last BY ONLY <2>1, <2>2, first \in 0 .. Len(doc), last \in 0 .. Len(doc)
  <2>4. text \in Seq(Chars) BY ONLY SourceBufferAssumption, text \in Inserts DEF Chars
  <2> QED BY ONLY <2>3, <2>4
<1>12. PICK x : x = Encoded(text, e) OBVIOUS
<1>13. x \in Seq(Bytes_Of(e)) /\ Clean(x, e) BY ONLY <1>5, <1>11, <1>12, EncodedType, EncodedClean
<1>14. Bytes(text) = x BY ONLY <1>3, <1>12 DEF Bytes
<1>15. PICK after : after = SubSeq(doc, 1, first) \o text \o SubSeq(doc, last + 1, Len(doc)) OBVIOUS
<1>16. after \in Seq(Chars)
  BY ONLY <1>5, <1>11, <1>15, last \in 0 .. Len(doc), ChangeSpliced
<1>17. PICK d : d = Encoded(after, e) OBVIOUS
<1>18. d \in Seq(Bytes_Of(e)) BY ONLY <1>5, <1>16, <1>17, EncodedType
<1>19. PICK SL, so, EL, eo, s, t :
         /\ SL = Line_Of(doc, first) /\ so = Offset_Of(doc, first)
         /\ EL = Line_Of(doc, last) /\ eo = Offset_Of(doc, last)
         /\ s = Byte_At(doc, first, e) /\ t = Byte_At(doc, last, e)
  OBVIOUS
<1>20. ASSUME NEW q, Rows(q, Starts(b))
       PROVE  /\ Edit_Of(b, q, s, t, x, d, SL, so, EL, eo)
              /\ s \in Nat /\ t \in Nat /\ so \in Nat /\ eo \in Nat
  <2>1. Rows(q, Starts(Encoded(doc, e))) BY ONLY <1>6, <1>20
  <2>2. /\ Edit_Of(Encoded(doc, e), q, Byte_At(doc, first, e), Byte_At(doc, last, e), Encoded(text, e),
                   Encoded(after, e), Line_Of(doc, first), Offset_Of(doc, first),
                   Line_Of(doc, last), Offset_Of(doc, last))
        /\ Byte_At(doc, first, e) \in Nat /\ Byte_At(doc, last, e) \in Nat
        /\ Offset_Of(doc, first) \in Nat /\ Offset_Of(doc, last) \in Nat
    BY ONLY <1>5, <1>11, <1>15, <2>1, last \in 0 .. Len(doc), ChangeIsEdit
  <2> QED BY ONLY <1>6, <1>12, <1>17, <1>19, <2>2
<1>21. ASSUME NEW f, NEW q, Mirrors(f, b, q, e)
       PROVE  Outcome(Replace_Text(f, SL, so, EL, eo, x), f, b, d, q, e, x, t - s)
  <2>1. Rows(q, Starts(b)) BY ONLY <1>21 DEF Mirrors
  <2>2. /\ Edit_Of(b, q, s, t, x, d, SL, so, EL, eo)
        /\ s \in Nat /\ t \in Nat /\ so \in Nat /\ eo \in Nat
    BY ONLY <1>20, <2>1
  <2> QED BY ONLY <1>5, <1>7, <1>13, <1>18, <1>21, <2>2, Assertions, ReplaceTextMirrors
<1>22. PICK once : once = Replace_Text(h, SL, so, EL, eo, x) OBVIOUS
<1>23. PICK wide : wide = Extended(once.f, Len(x), 2 * gap_size) OBVIOUS
<1>24. PICK again : again = Copied(once.f, Replace_Text(wide, SL, so, EL, eo, x))
  OBVIOUS
<1>25. /\ document' = after
       /\ \/ once.status # "full" /\ Ends_Change(once) /\ gap_size' = gap_size
          \/ once.status = "full" /\ Ends_Change(again) /\ gap_size' = 2 * gap_size
  BY ONLY <1>10, <1>14, <1>15, <1>19, <1>22, <1>23, <1>24 DEF Changed_By
<1>26. Outcome(once, h, b, d, r, e, x, t - s) BY ONLY <1>9, <1>21, <1>22
<1>27. eol' \in Eols /\ e = eol' /\ d = Encoded(document', eol') BY ONLY <1>1, <1>2, <1>3, <1>17, <1>25
<1>28. PICK G \in Nat \ {0} : G = gap_size BY ONLY <1>2
<1>29. ASSUME NEW R, Ends_Change(R) PROVE Client_OK'
  <2>1. status' \in Statuses BY ONLY <1>29 DEF Ends_Change, Statuses
  <2>2. gap_size' = G \/ gap_size' = 2 * G BY ONLY <1>25, <1>28
  <2>3. gap_size' \in Nat \ {0} BY ONLY <2>2, G \in Nat \ {0}
  <2> QED BY ONLY <1>5, <1>16, <1>25, <1>27, <2>1, <2>3 DEF Client_OK
<1>30. CASE once.status # "full"
  <2>1. Ends_Change(once) BY ONLY <1>25, <1>30
  <2>2. Client_OK' BY ONLY <1>29, <2>1
  <2> QED BY ONLY <1>7, <1>9, <1>26, <1>27, <1>30, <2>1, <2>2, ChangeEnded
(* The buffer is extended: now the text fits.                                *)
<1>31. CASE once.status = "full" /\ ~Copy_Fails(once.f)
  <2>1. Ends_Change(again) BY ONLY <1>25, <1>31
  <2>2. Client_OK' BY ONLY <1>29, <2>1
  <2>3. Mirrors(once.f, b, r, e) BY ONLY <1>26, <1>31 DEF Outcome
  <2>4. PICK g : g = once.f OBVIOUS
  <2>5. Holds(g, b, e) BY ONLY <2>3, <2>4 DEF Mirrors
  <2>6. PICK k \in Nat : k = Len(x) BY ONLY <1>13
  <2>7. PICK gap \in Nat : gap = 2 * gap_size /\ gap >= 2
    <3>1. PICK gap : gap = 2 * G OBVIOUS
    <3> QED BY ONLY <1>28, <3>1, G \in Nat \ {0}
  <2>8. wide = Extended(g, k, gap) BY ONLY <1>23, <2>4, <2>6, <2>7
  <2>9. (\E q : Mirrors(wide, b, q, e)) /\ Gap_Length(wide) \in Nat /\ Gap_Length(wide) >= k
    BY ONLY <1>5, <1>7, <2>5, <2>7, <2>8, k \in Nat, ExtendedMirrors
  <2>10. PICK q : Mirrors(wide, b, q, e) BY ONLY <2>9
  <2>11. again = Replace_Text(wide, SL, so, EL, eo, x) BY ONLY <1>24, <1>31 DEF Copied
  <2>12. Outcome(again, wide, b, d, q, e, x, t - s) BY ONLY <1>21, <2>10, <2>11
  <2>13. Fits(x, Gap_Length(wide), t - s)
    <3>1. Rows(q, Starts(b)) BY ONLY <2>10 DEF Mirrors
    <3>2. Edit_Of(b, q, s, t, x, d, SL, so, EL, eo) /\ s \in Nat /\ t \in Nat BY ONLY <1>20, <3>1
    <3>3. s <= t BY ONLY <3>2 DEF Edit_Of
    <3>4. PICK W \in Nat : W = Gap_Length(wide) BY ONLY <2>9
    <3>5. k <= W + (t - s) BY ONLY <2>9, <3>2, <3>3, <3>4, k \in Nat, W \in Nat
    <3> QED BY ONLY <2>6, <3>4, <3>5 DEF Fits
  <2>14. again.status # "full" BY ONLY <2>12, <2>13 DEF Outcome
  <2> QED BY ONLY <1>7, <1>27, <2>1, <2>2, <2>10, <2>12, <2>14, ChangeEnded
(* The buffer cannot be extended: it still mirrors the old text.             *)
<1>32. CASE once.status = "full" /\ Copy_Fails(once.f)
  <2>1. Ends_Change(again) BY ONLY <1>25, <1>32
  <2>2. Client_OK' BY ONLY <1>29, <2>1
  <2>3. Mirrors(once.f, b, r, e) BY ONLY <1>26, <1>32 DEF Outcome
  <2>4. PICK g : g = once.f OBVIOUS
  <2>5. Holds(g, b, e) BY ONLY <2>3, <2>4 DEF Mirrors
  <2>6. again = [status |-> "error", f |-> g] BY ONLY <1>24, <1>32, <2>4 DEF Copied
  <2>7. F' = g /\ status' = "failed" BY ONLY <2>1, <2>6 DEF Ends_Change
  <2>8. Copy_Fails(g) BY ONLY <1>32, <2>4
  <2>9. Gap_Length(F') = 0 /\ F'.Gap_Start = F'.File_Length
    BY ONLY <1>5, <1>7, <2>5, <2>7, <2>8, CopyFailsIf
  <2>10. Kept(F', b, e) BY ONLY <2>3, <2>4, <2>7 DEF Kept
  <2>11. b \in Seq(Bytes_Of(eol')) /\ Clean(b, eol') /\ Kept(F', b, eol')
    BY ONLY <1>7, <1>27, <2>10
  <2> QED BY ONLY <1>27, <2>2, <2>7, <2>9, <2>11, NextFailed
<1> QED BY <1>30, <1>31, <1>32

(* Every step keeps the invariant.                                           *)
LEMMA InvNext == Assertions /\ IInv /\ [Next]_vars => IInv'
<1> SUFFICES ASSUME Assertions, IInv, [Next]_vars PROVE IInv' OBVIOUS
<1>1. CASE Load BY <1>1, InvLoad
<1>2. CASE Reload BY <1>2, InvReload
<1>3. CASE Apply_Change BY <1>3, InvChange
<1>4. CASE Lint BY <1>4, InvLint
<1>5. CASE Locate BY <1>5, InvLocate
<1>6. CASE UNCHANGED vars
  <2>1. /\ F' = F /\ gap_size' = gap_size /\ eol' = eol /\ document' = document /\ status' = status
    BY ONLY <1>6 DEF vars
  <2>2. Client_OK' BY <2>1 DEF IInv, Client_OK
  <2>3. File_OK' BY <2>1 DEF IInv, File_OK
  <2>4. (In_Use => Kept(F, Bytes(document), eol))' BY <2>1 DEF IInv, In_Use, Bytes
  <2>5. FailsOnlyIfFull' BY <2>1 DEF IInv, FailsOnlyIfFull, Bytes, Get_Buffer_Length, Gap_Length
  <2> QED BY <2>1, <2>2, <2>3, <2>4, <2>5 DEF IInv
<1> QED BY <1>1, <1>2, <1>3, <1>4, <1>5, <1>6 DEF Next

(* With assertions compiled in, the Source_File_Record is sound after every  *)
(* step: the fields agree with each other, and the gap is where the scanner  *)
(* skips it (files_map.ads:304-345, files_map.adb:898).                      *)
THEOREM BufferAlwaysSound == ASSUME Assertions PROVE Spec => []BufferSound
<1>1. IInv /\ [Next]_vars => IInv' BY InvNext
<1> QED BY InvInit, <1>1, InvSound, PTL DEF Spec

(* The buffer without its gap is the text of the client after each change    *)
(* (files_map-editor.adb:292-321, document.py:98-120).                       *)
THEOREM ContentAlwaysMirrors == ASSUME Assertions PROVE Spec => []ContentMirrors
<1>1. IInv /\ [Next]_vars => IInv' BY InvNext
<1> QED BY InvInit, <1>1, InvContent, PTL DEF Spec

(* Each position of the client is the position of its character in the       *)
(* buffer (files_map-editor.adb:199-227, 323-363).                           *)
THEOREM PositionsAlwaysExact == ASSUME Assertions PROVE Spec => []PositionsExact
<1>1. IInv /\ [Next]_vars => IInv' BY InvNext
<1> QED BY InvInit, <1>1, InvPositions, PTL DEF Spec

(* A location is on the line of the client, whatever was looked up before    *)
(* the last changes (files_map.adb:195-338).                                 *)
THEOREM LookupAlwaysExact == ASSUME Assertions PROVE Spec => []LookupExact
<1>1. IInv /\ [Next]_vars => IInv' BY InvNext
<1> QED BY InvInit, <1>1, InvLookup, PTL DEF Spec

(* The invariant has FailsOnlyIfFull as a part.                              *)
LEMMA InvFails == IInv => FailsOnlyIfFull BY DEF IInv

(* libghdl raises an exception only for a text that would fill the buffer    *)
(* but for one EOT, or when the gap is empty and in front of the EOT         *)
(* (document.py:69, files_map-editor.adb:168 and 453).                       *)
THEOREM FailsOnlyWhenFull == ASSUME Assertions PROVE Spec => []FailsOnlyIfFull
<1>1. IInv /\ [Next]_vars => IInv' BY InvNext
<1> QED BY InvInit, <1>1, InvFails, PTL DEF Spec
=============================================================================
