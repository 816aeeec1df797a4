---------------------------- MODULE ParserProofs ----------------------------
(***************************************************************************)
(* Proofs about the scanner and the parser, for all files, any capacity of *)
(* the preview and any tables that are like those of Bison.                *)
(***************************************************************************)
EXTENDS Parser, FiniteSetTheorems, SequenceTheorems, WellFoundedInduction, TLAPS

(***************************************************************************)
(* Lines and columns, counted from the file                                *)
(***************************************************************************)

IsNewline(k) == file[k].is = "NEWLINE"

LEMMA PieceTyped ==
  ASSUME file \in Seq(Piece), NEW k \in 1 .. Len(file)
  PROVE  file[k] \in Piece /\ file[k].width \in Nat \ {0} /\ file[k].is \in Rule
  <1>1. file[k] \in Piece
    OBVIOUS
  <1>2. ASSUME NEW p \in Piece PROVE p.width \in Nat \ {0} /\ p.is \in Rule
    BY DEF Piece
  <1> QED BY <1>1, <1>2

LEMMA FirstPlace == LineOf(1) = 1 /\ ColumnOf(1) = 1 /\ LineBefore(1) = {}
  <1>1. {j \in 1 .. 1 - 1 : file[j].is = "NEWLINE"} = {} /\ LineBefore(1) = {}
    BY DEF LineBefore
  <1>2. Characters({}) = {}
    BY DEF Characters
  <1> QED BY <1>1, <1>2, FS_EmptySet DEF LineOf, ColumnOf

LEMMA LineOfNext ==
  ASSUME NEW k \in Nat \ {0}
  PROVE  LineOf(k) \in Nat /\ LineOf(k + 1) = LineOf(k) + (IF IsNewline(k) THEN 1 ELSE 0)
  <1> DEFINE Above(n) == {j \in 1 .. n - 1 : file[j].is = "NEWLINE"}
  <1>1. IsFiniteSet(Above(k)) /\ Cardinality(Above(k)) \in Nat
    <2>1. IsFiniteSet(1 .. k - 1)
      BY FS_Interval
    <2>2. Above(k) \subseteq 1 .. k - 1
      OBVIOUS
    <2> QED BY <2>1, <2>2, FS_Subset, FS_CardinalityType
  <1>2. k \notin Above(k)
    OBVIOUS
  <1>3. Above(k + 1) = IF IsNewline(k) THEN Above(k) \cup {k} ELSE Above(k)
    BY DEF IsNewline
  <1>4. Cardinality(Above(k) \cup {k}) = Cardinality(Above(k)) + 1
    BY <1>1, <1>2, FS_AddElement
  <1>5. LineOf(k) = 1 + Cardinality(Above(k)) /\ LineOf(k + 1) = 1 + Cardinality(Above(k + 1))
    BY DEF LineOf
  <1> HIDE DEF Above
  <1> QED BY <1>1, <1>3, <1>4, <1>5

LEMMA LineBeforeNext ==
  ASSUME NEW k \in Nat \ {0}
  PROVE  /\ LineBefore(k) \subseteq 1 .. k - 1
         /\ LineBefore(k + 1) = IF IsNewline(k) THEN {} ELSE LineBefore(k) \cup {k}
  <1>1. LineBefore(k) \subseteq 1 .. k - 1
    BY DEF LineBefore
  <1>2. CASE IsNewline(k)
    <2>1. ASSUME NEW j \in 1 .. k PROVE ~\A i \in j .. k : file[i].is # "NEWLINE"
      BY <1>2, <2>1 DEF IsNewline
    <2> QED BY <1>1, <1>2, <2>1 DEF LineBefore
  <1>3. CASE ~IsNewline(k)
    <2>1. ASSUME NEW j \in 1 .. k
          PROVE  j \in LineBefore(k + 1) <=> j \in LineBefore(k) \/ j = k
      <3>1. CASE j = k
        BY <1>3, <3>1 DEF LineBefore, IsNewline
      <3>2. CASE j \in 1 .. k - 1
        <4>1. j .. k = (j .. k - 1) \cup {k}
          BY <3>2
        <4>2. k + 1 - 1 = k
          OBVIOUS
        <4> QED BY <1>3, <3>2, <4>1, <4>2 DEF LineBefore, IsNewline
      <3> QED BY <3>1, <3>2
    <2>2. LineBefore(k + 1) \subseteq 1 .. k
      BY DEF LineBefore
    <2> QED BY <1>1, <1>3, <2>1, <2>2
  <1> QED BY <1>1, <1>2, <1>3

LEMMA RowOf ==
  ASSUME NEW w \in Nat PROVE IsFiniteSet(1 .. w) /\ Cardinality(1 .. w) = w
  BY FS_Interval

LEMMA CharactersFinite ==
  ASSUME file \in Seq(Piece), NEW k \in 1 .. Len(file) + 1
  PROVE  IsFiniteSet(Characters(LineBefore(k)))
  <1> DEFINE line == LineBefore(k)
             rows == {{j} \X (1 .. file[j].width) : j \in line}
  <1>1. k \in Nat \ {0}
    OBVIOUS
  <1>2. line \subseteq 1 .. k - 1
    BY <1>1, LineBeforeNext
  <1>3. IsFiniteSet(line)
    <2>1. IsFiniteSet(1 .. k - 1)
      BY <1>1, FS_Interval
    <2> QED BY <1>2, <2>1, FS_Subset
  <1>4. IsFiniteSet(rows)
    <2> DEFINE f == [j \in line |-> {j} \X (1 .. file[j].width)]
    <2>1. f \in Surjection(line, rows)
      BY DEF Surjection
    <2> QED BY <1>3, <2>1, FS_Surjection
  <1>5. ASSUME NEW r \in rows PROVE IsFiniteSet(r)
    <2>1. PICK j \in line : r = {j} \X (1 .. file[j].width)
      BY <1>5
    <2>2. file[j].width \in Nat
      BY <1>1, <1>2, PieceTyped
    <2>3. IsFiniteSet({j}) /\ IsFiniteSet(1 .. file[j].width)
      <3>1. IsFiniteSet({j})
        BY FS_Singleton
      <3>2. IsFiniteSet(1 .. file[j].width)
        BY <2>2, RowOf
      <3> QED BY <3>1, <3>2
    <2> QED BY <2>1, <2>3, FS_Product
  <1>6. IsFiniteSet(UNION rows)
    BY <1>4, <1>5, FS_UNION
  <1> QED BY <1>6 DEF Characters

\* The column counts the characters, and starts again on each line
LEMMA ColumnOfNext ==
  ASSUME file \in Seq(Piece), NEW k \in 1 .. Len(file)
  PROVE  /\ ColumnOf(k) \in Nat \ {0}
         /\ ColumnOf(k + 1) = IF IsNewline(k) THEN 1 ELSE ColumnOf(k) + file[k].width
  <1> DEFINE chars == Characters(LineBefore(k))
             w == file[k].width
             row == {k} \X (1 .. w)
  <1>1. /\ k \in Nat \ {0} /\ k \in 1 .. Len(file) + 1 /\ w \in Nat
        /\ LineBefore(k) \subseteq 1 .. k - 1
        /\ LineBefore(k + 1) = IF IsNewline(k) THEN {} ELSE LineBefore(k) \cup {k}
    <2>1. k \in Nat \ {0} /\ k \in 1 .. Len(file) + 1
      BY LenProperties
    <2>2. w \in Nat
      BY PieceTyped
    <2> QED BY <2>1, <2>2, LineBeforeNext
  <1>2. IsFiniteSet(chars) /\ Cardinality(chars) \in Nat
    BY <1>1, CharactersFinite, FS_CardinalityType
  <1>3. CASE IsNewline(k)
    <2>1. Characters({}) = {}
      BY DEF Characters
    <2>2. Cardinality({}) = 0
      BY FS_EmptySet
    <2>3. ColumnOf(k) = 1 + Cardinality(chars) /\ ColumnOf(k + 1) = 1 + 0
      BY <1>1, <1>3, <2>1, <2>2 DEF ColumnOf
    <2> HIDE DEF chars
    <2> QED BY <1>2, <1>3, <2>3
  <1>4. CASE ~IsNewline(k)
    <2>1. Characters(LineBefore(k) \cup {k}) = chars \cup row
      BY DEF Characters
    <2>2. chars \cap row = {}
      <3>1. ASSUME NEW x \in chars PROVE x[1] \in 1 .. k - 1
        BY <1>1, <3>1 DEF Characters
      <3>2. \A x \in row : x[1] = k
        OBVIOUS
      <3>3. k \notin 1 .. k - 1
        BY <1>1
      <3> HIDE DEF chars, row
      <3> QED BY <3>1, <3>2, <3>3
    <2>3. IsFiniteSet(row) /\ Cardinality(row) = w
      <3> DEFINE columns == 1 .. w
      <3>1. IsFiniteSet({k}) /\ Cardinality({k}) = 1
        BY FS_Singleton
      <3>2. IsFiniteSet(columns) /\ Cardinality(columns) = w
        BY <1>1, RowOf
      <3>3. row = {k} \X columns
        OBVIOUS
      <3> HIDE DEF row, columns
      <3>4. IsFiniteSet({k} \X columns) /\ Cardinality({k} \X columns) = Cardinality({k}) * Cardinality(columns)
        BY <3>1, <3>2, FS_Product
      <3>5. 1 * w = w
        BY <1>1
      <3> QED BY <3>1, <3>2, <3>3, <3>4, <3>5
    <2> HIDE DEF chars, row
    <2>4. Cardinality(chars \cup row) = Cardinality(chars) + w
      <3>1. Cardinality(chars \cup row) = Cardinality(chars) + Cardinality(row) - Cardinality({})
        BY <1>2, <2>2, <2>3, FS_Union
      <3> QED BY <1>1, <1>2, <2>3, <3>1, FS_EmptySet
    <2>5. ColumnOf(k) = 1 + Cardinality(chars) /\ ColumnOf(k + 1) = 1 + Cardinality(chars \cup row)
      BY <1>1, <1>4, <2>1 DEF ColumnOf, chars, row
    <2> HIDE DEF w
    <2> QED BY <1>1, <1>2, <1>4, <2>4, <2>5 DEF w
  <1> QED BY <1>3, <1>4

(***************************************************************************)
(* The scanner                                                             *)
(***************************************************************************)

LEMMA SameFile ==
  ASSUME file' = file
  PROVE  /\ \A k : LineOf(k)' = LineOf(k) /\ ColumnOf(k)' = ColumnOf(k)
         /\ \A k : LineBefore(k)' = LineBefore(k)
         /\ \A p, k : Shows(p, k)' = Shows(p, k)
  BY DEF LineOf, ColumnOf, LineBefore, Characters, Shows

\* Where the scanner is, and what it thinks where that is
Place ==
  /\ file \in Seq(Piece) /\ at \in 1 .. Len(file) + 1
  /\ yylineno = LineOf(at) /\ current_col = ColumnOf(at)

\* Piece j has the character at column c of the line of piece k, and comes before k
Covers(j, c, k) == j \in LineBefore(k) /\ c \in ColumnOf(j) .. ColumnOf(j) + file[j].width - 1

\* The preview is the line so far, except that behind a newline the last one is
\* still there
Preview ==
  /\ line_preview \in Seq(Nat) /\ Len(line_preview) <= PREVIEW_CAP - 1
  /\ line_preview_len = Least(current_col - 1, PREVIEW_CAP - 1)
  /\ line_preview_len <= Len(line_preview)
  /\ line_preview_len # 0 => Len(line_preview) = line_preview_len
  /\ \A c \in 1 .. line_preview_len : Covers(line_preview[c], c, at)

Advance ==
  /\ ~AtEof /\ Match
  /\ current_col' = IF IsNewline(at) THEN 1 ELSE current_col + piece.width

LEMMA PlaceTyped ==
  ASSUME Place
  PROVE  /\ at \in Nat \ {0} /\ Len(file) \in Nat /\ yylineno \in Nat /\ current_col \in Nat \ {0}
         /\ ~AtEof => at \in 1 .. Len(file)
  <1>1. at \in Nat \ {0} /\ Len(file) \in Nat /\ (~AtEof => at \in 1 .. Len(file))
    BY DEF Place, AtEof
  <1>2. yylineno \in Nat
    BY <1>1, LineOfNext DEF Place
  <1>3. current_col \in Nat \ {0}
    <2>1. IsFiniteSet(Characters(LineBefore(at)))
      BY CharactersFinite DEF Place
    <2> QED BY <2>1, FS_CardinalityType DEF Place, ColumnOf
  <1> QED BY <1>1, <1>2, <1>3

LEMMA AdvancePlace ==
  ASSUME Place, Advance
  PROVE  /\ Place' /\ at \in 1 .. Len(file) /\ file' = file /\ at' = at + 1 /\ yytext' = at
         /\ token_col' = ColumnOf(at)
         /\ yylineno' = (IF IsNewline(at) THEN yylineno + 1 ELSE yylineno)
         /\ current_col' = ColumnOf(at + 1)
  <1>1. at \in Nat \ {0} /\ at \in 1 .. Len(file) /\ Len(file) \in Nat /\ yylineno \in Nat
    BY PlaceTyped DEF Advance
  <1>2. /\ file' = file /\ at' = at + 1 /\ yytext' = at /\ token_col' = current_col
        /\ yylineno' = (IF IsNewline(at) THEN yylineno + 1 ELSE yylineno)
        /\ current_col' = IF IsNewline(at) THEN 1 ELSE current_col + file[at].width
    BY DEF Advance, Match, IsNewline, piece
  <1>3. yylineno' = LineOf(at + 1)
    BY <1>1, <1>2, LineOfNext DEF Place
  <1>4. current_col' = ColumnOf(at + 1)
    BY <1>1, <1>2, ColumnOfNext DEF Place
  <1>5. at' \in 1 .. Len(file') + 1
    BY <1>1, <1>2
  <1>6. Place'
    BY <1>2, <1>3, <1>4, <1>5, SameFile DEF Place
  <1> QED BY <1>1, <1>2, <1>4, <1>6 DEF Place

\* Piece k is the last one of its line so far
LEMMA CoversNext ==
  ASSUME file \in Seq(Piece), NEW k \in 1 .. Len(file), ~IsNewline(k)
  PROVE  /\ \A j, c : Covers(j, c, k) => Covers(j, c, k + 1)
         /\ \A c \in ColumnOf(k) .. ColumnOf(k + 1) - 1 : Covers(k, c, k + 1)
  <1>1. LineBefore(k + 1) = LineBefore(k) \cup {k}
    <2>1. k \in Nat \ {0}
      BY LenProperties
    <2> QED BY <2>1, LineBeforeNext
  <1>2. ColumnOf(k + 1) = ColumnOf(k) + file[k].width /\ ColumnOf(k) \in Nat /\ file[k].width \in Nat
    BY ColumnOfNext, PieceTyped
  <1>3. \A j, c : Covers(j, c, k) => Covers(j, c, k + 1)
    BY <1>1 DEF Covers
  <1>4. ASSUME NEW c \in ColumnOf(k) .. ColumnOf(k + 1) - 1 PROVE Covers(k, c, k + 1)
    <2>1. k \in LineBefore(k + 1)
      BY <1>1
    <2>2. c \in ColumnOf(k) .. ColumnOf(k) + file[k].width - 1
      BY <1>2, <1>4
    <2> QED BY <2>1, <2>2 DEF Covers
  <1> QED BY <1>3, <1>4

LEMMA Filled ==
  ASSUME NEW s \in Seq(Nat), NEW l \in 0 .. Len(s), NEW n \in Nat, NEW k \in Nat,
         NEW t, t = SubSeq(s, 1, l) \o [i \in 1 .. n |-> k]
  PROVE  /\ t \in Seq(Nat) /\ Len(t) = l + n
         /\ \A i \in 1 .. l : t[i] = s[i]
         /\ \A i \in l + 1 .. l + n : t[i] = k
  <1>1. /\ SubSeq(s, 1, l) \in Seq(Nat) /\ Len(SubSeq(s, 1, l)) = l
        /\ \A i \in 1 .. l : SubSeq(s, 1, l)[i] = s[i]
    OBVIOUS
  <1>2. [i \in 1 .. n |-> k] \in Seq(Nat) /\ Len([i \in 1 .. n |-> k]) = n
    OBVIOUS
  <1>3. \A i \in 1 .. n : [j \in 1 .. n |-> k][i] = k
    OBVIOUS
  <1> DEFINE u == SubSeq(s, 1, l)
             v == [i \in 1 .. n |-> k]
  <1> HIDE DEF u, v
  <1>4. /\ u \o v \in Seq(Nat) /\ Len(u \o v) = Len(u) + Len(v)
        /\ \A i \in 1 .. Len(u) + Len(v) : (u \o v)[i] = IF i <= Len(u) THEN u[i] ELSE v[i - Len(u)]
    BY <1>1, <1>2, ConcatProperties DEF u, v
  <1>5. t = u \o v
    BY DEF u, v
  <1>6. Len(u) = l /\ Len(v) = n /\ (\A i \in 1 .. l : u[i] = s[i]) /\ (\A i \in 1 .. n : v[i] = k)
    BY <1>1, <1>2, <1>3 DEF u, v
  <1> QED BY <1>4, <1>5, <1>6

LEMMA AdvancePreview ==
  ASSUME Place, Preview, Advance
  PROVE  Preview' /\ (~IsNewline(at) => Shows(line_preview', at))
  <1> DEFINE cap == PREVIEW_CAP - 1
             w == file[at].width
             room == cap - line_preview_len
             n == Least(w, room)
  <1>1. /\ at \in 1 .. Len(file) /\ file' = file /\ at' = at + 1
        /\ current_col' = ColumnOf(at + 1) /\ file \in Seq(Piece)
    BY AdvancePlace DEF Place
  <1>2. cap \in Nat /\ current_col \in Nat \ {0} /\ w \in Nat \ {0}
    BY <1>1, PlaceTyped, PieceTyped, ScannerAssumption
  <1>3. line_preview_len \in 0 .. Len(line_preview) /\ line_preview_len <= cap /\ room \in Nat
    BY <1>2 DEF Preview, Least
  <1>4. CASE IsNewline(at)
    <2>1. line_preview_len' = 0 /\ line_preview' = line_preview /\ current_col' = 1
      BY <1>4 DEF Advance, Match, lexer_capture_preview, IsNewline, piece
    <2>2. Least(0, cap) = 0 /\ Len(line_preview) \in Nat
      <3>1. \A m \in Nat : Least(0, m) = 0
        BY DEF Least
      <3>2. Len(line_preview) \in Nat
        BY DEF Preview
      <3> QED BY <1>2, <3>1, <3>2
    <2>3. \A c \in 1 .. 0 : FALSE
      OBVIOUS
    <2> QED BY <1>4, <2>1, <2>2, <2>3 DEF Preview
  <1>5. CASE ~IsNewline(at)
    <2>1. IF n = 0 THEN UNCHANGED <<line_preview, line_preview_len>>
          ELSE /\ line_preview' = SubSeq(line_preview, 1, line_preview_len) \o [k \in 1 .. n |-> at]
               /\ line_preview_len' = line_preview_len + n
      BY <1>5 DEF Advance, Match, lexer_capture_preview, IsNewline, piece
    <2>2. current_col' = current_col + w /\ current_col = ColumnOf(at) /\ current_col' = ColumnOf(at + 1)
      BY <1>1, <1>5 DEF Advance, piece, Place
    <2>3. /\ \A j, c : Covers(j, c, at) => Covers(j, c, at + 1)
          /\ \A c \in current_col .. current_col + w - 1 : Covers(at, c, at + 1)
      <3>1. \A c \in ColumnOf(at) .. ColumnOf(at + 1) - 1 : Covers(at, c, at + 1)
        BY <1>1, <1>5, CoversNext
      <3>2. \A j, c : Covers(j, c, at) => Covers(j, c, at + 1)
        BY <1>1, <1>5, CoversNext
      <3>3. ColumnOf(at) = current_col /\ ColumnOf(at + 1) = current_col + w
        BY <2>2
      <3> QED BY <1>2, <3>1, <3>2, <3>3
    <2>4. /\ line_preview' \in Seq(Nat) /\ Len(line_preview') = line_preview_len'
          /\ line_preview_len' = Least(current_col' - 1, cap)
          /\ \A c \in 1 .. line_preview_len' : Covers(line_preview'[c], c, at + 1)
      <3>1. CASE n = 0
        <4>1. room = 0
          BY <1>2, <1>3, <3>1 DEF Least
        <4>2. line_preview' = line_preview /\ line_preview_len' = line_preview_len /\ line_preview_len = cap
          BY <1>2, <1>3, <2>1, <3>1, <4>1
        <4>3. Len(line_preview) = cap
          BY <1>3, <4>2 DEF Preview
        <4>4. cap = Least(current_col' - 1, cap)
          BY <1>2, <2>2, <4>2 DEF Preview, Least
        <4>5. \A c \in 1 .. line_preview_len : Covers(line_preview[c], c, at + 1)
          BY <2>3 DEF Preview
        <4> QED BY <4>2, <4>3, <4>4, <4>5 DEF Preview
      <3>2. CASE n # 0
        <4>1. n \in Nat \ {0} /\ at \in Nat
          BY <1>1, <1>2, <1>3, <3>2 DEF Least
        <4>2. line_preview_len = current_col - 1
          BY <1>2, <1>3, <3>2 DEF Preview, Least
        <4>3. /\ line_preview' \in Seq(Nat) /\ Len(line_preview') = line_preview_len + n
              /\ \A c \in 1 .. line_preview_len : line_preview'[c] = line_preview[c]
              /\ \A c \in line_preview_len + 1 .. line_preview_len + n : line_preview'[c] = at
          <5> HIDE DEF n
          <5>1. line_preview' = SubSeq(line_preview, 1, line_preview_len) \o [k \in 1 .. n |-> at]
            BY <2>1, <3>2
          <5>2. line_preview \in Seq(Nat)
            BY DEF Preview
          <5> DEFINE t == line_preview'
          <5> HIDE DEF t
          <5>3. t = SubSeq(line_preview, 1, line_preview_len) \o [i \in 1 .. n |-> at]
            BY <5>1 DEF t
          <5>4. /\ t \in Seq(Nat) /\ Len(t) = line_preview_len + n
                /\ \A c \in 1 .. line_preview_len : t[c] = line_preview[c]
                /\ \A c \in line_preview_len + 1 .. line_preview_len + n : t[c] = at
            BY <1>3, <4>1, <5>2, <5>3, Filled
          <5> QED BY <5>4 DEF t
        <4>4. line_preview_len' = line_preview_len + n /\ n <= w
          BY <1>2, <1>3, <2>1, <3>2 DEF Least
        <4>5. line_preview_len + n = Least(current_col' - 1, cap)
          <5>1. \A a, b, c \in Nat : b <= c => b + Least(a, c - b) = Least(a + b, c)
            BY DEF Least
          <5>2. current_col' - 1 = w + line_preview_len /\ line_preview_len \in Nat /\ w \in Nat
            <6>1. w \in Nat /\ current_col \in Nat \ {0} /\ current_col' = current_col + w
              BY <1>2, <2>2
            <6> HIDE DEF w
            <6> QED BY <6>1, <4>2
          <5> HIDE DEF cap, w
          <5> QED BY <1>2, <1>3, <5>1, <5>2
        <4>6. ASSUME NEW c \in 1 .. line_preview_len + n PROVE Covers(line_preview'[c], c, at + 1)
          <5>1. CASE c \in 1 .. line_preview_len
            <6>1. Covers(line_preview[c], c, at)
              BY <5>1 DEF Preview
            <6> QED BY <2>3, <4>3, <5>1, <6>1
          <5>2. CASE c \in line_preview_len + 1 .. line_preview_len + n
            <6>1. c \in current_col .. current_col + w - 1
              BY <1>2, <4>1, <4>2, <4>4, <5>2
            <6> QED BY <2>3, <4>3, <5>2, <6>1
          <5> QED BY <1>3, <4>1, <5>1, <5>2
        <4> QED BY <4>3, <4>4, <4>5, <4>6
      <3> QED BY <3>1, <3>2
    <2>5. line_preview_len' <= cap /\ line_preview_len' \in Nat
      BY <1>2, <2>2, <2>4 DEF Least
    <2>6. Preview'
      <3>1. \A c \in 1 .. line_preview_len' : Covers(line_preview[c], c, at)'
        BY <1>1, <2>4, SameFile DEF Covers
      <3> QED BY <2>4, <2>5, <3>1 DEF Preview
    <2>7. Shows(line_preview', at)
      BY <2>2, <2>4 DEF Shows, Covers
    <2> QED BY <2>6, <2>7
  <1> QED BY <1>4, <1>5

\* The token that was matched last is where token_col says, on a line that is shown
Token ==
  /\ yytext \in 1 .. Len(file) /\ yytext = at - 1 /\ ~IsNewline(yytext)
  /\ token_col = ColumnOf(yytext) /\ Shows(line_preview, yytext)

CommentStart ==
  /\ comment_start.about \in Nat /\ comment_start.line \in Nat /\ comment_start.col \in Nat
  /\ comment_start.line = LineOf(comment_start.about)
  /\ comment_start.col = ColumnOf(comment_start.about)

Kind == {"character", "comment", "syntax"}
MessageType == [line : Nat, col : Nat, about : Nat, kind : Kind, preview : Seq(Nat)]

\* LocatedRight, of one message
Right(m) ==
  m.about # 0 =>
    /\ m.line = LineOf(m.about) /\ m.col = ColumnOf(m.about)
    /\ m.kind # "comment" => Shows(m.preview, m.about)

Scanned ==
  /\ Place /\ Preview
  /\ yytext \in Nat /\ token_col \in Nat
  /\ yychar # EMPTY /\ yytext # 0 => Token
  /\ start = COMMENT => CommentStart
  /\ messages \in Seq(MessageType) /\ LocatedRight

\* What may happen to the messages
Says == UNCHANGED messages \/ \E m \in MessageType : Right(m) /\ messages' = Append(messages, m)

LEMMA SaysRight ==
  ASSUME Scanned, Says, file' = file
  PROVE  messages' \in Seq(MessageType) /\ LocatedRight'
  <1>1. \A m : Right(m)' = Right(m)
    BY SameFile DEF Right
  <1>2. messages \in Seq(MessageType) /\ \A i \in DOMAIN messages : Right(messages[i])
    BY DEF Scanned, LocatedRight, Right
  <1>3. messages' \in Seq(MessageType) /\ \A i \in DOMAIN messages' : Right(messages'[i])
    <2>1. CASE UNCHANGED messages
      BY <1>2, <2>1
    <2>2. ASSUME NEW m \in MessageType, Right(m), messages' = Append(messages, m)
          PROVE  messages' \in Seq(MessageType) /\ \A i \in DOMAIN messages' : Right(messages'[i])
      <3>1. /\ messages' \in Seq(MessageType) /\ DOMAIN messages' = 1 .. Len(messages) + 1
            /\ \A i \in 1 .. Len(messages) : messages'[i] = messages[i]
            /\ messages'[Len(messages) + 1] = m /\ DOMAIN messages = 1 .. Len(messages)
            /\ Len(messages) \in Nat
        <4> HIDE DEF MessageType
        <4> QED BY <1>2, <2>2
      <3> QED BY <1>2, <2>2, <3>1
    <2> QED BY <2>1, <2>2 DEF Says
  <1>4. \A i \in DOMAIN messages' : Right(messages[i])'
    BY <1>1, <1>3
  <1> QED BY <1>3, <1>4 DEF LocatedRight, Right

LEMMA AfterAdvance ==
  ASSUME Scanned, Advance, Says, yychar' # EMPTY => ~IsNewline(at),
         start' = COMMENT =>
           \/ start = COMMENT /\ UNCHANGED comment_start
           \/ comment_start' = [line |-> LineOf(at), col |-> ColumnOf(at), about |-> at]
  PROVE  Scanned'
  <1>1. /\ Place' /\ Preview' /\ file' = file /\ at' = at + 1 /\ at \in 1 .. Len(file)
        /\ Len(file) \in Nat /\ yytext' = at /\ token_col' = ColumnOf(at)
        /\ (~IsNewline(at) => Shows(line_preview', at))
    BY AdvancePlace, AdvancePreview, PlaceTyped DEF Scanned
  <1>2. ColumnOf(at) \in Nat /\ LineOf(at) \in Nat
    BY PlaceTyped DEF Scanned, Place
  <1>3. yytext' \in Nat /\ token_col' \in Nat
    BY <1>1, <1>2
  <1>4. ~IsNewline(at) => Token'
    <2>1. yytext' \in 1 .. Len(file') /\ yytext' = at' - 1
      BY <1>1
    <2>2. ASSUME ~IsNewline(at)
          PROVE  (token_col = ColumnOf(yytext) /\ Shows(line_preview, yytext) /\ ~IsNewline(yytext))'
      BY <1>1, <2>2, SameFile DEF IsNewline
    <2> QED BY <2>1, <2>2 DEF Token
  <1>5. (start = COMMENT => CommentStart)'
    <2>1. CASE start = COMMENT /\ UNCHANGED comment_start
      BY <1>1, <2>1, SameFile DEF Scanned, CommentStart
    <2>2. CASE comment_start' = [line |-> LineOf(at), col |-> ColumnOf(at), about |-> at]
      BY <1>1, <1>2, <2>2, SameFile DEF CommentStart
    <2> QED BY <2>1, <2>2
  <1>6. messages' \in Seq(MessageType) /\ LocatedRight'
    BY <1>1, SaysRight
  <1> QED BY <1>1, <1>3, <1>4, <1>5, <1>6 DEF Scanned

LEMMA AfterStay ==
  ASSUME Scanned, Says, UNCHANGED <<file, at, position>>,
         \/ yytext' = 0
         \/ UNCHANGED yytext /\ (UNCHANGED yychar \/ yychar' = EMPTY),
         start' = COMMENT => start = COMMENT /\ UNCHANGED comment_start
  PROVE  Scanned'
  <1>1. /\ file' = file /\ at' = at /\ yylineno' = yylineno /\ current_col' = current_col
        /\ token_col' = token_col /\ line_preview' = line_preview
        /\ line_preview_len' = line_preview_len
    BY DEF position
  <1>2. Place'
    BY <1>1, SameFile DEF Scanned, Place
  <1>3. Preview'
    BY <1>1, SameFile DEF Scanned, Preview, Covers
  <1>4. (yychar # EMPTY /\ yytext # 0 => Token)'
    BY <1>1, SameFile DEF Scanned, Token, IsNewline
  <1>5. (start = COMMENT => CommentStart)'
    BY <1>1, SameFile DEF Scanned, CommentStart
  <1>6. messages' \in Seq(MessageType) /\ LocatedRight'
    BY <1>1, SaysRight
  <1>7. yytext' \in Nat /\ token_col' \in Nat
    BY <1>1 DEF Scanned
  <1> QED BY <1>2, <1>3, <1>4, <1>5, <1>6, <1>7 DEF Scanned

LEMMA Matching ==
  ASSUME NEW condition, NEW rules, Matches(condition, rules), Match, "NEWLINE" \notin rules, Proceed
  PROVE  Advance /\ ~IsNewline(at) /\ yychar = EMPTY /\ start = condition
  <1>1. ~IsNewline(at)
    BY DEF Matches, IsNewline, piece
  <1> QED BY <1>1 DEF Advance, Matches, Proceed

\* A message that is about piece k
LEMMA MessageRight ==
  ASSUME Scanned, NEW line \in Nat, NEW col \in Nat, NEW k \in Nat, NEW kind \in Kind,
         line_preview' \in Seq(Nat),
         k # 0 => line = LineOf(k) /\ col = ColumnOf(k),
         k # 0 /\ kind # "comment" => Shows(line_preview', k),
         messages' = Append(messages, Message(line, col, k, kind))
  PROVE  Says
  <1> DEFINE m == Message(line, col, k, kind)
  <1>1. m = [line |-> line, col |-> col, about |-> k, kind |-> kind, preview |-> line_preview']
    BY DEF Message
  <1> HIDE DEF m
  <1>2. m \in MessageType
    BY <1>1 DEF MessageType
  <1>3. Right(m)
    BY <1>1 DEF Right
  <1> QED BY <1>2, <1>3 DEF Says, m

LEMMA ScanStep ==
  ASSUME Scanned, Text \/ TextFails \/ Scan
  PROVE  Scanned'
  <1>1. CASE Word
    <2>1. Advance /\ ~IsNewline(at) /\ Says /\ start' = start /\ UNCHANGED comment_start
      BY <1>1, Matching DEF Word, Says
    <2> QED BY <2>1, AfterAdvance
  <1>2. CASE Text
    <2>1. Advance /\ ~IsNewline(at) /\ Says /\ start' = start /\ UNCHANGED comment_start
      BY <1>2, Matching DEF Text, Says
    <2> QED BY <2>1, AfterAdvance
  <1>3. CASE TextFails
    <2>1. Advance /\ ~IsNewline(at) /\ Says /\ start' = start /\ UNCHANGED comment_start
      BY <1>3, Matching DEF TextFails, Says
    <2> QED BY <2>1, AfterAdvance
  <1>4. CASE Blank
    <2>1. Advance /\ ~IsNewline(at) /\ Says /\ start' = start /\ UNCHANGED comment_start
      BY <1>4, Matching DEF Blank, Says
    <2> QED BY <2>1, AfterAdvance
  <1>5. CASE BadChar
    <2>1. Advance /\ ~IsNewline(at) /\ start' = start /\ UNCHANGED comment_start
      BY <1>5, Matching DEF BadChar
    <2>2. /\ at \in Nat /\ token_col' = ColumnOf(at) /\ Shows(line_preview', at)
          /\ line_preview' \in Seq(Nat)
      BY <2>1, AdvancePlace, AdvancePreview, PlaceTyped DEF Scanned, Preview
    <2>3. yylineno = LineOf(at) /\ yylineno \in Nat /\ ColumnOf(at) \in Nat
      BY PlaceTyped DEF Scanned, Place
    <2>4. messages' = Append(messages, Message(yylineno, token_col', at, "character"))
      BY <1>5 DEF BadChar
    <2>5. Says
      <3> DEFINE col == token_col'
      <3>1. col \in Nat /\ yylineno \in Nat /\ at \in Nat /\ "character" \in Kind
            /\ line_preview' \in Seq(Nat)
        BY <2>2, <2>3 DEF Kind
      <3>2. /\ at # 0 => yylineno = LineOf(at) /\ col = ColumnOf(at)
            /\ at # 0 /\ "character" # "comment" => Shows(line_preview', at)
            /\ messages' = Append(messages, Message(yylineno, col, at, "character"))
        BY <2>2, <2>3, <2>4
      <3> HIDE DEF col
      <3> QED BY <3>1, <3>2, MessageRight
    <2> QED BY <2>1, <2>5, AfterAdvance
  <1>6. CASE OpenComment
    <2>1. Advance /\ ~IsNewline(at) /\ Says
      BY <1>6, Matching DEF OpenComment, Says
    <2>2. comment_start' = [line |-> LineOf(at), col |-> ColumnOf(at), about |-> at]
      BY <1>6, <2>1, AdvancePlace DEF OpenComment, Scanned, Place
    <2> QED BY <2>1, <2>2, AfterAdvance
  <1>7. CASE CommentText
    <2>1. Advance /\ ~IsNewline(at) /\ Says /\ start' = start /\ UNCHANGED comment_start
      BY <1>7, Matching DEF CommentText, Says
    <2> QED BY <2>1, AfterAdvance
  <1>8. CASE CloseComment
    <2>1. Advance /\ ~IsNewline(at) /\ Says /\ start' # COMMENT
      BY <1>8, Matching DEF CloseComment, Says, INITIAL, COMMENT
    <2> QED BY <2>1, AfterAdvance
  <1>9. CASE Newline
    <2>1. Advance /\ Says /\ start' = start /\ UNCHANGED comment_start /\ yychar' = EMPTY
      BY <1>9 DEF Newline, Says, Advance, IsNewline, piece
    <2> QED BY <2>1, AfterAdvance
  <1>10. CASE Eof
    <2>1. /\ UNCHANGED <<file, at, position>> /\ Says /\ yytext' = 0 /\ start' = start
          /\ UNCHANGED comment_start
      BY <1>10 DEF Eof, Says
    <2> QED BY <2>1, AfterStay
  <1>11. CASE EofInComment
    <2>1. /\ UNCHANGED <<file, at, position>> /\ yytext' = 0 /\ start' # COMMENT /\ start = COMMENT
          /\ messages' = Append(messages, Message(comment_start.line, comment_start.col,
                                                  comment_start.about, "comment"))
      BY <1>11 DEF EofInComment, INITIAL, COMMENT
    <2>2. CommentStart /\ line_preview' \in Seq(Nat)
      BY <2>1 DEF Scanned, Preview, position
    <2>3. Says
      <3> DEFINE line == comment_start.line
                 col == comment_start.col
                 k == comment_start.about
      <3>1. /\ line \in Nat /\ col \in Nat /\ k \in Nat /\ "comment" \in Kind
            /\ line_preview' \in Seq(Nat)
        BY <2>2 DEF CommentStart, Kind
      <3>2. /\ k # 0 => line = LineOf(k) /\ col = ColumnOf(k)
            /\ k # 0 /\ "comment" # "comment" => Shows(line_preview', k)
            /\ messages' = Append(messages, Message(line, col, k, "comment"))
        BY <2>1, <2>2 DEF CommentStart
      <3> HIDE DEF line, col, k
      <3> QED BY <3>1, <3>2, MessageRight
    <2> QED BY <2>1, <2>3, AfterStay
  <1> QED
    BY <1>1, <1>2, <1>3, <1>4, <1>5, <1>6, <1>7, <1>8, <1>9, <1>10, <1>11 DEF Scan

(***************************************************************************)
(* The stack of the parser                                                 *)
(***************************************************************************)

IsSequence(s) == s \in Seq(Range(s))

LEMMA SequenceOf ==
  ASSUME NEW S, NEW s \in Seq(S) PROVE IsSequence(s)
  <1>1. s \in [1 .. Len(s) -> S] /\ Len(s) \in Nat /\ DOMAIN s = 1 .. Len(s)
    BY LenProperties
  <1>2. s \in [1 .. Len(s) -> Range(s)]
    BY <1>1 DEF Range
  <1> QED BY <1>1, <1>2 DEF IsSequence

LEMMA AppendSequence ==
  ASSUME NEW s, IsSequence(s), NEW x
  PROVE  /\ IsSequence(Append(s, x)) /\ Len(Append(s, x)) = Len(s) + 1 /\ Len(s) \in Nat
         /\ \A i \in 1 .. Len(s) : Append(s, x)[i] = s[i]
         /\ Append(s, x)[Len(s) + 1] = x
  <1> DEFINE S == Range(s) \cup {x}
  <1>1. s \in Seq(S) /\ x \in S
    BY DEF IsSequence
  <1> HIDE DEF S
  <1>2. /\ Append(s, x) \in Seq(S) /\ Len(Append(s, x)) = Len(s) + 1 /\ Len(s) \in Nat
        /\ \A i \in 1 .. Len(s) : Append(s, x)[i] = s[i]
        /\ Append(s, x)[Len(s) + 1] = x
    BY <1>1
  <1>3. IsSequence(Append(s, x))
    BY <1>2, SequenceOf
  <1> QED BY <1>2, <1>3

LEMMA PrefixSequence ==
  ASSUME NEW s, IsSequence(s), NEW n \in 0 .. Len(s)
  PROVE  /\ IsSequence(SubSeq(s, 1, n)) /\ Len(SubSeq(s, 1, n)) = n
         /\ \A i \in 1 .. n : SubSeq(s, 1, n)[i] = s[i]
  <1> DEFINE S == Range(s)
  <1>1. s \in Seq(S)
    BY DEF IsSequence
  <1> HIDE DEF S
  <1>2. /\ SubSeq(s, 1, n) \in Seq(S) /\ Len(SubSeq(s, 1, n)) = n
        /\ \A i \in 1 .. n : SubSeq(s, 1, n)[i] = s[i]
    BY <1>1
  <1> QED BY <1>2, SequenceOf

LEMMA ExceptSequence ==
  ASSUME NEW s, IsSequence(s), NEW a, NEW x
  PROVE  IsSequence([s EXCEPT ![a] = x])
  <1> DEFINE S == Range(s) \cup {x}
             n == Len(s)
             t == [s EXCEPT ![a] = x]
  <1>1. s \in [1 .. n -> S] /\ n \in Nat
    BY LenProperties DEF IsSequence
  <1> HIDE DEF n
  <1>2. t \in [1 .. n -> S]
    BY <1>1
  <1> HIDE DEF t, S
  <1>3. t \in Seq(S)
    BY <1>1, <1>2
  <1> QED BY <1>3, SequenceOf DEF t

\* The blocks stay a sequence
LEMMA HeapKept ==
  ASSUME NEW h, IsSequence(h)
  PROVE  /\ Fresh(h) # NIL
         /\ \A kind, tag, kids : IsSequence(New(h, kind, tag, kids))
         /\ \A head, node : IsSequence(Appended(h, head, node))
  <1>1. Fresh(h) # NIL
    BY AppendSequence DEF Fresh, NIL
  <1>2. \A kind, tag, kids : IsSequence(New(h, kind, tag, kids))
    BY AppendSequence DEF New
  <1>3. ASSUME NEW head, NEW node PROVE IsSequence(Appended(h, head, node))
    <2> DEFINE a == h[head].tail
               g == [h EXCEPT ![a] = [h[a] EXCEPT !.next = node]]
    <2>1. IsSequence(g)
      BY ExceptSequence
    <2>2. Appended(h, head, node) \in {h, [g EXCEPT ![head] = [g[head] EXCEPT !.tail = h[node].tail]]}
      BY DEF Appended
    <2> HIDE DEF g
    <2> QED BY <2>1, <2>2, ExceptSequence
  <1> QED BY <1>1, <1>2, <1>3

\* Each state is the one that the tables give for the state below and the symbol
Path(s) ==
  /\ IsSequence(s)
  /\ \A i \in 1 .. Len(s) : s[i].state \in DOMAIN Tables.goto
  /\ s # <<>> => s[1].state = Tables.start
  /\ \A i \in 2 .. Len(s) :
       /\ s[i].symbol \in DOMAIN Tables.goto[s[i - 1].state] \ {END}
       /\ s[i].state = Tables.goto[s[i - 1].state][s[i].symbol]

LEMMA PathLength ==
  ASSUME NEW s, Path(s)
  PROVE  Len(s) \in Nat /\ (s # <<>> => Len(s) >= 1)
  <1>1. s \in Seq(Range(s))
    BY DEF Path, IsSequence
  <1> DEFINE S == Range(s)
  <1> HIDE DEF S
  <1>2. s \in Seq(S)
    BY <1>1 DEF S
  <1> QED BY <1>2

LEMMA PathPrefix ==
  ASSUME NEW s, Path(s), NEW n \in 1 .. Len(s)
  PROVE  Path(SubSeq(s, 1, n)) /\ Len(SubSeq(s, 1, n)) = n /\ SubSeq(s, 1, n) # <<>>
         /\ \A i \in 1 .. n : SubSeq(s, 1, n)[i] = s[i]
  <1> DEFINE t == SubSeq(s, 1, n)
  <1>1. /\ IsSequence(t) /\ Len(t) = n /\ \A i \in 1 .. n : t[i] = s[i]
        /\ Len(s) \in Nat /\ Len(s) >= 1 /\ s # <<>>
    <2>1. n \in 0 .. Len(s) /\ Len(s) \in Nat /\ Len(s) >= 1
      BY PathLength
    <2> QED BY <2>1, PrefixSequence DEF Path
  <1> HIDE DEF t
  <1>2. t # <<>>
    BY <1>1
  <1>3. ASSUME NEW i \in 2 .. n
        PROVE  /\ t[i].symbol \in DOMAIN Tables.goto[t[i - 1].state] \ {END}
               /\ t[i].state = Tables.goto[t[i - 1].state][t[i].symbol]
    <2>1. t[i] = s[i] /\ t[i - 1] = s[i - 1] /\ i \in 2 .. Len(s)
      BY <1>1
    <2> QED BY <2>1 DEF Path
  <1>4. \A i \in 1 .. n : t[i].state \in DOMAIN Tables.goto
    BY <1>1 DEF Path
  <1>5. t[1].state = Tables.start
    BY <1>1 DEF Path
  <1>6. Path(t)
    BY <1>1, <1>3, <1>4, <1>5 DEF Path
  <1> QED BY <1>1, <1>2, <1>6 DEF t

\* What the tables say of a transition
LEMMA GotoState ==
  ASSUME NEW K \in DOMAIN Tables.goto, NEW X \in DOMAIN Tables.goto[K]
  PROVE  /\ Tables.goto[K][X] \in DOMAIN Tables.goto
         /\ \A item \in Tables.goto[K][X] :
              /\ Tables.production[item[1]].rhs[item[2]] = X
              /\ IF item[2] > 1 THEN <<item[1], item[2] - 1>> \in K
                 ELSE item[1] = 1 \/ Tables.production[item[1]].lhs \in DOMAIN Tables.goto[K]
  <1>1. \A L \in DOMAIN Tables.goto : \A Y \in DOMAIN Tables.goto[L] :
          /\ Tables.goto[L][Y] \in DOMAIN Tables.goto
          /\ END \in DOMAIN Tables.goto[Tables.goto[L][Y]] => Y = Goal
          /\ \A item \in Tables.goto[L][Y] :
               /\ item[2] \in Nat \ {0} /\ Tables.production[item[1]].rhs[item[2]] = Y
               /\ IF item[2] > 1 THEN <<item[1], item[2] - 1>> \in L
                  ELSE item[1] = 1 \/ Tables.production[item[1]].lhs \in DOMAIN Tables.goto[L]
    BY TablesAssumption, Zenon
  <1> QED BY <1>1, Zenon

LEMMA PathAppend ==
  ASSUME NEW s, Path(s), s # <<>>, NEW e, NEW K, K = s[Len(s)].state,
         e.symbol \in DOMAIN Tables.goto[K] \ {END}, e.state = Tables.goto[K][e.symbol]
  PROVE  Path(Append(s, e)) /\ Append(s, e) # <<>> /\ Len(Append(s, e)) = Len(s) + 1
         /\ \A i \in 1 .. Len(s) : Append(s, e)[i] = s[i]
         /\ Append(s, e)[Len(s) + 1] = e
  <1> DEFINE t == Append(s, e)
             n == Len(s)
  <1>1. /\ IsSequence(t) /\ Len(t) = n + 1 /\ n \in Nat /\ n >= 1
        /\ (\A i \in 1 .. n : t[i] = s[i]) /\ t[n + 1] = e
    <2>1. n \in Nat /\ n >= 1 /\ IsSequence(s)
      BY PathLength DEF Path
    <2> HIDE DEF n
    <2>2. /\ IsSequence(t) /\ Len(t) = Len(s) + 1
          /\ (\A i \in 1 .. Len(s) : t[i] = s[i]) /\ t[Len(s) + 1] = e
      BY <2>1, AppendSequence
    <2> QED BY <2>1, <2>2 DEF n
  <1> HIDE DEF t
  <1>2. t # <<>>
    BY <1>1
  <1>3. K \in DOMAIN Tables.goto
    BY <1>1 DEF Path
  <1>4. e.state \in DOMAIN Tables.goto
    <2>1. e.symbol \in DOMAIN Tables.goto[K]
      OBVIOUS
    <2> QED BY <1>3, <2>1, GotoState
  <1>5. \A i \in 1 .. n + 1 : t[i].state \in DOMAIN Tables.goto
    <2>1. \A i \in 1 .. n : t[i].state \in DOMAIN Tables.goto
      BY <1>1 DEF Path
    <2> QED BY <1>1, <1>4, <2>1
  <1>6. t[1].state = Tables.start
    <2>1. t[1] = s[1]
      BY <1>1
    <2> QED BY <2>1 DEF Path
  <1>7. ASSUME NEW i \in 2 .. n + 1
        PROVE  /\ t[i].symbol \in DOMAIN Tables.goto[t[i - 1].state] \ {END}
               /\ t[i].state = Tables.goto[t[i - 1].state][t[i].symbol]
    <2>1. CASE i = n + 1
      <3>1. t[i] = e /\ t[i - 1] = s[n]
        BY <1>1, <2>1
      <3> QED BY <3>1
    <2>2. CASE i \in 2 .. n
      <3>1. t[i] = s[i] /\ t[i - 1] = s[i - 1]
        BY <1>1, <2>2
      <3> QED BY <2>2, <3>1 DEF Path
    <2>3. n \in Nat /\ n >= 1
      BY <1>1
    <2>4. i = n + 1 \/ i \in 2 .. n
      <3> HIDE DEF n
      <3> QED BY <2>3
    <2> QED BY <2>1, <2>2, <2>4
  <1>8. Path(t)
    <2> HIDE DEF n
    <2> QED BY <1>1, <1>5, <1>6, <1>7 DEF Path
  <1> QED BY <1>1, <1>2, <1>8 DEF t

LEMMA LeastElement ==
  ASSUME NEW S \in SUBSET Nat, S # {}
  PROVE  \E m \in S : \A x \in S : m <= x
  <1> DEFINE Less == OpToRel(<, Nat)
  <1>1. ASSUME NEW x \in Nat, NEW y \in Nat, x < y PROVE <<x, y>> \in Less
    <2>1. <<x, y>>[1] = x /\ <<x, y>>[2] = y /\ <<x, y>> \in Nat \X Nat
      OBVIOUS
    <2> QED BY <1>1, <2>1, Zenon DEF OpToRel
  <1>2. IsWellFoundedOn(Less, Nat)
    BY NatLessThanWellFounded
  <1> HIDE DEF Less
  <1>3. PICK m \in S : \A x \in S : ~(<<x, m>> \in Less)
    BY <1>2, WFMin
  <1>4. \A x \in S : m <= x
    <2> SUFFICES ASSUME NEW x \in S PROVE ~(x < m)
      OBVIOUS
    <2>1. x \in Nat /\ m \in Nat /\ ~(<<x, m>> \in Less)
      BY <1>3
    <2> QED BY <1>1, <2>1, Zenon
  <1> QED BY <1>4

\* An item with something in front of its dot has that below it on the stack
LEMMA ItemBelow ==
  ASSUME NEW s, Path(s), NEW i \in 1 .. Len(s), NEW p, NEW d \in Nat \ {0}, <<p, d>> \in s[i].state
  PROVE  /\ i >= 2 /\ Tables.production[p].rhs[d] = s[i].symbol /\ s[i].symbol # END
         /\ d > 1 => <<p, d - 1>> \in s[i - 1].state
         /\ d = 1 => p = 1 \/ Tables.production[p].lhs \in DOMAIN Tables.goto[s[i - 1].state]
  <1>1. i >= 2
    <2>1. CASE i = 1
      <3>1. s[1].state = Tables.start
        BY <2>1, PathLength DEF Path
      <3> QED BY <2>1, <3>1, TablesAssumption
    <2> QED BY <2>1, PathLength
  <1> DEFINE K == s[i - 1].state
             X == s[i].symbol
  <1>2. /\ K \in DOMAIN Tables.goto /\ X \in DOMAIN Tables.goto[K] /\ X # END
        /\ s[i].state = Tables.goto[K][X]
    <2>1. i \in 2 .. Len(s) /\ i - 1 \in 1 .. Len(s)
      BY <1>1, PathLength
    <2> QED BY <2>1 DEF Path
  <1> HIDE DEF K, X
  <1>3. ASSUME NEW item \in Tables.goto[K][X]
        PROVE  /\ Tables.production[item[1]].rhs[item[2]] = X
               /\ IF item[2] > 1 THEN <<item[1], item[2] - 1>> \in K
                  ELSE item[1] = 1 \/ Tables.production[item[1]].lhs \in DOMAIN Tables.goto[K]
    BY <1>2, <1>3, GotoState
  <1>4. <<p, d>> \in Tables.goto[K][X]
    BY <1>2
  <1>5. <<p, d>>[1] = p /\ <<p, d>>[2] = d
    OBVIOUS
  <1>6. /\ Tables.production[p].rhs[d] = X
        /\ IF d > 1 THEN <<p, d - 1>> \in K ELSE p = 1 \/ Tables.production[p].lhs \in DOMAIN Tables.goto[K]
    BY <1>3, <1>4, <1>5
  <1> QED BY <1>1, <1>2, <1>6 DEF K, X

\* Below a complete item are those with less of the production in front of their dot.
LEMMA HandleItems ==
  ASSUME NEW s, Path(s), s # <<>>, NEW r, NEW L \in Nat \ {0}, <<r, L>> \in s[Len(s)].state
  PROVE  \A j \in 0 .. L - 1 : Len(s) - j >= 2 /\ <<r, L - j>> \in s[Len(s) - j].state
  <1> DEFINE n == Len(s)
             Fits(j) == n - j >= 2 /\ <<r, L - j>> \in s[n - j].state
             Bad == {j \in 0 .. L - 1 : ~Fits(j)}
  <1>1. n \in Nat /\ n >= 1
    BY PathLength
  <1>2. Bad = {}
    <2> SUFFICES ASSUME Bad # {} PROVE FALSE
      OBVIOUS
    <2>1. PICK m \in Bad : \A x \in Bad : m <= x
      <3>1. Bad \in SUBSET Nat
        OBVIOUS
      <3> HIDE DEF Bad
      <3> QED BY <3>1, LeastElement
    <2>2. m \in 0 .. L - 1 /\ ~Fits(m)
      OBVIOUS
    <2>3. CASE m = 0
      <3>1. n \in 1 .. Len(s) /\ <<r, L>> \in s[n].state
        BY <1>1
      <3>2. n >= 2
        BY <3>1, ItemBelow
      <3> QED BY <1>1, <2>2, <2>3, <3>2
    <2>4. CASE m > 0
      <3>1. m - 1 \in 0 .. L - 1
        BY <2>2, <2>4
      <3>2. Fits(m - 1)
        <4>1. m - 1 \notin Bad
          <5> HIDE DEF Bad
          <5> QED BY <2>1, <2>2
        <4> QED BY <3>1, <4>1
      <3> DEFINE i == n - (m - 1)
                 d == L - (m - 1)
      <3>3. /\ i \in 1 .. Len(s) /\ d \in Nat \ {0} /\ d > 1 /\ <<r, d>> \in s[i].state
            /\ i - 1 = n - m /\ d - 1 = L - m /\ d - 1 \in Nat \ {0} /\ i >= 2
        BY <1>1, <2>2, <2>4, <3>2
      <3> HIDE DEF i, d
      <3>4. <<r, d - 1>> \in s[i - 1].state
        BY <3>3, ItemBelow
      <3>5. i - 1 \in 1 .. Len(s)
        BY <1>1, <3>3
      <3>6. i - 1 >= 2
        BY <3>3, <3>4, <3>5, ItemBelow
      <3> QED BY <2>2, <3>3, <3>4, <3>6
    <2> QED BY <2>2, <2>3, <2>4
  <1> QED BY <1>2

\* What a state reduces is on the stack, above an element; and from the state of
\* that element there is a way on.
LEMMA HandleOnStack ==
  ASSUME NEW s, Path(s), s # <<>>, Reduces(s[Len(s)].state),
         NEW p, p = Tables.production[Tables.default[s[Len(s)].state]]
  PROVE  /\ Len(p.rhs) \in 0 .. Len(s) - 1
         /\ p.lhs \in DOMAIN Tables.goto[s[Len(s) - Len(p.rhs)].state] \ {END}
  <1> DEFINE n == Len(s)
             K == s[n].state
             r == Tables.default[K]
             L == Len(p.rhs)
  <1>1. n \in Nat /\ n >= 1
    BY PathLength
  <1>2. K \in DOMAIN Tables.goto
    BY <1>1 DEF Path
  <1>3. /\ r \in DOMAIN Tables.production /\ p.rhs \in Seq(STRING)
        /\ IF p.rhs = <<>> THEN p.lhs \in DOMAIN Tables.goto[K] ELSE <<r, L>> \in K
    BY <1>2, TablesAssumption
  <1>4. p.lhs # END
    BY <1>3, TablesAssumption
  <1>5. L \in Nat /\ (p.rhs = <<>> <=> L = 0)
    <2>1. \A t \in Seq(STRING) : Len(t) \in Nat /\ (t = <<>> <=> Len(t) = 0)
      OBVIOUS
    <2> QED BY <1>3, <2>1
  <1>6. CASE p.rhs = <<>>
    <2>1. L = 0 /\ n - L = n /\ L \in 0 .. n - 1
      <3> HIDE DEF L, n
      <3> QED BY <1>1, <1>5, <1>6
    <2>2. p.lhs \in DOMAIN Tables.goto[K] \ {END}
      BY <1>3, <1>4, <1>6
    <2>3. s[n - L].state = K
      BY <2>1
    <2> HIDE DEF L, n
    <2>4. L \in 0 .. n - 1 /\ p.lhs \in DOMAIN Tables.goto[s[n - L].state] \ {END}
      BY <2>1, <2>2, <2>3
    <2> QED BY <2>4 DEF L, n
  <1>7. CASE p.rhs # <<>>
    <2> DEFINE Fits(j) == n - j >= 2 /\ <<r, L - j>> \in s[n - j].state
    <2>1. L \in Nat \ {0} /\ <<r, L>> \in K
      BY <1>3, <1>5, <1>7
    <2> HIDE DEF L, r
    <2>2. \A j \in 0 .. L - 1 : Fits(j)
      BY <2>1, HandleItems
    <2>3. Fits(L - 1)
      <3>1. L - 1 \in 0 .. L - 1
        BY <2>1
      <3> QED BY <2>2, <3>1
    <2> DEFINE i == n - (L - 1)
    <2>4. i \in 1 .. Len(s) /\ <<r, 1>> \in s[i].state /\ i - 1 = n - L /\ i >= 2
      <3>1. L - (L - 1) = 1
        BY <2>1
      <3> QED BY <1>1, <2>1, <2>3, <3>1
    <2> HIDE DEF i
    <2>5. r = 1 \/ p.lhs \in DOMAIN Tables.goto[s[i - 1].state]
      <3>1. p = Tables.production[r]
        BY DEF r
      <3>2. 1 \in Nat \ {0} /\ 1 = 1
        OBVIOUS
      <3>3. r = 1 \/ Tables.production[r].lhs \in DOMAIN Tables.goto[s[i - 1].state]
        BY <2>4, <3>2, ItemBelow, Zenon
      <3> QED BY <3>1, <3>3
    <2>6. ASSUME NEW d \in Nat \ {0}, <<r, d>> \in s[n].state, n \in 1 .. Len(s)
          PROVE  Tables.production[r].rhs[d] = s[n].symbol /\ s[n].symbol # END
      <3> HIDE DEF n
      <3>1. /\ n >= 2 /\ Tables.production[r].rhs[d] = s[n].symbol /\ s[n].symbol # END
            /\ d > 1 => <<r, d - 1>> \in s[n - 1].state
            /\ d = 1 => r = 1 \/ Tables.production[r].lhs \in DOMAIN Tables.goto[s[n - 1].state]
        BY <2>6, ItemBelow
      <3> QED BY <3>1
    <2>7. r # 1
      <3> SUFFICES ASSUME r = 1 PROVE FALSE
        OBVIOUS
      <3>1. p.rhs = <<Goal, END>>
        BY TablesAssumption DEF r
      <3>2. L = 2
        BY <3>1 DEF L
      <3>3. <<r, 2>> \in s[n].state /\ n \in 1 .. Len(s)
        BY <1>1, <2>1, <3>2
      <3>4. Tables.production[r].rhs[2] = s[n].symbol /\ s[n].symbol # END
        <4>1. 2 \in Nat \ {0}
          OBVIOUS
        <4> QED BY <2>6, <3>3, <4>1
      <3>5. Tables.production[r].rhs[2] = END
        BY <3>1 DEF r
      <3> QED BY <3>4, <3>5
    <2>8. L \in 0 .. n - 1
      BY <1>1, <2>1, <2>4
    <2> QED BY <1>4, <2>4, <2>5, <2>7, <2>8 DEF L
  <1> QED BY <1>6, <1>7

\* Its elements stand for the symbols of the right side.
SymbolsAbove(s, n, p) == \A k \in 1 .. Len(p.rhs) : s[n + k].symbol = p.rhs[k]

LEMMA HandleSymbols ==
  ASSUME NEW s, Path(s), s # <<>>, Reduces(s[Len(s)].state),
         NEW p, p = Tables.production[Tables.default[s[Len(s)].state]],
         NEW base, base = Len(s) - Len(p.rhs)
  PROVE  SymbolsAbove(s, base, p)
  <1> SUFFICES ASSUME NEW k \in 1 .. Len(p.rhs) PROVE s[Len(s) - Len(p.rhs) + k].symbol = p.rhs[k]
    BY DEF SymbolsAbove
  <1> DEFINE n == Len(s)
             K == s[n].state
             r == Tables.default[K]
             L == Len(p.rhs)
  <1>1. n \in Nat /\ n >= 1
    BY PathLength
  <1>2. K \in DOMAIN Tables.goto
    BY <1>1 DEF Path
  <1>3. p.rhs \in Seq(STRING) /\ (p.rhs # <<>> => <<r, L>> \in K)
    BY <1>2, TablesAssumption
  <1>4. L \in Nat /\ (p.rhs = <<>> => L = 0)
    <2>1. \A t \in Seq(STRING) : Len(t) \in Nat /\ (t = <<>> => Len(t) = 0)
      OBVIOUS
    <2> QED BY <1>3, <2>1
  <1>5. L \in Nat \ {0} /\ <<r, L>> \in s[Len(s)].state
    <2>1. k \in 1 .. L
      OBVIOUS
    <2> HIDE DEF L
    <2>2. L # 0
      BY <1>4, <2>1
    <2> QED BY <1>3, <1>4, <2>2
  <1>6. p = Tables.production[r] /\ k \in 1 .. L
    OBVIOUS
  <1> HIDE DEF L, r, K
  <1> DEFINE j == L - k
             i == n - j
  <1>7. j \in 0 .. L - 1 /\ L - j = k /\ k \in Nat \ {0} /\ i = n - L + k
    BY <1>1, <1>5, <1>6
  <1>8. i >= 2 /\ <<r, k>> \in s[i].state
    <2>1. n - j >= 2 /\ <<r, L - j>> \in s[n - j].state
      <3> HIDE DEF j
      <3> QED BY <1>5, <1>7, HandleItems
    <2> QED BY <1>7, <2>1
  <1>9. i \in 1 .. Len(s)
    BY <1>1, <1>7, <1>8
  <1> HIDE DEF i, j
  <1>10. Tables.production[r].rhs[k] = s[i].symbol
    <2>1. k \in Nat \ {0} /\ <<r, k>> \in s[i].state
      BY <1>7, <1>8
    <2>2. /\ i >= 2 /\ Tables.production[r].rhs[k] = s[i].symbol /\ s[i].symbol # END
          /\ k > 1 => <<r, k - 1>> \in s[i - 1].state
          /\ k = 1 => r = 1 \/ Tables.production[r].lhs \in DOMAIN Tables.goto[s[i - 1].state]
      BY <1>9, <2>1, ItemBelow
    <2> QED BY <2>2
  <1> QED BY <1>6, <1>7, <1>10 DEF L

(***************************************************************************)
(* The invariant of the parser                                             *)
(***************************************************************************)

\* While it works, the parser has a stack; and what stands for the whole file was
\* put there by an action that set parsed_program.
Working ==
  /\ stack # <<>> /\ Path(stack)
  /\ \A i \in 2 .. Len(stack) : stack[i].symbol = Goal => parsed_program # NIL

Counted ==
  /\ parse_error_count \in Nat /\ error_count \in Nat
  /\ Len(messages) <= parse_error_count + error_count

\* A program was parsed when yyparse accepts
Accepted == pc \in {ACCEPT, PARSED} => parsed_program # NIL

ParserInv ==
  /\ file \in File /\ Scanned
  /\ HasToken => yychar # Goal
  /\ IsSequence(heap)
  /\ pc \in {PARSING, POPPING} => Working
  /\ Counted /\ Accepted /\ NothingAfterErrors

LEMMA ScanFrame ==
  ASSUME Scanned, file \in File, HasToken => yychar # Goal, Text \/ TextFails \/ Scan
  PROVE  /\ file' = file /\ (HasToken => yychar # Goal)'
         /\ \/ messages' = messages /\ error_count' \in {error_count, error_count + 1}
            \/ (\E m : messages' = Append(messages, m)) /\ error_count' = error_count + 1
  <1>1. ~AtEof => at \in DOMAIN file
    BY PlaceTyped DEF Scanned, Place
  <1>2. ~AtEof => piece.token # Goal
    BY <1>1, TokenAssumption DEF piece
  <1>3. END # Goal
    BY TablesAssumption
  <1>4. CASE Word \/ Text
    BY <1>2, <1>4 DEF Word, Text, Match, Matches, HasToken
  <1>5. CASE TextFails \/ Eof
    BY <1>3, <1>5 DEF TextFails, Eof, Match, HasToken
  <1>6. CASE Blank \/ OpenComment \/ CommentText \/ CloseComment \/ Newline
    BY <1>6 DEF Blank, OpenComment, CommentText, CloseComment, Newline, Match, HasToken
  <1>7. CASE BadChar
    BY <1>7 DEF BadChar, Match, HasToken
  <1>8. CASE EofInComment
    BY <1>3, <1>8 DEF EofInComment, HasToken
  <1> QED BY <1>4, <1>5, <1>6, <1>7, <1>8 DEF Scan

LEMMA Longer ==
  ASSUME Scanned, NEW m, messages' = Append(messages, m)
  PROVE  Len(messages) \in Nat /\ Len(messages') = Len(messages) + 1
  <1>1. messages \in Seq(MessageType)
    BY DEF Scanned
  <1>2. IsSequence(messages)
    BY <1>1, SequenceOf
  <1> QED BY <1>2, AppendSequence

\* The message of yyerror names the token
LEMMA ReportScanned ==
  ASSUME Scanned, HasToken, UNCHANGED <<scanner, yychar>>, Report
  PROVE  Scanned'
  <1>1. yytext # 0 => Token
    BY DEF Scanned, HasToken
  <1>2. yytext # 0 => yylineno = LineOf(yytext) /\ token_col = ColumnOf(yytext)
    <2> SUFFICES ASSUME Token PROVE yylineno = LineOf(yytext) /\ token_col = ColumnOf(yytext)
      BY <1>1
    <2>1. at = yytext + 1 /\ yytext \in Nat \ {0} /\ ~IsNewline(yytext) /\ yylineno = LineOf(at)
      BY PlaceTyped DEF Scanned, Place, Token
    <2>2. LineOf(yytext + 1) = LineOf(yytext)
      <3>1. LineOf(yytext) \in Nat /\ LineOf(yytext + 1) = LineOf(yytext) + 0
        BY <2>1, LineOfNext
      <3> QED BY <3>1
    <2> QED BY <2>1, <2>2 DEF Token
  <1>3. /\ yylineno \in Nat /\ token_col \in Nat /\ yytext \in Nat /\ "syntax" \in Kind
        /\ line_preview' = line_preview /\ line_preview \in Seq(Nat)
    BY PlaceTyped DEF Scanned, Preview, scanner, position, Kind
  <1>4. Says
    <2>1. yytext # 0 /\ "syntax" # "comment" => Shows(line_preview', yytext)
      BY <1>1, <1>3 DEF Token
    <2>2. messages' = Append(messages, Message(yylineno, token_col, yytext, "syntax"))
      BY DEF Report
    <2> QED BY <1>2, <1>3, <2>1, <2>2, MessageRight
  <1> QED BY <1>4, AfterStay DEF scanner

\* A step of the parser itself
Parses ==
  \/ Shift \/ Accept \/ ReduceOnly \/ ReduceAppend \/ ReduceMake \/ ReduceFails \/ ReduceRecover
  \/ SyntaxError \/ Discard \/ GiveUp \/ Pop \/ ShiftError
  \/ Clean \/ Return

LEMMA ParserFrame ==
  ASSUME Parses
  PROVE  /\ UNCHANGED scanner
         /\ UNCHANGED yychar \/ yychar' = EMPTY
         /\ \/ UNCHANGED <<messages, parse_error_count>>
            \/ HasToken /\ UNCHANGED yychar /\ Report
  <1>1. CASE Shift \/ Accept
    BY <1>1 DEF Shift, Accept
  <1>2. CASE ReduceOnly \/ ReduceAppend \/ ReduceMake \/ ReduceFails \/ ReduceRecover
    BY <1>2 DEF ReduceOnly, ReduceAppend, ReduceMake, ReduceFails, ReduceRecover, lexerVars
  <1>3. CASE SyntaxError
    BY <1>3 DEF SyntaxError, IsError
  <1>4. CASE Discard \/ GiveUp \/ Pop \/ ShiftError
    BY <1>4 DEF Discard, GiveUp, Pop, ShiftError, lexerVars
  <1>5. CASE Clean \/ Return
    BY <1>5 DEF Clean, Return, lexerVars
  <1> QED BY <1>1, <1>2, <1>3, <1>4, <1>5 DEF Parses

LEMMA ParsesScanned ==
  ASSUME ParserInv, Parses
  PROVE  /\ file' \in File /\ Scanned' /\ (HasToken => yychar # Goal)' /\ Counted'
         /\ error_count' = error_count
  <1>1. /\ UNCHANGED scanner
        /\ UNCHANGED yychar \/ yychar' = EMPTY
        /\ \/ UNCHANGED <<messages, parse_error_count>>
           \/ HasToken /\ UNCHANGED yychar /\ Report
    BY ParserFrame
  <1>2. Scanned
    BY DEF ParserInv
  <1>3. file' = file /\ error_count' = error_count
    BY <1>1 DEF scanner
  <1>4. Scanned'
    <2>1. CASE UNCHANGED messages
      BY <1>1, <1>2, <2>1, AfterStay DEF scanner, Says
    <2>2. CASE HasToken /\ UNCHANGED yychar /\ Report
      BY <1>1, <1>2, <2>2, ReportScanned
    <2> QED BY <1>1, <2>1, <2>2
  <1>5. Counted'
    <2>1. CASE UNCHANGED <<messages, parse_error_count>>
      BY <1>3, <2>1 DEF ParserInv, Counted
    <2>2. CASE Report
      <3>1. Len(messages') = Len(messages) + 1 /\ Len(messages) \in Nat
        BY <1>2, <2>2, Longer DEF Report
      <3> QED BY <1>3, <2>2, <3>1 DEF Report, ParserInv, Counted
    <2> QED BY <1>1, <2>1, <2>2
  <1>6. (HasToken => yychar # Goal)'
    BY <1>1 DEF ParserInv, HasToken
  <1> QED BY <1>3, <1>4, <1>5, <1>6 DEF ParserInv

(***************************************************************************)
(* The steps of the parser                                                 *)
(***************************************************************************)

\* The lower part of the stack, and a new element for a symbol that may follow
LEMMA Pushed ==
  ASSUME Working, NEW n \in 1 .. depth, NEW s, Path(s), s # <<>>, Len(s) = n,
         \A i \in 1 .. n : s[i] = stack[i],
         NEW e, e.symbol \in DOMAIN Tables.goto[stack[n].state] \ {END},
         e.state = Tables.goto[stack[n].state][e.symbol],
         stack' = Append(s, e),
         parsed_program # NIL \/ e.symbol = Goal => parsed_program' # NIL
  PROVE  Working'
  <1>1. n \in Nat /\ n >= 1 /\ Len(stack) \in Nat /\ n <= Len(stack)
    BY PathLength DEF Working, depth
  <1>2. /\ Path(stack') /\ stack' # <<>> /\ Len(stack') = n + 1
        /\ \A i \in 1 .. n : stack'[i] = stack[i]
        /\ stack'[n + 1] = e
    <2> DEFINE K == stack[n].state
    <2>1. K = s[Len(s)].state
      BY <1>1
    <2> HIDE DEF K
    <2>2. e.symbol \in DOMAIN Tables.goto[K] \ {END} /\ e.state = Tables.goto[K][e.symbol]
      BY DEF K
    <2>3. /\ Path(Append(s, e)) /\ Append(s, e) # <<>> /\ Len(Append(s, e)) = Len(s) + 1
          /\ \A i \in 1 .. Len(s) : Append(s, e)[i] = s[i]
          /\ Append(s, e)[Len(s) + 1] = e
      BY <2>1, <2>2, PathAppend
    <2> QED BY <2>3
  <1>3. ASSUME NEW i \in 2 .. n + 1, stack'[i].symbol = Goal PROVE parsed_program' # NIL
    <2>1. CASE i = n + 1
      BY <1>2, <1>3, <2>1
    <2>2. CASE i \in 2 .. n
      <3>1. stack[i].symbol = Goal /\ i \in 2 .. Len(stack)
        BY <1>1, <1>2, <1>3, <2>2
      <3> QED BY <3>1 DEF Working
    <2> QED BY <1>1, <2>1, <2>2
  <1>4. (Path(stack))'
    BY <1>2 DEF Path, IsSequence
  <1> QED BY <1>2, <1>3, <1>4 DEF Working

\* A reduction replaces the right side of its production by the left side.
LEMMA ReducedWorking ==
  ASSUME Working, NEW dos, NEW p \in Ready(dos), NEW value, Reduced(p, value),
         parsed_program # NIL \/ p.lhs = Goal => parsed_program' # NIL
  PROVE  Working'
  <1> DEFINE n == depth - Len(p.rhs)
             e == [state |-> Tables.goto[stack[n].state][p.lhs], symbol |-> p.lhs, value |-> value]
  <1>1. Reduces(state) /\ p = Tables.production[Tables.default[state]]
    BY DEF Ready
  <1>2. Path(stack) /\ stack # <<>> /\ Len(stack) \in Nat
    BY PathLength DEF Working
  <1>3. /\ Len(p.rhs) \in 0 .. depth - 1
        /\ p.lhs \in DOMAIN Tables.goto[stack[n].state] \ {END}
    BY <1>1, <1>2, HandleOnStack DEF state, depth
  <1>4. n \in 1 .. depth
    BY <1>2, <1>3 DEF depth
  <1>5. stack' = Append(Rest(p), e)
    BY DEF Reduced
  <1>6. e.symbol = p.lhs /\ e.state = Tables.goto[stack[n].state][p.lhs]
    OBVIOUS
  <1> HIDE DEF e
  <1>7. Rest(p) = SubSeq(stack, 1, n)
    BY DEF Rest
  <1> HIDE DEF n
  <1>8. /\ Path(Rest(p)) /\ Rest(p) # <<>> /\ Len(Rest(p)) = n
        /\ \A i \in 1 .. n : Rest(p)[i] = stack[i]
    BY <1>2, <1>4, <1>7, PathPrefix DEF depth
  <1> QED BY <1>3, <1>4, <1>5, <1>6, <1>8, Pushed

LEMMA ProducesGoal ==
  ASSUME Working, NEW dos, NEW p \in Ready(dos), p.lhs = Goal
  PROVE  p.act.do = "program" /\ p.act.do \in dos
  <1>1. /\ Reduces(state) /\ p = Tables.production[Tables.default[state]] /\ p.act.do \in dos
    BY DEF Ready
  <1>2. state \in DOMAIN Tables.goto
    <2>1. depth \in 1 .. Len(stack)
      BY PathLength DEF Working, depth
    <2> QED BY <2>1 DEF Working, Path, state
  <1>3. Tables.default[state] \in DOMAIN Tables.production
    BY <1>1, <1>2, TablesAssumption
  <1> QED BY <1>1, <1>3, TablesAssumption

LEMMA ShiftWorking ==
  ASSUME Working, NEW symbol, Shifts(state, symbol), symbol \notin {END, Goal}, NEW e,
         e.symbol = symbol, e.state = Tables.goto[state][symbol],
         stack' = Append(stack, e), parsed_program' = parsed_program
  PROVE  Working'
  <1>1. Path(stack) /\ stack # <<>> /\ Len(stack) = depth /\ depth \in 1 .. depth /\ depth \in Nat
    BY PathLength DEF Working, depth
  <1>2. /\ e.symbol \in DOMAIN Tables.goto[stack[depth].state] \ {END}
        /\ e.state = Tables.goto[stack[depth].state][e.symbol]
    BY DEF Shifts, state
  <1> HIDE DEF depth
  <1> QED BY <1>1, <1>2, Pushed

LEMMA PopWorking ==
  ASSUME Working, depth > 1, stack' = SubSeq(stack, 1, depth - 1), parsed_program' = parsed_program
  PROVE  Working'
  <1> DEFINE n == depth - 1
  <1>1. Path(stack) /\ n \in 1 .. Len(stack) /\ Len(stack) \in Nat
    BY PathLength DEF Working, depth
  <1> HIDE DEF n
  <1>2. /\ Path(stack') /\ Len(stack') = n /\ stack' # <<>>
        /\ \A i \in 1 .. n : stack'[i] = stack[i]
    BY <1>1, PathPrefix DEF n
  <1>3. ASSUME NEW i \in 2 .. n, stack'[i].symbol = Goal PROVE parsed_program' # NIL
    <2>1. i \in 2 .. Len(stack) /\ i \in 1 .. n
      BY <1>1
    <2>2. stack[i].symbol = Goal
      BY <1>2, <1>3, <2>1
    <2> QED BY <2>1, <2>2 DEF Working
  <1>4. (Path(stack))'
    BY <1>2 DEF Path, IsSequence
  <1> QED BY <1>2, <1>3, <1>4 DEF Working

\* Behind an element from which the end is shifted is the goal.
LEMMA GoalOnTop ==
  ASSUME Working, Shifts(state, END)
  PROVE  parsed_program # NIL
  <1>1. /\ Path(stack) /\ stack # <<>> /\ Len(stack) = depth /\ depth \in Nat /\ depth >= 1
        /\ state = stack[depth].state
    BY PathLength DEF Working, depth, state
  <1>2. depth # 1
    <2> SUFFICES ASSUME depth = 1 PROVE FALSE
      OBVIOUS
    <2>1. state = Tables.start
      BY <1>1 DEF Path
    <2> QED BY <2>1, TablesAssumption DEF Shifts
  <1>3. depth \in 2 .. Len(stack) /\ depth - 1 \in 1 .. Len(stack)
    BY <1>1, <1>2
  <1> DEFINE K == stack[depth - 1].state
             X == stack[depth].symbol
  <1>4. K \in DOMAIN Tables.goto /\ X \in DOMAIN Tables.goto[K] /\ state = Tables.goto[K][X]
    BY <1>1, <1>3 DEF Path
  <1> HIDE DEF K
  <1>5. X = Goal
    <2> HIDE DEF X
    <2>1. END \in DOMAIN Tables.goto[Tables.goto[K][X]]
      BY <1>4 DEF Shifts
    <2> QED BY <1>4, <2>1, TablesAssumption
  <1> QED BY <1>3, <1>5 DEF Working

\* What a step of the parser does to its stack and to what it has parsed
LEMMA ParsesWorking ==
  ASSUME ParserInv, Parses
  PROVE  (pc \in {PARSING, POPPING} => Working)'
  <1> USE DEF PARSING, POPPING, ABORT, ACCEPT, FAILED, PARSED, RETURNED
  <1>1. ASSUME pc \in {PARSING, POPPING} PROVE Working
    BY <1>1 DEF ParserInv
  <1>2. CASE Shift
    <2> DEFINE e == [Lookahead EXCEPT !.state = Tables.goto[state][yychar]]
    <2>1. /\ Working /\ Shifts(state, yychar) /\ yychar \notin {END, Goal}
          /\ stack' = Append(stack, e) /\ parsed_program' = parsed_program
      BY <1>1, <1>2 DEF Shift, Asks, ParserInv, outcome
    <2>2. e.symbol = yychar /\ e.state = Tables.goto[state][yychar]
      BY DEF Lookahead
    <2> HIDE DEF e
    <2> QED BY <2>1, <2>2, ShiftWorking
  <1>3. CASE ReduceOnly
    <2>1. PICK p \in Ready({"pass", "null", "stand"}) :
            (\E value : Reduced(p, value)) /\ parsed_program' = parsed_program
      BY <1>3 DEF ReduceOnly, outcome
    <2>2. Working
      BY <1>1 DEF Ready
    <2>3. p.lhs # Goal
      BY <2>2, ProducesGoal
    <2> QED BY <2>1, <2>2, <2>3, ReducedWorking
  <1>4. CASE ReduceAppend
    <2>1. PICK p \in Ready({"append"}) :
            (\E value : Reduced(p, value)) /\ parsed_program' = parsed_program
      BY <1>4 DEF ReduceAppend, outcome
    <2>2. Working
      BY <1>1 DEF Ready
    <2>3. p.lhs # Goal
      BY <2>2, ProducesGoal
    <2> QED BY <2>1, <2>2, <2>3, ReducedWorking
  <1>5. CASE ReduceMake
    <2>1. PICK p \in Ready(MakesNode) :
            /\ \E value : Reduced(p, value)
            /\ parsed_program' = IF p.act.do = "program" THEN Fresh(heap) ELSE parsed_program
      BY <1>5 DEF ReduceMake
    <2>2. Working
      BY <1>1 DEF Ready
    <2>3. p.lhs = Goal => p.act.do = "program"
      BY <2>2, ProducesGoal
    <2>4. Fresh(heap) # NIL
      BY HeapKept DEF ParserInv
    <2>5. parsed_program # NIL \/ p.lhs = Goal => parsed_program' # NIL
      BY <2>1, <2>3, <2>4
    <2> QED BY <2>1, <2>2, <2>5, ReducedWorking
  <1>6. CASE ReduceRecover
    <2>1. PICK p \in Ready({"recover"}) : Reduced(p, NIL) /\ parsed_program' = parsed_program
      BY <1>6 DEF ReduceRecover, outcome
    <2>2. Working
      BY <1>1 DEF Ready
    <2>3. p.lhs # Goal
      BY <2>2, ProducesGoal
    <2> QED BY <2>1, <2>2, <2>3, ReducedWorking
  <1>7. CASE SyntaxError \/ Discard
    <2>1. Working /\ stack' = stack /\ parsed_program' = parsed_program
      BY <1>1, <1>7 DEF SyntaxError, Discard, IsError, Asks, outcome
    <2> QED BY <2>1 DEF Working, Path, IsSequence
  <1>8. CASE Pop
    <2>1. Working /\ depth > 1 /\ stack' = SubSeq(stack, 1, depth - 1) /\ parsed_program' = parsed_program
      BY <1>1, <1>8 DEF Pop, outcome
    <2> QED BY <2>1, PopWorking
  <1>9. CASE ShiftError
    <2> DEFINE e == [state |-> Tables.goto[state]["error"], symbol |-> "error", value |-> yylval]
    <2>1. /\ Working /\ Shifts(state, "error") /\ parsed_program' = parsed_program
          /\ stack' = Append(stack, e)
      BY <1>1, <1>9 DEF ShiftError, outcome
    <2>2. "error" \notin {END, Goal}
      BY TablesAssumption DEF END
    <2>3. e.symbol = "error" /\ e.state = Tables.goto[state]["error"]
      OBVIOUS
    <2> HIDE DEF e
    <2> QED BY <2>1, <2>2, <2>3, ShiftWorking
  <1>10. CASE Accept \/ ReduceFails \/ GiveUp \/ Clean \/ Return
    BY <1>10 DEF Accept, ReduceFails, GiveUp, Clean, Return
  <1> QED
    BY <1>2, <1>3, <1>4, <1>5, <1>6, <1>7, <1>8, <1>9, <1>10 DEF Parses

LEMMA ParsesAccepted ==
  ASSUME ParserInv, Parses
  PROVE  Accepted'
  <1> USE DEF PARSING, POPPING, ABORT, ACCEPT, FAILED, PARSED, RETURNED
  <1>1. CASE Accept
    <2>1. parsed_program # NIL
      BY <1>1, GoalOnTop DEF Accept, Asks, ParserInv
    <2> QED BY <1>1, <2>1 DEF Accept, Accepted, outcome
  <1>2. CASE Clean
    BY <1>2 DEF Clean, Accepted, ParserInv, outcome
  <1>3. CASE Shift \/ ReduceOnly \/ ReduceAppend \/ ReduceMake \/ ReduceFails \/ ReduceRecover
    BY <1>3 DEF Shift, Asks, ReduceOnly, ReduceAppend, ReduceMake, ReduceFails, ReduceRecover, Ready,
                Accepted
  <1>4. CASE SyntaxError \/ Discard \/ GiveUp \/ Pop \/ ShiftError \/ Return
    BY <1>4 DEF SyntaxError, Discard, GiveUp, Pop, ShiftError, Return, IsError, Asks, Accepted
  <1> QED BY <1>1, <1>2, <1>3, <1>4 DEF Parses

LEMMA ParsesHeap ==
  ASSUME ParserInv, Parses
  PROVE  IsSequence(heap)'
  <1>1. IsSequence(heap)
    BY DEF ParserInv
  <1>2. \/ heap' = heap
        \/ \E head, node : heap' = Appended(heap, head, node)
        \/ \E kind, tag, kids : heap' = New(heap, kind, tag, kids)
        \/ \E kind, tag, kids, head, node : heap' = Appended(New(heap, kind, tag, kids), head, node)
    <2>1. CASE ReduceAppend
      BY <2>1 DEF ReduceAppend
    <2>2. CASE ReduceMake
      <3>1. PICK p \in Ready(MakesNode) : \E kids :
              LET made == New(heap, p.act.kind, Tag(p), kids)
              IN  heap' = IF p.act.do = "grow" THEN Appended(made, Dollar(p, 1), Fresh(heap)) ELSE made
        BY <2>2 DEF ReduceMake
      <3> QED BY <3>1
    <2>3. CASE Shift \/ Accept \/ ReduceOnly \/ ReduceFails \/ ReduceRecover
      BY <2>3 DEF Shift, Accept, ReduceOnly, ReduceFails, ReduceRecover, memory
    <2>4. CASE SyntaxError \/ Discard \/ GiveUp \/ Pop \/ ShiftError \/ Clean \/ Return
      BY <2>4 DEF SyntaxError, Discard, GiveUp, Pop, ShiftError, Clean, Return, memory
    <2> QED BY <2>1, <2>2, <2>3, <2>4 DEF Parses
  <1>3. IsSequence(heap')
    BY <1>1, <1>2, HeapKept
  <1> QED BY <1>3 DEF IsSequence

LEMMA ParsesReturned ==
  ASSUME ParserInv, Parses
  PROVE  NothingAfterErrors'
  <1> USE DEF PARSING, POPPING, ABORT, ACCEPT, FAILED, PARSED, RETURNED
  <1>1. CASE Return
    <2> DEFINE count == parse_error_count + error_count
    <2>1. /\ pc \in {PARSED, FAILED} /\ messages' = messages
          /\ out_error_count' = count + (IF pc = FAILED /\ parse_error_count = 0 THEN 1 ELSE 0)
          /\ out_program' = IF out_error_count' > 0 THEN NIL ELSE parsed_program
      BY <1>1 DEF Return, lexerVars
    <2>2. /\ count \in Nat /\ Len(messages) <= count /\ parse_error_count \in Nat /\ error_count \in Nat
          /\ Len(messages) \in Nat
      BY Longer DEF ParserInv, Counted, Scanned
    <2>3. out_error_count' = 0 => pc = PARSED
      BY <2>1, <2>2
    <2>4. out_error_count' = 0 => parsed_program # NIL
      BY <2>3 DEF ParserInv, Accepted
    <2>5. out_error_count' \in Nat /\ out_error_count' >= Len(messages')
      BY <2>1, <2>2
    <2>6. out_program' # NIL <=> out_error_count' = 0
      BY <2>1, <2>4, <2>5
    <2> QED BY <2>5, <2>6 DEF NothingAfterErrors
  <1>2. CASE Shift \/ Accept \/ ReduceOnly \/ ReduceAppend \/ ReduceMake \/ ReduceFails \/ ReduceRecover
    BY <1>2 DEF Shift, Accept, Asks, ReduceOnly, ReduceAppend, ReduceMake, ReduceFails, ReduceRecover,
                Ready, NothingAfterErrors
  <1>3. CASE SyntaxError \/ Discard \/ GiveUp \/ Pop \/ ShiftError \/ Clean
    BY <1>3 DEF SyntaxError, Discard, GiveUp, Pop, ShiftError, Clean, IsError, Asks, NothingAfterErrors
  <1> QED BY <1>1, <1>2, <1>3 DEF Parses

(***************************************************************************)
(* The theorems                                                            *)
(***************************************************************************)

LEMMA InitInv == Init => ParserInv
  <1> SUFFICES ASSUME Init PROVE ParserInv
    OBVIOUS
  <1>1. /\ file \in Seq(Piece) /\ file \in File /\ PREVIEW_CAP \in Nat \ {0}
        /\ at = 1 /\ yylineno = 1 /\ current_col = 1 /\ token_col = 1 /\ start = INITIAL
        /\ line_preview = <<>> /\ line_preview_len = 0 /\ yytext = 0 /\ error_count = 0
        /\ yychar = EMPTY /\ messages = <<>>
    BY ScannerAssumption DEF Init, LexerInit
  <1>2. Place
    <2>1. at \in 1 .. Len(file) + 1
      BY <1>1
    <2> QED BY <1>1, <2>1, FirstPlace DEF Place
  <1>3. Preview
    <2>1. Least(0, PREVIEW_CAP - 1) = 0 /\ current_col - 1 = 0 /\ 0 <= PREVIEW_CAP - 1
      BY <1>1 DEF Least
    <2>2. line_preview \in Seq(Nat) /\ Len(line_preview) = 0
      BY <1>1
    <2>3. \A c \in 1 .. line_preview_len : FALSE
      BY <1>1
    <2> QED BY <1>1, <2>1, <2>2, <2>3 DEF Preview
  <1>4. Scanned
    <2>1. messages \in Seq(MessageType) /\ LocatedRight
      BY <1>1 DEF LocatedRight
    <2> QED BY <1>1, <1>2, <1>3, <2>1 DEF Scanned, INITIAL, COMMENT
  <1>5. Working
    <2> DEFINE bottom == [state |-> Tables.start, symbol |-> "", value |-> NIL]
    <2>1. bottom.state = Tables.start
      OBVIOUS
    <2>2. stack = <<bottom>>
      BY DEF Init
    <2> HIDE DEF bottom
    <2>3. IsSequence(stack) /\ Len(stack) = 1 /\ stack[1] = bottom /\ stack # <<>>
      <3>1. stack \in Seq({bottom})
        BY <2>2
      <3> QED BY <2>2, <3>1, SequenceOf
    <2>4. Tables.start \in DOMAIN Tables.goto
      BY TablesAssumption
    <2>5. \A i \in 1 .. 1 : i = 1
      OBVIOUS
    <2>6. \A i \in 2 .. 1 : FALSE
      OBVIOUS
    <2> QED BY <2>1, <2>3, <2>4, <2>5, <2>6 DEF Working, Path
  <1>6. IsSequence(heap)
    <2>1. heap = <<>>
      BY DEF Init
    <2>2. <<>> \in Seq({NIL})
      OBVIOUS
    <2> QED BY <2>1, <2>2, SequenceOf
  <1>7. parse_error_count = 0 /\ pc = PARSING
    BY DEF Init
  <1> QED
    BY <1>1, <1>4, <1>5, <1>6, <1>7
    DEF ParserInv, HasToken, Counted, Accepted, NothingAfterErrors, PARSING, ACCEPT, PARSED, RETURNED

LEMMA ScansInv ==
  ASSUME ParserInv, ScanText \/ ScanTextFails \/ ScanOther
  PROVE  ParserInv'
  <1>1. Asks /\ (Text \/ TextFails \/ Scan)
    BY DEF ScanText, ScanTextFails, ScanOther
  <1>2. /\ UNCHANGED <<stack, pc, parse_error_count, parsed_program, out_program, out_error_count>>
        /\ heap' = heap \/ heap' = New(heap, "TEXT", piece.text, <<>>)
    BY DEF ScanText, ScanTextFails, ScanOther, parserVars, outcome, memory
  <1>3. Scanned /\ file \in File /\ (HasToken => yychar # Goal) /\ IsSequence(heap)
    BY DEF ParserInv
  <1>4. Scanned'
    BY <1>1, <1>3, ScanStep
  <1>5. /\ file' = file /\ (HasToken => yychar # Goal)'
        /\ \/ messages' = messages /\ error_count' \in {error_count, error_count + 1}
           \/ (\E m : messages' = Append(messages, m)) /\ error_count' = error_count + 1
    BY <1>1, <1>3, ScanFrame
  <1>6. IsSequence(heap)'
    <2>1. IsSequence(heap')
      BY <1>2, <1>3, HeapKept
    <2> QED BY <2>1 DEF IsSequence
  <1>7. Counted'
    <2>1. CASE messages' = messages
      <3>1. Len(messages) \in Nat
        BY <1>3 DEF Scanned
      <3> QED BY <1>2, <1>5, <2>1, <3>1 DEF ParserInv, Counted
    <2>2. CASE (\E m : messages' = Append(messages, m)) /\ error_count' = error_count + 1
      <3>1. Len(messages') = Len(messages) + 1 /\ Len(messages) \in Nat
        BY <1>3, <2>2, Longer
      <3> QED BY <1>2, <2>2, <3>1 DEF ParserInv, Counted
    <2> QED BY <1>5, <2>1, <2>2
  <1>8. Working'
    <2>1. Working
      BY <1>1 DEF ParserInv, Asks
    <2> QED BY <1>2, <2>1 DEF Working, Path, IsSequence
  <1>9. Accepted' /\ NothingAfterErrors'
    BY <1>1, <1>2 DEF Accepted, NothingAfterErrors, Asks, PARSING, ACCEPT, PARSED, RETURNED
  <1> QED BY <1>3, <1>4, <1>5, <1>6, <1>7, <1>8, <1>9 DEF ParserInv

LEMMA NextInv == ParserInv /\ [Next]_vars => ParserInv'
  <1> SUFFICES ASSUME ParserInv, [Next]_vars PROVE ParserInv'
    OBVIOUS
  <1>1. CASE ScanText \/ ScanTextFails \/ ScanOther
    BY <1>1, ScansInv
  <1>2. CASE Parses
    BY <1>2, ParsesScanned, ParsesWorking, ParsesAccepted, ParsesHeap, ParsesReturned DEF ParserInv
  <1>3. CASE UNCHANGED vars
    <2>1. Scanned'
      BY <1>3, AfterStay DEF ParserInv, vars, lexerVars, scanner, Says
    <2> QED
      BY <1>3, <2>1 DEF ParserInv, vars, lexerVars, scanner, parserVars, memory, outcome, HasToken,
                        IsSequence, Working, Path, Counted, Accepted, NothingAfterErrors
  <1> QED BY <1>1, <1>2, <1>3 DEF Next, Step, Parses

\* The invariant of the scanner and the parser holds for all files, grammars and
\* failures of allocations.
THEOREM Invariant == Spec => []ParserInv
  BY InitInv, NextInv, PTL DEF Spec

\* Whatever is reported, by the scanner in or outside a comment, or by the parser about
\* its token: the line and the column are those of the piece it is about, and the line
\* that is shown is the one up to the end of that piece, cut off at the capacity.
THEOREM MessagesLocated == Spec => []LocatedRight
  BY Invariant, PTL DEF ParserInv, Scanned

\* lexer_capture_preview never writes behind the end of line_preview, and leaves room
\* for the character that ends the string.
THEOREM PreviewFits == Spec => [](line_preview_len <= Len(line_preview) /\ Len(line_preview) + 1 <= PREVIEW_CAP)
  <1>1. ParserInv => line_preview_len <= Len(line_preview) /\ Len(line_preview) + 1 <= PREVIEW_CAP
    <2> SUFFICES ASSUME Preview
                 PROVE  line_preview_len <= Len(line_preview) /\ Len(line_preview) + 1 <= PREVIEW_CAP
      BY DEF ParserInv, Scanned
    <2>1. Len(line_preview) \in Nat /\ PREVIEW_CAP \in Nat
      BY ScannerAssumption DEF Preview
    <2> QED BY <2>1 DEF Preview
  <1> QED BY <1>1, Invariant, PTL

\* parser_parse hands on a program exactly if it reports no errors, and it reports at
\* least as many as there were messages, whatever the recovery made of the program.
THEOREM NothingHandedOnAfterErrors == Spec => []NothingAfterErrors
  BY Invariant, PTL DEF ParserInv
=============================================================================
