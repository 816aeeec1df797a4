------------------------------- MODULE Lexer -------------------------------
(***************************************************************************)
(* The scanner (src/src/lexer.l): a step is one match of a rule by yylex.  *)
(*                                                                         *)
(* The input is a sequence of pieces, each the text that one rule matches: *)
(* [is, token, text, width], where "is" names the rule.  Inside a comment  *)
(* flex matches one character at a time; what that does to the columns and *)
(* to the preview is the same, piece by piece.  A character of the preview *)
(* is the number of the piece it belongs to.                               *)
(***************************************************************************)
EXTENDS Integers, Sequences, FiniteSets

CONSTANTS
  File,        \* the input files (outside a comment, "*/" is two words)
  PREVIEW_CAP, \* sizeof(line_preview)
  MayFail      \* whether malloc and calloc may fail

VARIABLES
  file, at,                 \* the input, and the next piece of it
  start,                    \* the start condition
  yylineno, current_col, token_col,
  comment_start,            \* the line, the column and the number of its piece
  line_preview, line_preview_len,
  yytext,                   \* the piece that was matched last, 0 at the end
  error_count,
  yychar,                   \* the token that yylex returned, or EMPTY
  messages                  \* what was reported with a position, see Message
position  == <<yylineno, current_col, token_col, line_preview, line_preview_len>>
scanner   == <<file, at, start, position, comment_start, yytext, error_count>>
lexerVars == <<scanner, yychar, messages>>

INITIAL == "INITIAL"
COMMENT == "COMMENT"
EMPTY == "empty" \* YYEMPTY
END == "$end"    \* what yylex returns 0 for
Rule == {"WORD", "TEXT", "NEWLINE", "BLANK", "BAD", "OPEN", "CLOSE"}

\* flex has no rule for the empty text
Piece == [is : Rule, token : STRING, text : STRING, width : Nat \ {0}]
ASSUME ScannerAssumption ==
  /\ \A f \in File : f \in Seq(Piece)
  /\ PREVIEW_CAP \in Nat \ {0}

\* A message names a line and a column and shows a line; "about" is the piece that
\* it is about, or 0 at the end of the file.
Message(line, col, about, kind) ==
  [line |-> line, col |-> col, about |-> about, kind |-> kind, preview |-> line_preview']

----------------------------------------------------------------------------
AtEof == at > Len(file)
piece == file[at]
Matches(condition, rules) == yychar = EMPTY /\ ~AtEof /\ start = condition /\ piece.is \in rules

Least(a, b) == IF a < b THEN a ELSE b

\* lexer_capture_preview: a newline sets the length to 0 and leaves the text
lexer_capture_preview ==
  LET room == PREVIEW_CAP - 1 - line_preview_len
      n    == Least(piece.width, room)
  IN  IF piece.is = "NEWLINE" THEN line_preview_len' = 0 /\ UNCHANGED line_preview
      ELSE IF n = 0 THEN UNCHANGED <<line_preview, line_preview_len>>
      ELSE /\ line_preview' = SubSeq(line_preview, 1, line_preview_len) \o [k \in 1 .. n |-> at]
           /\ line_preview_len' = line_preview_len + n

\* A match: yylineno counts the newline, and YY_USER_ACTION comes before the rule
Match ==
  /\ at' = at + 1 /\ yytext' = at
  /\ yylineno' = IF piece.is = "NEWLINE" THEN yylineno + 1 ELSE yylineno
  /\ token_col' = current_col
  /\ lexer_capture_preview
  /\ UNCHANGED file
Proceed == current_col' = current_col + piece.width

\* lexer_begin
LexerInit ==
  /\ file \in File /\ at = 1
  /\ start = INITIAL
  /\ yylineno = 1 /\ current_col = 1 /\ token_col = 1
  /\ comment_start = [line |-> 1, col |-> 1, about |-> 0]
  /\ line_preview = <<>> /\ line_preview_len = 0
  /\ yytext = 0 /\ error_count = 0 /\ yychar = EMPTY /\ messages = <<>>

Word ==
  /\ Matches(INITIAL, {"WORD"})
  /\ Match /\ Proceed
  /\ yychar' = piece.token
  /\ UNCHANGED <<start, comment_start, error_count, messages>>

\* An identifier or a literal, whose text is copied
Text ==
  /\ Matches(INITIAL, {"TEXT"})
  /\ Match /\ Proceed
  /\ yychar' = piece.token
  /\ UNCHANGED <<start, comment_start, error_count, messages>>

\* lexer_dup_text returns NULL
TextFails ==
  /\ MayFail /\ Matches(INITIAL, {"TEXT"})
  /\ Match /\ Proceed
  /\ yychar' = END
  /\ error_count' = error_count + 1
  /\ UNCHANGED <<start, comment_start, messages>>

Blank ==
  /\ Matches(INITIAL, {"BLANK"})
  /\ Match /\ Proceed
  /\ UNCHANGED <<start, comment_start, error_count, yychar, messages>>

\* lexer_report_bad_char
BadChar ==
  /\ Matches(INITIAL, {"BAD"})
  /\ Match /\ Proceed
  /\ messages' = Append(messages, Message(yylineno, token_col', at, "character"))
  /\ error_count' = error_count + 1
  /\ UNCHANGED <<start, comment_start, yychar>>

OpenComment ==
  /\ Matches(INITIAL, {"OPEN"})
  /\ Match /\ Proceed
  /\ start' = COMMENT
  /\ comment_start' = [line |-> yylineno, col |-> token_col', about |-> at]
  /\ UNCHANGED <<error_count, yychar, messages>>

CommentText ==
  /\ Matches(COMMENT, Rule \ {"NEWLINE", "CLOSE"})
  /\ Match /\ Proceed
  /\ UNCHANGED <<start, comment_start, error_count, yychar, messages>>

\* Faulty: the start condition stays
CloseComment_Stays ==
  /\ Matches(COMMENT, {"CLOSE"})
  /\ Match /\ Proceed
  /\ UNCHANGED <<start, comment_start, error_count, yychar, messages>>

CloseComment ==
  /\ Matches(COMMENT, {"CLOSE"})
  /\ Match /\ Proceed
  /\ start' = INITIAL
  /\ UNCHANGED <<comment_start, error_count, yychar, messages>>

\* Faulty: in a comment the column goes on
Newline_OutsideComment ==
  /\ yychar = EMPTY /\ ~AtEof /\ piece.is = "NEWLINE"
  /\ Match
  /\ IF start = INITIAL THEN current_col' = 1 ELSE Proceed
  /\ UNCHANGED <<start, comment_start, error_count, yychar, messages>>

\* The rules for a newline in and outside a comment
Newline ==
  /\ yychar = EMPTY /\ ~AtEof /\ piece.is = "NEWLINE"
  /\ Match
  /\ current_col' = 1
  /\ UNCHANGED <<start, comment_start, error_count, yychar, messages>>

\* Faulty: the scanner goes on
Eof_GoesOn ==
  /\ yychar = EMPTY /\ AtEof /\ start = INITIAL
  /\ yytext' = 0
  /\ UNCHANGED <<file, at, start, position, comment_start, error_count, yychar, messages>>

\* At the end there is no match: line, column and preview stay those of the last one
Eof ==
  /\ yychar = EMPTY /\ AtEof /\ start = INITIAL
  /\ yytext' = 0 /\ yychar' = END
  /\ UNCHANGED <<file, at, start, position, comment_start, error_count, messages>>

EofInComment ==
  /\ yychar = EMPTY /\ AtEof /\ start = COMMENT
  /\ yytext' = 0 /\ yychar' = END
  /\ UNCHANGED position
  /\ messages' = Append(messages, Message(comment_start.line, comment_start.col,
                                          comment_start.about, "comment"))
  /\ error_count' = error_count + 1
  /\ start' = INITIAL
  /\ UNCHANGED <<file, at, comment_start>>

\* The rules that return no text
Scan ==
  \/ Word \/ Blank \/ BadChar
  \/ OpenComment \/ CommentText \/ CloseComment \/ Newline
  \/ Eof \/ EofInComment
=============================================================================
