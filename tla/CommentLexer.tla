---------------------------- MODULE CommentLexer ----------------------------
(***************************************************************************)
(* TCodeParser::clearCommentsStringsSlashes: the loop that replaces        *)
(* comments, preprocessor lines and strings of a C source by blanks, one   *)
(* character per step, and beside it a lexer of C that reads the same      *)
(* text.  The text is any sequence of characters; tame says that it has    *)
(* held none of the combinations the loop's flags mistake so far.          *)
(***************************************************************************)
CONSTANT Plain \* the characters that neither lexer treats specially

Special == {"slash", "star", "quote", "tick", "hash", "escape", "newline"}
Char == Plain \cup Special

ASSUME CommentLexerAssumption == Plain \cap Special = {} /\ "none" \notin Char

VARIABLES
  metSlash, inComment, inLongComment, inString, metStar, metEscapeCharacter,
  kept,      \* the character read last is in the result as it was
  mode,      \* the C lexer: what the text is part of
  directive, \* the C lexer: in a preprocessor line
  last,      \* ghost: the last character that is no backslash
  esc,       \* ghost: the last character is a backslash
  hides,     \* ghost: the line has had a # or a //
  tame       \* ghost

flags == <<metSlash, inComment, inLongComment, inString, metStar, metEscapeCharacter, kept>>
c_lexer == <<mode, directive, last, esc, hides, tame>>
lexVars == <<flags, c_lexer>>

Literal == {"string", "stringEscape", "char", "charEscape"}
LongComment == {"long", "longStar"}
Mode == {"code", "slash", "line"} \cup Literal \cup LongComment

LexInit ==
  /\ metSlash = FALSE /\ inComment = FALSE /\ inLongComment = FALSE
  /\ inString = FALSE /\ metStar = FALSE /\ metEscapeCharacter = FALSE
  /\ kept = TRUE
  /\ mode = "code" /\ directive = FALSE
  /\ last = "none" /\ esc = FALSE /\ hides = FALSE /\ tame = TRUE

----------------------------------------------------------------------------
\* One iteration of the loop.  A backslash leaves every other flag as it is.
Escape ==
  /\ metEscapeCharacter' = TRUE
  /\ kept' = FALSE
  /\ UNCHANGED <<metSlash, inComment, inLongComment, inString, metStar>>

StartsLine_NoHash(c) == inComment \/ (c = "slash" /\ metSlash)
StartsLine(c) == inComment \/ c = "hash" \/ (c = "slash" /\ metSlash)

StaysLong(c) == (inLongComment \/ (c = "star" /\ metSlash)) /\ ~(c = "slash" /\ metStar)

InString_Everywhere(c) == IF c = "quote" /\ ~metEscapeCharacter THEN ~inString ELSE inString
InString(c) ==
  IF c = "quote" /\ ~metEscapeCharacter /\ ~StartsLine(c) /\ ~StaysLong(c) THEN ~inString ELSE inString

Character(c) ==
  /\ metSlash' = (c = "slash")
  /\ metStar' = (c = "star")
  /\ inComment' = (c # "newline" /\ StartsLine(c))
  /\ inLongComment' = StaysLong(c)
  /\ inString' = InString(c)
  /\ metEscapeCharacter' = (c = "newline" /\ metEscapeCharacter)
  /\ kept' = \/ c = "newline"
             \/ c # "slash" /\ ~StartsLine(c) /\ ~StaysLong(c) /\ ~InString(c)

Clear(c) == IF c = "escape" THEN Escape ELSE Character(c)

----------------------------------------------------------------------------
\* What C makes of a character: in program text, in a comment, in a literal.
ThenInCode(m, c) ==
  IF c = "slash" THEN IF m = "slash" THEN "line" ELSE "slash"
  ELSE IF c = "star" /\ m = "slash" THEN "long"
  ELSE IF c = "quote" THEN "string"
  ELSE IF c = "tick" THEN "char" ELSE "code"

ThenInLong(m, c) ==
  IF c = "star" THEN "longStar" ELSE IF c = "slash" /\ m = "longStar" THEN "code" ELSE "long"

ThenInLiteral(m, c, closing, escaped) ==
  IF c \in {closing, "newline"} THEN "code" ELSE IF c = "escape" THEN escaped ELSE m

After(m, c) ==
  IF m \in {"code", "slash"} THEN ThenInCode(m, c)
  ELSE IF m = "line" THEN IF c = "newline" THEN "code" ELSE "line"
  ELSE IF m \in LongComment THEN ThenInLong(m, c)
  ELSE IF m = "string" THEN ThenInLiteral(m, c, "quote", "stringEscape")
  ELSE IF m = "char" THEN ThenInLiteral(m, c, "tick", "charEscape")
  ELSE IF m = "stringEscape" THEN "string" ELSE "char"

DirectiveAfter(m, d, c) ==
  IF c = "newline" THEN d /\ m \in LongComment
  ELSE d \/ (c = "hash" /\ m \in {"code", "slash"})

\* What the lexer of C leaves of a text when it blanks what is no program text.
Remains(m, d, c) == c = "newline" \/ (c \notin {"slash", "escape"} /\ m \in {"code", "char"} /\ ~d)

Then(c) == After(mode, c)
InDirective(c) == DirectiveAfter(mode, directive, c)

Hides(c) == c # "newline" /\ (hides \/ c = "hash" \/ (c = "slash" /\ last = "slash"))

\* What the flags mistake: a # or // that begins no directive and no comment, or text on
\* the line where a comment with one ends; the two halves of /* or */ where they are
\* none; a quote that is escaped for one lexer only or is a character; a literal or a
\* line that goes on after a newline.
WildLine(c) ==
  /\ c # "newline" /\ mode \notin LongComment \cup {"line"} /\ Then(c) # "line"
  /\ Hides(c) # InDirective(c)
WildStar(c) ==
  \/ c = "star" /\ last = "slash" /\ mode \notin LongComment \cup {"slash"}
  \/ c = "slash" /\ last = "star" /\ mode = "long"
WildQuote(c) ==
  c = "quote" /\ (mode = "char" \/ (esc /\ mode \in {"code", "slash", "string"}))
WildNewline(c) ==
  c = "newline" /\ mode \notin LongComment /\ (esc \/ (mode \in Literal /\ ~directive))
Wild(c) == WildLine(c) \/ WildStar(c) \/ WildQuote(c) \/ WildNewline(c)

Lex(c) ==
  /\ mode' = Then(c)
  /\ directive' = InDirective(c)
  /\ hides' = Hides(c)
  /\ last' = IF c = "escape" THEN last ELSE c
  /\ esc' = (c = "escape")
  /\ tame' = (tame /\ ~Wild(c))

ReadChar(c) == Clear(c) /\ Lex(c)
LexNext == \E c \in Char : ReadChar(c)
LexSpec == LexInit /\ [][LexNext]_lexVars

----------------------------------------------------------------------------
LexType ==
  /\ metSlash \in BOOLEAN /\ inComment \in BOOLEAN /\ inLongComment \in BOOLEAN
  /\ inString \in BOOLEAN /\ metStar \in BOOLEAN /\ metEscapeCharacter \in BOOLEAN
  /\ kept \in BOOLEAN
  /\ mode \in Mode /\ directive \in BOOLEAN
  /\ last \in Char \cup {"none"} /\ esc \in BOOLEAN /\ hides \in BOOLEAN /\ tame \in BOOLEAN

\* The loop that blanks comments and strings: in a tame text a character stays exactly
\* when it is program text (a character literal stays, too).
CodeIsKept ==
  tame /\ last \in Plain /\ ~esc => (kept <=> mode \in {"code", "char"} /\ ~directive)

=============================================================================
