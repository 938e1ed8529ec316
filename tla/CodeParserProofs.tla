-------------------------- MODULE CodeParserProofs --------------------------
(***************************************************************************)
(* Proofs about the clearing of comments and strings, for texts of any     *)
(* length over any alphabet, and for every source the search reads.  In a  *)
(* tame text each flag of the loop says what the C lexer says in its mode. *)
(* The last part follows the search through a source of any number of      *)
(* items: what it finds are the definitions, and it finds them all.        *)
(***************************************************************************)
EXTENDS CodeParser, SequenceTheorems, FiniteSetTheorems, WellFoundedInduction, TLAPS

\* What three of the flags remember, in any text.
FlagsRemember ==
  /\ metSlash <=> (last = "slash")
  /\ metStar <=> (last = "star")
  /\ inComment <=> hides

\* The line flag is the C lexer's, outside comments that cross lines and right after.
CommentEnded == mode = "code" /\ last = "slash" /\ ~esc
LineAgrees ==
  /\ mode = "line" => hides
  /\ mode \notin LongComment \cup {"line"} => (hides <=> directive) \/ CommentEnded

\* So are the flags for long comments and for strings; strings in preprocessor lines
\* are not looked at.
LongAgrees   == inLongComment <=> (mode \in LongComment)
StringAgrees == inString <=> (mode \in {"string", "stringEscape"} /\ ~directive)

\* The escape flag says what the last character was, but in a long comment, which it
\* may enter the next line of.
EscapeAgrees ==
  /\ mode \notin LongComment => (metEscapeCharacter <=> esc)
  /\ mode = "longStar" => ~metEscapeCharacter

\* The modes that have just begun.
ModeIsFresh ==
  /\ mode = "slash" => last = "slash" /\ ~esc
  /\ mode = "longStar" => last = "star" /\ ~esc
  /\ mode \in {"stringEscape", "charEscape"} => esc

Agrees == LineAgrees /\ LongAgrees /\ StringAgrees /\ EscapeAgrees /\ ModeIsFresh

LexInv == LexType /\ FlagsRemember /\ (tame => Agrees /\ CodeIsKept)

LEMMA LexInitInv == LexInit => LexInv
BY CommentLexerAssumption DEF LexInit, LexInv, LexType, FlagsRemember, Agrees, LineAgrees, LongAgrees,
  StringAgrees, EscapeAgrees, ModeIsFresh, CodeIsKept, Mode, Literal, LongComment, Char, Special

\* One character: the types, and the flags of any text.
LEMMA ReadType ==
  ASSUME LexType, FlagsRemember, NEW c \in Char, ReadChar(c)
  PROVE  LexType' /\ FlagsRemember'
<1> USE DEF ReadChar, LexType, FlagsRemember, Lex, 
        Then, After, ThenInCode, ThenInLong, ThenInLiteral, InDirective, DirectiveAfter, Hides
<1>1. mode' \in Mode
  BY DEF Mode, Literal, LongComment
<1>2. CASE c = "escape"
  BY <1>1, <1>2 DEF Clear, Escape
<1>3. CASE c # "escape"
  BY <1>1, <1>3 DEF Clear, Character, StartsLine, StaysLong, InString
<1>4. QED
  BY <1>2, <1>3

\* One character that is no backslash, while the text is tame.
LEMMA ReadAgrees ==
  ASSUME LexInv, NEW c \in Char, ReadChar(c), tame'
  PROVE  Agrees' /\ CodeIsKept'
<1>1. tame /\ ~Wild(c)
  BY DEF ReadChar, Lex, LexInv, LexType
<1>2. LexType /\ FlagsRemember /\ Agrees
  BY <1>1 DEF LexInv
<1>3. mode \in Mode /\ c \in Plain \cup Special
  BY <1>2 DEF LexType, Char
<1>4. LineAgrees'
  BY <1>1, <1>2, <1>3 DEF Agrees, LineAgrees, CommentEnded, ReadChar, Lex, Wild, WildLine,
    Then, After, ThenInCode, ThenInLong, ThenInLiteral, Hides, InDirective, DirectiveAfter, LongComment,
    FlagsRemember, LexType, ModeIsFresh
<1>5. LongAgrees'
  BY <1>1, <1>2, <1>3, CommentLexerAssumption DEF Agrees, LongAgrees, ReadChar, Lex, Wild, WildStar,
    Then, After, ThenInCode, ThenInLong, ThenInLiteral,
    LongComment, FlagsRemember, LexType, ModeIsFresh, Clear, Escape, Character, StaysLong, Mode, Literal
<1>6. ModeIsFresh'
  BY <1>1, <1>2, <1>3 DEF Agrees, ModeIsFresh, ReadChar, Lex, Then, After,
    ThenInCode, ThenInLong, ThenInLiteral, LexType
<1>7. EscapeAgrees'
  BY <1>1, <1>2, <1>3 DEF Agrees, EscapeAgrees, ModeIsFresh, ReadChar, Lex, Then, After,
    ThenInCode, ThenInLong, ThenInLiteral, LexType, Clear, Escape, Character,
    Wild, WildNewline, LongComment
<1>8. StringAgrees'
  <2> USE <1>1, <1>2, <1>3 DEF Agrees, StringAgrees, ReadChar, Lex, Then, After,
        ThenInCode, ThenInLong, ThenInLiteral, InDirective, DirectiveAfter, LexType, Mode, LongComment, Literal
  <2>1. CASE c = "escape"
    BY <2>1 DEF Clear, Escape
  <2>2. CASE c = "quote"
    <3>1. /\ inString' = (IF ~metEscapeCharacter /\ ~hides /\ ~inLongComment THEN ~inString ELSE inString)
          /\ directive' = directive
      BY <2>2 DEF Clear, Character, InString, StartsLine, StaysLong, FlagsRemember
    <3>2. /\ mode # "char" /\ (esc => mode \notin {"code", "slash", "string"})
          /\ mode \in {"code", "slash", "string"} => (hides <=> directive)
      BY <2>2 DEF Wild, WildQuote, WildLine, Hides
    <3>3. CASE mode \in {"code", "slash", "string"}
      BY <2>2, <3>1, <3>2, <3>3 DEF LineAgrees, LongAgrees, EscapeAgrees
    <3>4. CASE mode \in {"stringEscape", "charEscape"}
      BY <2>2, <3>1, <3>4 DEF EscapeAgrees, ModeIsFresh
    <3>5. CASE mode \in {"line"} \cup LongComment
      BY <2>2, <3>1, <3>5 DEF LineAgrees, LongAgrees
    <3>6. QED
      BY <3>2, <3>3, <3>4, <3>5
  <2>3. CASE c \notin {"escape", "quote"}
    <3>1. inString' = inString
      BY <2>3 DEF Clear, Character, InString
    <3>2. c = "newline" /\ mode \in Literal => directive /\ ~esc /\ mode \in {"string", "char"}
      BY DEF Wild, WildNewline, ModeIsFresh
    <3>3. mode' \in {"string", "stringEscape"} =>
            mode \in {"string", "stringEscape"} /\ (directive' <=> directive)
      BY <2>3, <3>2
    <3>4. mode \in {"string", "stringEscape"} /\ ~directive =>
            mode' \in {"string", "stringEscape"} /\ ~directive'
      BY <2>3, <3>2
    <3>5. QED
      BY <3>1, <3>3, <3>4
  <2>4. QED
    BY <2>1, <2>2, <2>3
<1>9. CodeIsKept'
  <2> SUFFICES ASSUME last' \in Plain, ~esc' PROVE kept' <=> (mode' \in {"code", "char"} /\ ~directive')
    BY DEF CodeIsKept
  <2>1. c \in Plain /\ c \notin Special
    BY CommentLexerAssumption DEF ReadChar, Lex, Special
  <2>2. kept' <=> ~inComment' /\ ~inLongComment' /\ ~inString'
    BY <2>1 DEF ReadChar, Clear, Character, Special
  <2>3. inComment' <=> hides'
    BY <1>2, ReadType DEF FlagsRemember
  <2>4. mode' \in {"code", "line", "string", "char"} \cup LongComment
    BY <1>2, <1>3, <2>1 DEF ReadChar, Lex, Then, After,
      ThenInCode, ThenInLong, ThenInLiteral, Special, Mode, Literal, LongComment
  <2>5. ~CommentEnded'
    BY <2>1 DEF ReadChar, Lex, CommentEnded, Special
  <2>6. QED
    BY <1>4, <1>5, <1>8, <2>2, <2>3, <2>4, <2>5 DEF LineAgrees, LongAgrees, StringAgrees, LongComment
<1>10. QED
  BY <1>4, <1>5, <1>6, <1>7, <1>8, <1>9 DEF Agrees

LEMMA ReadInv == ASSUME LexInv, NEW c \in Char, ReadChar(c) PROVE LexInv'
BY ReadType, ReadAgrees DEF LexInv

LEMMA LexStutters == ASSUME LexInv, UNCHANGED lexVars PROVE LexInv'
BY DEF LexInv, lexVars, flags, c_lexer, LexType, FlagsRemember, Agrees, LineAgrees, LongAgrees,
  CommentEnded, StringAgrees, EscapeAgrees, ModeIsFresh, CodeIsKept

\* clearCommentsStringsSlashes, for every text: the program text of a tame one stays,
\* the rest is blanked.
THEOREM ClearingIsRight == LexSpec => []CodeIsKept
<1>1. LexInv /\ [LexNext]_lexVars => LexInv'
  BY ReadInv, LexStutters DEF LexNext
<1>2. LexInv => CodeIsKept
  BY DEF LexInv, CodeIsKept
<1>3. QED
  BY LexInitInv, <1>1, <1>2, PTL DEF LexSpec

\* The item that is read is a text.
RestInv == rest \in Seq(Char)

LEMMA NextInv == ASSUME LexInv, RestInv, [Next]_vars PROVE LexInv' /\ RestInv'
<1>1. CASE Read
  <2>1. Head(rest) \in Char /\ Tail(rest) \in Seq(Char)
    BY <1>1, HeadTailProperties DEF Read, RestInv
  <2>2. ReadChar(Head(rest)) /\ rest' = Tail(rest)
    BY <1>1 DEF Read
  <2>3. QED
    BY <2>1, <2>2, ReadInv DEF RestInv
<1>2. CASE End
  BY <1>2, LexStutters DEF End, source, RestInv
<1>3. CASE \E item \in Items : Write(item)
  BY <1>3, LexStutters, CodeParserAssumption DEF Write, RestInv
<1>4. CASE UNCHANGED vars
  BY <1>4, LexStutters DEF vars, source, RestInv
<1>5. QED
  BY <1>1, <1>2, <1>3, <1>4 DEF Next

\* The same beside the search for functions, whatever the sources are made of.
THEOREM SearchReadsProgramText == Spec => []CodeIsKept
<1>1. Init => LexInv /\ RestInv
  BY LexInitInv, EmptySeq DEF Init, RestInv
<1>2. LexInv => CodeIsKept
  BY DEF LexInv, CodeIsKept
<1>3. QED
  BY <1>1, NextInv, <1>2, PTL DEF Spec
----------------------------------------------------------------------------
\* A set of naturals that is not empty has a least element.
LEMMA LeastExists ==
  ASSUME NEW S, S \subseteq Nat, S # {}
  PROVE  \E x \in S : \A y \in S : x <= y
<1> DEFINE R == {ss \in Nat \X Nat : ss[1] < ss[2]}
<1>1. IsWellFoundedOn(R, Nat)
  BY NatLessThanWellFounded DEF OpToRel
<1>2. \E x \in S : \A y \in S : ~ (<<y, x>> \in R)
  <2> HIDE DEF R
  <2> QED BY <1>1, WFMin
<1>3. PICK x \in S : \A y \in S : ~ (<<y, x>> \in R)
  BY <1>2
<1>4. ASSUME NEW y \in S PROVE x <= y
  <2>1. x \in Nat /\ y \in Nat
    OBVIOUS
  <2>2. ~ (<<y, x>> \in R)
    BY <1>3
  <2>3. QED
    BY <2>1, <2>2
<1>5. QED
  BY <1>4

\* buf.find returns a place where the name is.
LEMMA FirstIsSpelled ==
  ASSUME NEW chunk \in Seq(Char), NEW f, Spelled(chunk, f) # {}
  PROVE  First(chunk, f) \in Spelled(chunk, f)
<1>1. Spelled(chunk, f) \subseteq Nat
  BY DEF Spelled
<1>2. \E x \in Spelled(chunk, f) : \A y \in Spelled(chunk, f) : x <= y
  BY <1>1, LeastExists
<1>3. QED
  BY <1>2 DEF First, Min

\* The newlines of a text, and of the two parts it is cut into.
LEMMA SpelledType ==
  ASSUME NEW chunk \in Seq(Char), NEW x
  PROVE  IsFiniteSet(Spelled(chunk, x)) /\ Cardinality(Spelled(chunk, x)) \in Nat
<1>1. Spelled(chunk, x) \in SUBSET (1..Len(chunk)) /\ Len(chunk) \in Nat
  BY DEF Spelled
<1>2. IsFiniteSet(1..Len(chunk))
  BY <1>1, FS_Interval
<1>3. IsFiniteSet(Spelled(chunk, x))
  BY <1>1, <1>2, FS_Subset
<1>4. QED
  BY <1>3, FS_CardinalityType

LEMMA NewlinesType ==
  ASSUME NEW chunk \in Seq(Char)
  PROVE  IsFiniteSet(Spelled(chunk, "newline")) /\ Newlines(chunk) \in Nat
BY SpelledType DEF Newlines

LEMMA NewlinesSplit ==
  ASSUME NEW chunk \in Seq(Char), NEW n \in 1..Len(chunk)
  PROVE  /\ Newlines(SubSeq(chunk, 1, n - 1)) \in Nat
         /\ Newlines(SubSeq(chunk, n, Len(chunk))) \in Nat
         /\ Newlines(chunk) = Newlines(SubSeq(chunk, 1, n - 1))
                                + Newlines(SubSeq(chunk, n, Len(chunk)))
<1> DEFINE all    == Spelled(chunk, "newline")
           left   == SubSeq(chunk, 1, n - 1)
           right  == SubSeq(chunk, n, Len(chunk))
           before == Spelled(left, "newline")
           after  == Spelled(right, "newline")
           moved  == {k \in all : k >= n}
           F      == [k \in after |-> k + n - 1]
<1>1. /\ Len(chunk) \in Nat /\ n \in Nat /\ n >= 1 /\ n <= Len(chunk)
      /\ DOMAIN chunk = 1..Len(chunk) /\ \A k \in 1..Len(chunk) : chunk[k] \in Char
  OBVIOUS
<1>2. /\ left \in Seq(Char) /\ Len(left) = n - 1 /\ \A k \in 1..n - 1 : left[k] = chunk[k]
  BY <1>1, SubSeqProperties
<1>3. /\ right \in Seq(Char) /\ Len(right) = Len(chunk) - n + 1
      /\ \A k \in 1..Len(chunk) - n + 1 : right[k] = chunk[n + k - 1]
  BY <1>1, SubSeqProperties
<1> HIDE DEF left, right
<1>4. before = {k \in all : k < n}
  BY <1>1, <1>2 DEF Spelled
<1>5. /\ DOMAIN right = 1..Len(chunk) - n + 1
      /\ all = {k \in 1..Len(chunk) : chunk[k] = "newline"}
      /\ after = {k \in 1..Len(chunk) - n + 1 : right[k] = "newline"}
  BY <1>1, <1>3 DEF Spelled
<1>6. ASSUME NEW k \in after
      PROVE  k \in Nat /\ k + n - 1 \in moved
  <2>1. k \in 1..Len(chunk) - n + 1 /\ right[k] = "newline"
    BY <1>5
  <2>2. n + k - 1 \in 1..Len(chunk) /\ n + k - 1 >= n /\ k \in Nat /\ k + n - 1 = n + k - 1
    BY <1>1, <2>1
  <2>3. chunk[n + k - 1] = "newline"
    BY <1>3, <2>1
  <2>4. n + k - 1 \in moved
    BY <1>5, <2>2, <2>3
  <2>5. QED
    BY <2>2, <2>4
<1>7. ASSUME NEW k \in moved
      PROVE  k \in Nat /\ k - n + 1 \in after
  <2>1. k \in 1..Len(chunk) /\ chunk[k] = "newline" /\ k >= n
    BY <1>5
  <2>2. k - n + 1 \in 1..Len(chunk) - n + 1 /\ n + (k - n + 1) - 1 = k /\ k \in Nat
    BY <1>1, <2>1
  <2>3. right[k - n + 1] = "newline"
    BY <1>3, <2>1, <2>2
  <2>4. QED
    BY <1>5, <2>2, <2>3
<1>8. IsFiniteSet(all) /\ IsFiniteSet(before) /\ IsFiniteSet(after)
      /\ Newlines(left) \in Nat /\ Newlines(right) \in Nat
  BY <1>2, <1>3, NewlinesType
<1>9. Cardinality(moved) = Cardinality(after)
  <2> HIDE DEF after, moved
  <2>1. F \in [after -> moved]
    BY <1>6
  <2>2. \A k, m \in after : F[k] = F[m] => k = m
    BY <1>1, <1>6
  <2>3. \A m \in moved : \E k \in after : F[k] = m
    <3> SUFFICES ASSUME NEW m \in moved PROVE \E k \in after : F[k] = m
      OBVIOUS
    <3>1. m - n + 1 \in after /\ F[m - n + 1] = m
      BY <1>1, <1>7
    <3>2. QED
      BY <3>1
  <2>4. ExistsBijection(after, moved)
    BY <2>1, <2>2, <2>3 DEF ExistsBijection, Bijection, Injection, Surjection, IsInjective
  <2>5. QED
    BY <1>8, <2>4, FS_Bijection
<1>10. all = before \cup moved /\ before \cap moved = {} /\ IsFiniteSet(moved)
  <2>1. \A k \in all : k \in Nat
    BY <1>1 DEF Spelled
  <2>2. moved \in SUBSET all
    OBVIOUS
  <2>3. QED
    BY <1>1, <1>4, <1>8, <2>1, <2>2, FS_Subset
<1>11. Cardinality(all) = Cardinality(before) + Cardinality(moved)
  <2> HIDE DEF all, before, moved
  <2>1. Cardinality(before \cap moved) = 0
    BY <1>10, FS_EmptySet
  <2>2. Cardinality(before) \in Nat /\ Cardinality(moved) \in Nat
    BY <1>8, <1>10, FS_CardinalityType
  <2>3. Cardinality(before \cup moved)
          = Cardinality(before) + Cardinality(moved) - Cardinality(before \cap moved)
    BY <1>8, <1>10, FS_Union
  <2>4. QED
    BY <1>10, <2>1, <2>2, <2>3
<1>12. QED
  BY <1>8, <1>9, <1>11 DEF Newlines, left, right

LEMMA SpelledAppend ==
  ASSUME NEW chunk \in Seq(Char), NEW c \in Char, NEW x
  PROVE  Cardinality(Spelled(Append(chunk, c), x)) = Cardinality(Spelled(chunk, x)) + IF c = x THEN 1 ELSE 0
<1> DEFINE old == Spelled(chunk, x)
           new == Spelled(Append(chunk, c), x)
           n   == Len(chunk) + 1
<1>1. Len(chunk) \in Nat /\ DOMAIN chunk = 1..Len(chunk)
  OBVIOUS
<1>2. /\ Append(chunk, c) \in Seq(Char) /\ Len(Append(chunk, c)) = n
      /\ DOMAIN Append(chunk, c) = 1..n
      /\ \A k \in 1..Len(chunk) : Append(chunk, c)[k] = chunk[k]
      /\ Append(chunk, c)[n] = c
  BY AppendProperties
<1>3. n \notin old
  BY <1>1 DEF Spelled
<1>4. new = IF c = x THEN old \cup {n} ELSE old
  BY <1>1, <1>2 DEF Spelled
<1>5. IsFiniteSet(old) /\ Cardinality(old) \in Nat
  BY SpelledType
<1>6. Cardinality(old \cup {n}) = Cardinality(old) + 1
  BY <1>3, <1>5, FS_AddElement
<1> HIDE DEF old, new
<1>7. CASE c = x
  BY <1>4, <1>5, <1>6, <1>7 DEF new, old
<1>8. CASE c # x
  BY <1>4, <1>5, <1>8 DEF new, old
<1>9. QED
  BY <1>7, <1>8

LEMMA NewlinesAppend ==
  ASSUME NEW chunk \in Seq(Char), NEW c \in Char
  PROVE  Newlines(Append(chunk, c)) = Newlines(chunk) + IF c = "newline" THEN 1 ELSE 0
BY SpelledAppend DEF Newlines

\* The counters stand at the chunk that is read: what is before it is symbNum symbols and
\* lineNum lines, until the last chunk has been read.
PlaceInv ==
  /\ buf \in Seq(Char)
  /\ pos \in Nat /\ line \in Nat /\ symbNum \in Nat /\ lineNum \in Nat
  /\ done => rest = <<>>
  /\ ~done => pos = symbNum + Len(buf) /\ line = lineNum + Newlines(buf)

LEMMA PlaceInit == Init => PlaceInv
<1> SUFFICES ASSUME Init PROVE PlaceInv
  OBVIOUS
<1>1. buf = <<>> /\ buf \in Seq(Char) /\ Len(buf) = 0 /\ Spelled(buf, "newline") = {}
  BY EmptySeq DEF Init, Spelled
<1>2. QED
  BY <1>1, FS_EmptySet DEF Init, PlaceInv, Newlines

\* What the search of a chunk finds, it finds where the name was read.
LEMMA ChunkPlaces ==
  ASSUME PlaceInv, ~done, Chunk(buf),
         NEW f \in DOMAIN functions' \ DOMAIN functions
  PROVE  \E n \in DOMAIN buf :
           /\ buf[n] = f
           /\ functions'[f] = <<pos - 1 - (Len(buf) - n),
                                line - Newlines(SubSeq(buf, n, Len(buf)))>>
<1> DEFINE n == First(buf, f)
<1>1. Found(buf, f) /\ functions'[f] = Place(buf, n)
  BY DEF Chunk, Search
<1>2. buf \in Seq(Char) /\ n \in Spelled(buf, f)
  BY <1>1, FirstIsSpelled DEF Found, PlaceInv
<1>3. n \in 1..Len(buf) /\ buf[n] = f /\ n \in DOMAIN buf
  BY <1>2 DEF Spelled
<1> HIDE DEF n
<1>4. /\ Newlines(SubSeq(buf, 1, n - 1)) \in Nat
      /\ Newlines(SubSeq(buf, n, Len(buf))) \in Nat
      /\ Newlines(buf) = Newlines(SubSeq(buf, 1, n - 1)) + Newlines(SubSeq(buf, n, Len(buf)))
  BY <1>2, <1>3, NewlinesSplit
<1>5. /\ symbNum \in Nat /\ lineNum \in Nat /\ Len(buf) \in Nat /\ n \in Nat
      /\ pos = symbNum + Len(buf) /\ line = lineNum + Newlines(buf)
  BY <1>2, <1>3 DEF PlaceInv
<1>6. symbNum + n - 1 = pos - 1 - (Len(buf) - n)
  BY <1>5
<1>7. lineNum + Newlines(SubSeq(buf, 1, n - 1)) = line - Newlines(SubSeq(buf, n, Len(buf)))
  BY <1>4, <1>5
<1>8. QED
  BY <1>1, <1>3, <1>6, <1>7 DEF Place

\* Every step counts what it reads, and finds functions at the end of a chunk only.
LEMMA PlaceStep ==
  ASSUME RestInv, PlaceInv, [Next]_vars
  PROVE  /\ PlaceInv'
         /\ \/ Chunk(buf) /\ ~done
            \/ UNCHANGED functions
<1>1. CASE Read
  <2> DEFINE c == Head(rest)
             cleared == IF kept' THEN c ELSE "blank"
  <2>1. /\ c \in Char /\ ~done /\ ReadChar(c) /\ done' = done
        /\ pos' = pos + 1 /\ line' = IF c = "newline" THEN line + 1 ELSE line
    BY <1>1, HeadTailProperties DEF Read, RestInv, PlaceInv
  <2>2. cleared \in Char /\ (cleared = "newline" <=> c = "newline")
    <3>1. c = "newline" => kept'
      BY <2>1 DEF ReadChar, Clear, Character
    <3>2. QED
      BY <2>1, <3>1, CodeParserAssumption DEF Char, Punctuation
  <2>3. IF cleared = "rbrace" THEN Chunk(buf) /\ buf' = <<>>
        ELSE buf' = Append(buf, cleared) /\ UNCHANGED <<symbNum, lineNum, functions>>
    BY <1>1 DEF Read
  <2> HIDE DEF c, cleared
  <2>4. /\ buf \in Seq(Char) /\ Len(buf) \in Nat /\ Newlines(buf) \in Nat
        /\ pos = symbNum + Len(buf) /\ line = lineNum + Newlines(buf)
        /\ pos \in Nat /\ line \in Nat /\ symbNum \in Nat /\ lineNum \in Nat
    BY <2>1, NewlinesType DEF PlaceInv
  <2>5. CASE cleared = "rbrace"
    <3>1. c # "newline" /\ Chunk(buf) /\ buf' = <<>>
      BY <2>2, <2>3, <2>5
    <3>2. symbNum' = symbNum + Len(buf) + 1 /\ lineNum' = lineNum + Newlines(buf)
      BY <3>1 DEF Chunk, Skipped
    <3>3. buf' \in Seq(Char) /\ Len(buf') = 0 /\ Newlines(buf') = 0
      <4>1. Spelled(<<>>, "newline") = {}
        BY DEF Spelled
      <4>2. QED
        BY <3>1, <4>1, FS_EmptySet, EmptySeq DEF Newlines
    <3>4. Newlines(buf)' = 0
      BY <3>3 DEF Newlines, Spelled
    <3>5. QED
      BY <2>1, <2>4, <3>1, <3>2, <3>3, <3>4 DEF PlaceInv
  <2>6. CASE cleared # "rbrace"
    <3>1. buf' = Append(buf, cleared) /\ UNCHANGED <<symbNum, lineNum, functions>>
      BY <2>3, <2>6
    <3>2. buf' \in Seq(Char) /\ Len(buf') = Len(buf) + 1
      BY <2>2, <2>4, <3>1, AppendProperties
    <3>3. Newlines(buf') = Newlines(buf) + IF c = "newline" THEN 1 ELSE 0
      BY <2>2, <2>4, <3>1, NewlinesAppend
    <3>4. Newlines(buf)' = Newlines(buf')
      BY DEF Newlines, Spelled
    <3>5. QED
      BY <2>1, <2>4, <3>1, <3>2, <3>3, <3>4 DEF PlaceInv
  <2>7. QED
    BY <2>5, <2>6
<1>2. CASE End
  <2>1. /\ rest = <<>> /\ rest' = rest /\ ~done /\ done' /\ buf' = <<>>
        /\ UNCHANGED <<pos, line>>
        /\ Chunk(buf) \/ UNCHANGED <<symbNum, lineNum, functions>>
    BY <1>2 DEF End, source
  <2>2. symbNum' \in Nat /\ lineNum' \in Nat
    BY <2>1, NewlinesType DEF PlaceInv, Chunk, Skipped
  <2>3. pos \in Nat /\ line \in Nat /\ buf' \in Seq(Char)
    BY <2>1, EmptySeq DEF PlaceInv
  <2>4. PlaceInv'
    BY <2>1, <2>2, <2>3 DEF PlaceInv
  <2>5. QED
    BY <2>1, <2>4
<1>3. CASE \E item \in Items : Write(item)
  <2>1. UNCHANGED <<buf, symbNum, lineNum, functions, done, pos, line>> /\ ~done
    BY <1>3 DEF Write, searchVars
  <2>2. QED
    BY <2>1 DEF PlaceInv, Newlines, Spelled
<1>4. CASE UNCHANGED vars
  BY <1>4 DEF vars, searchVars, source, PlaceInv, Newlines, Spelled
<1>5. QED
  BY <1>1, <1>2, <1>3, <1>4 DEF Next

\* getCodeFromFile counts right in every text: the place of a function is the one where
\* its name was read, whatever chunks, braces, lines and blanked comments came before.
THEOREM PlacesAreRight == Spec => FoundWhereRead
<1>1. Init => LexInv /\ RestInv /\ PlaceInv
  BY LexInitInv, PlaceInit, EmptySeq DEF Init, RestInv
<1>2. LexInv /\ RestInv /\ PlaceInv /\ [Next]_vars => (LexInv /\ RestInv /\ PlaceInv)'
  BY NextInv, PlaceStep
<1>3. RestInv /\ PlaceInv /\ [Next]_vars =>
        [\A f \in DOMAIN functions' \ DOMAIN functions :
           \E n \in DOMAIN buf :
             /\ buf[n] = f
             /\ functions'[f] = <<pos - 1 - (Len(buf) - n),
                                  line - Newlines(SubSeq(buf, n, Len(buf)))>>]_vars
  <2> SUFFICES ASSUME RestInv, PlaceInv, [Next]_vars,
                      NEW f \in DOMAIN functions' \ DOMAIN functions
               PROVE  \E n \in DOMAIN buf :
                        /\ buf[n] = f
                        /\ functions'[f] = <<pos - 1 - (Len(buf) - n),
                                             line - Newlines(SubSeq(buf, n, Len(buf)))>>
    OBVIOUS
  <2>1. Chunk(buf) /\ ~done
    BY PlaceStep
  <2>2. QED
    BY <2>1, ChunkPlaces
<1>4. QED
  BY <1>1, <1>2, <1>3, PTL DEF Spec, FoundWhereRead
----------------------------------------------------------------------------
\* The scan from a name, character by character: what FoldLeft computes.

\* Nothing bad at 0 and no first bad place: nothing bad at all.
LEMMA NoFirstBad ==
  ASSUME NEW n \in Nat, NEW B, B \subseteq 0..n, 0 \notin B, \A k \in 1..n : k \in B => k - 1 \in B
  PROVE  B = {}
<1> SUFFICES ASSUME B # {} PROVE FALSE
  OBVIOUS
<1>1. PICK k \in B : \A j \in B : k <= j
  <2>1. B \subseteq Nat
    OBVIOUS
  <2>2. QED
    BY <2>1, LeastExists
<1>2. k \in 1..n /\ k \in Nat
  BY <1>1
<1>3. k - 1 \in B
  BY <1>1, <1>2
<1>4. k <= k - 1
  BY <1>1, <1>3
<1>5. QED
  BY <1>2, <1>4

\* The greatest place of a set, and the equation of the fold along a text.
ScanStart == [brackets |-> 0, ignoreNextSemiColon |-> FALSE, verdict |-> "open"]
Term(s, g, t) == IF t = {} THEN ScanStart ELSE Look(g[t \ {Max(t)}], s[Max(t)])
Scans(s, n, g) == g = [t \in SUBSET (1..n) |-> Term(s, g, t)]

LEMMA ScanIsFold ==
  ASSUME NEW s \in Seq(Char)
  PROVE  Scan(s) = (CHOOSE g : Scans(s, Len(s), g))[1..Len(s)]
<1>1. DOMAIN s = 1..Len(s)
  OBVIOUS
<1>2. QED
  BY <1>1 DEF Scan, FoldLeft, MapThenFoldSet, Scans, Term, ScanStart

LEMMA GreatestExists ==
  ASSUME NEW n \in Nat, NEW t \in SUBSET (1..n), t # {}
  PROVE  Max(t) \in t /\ \A y \in t : y <= Max(t)
<1> DEFINE S == {n - x : x \in t}
<1>1. S \subseteq Nat /\ S # {}
  <2>1. \A x \in t : n - x \in Nat
    OBVIOUS
  <2>2. QED
    BY <2>1
<1>2. PICK y \in S : \A z \in S : y <= z
  <2> HIDE DEF S
  <2> QED BY <1>1, LeastExists
<1>3. PICK x \in t : y = n - x
  OBVIOUS
<1>4. ASSUME NEW z \in t PROVE x >= z
  <2>1. n - z \in S
    OBVIOUS
  <2>2. n - x <= n - z
    BY <1>2, <1>3, <2>1
  <2>3. x \in Nat /\ z \in Nat
    OBVIOUS
  <2>4. QED
    BY <2>2, <2>3
<1>5. \E m \in t : \A z \in t : m >= z
  BY <1>4
<1>6. Max(t) \in t /\ \A z \in t : Max(t) >= z
  BY <1>5 DEF Max
<1>7. QED
  BY <1>6
\* The equation has a solution: one for the subsets of 1..n gives one for those of
\* 1..n + 1.
LEMMA ScanExists ==
  ASSUME NEW s, NEW n \in Nat
  PROVE  \E g : Scans(s, n, g)
<1> DEFINE Bad == {m \in 0..n : ~ \E g : Scans(s, m, g)}
<1>1. 0 \notin Bad
  <2> DEFINE g == [t \in SUBSET (1..0) |-> ScanStart]
  <2>1. \A t \in SUBSET (1..0) : t = {}
    OBVIOUS
  <2>2. Scans(s, 0, g)
    BY <2>1 DEF Scans, Term
  <2>3. QED
    BY <2>2
<1>2. ASSUME NEW m \in 1..n, NEW g, Scans(s, m - 1, g)
      PROVE  \E h : Scans(s, m, h)
  <2>1. PICK h : h = [t \in SUBSET (1..m) |-> Term(s, g, t)]
    OBVIOUS
  <2>2. ASSUME NEW t \in SUBSET (1..m), t # {}
        PROVE  h[t \ {Max(t)}] = g[t \ {Max(t)}]
    <3>1. Max(t) \in t /\ \A y \in t : y <= Max(t)
      BY <2>2, GreatestExists
    <3>2. ASSUME NEW y \in t \ {Max(t)} PROVE y \in 1..(m - 1)
      <4>1. y \in 1..m /\ Max(t) \in 1..m /\ y <= Max(t) /\ y # Max(t)
        BY <3>1
      <4>2. y \in Nat /\ Max(t) \in Nat /\ m \in Nat /\ 1 <= y /\ Max(t) <= m
        BY <4>1
      <4> HIDE DEF Max
      <4>3. QED
        BY <4>1, <4>2
    <3>3. PICK u : u = t \ {Max(t)}
      OBVIOUS
    <3>4. u \in SUBSET (1..m) /\ u \in SUBSET (1..(m - 1))
      BY <3>2, <3>3
    <3>5. h[u] = Term(s, g, u) /\ g[u] = Term(s, g, u)
      <4>1. h[u] = Term(s, g, u)
        BY <2>1, <3>4
      <4>2. g[u] = Term(s, g, u)
        BY <1>2, <3>4 DEF Scans
      <4>3. QED
        BY <4>1, <4>2
    <3>6. QED
      BY <3>3, <3>5
  <2>3. \A t \in SUBSET (1..m) : Term(s, g, t) = Term(s, h, t)
    BY <2>2 DEF Term
  <2>4. Scans(s, m, h)
    BY <2>1, <2>3 DEF Scans
  <2>5. QED
    BY <2>4
<1>3. \A m \in 1..n : m \in Bad => m - 1 \in Bad
  <2> SUFFICES ASSUME NEW m \in 1..n, m - 1 \notin Bad PROVE m \notin Bad
    OBVIOUS
  <2>1. m - 1 \in 0..n
    OBVIOUS
  <2>2. PICK g : Scans(s, m - 1, g)
    BY <2>1
  <2>3. QED
    BY <1>2, <2>2
<1>4. Bad = {}
  <2>1. Bad \subseteq 0..n
    OBVIOUS
  <2> HIDE DEF Bad
  <2>2. QED
    BY <1>1, <1>3, <2>1, NoFirstBad
<1>5. n \notin Bad /\ n \in 0..n
  BY <1>4
<1>6. QED
  BY <1>5

\* A solution, at the prefixes of the text.
LEMMA ScanPrefixes ==
  ASSUME NEW s, NEW n \in Nat, NEW g, Scans(s, n, g)
  PROVE  /\ g[1..0] = ScanStart
         /\ \A k \in 1..n : g[1..k] = Look(g[1..(k - 1)], s[k])
<1>1. g[1..0] = ScanStart
  <2>1. 1..0 = {} /\ {} \in SUBSET (1..n)
    OBVIOUS
  <2>2. g[{}] = Term(s, g, {})
    BY <2>1 DEF Scans
  <2>3. QED
    BY <2>1, <2>2 DEF Term
<1>2. ASSUME NEW k \in 1..n PROVE g[1..k] = Look(g[1..(k - 1)], s[k])
  <2>1. PICK t : t = 1..k
    OBVIOUS
  <2>2. t \in SUBSET (1..n) /\ t # {} /\ k \in t
    <3>1. \A i \in t : i \in 1..n
      BY <2>1
    <3>2. k \in t
      BY <2>1
    <3>3. QED
      BY <3>1, <3>2
  <2>3. Max(t) = k
    <3>1. Max(t) \in t /\ \A y \in t : y <= Max(t)
      BY <2>2, GreatestExists
    <3>2. QED
      BY <2>1, <2>2, <3>1
  <2>4. t \ {k} = 1..(k - 1)
    BY <2>1
  <2>5. g[t] = Term(s, g, t)
    BY <2>2 DEF Scans
  <2>6. Term(s, g, t) = Look(g[t \ {k}], s[k])
    BY <2>2, <2>3 DEF Term
  <2>7. QED
    BY <2>1, <2>4, <2>5, <2>6
<1>3. QED
  BY <1>1, <1>2

\* Texts that begin alike are scanned alike.
LEMMA ScanAlike ==
  ASSUME NEW s, NEW t, NEW n \in Nat, NEW m \in Nat, NEW g, NEW h,
         Scans(s, n, g), Scans(t, m, h), NEW k \in 0..n, k <= m, \A i \in 1..k : t[i] = s[i]
  PROVE  g[1..k] = h[1..k]
<1> DEFINE Bad == {i \in 0..k : g[1..i] # h[1..i]}
<1>1. 0 \notin Bad
  BY ScanPrefixes
<1>2. \A i \in 1..k : i \in Bad => i - 1 \in Bad
  <2> SUFFICES ASSUME NEW i \in 1..k, i - 1 \notin Bad PROVE i \notin Bad
    OBVIOUS
  <2>1. i \in 1..n /\ i \in 1..m /\ i - 1 \in 0..k /\ t[i] = s[i]
    OBVIOUS
  <2>2. g[1..i] = Look(g[1..(i - 1)], s[i]) /\ h[1..i] = Look(h[1..(i - 1)], t[i])
    BY <2>1, ScanPrefixes
  <2>3. g[1..(i - 1)] = h[1..(i - 1)]
    BY <2>1
  <2>4. QED
    BY <2>1, <2>2, <2>3
<1>3. Bad = {}
  <2>1. Bad \subseteq 0..k /\ k \in Nat
    OBVIOUS
  <2> HIDE DEF Bad
  <2>2. QED
    BY <1>1, <1>2, <2>1, NoFirstBad
<1>4. k \notin Bad /\ k \in 0..k
  BY <1>3
<1>5. QED
  BY <1>4

LEMMA ScanEmpty == Scan(<<>>) = ScanStart
<1>1. <<>> \in Seq(Char) /\ Len(<<>>) = 0
  OBVIOUS
<1> DEFINE g == CHOOSE h : Scans(<<>>, 0, h)
<1>2. Scans(<<>>, 0, g)
  BY ScanExists
<1>3. Scan(<<>>) = g[1..0]
  BY <1>1, ScanIsFold
<1> HIDE DEF g
<1>4. QED
  BY <1>2, <1>3, ScanPrefixes

\* The inner loop of getCodeFromFile looks at one more character.
LEMMA ScanAppend ==
  ASSUME NEW s \in Seq(Char), NEW c \in Char
  PROVE  Scan(Append(s, c)) = Look(Scan(s), c)
<1>1. PICK t : t = Append(s, c)
  OBVIOUS
<1>2. PICK n : n = Len(s)
  OBVIOUS
<1>3. /\ n \in Nat /\ t \in Seq(Char) /\ Len(t) = n + 1 /\ t[n + 1] = c
      /\ \A i \in 1..n : t[i] = s[i]
  BY <1>1, <1>2, AppendProperties
<1> DEFINE g == CHOOSE h : Scans(s, n, h)
           h == CHOOSE k : Scans(t, n + 1, k)
<1>4. Scans(s, n, g) /\ Scan(s) = g[1..n]
  BY <1>2, <1>3, ScanExists, ScanIsFold
<1>5. Scans(t, n + 1, h) /\ Scan(t) = h[1..(n + 1)]
  <2>1. n + 1 \in Nat
    BY <1>3
  <2>2. \E k : Scans(t, n + 1, k)
    BY <2>1, ScanExists
  <2>3. Scan(t) = (CHOOSE k : Scans(t, Len(t), k))[1..Len(t)]
    BY <1>3, ScanIsFold
  <2>4. QED
    BY <1>3, <2>2, <2>3
<1> HIDE DEF g, h
<1>6. g[1..n] = h[1..n]
  BY <1>3, <1>4, <1>5, ScanAlike
<1>7. h[1..(n + 1)] = Look(h[1..(n + 1 - 1)], t[n + 1])
  BY <1>3, <1>5, ScanPrefixes
<1>8. n + 1 - 1 = n
  BY <1>3
<1>9. QED
  BY <1>1, <1>3, <1>4, <1>5, <1>6, <1>7, <1>8

\* A part of a text grows by the character after it.
LEMMA PartGrows ==
  ASSUME NEW s \in Seq(Char), NEW i \in 1..(Len(s) + 1), NEW j \in 0..(Len(s) - 1), i <= j + 1
  PROVE  /\ SubSeq(s, i, j) \in Seq(Char) /\ s[j + 1] \in Char
         /\ SubSeq(s, i, j + 1) = Append(SubSeq(s, i, j), s[j + 1])
<1>1. /\ Len(s) \in Nat /\ i \in Nat /\ j \in Nat /\ 1 <= i /\ j + 1 <= Len(s) /\ i <= j + 1
      /\ DOMAIN s = 1..Len(s) /\ \A k \in 1..Len(s) : s[k] \in Char
  OBVIOUS
<1>2. \A k \in i..(j + 1) : s[k] \in Char
  BY <1>1
<1>3. /\ SubSeq(s, i, j + 1) \in Seq(Char) /\ Len(SubSeq(s, i, j + 1)) = j + 1 - i + 1
      /\ \A k \in 1..(j + 1 - i + 1) : SubSeq(s, i, j + 1)[k] = s[i + k - 1]
  BY <1>1, <1>2, SubSeqProperties
<1>4. /\ SubSeq(s, i, j) \in Seq(Char) /\ Len(SubSeq(s, i, j)) = j - i + 1
      /\ \A k \in 1..(j - i + 1) : SubSeq(s, i, j)[k] = s[i + k - 1]
  BY <1>1, <1>2, SubSeqProperties
<1> DEFINE a == SubSeq(s, i, j + 1)
           b == SubSeq(s, i, j)
           e == Append(b, s[j + 1])
<1>5. s[j + 1] \in Char
  BY <1>1
<1> HIDE DEF a, b
<1>6. /\ e \in Seq(Char) /\ Len(e) = Len(b) + 1 /\ e[Len(b) + 1] = s[j + 1]
      /\ \A k \in 1..Len(b) : e[k] = b[k]
  BY <1>4, <1>5, AppendProperties DEF b
<1> HIDE DEF e
<1>7. a \in Seq(Char) /\ b \in Seq(Char) /\ Len(a) = j + 1 - i + 1 /\ Len(b) = j - i + 1 /\ Len(e) = Len(a)
  BY <1>1, <1>3, <1>4, <1>6 DEF a, b
<1>8. ASSUME NEW k \in 1..Len(a) PROVE a[k] = e[k]
  <2>1. a[k] = s[i + k - 1]
    BY <1>3, <1>7 DEF a
  <2>2. CASE k = Len(b) + 1
    BY <1>1, <1>6, <1>7, <2>1, <2>2
  <2>3. CASE k # Len(b) + 1
    <3>1. k \in 1..Len(b)
      BY <1>1, <1>7, <2>3
    <3>2. b[k] = s[i + k - 1]
      BY <1>4, <1>7, <3>1 DEF b
    <3>3. QED
      BY <1>6, <2>1, <3>1, <3>2
  <2>4. QED
    BY <2>2, <2>3
<1>9. a = e
  BY <1>6, <1>7, <1>8, SeqEqual
<1>10. QED
  BY <1>4, <1>5, <1>9 DEF a, b, e

\* So does the scan of a part.
LEMMA ScanGrows ==
  ASSUME NEW s \in Seq(Char), NEW i \in 1..(Len(s) + 1), NEW j \in 0..(Len(s) - 1), i <= j + 1
  PROVE  Scan(SubSeq(s, i, j + 1)) = Look(Scan(SubSeq(s, i, j)), s[j + 1])
BY PartGrows, ScanAppend

LEMMA NothingScanned ==
  ASSUME NEW s \in Seq(Char), NEW i \in Nat, NEW j \in Nat, j < i
  PROVE  SubSeq(s, i, j) = <<>> /\ Scan(SubSeq(s, i, j)) = ScanStart
<1>1. SubSeq(s, i, j) = <<>>
  OBVIOUS
<1>2. QED
  BY <1>1, ScanEmpty

\* The state of the scan.
ScanState == [brackets : Int, ignoreNextSemiColon : BOOLEAN, verdict : {"open", "none", "body"}]

LEMMA LookTyped ==
  ASSUME NEW s \in ScanState, NEW c \in Char
  PROVE  Look(s, c) \in ScanState
BY DEF Look, ScanState

LEMMA ScanTyped ==
  ASSUME NEW s \in Seq(Char)
  PROVE  Scan(s) \in ScanState
<1>1. PICK n : n = Len(s) /\ n \in Nat
  OBVIOUS
<1> DEFINE Bad == {k \in 0..n : Scan(SubSeq(s, 1, k)) \notin ScanState}
<1>2. 0 \notin Bad
  <2>1. Scan(SubSeq(s, 1, 0)) = ScanStart
    BY NothingScanned
  <2>2. ScanStart \in ScanState
    BY DEF ScanStart, ScanState
  <2>3. QED
    BY <2>1, <2>2
<1>3. \A k \in 1..n : k \in Bad => k - 1 \in Bad
  <2> SUFFICES ASSUME NEW k \in 1..n, k - 1 \notin Bad PROVE k \notin Bad
    OBVIOUS
  <2>1. /\ k - 1 \in 0..n /\ k - 1 \in 0..(Len(s) - 1) /\ 1 \in 1..(Len(s) + 1) /\ 1 <= k - 1 + 1
        /\ k - 1 + 1 = k
    BY <1>1
  <2>2. Scan(SubSeq(s, 1, k - 1)) \in ScanState
    BY <2>1
  <2>3. Scan(SubSeq(s, 1, k - 1 + 1)) = Look(Scan(SubSeq(s, 1, k - 1)), s[k - 1 + 1]) /\ s[k - 1 + 1] \in Char
    BY <2>1, ScanGrows, PartGrows
  <2>4. QED
    BY <2>1, <2>2, <2>3, LookTyped
<1>4. Bad = {}
  <2>1. Bad \subseteq 0..n
    OBVIOUS
  <2> HIDE DEF Bad
  <2>2. QED
    BY <1>1, <1>2, <1>3, <2>1, NoFirstBad
<1>5. n \in 0..n /\ n \notin Bad
  BY <1>1, <1>4
<1>6. SubSeq(s, 1, n) = s
  BY <1>1
<1>7. QED
  BY <1>5, <1>6

----------------------------------------------------------------------------
\* The lexer along an item.
LexedAt(chars, n, g) ==
  g = [k \in 0..n |->
         IF k = 0 THEN [mode |-> "code", directive |-> FALSE]
         ELSE [mode |-> After(g[k - 1].mode, chars[k]),
               directive |-> DirectiveAfter(g[k - 1].mode, g[k - 1].directive, chars[k])]]

LEMMA LexedExists ==
  ASSUME NEW chars, NEW n \in Nat
  PROVE  \E g : LexedAt(chars, n, g)
<1> DEFINE Step(g, k) == IF k = 0 THEN [mode |-> "code", directive |-> FALSE]
                         ELSE [mode |-> After(g[k - 1].mode, chars[k]),
                               directive |-> DirectiveAfter(g[k - 1].mode, g[k - 1].directive, chars[k])]
           Bad == {m \in 0..n : ~ \E g : LexedAt(chars, m, g)}
<1>1. 0 \notin Bad
  <2>1. PICK g : g = [k \in 0..0 |-> [mode |-> "code", directive |-> FALSE]]
    OBVIOUS
  <2>2. \A k \in 0..0 : k = 0
    OBVIOUS
  <2>3. LexedAt(chars, 0, g)
    BY <2>1, <2>2 DEF LexedAt
  <2>4. QED
    BY <2>3
<1>2. ASSUME NEW m \in 1..n, NEW g, LexedAt(chars, m - 1, g)
      PROVE  \E h : LexedAt(chars, m, h)
  <2>1. PICK h : h = [k \in 0..m |-> Step(g, k)]
    OBVIOUS
  <2>2. ASSUME NEW k \in 0..m, k # 0 PROVE h[k - 1] = g[k - 1]
    <3>1. k - 1 \in 0..m /\ k - 1 \in 0..(m - 1)
      BY <2>2
    <3>2. g = [j \in 0..(m - 1) |-> Step(g, j)]
      BY <1>2 DEF LexedAt
    <3> HIDE DEF Step
    <3>3. QED
      BY <2>1, <3>1, <3>2
  <2>3. \A k \in 0..m : Step(g, k) = Step(h, k)
    BY <2>2
  <2>4. h = [k \in 0..m |-> Step(h, k)]
    <3> HIDE DEF Step
    <3> QED BY <2>1, <2>3
  <2>5. LexedAt(chars, m, h)
    BY <2>4 DEF LexedAt
  <2>6. QED
    BY <2>5
<1>3. \A m \in 1..n : m \in Bad => m - 1 \in Bad
  <2> SUFFICES ASSUME NEW m \in 1..n, m - 1 \notin Bad PROVE m \notin Bad
    OBVIOUS
  <2>1. m - 1 \in 0..n
    OBVIOUS
  <2>2. PICK g : LexedAt(chars, m - 1, g)
    BY <2>1
  <2>3. QED
    BY <1>2, <2>2
<1>4. Bad = {}
  <2>1. Bad \subseteq 0..n
    OBVIOUS
  <2> HIDE DEF Bad
  <2>2. QED
    BY <1>1, <1>3, <2>1, NoFirstBad
<1>5. n \notin Bad /\ n \in 0..n
  BY <1>4
<1>6. QED
  BY <1>5

\* It begins in program text and goes on as the lexer of C does.
LEMMA LexedSteps ==
  ASSUME NEW chars \in Seq(Char)
  PROVE  /\ Lexed(chars)[0].mode = "code" /\ ~Lexed(chars)[0].directive
         /\ \A j \in 0..(Len(chars) - 1) :
              /\ Lexed(chars)[j + 1].mode = After(Lexed(chars)[j].mode, chars[j + 1])
              /\ Lexed(chars)[j + 1].directive
                   = DirectiveAfter(Lexed(chars)[j].mode, Lexed(chars)[j].directive, chars[j + 1])
<1>1. PICK n : n = Len(chars) /\ n \in Nat
  OBVIOUS
<1>2. PICK g : g = Lexed(chars)
  OBVIOUS
<1>3. LexedAt(chars, n, g)
  <2>1. g = CHOOSE h : LexedAt(chars, n, h)
    BY <1>1, <1>2 DEF Lexed, LexedAt
  <2>2. QED
    BY <1>1, <2>1, LexedExists
<1>4. g[0].mode = "code" /\ ~g[0].directive
  <2>1. 0 \in 0..n
    BY <1>1
  <2>2. g[0] = [mode |-> "code", directive |-> FALSE]
    BY <1>3, <2>1 DEF LexedAt
  <2>3. QED
    BY <2>2
<1>5. ASSUME NEW j \in 0..(n - 1)
      PROVE  /\ g[j + 1].mode = After(g[j].mode, chars[j + 1])
             /\ g[j + 1].directive = DirectiveAfter(g[j].mode, g[j].directive, chars[j + 1])
  <2>1. PICK k : k = j + 1
    OBVIOUS
  <2>2. k \in 0..n /\ k # 0 /\ k - 1 = j
    BY <1>1, <2>1
  <2>3. g[k] = [mode |-> After(g[k - 1].mode, chars[k]),
                directive |-> DirectiveAfter(g[k - 1].mode, g[k - 1].directive, chars[k])]
    BY <1>3, <2>2 DEF LexedAt
  <2>4. QED
    BY <2>1, <2>2, <2>3
<1>6. QED
  BY <1>1, <1>2, <1>4, <1>5

\* What the lexer leaves is as long, and newlines stay.
LEMMA TextTyped ==
  ASSUME NEW chars \in Seq(Char)
  PROVE  /\ Text(chars) \in Seq(Char) /\ Len(Text(chars)) = Len(chars)
         /\ \A k \in 1..Len(chars) :
              Text(chars)[k] = IF Remains(Lexed(chars)[k].mode, Lexed(chars)[k].directive, chars[k])
                               THEN chars[k] ELSE "blank"
<1>1. DOMAIN chars = 1..Len(chars) /\ Len(chars) \in Nat /\ \A k \in 1..Len(chars) : chars[k] \in Char
  OBVIOUS
<1>2. "blank" \in Char
  BY CodeParserAssumption DEF Punctuation, Char
<1>3. PICK at : at = Lexed(chars)
  OBVIOUS
<1> DEFINE T(k) == IF Remains(at[k].mode, at[k].directive, chars[k]) THEN chars[k] ELSE "blank"
<1>4. \A k \in 1..Len(chars) : T(k) \in Char
  BY <1>1, <1>2
<1>5. Text(chars) = [k \in 1..Len(chars) |-> T(k)]
  BY <1>1, <1>3 DEF Text
<1> HIDE DEF T
<1>6. Text(chars) \in Seq(Char) /\ Len(Text(chars)) = Len(chars)
  BY <1>1, <1>4, <1>5
<1>7. \A k \in 1..Len(chars) : Text(chars)[k] = T(k)
  BY <1>5
<1>8. QED
  BY <1>3, <1>6, <1>7 DEF T

\* In a tame text the loop leaves the characters that the lexer of C leaves.
LEMMA KeptIsRight ==
  ASSUME LexInv, NEW c \in Char, ReadChar(c), tame'
  PROVE  kept' <=> Remains(mode', directive', c)
<1>1. tame /\ ~Wild(c)
  BY DEF ReadChar, Lex, LexInv, LexType
<1>2. LexType /\ FlagsRemember /\ Agrees /\ Agrees' /\ FlagsRemember' /\ mode' \in Mode
  BY <1>1, ReadAgrees, ReadType DEF LexInv, LexType
<1>3. c \in Plain \cup Special
  BY DEF Char
<1>4. CASE c = "escape"
  BY <1>4 DEF ReadChar, Clear, Escape, Remains
<1>5. CASE c = "newline" \/ c = "slash"
  BY <1>5 DEF ReadChar, Clear, Character, Remains
<1>6. CASE c \notin {"escape", "newline", "slash"}
  <2>1. /\ kept' <=> ~inComment' /\ ~inLongComment' /\ ~inString'
        /\ inComment' <=> hides'
    BY <1>2, <1>6 DEF ReadChar, Clear, Character, FlagsRemember
  <2>2. last' # "slash" /\ ~CommentEnded'
    BY <1>6 DEF ReadChar, Lex, CommentEnded
  <2>3. mode' # "slash" /\ mode' \notin {"stringEscape", "charEscape"}
    BY <1>2, <1>6, <2>2 DEF Agrees, ModeIsFresh, ReadChar, Lex
  <2>4. mode' \in {"code", "line", "string", "char"} \cup LongComment
    BY <1>2, <2>3 DEF Mode, Literal
  <2>5. QED
    BY <1>2, <1>6, <2>1, <2>2, <2>4 DEF Agrees, LineAgrees, LongAgrees, StringAgrees, Remains, LongComment
<1>7. QED
  BY <1>3, <1>4, <1>5, <1>6

----------------------------------------------------------------------------
\* The search, in a tame text.  Every name that is read is told apart by what the scan
\* from it will come to: where a function is defined, or nowhere.

InDefs(n) == <<buf[n], Place(buf, n)>> \in defs
Word(n)   == buf[n] \in Function \ odd /\ StartsWord(buf, n)
Seen(n)   == Scan(SubSeq(buf, n + 1, Len(buf)))
\* The scan from n finds no body any more: it has stopped, or stands in more brackets
\* than the text to come closes.
Dead(n, b) == Seen(n).verdict = "none" \/ (Seen(n).verdict = "open" /\ Seen(n).brackets < b)
\* The end of the chunk will find f.
Held(f) == Spelled(buf, f) # {} /\ StartsWord(buf, First(buf, f)) /\ HasBody(buf, First(buf, f))
Settled(f) == f \in DOMAIN functions \cup odd \cup hidden

FoundRight == \A f \in DOMAIN functions \ odd : <<f, functions[f]>> \in defs
DefsNamed  == \A d \in defs : d[1] \in Function

\* Between two items.
Between ==
  /\ mode = "code" /\ ~directive
  /\ FoundRight /\ DefsNamed
  /\ \A n \in DOMAIN buf : Word(n) => InDefs(n) \/ Dead(n, 0)
  /\ \A d \in defs : Settled(d[1]) \/ Held(d[1])
  /\ \A n \in DOMAIN buf : buf[n] \in Function => buf[n] \in named
  /\ done => buf = <<>>

\* Within an item, j characters of which are read; the chunk has `before` from the items
\* before it, or lacks -before characters, which were in the chunks before.
InBuf(text, j, before) ==
  \A i \in 1..j :
    /\ OneChunk(text, i, j) => before + i >= 1 /\ buf[before + i] = text[i]
    /\ text[i] = "rbrace" => before + i <= 0

Places(item, j) ==
  \A f \in DOMAIN item.defines \ item.odd :
    <<f, <<pos - j + item.defines[f],
           line - Newlines(SubSeq(item.chars, 1, j))
             + Newlines(SubSeq(item.chars, 1, item.defines[f]))>>>> \in defs

Sound(text, j, before) ==
  \A n \in DOMAIN buf : Word(n) =>
    \/ InDefs(n)
    \/ n > before /\ Harmless(text, n - before)
    \/ n <= before /\ Dead(n, Balance(SubSeq(text, 1, j)))

\* A definition of the item is to be read, or has been, and its body with the item.
Ahead(item, j, f) == f \in DOMAIN item.defines /\ j <= item.defines[f] /\ Spelled(buf, f) = {}
Begun(item, j, before, f) ==
  /\ f \in DOMAIN item.defines /\ j > item.defines[f]
  /\ Spelled(buf, f) # {} /\ First(buf, f) = before + item.defines[f] + 1
  /\ StartsWord(buf, First(buf, f))
Complete(item, j, before) ==
  \A d \in defs : \/ Settled(d[1]) \/ Held(d[1])
                  \/ Ahead(item, j, d[1]) \/ Begun(item, j, before, d[1])

NamesSeen(item, text, j) ==
  \/ item.closes /\ \E i \in (j + 1)..Len(text) : text[i] = "rbrace"
  \/ \A n \in DOMAIN buf : buf[n] \in Function => buf[n] \in named

Within(item, j) ==
  LET text   == Text(item.chars)
      before == Len(buf) - j
  IN  /\ rest = SubSeq(item.chars, j + 1, Len(item.chars)) /\ ~done
      /\ mode = Lexed(item.chars)[j].mode /\ directive = Lexed(item.chars)[j].directive
      /\ item.odd \subseteq odd /\ FoundRight /\ DefsNamed
      /\ Places(item, j)
      /\ InBuf(text, j, before)
      /\ Sound(text, j, before)
      /\ Complete(item, j, before)
      /\ NamesSeen(item, text, j)
      /\ item.closes \/ item.names \subseteq named

SearchInv ==
  tame => \/ rest = <<>> /\ Between
          \/ \E item \in Items : \E j \in 0..Len(item.chars) : Within(item, j)

\* What an item is.
LEMMA ItemTyped ==
  ASSUME NEW item \in Items
  PROVE  /\ item.chars \in Seq(Char) /\ Regular(item)
         /\ Text(item.chars) \in Seq(Char) /\ Len(Text(item.chars)) = Len(item.chars)
         /\ Len(item.chars) \in Nat
BY CodeParserAssumption, ItemsAssumption, TextTyped

\* The chunk, read from the item's text.
LEMMA ChunkIsText ==
  ASSUME NEW text \in Seq(Char), NEW j \in 0..Len(text), NEW before \in Int, buf \in Seq(Char),
         Len(buf) = before + j, InBuf(text, j, before), NEW n \in DOMAIN buf, n > before
  PROVE  /\ n - before \in 1..j /\ OneChunk(text, n - before, j) /\ buf[n] = text[n - before]
         /\ StartsWord(buf, n) => MayStartWord(text, n - before)
         /\ SubSeq(buf, n + 1, Len(buf)) = SubSeq(text, n - before + 1, j)
<1>1. PICK k : k = n - before
  OBVIOUS
<1>2. /\ n \in Nat /\ n >= 1 /\ n <= Len(buf) /\ Len(buf) \in Nat /\ Len(text) \in Nat /\ j \in Nat
      /\ k \in 1..j /\ n = before + k /\ j <= Len(text)
  BY <1>1
<1>3. \A i \in k..j : text[i] # "rbrace"
  <2> SUFFICES ASSUME NEW i \in k..j, text[i] = "rbrace" PROVE FALSE
    OBVIOUS
  <2>1. i \in 1..j /\ i \in Nat /\ i >= k
    BY <1>2
  <2>2. before + i <= 0
    BY <2>1 DEF InBuf
  <2>3. QED
    BY <1>2, <2>1, <2>2
<1>4. \A i \in k..j : OneChunk(text, i, j) /\ before + i >= 1 /\ buf[before + i] = text[i]
  <2> SUFFICES ASSUME NEW i \in k..j
               PROVE  OneChunk(text, i, j) /\ before + i >= 1 /\ buf[before + i] = text[i]
    OBVIOUS
  <2>1. i \in 1..j /\ i \in Nat /\ \A m \in i..j : m \in k..j
    BY <1>2
  <2>2. OneChunk(text, i, j)
    BY <1>3, <2>1 DEF OneChunk
  <2>3. QED
    BY <2>1, <2>2 DEF InBuf
<1>5. k \in k..j /\ OneChunk(text, k, j) /\ buf[n] = text[k]
  BY <1>2, <1>4
<1>6. ASSUME StartsWord(buf, n) PROVE MayStartWord(text, k)
  <2>1. CASE k = 1
    BY <2>1 DEF MayStartWord
  <2>2. CASE k # 1 /\ text[k - 1] # "rbrace"
    <3>1. k - 1 \in 1..j /\ OneChunk(text, k - 1, j)
      <4>1. k - 1 \in 1..j /\ \A i \in (k - 1)..j : i = k - 1 \/ i \in k..j
        BY <1>2, <2>2
      <4>2. QED
        BY <1>3, <2>2, <4>1 DEF OneChunk
    <3>2. before + (k - 1) >= 1 /\ buf[before + (k - 1)] = text[k - 1]
      BY <3>1 DEF InBuf
    <3>3. n # 1 /\ n - 1 = before + (k - 1)
      BY <1>2, <3>2
    <3>4. QED
      BY <1>6, <3>2, <3>3 DEF StartsWord, MayStartWord
  <2>3. CASE text[k - 1] = "rbrace"
    BY <2>3 DEF MayStartWord
  <2>4. QED
    BY <2>1, <2>2, <2>3
<1>7. SubSeq(buf, n + 1, Len(buf)) = SubSeq(text, k + 1, j)
  <2> DEFINE a == SubSeq(buf, n + 1, Len(buf))
             b == SubSeq(text, k + 1, j)
             m == j - k
  <2>1. m \in Nat /\ Len(buf) - (n + 1) + 1 = m /\ j - (k + 1) + 1 = m
    BY <1>2
  <2>2. /\ \A i \in (n + 1)..Len(buf) : buf[i] \in Char
        /\ \A i \in (k + 1)..j : text[i] \in Char
    BY <1>2
  <2>3. a \in Seq(Char) /\ Len(a) = m /\ \A i \in 1..m : a[i] = buf[n + 1 + i - 1]
    BY <1>2, <2>1, <2>2, SubSeqProperties
  <2>4. b \in Seq(Char) /\ Len(b) = m /\ \A i \in 1..m : b[i] = text[k + 1 + i - 1]
    BY <1>2, <2>1, <2>2, SubSeqProperties
  <2>5. ASSUME NEW i \in 1..m PROVE a[i] = b[i]
    <3>1. k + 1 + i - 1 \in k..j /\ n + 1 + i - 1 = before + (k + 1 + i - 1)
      BY <1>2, <2>1
    <3>2. buf[before + (k + 1 + i - 1)] = text[k + 1 + i - 1]
      BY <1>4, <3>1
    <3>3. a[i] = buf[n + 1 + i - 1] /\ b[i] = text[k + 1 + i - 1]
      BY <2>3, <2>4
    <3>4. QED
      BY <3>1, <3>2, <3>3
  <2> HIDE DEF a, b, m
  <2>6. QED
    BY <2>3, <2>4, <2>5, SeqEqual DEF a, b
<1>8. QED
  BY <1>1, <1>2, <1>5, <1>6, <1>7

\* A chunk that began before the item has not been ended by it.
LEMMA OldChunk ==
  ASSUME NEW text, NEW j \in Nat, NEW before \in Int, InBuf(text, j, before), before >= 1
  PROVE  OneChunk(text, 1, j)
<1> SUFFICES ASSUME NEW i \in 1..j, text[i] = "rbrace" PROVE FALSE
  BY DEF OneChunk
<1>1. before + i <= 0 /\ i \in Nat /\ i >= 1
  BY DEF InBuf
<1>2. QED
  BY <1>1

\* buf.find returns the first place.
LEMMA FirstIsLeast ==
  ASSUME NEW chunk \in Seq(Char), NEW f, Spelled(chunk, f) # {}
  PROVE  /\ First(chunk, f) \in DOMAIN chunk /\ chunk[First(chunk, f)] = f
         /\ \A m \in DOMAIN chunk : chunk[m] = f => First(chunk, f) <= m
         /\ \A n \in DOMAIN chunk :
              chunk[n] = f /\ (\A m \in DOMAIN chunk : chunk[m] = f => n <= m) => n = First(chunk, f)
<1>1. Spelled(chunk, f) \subseteq Nat
  BY DEF Spelled
<1>2. \E x \in Spelled(chunk, f) : \A y \in Spelled(chunk, f) : x <= y
  BY <1>1, LeastExists
<1>3. First(chunk, f) \in Spelled(chunk, f) /\ \A m \in Spelled(chunk, f) : First(chunk, f) <= m
  BY <1>2 DEF First, Min
<1>4. \A n \in Spelled(chunk, f) : (\A m \in Spelled(chunk, f) : n <= m) => n = First(chunk, f)
  <2> SUFFICES ASSUME NEW n \in Spelled(chunk, f), \A m \in Spelled(chunk, f) : n <= m
               PROVE  n = First(chunk, f)
    OBVIOUS
  <2>1. n <= First(chunk, f) /\ First(chunk, f) <= n /\ n \in Nat /\ First(chunk, f) \in Nat
    BY <1>1, <1>3
  <2> HIDE DEF First
  <2>2. QED
    BY <2>1
<1>5. \A m : m \in Spelled(chunk, f) <=> m \in DOMAIN chunk /\ chunk[m] = f
  BY DEF Spelled
<1> HIDE DEF First, Spelled
<1>6. QED
  BY <1>3, <1>4, <1>5

\* What Read does in a tame text: the chunk gets what the lexer of C leaves.
ReadText(item, j) ==
  LET c == Text(item.chars)[j + 1]
  IN  /\ rest' = SubSeq(item.chars, j + 2, Len(item.chars))
      /\ mode' = Lexed(item.chars)[j + 1].mode /\ directive' = Lexed(item.chars)[j + 1].directive
      /\ c \in Char /\ (c = "newline" <=> item.chars[j + 1] = "newline")
      /\ pos' = pos + 1 /\ line' = line + IF c = "newline" THEN 1 ELSE 0
      /\ UNCHANGED <<done, defs, named, hidden, odd>>
      /\ \/ c = "rbrace" /\ Chunk(buf) /\ buf' = <<>>
         \/ c # "rbrace" /\ buf' = Append(buf, c) /\ UNCHANGED <<symbNum, lineNum, functions>>

LEMMA ReadsText ==
  ASSUME LexInv, PlaceInv, NEW item \in Items, NEW j \in 0..(Len(item.chars) - 1), Within(item, j),
         Read, tame'
  PROVE  ReadText(item, j)
<1>1. PICK chars : chars = item.chars
  OBVIOUS
<1>2. PICK c : c = Head(rest)
  OBVIOUS
<1>3. /\ chars \in Seq(Char) /\ Len(chars) \in Nat /\ j \in 0..(Len(chars) - 1)
      /\ rest = SubSeq(chars, j + 1, Len(chars))
      /\ mode = Lexed(chars)[j].mode /\ directive = Lexed(chars)[j].directive
  BY <1>1, ItemTyped DEF Within
<1>4. c = chars[j + 1] /\ c \in Char /\ Tail(rest) = SubSeq(chars, j + 2, Len(chars))
  <2>1. /\ \A i \in (j + 1)..Len(chars) : chars[i] \in Char
        /\ \A i \in (j + 2)..Len(chars) : chars[i] \in Char
    BY <1>3
  <2>2. /\ rest \in Seq(Char) /\ Len(rest) = Len(chars) - j
        /\ \A i \in 1..(Len(chars) - j) : rest[i] = chars[j + 1 + i - 1]
    BY <1>3, <2>1, SubSeqProperties
  <2>3. Len(rest) >= 1 /\ rest # <<>> /\ c = rest[1] /\ rest[1] = chars[j + 1]
    <3>1. Len(chars) - j >= 1 /\ 1 \in 1..(Len(chars) - j) /\ j + 1 + 1 - 1 = j + 1
      BY <1>3
    <3>2. rest[1] = chars[j + 1] /\ Len(rest) >= 1
      BY <2>2, <3>1
    <3>3. rest # <<>> /\ c = rest[1]
      BY <1>2, <2>2, <3>2, HeadTailProperties
    <3>4. QED
      BY <3>2, <3>3
  <2> DEFINE t == SubSeq(chars, j + 2, Len(chars))
  <2>4. /\ t \in Seq(Char) /\ Len(t) = Len(chars) - j - 1
        /\ \A i \in 1..(Len(chars) - j - 1) : t[i] = chars[j + 2 + i - 1]
    BY <1>3, <2>1, SubSeqProperties
  <2>5. /\ Tail(rest) \in Seq(Char) /\ Len(Tail(rest)) = Len(chars) - j - 1
        /\ \A i \in 1..(Len(chars) - j - 1) : Tail(rest)[i] = rest[i + 1]
    BY <1>3, <2>2, <2>3, HeadTailProperties
  <2> HIDE DEF t
  <2>6. Tail(rest) = t
    <3>1. ASSUME NEW i \in 1..(Len(chars) - j - 1) PROVE Tail(rest)[i] = t[i]
      <4>1. i + 1 \in 1..(Len(chars) - j) /\ j + 1 + (i + 1) - 1 = j + 2 + i - 1
        BY <1>3
      <4>2. QED
        BY <2>2, <2>4, <2>5, <4>1
    <3>2. QED
      BY <2>4, <2>5, <3>1, SeqEqual
  <2>7. QED
    BY <1>3, <2>3, <2>6 DEF t
<1>5. ReadChar(c) /\ rest' = Tail(rest)
  BY <1>2 DEF Read
<1>6. mode' = Lexed(chars)[j + 1].mode /\ directive' = Lexed(chars)[j + 1].directive
  BY <1>3, <1>4, <1>5, LexedSteps DEF ReadChar, Lex, Then, InDirective
<1> DEFINE cleared == IF kept' THEN c ELSE "blank"
<1>7. cleared = Text(chars)[j + 1]
  <2>1. kept' <=> Remains(mode', directive', c)
    BY <1>4, <1>5, KeptIsRight
  <2>2. j + 1 \in 1..Len(chars)
    BY <1>3
  <2>3. QED
    BY <1>3, <1>4, <1>6, <2>1, <2>2, TextTyped
<1>8. c = "newline" <=> cleared = "newline"
  BY <1>5 DEF ReadChar, Clear, Character
<1>9. Text(chars)[j + 1] \in Char
  <2>1. j + 1 \in 1..Len(Text(chars)) /\ Text(chars) \in Seq(Char)
    BY <1>3, TextTyped
  <2>2. QED
    BY <2>1
<1>10. /\ IF cleared = "rbrace" THEN Chunk(buf) /\ buf' = <<>>
          ELSE buf' = Append(buf, cleared) /\ UNCHANGED <<symbNum, lineNum, functions>>
       /\ pos' = pos + 1 /\ line' = (IF c = "newline" THEN line + 1 ELSE line)
       /\ UNCHANGED <<done, defs, named, hidden, odd>>
  BY <1>2 DEF Read
<1>11. line' = line + IF cleared = "newline" THEN 1 ELSE 0
  BY <1>8, <1>10 DEF PlaceInv
<1> HIDE DEF cleared
<1>12. QED
  BY <1>1, <1>4, <1>5, <1>6, <1>7, <1>8, <1>9, <1>10, <1>11 DEF ReadText

\* The places of a chunk that gets one more character.
LEMMA ChunkGrows ==
  ASSUME buf \in Seq(Char), NEW c \in Char, buf' = Append(buf, c),
         UNCHANGED <<symbNum, lineNum, functions, defs, odd, hidden>>, NEW n \in DOMAIN buf
  PROVE  /\ n \in DOMAIN buf' /\ buf'[n] = buf[n]
         /\ Word(n)' <=> Word(n)
         /\ StartsWord(buf, n)' <=> StartsWord(buf, n)
         /\ InDefs(n)' <=> InDefs(n)
         /\ Seen(n)' = Look(Seen(n), c)
<1>1. /\ buf' \in Seq(Char) /\ Len(buf') = Len(buf) + 1 /\ buf'[Len(buf) + 1] = c
      /\ \A i \in 1..Len(buf) : buf'[i] = buf[i]
  BY AppendProperties
<1>2. Len(buf) \in Nat /\ n \in 1..Len(buf) /\ n \in Nat /\ DOMAIN buf' = 1..Len(buf')
  BY <1>1
<1>3. n \in DOMAIN buf' /\ buf'[n] = buf[n]
  BY <1>1, <1>2
<1>4. StartsWord(buf, n)' <=> StartsWord(buf, n)
  <2>1. n # 1 => n - 1 \in 1..Len(buf)
    BY <1>2
  <2>2. n # 1 => buf'[n - 1] = buf[n - 1]
    BY <1>1, <2>1
  <2>3. QED
    BY <2>2 DEF StartsWord
<1>5. SubSeq(buf', 1, n - 1) = SubSeq(buf, 1, n - 1)
  <2> DEFINE a == SubSeq(buf', 1, n - 1)
             b == SubSeq(buf, 1, n - 1)
  <2>1. \A i \in 1..(n - 1) : buf'[i] \in Char /\ buf[i] \in Char /\ buf'[i] = buf[i]
    BY <1>1, <1>2
  <2>2. a \in Seq(Char) /\ Len(a) = n - 1 /\ \A i \in 1..(n - 1) : a[i] = buf'[i]
    BY <1>1, <1>2, <2>1, SubSeqProperties
  <2>3. b \in Seq(Char) /\ Len(b) = n - 1 /\ \A i \in 1..(n - 1) : b[i] = buf[i]
    BY <1>2, <2>1, SubSeqProperties
  <2> HIDE DEF a, b
  <2>4. a = b
    BY <2>1, <2>2, <2>3, SeqEqual
  <2>5. QED
    BY <2>4 DEF a, b
<1>6. Place(buf, n)' = Place(buf, n)
  BY <1>5 DEF Place
<1>7. Seen(n)' = Look(Seen(n), c)
  <2>1. SubSeq(buf', n + 1, Len(buf)) = SubSeq(buf, n + 1, Len(buf))
    <3> DEFINE a == SubSeq(buf', n + 1, Len(buf))
               b == SubSeq(buf, n + 1, Len(buf))
               m == Len(buf) - n
    <3>1. /\ \A i \in (n + 1)..Len(buf) : buf'[i] \in Char /\ buf[i] \in Char /\ buf'[i] = buf[i]
          /\ m \in Nat /\ Len(buf) - (n + 1) + 1 = m
      BY <1>1, <1>2
    <3>2. a \in Seq(Char) /\ Len(a) = m /\ \A i \in 1..m : a[i] = buf'[n + 1 + i - 1]
      BY <1>1, <1>2, <3>1, SubSeqProperties
    <3>3. b \in Seq(Char) /\ Len(b) = m /\ \A i \in 1..m : b[i] = buf[n + 1 + i - 1]
      BY <1>2, <3>1, SubSeqProperties
    <3>4. \A i \in 1..m : n + 1 + i - 1 \in (n + 1)..Len(buf)
      BY <1>2
    <3> HIDE DEF a, b, m
    <3>5. a = b
      BY <3>1, <3>2, <3>3, <3>4, SeqEqual
    <3>6. QED
      BY <3>5 DEF a, b
  <2>2. n + 1 \in 1..(Len(buf') + 1) /\ Len(buf) \in 0..(Len(buf') - 1) /\ n + 1 <= Len(buf) + 1
    BY <1>1, <1>2
  <2>3. Scan(SubSeq(buf', n + 1, Len(buf) + 1)) = Look(Scan(SubSeq(buf', n + 1, Len(buf))), buf'[Len(buf) + 1])
    BY <1>1, <2>2, ScanGrows
  <2>4. QED
    BY <1>1, <2>1, <2>3 DEF Seen
<1>8. QED
  BY <1>3, <1>4, <1>6, <1>7 DEF Word, InDefs

\* What has been found in a chunk, or begun, stays.
LEMMA FirstStays ==
  ASSUME buf \in Seq(Char), NEW c \in Char, buf' = Append(buf, c), NEW f, Spelled(buf, f) # {}
  PROVE  Spelled(buf, f)' # {} /\ First(buf, f)' = First(buf, f) /\ First(buf, f) \in DOMAIN buf
<1>1. PICK n : n = First(buf, f)
  OBVIOUS
<1>2. n \in DOMAIN buf /\ buf[n] = f /\ \A m \in DOMAIN buf : buf[m] = f => n <= m
  BY <1>1, FirstIsLeast
<1>3. /\ buf' \in Seq(Char) /\ Len(buf') = Len(buf) + 1 /\ \A i \in 1..Len(buf) : buf'[i] = buf[i]
      /\ DOMAIN buf = 1..Len(buf) /\ DOMAIN buf' = 1..Len(buf') /\ Len(buf) \in Nat
  BY AppendProperties
<1>4. n \in DOMAIN buf' /\ buf'[n] = f
  BY <1>2, <1>3
<1>5. ASSUME NEW m \in DOMAIN buf', buf'[m] = f PROVE n <= m
  <2>1. CASE m \in DOMAIN buf
    BY <1>2, <1>3, <1>5, <2>1
  <2>2. CASE m \notin DOMAIN buf
    BY <1>2, <1>3, <2>2
  <2>3. QED
    BY <2>1, <2>2
<1>6. Spelled(buf', f) # {}
  BY <1>4 DEF Spelled
<1>7. n = First(buf', f)
  BY <1>3, <1>4, <1>5, <1>6, FirstIsLeast
<1>8. QED
  BY <1>1, <1>2, <1>6, <1>7

LEMMA HeldStays ==
  ASSUME buf \in Seq(Char), NEW c \in Char, buf' = Append(buf, c),
         UNCHANGED <<symbNum, lineNum, functions, defs, odd, hidden>>, NEW f, Held(f)
  PROVE  Held(f)'
<1>1. PICK n : n = First(buf, f)
  OBVIOUS
<1>2. Spelled(buf, f)' # {} /\ First(buf, f)' = n /\ n \in DOMAIN buf
  BY <1>1, FirstStays DEF Held
<1>3. StartsWord(buf, n)' /\ Seen(n)' = Look(Seen(n), c)
  BY <1>1, <1>2, ChunkGrows DEF Held
<1>4. Seen(n).verdict = "body"
  BY <1>1 DEF Held, HasBody, Seen
<1>5. Seen(n)'.verdict = "body"
  BY <1>3, <1>4 DEF Look
<1>6. QED
  BY <1>2, <1>3, <1>5 DEF Held, HasBody, Seen

\* What the item's text is to the chunk when a character is added that ends no chunk.
LEMMA InBufGrows ==
  ASSUME NEW text \in Seq(Char), NEW j \in 0..(Len(text) - 1), NEW before \in Int, buf \in Seq(Char),
         Len(buf) = before + j, InBuf(text, j, before), text[j + 1] # "rbrace",
         buf' = Append(buf, text[j + 1])
  PROVE  InBuf(text, j + 1, before)'
<1>1. j \in Nat /\ Len(text) \in Nat /\ Len(buf) \in Nat /\ j + 1 \in 1..Len(text) /\ text[j + 1] \in Char
  OBVIOUS
<1>2. Len(buf') = Len(buf) + 1 /\ buf'[Len(buf) + 1] = text[j + 1] /\ \A i \in 1..Len(buf) : buf'[i] = buf[i]
  BY <1>1, AppendProperties
<1>3. ASSUME NEW i \in 1..(j + 1)
      PROVE  /\ OneChunk(text, i, j + 1) => before + i >= 1 /\ buf'[before + i] = text[i]
             /\ text[i] = "rbrace" => before + i <= 0
  <2>1. CASE i = j + 1
    <3>1. before + i = Len(buf) + 1
      BY <1>1, <2>1
    <3>2. QED
      BY <1>1, <1>2, <2>1, <3>1
  <2>2. CASE i # j + 1
    <3>1. i \in 1..j /\ i \in Nat
      BY <1>1, <2>2
    <3>2. OneChunk(text, i, j + 1) => OneChunk(text, i, j)
      <4>1. \A k \in i..j : k \in i..(j + 1)
        BY <1>1, <3>1
      <4>2. QED
        BY <4>1 DEF OneChunk
    <3>3. /\ OneChunk(text, i, j) => before + i >= 1 /\ buf[before + i] = text[i]
          /\ text[i] = "rbrace" => before + i <= 0
      BY <3>1 DEF InBuf
    <3>4. before + i >= 1 => before + i \in 1..Len(buf)
      BY <1>1, <3>1
    <3>5. QED
      BY <1>2, <3>2, <3>3, <3>4
  <2>3. QED
    BY <2>1, <2>2
<1>4. QED
  BY <1>3 DEF InBuf

\* The name the chunk gets stands at the beginning of a word where it does in the item.
LEMMA WordsAgree ==
  ASSUME NEW text \in Seq(Char), NEW j \in 0..(Len(text) - 1), NEW before \in Int, buf \in Seq(Char),
         Len(buf) = before + j, InBuf(text, j, before), buf' = Append(buf, text[j + 1])
  PROVE  /\ StartsWord(buf', Len(buf) + 1) => MayStartWord(text, j + 1)
         /\ j >= 1 /\ MayStartWord(text, j + 1) => StartsWord(buf', Len(buf) + 1)
<1>1. j \in Nat /\ Len(text) \in Nat /\ Len(buf) \in Nat /\ j + 1 \in 1..Len(text) /\ text[j + 1] \in Char
  OBVIOUS
<1>2. Len(buf') = Len(buf) + 1 /\ \A i \in 1..Len(buf) : buf'[i] = buf[i]
  BY <1>1, AppendProperties
<1>3. j >= 1 /\ text[j] # "rbrace" => Len(buf) >= 1 /\ buf'[Len(buf)] = text[j]
  <2> SUFFICES ASSUME j >= 1, text[j] # "rbrace" PROVE Len(buf) >= 1 /\ buf'[Len(buf)] = text[j]
    OBVIOUS
  <2>1. j \in 1..j /\ \A i \in j..j : i = j
    BY <1>1
  <2>2. OneChunk(text, j, j)
    BY <2>1 DEF OneChunk
  <2>3. before + j >= 1 /\ buf[before + j] = text[j]
    BY <2>1, <2>2 DEF InBuf
  <2>4. Len(buf) >= 1 /\ Len(buf) \in 1..Len(buf)
    BY <1>1, <2>3
  <2>5. QED
    BY <1>2, <2>3, <2>4
<1>4. j >= 1 /\ text[j] = "rbrace" => Len(buf) = 0
  <2>1. j >= 1 => j \in 1..j
    BY <1>1
  <2>2. j >= 1 /\ text[j] = "rbrace" => before + j <= 0
    BY <2>1 DEF InBuf
  <2>3. QED
    BY <1>1, <2>2
<1>5. /\ Len(buf) + 1 - 1 = Len(buf) /\ j + 1 - 1 = j /\ (j + 1 = 1 <=> ~ (j >= 1))
      /\ (Len(buf) + 1 = 1 <=> Len(buf) = 0) /\ (Len(buf) >= 1 => Len(buf) # 0)
  BY <1>1
<1>6. StartsWord(buf', Len(buf) + 1) => MayStartWord(text, j + 1)
  BY <1>3, <1>4, <1>5 DEF StartsWord, MayStartWord
<1>7. j >= 1 /\ MayStartWord(text, j + 1) => StartsWord(buf', Len(buf) + 1)
  BY <1>3, <1>4, <1>5 DEF StartsWord, MayStartWord
<1>8. QED
  BY <1>6, <1>7

\* How many brackets a text leaves open.
LEMMA BalanceGrows ==
  ASSUME NEW text \in Seq(Char), NEW j \in 0..(Len(text) - 1)
  PROVE  /\ Balance(SubSeq(text, 1, j)) \in Int
         /\ Balance(SubSeq(text, 1, j + 1))
              = Balance(SubSeq(text, 1, j))
                  + IF text[j + 1] = "lparen" THEN 1 ELSE IF text[j + 1] = "rparen" THEN -1 ELSE 0
<1>1. PICK s : s = SubSeq(text, 1, j)
  OBVIOUS
<1>2. PICK c : c = text[j + 1]
  OBVIOUS
<1>3. s \in Seq(Char) /\ c \in Char /\ SubSeq(text, 1, j + 1) = Append(s, c)
  <2>1. 1 \in 1..(Len(text) + 1) /\ 1 <= j + 1
    OBVIOUS
  <2>2. QED
    BY <1>1, <1>2, <2>1, PartGrows
<1>4. PICK l \in Nat : l = Cardinality(Spelled(s, "lparen"))
  BY <1>3, SpelledType
<1>5. PICK r \in Nat : r = Cardinality(Spelled(s, "rparen"))
  BY <1>3, SpelledType
<1>6. Cardinality(Spelled(Append(s, c), "lparen")) = l + IF c = "lparen" THEN 1 ELSE 0
  BY <1>3, <1>4, SpelledAppend
<1>7. Cardinality(Spelled(Append(s, c), "rparen")) = r + IF c = "rparen" THEN 1 ELSE 0
  BY <1>3, <1>5, SpelledAppend
<1>8. Balance(s) = l - r
  BY <1>4, <1>5 DEF Balance
<1>9. Balance(Append(s, c)) = l - r + IF c = "lparen" THEN 1 ELSE IF c = "rparen" THEN -1 ELSE 0
  BY <1>6, <1>7 DEF Balance
<1>10. Balance(SubSeq(text, 1, j)) = l - r
  BY <1>1, <1>8
<1>11. Balance(SubSeq(text, 1, j + 1)) = l - r + IF c = "lparen" THEN 1 ELSE IF c = "rparen" THEN -1 ELSE 0
  BY <1>3, <1>9
<1> HIDE DEF Balance
<1>12. QED
  BY <1>2, <1>10, <1>11

\* The state of the scan from a name of the chunk.
LEMMA SeenTyped ==
  ASSUME buf \in Seq(Char), NEW n \in DOMAIN buf
  PROVE  Seen(n) \in ScanState
<1>1. n \in 1..Len(buf) /\ Len(buf) \in Nat /\ \A i \in (n + 1)..Len(buf) : buf[i] \in Char
  OBVIOUS
<1>2. SubSeq(buf, n + 1, Len(buf)) \in Seq(Char)
  BY <1>1, SubSeqProperties
<1>3. QED
  BY <1>2, ScanTyped DEF Seen

\* A scan that began before the item and finds no body goes on finding none.
LEMMA DeadStays ==
  ASSUME NEW text \in Seq(Char), NEW j \in 0..(Len(text) - 1), NEW before \in Int, buf \in Seq(Char),
         InBuf(text, j, before), Balanced(text), buf' = Append(buf, text[j + 1]),
         UNCHANGED <<symbNum, lineNum, functions, defs, odd, hidden>>,
         NEW n \in DOMAIN buf, n <= before, Dead(n, Balance(SubSeq(text, 1, j)))
  PROVE  Dead(n, Balance(SubSeq(text, 1, j + 1)))'
<1>1. PICK c : c = text[j + 1]
  OBVIOUS
<1>2. PICK s : s = Seen(n)
  OBVIOUS
<1>3. PICK b : b = Balance(SubSeq(text, 1, j))
  OBVIOUS
<1>4. c \in Char /\ s \in ScanState /\ b \in Int
  BY <1>1, <1>2, <1>3, SeenTyped, BalanceGrows
<1>5. Seen(n)' = Look(s, c)
  BY <1>1, <1>2, <1>4, ChunkGrows
<1>6. PICK e : e = Balance(SubSeq(text, 1, j + 1))
  OBVIOUS
<1>7. e = b + IF c = "lparen" THEN 1 ELSE IF c = "rparen" THEN -1 ELSE 0
  BY <1>1, <1>3, <1>6, BalanceGrows
<1>8. c = "lbrace" => b <= 0
  <2>1. before >= 1 /\ j \in Nat /\ j \in 0..Len(text)
    OBVIOUS
  <2>2. OneChunk(text, 1, j)
    BY <2>1, OldChunk
  <2>3. QED
    BY <1>1, <1>3, <2>1, <2>2 DEF Balanced
<1>9. s.verdict = "none" \/ (s.verdict = "open" /\ s.brackets < b)
  BY <1>2, <1>3 DEF Dead
<1>10. Look(s, c).verdict = "none" \/ (Look(s, c).verdict = "open" /\ Look(s, c).brackets < e)
  <2>1. CASE s.verdict = "none"
    BY <2>1 DEF Look
  <2>2. CASE s.verdict = "open" /\ s.brackets < b
    <3> DEFINE brackets == s.brackets + (IF c = "lparen" THEN 1 ELSE IF c = "rparen" THEN -1 ELSE 0)
    <3>1. s.brackets \in Int
      BY <1>4 DEF ScanState
    <3>2. brackets < e
      BY <1>4, <1>7, <2>2, <3>1
    <3>3. c = "lbrace" => brackets # 0
      BY <1>4, <1>8, <2>2, <3>1
    <3> HIDE DEF brackets
    <3>4. Look(s, c).verdict = "none" \/ (Look(s, c).verdict = "open" /\ Look(s, c).brackets = brackets)
      BY <2>2, <3>3 DEF Look, brackets
    <3>5. QED
      BY <3>2, <3>4
  <2>3. QED
    BY <1>9, <2>1, <2>2
<1>11. QED
  BY <1>5, <1>6, <1>10 DEF Dead

\* A name that is read now is one that the search copes with.
LEMMA SoundGrows ==
  ASSUME PlaceInv, NEW item \in Items, NEW j \in 0..(Len(item.chars) - 1), Within(item, j),
         ReadText(item, j), Text(item.chars)[j + 1] # "rbrace", NEW before \in Int, before = Len(buf) - j
  PROVE  Sound(Text(item.chars), j + 1, before)'
<1>1. PICK text : text = Text(item.chars)
  OBVIOUS
<1>2. /\ text \in Seq(Char) /\ Len(text) = Len(item.chars) /\ Len(text) \in Nat /\ j \in Nat
      /\ j \in 0..(Len(text) - 1) /\ j + 1 \in 1..Len(text) /\ text[j + 1] \in Char
      /\ buf \in Seq(Char) /\ Len(buf) \in Nat /\ Len(buf) = before + j
  <2>1. text \in Seq(Char) /\ Len(text) = Len(item.chars)
    BY <1>1, ItemTyped
  <2>2. buf \in Seq(Char)
    BY DEF PlaceInv
  <2>3. QED
    BY <2>1, <2>2
<1>3. PICK c : c = text[j + 1]
  OBVIOUS
<1>4. buf' = Append(buf, c) /\ UNCHANGED <<symbNum, lineNum, functions, defs, odd, hidden>> /\ c \in Char
  BY <1>1, <1>2, <1>3 DEF ReadText
<1>5. InBuf(text, j, before) /\ Sound(text, j, before) /\ item.odd \subseteq odd /\ Places(item, j)
  BY <1>1 DEF Within
<1>6. PICK m : m = Len(buf) + 1
  OBVIOUS
<1>7. /\ Len(buf') = m /\ buf'[m] = c /\ DOMAIN buf' = 1..m /\ m \in Nat /\ m > before /\ m - before = j + 1
      /\ \A n \in DOMAIN buf' : n # m => n \in DOMAIN buf
  <2>1. /\ buf' \in Seq(Char) /\ Len(buf') = Len(buf) + 1 /\ buf'[Len(buf) + 1] = c
    BY <1>2, <1>4, AppendProperties
  <2>2. DOMAIN buf' = 1..Len(buf') /\ DOMAIN buf = 1..Len(buf)
    BY <1>2, <2>1
  <2>3. QED
    BY <1>2, <1>6, <2>1, <2>2
<1>8. Balanced(text)
  BY <1>1, ItemTyped DEF Regular
<1>9. ASSUME NEW n \in DOMAIN buf', n # m, Word(n)'
      PROVE  \/ InDefs(n)'
             \/ n > before /\ Harmless(text, n - before)
             \/ n <= before /\ Dead(n, Balance(SubSeq(text, 1, j + 1)))'
  <2>1. n \in DOMAIN buf
    BY <1>7, <1>9
  <2>2. Word(n) /\ (InDefs(n)' <=> InDefs(n))
    BY <1>2, <1>4, <1>9, <2>1, ChunkGrows
  <2>3. n <= before /\ Dead(n, Balance(SubSeq(text, 1, j))) => Dead(n, Balance(SubSeq(text, 1, j + 1)))'
    BY <1>2, <1>3, <1>4, <1>5, <1>8, <2>1, DeadStays
  <2>4. QED
    BY <1>5, <2>1, <2>2, <2>3 DEF Sound
<1>10. ASSUME Word(m)'
       PROVE  InDefs(m)' \/ Harmless(text, m - before)
  <2>1. c \in Function \ item.odd /\ StartsWord(buf', m)
    BY <1>4, <1>5, <1>7, <1>10 DEF Word
  <2>2. MayStartWord(text, j + 1)
    BY <1>2, <1>3, <1>4, <1>5, <1>6, <2>1, WordsAgree
  <2>3. (c \in DOMAIN item.defines /\ j + 1 = item.defines[c] + 1) \/ Harmless(text, j + 1)
    <3>1. \A k \in DOMAIN text :
            text[k] \in Function \ item.odd /\ MayStartWord(text, k) =>
              \/ text[k] \in DOMAIN item.defines /\ k = item.defines[text[k]] + 1
              \/ Harmless(text, k)
      BY <1>1, ItemTyped DEF Regular
    <3>2. j + 1 \in DOMAIN text
      BY <1>2
    <3>3. QED
      BY <1>3, <2>1, <2>2, <3>1, <3>2
  <2>4. ASSUME c \in DOMAIN item.defines, j + 1 = item.defines[c] + 1 PROVE InDefs(m)'
    <3>1. item.defines[c] = j
      <4>1. item.defines[c] \in Nat
        BY <2>4, ItemTyped DEF Regular
      <4>2. QED
        BY <1>2, <2>4, <4>1
    <3>2. PICK l : l = Newlines(SubSeq(item.chars, 1, j))
      OBVIOUS
    <3>3. <<c, <<pos - j + j, line - l + l>>>> \in defs
      BY <1>5, <2>1, <2>4, <3>1, <3>2 DEF Places
    <3>4. l \in Nat
      <4>1. item.chars \in Seq(Char) /\ \A i \in 1..j : item.chars[i] \in Char
        BY <1>2, ItemTyped
      <4>2. SubSeq(item.chars, 1, j) \in Seq(Char)
        BY <1>2, <4>1, SubSeqProperties
      <4>3. QED
        BY <3>2, <4>2, NewlinesType
    <3>5. pos - j + j = pos /\ line - l + l = line
      BY <1>2, <3>4 DEF PlaceInv
    <3>6. ~done
      BY DEF Within
    <3>7. Place(buf', m) = <<pos, line>>
      <4>1. SubSeq(buf', 1, m - 1) = buf
        BY <1>2, <1>4, <1>6, AppendProperties
      <4>2. symbNum + m - 1 = pos
        BY <1>2, <1>6, <3>6 DEF PlaceInv
      <4>3. lineNum + Newlines(buf) = line
        BY <3>6 DEF PlaceInv
      <4>4. QED
        BY <4>1, <4>2, <4>3 DEF Place
    <3>8. <<c, Place(buf', m)>> \in defs
      BY <3>3, <3>5, <3>7
    <3>9. Place(buf, m)' = Place(buf', m)
      BY <1>4 DEF Place, Newlines, Spelled
    <3>10. QED
      BY <1>4, <1>7, <3>8, <3>9 DEF InDefs
  <2>5. QED
    BY <1>7, <2>3, <2>4
<1>11. \A n \in DOMAIN buf' : Word(n)' =>
         \/ InDefs(n)'
         \/ n > before /\ Harmless(text, n - before)
         \/ n <= before /\ Dead(n, Balance(SubSeq(text, 1, j + 1)))'
  BY <1>7, <1>9, <1>10
<1>12. QED
  BY <1>1, <1>11 DEF Sound

\* What leads to a body is followed by it in its item.
LEMMA DefinesLeads ==
  ASSUME NEW item \in Items, NEW f \in DOMAIN item.defines
  PROVE  /\ f \in Function /\ item.defines[f] \in Nat
         /\ f \notin item.odd => Leads(Text(item.chars), item.defines[f] + 1, f)
<1>1. Regular(item)
  BY ItemTyped
<1>2. QED
  BY <1>1 DEF Regular

\* A definition that is read becomes a name that is found.
LEMMA CompleteGrows ==
  ASSUME PlaceInv, NEW item \in Items, NEW j \in 0..(Len(item.chars) - 1), Within(item, j),
         ReadText(item, j), Text(item.chars)[j + 1] # "rbrace", NEW before \in Int, before = Len(buf) - j
  PROVE  Complete(item, j + 1, before)'
<1>1. PICK text : text = Text(item.chars)
  OBVIOUS
<1>2. /\ text \in Seq(Char) /\ Len(text) = Len(item.chars) /\ Len(text) \in Nat /\ j \in Nat
      /\ j \in 0..(Len(text) - 1) /\ j + 1 \in 1..Len(text) /\ text[j + 1] \in Char
      /\ buf \in Seq(Char) /\ Len(buf) \in Nat /\ Len(buf) = before + j
  <2>1. text \in Seq(Char) /\ Len(text) = Len(item.chars)
    BY <1>1, ItemTyped
  <2>2. buf \in Seq(Char)
    BY DEF PlaceInv
  <2>3. QED
    BY <2>1, <2>2
<1>3. PICK c : c = text[j + 1]
  OBVIOUS
<1>4. /\ buf' = Append(buf, c) /\ UNCHANGED <<symbNum, lineNum, functions, defs, odd, hidden>> /\ c \in Char
      /\ c # "rbrace"
  BY <1>1, <1>2, <1>3 DEF ReadText
<1>5. InBuf(text, j, before) /\ Complete(item, j, before) /\ item.odd \subseteq odd
  BY <1>1 DEF Within
<1>6. PICK m : m = Len(buf) + 1
  OBVIOUS
<1>7. /\ buf' \in Seq(Char) /\ Len(buf') = m /\ buf'[m] = c /\ DOMAIN buf' = 1..m /\ m \in 1..m
      /\ \A n \in DOMAIN buf' : n # m => n \in DOMAIN buf /\ buf'[n] = buf[n]
  <2>1. /\ buf' \in Seq(Char) /\ Len(buf') = Len(buf) + 1 /\ buf'[Len(buf) + 1] = c
        /\ \A i \in 1..Len(buf) : buf'[i] = buf[i]
    BY <1>2, <1>4, AppendProperties
  <2>2. DOMAIN buf' = 1..Len(buf') /\ DOMAIN buf = 1..Len(buf)
    BY <1>2, <2>1
  <2>3. QED
    BY <1>2, <1>6, <2>1, <2>2
<1>8. ASSUME NEW d \in defs
      PROVE  \/ Settled(d[1])' \/ Held(d[1])'
             \/ Ahead(item, j + 1, d[1])' \/ Begun(item, j + 1, before, d[1])'
  <2>1. PICK f : f = d[1]
    OBVIOUS
  <2>2. ASSUME Settled(f) PROVE Settled(f)'
    BY <1>4, <2>2 DEF Settled
  <2>3. ASSUME Held(f) PROVE Held(f)'
    BY <1>2, <1>4, <2>3, HeldStays
  <2>4. ASSUME Ahead(item, j, f), f \notin odd PROVE Ahead(item, j + 1, f)' \/ Begun(item, j + 1, before, f)'
    <3>1. f \in DOMAIN item.defines /\ j <= item.defines[f] /\ Spelled(buf, f) = {}
      BY <2>4 DEF Ahead
    <3>2. PICK k : k = item.defines[f] + 1
      OBVIOUS
    <3>3. /\ k \in 2..Len(text) /\ text[k] = f /\ \A i \in 1..(k - 1) : text[i] # f
          /\ MayStartWord(text, k) /\ item.defines[f] \in Nat
      <4>1. Leads(text, k, f) /\ item.defines[f] \in Nat
        BY <1>1, <1>5, <2>4, <3>1, <3>2, DefinesLeads
      <4>2. QED
        BY <4>1 DEF Leads
    <3>4. CASE j = item.defines[f]
      <4>1. c = f /\ j >= 1 /\ j + 1 = k
        BY <1>2, <1>3, <3>2, <3>3, <3>4
      <4>2. \A n \in DOMAIN buf' : buf'[n] = f => n = m
        <5>1. \A n \in DOMAIN buf : buf[n] # f
          BY <3>1 DEF Spelled
        <5>2. QED
          BY <1>7, <5>1
      <4>3. Spelled(buf', f) # {} /\ m = First(buf', f)
        <5>1. m \in DOMAIN buf' /\ buf'[m] = f
          BY <1>7, <4>1
        <5>2. Spelled(buf', f) # {}
          BY <5>1 DEF Spelled
        <5>3. \A n \in DOMAIN buf' : buf'[n] = f => m <= n
          BY <1>2, <1>6, <4>2
        <5>4. QED
          BY <1>7, <5>1, <5>2, <5>3, FirstIsLeast
      <4>4. StartsWord(buf', m)
        BY <1>2, <1>3, <1>4, <1>5, <1>6, <3>3, <4>1, WordsAgree
      <4>5. j + 1 > item.defines[f] /\ m = before + item.defines[f] + 1
        BY <1>2, <1>6, <3>4
      <4>6. Begun(item, j + 1, before, f)'
        BY <3>1, <4>3, <4>4, <4>5 DEF Begun
      <4>7. QED
        BY <4>6
    <3>5. CASE j # item.defines[f]
      <4>1. j + 1 <= item.defines[f] /\ j + 1 \in 1..(k - 1)
        BY <1>2, <3>1, <3>2, <3>3, <3>5
      <4>2. c # f
        BY <1>3, <3>3, <4>1
      <4>3. Spelled(buf', f) = {}
        <5>1. \A n \in DOMAIN buf : buf[n] # f
          BY <3>1 DEF Spelled
        <5>2. \A n \in DOMAIN buf' : buf'[n] # f
          BY <1>7, <4>2, <5>1
        <5>3. QED
          BY <5>2 DEF Spelled
      <4>4. Ahead(item, j + 1, f)'
        BY <3>1, <4>1, <4>3 DEF Ahead
      <4>5. QED
        BY <4>4
    <3>6. QED
      BY <3>4, <3>5
  <2>5. ASSUME Begun(item, j, before, f) PROVE Begun(item, j + 1, before, f)'
    <3>1. /\ f \in DOMAIN item.defines /\ j > item.defines[f] /\ Spelled(buf, f) # {}
          /\ First(buf, f) = before + item.defines[f] + 1 /\ StartsWord(buf, First(buf, f))
      BY <2>5 DEF Begun
    <3>2. Spelled(buf, f)' # {} /\ First(buf, f)' = First(buf, f) /\ First(buf, f) \in DOMAIN buf
      BY <1>2, <1>4, <3>1, FirstStays
    <3>3. PICK n : n = First(buf, f)
      OBVIOUS
    <3>4. n \in DOMAIN buf /\ StartsWord(buf, n)
      BY <3>1, <3>2, <3>3
    <3>5. StartsWord(buf', n)
      <4>1. StartsWord(buf, n)' <=> StartsWord(buf, n)
        BY <1>2, <1>4, <3>4, ChunkGrows
      <4>2. QED
        BY <3>4, <4>1 DEF StartsWord
    <3>6. First(buf', f) = n /\ Spelled(buf', f) # {}
      BY <3>2, <3>3 DEF First, Spelled
    <3>7. j + 1 > item.defines[f]
      BY <1>2, <3>1, DefinesLeads
    <3>8. QED
      BY <3>1, <3>3, <3>5, <3>6, <3>7 DEF Begun
  <2>6. f \in odd => Settled(f)
    BY DEF Settled
  <2>7. Settled(f) \/ Held(f) \/ Ahead(item, j, f) \/ Begun(item, j, before, f)
    BY <1>5, <2>1 DEF Complete
  <2>8. \/ Settled(f)' \/ Held(f)'
        \/ Ahead(item, j + 1, f)' \/ Begun(item, j + 1, before, f)'
    BY <2>2, <2>3, <2>4, <2>5, <2>6, <2>7
  <2>9. QED
    BY <2>1, <2>8
<1>9. defs' = defs
  BY <1>4
<1>10. QED
  BY <1>8, <1>9 DEF Complete

\* The names of a chunk are the names of the items it has text of.
LEMMA NamesGrow ==
  ASSUME PlaceInv, NEW item \in Items, NEW j \in 0..(Len(item.chars) - 1), Within(item, j),
         ReadText(item, j), Text(item.chars)[j + 1] # "rbrace"
  PROVE  NamesSeen(item, Text(item.chars), j + 1)'
<1>1. PICK text : text = Text(item.chars)
  OBVIOUS
<1>2. PICK c : c = text[j + 1]
  OBVIOUS
<1>3. /\ text \in Seq(Char) /\ Len(text) = Len(item.chars) /\ Len(text) \in Nat /\ j \in Nat
      /\ j + 1 \in 1..Len(text) /\ DOMAIN text = 1..Len(text) /\ c \in Char /\ buf \in Seq(Char)
  <2>1. text \in Seq(Char) /\ Len(text) = Len(item.chars)
    BY <1>1, ItemTyped
  <2>2. buf \in Seq(Char)
    BY DEF PlaceInv
  <2>3. QED
    BY <1>2, <2>1, <2>2
<1>4. buf' = Append(buf, c) /\ named' = named /\ c # "rbrace"
  BY <1>1, <1>2 DEF ReadText
<1>5. /\ \/ item.closes /\ \E i \in (j + 1)..Len(text) : text[i] = "rbrace"
         \/ \A n \in DOMAIN buf : buf[n] \in Function => buf[n] \in named
      /\ item.closes \/ item.names \subseteq named
  BY <1>1 DEF Within, NamesSeen
<1>6. NamesKept(item, text)
  BY <1>1, ItemTyped DEF Regular
<1>7. \A n \in DOMAIN buf' : (n \in DOMAIN buf /\ buf'[n] = buf[n]) \/ buf'[n] = c
  BY <1>3, <1>4, AppendProperties
<1>8. CASE item.closes /\ \E i \in (j + 1)..Len(text) : text[i] = "rbrace"
  <2>1. PICK i \in (j + 1)..Len(text) : text[i] = "rbrace"
    BY <1>8
  <2>2. i # j + 1
    BY <1>2, <1>4, <2>1
  <2>3. i \in (j + 1 + 1)..Len(text)
    BY <1>3, <2>2
  <2>4. QED
    BY <1>1, <1>8, <2>1, <2>3 DEF NamesSeen
<1>9. CASE item.closes /\ ~ \E i \in (j + 1)..Len(text) : text[i] = "rbrace"
  <2>1. PICK q \in DOMAIN text : text[q] = "rbrace" /\ \A k \in (q + 1)..Len(text) : text[k] \notin Function
    BY <1>6, <1>9 DEF NamesKept
  <2>2. q \in Nat /\ q <= Len(text) /\ ~ (q \in (j + 1)..Len(text))
    BY <1>3, <1>9, <2>1
  <2>3. j + 1 \in (q + 1)..Len(text)
    BY <1>3, <2>2
  <2>4. c \notin Function
    BY <1>2, <2>1, <2>3
  <2>5. \A n \in DOMAIN buf' : buf'[n] \in Function => buf'[n] \in named'
    BY <1>4, <1>5, <1>7, <1>9, <2>4
  <2>6. QED
    BY <2>5 DEF NamesSeen
<1>10. CASE ~item.closes
  <2>1. c \in Function => c \in named
    BY <1>2, <1>3, <1>5, <1>6, <1>10 DEF NamesKept
  <2>2. \A n \in DOMAIN buf' : buf'[n] \in Function => buf'[n] \in named'
    BY <1>4, <1>5, <1>7, <1>10, <2>1
  <2>3. QED
    BY <2>2 DEF NamesSeen
<1>11. QED
  BY <1>8, <1>9, <1>10

\* The places of the definitions, seen from one character further.
LEMMA PlacesGrow ==
  ASSUME PlaceInv, NEW item \in Items, NEW j \in 0..(Len(item.chars) - 1), Within(item, j), ReadText(item, j)
  PROVE  Places(item, j + 1)'
<1>1. PICK chars : chars = item.chars
  OBVIOUS
<1>2. chars \in Seq(Char) /\ Len(chars) \in Nat /\ j \in 0..(Len(chars) - 1) /\ j \in Nat
  BY <1>1, ItemTyped
<1>3. PICK l : l = Newlines(SubSeq(chars, 1, j))
  OBVIOUS
<1>4. PICK l1 : l1 = Newlines(SubSeq(chars, 1, j + 1))
  OBVIOUS
<1>5. /\ l \in Nat /\ chars[j + 1] \in Char
      /\ l1 = l + IF chars[j + 1] = "newline" THEN 1 ELSE 0
  <2>1. 1 \in 1..(Len(chars) + 1) /\ 1 <= j + 1
    BY <1>2
  <2>2. /\ SubSeq(chars, 1, j) \in Seq(Char) /\ chars[j + 1] \in Char
        /\ SubSeq(chars, 1, j + 1) = Append(SubSeq(chars, 1, j), chars[j + 1])
    BY <1>2, <2>1, PartGrows
  <2>3. Newlines(Append(SubSeq(chars, 1, j), chars[j + 1])) = l + IF chars[j + 1] = "newline" THEN 1 ELSE 0
    BY <1>3, <2>2, NewlinesAppend
  <2>4. QED
    BY <1>3, <1>4, <2>2, <2>3, NewlinesType
<1>6. /\ pos' = pos + 1 /\ line' = line + IF chars[j + 1] = "newline" THEN 1 ELSE 0
      /\ defs' = defs /\ pos \in Nat /\ line \in Nat
  BY <1>1 DEF ReadText, PlaceInv
<1>7. pos' - (j + 1) = pos - j /\ line' - l1 = line - l
  BY <1>2, <1>5, <1>6
<1>8. \A f \in DOMAIN item.defines \ item.odd :
        <<f, <<pos - j + item.defines[f], line - l + Newlines(SubSeq(chars, 1, item.defines[f]))>>>> \in defs
  BY <1>1, <1>3 DEF Within, Places
<1>9. \A f \in DOMAIN item.defines \ item.odd :
        <<f, <<pos' - (j + 1) + item.defines[f],
               line' - l1 + Newlines(SubSeq(chars, 1, item.defines[f]))>>>> \in defs'
  BY <1>6, <1>7, <1>8
<1>10. QED
  BY <1>1, <1>4, <1>9 DEF Places

\* A character that ends no chunk.
LEMMA ReadInChunk ==
  ASSUME PlaceInv, NEW item \in Items, NEW j \in 0..(Len(item.chars) - 1), Within(item, j),
         ReadText(item, j), Text(item.chars)[j + 1] # "rbrace"
  PROVE  Within(item, j + 1)'
<1>1. PICK before : before = Len(buf) - j
  OBVIOUS
<1>2. PICK text : text = Text(item.chars)
  OBVIOUS
<1>3. /\ text \in Seq(Char) /\ Len(text) = Len(item.chars) /\ j \in 0..(Len(text) - 1) /\ j \in Nat
      /\ j + 1 \in 1..Len(text) /\ text[j + 1] \in Char
      /\ buf \in Seq(Char) /\ Len(buf) \in Nat /\ before \in Int /\ Len(buf) = before + j
  <2>1. text \in Seq(Char) /\ Len(text) = Len(item.chars)
    BY <1>2, ItemTyped
  <2>2. buf \in Seq(Char)
    BY DEF PlaceInv
  <2>3. QED
    BY <1>1, <2>1, <2>2
<1>4. buf' = Append(buf, text[j + 1]) /\ UNCHANGED <<symbNum, lineNum, functions, done, defs, named, hidden, odd>>
  BY <1>2 DEF ReadText
<1>5. before = Len(buf') - (j + 1)
  BY <1>1, <1>3, <1>4, AppendProperties
<1>6. InBuf(text, j + 1, before)'
  <2>1. InBuf(text, j, before)
    BY <1>1, <1>2 DEF Within
  <2>2. QED
    BY <1>2, <1>3, <1>4, <2>1, InBufGrows
<1>7. Sound(text, j + 1, before)'
  BY <1>1, <1>2, <1>3, SoundGrows
<1>8. Complete(item, j + 1, before)'
  BY <1>1, <1>2, <1>3, CompleteGrows
<1>9. NamesSeen(item, text, j + 1)'
  BY <1>2, NamesGrow
<1>10. Places(item, j + 1)'
  BY PlacesGrow
<1>11. /\ rest' = SubSeq(item.chars, j + 1 + 1, Len(item.chars)) /\ ~done'
       /\ mode' = Lexed(item.chars)[j + 1].mode /\ directive' = Lexed(item.chars)[j + 1].directive
  <2>1. j + 2 = j + 1 + 1
    BY <1>3
  <2>2. QED
    BY <1>4, <2>1 DEF ReadText, Within
<1>12. FoundRight' /\ DefsNamed' /\ item.odd \subseteq odd' /\ (item.closes \/ item.names \subseteq named')
  BY <1>4 DEF Within, FoundRight, DefsNamed
<1> HIDE DEF InBuf, Sound, Complete, NamesSeen, Places, FoundRight, DefsNamed
<1>13. QED
  BY <1>2, <1>5, <1>6, <1>7, <1>8, <1>9, <1>10, <1>11, <1>12 DEF Within

\* The end of a chunk: what it holds is found, and what is found is a definition.
LEMMA ChunkFinds ==
  ASSUME buf \in Seq(Char), Chunk(buf), FoundRight, UNCHANGED <<defs, odd>>,
         \A n \in DOMAIN buf : Word(n) /\ Seen(n).verdict = "body" => InDefs(n)
  PROVE  /\ FoundRight'
         /\ DOMAIN functions \subseteq DOMAIN functions'
         /\ \A f \in Function : Held(f) => f \in DOMAIN functions'
<1> DEFINE new == {f \in Function : Found(buf, f)}
<1>1. functions' = [f \in DOMAIN functions \cup new |->
                      IF f \in new THEN Place(buf, First(buf, f)) ELSE functions[f]]
  BY DEF Chunk, Search
<1>2. ASSUME NEW f \in DOMAIN functions' \ odd PROVE <<f, functions'[f]>> \in defs
  <2>1. CASE f \in new
    <3>1. PICK n : n = First(buf, f)
      OBVIOUS
    <3>2. /\ f \in Function /\ Spelled(buf, f) # {} /\ StartsWord(buf, n) /\ HasBody(buf, n)
          /\ functions'[f] = Place(buf, n)
      BY <1>1, <2>1, <3>1 DEF Found
    <3>3. n \in DOMAIN buf /\ buf[n] = f
      BY <3>1, <3>2, FirstIsLeast
    <3>4. Word(n) /\ Seen(n).verdict = "body"
      BY <3>2, <3>3 DEF Word, HasBody, Seen
    <3>5. QED
      BY <3>2, <3>3, <3>4 DEF InDefs
  <2>2. CASE f \notin new
    BY <1>1, <2>2 DEF FoundRight
  <2>3. QED
    BY <2>1, <2>2
<1>3. DOMAIN functions' = DOMAIN functions \cup new
  BY <1>1
<1>4. \A f \in Function : Held(f) => f \in DOMAIN functions'
  BY <1>3 DEF Held, Found
<1>5. QED
  BY <1>2, <1>3, <1>4 DEF FoundRight

\* Within an item, what has a body in the chunk is a definition.
LEMMA BodiesAreDefined ==
  ASSUME PlaceInv, NEW item \in Items, NEW j \in 0..Len(item.chars), Within(item, j)
  PROVE  \A n \in DOMAIN buf : Word(n) /\ Seen(n).verdict = "body" => InDefs(n)
<1> SUFFICES ASSUME NEW n \in DOMAIN buf, Word(n), Seen(n).verdict = "body", ~InDefs(n)
             PROVE  FALSE
  OBVIOUS
<1>1. PICK text : text = Text(item.chars)
  OBVIOUS
<1>2. PICK before : before = Len(buf) - j
  OBVIOUS
<1>3. /\ text \in Seq(Char) /\ Len(text) = Len(item.chars) /\ j \in 0..Len(text) /\ before \in Int
      /\ buf \in Seq(Char) /\ Len(buf) = before + j /\ n \in 1..Len(buf)
  <2>1. text \in Seq(Char) /\ Len(text) = Len(item.chars)
    BY <1>1, ItemTyped
  <2>2. buf \in Seq(Char)
    BY DEF PlaceInv
  <2>3. QED
    BY <1>2, <2>1, <2>2
<1>4. InBuf(text, j, before) /\ Sound(text, j, before)
  BY <1>1, <1>2 DEF Within
<1>5. n > before /\ Harmless(text, n - before)
  BY <1>4 DEF Sound, Dead
<1>6. /\ n - before \in 1..j /\ OneChunk(text, n - before, j)
      /\ SubSeq(buf, n + 1, Len(buf)) = SubSeq(text, n - before + 1, j)
  BY <1>3, <1>4, <1>5, ChunkIsText
<1>7. j \in (n - before)..Len(text)
  BY <1>3, <1>6
<1>8. Scan(SubSeq(text, n - before + 1, j)).verdict # "body"
  BY <1>5, <1>6, <1>7 DEF Harmless
<1>9. QED
  BY <1>6, <1>8 DEF Seen

\* A brace that ends a chunk.
LEMMA ReadEndsChunk ==
  ASSUME PlaceInv, NEW item \in Items, NEW j \in 0..(Len(item.chars) - 1), Within(item, j),
         ReadText(item, j), Text(item.chars)[j + 1] = "rbrace"
  PROVE  Within(item, j + 1)'
<1>1. PICK text : text = Text(item.chars)
  OBVIOUS
<1>2. PICK before : before = Len(buf) - j
  OBVIOUS
<1>3. /\ text \in Seq(Char) /\ Len(text) = Len(item.chars) /\ j \in 0..Len(text) /\ j \in Nat
      /\ j + 1 \in 1..Len(text) /\ text[j + 1] = "rbrace" /\ buf \in Seq(Char)
  <2>1. text \in Seq(Char) /\ Len(text) = Len(item.chars)
    BY <1>1, ItemTyped
  <2>2. buf \in Seq(Char)
    BY DEF PlaceInv
  <2>3. QED
    BY <1>1, <2>1, <2>2
<1>4. Chunk(buf) /\ buf' = <<>> /\ UNCHANGED <<done, defs, named, hidden, odd>>
  BY <1>1 DEF ReadText
<1>5. /\ FoundRight' /\ DOMAIN functions \subseteq DOMAIN functions'
      /\ \A f \in Function : Held(f) => f \in DOMAIN functions'
  <2>1. FoundRight /\ j \in 0..Len(item.chars)
    BY <1>3 DEF Within
  <2>2. \A n \in DOMAIN buf : Word(n) /\ Seen(n).verdict = "body" => InDefs(n)
    BY <2>1, BodiesAreDefined
  <2>3. QED
    BY <1>3, <1>4, <2>1, <2>2, ChunkFinds
<1>6. PICK after : after = Len(buf') - (j + 1)
  OBVIOUS
<1>7. Len(buf') = 0 /\ DOMAIN buf' = {} /\ after + (j + 1) = 0 /\ after \in Int
  BY <1>3, <1>4, <1>6
<1>8. InBuf(text, j + 1, after)'
  <2>1. ASSUME NEW i \in 1..(j + 1)
        PROVE  ~OneChunk(text, i, j + 1) /\ after + i <= 0
    <3>1. j + 1 \in i..(j + 1) /\ after + i <= 0
      BY <1>3, <1>7
    <3>2. QED
      BY <1>3, <3>1 DEF OneChunk
  <2>2. QED
    BY <2>1 DEF InBuf
<1>9. Sound(text, j + 1, after)'
  BY <1>7 DEF Sound
<1>10. ASSUME NEW d \in defs PROVE Settled(d[1])' \/ Ahead(item, j + 1, d[1])'
  <2>1. PICK f : f = d[1]
    OBVIOUS
  <2>2. f \in Function /\ item.odd \subseteq odd
    BY <2>1 DEF Within, DefsNamed
  <2>3. Settled(f) => Settled(f)'
    BY <1>4, <1>5 DEF Settled
  <2>4. Held(f) => Settled(f)'
    BY <1>5, <2>2 DEF Settled
  <2>5. f \in odd => Settled(f)'
    BY <1>4 DEF Settled
  <2>6. ASSUME Ahead(item, j, f), f \notin odd PROVE Ahead(item, j + 1, f)'
    <3>1. f \in DOMAIN item.defines /\ j <= item.defines[f]
      BY <2>6 DEF Ahead
    <3>2. Leads(text, item.defines[f] + 1, f) /\ item.defines[f] \in Nat
      BY <1>1, <2>2, <2>6, <3>1, DefinesLeads
    <3>3. f # "rbrace"
      BY <2>2, CodeParserAssumption DEF Punctuation
    <3>4. text[item.defines[f] + 1] = f
      BY <3>2 DEF Leads
    <3>5. j + 1 <= item.defines[f]
      BY <1>3, <3>1, <3>2, <3>3, <3>4
    <3>6. Spelled(buf', f) = {}
      BY <1>7 DEF Spelled
    <3>7. QED
      BY <3>1, <3>5, <3>6 DEF Ahead
  <2>7. ~Begun(item, j, before, f) \/ f \in odd
    <3> SUFFICES ASSUME Begun(item, j, before, f), f \notin odd PROVE FALSE
      OBVIOUS
    <3>1. f \in DOMAIN item.defines /\ j > item.defines[f]
      BY DEF Begun
    <3>2. Leads(text, item.defines[f] + 1, f) /\ item.defines[f] \in Nat
      BY <1>1, <2>2, <3>1, DefinesLeads
    <3>3. j + 1 \in (item.defines[f] + 1)..Len(text)
      BY <1>3, <3>1, <3>2
    <3>4. text[j + 1] # "rbrace"
      BY <3>2, <3>3 DEF Leads, OneChunk
    <3>5. QED
      BY <1>3, <3>4
  <2>8. Settled(f) \/ Held(f) \/ Ahead(item, j, f) \/ Begun(item, j, before, f)
    BY <1>2, <2>1 DEF Within, Complete
  <2>9. Settled(f)' \/ Ahead(item, j + 1, f)'
    BY <2>3, <2>4, <2>5, <2>6, <2>7, <2>8
  <2>10. QED
    BY <2>1, <2>9
<1>11. Complete(item, j + 1, after)'
  BY <1>4, <1>10 DEF Complete
<1>12. NamesSeen(item, text, j + 1)'
  BY <1>7 DEF NamesSeen
<1>13. Places(item, j + 1)'
  BY PlacesGrow
<1>14. /\ rest' = SubSeq(item.chars, j + 1 + 1, Len(item.chars)) /\ ~done'
       /\ mode' = Lexed(item.chars)[j + 1].mode /\ directive' = Lexed(item.chars)[j + 1].directive
  <2>1. j + 2 = j + 1 + 1
    BY <1>3
  <2>2. ~done'
    BY <1>4 DEF Within
  <2>3. rest' = SubSeq(item.chars, j + 2, Len(item.chars))
    BY DEF ReadText
  <2>4. mode' = Lexed(item.chars)[j + 1].mode /\ directive' = Lexed(item.chars)[j + 1].directive
    BY DEF ReadText
  <2>5. QED
    BY <2>1, <2>2, <2>3, <2>4
<1>15. DefsNamed' /\ item.odd \subseteq odd' /\ (item.closes \/ item.names \subseteq named')
  BY <1>4 DEF Within, DefsNamed
<1> HIDE DEF InBuf, Sound, Complete, NamesSeen, Places, FoundRight, DefsNamed
<1>16. QED
  BY <1>1, <1>5, <1>6, <1>8, <1>9, <1>11, <1>12, <1>13, <1>14, <1>15 DEF Within

\* At the end of an item it is as it was before: what follows is another item.
LEMMA EndOfItem ==
  ASSUME PlaceInv, NEW item \in Items, NEW j \in 0..Len(item.chars), Within(item, j), rest = <<>>
  PROVE  Between
<1>1. PICK text : text = Text(item.chars)
  OBVIOUS
<1>2. PICK before : before = Len(buf) - j
  OBVIOUS
<1>3. j = Len(item.chars)
  <2> SUFFICES ASSUME j # Len(item.chars) PROVE FALSE
    OBVIOUS
  <2>1. PICK chars : chars = item.chars
    OBVIOUS
  <2>2. /\ chars \in Seq(Char) /\ Len(chars) \in Nat /\ rest = SubSeq(chars, j + 1, Len(chars))
        /\ j \in 0..(Len(chars) - 1)
    BY <2>1, ItemTyped DEF Within
  <2>3. \A i \in (j + 1)..Len(chars) : chars[i] \in Char
    BY <2>2
  <2>4. PICK n \in Nat : n = Len(chars)
    BY <2>2
  <2>5. PICK m \in Nat : m = j + 1
    BY <2>2
  <2>6. m >= 1 /\ m <= n /\ j = m - 1
    BY <2>2, <2>4, <2>5
  <2>7. Len(SubSeq(chars, m, n)) = n - m + 1
    BY <2>2, <2>3, <2>4, <2>5, <2>6, SubSeqProperties
  <2>8. n - m + 1 # 0
    BY <2>6
  <2>9. SubSeq(chars, m, n) = <<>> /\ Len(<<>>) = 0
    BY <2>2, <2>4, <2>5
  <2>10. QED
    BY <2>7, <2>8, <2>9
<1>4. /\ text \in Seq(Char) /\ Len(text) = Len(item.chars) /\ j = Len(text) /\ j \in Nat /\ j \in 0..Len(text)
      /\ before \in Int /\ buf \in Seq(Char) /\ Len(buf) = before + j /\ DOMAIN buf = 1..Len(buf)
  <2>1. text \in Seq(Char) /\ Len(text) = Len(item.chars)
    BY <1>1, ItemTyped
  <2>2. buf \in Seq(Char)
    BY DEF PlaceInv
  <2>3. QED
    BY <1>2, <1>3, <2>1, <2>2
<1>5. /\ InBuf(text, j, before) /\ Sound(text, j, before) /\ Complete(item, j, before)
      /\ NamesSeen(item, text, j) /\ item.odd \subseteq odd
  BY <1>1, <1>2 DEF Within
<1>6. Regular(item)
  BY ItemTyped
<1>7. mode = "code" /\ ~directive
  BY <1>3, <1>6 DEF Within, Regular
<1>8. ASSUME NEW n \in DOMAIN buf, Word(n) PROVE InDefs(n) \/ Dead(n, 0)
  <2>1. Seen(n) \in ScanState
    BY <1>4, SeenTyped
  <2>2. CASE n > before /\ Harmless(text, n - before)
    <3>1. /\ n - before \in 1..j /\ OneChunk(text, n - before, j)
          /\ SubSeq(buf, n + 1, Len(buf)) = SubSeq(text, n - before + 1, j)
      BY <1>4, <1>5, <2>2, ChunkIsText
    <3>2. j \in (n - before)..Len(text)
      BY <1>4, <3>1
    <3>3. Seen(n).verdict # "body" /\ (Seen(n).verdict = "none" \/ Seen(n).brackets < 0)
      BY <1>4, <2>2, <3>1, <3>2 DEF Harmless, Seen
    <3>4. QED
      BY <2>1, <3>3 DEF Dead, ScanState
  <2>3. CASE n <= before /\ Dead(n, Balance(SubSeq(text, 1, j)))
    <3>1. before >= 1
      BY <1>4, <2>3
    <3>2. OneChunk(text, 1, j)
      BY <1>4, <1>5, <3>1, OldChunk
    <3>3. PICK b : b = Balance(SubSeq(text, 1, j))
      OBVIOUS
    <3>4. b <= 0
      <4>1. Balanced(text)
        BY <1>1, <1>6 DEF Regular
      <4>2. QED
        BY <1>4, <3>2, <3>3, <4>1 DEF Balanced
    <3>5. b \in Int
      <4>1. SubSeq(text, 1, j) = text
        BY <1>4
      <4>2. Cardinality(Spelled(text, "lparen")) \in Nat /\ Cardinality(Spelled(text, "rparen")) \in Nat
        BY <1>4, SpelledType
      <4>3. QED
        BY <3>3, <4>1, <4>2 DEF Balance
    <3>6. Dead(n, b)
      BY <2>3, <3>3
    <3>7. QED
      BY <2>1, <3>4, <3>5, <3>6 DEF Dead, ScanState
  <2>4. QED
    BY <1>5, <1>8, <2>2, <2>3 DEF Sound
<1>9. ASSUME NEW d \in defs PROVE Settled(d[1]) \/ Held(d[1])
  <2>1. PICK f : f = d[1]
    OBVIOUS
  <2>2. f \in odd => Settled(f)
    BY DEF Settled
  <2>3. f \in DOMAIN item.defines /\ f \notin odd => Leads(text, item.defines[f] + 1, f) /\ item.defines[f] \in Nat
    BY <1>1, <1>5, DefinesLeads
  <2>4. Ahead(item, j, f) => f \in odd
    <3> SUFFICES ASSUME Ahead(item, j, f), f \notin odd PROVE FALSE
      OBVIOUS
    <3>1. j <= item.defines[f] /\ item.defines[f] + 1 \in 2..Len(text) /\ item.defines[f] \in Nat
      BY <2>3 DEF Ahead, Leads
    <3>2. QED
      BY <1>4, <3>1
  <2>5. ASSUME Begun(item, j, before, f), f \notin odd PROVE Held(f)
    <3>1. PICK n : n = First(buf, f)
      OBVIOUS
    <3>2. PICK k : k = item.defines[f] + 1
      OBVIOUS
    <3>3. /\ f \in DOMAIN item.defines /\ Spelled(buf, f) # {} /\ StartsWord(buf, n)
          /\ First(buf, f) = before + item.defines[f] + 1
      BY <2>5, <3>1 DEF Begun
    <3>4. n \in DOMAIN buf
      BY <1>4, <3>1, <3>3, FirstIsLeast
    <3>5. Leads(text, k, f) /\ k \in Nat /\ k >= 1 /\ n - before = k /\ n > before
      BY <1>4, <2>3, <2>5, <3>1, <3>2, <3>3
    <3>6. SubSeq(buf, n + 1, Len(buf)) = SubSeq(text, k + 1, j)
      <4>1. SubSeq(buf, n + 1, Len(buf)) = SubSeq(text, n - before + 1, j)
        BY <1>4, <1>5, <3>4, <3>5, ChunkIsText
      <4>2. QED
        BY <3>5, <4>1
    <3>7. HasBody(buf, n)
      BY <1>4, <3>5, <3>6 DEF Leads, HasBody
    <3>8. QED
      BY <3>1, <3>3, <3>7 DEF Held
  <2>6. Settled(f) \/ Held(f) \/ Ahead(item, j, f) \/ Begun(item, j, before, f)
    BY <1>5, <2>1 DEF Complete
  <2>7. Settled(f) \/ Held(f)
    BY <2>2, <2>4, <2>5, <2>6
  <2>8. QED
    BY <2>1, <2>7
<1>10. \A n \in DOMAIN buf : buf[n] \in Function => buf[n] \in named
  <2>1. \A i \in (j + 1)..Len(text) : FALSE
    BY <1>4
  <2>2. QED
    BY <1>5, <2>1 DEF NamesSeen
<1>11. FoundRight /\ DefsNamed /\ ~done
  BY DEF Within
<1>12. QED
  BY <1>7, <1>8, <1>9, <1>10, <1>11 DEF Between

\* The author writes an item: its definitions are ahead.
LEMMA WriteKeeps ==
  ASSUME PlaceInv, Between, NEW item \in Items, Write(item)
  PROVE  Within(item, 0)'
<1>1. PICK text : text = Text(item.chars)
  OBVIOUS
<1>2. /\ text \in Seq(Char) /\ Len(text) = Len(item.chars) /\ Len(text) \in Nat
      /\ item.chars \in Seq(Char) /\ Regular(item)
  BY <1>1, ItemTyped
<1>3. buf \in Seq(Char) /\ pos \in Nat /\ line \in Nat /\ Len(buf) \in Nat /\ DOMAIN buf = 1..Len(buf)
  BY DEF PlaceInv
<1>4. /\ UNCHANGED <<buf, symbNum, lineNum, functions, done, pos, line, mode, directive>> /\ ~done
      /\ rest' = item.chars /\ odd' = odd \cup item.odd
      /\ hidden' = hidden \cup (DOMAIN item.defines \cap named)
      /\ named' = IF item.closes THEN {} ELSE named \cup item.names
  BY DEF Write, searchVars, lexVars, c_lexer
<1>5. defs' = defs \cup {<<f, <<pos + item.defines[f],
                               line + Newlines(SubSeq(item.chars, 1, item.defines[f]))>>>> :
                          f \in DOMAIN item.defines}
  BY DEF Write
<1>6. PICK before : before = Len(buf') - 0
  OBVIOUS
<1>7. before = Len(buf) /\ before \in Nat
  BY <1>3, <1>4, <1>6
<1>8. /\ rest' = SubSeq(item.chars, 0 + 1, Len(item.chars)) /\ ~done'
      /\ mode' = Lexed(item.chars)[0].mode /\ directive' = Lexed(item.chars)[0].directive
  <2>1. SubSeq(item.chars, 0 + 1, Len(item.chars)) = item.chars
    BY <1>2
  <2>2. mode = "code" /\ ~directive
    BY DEF Between
  <2>3. Lexed(item.chars)[0] = [mode |-> "code", directive |-> FALSE]
    <3>1. PICK g : LexedAt(item.chars, Len(item.chars), g) /\ g = Lexed(item.chars)
      <4>1. Lexed(item.chars) = CHOOSE h : LexedAt(item.chars, Len(item.chars), h)
        BY DEF Lexed, LexedAt
      <4>2. \E h : LexedAt(item.chars, Len(item.chars), h)
        BY <1>2, LexedExists
      <4>3. QED
        BY <4>1, <4>2
    <3>2. 0 \in 0..Len(item.chars)
      BY <1>2
    <3>3. g[0] = [mode |-> "code", directive |-> FALSE]
      BY <3>1, <3>2 DEF LexedAt
    <3>4. QED
      BY <3>1, <3>3
  <2>4. directive = FALSE
    BY <2>2 DEF Between
  <2>5. QED
    <3>1. rest' = SubSeq(item.chars, 0 + 1, Len(item.chars)) /\ ~done'
      BY <1>4, <2>1
    <3>2. mode' = Lexed(item.chars)[0].mode
      BY <1>4, <2>2, <2>3
    <3>3. directive' = Lexed(item.chars)[0].directive
      <4>1. directive' = FALSE
        BY <1>4, <2>4, Zenon
      <4>2. [mode |-> "code", directive |-> FALSE].directive = FALSE
        OBVIOUS
      <4>3. Lexed(item.chars)[0].directive = FALSE
        BY <2>3, <4>2, Zenon
      <4>4. QED
        BY <4>1, <4>3, Zenon
    <3>4. QED
      BY <3>1, <3>2, <3>3
<1>9. FoundRight'
  BY <1>4, <1>5 DEF Between, FoundRight
<1>10. DefsNamed'
  <2>1. \A f \in DOMAIN item.defines : f \in Function
    BY DefinesLeads
  <2>2. QED
    BY <1>5, <2>1 DEF Between, DefsNamed
<1>11. Places(item, 0)'
  <2>1. SubSeq(item.chars, 1, 0) = <<>> /\ Newlines(SubSeq(item.chars, 1, 0)) = 0
    <3>1. SubSeq(item.chars, 1, 0) = <<>>
      BY NothingScanned
    <3>2. Spelled(<<>>, "newline") = {}
      BY DEF Spelled
    <3>3. QED
      BY <3>1, <3>2, FS_EmptySet DEF Newlines
  <2>2. ASSUME NEW f \in DOMAIN item.defines \ item.odd
        PROVE  <<f, <<pos' - 0 + item.defines[f],
                      line' - Newlines(SubSeq(item.chars, 1, 0))
                        + Newlines(SubSeq(item.chars, 1, item.defines[f]))>>>> \in defs'
    <3>1. pos' - 0 = pos /\ line' - Newlines(SubSeq(item.chars, 1, 0)) = line
      BY <1>3, <1>4, <2>1
    <3>2. QED
      BY <1>5, <3>1
  <2>3. QED
    BY <2>2 DEF Places
<1>12. InBuf(text, 0, before)'
  BY DEF InBuf
<1>13. Sound(text, 0, before)'
  <2>1. Balance(SubSeq(text, 1, 0)) = 0
    <3>1. SubSeq(text, 1, 0) = <<>>
      BY NothingScanned
    <3>2. Spelled(<<>>, "lparen") = {} /\ Spelled(<<>>, "rparen") = {}
      BY DEF Spelled
    <3>3. Balance(<<>>) = 0 - 0
      BY <3>2, FS_EmptySet DEF Balance
    <3>4. Balance(SubSeq(text, 1, 0)) = Balance(<<>>)
      BY <3>1, Zenon
    <3>5. QED
      BY <3>3, <3>4
  <2>2. ASSUME NEW n \in DOMAIN buf, Word(n)'
        PROVE  InDefs(n)' \/ (n <= before /\ Dead(n, Balance(SubSeq(text, 1, 0)))')
    <3>1. Word(n) /\ n <= before
      BY <1>3, <1>4, <1>7, <2>2 DEF Word, StartsWord
    <3>2. InDefs(n) \/ Dead(n, 0)
      BY <3>1 DEF Between
    <3>3. InDefs(n) => InDefs(n)'
      BY <1>4, <1>5 DEF InDefs, Place, Newlines, Spelled
    <3>4. Dead(n, 0) => Dead(n, 0)'
      BY <1>4 DEF Dead, Seen
    <3>5. QED
      BY <2>1, <3>1, <3>2, <3>3, <3>4
  <2>3. buf' = buf
    BY <1>4
  <2>4. QED
    BY <2>2, <2>3 DEF Sound
<1>14. ASSUME NEW d \in defs' PROVE Settled(d[1])' \/ Held(d[1])' \/ Ahead(item, 0, d[1])'
  <2>1. PICK f : f = d[1]
    OBVIOUS
  <2>2. Settled(f) => Settled(f)'
    BY <1>4 DEF Settled
  <2>3. Held(f) => Held(f)'
    BY <1>4 DEF Held, Spelled, First, StartsWord, HasBody
  <2>4. CASE d \in defs
    BY <2>1, <2>2, <2>3, <2>4 DEF Between
  <2>5. CASE d \notin defs
    <3>1. f \in DOMAIN item.defines
      BY <1>5, <2>1, <2>5
    <3>2. f \in Function /\ item.defines[f] \in Nat
      BY <3>1, DefinesLeads
    <3>3. CASE f \in named
      BY <1>4, <2>1, <3>1, <3>3 DEF Settled
    <3>4. CASE f \notin named
      <4>1. \A n \in DOMAIN buf : buf[n] # f
        BY <3>2, <3>4 DEF Between
      <4>2. Spelled(buf', f) = {}
        BY <1>4, <4>1 DEF Spelled
      <4>3. 0 <= item.defines[f]
        BY <3>2
      <4>4. Ahead(item, 0, f)'
        BY <3>1, <4>2, <4>3 DEF Ahead
      <4>5. QED
        BY <2>1, <4>4
    <3>5. QED
      BY <3>3, <3>4
  <2>6. QED
    BY <2>4, <2>5
<1>15. Complete(item, 0, before)'
  BY <1>14 DEF Complete
<1>16. NamesSeen(item, text, 0)'
  <2>1. CASE item.closes
    <3>1. PICK q \in DOMAIN text : text[q] = "rbrace"
      BY <1>1, <1>2, <2>1 DEF Regular, NamesKept
    <3>2. q \in (0 + 1)..Len(text)
      BY <1>2
    <3>3. QED
      BY <2>1, <3>1, <3>2 DEF NamesSeen
  <2>2. CASE ~item.closes
    BY <1>4, <2>2 DEF Between, NamesSeen
  <2>3. QED
    BY <2>1, <2>2
<1>17. item.odd \subseteq odd' /\ (item.closes \/ item.names \subseteq named')
  BY <1>4
<1> HIDE DEF InBuf, Sound, Complete, NamesSeen, Places, FoundRight, DefsNamed
<1>18. QED
  BY <1>1, <1>6, <1>8, <1>9, <1>10, <1>11, <1>12, <1>13, <1>15, <1>16, <1>17 DEF Within

\* The end of the file.
LEMMA EndKeeps ==
  ASSUME PlaceInv, Between, End
  PROVE  Between'
<1>1. /\ rest = <<>> /\ ~done /\ done' = TRUE /\ buf' = <<>>
      /\ UNCHANGED <<mode, directive, defs, named, hidden, odd>>
  BY DEF End, lexVars, c_lexer, source
<1>2. Chunk(buf) \/ (UNCHANGED functions /\ buf = <<>>)
  BY DEF End
<1>3. buf \in Seq(Char)
  BY DEF PlaceInv
<1>4. FoundRight' /\ \A d \in defs : Settled(d[1]) \/ Held(d[1]) => Settled(d[1])'
  <2>1. CASE Chunk(buf)
    <3>1. \A n \in DOMAIN buf : Word(n) /\ Seen(n).verdict = "body" => InDefs(n)
      BY DEF Between, Dead
    <3>2. /\ FoundRight' /\ DOMAIN functions \subseteq DOMAIN functions'
          /\ \A f \in Function : Held(f) => f \in DOMAIN functions'
      <4>1. FoundRight
        BY DEF Between
      <4>2. QED
        BY <1>1, <1>3, <2>1, <3>1, <4>1, ChunkFinds
    <3>3. ASSUME NEW d \in defs, Settled(d[1]) \/ Held(d[1]) PROVE Settled(d[1])'
      <4>1. d[1] \in Function
        BY DEF Between, DefsNamed
      <4>2. Held(d[1]) => Settled(d[1])'
        BY <3>2, <4>1 DEF Settled
      <4>3. Settled(d[1]) => Settled(d[1])'
        BY <1>1, <3>2 DEF Settled
      <4>4. QED
        BY <3>3, <4>2, <4>3
    <3>4. QED
      BY <3>2, <3>3
  <2>2. CASE UNCHANGED functions /\ buf = <<>>
    <3>1. FoundRight'
      BY <1>1, <2>2 DEF Between, FoundRight
    <3>2. \A f : Spelled(buf, f) = {}
      BY <2>2 DEF Spelled
    <3>3. \A f : ~Held(f)
      BY <3>2 DEF Held
    <3>4. \A f : Settled(f) => Settled(f)'
      BY <1>1, <2>2 DEF Settled
    <3>5. QED
      BY <3>1, <3>3, <3>4
  <2>3. QED
    BY <1>2, <2>1, <2>2
<1>5. DefsNamed'
  BY <1>1 DEF Between, DefsNamed
<1>6. \A d \in defs' : Settled(d[1])' \/ Held(d[1])'
  BY <1>1, <1>4 DEF Between
<1>7. DOMAIN buf' = {}
  BY <1>1
<1>8. mode' = "code" /\ ~directive'
  BY <1>1 DEF Between
<1>9. QED
  BY <1>1, <1>4, <1>5, <1>6, <1>7, <1>8 DEF Between

LEMMA BetweenStays ==
  ASSUME Between,
         UNCHANGED <<mode, directive, buf, symbNum, lineNum, functions, done, defs, named, hidden, odd>>
  PROVE  Between'
<1>1. FoundRight' /\ DefsNamed' /\ mode' = "code" /\ ~directive' /\ (done' => buf' = <<>>)
  BY DEF Between, FoundRight, DefsNamed
<1>2. \A n \in DOMAIN buf' : Word(n)' => InDefs(n)' \/ Dead(n, 0)'
  BY DEF Between, Word, StartsWord, InDefs, Place, Newlines, Spelled, Dead, Seen
<1>3. \A d \in defs' : Settled(d[1])' \/ Held(d[1])'
  BY DEF Between, Settled, Held, Spelled, First, StartsWord, HasBody
<1>4. \A n \in DOMAIN buf' : buf'[n] \in Function => buf'[n] \in named'
  BY DEF Between
<1>5. QED
  BY <1>1, <1>2, <1>3, <1>4 DEF Between

LEMMA WithinStays ==
  ASSUME UNCHANGED vars, NEW item \in Items, NEW j \in 0..Len(item.chars), Within(item, j)
  PROVE  Within(item, j)'
<1>1. UNCHANGED <<mode, directive, buf, symbNum, lineNum, functions, done, rest, defs, named, hidden, odd,
                  pos, line>>
  BY DEF vars, lexVars, c_lexer, searchVars, source
<1>2. PICK text : text = Text(item.chars)
  OBVIOUS
<1>3. PICK before : before = Len(buf) - j
  OBVIOUS
<1>4. before = Len(buf') - j
  BY <1>1, <1>3
<1>5. /\ Places(item, j) /\ InBuf(text, j, before) /\ Sound(text, j, before)
      /\ Complete(item, j, before) /\ NamesSeen(item, text, j)
  BY <1>2, <1>3 DEF Within
<1>6. Places(item, j)' /\ InBuf(text, j, before)' /\ NamesSeen(item, text, j)'
  BY <1>1, <1>5 DEF Places, InBuf, NamesSeen
<1>7. Sound(text, j, before)'
  BY <1>1, <1>5 DEF Sound, Word, StartsWord, InDefs, Place, Newlines, Spelled, Dead, Seen
<1>8. Complete(item, j, before)'
  BY <1>1, <1>5 DEF Complete, Settled, Held, Ahead, Begun, Spelled, First, StartsWord, HasBody
<1>9. FoundRight' /\ DefsNamed'
  BY <1>1 DEF Within, FoundRight, DefsNamed
<1>10. /\ rest' = SubSeq(item.chars, j + 1, Len(item.chars)) /\ ~done'
       /\ mode' = Lexed(item.chars)[j].mode /\ directive' = Lexed(item.chars)[j].directive
       /\ item.odd \subseteq odd' /\ (item.closes \/ item.names \subseteq named')
  BY <1>1 DEF Within
<1> HIDE DEF InBuf, Sound, Complete, NamesSeen, Places, FoundRight, DefsNamed
<1>11. QED
  BY <1>2, <1>4, <1>6, <1>7, <1>8, <1>9, <1>10 DEF Within

LEMMA SearchInit == Init => SearchInv
<1> SUFFICES ASSUME Init PROVE rest = <<>> /\ Between
  BY DEF SearchInv
<1>1. /\ rest = <<>> /\ buf = <<>> /\ mode = "code" /\ ~directive /\ defs = {}
      /\ functions = [f \in {} |-> <<0, 0>>]
  BY DEF Init, LexInit
<1>2. DOMAIN buf = {} /\ DOMAIN functions = {}
  BY <1>1
<1>3. QED
  BY <1>1, <1>2 DEF Between, FoundRight, DefsNamed

LEMMA SearchStep ==
  ASSUME LexInv, RestInv, PlaceInv, SearchInv, [Next]_vars
  PROVE  SearchInv'
<1> SUFFICES ASSUME tame'
             PROVE  \/ rest' = <<>> /\ Between'
                    \/ \E item \in Items : \E j \in 0..Len(item.chars) : Within(item, j)'
  BY DEF SearchInv
<1>1. tame
  BY DEF Next, Read, ReadChar, Lex, End, Write, vars, lexVars, c_lexer, LexInv, LexType
<1>2. rest = <<>> => Between
  BY <1>1, EndOfItem DEF SearchInv
<1>3. CASE Read
  <2>1. PICK item \in Items : \E j \in 0..Len(item.chars) : Within(item, j)
    BY <1>1, <1>3 DEF SearchInv, Read
  <2>2. PICK j \in 0..Len(item.chars) : Within(item, j)
    BY <2>1
  <2>3. Len(item.chars) \in Nat /\ item.chars \in Seq(Char)
    BY ItemTyped
  <2>4. j # Len(item.chars)
    <3> SUFFICES ASSUME j = Len(item.chars) PROVE FALSE
      OBVIOUS
    <3>1. rest = SubSeq(item.chars, j + 1, Len(item.chars)) /\ rest # <<>>
      BY <1>3, <2>2 DEF Within, Read
    <3>2. SubSeq(item.chars, j + 1, Len(item.chars)) = <<>>
      <4>1. j + 1 \in Nat /\ j \in Nat /\ j < j + 1 /\ item.chars \in Seq(Char)
        BY <2>3
      <4>2. QED
        BY <4>1, NothingScanned
    <3>3. QED
      BY <3>1, <3>2
  <2>5. j \in 0..(Len(item.chars) - 1) /\ j + 1 \in 0..Len(item.chars)
    BY <2>3, <2>4
  <2>6. ReadText(item, j)
    BY <1>3, <2>2, <2>5, ReadsText
  <2>7. Within(item, j + 1)'
    BY <2>2, <2>5, <2>6, ReadInChunk, ReadEndsChunk
  <2>8. QED
    BY <2>5, <2>7
<1>4. CASE End
  <2>1. rest = <<>> /\ rest' = rest
    BY <1>4 DEF End, source
  <2>2. QED
    BY <1>2, <1>4, <2>1, EndKeeps
<1>5. CASE \E item \in Items : Write(item)
  <2>1. PICK item \in Items : Write(item)
    BY <1>5
  <2>2. rest = <<>>
    BY <2>1 DEF Write
  <2>3. Within(item, 0)'
    BY <1>2, <2>1, <2>2, WriteKeeps
  <2>4. 0 \in 0..Len(item.chars)
    BY ItemTyped
  <2>5. QED
    BY <2>3, <2>4
<1>6. CASE UNCHANGED vars
  <2>1. CASE rest = <<>>
    <3>1. UNCHANGED <<mode, directive, buf, symbNum, lineNum, functions, done, rest, defs, named, hidden, odd>>
      BY <1>6 DEF vars, lexVars, c_lexer, searchVars, source
    <3>2. QED
      BY <1>2, <2>1, <3>1, BetweenStays
  <2>2. CASE rest # <<>>
    <3>1. PICK item \in Items : \E j \in 0..Len(item.chars) : Within(item, j)
      BY <1>1, <2>2 DEF SearchInv
    <3>2. PICK j \in 0..Len(item.chars) : Within(item, j)
      BY <3>1
    <3>3. Within(item, j)'
      BY <1>6, <3>2, WithinStays
    <3>4. QED
      BY <3>2, <3>3
  <2>3. QED
    BY <2>1, <2>2
<1>7. QED
  BY <1>3, <1>4, <1>5, <1>6 DEF Next

LEMMA SearchInvHolds == Spec => [](LexInv /\ RestInv /\ PlaceInv /\ SearchInv)
<1>1. Init => LexInv /\ RestInv /\ PlaceInv /\ SearchInv
  BY LexInitInv, PlaceInit, SearchInit, EmptySeq DEF Init, RestInv
<1>2. LexInv /\ RestInv /\ PlaceInv /\ SearchInv /\ [Next]_vars
        => (LexInv /\ RestInv /\ PlaceInv /\ SearchInv)'
  BY NextInv, PlaceStep, SearchStep
<1>3. QED
  BY <1>1, <1>2, PTL DEF Spec

\* In sources of any length made of items that are regular each by itself, what the
\* search of getCodeFromFile takes for the beginning of a function is a definition of it,
\* at its symbol and line.
THEOREM WhatIsFoundIsADefinition == Spec => []FoundIsDefinition
<1>1. SearchInv => FoundIsDefinition
  BY DEF SearchInv, Between, Within, FoundRight, FoundIsDefinition
<1>2. QED
  BY <1>1, SearchInvHolds, PTL

\* And when the file has been read, every function it defines has been found, unless its
\* name is hidden behind an earlier one in its chunk.
THEOREM EveryDefinitionIsFound == Spec => []DefinitionIsFound
<1>1. PlaceInv /\ SearchInv => DefinitionIsFound
  <2> SUFFICES ASSUME PlaceInv, SearchInv, done, tame, NEW d \in defs
               PROVE  d[1] \in DOMAIN functions \cup odd \cup hidden
    BY DEF DefinitionIsFound
  <2>1. rest = <<>>
    BY DEF PlaceInv
  <2>2. Between
    BY <2>1, EndOfItem DEF SearchInv
  <2>3. buf = <<>>
    BY <2>2 DEF Between
  <2>4. ~Held(d[1])
    BY <2>3 DEF Held, Spelled
  <2>5. Settled(d[1])
    BY <2>2, <2>4 DEF Between
  <2>6. QED
    BY <2>5 DEF Settled
<1>2. QED
  BY <1>1, SearchInvHolds, PTL
=============================================================================
