----------------------------- MODULE CodeParser -----------------------------
(***************************************************************************)
(* TCodeParser::getCodeFromFile: where in a C source the functions of the  *)
(* program begin.  The cleared text is cut at every closing brace, and in  *)
(* each chunk only the first place that spells a function's name is looked *)
(* at.  The name of a function is one character.  The source is written    *)
(* item by item (declarations, definitions, statements, comments), so that *)
(* what it defines is known, and read character by character; the code     *)
(* clears the whole text first, which no later step can tell.  Regular     *)
(* says of one item, whatever its neighbours are, what C programs write.   *)
(***************************************************************************)
EXTENDS CommentLexer, Integers, Sequences, FiniteSetsExt, SequencesExt

CONSTANTS
  Function, \* the values of funcAddrMap
  Items,    \* what sources are made of
  MaxItems  \* bound: items in a source

Punctuation == {"lbrace", "rbrace", "lparen", "rparen", "semicolon", "blank"}

ASSUME CodeParserAssumption ==
  /\ Function \subseteq Plain /\ Punctuation \subseteq Plain /\ Function \cap Punctuation = {}
  /\ \A item \in Items : item.chars \in Seq(Char)
  /\ MaxItems \in Nat

VARIABLES
  buf,       \* the cleared text of the chunk read so far
  symbNum, lineNum,
  functions, \* result.functions: symbol and line of the functions found
  done,
  rest,      \* the part of the item written last that is not read yet
  depth,     \* ghosts: the blocks that are open
  items,     \* how many items there are
  pos, line, \* the place that is read
  defs,      \* the definitions, with their places
  named,     \* the functions named since the last closing brace
  hidden,    \* the functions defined after they were named in the same chunk
  odd        \* the functions that occur as the search does not expect, which it may get wrong

searchVars == <<buf, symbNum, lineNum, functions, done>>
source == <<rest, depth, items, pos, line, defs, named, hidden, odd>>
vars == <<lexVars, searchVars, source>>

Init ==
  /\ LexInit
  /\ buf = <<>> /\ symbNum = 0 /\ lineNum = 0
  /\ functions = [f \in {} |-> <<0, 0>>] /\ done = FALSE
  /\ rest = <<>> /\ depth = 0 /\ items = 0 /\ pos = 0 /\ line = 0
  /\ defs = {} /\ named = {} /\ hidden = {} /\ odd = {}

----------------------------------------------------------------------------
\* The scan from a name to the brace that opens its body or the semicolon that says
\* there is none.  Text outside brackets may be the parameters of an old style
\* definition, so that the next semicolon is let pass.
Look(s, c) ==
  LET brackets == s.brackets + (IF c = "lparen" THEN 1 ELSE IF c = "rparen" THEN -1 ELSE 0)
      skips == {"blank", "newline", "semicolon", "lparen", "rparen"}
      ignore == s.ignoreNextSemiColon \/ (brackets = 0 /\ c \notin skips)
      Go(i, verdict) == [brackets |-> brackets, ignoreNextSemiColon |-> i, verdict |-> verdict]
  IN  IF s.verdict # "open" THEN s
      ELSE IF c = "semicolon" THEN Go(FALSE, IF ignore THEN "open" ELSE "none")
      ELSE IF c = "lbrace" /\ brackets = 0 THEN Go(ignore, "body")
      ELSE Go(ignore, "open")

Scan(text) == FoldLeft(Look, [brackets |-> 0, ignoreNextSemiColon |-> FALSE, verdict |-> "open"], text)
HasBody(chunk, n) == Scan(SubSeq(chunk, n + 1, Len(chunk))).verdict = "body"

\* buf.find(funcName), and the character before it.
Spelled(chunk, f) == {n \in DOMAIN chunk : chunk[n] = f}
First(chunk, f) == Min(Spelled(chunk, f))
StartsWord_Blank(chunk, n) == n = 1 \/ chunk[n - 1] = "blank"
StartsWord(chunk, n) == n = 1 \/ chunk[n - 1] \in {"blank", "newline"}
Found(chunk, f) ==
  /\ f \notin DOMAIN functions
  /\ Spelled(chunk, f) # {}
  /\ StartsWord(chunk, First(chunk, f))
  /\ HasBody(chunk, First(chunk, f))

Newlines(chunk) == Cardinality(Spelled(chunk, "newline"))
Place(chunk, n) == <<symbNum + n - 1, lineNum + Newlines(SubSeq(chunk, 1, n - 1))>>

\* The body of the loop over the chunks.
Search(chunk) ==
  LET new == {f \in Function : Found(chunk, f)}
  IN  functions' = [f \in DOMAIN functions \cup new |->
                      IF f \in new THEN Place(chunk, First(chunk, f)) ELSE functions[f]]
Skipped_NoBrace(chunk) == symbNum' = symbNum + Len(chunk) /\ lineNum' = lineNum + Newlines(chunk)
Skipped(chunk) == symbNum' = symbNum + Len(chunk) + 1 /\ lineNum' = lineNum + Newlines(chunk)

Chunk(chunk) == Search(chunk) /\ Skipped(chunk)

\* The next character is cleared; getline ends a chunk at a brace that is left.
Read ==
  /\ rest # <<>>
  /\ LET c == Head(rest)
         cleared == IF kept' THEN c ELSE "blank"
     IN  /\ ReadChar(c)
         /\ IF cleared = "rbrace" THEN Chunk(buf) /\ buf' = <<>>
            ELSE buf' = Append(buf, cleared) /\ UNCHANGED <<symbNum, lineNum, functions>>
         /\ pos' = pos + 1
         /\ line' = IF c = "newline" THEN line + 1 ELSE line
  /\ rest' = Tail(rest)
  /\ UNCHANGED <<done, depth, items, defs, named, hidden, odd>>

\* The end of the file: getline returns what is left, if anything is.
End ==
  /\ rest = <<>> /\ ~done
  /\ done' = TRUE
  /\ IF buf = <<>> THEN UNCHANGED <<symbNum, lineNum, functions>> ELSE Chunk(buf)
  /\ buf' = <<>>
  /\ UNCHANGED <<lexVars, source>>

----------------------------------------------------------------------------
\* What an item has to be so that the search copes with it, whatever it stands between.

\* The lexer of C along an item that begins in program text, and what it leaves.
Lexed(chars) ==
  LET at[k \in 0..Len(chars)] ==
        IF k = 0 THEN [mode |-> "code", directive |-> FALSE]
        ELSE [mode |-> After(at[k - 1].mode, chars[k]),
              directive |-> DirectiveAfter(at[k - 1].mode, at[k - 1].directive, chars[k])]
  IN  at
Text(chars) ==
  LET at == Lexed(chars)
  IN  [k \in DOMAIN chars |->
         IF Remains(at[k].mode, at[k].directive, chars[k]) THEN chars[k] ELSE "blank"]

\* No chunk ends from i to j.
OneChunk(text, i, j) == \A k \in i..j : text[k] # "rbrace"
Balance(text) == Cardinality(Spelled(text, "lparen")) - Cardinality(Spelled(text, "rparen"))

\* A name at k that is not followed by a body, neither in its item nor after it: the
\* scan has ended with the item, or a bracket is closed that was open before the name.
MayStartWord(text, k) == k = 1 \/ text[k - 1] \in {"blank", "newline", "rbrace"}
Harmless(text, k) ==
  \A j \in k..Len(text) :
    OneChunk(text, k, j) =>
      LET s == Scan(SubSeq(text, k + 1, j))
      IN  /\ s.verdict # "body"
          /\ j = Len(text) => s.verdict = "none" \/ s.brackets < 0

\* The first f of the item is a word at k and has its body in the item.
Leads(text, k, f) ==
  /\ k \in 2..Len(text) /\ text[k] = f /\ \A i \in 1..(k - 1) : text[i] # f
  /\ MayStartWord(text, k)
  /\ OneChunk(text, k, Len(text)) /\ Scan(SubSeq(text, k + 1, Len(text))).verdict = "body"

\* No block is opened inside brackets that the item leaves open.
Balanced(text) ==
  \A j \in 0..Len(text) :
    OneChunk(text, 1, j) /\ (j = Len(text) \/ text[j + 1] = "lbrace") => Balance(SubSeq(text, 1, j)) <= 0

\* What the item names remains to be named at its end; after a closing brace nothing is.
NamesKept(item, text) ==
  IF item.closes
  THEN \E q \in DOMAIN text : text[q] = "rbrace" /\ \A k \in (q + 1)..Len(text) : text[k] \notin Function
  ELSE \A k \in DOMAIN text : text[k] \in Function => text[k] \in item.names

Regular(item) ==
  LET text == Text(item.chars)
      end  == Lexed(item.chars)[Len(item.chars)]
  IN  /\ end.mode = "code" /\ ~end.directive
      /\ DOMAIN item.defines \subseteq Function /\ \A f \in DOMAIN item.defines : item.defines[f] \in Nat
      /\ \A f \in DOMAIN item.defines \ item.odd : Leads(text, item.defines[f] + 1, f)
      /\ \A k \in DOMAIN text :
           text[k] \in Function \ item.odd /\ MayStartWord(text, k) =>
             \/ text[k] \in DOMAIN item.defines /\ k = item.defines[text[k]] + 1
             \/ Harmless(text, k)
      /\ Balanced(text)
      /\ NamesKept(item, text)

ASSUME ItemsAssumption == \A item \in Items : Regular(item)

----------------------------------------------------------------------------
\* The author goes on: at depth 0 with declarations and definitions, in a body with
\* statements.  A function is defined once.
Write(item) ==
  /\ rest = <<>> /\ ~done /\ items < MaxItems
  /\ IF depth = 0 THEN item.top ELSE item.inner
  /\ \A d \in defs : d[1] \notin DOMAIN item.defines
  /\ rest' = item.chars
  /\ depth' = depth + item.opens
  /\ items' = items + 1
  /\ LET at == item.defines
         lineOf(f) == line + Newlines(SubSeq(item.chars, 1, at[f]))
     IN  defs' = defs \cup {<<f, <<pos + at[f], lineOf(f)>>>> : f \in DOMAIN at}
  /\ hidden' = hidden \cup (DOMAIN item.defines \cap named)
  /\ named' = IF item.closes THEN {} ELSE named \cup item.names
  /\ odd' = odd \cup item.odd
  /\ UNCHANGED <<lexVars, searchVars, pos, line>>

Next == Read \/ End \/ \E item \in Items : Write(item)
Spec == Init /\ [][Next]_vars

----------------------------------------------------------------------------
\* What the source panel highlights for a function is a definition of it: counting
\* symbols and lines over cleared chunks ends at the right place, and no plain prototype
\* or call, and no name in a comment, is taken for a definition.  This is not said of the
\* functions in `odd`: a prototype with an attribute, a name in an expression (before a
\* block, for example) and a longer name are what the search may take for one.
FoundIsDefinition ==
  tame => \A f \in DOMAIN functions \ odd : <<f, functions[f]>> \in defs

\* In any text, tame or not, the place of a function is the one where the search read
\* its name: symbols and lines are counted chunk by chunk (symbNum, lineNum) and then
\* up to the name, and no chunk, brace or blank is lost or counted twice.
FoundWhereRead ==
  [][\A f \in DOMAIN functions' \ DOMAIN functions :
       \E n \in DOMAIN buf :
         /\ buf[n] = f
         /\ functions'[f] = <<pos - 1 - (Len(buf) - n),
                              line - Newlines(SubSeq(buf, n, Len(buf)))>>]_vars

\* And every function that is defined is found, unless its chunk names it before (hidden)
\* or some text spells it as the search does not expect (odd).
DefinitionIsFound ==
  done /\ tame => \A d \in defs : d[1] \in DOMAIN functions \cup odd \cup hidden

=============================================================================
