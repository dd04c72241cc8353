------------------------------- MODULE Layout -------------------------------
(***************************************************************************)
(* The layout half of the lexer, `lex` of src/lexer.rs: lexemes are turned *)
(* into tokens, and the spaces that open a line into Indent and Dedent     *)
(* tokens.  How characters form lexemes is left to the lexer generator; a  *)
(* lexeme is a line break with the spaces after it, or a word at its line  *)
(* and column.                                                             *)
(***************************************************************************)
EXTENDS Integers, SequencesExt

CONSTANTS
  Kind,     \* the kinds of words
  Text      \* what a word says

(* What the lexer generator finds no word in.                               *)
Wrong == {"TabIndent", "Unexpected"}

Lexeme == [kind : {"NewlineIndent"}, indent : Nat]
            \cup [kind : Kind \cup Wrong, text : Text, line : Nat, col : Nat]

Opening == {"LParen", "LBracket"}
Closing == {"RParen", "RBracket"}
LayoutKind == {"Newline", "Indent", "Dedent", "Eof"}

ASSUME KindAssumption ==
  /\ Kind \cap LayoutKind = {}
  /\ "NewlineIndent" \notin Kind
  /\ Wrong \cap Kind = {}

VARIABLES
  source,        \* the text: what it is made of is left to who writes it
  rest,          \* the lexemes still to read
  tokens,        \* `out`
  indents,       \* the columns of the open blocks, the innermost last
  paren_depth,
  pending,       \* the indent of a line break not yet turned into tokens
  emitted,       \* `emitted_content`: some word has been read
  status         \* "lexing", "lexed" or "error"

layoutVars == <<source, rest, tokens, indents, paren_depth, pending, emitted, status>>

NoNewline == -1

(* A token the lexer makes up.  Its position only matters to messages.      *)
Synthetic(kind) == [kind |-> kind, text |-> "", line |-> 0, col |-> 0]
Repeated(kind, n) == [i \in 1 .. n |-> Synthetic(kind)]

LayoutInit ==
  /\ rest \in Seq(Lexeme)
  /\ tokens = <<>>
  /\ indents = <<0>>
  /\ paren_depth = 0
  /\ pending = NoNewline
  /\ emitted = FALSE
  /\ status = "lexing"

-----------------------------------------------------------------------------
(* flush_pending_newline and emit_indent                                    *)

Top(stack) == stack[Len(stack)]

(* The stack without the columns past `indent`.                             *)
Popped(stack, indent) ==
  SubSeq(stack, 1, CHOOSE n \in 1 .. Len(stack) :
                     stack[n] <= indent /\ \A m \in n + 1 .. Len(stack) : stack[m] > indent)

(* A line break waits to become tokens: a break before the first word never *)
(* does.                                                                    *)
Breaks == emitted /\ pending # NoNewline

Deeper == Breaks /\ pending > Top(indents)

Indents ==
  IF Deeper THEN Append(indents, pending) ELSE IF Breaks THEN Popped(indents, pending) ELSE indents

Inconsistent == Breaks /\ Top(Indents) # pending

(* A mistake: one Dedent for all the blocks a line closes.                  *)
BoundaryOneDedent ==
  IF ~Breaks THEN <<>>
  ELSE <<Synthetic("Newline")>> \o
       (IF Deeper THEN <<Synthetic("Indent")>>
        ELSE IF Len(Indents) < Len(indents) THEN <<Synthetic("Dedent")>> ELSE <<>>)

(* The tokens of the line break.                                            *)
Boundary ==
  IF ~Breaks THEN <<>>
  ELSE IF Deeper THEN <<Synthetic("Newline"), Synthetic("Indent")>>
  ELSE <<Synthetic("Newline")>> \o Repeated("Dedent", Len(indents) - Len(Indents))

-----------------------------------------------------------------------------
Lexeme1 == Head(rest)
Reading == status = "lexing" /\ rest # <<>>

(* A mistake: a break inside brackets counts as the end of a line.          *)
ReadNewlineAnywhere ==
  /\ Reading
  /\ Lexeme1.kind = "NewlineIndent"
  /\ pending' = Lexeme1.indent
  /\ rest' = Tail(rest)
  /\ UNCHANGED <<source, tokens, indents, paren_depth, emitted, status>>

(* A later break replaces an earlier one: blank lines leave nothing behind. *)
ReadNewline ==
  /\ Reading
  /\ Lexeme1.kind = "NewlineIndent"
  /\ pending' = IF paren_depth = 0 THEN Lexeme1.indent ELSE pending
  /\ rest' = Tail(rest)
  /\ UNCHANGED <<source, tokens, indents, paren_depth, emitted, status>>

(* A mistake: a bracket that closes nothing counts.                         *)
DepthBelowZero(kind) ==
  IF kind \in Opening THEN paren_depth + 1
  ELSE IF kind \in Closing THEN paren_depth - 1 ELSE paren_depth

DepthAfter(kind) ==
  IF kind \in Opening THEN paren_depth + 1
  ELSE IF kind \in Closing /\ paren_depth > 0 THEN paren_depth - 1
  ELSE paren_depth

ReadWord ==
  /\ Reading
  /\ Lexeme1.kind \in Kind
  /\ ~Inconsistent
  /\ tokens' = tokens \o Boundary \o <<Lexeme1>>
  /\ indents' = Indents
  /\ paren_depth' = DepthAfter(Lexeme1.kind)
  /\ pending' = NoNewline
  /\ emitted' = TRUE
  /\ rest' = Tail(rest)
  /\ UNCHANGED <<source, status>>

(* At the end a break that waits is turned into tokens like any other, and  *)
(* what is open is closed.                                                  *)
EndOfInput ==
  /\ status = "lexing"
  /\ rest = <<>>
  /\ ~Inconsistent
  /\ tokens' = tokens \o Boundary \o Repeated("Dedent", Len(Indents) - 1) \o <<Synthetic("Eof")>>
  /\ indents' = <<0>>
  /\ pending' = NoNewline
  /\ status' = "lexed"
  /\ UNCHANGED <<source, rest, paren_depth, emitted>>

RejectWord ==
  /\ Reading
  /\ Lexeme1.kind \in Wrong
  /\ status' = "error"
  /\ UNCHANGED <<source, rest, tokens, indents, paren_depth, pending, emitted>>

RejectIndent ==
  /\ status = "lexing"
  /\ rest # <<>> => Lexeme1.kind \in Kind
  /\ Inconsistent
  /\ status' = "error"
  /\ UNCHANGED <<source, rest, tokens, indents, paren_depth, pending, emitted>>

Lex == ReadNewline \/ ReadWord \/ EndOfInput \/ RejectWord \/ RejectIndent

LayoutSpec == LayoutInit /\ [][Lex]_layoutVars

-----------------------------------------------------------------------------
Places(kind) == {i \in DOMAIN tokens : tokens[i].kind = kind}

LayoutTypeOK ==
  /\ rest \in Seq(Lexeme)
  /\ tokens \in Seq([kind : Kind \cup LayoutKind, text : Text \cup {""}, line : Nat, col : Nat])
  /\ indents \in Seq(Nat)
  /\ paren_depth \in Nat
  /\ pending \in Nat \cup {NoNewline}
  /\ emitted \in BOOLEAN
  /\ status \in {"lexing", "lexed", "error"}

(* The columns on the stack grow from the margin on.                        *)
BlocksAreNested ==
  /\ indents # <<>>
  /\ indents[1] = 0
  /\ \A i, j \in DOMAIN indents : i < j => indents[i] < indents[j]

(* Every Indent written is closed by a Dedent or still on the stack, at     *)
(* every moment, so the tokens of a whole text are balanced: the parser     *)
(* counts on meeting as many of one as of the other.                        *)
IndentsAreClosed ==
  Cardinality(Places("Indent")) = Cardinality(Places("Dedent")) + Len(indents) - 1

(* A word is never cut off from its line inside brackets: while some        *)
(* bracket is open, reading adds that word and no layout.                   *)
BracketsJoinLines ==
  [][paren_depth > 0 /\ rest # <<>> =>
       \/ tokens' = tokens
       \/ tokens' = Append(tokens, Head(rest))]_layoutVars
=============================================================================
