------------------------------ MODULE TokenBuilder ------------------------------
(***************************************************************************)
(* SemanticTokensBuilder: marks of a text, by line and character, become   *)
(* tokens placed relative to the one before.                               *)
(***************************************************************************)
EXTENDS Integers, Sequences

Start == [line |-> 0, char |-> 0, data |-> <<>>]

IsBefore(m, n) == m.line < n.line \/ (m.line = n.line /\ m.char < n.char)

\* Bug: the character is taken relative to that of a token on an earlier line.
Push_AnyLine(b, m) ==
  IF b.data # <<>> /\ IsBefore(m, b) THEN b
  ELSE [line |-> m.line, char |-> m.char,
        data |-> Append(b.data, [line |-> m.line - b.line,
                                 char |-> m.char - b.char,
                                 what |-> m.what])]

\* SemanticTokensBuilder::push skips a mark that comes before the last one.
Push(b, m) ==
  IF b.data # <<>> /\ IsBefore(m, b) THEN b
  ELSE [line |-> m.line, char |-> m.char,
        data |-> Append(b.data, [line |-> m.line - b.line,
                                 char |-> IF m.line = b.line THEN m.char - b.char ELSE m.char,
                                 what |-> m.what])]

\* The builder after each of the marks.
Pushed(marks) ==
  LET b[n \in 0 .. Len(marks)] == IF n = 0 THEN Start ELSE Push(b[n - 1], marks[n])
  IN b

Build(marks) == Pushed(marks)[Len(marks)].data

\* What a client makes of the tokens.
Place(b, t) ==
  LET line == b.line + t.line
      char == IF t.line = 0 THEN b.char + t.char ELSE t.char
  IN [line |-> line, char |-> char,
      data |-> Append(b.data, [line |-> line, char |-> char, what |-> t.what])]

\* What the client has placed after each of the tokens.
Placed(tokens) ==
  LET b[n \in 0 .. Len(tokens)] == IF n = 0 THEN Start ELSE Place(b[n - 1], tokens[n])
  IN b

Decode(tokens) == Placed(tokens)[Len(tokens)].data

\* The n-th of the marks comes to those kept, if it is not before any earlier one.
Keep(kept, marks, n) ==
  IF \E k \in 1 .. n - 1 : IsBefore(marks[n], marks[k]) THEN kept ELSE Append(kept, marks[n])

KeptOf(marks) ==
  LET kept[n \in 0 .. Len(marks)] == IF n = 0 THEN <<>> ELSE Keep(kept[n - 1], marks, n)
  IN kept

InOrder(marks) == KeptOf(marks)[Len(marks)]
==============================================================================
