---------------------------- MODULE MCSemanticTokens ----------------------------
(* SemanticTokens of texts whose marks encode to equal tokens, and of one *)
(* whose marks are out of order.                                               *)
EXTENDS SemanticTokens

At(line, char, what) == [line |-> line, char |-> char, what |-> what]

MCTexts    == {"short", "long"}
MCSettings == {"plain", "clock"}
MCWhat     == {"port", "clock", "name"}

\* One mark to a line encodes to equal tokens, so that the prefix and the suffix
\* two results share overlap; one of the long text is out of order.  The setting
\* "clock" marks a port and its name on one line before them.
MCMarksOf ==
  [c \in MCTexts \X MCSettings |->
     (IF c[2] = "clock" THEN <<At(0, 1, "clock"), At(0, 3, "name")>> ELSE <<>>)
     \o (IF c[1] = "long"
         THEN <<At(1, 1, "port"), At(2, 1, "port"), At(1, 4, "port"), At(3, 1, "port")>>
         ELSE <<At(1, 1, "port"), At(2, 1, "port")>>)]

\* The settings are plain at first; that they change is one of the moves.
MCInit == Init /\ snap.setting = "plain"
MCSpec == MCInit /\ [][Next]_vars
==============================================================================
