---------------------------- MODULE MCChatTurns ----------------------------
\* An answer costs one dollar, with a price or by guesswork.
EXTENDS ChatTurns, TLC

MCAnswers == [dollars : {1}, unpriced : BOOLEAN]
Symmetry == Permutations(Turns) \cup Permutations(Clicks)
=============================================================================
