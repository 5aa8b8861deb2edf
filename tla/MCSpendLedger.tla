--------------------------- MODULE MCSpendLedger ---------------------------
\* A call costs one token and one dollar, with a price or by guesswork; a run may
\* make two calls, or three after an unlock.
EXTENDS SpendLedger, TLC

MCCalls == [tokens : {1}, dollars : {1}, unpriced : BOOLEAN]
MCStart == [tokens |-> 2, dollars |-> 2]
MCRaised == {MCStart, [tokens |-> 3, dollars |-> 3]}
MCOnly == {MCStart}
MCCap == [tokens |-> 3, dollars |-> 3]
Symmetry == Permutations(Runs)
=============================================================================
