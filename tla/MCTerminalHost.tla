---------------------------- MODULE MCTerminalHost ----------------------------
EXTENDS TerminalHost, TLC

\* Runs and requests are named by model values that no definition tells apart.
Names == Permutations(Run) \cup Permutations(Perm)
=============================================================================
