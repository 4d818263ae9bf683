---------------------------- MODULE MCSppFanout ----------------------------
\* SppFanout for TLC: the client threads are interchangeable.
EXTENDS SppFanout, TLC

Symmetry == Permutations(Client)
=============================================================================
