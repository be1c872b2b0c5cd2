----------------------------- MODULE MCGateway -----------------------------
EXTENDS Gateway, TLC

Symmetric == Permutations(Token) \cup Permutations(Conn)
=============================================================================
