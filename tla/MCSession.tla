------------------------------- MODULE MCSession -------------------------------
EXTENDS Session, TLC

\* Transports and clients are interchangeable: nothing compares or orders them.
Symmetry == Permutations(Links) \cup Permutations(Clients)
================================================================================
