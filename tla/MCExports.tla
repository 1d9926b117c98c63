----------------------------- MODULE MCExports -----------------------------
EXTENDS Exports, TLC

\* Sessions and export ids are interchangeable.
Symmetry == Permutations(Sessions) \cup Permutations(ExportIds)
=============================================================================
