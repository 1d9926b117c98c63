----------------------------- MODULE MCAuditRing -----------------------------
(* A small digest for model checking. *)
EXTENDS AuditRing

MCDigests == 0 .. 996
MCDigest(id, prior, entry) == 1 + ((31 * prior + 7 * id + entry) % 996)
==============================================================================
