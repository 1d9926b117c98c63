----------------------------- MODULE MCWorkload -----------------------------
(***************************************************************************)
(* Two sessions of one actor. The first uses three workloads, enough to   *)
(* leave one record behind and have it replaced; the second shares one.   *)
(***************************************************************************)
EXTENDS Workload, TLC

CONSTANTS s1, s2, n1, n2, n3

Sharing == s1 :> {n1, n2, n3} @@ s2 :> {n1}
==============================================================================
