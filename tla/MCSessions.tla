----------------------------- MODULE MCSessions -----------------------------
(* One account and one browser whose requests overlap.                       *)
EXTENDS Sessions
=============================================================================
