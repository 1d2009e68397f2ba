------------------------------- MODULE Tables --------------------------------
(***************************************************************************)
(* Tables put together from parts.                                         *)
(***************************************************************************)

(* The entries of one table and those the other has besides. *)
f ++ g ==
    [x \in DOMAIN f \cup DOMAIN g |-> IF x \in DOMAIN f THEN f[x] ELSE g[x]]
=============================================================================
