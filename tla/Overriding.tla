------------------------------ MODULE Overriding ------------------------------
(***************************************************************************)
(* A Go map laid over another: maps.Copy, an UPDATE's SET over a row.  It   *)
(* is @@ of module TLC, with a definition that the provers can expand.     *)
(***************************************************************************)

\* Over(f, g): what f says, and what g says of the keys f does not have.
Over(f, g) == [k \in DOMAIN f \cup DOMAIN g |-> IF k \in DOMAIN f THEN f[k] ELSE g[k]]
===============================================================================
