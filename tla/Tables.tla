------------------------------- MODULE Tables -------------------------------
(* Tables put together from rows.  The two infix operators are those of TLC; *)
(* they are written out here so that proofs can use what they are.           *)

Each(names, row) == [o \in names |-> row]
o :> row == Each({o}, row)

Merge(f, g) == [o \in DOMAIN f \cup DOMAIN g |-> IF o \in DOMAIN f THEN f[o] ELSE g[o]]
f @@ g == Merge(f, g)
=============================================================================
