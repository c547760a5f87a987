------------------------------- MODULE Tables -------------------------------
(***************************************************************************)
(* Tables, as functions: one row, and two tables together, of which the    *)
(* first one counts where both have a row. They are :> and @@ of TLC's     *)
(* module, which the provers do not know.                                  *)
(***************************************************************************)
d :> e == [x \in {d} |-> e]

Merged(f, g) == [x \in DOMAIN f \cup DOMAIN g |-> IF x \in DOMAIN f THEN f[x] ELSE g[x]]

\* By another name, to be expanded in two steps: a long table that is expanded
\* at once grows with every row.
f @@ g == Merged(f, g)
=============================================================================
