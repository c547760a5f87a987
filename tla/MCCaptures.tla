----------------------------- MODULE MCCaptures -----------------------------
(* Instances of Captures for TLC.                                          *)
EXTENDS Captures, TLC

CONSTANTS n1, n2, v1, h1, h2, p1, p2

\* The screenshots and a heap snapshot want one file, the other heap snapshot
\* has its own.
AskedApart == (n1 :> p1) @@ (n2 :> p1) @@ (v1 :> p1) @@ (h1 :> p1) @@ (h2 :> p2)
StemsApart == [p \in Paths |-> p]

\* Screenshots of all kinds with a heap snapshot, or heap snapshots together.
SomeTogether == {{n1, n2, v1}, {n1, v1, h1}, {n2, h1, h2}}
=============================================================================
