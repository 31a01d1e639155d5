----------------------------- MODULE MCAddGraph -----------------------------
(***************************************************************************)
(* AddGraph for TLC: three nodes and small files.                          *)
(***************************************************************************)
EXTENDS AddGraph

\* A path, an edge twice and the other way round, self loops of a new and of a
\* known node, and no file.
SmallFiles == { <<<<1, 2>>, <<2, 3>>>>, <<<<2, 1>>, <<1, 2>>>>, <<<<3, 3>>>>,
                <<<<3, 1>>, <<1, 1>>>>, <<>> }
=============================================================================
