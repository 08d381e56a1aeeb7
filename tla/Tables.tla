------------------------------- MODULE Tables -------------------------------
(***************************************************************************)
(* A table of a store is a set of rows, a row a record.  What the          *)
(* in-memory maps and the statements of the database have in common.       *)
(***************************************************************************)
LOCAL INSTANCE FiniteSets

CONSTANT None

\* The row of a set that has at most one, as "const [row] = ..." reads it.
One(rows) == IF rows = {} THEN None ELSE CHOOSE r \in rows : TRUE
ById(rows, id) == {r \in rows : r.id = id}
Find(rows, id) == One(ById(rows, id))
IdsOf(rows) == {r.id : r \in rows}

\* Every row of hit, a part of rows, is replaced by what New makes of it.
Updated(rows, hit, New(_)) == (rows \ hit) \cup {New(r) : r \in hit}
\* The row takes the place of those it collides with on its key.
Replaced(rows, hit, row) == (rows \ hit) \cup {row}
=============================================================================
