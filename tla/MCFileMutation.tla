--------------------------- MODULE MCFileMutation ---------------------------
(***************************************************************************)
(* Calls of the three tools on one or two files, from one Location or two. *)
(***************************************************************************)
EXTENDS FileMutation

CONSTANTS f, g

LocksOfFiles == Locations \X Files

Of(ops) == {[loc |-> l, changes |-> ops] : l \in Locations}
On(op, x) == [op |-> op, file |-> x]

\* edit; write; a patch that updates two files; one that deletes a file and
\* adds it anew.
ToolCalls ==
  Of(<<On("update", f)>>) \cup Of(<<On("overwrite", f)>>)
  \cup Of(<<On("update", f), On("update", g)>>)
  \cup Of(<<On("delete", f), On("add", f)>>)

Edits == Of(<<On("update", f)>>)
=============================================================================
