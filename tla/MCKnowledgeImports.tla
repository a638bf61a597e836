------------------------- MODULE MCKnowledgeImports -------------------------
(***************************************************************************)
(* Two uploads of the same bytes, one of them wanted by two jobs, and one  *)
(* upload that cannot be parsed.                                           *)
(***************************************************************************)
EXTENDS KnowledgeImports

CONSTANTS u1, u2, u3, same, broken, i1, i2, i3, again, x1

MCContentOf == [u \in Uploads |-> IF u = u3 THEN broken ELSE same]
MCUploadOf == [j \in StartJobs |-> CASE j = i2 -> u2 [] j = i3 -> u3 [] OTHER -> u1]
MCImportOf == [k \in CancelJobs |-> i1]
=============================================================================
