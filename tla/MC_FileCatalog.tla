--------------------------- MODULE MC_FileCatalog ---------------------------
(***************************************************************************)
(* Instances of FileCatalog for TLC: two requests at a time, one standard  *)
(* folder in the root and one in it, one more name, and paths one level    *)
(* deep.  Four ids leave two to the requests: they make a folder or a file *)
(* in each place, copy the folder with the entry in it, or move folders    *)
(* below each other.                                                       *)
(***************************************************************************)
EXTENDS FileCatalog, TLC

MCBases    == {"NOTE", "f"}
MCStandard == {"NOTE"}
MCSubFolders == {<<"NOTE", "NOTE">>}
MCTargets  == {<<<<>>, "NOTE">>, <<<<>>, "f">>, <<<<"NOTE">>, "f">>, <<<<"f">>, "NOTE">>}
Symmetry   == Permutations(Requests)
=============================================================================
