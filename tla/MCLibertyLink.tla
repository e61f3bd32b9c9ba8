----------------------------- MODULE MCLibertyLink -----------------------------
(***************************************************************************)
(* Two libraries that overlap, with a cell that cannot be walked, one that *)
(* may not be and one that cannot be converted; a file that cannot be      *)
(* parsed, one that is no library, one with an unknown template variable   *)
(* and a fault beside it.  Up to three reads in any order, with            *)
(* repetition, and two links.                                              *)
(***************************************************************************)
EXTENDS LibertyLink

K_Files == {"hvt", "lvt", "broken", "foreign", "odd"}
K_CellNames == {"INV", "DFF"}
K_CellsOf == [f \in K_Files |-> IF f \in {"hvt", "lvt"} THEN {"INV", "DFF"} ELSE {"INV"}]
K_Readable == K_Files \ {"broken"}
K_Foreign == {"foreign"}
K_Throwing == {"odd"}
K_Faulty == {<<"lvt", "DFF">>, <<"odd", None>>}
K_Uncertain == {<<"hvt", "INV">>}
K_Unusable == {<<"hvt", "DFF">>}
=============================================================================
