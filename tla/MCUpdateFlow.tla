----------------------------- MODULE MCUpdateFlow -----------------------------
(* Two releases newer than the running one, one of them under two tags, and    *)
(* one whose tag is no version.                                                *)
EXTENDS UpdateFlow

MCRank == [v \in Versions |->
              CASE v \in {"v2", "2"} -> 2 [] v = "v3" -> 3 [] v = "running" -> 1 [] v = "0.0.0" -> 0
                [] OTHER -> NoRank]
=============================================================================
