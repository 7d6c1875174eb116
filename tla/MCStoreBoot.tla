----------------------------- MODULE MCStoreBoot -----------------------------
(* StoreBoot on a small instance: three programs, the newest of which takes  *)
(* over from both earlier ones.                                             *)
EXTENDS StoreBoot

CONSTANTS stage14, stage15, stage16

MCVersions == {stage14, stage15, stage16}

MCUpgradesFrom ==
    [v \in MCVersions |-> CASE v = stage14 -> {}
                            [] v = stage15 -> {stage14}
                            [] v = stage16 -> {stage14, stage15}]
=============================================================================
