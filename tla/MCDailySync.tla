------------------------------ MODULE MCDailySync ------------------------------
(* Small instances of DailySync for TLC. *)
EXTENDS DailySync, TLC

AllPoints == Point \ {"idle"}

(* Inside pit_refresh. *)
PitPoints == {"pit_state", "pit_pending", "pit_finish"}

(* All but between a partition and its manifest, after which raw_validate *)
(* rejects the partition for ever.                                        *)
ResumablePoints == AllPoints \ {"write_manifest"}

(* Where a kill leaves nothing that another plan cannot take over. *)
HandoverPoints == AllPoints \ ({"write_data", "write_manifest"} \cup PitPoints)

Third == {3}
None == {}
PlanSymmetry == Permutations(Plan)
================================================================================
