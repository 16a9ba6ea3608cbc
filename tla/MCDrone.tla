------------------------------ MODULE MCDrone ------------------------------
(* Instances of Drone for TLC. *)
EXTENDS Drone, TLC

CONSTANTS c1, c2

(* c1 schedules a compaction; c2 has static backups instead. *)
MCBackups == (c1 :> <<>>) @@ (c2 :> <<"paths", "exec", "output">>)
MCContainers == {<<>>, <<"volumes", "ctnrExec", "ctnrOutput">>}
=============================================================================
