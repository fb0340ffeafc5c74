----------------------- MODULE MCCollectorSupervisor -----------------------
(* Bounds of the supervisor runs are in their configurations.              *)
EXTENDS CollectorSupervisor
=============================================================================
