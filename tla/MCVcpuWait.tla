---------------------------- MODULE MCVcpuWait ----------------------------
(* Instances of VcpuWait for TLC.                                          *)
EXTENDS VcpuWait
=============================================================================
