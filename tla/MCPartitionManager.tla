------------------------- MODULE MCPartitionManager -------------------------
(* prepareDisk with every configuration its parameters allow.              *)
EXTENDS PartitionManager

MCConfigs == PartitionConfig
=============================================================================
