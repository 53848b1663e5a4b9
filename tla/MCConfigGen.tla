---------------------------- MODULE MCConfigGen ----------------------------
(***************************************************************************)
(* Templates of up to thirteen replicas, f from 1 to 4.                    *)
(***************************************************************************)
EXTENDS ConfigGen

SmallClusters == 4..13
=============================================================================
