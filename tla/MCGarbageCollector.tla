------------------------- MODULE MCGarbageCollector -------------------------
(* Small heaps for GarbageCollector: the constants are in the cfg files.     *)
EXTENDS GarbageCollector
=============================================================================
