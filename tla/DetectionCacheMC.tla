-------------------------- MODULE DetectionCacheMC --------------------------
(***************************************************************************)
(* DetectionCache with four keys, two results and room for three: every    *)
(* order of use and every eviction among four keys happens.                *)
(***************************************************************************)
EXTENDS DetectionCache
=============================================================================
