---------------------------- MODULE ConfigSource ----------------------------
(***************************************************************************)
(* What internal/config promises to its callers.  A version of config.json *)
(* is known by the time it was written; file is the time of the last edit, *)
(* cfg the version in memory and loaded the value of LastLoaded.  The      *)
(* configuration only moves forward, to a version that was written, and    *)
(* LastLoaded belongs to the version in memory or, if the time of a file   *)
(* that was read could not be had, to an earlier one: it never says that a *)
(* version was loaded that was not.                                        *)
(***************************************************************************)
EXTENDS Naturals

VARIABLES file, cfg, loaded

source == <<file, cfg, loaded>>

SourceInit == file = 1 /\ cfg \in {0, 1} /\ loaded \in {0, cfg}

Edit == file' = file + 1 /\ UNCHANGED <<cfg, loaded>>

Load ==
    /\ \E v \in cfg .. file : cfg' = v /\ loaded' \in {v, loaded}
    /\ UNCHANGED file

SourceSpec == SourceInit /\ [][Edit \/ Load]_source
=============================================================================
