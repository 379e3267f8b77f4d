----------------------------- MODULE MCVirtioNet -----------------------------
(***************************************************************************)
(* VirtioNet for TLC: the values that drivers write to Status and to the   *)
(* features.  Indices wrap after a few buffers; Word16 is a multiple of    *)
(* Num, as 2^16 is of every queue size.                                    *)
(***************************************************************************)
EXTENDS VirtioNet

\* A driver's steps through Status.
MCStatusValues ==
    {{"ACKNOWLEDGE", "DRIVER"},
     {"ACKNOWLEDGE", "DRIVER", "FEATURES_OK"},
     {"ACKNOWLEDGE", "DRIVER", "FEATURES_OK", "DRIVER_OK"}}

\* Straight to the end.
MCUp == {{"ACKNOWLEDGE", "DRIVER", "FEATURES_OK", "DRIVER_OK"}}

MCFeatureValues == {{"VERSION_1"}}
MCAnyFeatures == {{"VERSION_1", "STATUS"}, {"STATUS"}, {"VERSION_1", "other"}}
=============================================================================
