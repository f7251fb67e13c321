------------------------------ MODULE DmLayout ------------------------------
(***************************************************************************)
(* What the layouts of dm.h have in common: the results that are not LBNs, *)
(* the ways of asking for a translation, and the circle of angles.         *)
(***************************************************************************)
EXTENDS Integers

CONSTANT Circle  \* the angles of one revolution: 2^32, the range of dm_angle_t

ASSUME CircleAssumption == Circle \in Nat \ {0}

DM_SLIPPED  == -1
DM_REMAPPED == -2
DM_OK       == -3
DM_NX       == -4

MAP_NONE     == 0
MAP_ADDSLIPS == 3
MAP_FULL     == 4
=============================================================================
