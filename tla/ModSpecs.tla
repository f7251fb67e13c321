------------------------------ MODULE ModSpecs ------------------------------
(***************************************************************************)
(* The parameters of diskmodel's modules, from the headers mod.pl made of  *)
(* the .modspec files (diskmodel/include/diskmodel/modules), and their     *)
(* DEPEND lines (diskmodel/modules/*.modspec).                             *)
(***************************************************************************)
EXTENDS Sequences, Naturals

\* struct lp_varspec: name, type, and whether a block must have it.
Par(name, type, req) == [name |-> name, type |-> type, req |-> req]

dm_disk_params == <<
    Par("Block count", "I", TRUE),
    Par("Number of data surfaces", "I", TRUE),
    Par("Number of cylinders", "I", TRUE),
    Par("Flag of meadia head(smr or cmr)", "I", FALSE),
    Par("Number of wedges", "I", FALSE),
    Par("Mechanical Model", "BLOCK", FALSE),
    Par("Layout Model", "BLOCK", TRUE),
    Par("Disk Power", "BLOCK", FALSE) >>

dm_layout_g1_params == <<
    Par("LBN-to-PBN mapping scheme", "I", TRUE),
    Par("Sparing scheme used", "I", TRUE),
    Par("Rangesize for sparing", "I", TRUE),
    Par("Skew units", "S", FALSE),
    Par("Zones", "LIST", TRUE) >>

dm_layout_g1_zone_params == <<
    Par("First cylinder number", "I", TRUE),
    Par("Last cylinder number", "I", TRUE),
    Par("Blocks per track", "I", TRUE),
    Par("Offset of first block", "D", TRUE),
    Par("Skew units", "S", FALSE),
    Par("Empty space at zone front", "I", TRUE),
    Par("Skew for track switch", "D", FALSE),
    Par("Skew for cylinder switch", "D", FALSE),
    Par("Number of spares", "I", TRUE),
    Par("slips", "LIST", TRUE),
    Par("defects", "LIST", TRUE) >>

dm_layout_g2_params == <<
    Par("Layout Map File", "S", TRUE),
    Par("Zones", "LIST", TRUE) >>

dm_layout_g2_zone_params == <<
    Par("First cylinder number", "I", TRUE),
    Par("Last cylinder number", "I", TRUE),
    Par("First LBN", "I", TRUE),
    Par("Last LBN", "I", TRUE),
    Par("Blocks per track", "I", TRUE),
    Par("Zone Skew", "D", FALSE),
    Par("Skew units", "S", FALSE),
    Par("Skew for track switch", "D", FALSE),
    Par("Skew for cylinder switch", "D", FALSE) >>

dm_layout_g4_params == <<
    Par("TP", "LIST", TRUE),
    Par("IDX", "LIST", TRUE),
    Par("Slips", "LIST", TRUE),
    Par("Remaps", "LIST", TRUE) >>

dm_mech_g1_params == <<
    Par("Access time type", "S", TRUE),
    Par("Constant access time", "D", FALSE),
    Par("Seek type", "S", TRUE),
    Par("Average seek time", "D", FALSE),
    Par("Constant seek time", "D", FALSE),
    Par("Single cylinder seek time", "D", FALSE),
    Par("Full strobe seek time", "D", FALSE),
    Par("Full seek curve", "S", FALSE),
    Par("Add. write settling delay", "D", TRUE),
    Par("Head switch time", "D", TRUE),
    Par("Rotation speed (in rpms)", "I", TRUE),
    Par("Percent error in rpms", "D", TRUE),
    Par("First ten seek times", "LIST", FALSE),
    Par("HPL seek equation values", "LIST", FALSE) >>

dm_mech_power_params == <<
    Par("Spindle power curve vs zone", "S", FALSE),
    Par("VCM Seek energy vs cylinder distance", "S", FALSE),
    Par("VCM Bias power vs zone", "S", FALSE),
    Par("Head read power", "D", TRUE),
    Par("Head write power", "D", TRUE),
    Par("Servo channel power", "D", TRUE),
    Par("Byte size per block", "I", TRUE),
    Par("RAM active power", "D", TRUE),
    Par("RAM idle power", "D", TRUE),
    Par("SSD active power", "D", TRUE),
    Par("SSD idle power", "D", TRUE),
    Par("HDD idle one inactive wait ms", "D", TRUE),
    Par("HDD idle one recover time to active", "D", TRUE),
    Par("HDD Power idle one in watt", "D", TRUE),
    Par("Spindle idle power", "D", TRUE),
    Par("HDD idle two inactive wait ms", "D", TRUE),
    Par("HDD idle two recover time to active", "D", TRUE),
    Par("HDD Power idle two in watt", "D", TRUE),
    Par("HDD idle three inactive wait ms", "D", TRUE),
    Par("HDD idle three recover time to active", "D", TRUE),
    Par("HDD Power idle three in watt", "D", TRUE),
    Par("HDD idle four standby trigger mode", "S", FALSE),
    Par("HDD idle four standby timer ms", "D", TRUE),
    Par("HDD standby recover time to active", "D", TRUE),
    Par("HDD Power idle four in watt", "D", TRUE) >>

(* dm_mods: the order the modules are registered in.                       *)
dm_mods == <<"dm_disk", "dm_layout_g1", "dm_layout_g1_zone", "dm_layout_g2",
             "dm_layout_g2_zone", "dm_layout_g4", "dm_mech_g1", "dm_mech_power">>

dm_params == [m \in {dm_mods[i] : i \in DOMAIN dm_mods} |->
    CASE m = "dm_disk"           -> dm_disk_params
      [] m = "dm_layout_g1"      -> dm_layout_g1_params
      [] m = "dm_layout_g1_zone" -> dm_layout_g1_zone_params
      [] m = "dm_layout_g2"      -> dm_layout_g2_params
      [] m = "dm_layout_g2_zone" -> dm_layout_g2_zone_params
      [] m = "dm_layout_g4"      -> dm_layout_g4_params
      [] m = "dm_mech_g1"        -> dm_mech_g1_params
      [] m = "dm_mech_power"     -> dm_mech_power_params]

ParamNames(m) == {dm_params[m][i].name : i \in DOMAIN dm_params[m]}

RequiredOf(m) ==
    LET r == SelectSeq(dm_params[m], LAMBDA v : v.req) IN [i \in DOMAIN r |-> r[i].name]

(* The DEPEND lines: what the loader of a parameter waits for.             *)
dm_deps == [m \in {dm_mods[i] : i \in DOMAIN dm_mods} |->
    [p \in ParamNames(m) |->
        CASE m = "dm_mech_g1" /\ p \in {"Full seek curve", "First ten seek times",
                                        "HPL seek equation values"} -> <<"Seek type">>
          [] m = "dm_layout_g4" /\ p = "IDX" -> <<"TP">>
          [] m = "dm_layout_g1_zone" /\ p \in {"Offset of first block",
                 "Skew for track switch", "Skew for cylinder switch"} -> <<"Blocks per track">>
          [] m = "dm_layout_g2_zone" /\ p \in {"Zone Skew",
                 "Skew for track switch", "Skew for cylinder switch"} -> <<"Blocks per track">>
          [] OTHER -> <<>>]]
=============================================================================
