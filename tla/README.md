# A verification of DiskSim's disk model library

`src/diskmodel` is the disk model of DiskSim: given the parameters of a drive it
answers two kinds of question. The *layout* says where a logical block (LBN) is on
the disk: cylinder, head and sector, and the angle at which the sector starts. The
*mechanics* say how long it takes to get there and read it. Both are interfaces of
function pointers (`struct dm_layout_if`, `struct dm_mech_if` in `dm.h`), filled by a
module per drive generation, and tied together by `struct dm_disk_if`. `src/libparam`
reads the parameter files: it parses blocks, makes instances of them and calls a loader
function for every parameter, after those it depends on. Clients are the simulator (not
in this repository), test programs, and two calculators that say how long an access
takes and how much energy, with drivers that replay a trace through them. All of it is
sequential C.

What can go wrong is not concurrency. In the disk model it is address arithmetic: two
spaces of addresses (with and without skipped sectors) that are translated back and
forth by different code, run-length encoded trees with runs in both directions, searches
and loops with ends of their own, limits that are inclusive here and exclusive there, a
circle of angles, and states handed from one step of an access to the next. In libparam
and the loaders it is order and leftovers: loaders that run in an order the input
decides and share fields, a scanner whose global state outlives a load, arrays that grow
while they fill, values that are shared where a copy is meant.

## Inventory

| Component | State it keeps | Operations | What makes it correct | Here |
|---|---|---|---|---|
| G4 slip list (`layout_g4.c` 80-182, `layout_g4_load.c` 417-444) | array of (offset, running count) | load; `slipcount`, `slipcount_rev` over `slipcount_bins` | the two searches are each other's inverse, never leave the array and end | modelled, proved |
| G4 layout (`layout_g4.c`) | tree of track patterns and runs, slips, remaps | `ltop`, `ptol`, sectors per track, track bounds, widths, skew, `atop`, zones, tracks by absolute cylinder | every map agrees with the unrolled tree and with the others; searches end | modelled but for the loader and stubs; translations, bounds and skews proved for files that tile the disk |
| mech_g1 (`mech_g1.c`) | parameters only; states are passed in and out | seek, head switch, rotation, latency, transfer, positioning, access | parts tile the run; time and angle stay in step; assertions hold; loop ends | modelled over G4, but for the averages; proved |
| seek curves (`mech_g1_seektime.c`, `sqrt.c`) | seek type and tables | six seek functions, two integer roots | answered from what was loaded; longer seeks take longer; interpolation stays on the curve | modelled |
| mech_g1 loader (`mech_g1_load.c`) | fields of a struct from `malloc` | one loader function per parameter, two readers of tables | any order the dependencies allow gives the same seeks; arrays are not overrun | modelled but for loaders of one number; tables and which fields decide proved |
| power tables (`mech_power_load.c`) | four growing tables | four readers, three look-ups | the same as for the seek table | modelled, proved |
| calculators (`hdd_calc_app.c`, `hdd_model_calculator.c`) | input and output structs, energy sums | one calculation per access | the sector is under the head when it says; errors exactly where meant; every moment charged once | modelled, proved |
| drivers (`test_disksim_mechanical_model.c`, others) | trace position, time, the last access | replay a trace, ask for one LBN | each access starts where and when the last one ended; a refused access stops the replay | three drivers modelled; menus and `dm_testsuite.c` are not |
| G1 layout (`layout_g1.c`, `_load.c`) | bands, slips, defects, ten sparing schemes | loading counts the bands; the same interface as G4 | bands use up their sectors; maps agree with the tables and with each other, per scheme | modelled but for reading and stubs |
| G2 layout (`layout_g2.c`, `_load.c`) | table by LBN, table by track, skews | reading the raw file, `precompute_skews`, the same interface | the same, and skews follow the LBNs | modelled but for the text of the file; translations, bounds and skews proved |
| libparam (`util.c`, `libparam.lex`, `libparam.y`, `mod.pl`) | module and type tables, top-level things, include stacks, search path | register, load a file, make instances, override, load parameters, unparse, release | every loader once, after those it needs; includes read in place; copies are copies; what is unparsed reads back | modelled but for characters and generated tables; loading proved |
| disk loading, arithmetic (`dm_load.c`, `convert.c`) | none | fill `struct dm_disk_if`, fixed point | - | the integer roots only |
| marshalling (`marshal.c`, `pbn.c`) | none | struct to buffer and back | round trip | left out: no program calls it |
| `myutil.c` | - | an earlier copy of `util.c` | - | left out: not built |
| libddbg, layout tools, `utils/` | - | trace output, offline scripts and text conversions | - | left out |

The layout calls nobody. The mechanics call the layout (widths, skews, bounds, both
translations) and, for access times, themselves through the interface. A client keeps
a `struct dm_pbn` and a `struct dm_mech_state` and passes them between calls; the
calculators are such clients, and what a driver carries from one access to the next are
the fields of their structs. libparam calls the loader functions of a module through
tables that `mod.pl` generates from the `.modspec` files; a loader may call libparam
again for a block inside its block.

## Modules

### Layouts

**`SlipList`** is `g4_load_slips`, `slipcount_bins`, `slipcount` and `slipcount_rev`
with the C locals as variables: one action is one turn of a loop or one level of the
recursion. `LoadEntry` is the loading loop, `AddZeroEntry`/`NoZeroEntry` what follows
it, `Ask` a call, `Bisect` a level of the bisection, `BinsReturn` its return with the
caller's assertion, `Walk`/`WalkReturn` the loop of `slipcount`, `RevReturn` the test of
`slipcount_rev`. The files and the addresses are constants of any size.

**`SlipOracle`** is what the list is for, without arrays, counts or searches: a set of
skipped addresses; an LBN's address is the one with that many usable ones before it.
`SlipList` implements it (`ImplementsOracle`). **`SlipSearch`** is the same pair of
searches as operators, for the modules built on top; `SearchAgrees` of `SlipList` says that
they return what the actions return.

**`G4Map`** has the address maps of a loaded G4 layout as operators of a disk `d`, one
per function, with the name of the function: `LbnPath` and `PbnPath` are the two uses of
`g4_r`, down the tree to the track pattern, and `ltop`, `ptol`, `g4_skew` and the others
add up what they find on the path. The C loops that only sum or search are sums and
searches here. Recursion is in recursive functions. `WellFormed` is what the maps take for
granted of a layout file and the loader does not look at: an entry of the index stands for a
node before its own, lengths are not 0, tracks count their sectors from 0 and have no more
than there are angles, and node n of the index is the child of zone n. It was compared with
the six G4 layout files of the repository, and holds of all of them but for the
empty list of slips of one (see *Departures*).

**`LayoutG4`** is a client calling the layout. Most calls are one step; `g4_track_bound`
is a step for its start and a step for each turn of its two loops, whose sector counter
wraps around an `int` of `IntMax`. The client's `struct dm_pbn` is a variable: calls
read it and fill it, and the client may set it to anything (`Point`). `from` remembers
which LBN it came from, if any. `DisksAssumption`, that the disks are `WellFormed`, is
evaluated by TLC.

**`DmLayout`** is what the layouts share: results, kinds of translation, and the circle.

**`G1Map`** has the address maps of a loaded G1 layout as operators of a disk `d` and one
of its bands `b`. The sectors of a band are numbered, and each scheme's `ptol_*`,
`ltop_*` and bounds is a few steps on that number: off the defects, off the slips, off
the spares, and back. The code repeats these steps in every function; here each is an
operator (`Undefected`, `Unslipped`, `PtolOf`, `PassedFrom`, `Remapped`, `PlaceAt`) and
the schemes say what differs: which slips count and where spares are. The functions for
`NO_SPARING` are left out, since the loader fails an assertion when it counts the
sectors of such a disk.

**`LayoutG1`** loads a disk, one band a step (`CountBand`, `RefuseBand`, `NumberBands`),
and then serves a client as `LayoutG4` does, one call a step. Unset variables of the code
are choices: `Unset` for the counter that `g1_track_boundaries_sectperrangespare` tests
and `ZoneIdUnset` for the pointer that `g1_get_zone` tests. **`G1Disks`** builds its disks
and says, from the tables alone, which sectors hold LBNs.

**`LayoutG2`** loads a disk from a raw file: a step for each extent, each defect and each
turn of the loop of `precompute_skews`; what this loop writes behind its array for the last
cylinder is read by no function and left out. Then a client calls, one call a step. A 64-bit address returned
through an `int` is taken modulo `IntRange`. The layout is a record that every function has
as its parameter, and `Turns` is the `bsearch` of the C library, a turn of its loop at a time.
`WellLaid` (`FilesAssumption`) says which files are loaded: lines in the order of their LBNs,
as `bsearch` needs them, no two of them with a sector in common, on the disk and in its zones.
Room for the lines or defects is not assumed.

**`SmallDisks`** builds the disks of the runs over G4, and says where their LBNs are by
unrolling the tree copy by copy, in layout order, without any of the code's searches:
the reference the maps are compared with.

### Mechanics, tables and calculators

**`MechG1`** has the mechanics as operators over `G4Map`: a state is cylinder, head and
angle. `dm_rottime` and `dm_rotate` keep the precision they have in C by the two
constants `TimeGrain` and `AngleGrain`: the shifts by 20 and 24 bits that drop the low
12 and 8 bits of an angle. The seek curve is a constant function of distance. A failed
assertion, or a division by zero, is `ok = FALSE` in the result.

**`MechService`** is what the clients of layout and mechanics take for granted, as operators
of a disk: `FindsLbns` (every LBN has a sector and is found on it), `BoundsTracks` (the bounds
of an LBN's track end with the last LBN on it), `EvenTracks` (sectors follow each other at
equal angles), `TracksHaveWidth` (no sector but a track's last is without a width),
`SeeksTakeTime`. `Access` and `HddCalc` assume those they need. `Tiled` is the shape of a layout
file from which all of them but the last follow, for a file of any depth and size (see *What is
proved*): the entries of a node follow each other from address 0, stand for whole copies of a
track or of a node, and have no track in common; slips are in order, and none is so near to the
end of the disk that `layout_g4.c:403` takes the wrong address for the highest. There are no
remaps. It was counted on the six G4 layout files of the repository, and holds of all of them but for the
empty list of slips and the number of blocks of one (see *Departures*); TLC evaluates it on the
disks of `Access`. A cylinder number is up to
`d.cyls` (`Cylinders`), because the model files give the number of the last cylinder for the
number of cylinders.

**`Access`** is a client of the mechanics: `PosTime` is `dm_pos_time_g1`, `Begin` and
`Part` are `dm_acctime_g1`, one part (one turn of the loop over tracks) a step. `parts`
is a history of what each part covered. The code's `result_state` has no counterpart:
`dm_acctime_g1` never writes it.

**`SeekCurves`** has the loaders of mech_g1's seek parameters, one action each. Which
order they run in is libparam's business: here any order is possible that the DEPEND
lines of `mech_g1.modspec` allow. The struct comes from `malloc`, so fields no loader has
written are `Unset`, and a result computed from one of them is not `ok`. One field is
written by three loaders (seek type, constant seek time, full seek curve), which is what
makes the order matter. When the block is loaded, `SeekTime` asks one of the six seek
functions, with its head switch and write delta. `TypeAfter` is what that field holds after
the first loaders of a sequence, for the properties. `BlocksAssumption` is what the parser lets
through: lists of elements of any type, and the required seek type. The integer roots of `sqrt.c` are bit by
bit, as in C, with narrower integers.

**`Tables`** reads the six kinds of measured table line by line into arrays that double.
The six readers are one set of actions with a `Format` that says what a reader asks of
`sscanf`, what it stores, and whether it counts a line before storing it.
**`TableLookup`** is the search that four functions share, with its interpolation and
extrapolation; memory that nobody wrote is `Junk`.

**`HddCalc`** is the two calculators and the three drivers, over `MechG1` and `G4Map`.
A driver reads a line (`ReadLine` and, at the end of the file, the same line again), the
calculation is one step with all early returns in order, and the driver goes on with what
the calculation left, or closes its files. The driver that asks shows the user where the LBN
typed is; `held` says whether its struct holds a place yet, without which that may not return. An energy is kept as the times it is the sum
over, by the power that multiplies them.

### libparam

**`ModSpecs`** is data: the parameters of diskmodel's modules with their types, and the
DEPEND lines, from the generated headers and the `.modspec` files.

**`LoadParams`** is `lp_loadparams`, one action per branch of its loop. `TOP` and `FOUND`
are labels of `goto` in the code and values of `pc` here; `c` is the index both loops
share, `pnum` the index of the loader, which keeps its value across the search for a
dependency; `stack` the array of `LP_STACK_MAX` in which parameters wait. A parameter's
value is the name it was written under, so that `log` says which loader got which value. That
it also moves the scanner to the directory of the block's file is in `LpFiles`.

**`LpFiles`** is `lp_loadfile`, `lp_search_path` and the scanner's include stacks, over
files made of tokens. A program may load several files; the scanner's start condition,
its buffer and its stacks live on between loads, and so they are variables that
`LoadFile` resets as far as the code does. An index past the end of a stack is a crash.
`Item`, `Block` and `Instantiate` are the three top-level things. An instantiation is made at
once, in the middle of the file: its block's loader calls `lp_loadparams`, which sets `lp_cwd`
to the directory of the file the block is from (`MovesTo`), and the scanner looks for the next
names there. `away` marks the things that moved it off the directory of their file. Blocks are
without blocks from other files inside, which would move it on to theirs.

**`LibParam`** is the rest of `util.c` and the actions of the grammar: registering modules,
the growing table of types, reading blocks, lists and instantiations, copying,
overriding, checking and converting types, unparsing. Values, lists and blocks are cells
of a memory, so that sharing a cell and copying it differ. `Slots` is the first size of
lists and blocks.

### Model checking

The `MC` modules (**`MCSlipList`**, **`MCLayoutG4`**, **`MCLayoutG1`**, **`MCLayoutG2`**,
**`MCAccess`**, **`MCSeekCurves`**, **`MCTables`**, **`MCHddCalc`**, **`MCLoadParams`**, **`MCLpFiles`**,
**`MCLibParam`**) hold constants, and references that say what is meant without the code's
algorithms. Properties stand in the module they are about; those that need such a reference,
in the `MC` module. A property of a run is a conjunction of the parts above it, each with a
comment of its own. In `MCAccess` and `MCHddCalc`, `PlacesAgree` is an assumption TLC
evaluates: `ltop` answers with the sector that unrolling the tree gives, so that properties
which speak of `SectorOf` speak of the right sector.

Operators with the comment *Faulty variant* or *A mutant* are not used by any
specification. Each is what a plausible mistake in that piece of code would make of the
operator it stands before, and shows which property notices.

**`SlipListProofs`**, **`LayoutProofs`** (G4 and the bands of G1), **`LayoutG2Proofs`**,
**`MechServiceProofs`**, **`AccessProofs`**, **`HddCalcProofs`**, **`TablesProofs`** (with the seek
curves) and **`LpProofs`** (`LoadParams` and `LpFiles`) have the theorems, see below.

## Runs

Eleven runs check that properties hold. Deadlock is not checked where a failed assertion,
a crash or the end of the input ends the program for good.

*`SlipList`* (66 thousand states): every ordered list of up to three slips with offsets
up to 4 and lengths up to 2, and addresses up to 6, so that adjacent slips, slips of
length 0, a slip right after the LBN and addresses past the last slip all occur, and
the bisection goes through lists of one to four entries with the entry the loader adds.
Lists must be ordered and, for `slipcount_rev`, leave address 0 usable, as in every
layout file of the repository (but for the empty ones). `AnswersRight` also says that
what one search adds the other takes away.

*`LayoutG4`* (24 thousand states): nine disks of two heads and two zones with
serpentine runs and a zone of two copies: a plain one, slips in, at the start and at the
end of tracks and over a whole track, remaps to spare tracks, and spare tracks alone.
Every LBN, one past either end, every sector address in and just outside the disk,
every angle. A client asks for the bounds of a track
only with an address that `ltop` filled, as the library's own callers do (`BlindBounds`
is FALSE). Sectors have at least two to a track, because the angle of a whole circle is
0 in 32 bits.

*`LayoutG1`* (464 thousand states): 166 disks of two heads, two bands and a cylinder
between them that belongs to neither. Each sparing scheme but the two with spares in
front comes with slips (in a track, across the end of a track, of a cylinder), with a
defect and its spare, with and without dead space in the first band, with heads in the
same order on every cylinder and turned around on every second one; ranges are one
cylinder or two. A circle of 26 leaves a remainder on three-sector tracks and none on
two-sector tracks. Every LBN and the one past the end, every sector, a few angles and
widths. The properties compare with the reference of `G1Disks` (`IsMeant`: the disk is
one the reference describes). The disks are chosen so that the tables mean what the code
reads in them; what does not hold on other disks is listed under *G1 departures*.

*`LayoutG2`* (7 thousand states): thirteen raw files of up to five cylinders: serpentine
over two zones, with a slipped sector, with remapped ones, with a cylinder and LBNs that
are nowhere, with one head, with a last cylinder that has no extents, and with more extents
or defects than was guessed, so that arrays grow. Every sector of the disk and those just
outside, LBNs in, between and past the zones. `ExtentsAsMeant` compares both translations
with the lines of the file. `SkewsAsMeant`: each new track is turned by the head skew, the next
cylinder by the cylinder skew, and a zone begins with its own; it is silent where the code hands
no skew on (see *Departures*). `BoundsAsMeant`: what the bounds of a track are and which calls
fail an assertion, but for sectors per track of a cylinder in no zone. A circle of 24 makes skews of
3, 5 and 7 wrap around.

*`Access`* (38 thousand states): five disks, one of them of four sectors to a
track, one with a whole track slipped and one with slips on either side of a track end; runs of
up to six LBNs, which go over up to three tracks, a head change, and a cylinder; reads
and writes, zero latency or not; seven positions of the head. Seek times are shorter and
longer than the head switch, and than the time of half a turn. `CoversTheRun`: the parts of
an access lie end to end, each on one track and neighbours on different ones, and make up
the run without an assertion failing. `TimeAddsUp`: each part is timed from the track the one before
left the head on, and from an angle as far around as the time so far says, but for one angle of
rounding a part; the breakdown of an access to one track adds up. Where the head is in the end no
caller is told (see *Departures*). `LatencyServes`: seek and latency end with the first sector
under the head, in less than a turn; reading at once never waits longer. No liveness: the
loop ends because every turn comes closer to the end and none goes past it, which is the
action property `TurnsForward`.

*`SeekCurves`* (437 thousand states): blocks of all six types, with every parameter there
or missing, parameters of other types beside them, and lists of first ten seeks and HPL
numbers that are short or hold a wrong element, loaded in every order. `FieldsDecide` says
when a seek is computed from loaded fields only: of a complete block whatever the order, of
the first ten seeks exactly when the field three loaders share said so when the list came.
`SeeksGrow` is about the computed curves and the roots, compared with the definition of an
integer root up to six bits. Distances reach past the ten listed seeks and past the corner
of the HPL curve. Times are ten units to a millisecond, so that divisions leave remainders.

*`Tables`* (73 thousand states): every file of up to three lines of seven kinds (not a
point, a point of two fields, of four) under each reader, with a header that says 0, 1 or
2 or with none, and arrays of 2 that double; then every look-up at, between, before and past
the points. `StoresAsRead`, of all six readers: the points of the file are in the arrays in
their order, whatever lines stand between them and however often the arrays grew, counted to
the last (or to the one before it, by the readers that count first), and nothing is written
outside when no reader counts a line it does not store. `AnswersFromCurve`, of the tables in
order and of reads and writes: a place has an answer exactly when the curve through the
points has one, at a point the point's, elsewhere less than a unit off the line through the
two points next to it. Writes between two points are left out where reads and writes differ at
the first of them (see *Departures*).

*`HddCalc`* (93 thousand states): traces of two accesses (and the last once more) over four
disks, in each driver, of one sector and of a track, from LBNs all over the disk and past
it, arriving before and long after the last access ended, so that each idle mode is
reached. `SectorsArrive`: at the end of the latency the target is under the head, and the
sector after the run at the end of the additional one unless the seek took longer.
`RefusesAsMeant`: runs that leave the disk or go on past the next track are refused and others
are answered, and a replay goes on from no further than the LBN after the disk; nothing is said
of a run longer than the target's track, nor of one that just ends with the next track or the
disk (see *Departures*). `TimesTile`: waits are not negative, spindle energy covers each
moment once, idle energy the whole wait unless it ends in standby mode. The last part depends on the driver handing on
the ends of the seek and of the access from one call to the next.

*`LoadParams`* (68 thousand states): every order of up to three parameters and an unknown
name, with every acyclic set of dependencies, with and without an empty slot; five parameters
with at most one dependency each; every order of those parameters of four of diskmodel's modules
that have DEPEND lines. A stack of 2 fills up and does not, and the loop jumps back over
several parameters. `OnceAfterDeps`: no loader twice, none before those it needs.
`LoadsNextDoor`: if each parameter stands after what it needs, or just before it, all are
loaded with their own values. Of other orders nothing is said: `DOC:227-229` means them to work,
and in most the loop ends early or a loader gets another's value (see *Departures*).

*`LpFiles`* (148 thousand states): two loads of files that include one of three names,
present in up to two of seven places, relative to the file, to the program, to a library
directory, or absolute; missing, cyclic (which runs past a stack of 3), with a syntax error
before or after the include; with and without a search path; and files with a block and
instantiations of it before and after an include, in one load or the next. `ScannerInStep`: until
an instantiation moves the scanner, names are looked for from the directory of the file they are
in, at any depth and after any load, and the two stacks belong together; only a load that gave up
leaves directories behind; the next load begins with what such a load left unread, or, after a
file that was not found, gets nothing. `ReadsAsAsked` compares the loads before the first that
fails with the files read in place, each where the comment at `libparam.lex:164-168` looks for it;
loads in which the code looks elsewhere are left out (see *Departures*). `UnparseRecreates`: where
a name is found under the very words of the file, the file is written as it was.

*`LibParam`* (63 thousand states): files of two or three things (block definitions that
inherit, nest, list, repeat a parameter, name an unknown module; instances by range, by
name, or malformed; a topology), six lists of overrides, and calls after loading; three
slots, so that arrays grow. `InstancesAsMeant` compares what a loader is given with the
text: inherited parameters, then overrides in order, in the module's types.
`UnparseReadsBack`: each unparsed block, read alone, reads back as the same block with what it
had inherited; a file is not read back as a whole. `KeepsTables`: the tables
of things, types and values hold together while a file is read, and release frees every
cell once at most. `SpecsUntouched`: making an instance changes no block that others are
made from.

Liveness (`EveryCallReturns`, `BoundsEnd`, `Ends`, `LoadsEnd`) assumes weak fairness of the
program's own steps: a call that has started runs on, in a sequential program that does
not wait for anybody. Nothing makes a client call.

One run refutes a statement of the code's own tests: *`LayoutG1Slip`*, translating back and
forth on a G1 disk with a slip under `SECTPERCYL_SPARING`; the finding in `PROJECT.json`
quotes it.

## Departures

What the code does otherwise than its comments, documents or tests say is kept in the
definitions as the code has it.

*G4 and mechanics.* With an empty list of slips, as in `G4_LBA_64bit_4T.layout:1545`, the
first search fails its assertion (`layout_g4_load.c:436`). Asked for the bounds of a track
without LBNs, `g4_track_bound` should answer DM_NX (`dm.h:247`) and does not return
(`layout_g4.c:656`; `BlindBounds` = TRUE). Slips near the end of the disk break translating
back and forth (`layout_g4.c:403`). The first LBN of a zone is put in the zone before
(`:916`). `slipcount_rev` does not look for a slip at address 0, and gives
a spare's count of -1 the meaning of a slipped address; `ltop` stores nothing through
`remapsector` for a remapped LBN (`layout_g4.c:426`, `dm.h:200`); `g4_spt_lbn` looks for a
remap of the shifted LBN (`layout_g4.c:601`); `g4_sector_width` ignores `num`, and gives
0 on remapped sectors (`layout_g4.c:699`); track patterns that keep their first sector
back lose LBNs (`layout_g4.c:273`); the cylinder and head that
`g4_get_pbn_by_abs_cyl` gives for the first track of a run are those of one past the end
of the run before (`layout_g4.c:1034`), though the start LBN is right; `g4_track_bound`
answers DM_NX when the given sector is slipped (`layout_g4.c:680`, `dm.h:247`) and asserts that a spare track's LBNs are in
order (`:676`); the last angles of a track whose sectors do not divide the circle are in
no sector (`:786`). The `Number of cylinders` in the model files of G4 disks is the number of the last
cylinder (80512 in `valid_hdd_models/maxtor300g.model:3`), so that the zone which `layout_g4.c:831`
and `:862` return ends a cylinder early; `diskmodel/test_hdd_mecha/G4_LBA_64bit_4T.model:4` counts
more blocks than its layout holds. The breakdown of an access over several tracks does not add up
(`mech_g1.c:481` against `:379`); the transfer of any number of sectors takes one sector's
time (`:795` against `:765`); an angle is read as a sector (`:304`); a zero-latency access
leaves out its additional latency (`:328`); `dm_acctime_g1` has a parameter for the state of the disk afterwards
that `dm.h:456-458` says is filled in and `dm_testsuite.c:346` goes on from, and never writes it
(`:381-489`), so the model has none; latency functions assert that a run fits the
track (`:515`), where they are to read up to its end (`dm.h:409-414`), and that the rest of a track has a width (`:582`), which can fail on
a track with a remapped sector, or with two at its end that hold no LBN (`TracksHaveWidth`
leaves such disks out).

*G1 departures.* The properties of `LayoutG1` leave them out, by the choice of disks or by a
condition:

* A slip under `SECTPERCYL_SPARING` sends the last LBN of the cylinder to a sector of the
  next one instead of to a spare (`layout_g1.c:1554`): two LBNs share a sector and
  `RoundTrip` fails, as `LayoutG1Slip` shows on `SlippedCylinder`.
  `valid_hdd_models/st41601n_validate.model` has such slips.
* Spares in front (`..._ATFRONT`): `ptol` takes them off (`:680`), `ltop` does not add them.
* Under `SECTPERTRACK_SPARING` a slip's track is told by comparing a sector number with a
  head (`:570`), right only at the first sectors of a cylinder.
* Under `TRACK_SPARING` the first spare track counts as in use (`:891`), so `ptol` gives its
  sectors LBNs of the next band; with dead space the bounds go past the band's end.
* Under the zone schemes with dead space `ptol` does not find the band's last LBNs (`:830`).
* To-end schemes of cylinders: `ptol` gives sectors past the band's end LBNs of the
  next band, and bounds count too many.
* The bounds of a range when the first LBN is not asked for, as in `mech_g1.c:421`, read an
  unset counter (`:1174`).
* Angles: slips move the skew of a track, and `atop` takes them off again, counting from
  another place (`:417`); with a skew of part of a sector `ptol_0t` does not undo `ltop_0t`.
* Cylinders of no band fail an assertion (`:182`), where `dm.h:119` has `DM_NX`.
* `g1_get_zone` tests a pointer before setting it (`:1951`).

*G2.* The skew is to go on from the previous cylinder (`layout_g2_load.c:237`) and to account for
all skews (`dm.h:264-265`). The cylinder after the first of a zone loses the zone's skew, as does
the one after a cylinder without extents, and the last cylinder's switch is written behind the
array (`layout_g2_load.c:242-247`); `SkewsAsMeant` leaves these out. `st_pbn` on a cylinder of no
zone is to answer for the nearest lower zone (`layout_g2.c:249`) and fails an assertion, since the
search it starts with does; `AbortsWhen` leaves it out. Angles of a cylinder of no zone
and LBNs of none fail an assertion too. Two slots of the interface are exchanged
(`layout_g2.c:490`); calls through them are undefined and not modelled.

*Seeks and tables.* `dm_mech_g1` comes from `malloc` with fields no loader need set
(`mech_g1_load.c:130`), and seek type, constant time and full curve share one
(`modules/mech_g1.modspec:72-160`). `linear` is to use single, average and full seek times
(`modules/mech_g1.modspec:99-101`), and the average decides nothing. Writes between two points
are interpolated from the read time of the first (`mech_g1_seektime.c:375`), where
`modules/mech_g1.modspec:122-126` promises linear interpolation; `AnswersFromCurve` leaves them out
where the two times differ. Three
readers advance their counter before they store (`mech_power_load.c:209`, `314`, `399`), so
that the last point is not seen, and one reads a double with `%f` (`:315`), which leaves it
as it was.

*Calculators.* A run that ends with the next track or with the disk is refused
(`hdd_calc_app.c:162`), with an error for more than two tracks or for an LBN off the disk
(`dm.h:568-569`); one longer than its track fails an assertion before an error
is returned, where `dm.h:409-414` means what the track holds to be read; `RefusesAsMeant` leaves
both out; after a seek that takes longer the next sector is missed, without the
turn being counted (`:203-218`). The power calculator starts from another angle, because
`DEBUG_MATCH_MAXTOR_TRACE` is not defined in its file (`hdd_model_calculator.c:91`,
`hdd_calc_app.c:42`). In standby mode, the time before it is charged as the recovery time
(`hdd_model_calculator.c:383`) and not as that of the timer, as the comment at `:356-360` has it;
`IdleAddsUp` leaves this mode out. The window of spindle energy includes the
time that idle energy is charged for. `while (!feof)` replays a trace's last line
(`test_disksim_mechanical_model.c:183`), an error closes the output twice (`:230`, `:242`)
and `test_hdd_model_one_lba` does not look at it (`:112`); asked about an LBN off the disk before
any on it, that driver looks for the bounds of a track in a struct nobody has filled (`:81-98`), which need not return; `nFlagCalculationError` is never
cleared.

*libparam.* After the search for a dependency the index of the loader is not computed again
(`util.c:1312-1339`), so that a block in another order loads a value by the wrong loader or
leaves one out, where `DOC:227-229` promises that a stack takes care of dependencies.
`lp_loadparams` overwrites the scanner's current directory (`util.c:1299-1304`), so that after an
instantiation of a block from another directory names are looked for there. A relative name with
directories is looked for under these directories twice, and an absolute one under its own
(`libparam.lex:172`, `util.c:1406`), though the comment at `libparam.lex:164-168` has the last
part of the name appended; from the second load on, only the first directory of `LP_PATH` is
searched. Unparsing writes the path at which a file was found, which is not found from there
when it is read again unless it is the name itself; `DOC:451-454` says that the file is recreated
exactly. A block made from
another has NULL slots that are dereferenced unless the slots are filled (`util.c:966-984`,
`DOC:67-77`). A load that gives up leaves the scanner's stacks, start condition and input
for the next.

## What is proved

TLAPS proves the following for all values of the constants.

**`SlipListProofs`**, for slip lists of any length and any addresses, from the assumptions
`FilesAssumption` and `AddrsAssumption` of `SlipList`, which say that lists hold
integers and that offsets and addresses are not negative:

* `TypeCorrect`: `TypeOK`, so the bisection's limits stay within the array. Inductive
  after one strengthening (`TypeInv`): the index a search holds is one that may be read.
* `BisectionBrackets`: everything up to `low` starts at or before the address,
  everything from `high` on after it.
* `SlipcountLands`: `slipcount` moves an LBN past the slips before it, no further.
* `SlipcountRevFlags`: `slipcount_rev` flags slipped addresses and counts for the others.
* `NoAbort`: with lists in order, which are not empty, the assertion never fails.
* `SearchesInvert`: what one search adds is what the other takes away.
* `SearchesStayInside` and `SearchesAnswerRight`: the properties of the run,
  `StaysInside` and `AnswersRight`, from those above.

The argument is one inductive invariant, `IInv`. Its first part says what loading has
done so far: entries are ordered, counts never fall and each slip ends before the next
starts. The second part follows a search: the bracket during the bisection, then for
`slipcount` that the walk has passed exactly the entries it counted and that the moved
address is past the last of them. None of the properties is inductive by itself:
the counts returned mean something only because the list was loaded in order, and the
walk stops at the right entry only because the bisection started it at or before it.
`NextInv` takes the actions one by one; the theorems follow from `Invariance`.

The same module has, for lists that are in order and leave sector 0 usable,
`SearchesRefineOracle`: `SlipList` implements the safety part of `SlipOracle`. A search's
answer is an entry of an array, the oracle's the size of a set; `CountInv` joins them: the
running count of an entry is the number of slipped addresses up to the entry's end, while
loading as well as in the finished array with or without the zero entry. Loading adds an entry
at a time, so this needs no induction over the list: `EntryAdds` says what one entry adds.
`ShiftUnique` says that only one address is moved to by as much as is slipped below it,
`NextRefines` which steps are stutters and which answer.

Last, `SearchesAgree`, the run's `SearchAgrees`, for every list, in order or not: the layouts
read a search as one step (`SlipSearch`), and lose nothing by it. `Bins` of `SlipSearch` is a
recursive function, and that it is what its equation says needs an argument of its own, for
which there is no induction principle at hand: `LevelsEnd` takes a shortest interval on which
it is not, and bisecting leads to a shorter one. `SearchInv` then says that a bisection under
way will find what the function finds from the start, and that a walk has passed no entry at
which it should have stopped.

**`MechServiceProofs`** is a library of lemmas about the mechanics, for any circle, period and
grains that `MechAssumption` allows. Angles are compared modulo the circle (`Cong`);
`RottimeTurns` says that the time of an angle turns the disk by that angle but for the two
grains, `TurnOfSum` that turning by two times is turning by their sum but for one grain,
`SeekAndWait` and `Waits` that seek and latency end over the sector, `WaitTooLong` and
`NextIsNearest` that reading at once is never the longer wait.

Its second half is about the index trees of `G4Map`, of any depth, width and number of copies,
from `WellFormed`. There is no induction principle to cite for what a recursive function
returns; `OneByOne` takes its place (numbers reached from 0 one by one are all numbers, since
there would be a least one missing). `LbnPathsIs` and `PbnPathsIs` say by it that the two uses
of `g4_r` are what their equations say, as the children of a node come before it,
`LbnPathsType` that what they return is a path (`IsPath`: nodes of the index, then a track, each
with an address inside), `SumsAre` the same of the sums over a path. `Paired` follows the
search for two sectors of a cylinder and head side by side: they take the same entries all the
way down (`PbnPathsPaired`), so that only the sector on the track tells them apart
(`TrackTurns`).

* `TreesHaveEvenTracks`: a well formed layout file without remaps that finds its LBNs has
  `EvenTracks`, the promise about tracks that `Access` and `HddCalc` start from.

**`LayoutProofs`**. The first theorem is about one layout file, of any depth, width and number of
slips, and rests on no constant but the circle; the next three are about any set of well formed
layout files, from `DisksAssumption`, `ClientAssumption` and `CounterAssumption` (a track has no
more sectors than an `int` can count):

* `TiledTreesServe`: a disk that is `Tiled` keeps `FindsLbns`, `BoundsTracks` and `EvenTracks`, and
  `TracksHaveWidth` if its LBNs fill the tree. These are the promises `AccessProofs` and
  `HddCalcProofs` start from. Node by node, from the tracks up (`OneByOne` again), `AllServe` says
  that the search by address goes through entries that contain what is looked for, that the search by
  place takes the same ones on the way back, as no other entry has that cylinder and head
  (`TracksApart`), and that two addresses share a track exactly when they are in the same copy of
  it. With slips, `ShiftsGrow` says that shifting an LBN keeps the order, and `RevUndoes` and
  `CountUndoes` that the two searches of the list undo each other; where `g4_r` cuts off addresses
  past the end of the disk, `RoomForLast` keeps it from cutting too many. `GreatestBelow` then
  gives the last LBN of a track, slipped sectors at its end or not (`TrackEndIs`).
* `BoundsOfTiledDisks`: the run's `BoundsAnswer`, as long as the disk is `Tiled` and `BlindBounds`
  is FALSE. `BoundInv` says that neither loop of `g4_track_bound` has passed the sector the client
  got from `ltop`, which has an LBN, so that both stop before the counter wraps around or the
  assertion fails, and that sectors passed have no LBN; `TrackInOrder`, from the tree, that LBNs
  grow along the track, so that the first sector that has one has the first.
* `TiledDisksTranslateBack`: `RoundTrip`, a part of `PlacesAsMeant`, from the same invariant.
* `SkewsAreUndone`: the run's `AtopUndoesSkew`. `SkewInv` is what a client's `dm_pbn` may be
  after any sequence of calls: not a sector of the disk, but numbers, whichever of `ltop`, `atop` or
  the search by absolute cylinder wrote it (`LtopType`, `TrackInZoneType`, `WidthType`); and that
  the skew the client was told is still that of its `dm_pbn`. Then `TrackTurns` gives both skews
  along one path and `SkewUndone` the division, with the circle a multiple of the angle or not.
* `PlaceOfNumber` and `NumberOfPlace`, of a G1 disk that has heads and a band that has sectors,
  without further assumption: the number of a sector in its band and the sector at a number are
  each other's inverse, with heads turned around on every second cylinder or not. Every search
  of the G1 layout goes through these numbers. `DivisionOnly`, that quotient and remainder are
  the only ones, and `DividedTwice`, that dividing by a product is dividing twice, carry the
  argument.

**`LayoutG2Proofs`**, for any set of raw files of any length, from `FilesAssumption` and
`G2Assumption` of `LayoutG2`; its invariant is `G2Invariant`:

* `ExtentsAreMeant`: the run's `ExtentsAsMeant`. Its heart is `BsearchFinds`: as long as an LBN has
  a node, a turn of the search keeps that node between its limits and lets them come closer
  (`HalveCloses`), so that as many turns as there are nodes are enough; `SidesOf`, that nodes
  before it end before the LBN and those behind it begin after, is what the order of the lines
  is for. `Turns` is a recursive function, and `TurnsAre`, that it is what its equation says, is
  shown by going up from 0 one by one. `LbnAtPlace` is the way back: of the
  extents of a track only one has the sector, since none have one in common.
* `BoundsAreMeant`: the run's `BoundsAsMeant`. `LoadInv` says that loading reads the lines in
  their order into a table that is a prefix of the file, that the table by track is that table, and
  which extents and skews `precompute_skews` has stored, and that its zone pointer stays in the
  array because some zone reaches every cylinder; `Truthful` says which function of the
  layout the answer at hand is. `MappedAreMeant` and `TrackGrows` lead from the two loops of
  `track_boundaries` to the lines of the file, and `ReachedIs` says that the walk of
  `pbn_skew_new` fails its assertion only on a track without extents.
* `SkewsAreMeant`: the run's `SkewsAsMeant`. `SweepInv` follows the turns of `precompute_skews`
  over a file that goes through the cylinders upwards: the zone pointer is at the zone of the last
  cylinder seen (`ZoneMoves`), a cylinder has its first extent (`FirstsFound`), and its skew is
  that of its zone, 0, or what the cylinder before it has handed on so far (`SkewsFound`): its own
  skew, less what the reset at the head of a zone loses, and the switches of its tracks
  (`Carried`); where nothing is lost this is what is meant (`SkewsHold`). `SwitchSumsAre` adds up the same switches as the walk of `pbn_skew_new` does, so
  that `SkewAtIs` and `ModSum` lead from the sum of one track to that of the next.

**`AccessProofs`**, for runs of any length and any head and seek curve, from
`AccessAssumption`: every disk keeps the promises `FindsLbns`, `BoundsTracks`, `EvenTracks`,
`TracksHaveWidth` and `SeeksTakeTime` of `MechService`. TLC evaluates them on the disks of the
run, so that those satisfy them; what breaks them is under *Departures*.

* `AccessCoversTheRun`: the run's `CoversTheRun`. `LoopInv` says that between two turns of the
  loop the parts end right before the LBN where it stands, on another track than that of the
  last part, which is what lets the promises be used for the next turn. `PartsMakeTheRun` is
  the part about end to end.
* `AccessTimeAddsUp` and `AccessLatencyServes`: `TimeAddsUp` and `LatencyServes`. `TimesInv`
  says that after n parts the head is behind the time by up to n - 1 angles of rounding, and
  that the first wait ended over the first sector.
* `LoopTurnsForward`: the action property `TurnsForward`, from the same `LoopInv`.

`SectorAnyStruct` is a lemma all rest on: what `ltop` finds does not depend on what the
caller's struct held before.

**`HddCalcProofs`**, for any trace, user and drive, from `CalcAssumption` (what a trace and a
configuration hold are numbers of their C types) and `ServiceAssumption` (`FindsLbns`,
`BoundsTracks`, `EvenTracks`, `SeeksTakeTime`; TLC evaluates both):

* `CalculatorRefuses`: `RefusesAsMeant`. `CalculateOutcome` takes the early returns one by one;
  `TraceOnDisk` carries from one access to the next that a replay goes on from no further than the
  LBN after the disk.
* `CalculatorTurns`: `SectorsArrive`, from the rotation lemmas of `MechServiceProofs`.
* `PowerTimesTile`: `TimesTile`. `PowerInv` is about what the driver hands on: spindle energy has
  been counted up to the end of the last seek, and the last access is over when the next
  starts, whether that was answered or refused. Of standby mode it says nothing.

**`TablesProofs`**, for files of any length and any room greater than 0 to begin with, from
`TablesAssumption`, and for blocks of any type with lists and curves of any length, from
`BlocksAssumption` and `SeekAssumption`:

* `WritesStayInside`, a part of the next. `RoomInv` is that the counter stays below the room, by
  one more where the reader advances it before it stores; it needs every line to be a point
  there, since lines that are counted and not stored do not make arrays grow. A header of 0 is
  excluded, as doubling leaves it 0.
* `TablesHoldThePoints`: `StoresAsRead`, with the last point not counted by the three readers that
  count first. `TableInv` says which row each line has gone to and how
  many lie behind it; growing keeps them (`GrownKeeps`), and a line adds one slot (`NextSlot`).
* `LookupsFollowTheCurve`: `AnswersFromCurve`, without the writes that start from the read time. The search stops at the first row that is far
  enough. That there is a first is `LeastOf`, from the well-foundedness of the naturals;
  `TruncDivLeaves` bounds what a division in C cuts off, `CurveHolds` takes the cases.
* `FieldsAreDecided`: `FieldsDecide` of `SeekCurves`, in every order of loading. The property is
  about a seek, long after the loaders ran, so the invariant has to remember what each found:
  `FieldsInv` says that the shared field holds what the last of its three writers left, and that
  the ten seeks and the HPL parameters are what their loaders make of their lists given what that
  field held *then*. `Appended` says how a loader moves that history on, and leaves that of the
  others as it was; `OrderInv` keeps a parameter from being loaded twice and puts the two lists
  behind the seek type, so that in a block without the other two writers both find it
  (`TypeAlone`). `StopIs` is the loop over a list that stops at the first wrong element,
  `SearchStops` the search of a measured curve.

**`LpProofs`**. The first part, on `LoadParams`, is for blocks of any length, any DEPEND lines, cyclic ones
included, and any stack, from `NamesDiffer` (no parameter is called like one of the
marks), `StackMaxPositive` and `InputsType` (a block names a parameter once at most and
fills its slots from the front, as `lp_add_param` does):

* `LoadsOnce`, `LoadsAfterDeps`, and `LoadsOnceAfterDeps`, which is the run's `OnceAfterDeps`:
  no loader runs twice, and each after those it waits for. `TypeInv` follows the index
  and the stack, `OrderInv` says that what is loaded is what the log says and that a loader
  about to be called has its dependencies in it; the tests that lead there are several
  actions earlier.
* `LoadsInOrder`: `LoadsNextDoor`. `InOrderInv` says that in a block of that order everything
  before the index is loaded, but for one parameter that may be waiting on the stack for its
  neighbour, and that the index of the loader, stale or not, is that of the parameter at hand.

The second part, on `LpFiles`, is for any files, search path, depth and sequence of loads, from `SetupsType`
(files are finite, those asked for exist, a name stands only after `source`, and NULL is no
file): `ScannerStaysInStep`, the run's `ScannerInStep`, with `DirectoryOfFile` and
`StacksInStep` as parts of it.

* `DirsInv`: until an instantiation has moved it (`Stays`), the current directory is that of the
  file, and the entries of the two stacks belong together counted from the top, though one of them
  is not emptied between loads. Neither is
  inductive alone: going back to a file takes its name from one stack and its directory from
  the other.
* `BuffersInv` and `DepthInv`: every buffer held is a place in a file that is there, and as long
  as all loads ended, both stacks are equally high and empty between loads.
* `CarryInv`: what a load that gave up left is what the next begins with. `GoesOn` follows an
  unread rest until the first thing is read, `WaitsOn` the scanner that waits for a name until
  that load is lost too.

Only model-checked: liveness, that of `SlipOracle` included; `ReadsAsAsked`,
`UnparseRecreates` and everything else that compares with a recursive reference; of the layouts
where sectors are in the unrolled tree, zones and absolute tracks, disks with remaps, and all of
G1 but what is said above (`PlacesAsMeant` and the others of `LayoutG4` and `LayoutG1`); of the
seek curves, `SeeksGrow`, for the root is a search by halves of 2^n; `LibParam`. That a layout file is `Tiled` is for TLC to evaluate, as it does for the small ones.

## Plan

What is left, in this order:

1. `RoundTrip` of `G1Map` per scheme from an ordered table, on top of the numbering of sectors.
2. `MechG1` over `G1Map` and the maps of `LayoutG2` as well as over `G4Map`.
3. G4 layouts with slips and remaps together.

## Not modelled

* `source` inside a block, and blocks from several files inside one: `LpFiles` has `source`
  between top-level things.
* Marshalling (`marshal.c`, `pbn.c` and a pair of functions in each module): no program
  calls it, and what can go wrong in it is the sizes of structs and pointers copied as
  bytes, below what these models tell apart.
* Reading of characters: the generated tables of scanner and parser, `fscanf` of raw
  files, `sscanf` but for how many fields it finds.
* Floating point: conversions, and the last digit of times kept as a double. Models have
  integers in small units.
* `dm_load.c`, which stores parameters and calls the loaders; loaders of one number; the
  loaders' reading of G1 bands and G4 trees.
* The averages of `mech_g1` (a sample over `rand()`), `dm_latency_seq` (asserts false).
* `myutil.c`, which the Makefile does not build; libddbg; the layout tools and `utils/`, offline
  programs that share no state with the library; menus and printing of the test programs.
* Calls whose effect is undefined in C: an absolute track outside every zone, the slots
  with a wrong type or exchanged, and paths of more than 16 nodes.
* Times of half a second and more, which overflow `dm_rotate_g1`'s shift, and accesses
  that run off the end of the disk, on which `dm_acctime_g1` does not return, are kept out
  by the bounds of the runs and by `Request`.
