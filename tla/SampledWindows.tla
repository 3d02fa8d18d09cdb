---------------------------- MODULE SampledWindows ----------------------------
(***************************************************************************)
(* Windows over a slice in seconds, read as samples.                       *)
(*                                                                         *)
(* TemporalDimension keeps a slice as floats.  AxisWindow (data/windows.py)*)
(* computes the number of windows, the starts and the stops apart, each    *)
(* with roundings of its own, and to_index (data/dimensions.py) multiplies *)
(* both ends of a tile by the sample rate, rounds once more and truncates. *)
(* Windows are cut into windows again, rounding upon rounding.             *)
(*                                                                         *)
(* A float is an integer number of ticks, `Second` to the second, that has *)
(* at most `Bits` significant bits.  A tick is the last place of the       *)
(* smallest numbers at hand: sums, differences and products of a float and *)
(* a whole number are whole ticks, and only their significand is rounded.  *)
(***************************************************************************)
EXTENDS Integers, Sequences, SequencesExt, FiniteSets, FiniteSetsExt

CONSTANTS
    Null,     \* the missing slice (Windows); none is missing here
    Bits,     \* the significant bits of a float, 53 in the program
    Second,   \* ticks to the second
    Rates,    \* the sample rates of sources the slice is read from
    Slices,   \* the slices there are at first, intervals
    Cuts,     \* the windows tiles are cut by
    MaxCuts,  \* bound: windows cut one within the other
    MaxTiles  \* bound: tiles

Magnitude(x) == IF x < 0 THEN -x ELSE x

(* The distance of neighbouring floats as large as x.                      *)
Spacing(x) ==
    LET fitting[unit \in Nat] ==
            IF Magnitude(x) \div unit < 2 ^ Bits THEN unit ELSE fitting[2 * unit] IN
    fitting[1]

(* Round to nearest, ties to even: what an operation on floats returns.    *)
Nearest(x) ==
    LET unit == Spacing(x)
        below == Magnitude(x) \div unit
        rest == Magnitude(x) % unit
        up == 2 * rest > unit \/ (2 * rest = unit /\ below % 2 = 1)
        size == IF up THEN (below + 1) * unit ELSE below * unit IN
    IF x < 0 THEN -size ELSE size

IsFloat(x) == Nearest(x) = x

INSTANCE Windows WITH Rounded <- Nearest

(* int(): toward zero.                                                     *)
Truncated(x) == IF x < 0 THEN -((-x) \div Second) ELSE x \div Second

(* TemporalDimension.to_index: the samples of a slice, each end truncated  *)
(* on its own.                                                             *)
Samples(interval, rate) ==
    <<Truncated(Nearest(interval[1] * rate)), Truncated(Nearest(interval[2] * rate))>>

(* More than the roundings on the way to a position of a slice add up to.  *)
Slack(slice) == 4 * Spacing(slice[2])

IsSlice(slice) ==
    /\ IsFloat(slice[1]) /\ IsFloat(slice[2])
    /\ 0 <= slice[1] /\ slice[1] < slice[2]

IsWindow(w) ==
    /\ ValidWindow(w) /\ w.offset >= 0 /\ w.partial \in BOOLEAN
    /\ IsFloat(w.size) /\ IsFloat(w.stride) /\ IsFloat(w.offset)

(* A sample, and a window, are long beside the rounding of a position: at  *)
(* 53 bits, an hour into a recording, positions are 2^-41 seconds apart.    *)
ASSUME SampledWindowsAssumption ==
    /\ Bits \in Nat \ {0} /\ Second \in Nat \ {0}
    /\ MaxCuts \in Nat /\ MaxTiles \in Nat \ {0}
    /\ Rates \subseteq Nat \ {0}
    /\ \A w \in Cuts : IsWindow(w)
    /\ \A slice \in Slices :
        /\ IsSlice(slice)
        /\ \A rate \in Rates : Slack(slice) * rate < Second
        /\ \A w \in Cuts : Slack(slice) < w.size /\ Slack(slice) < w.stride

VARIABLES slice,  \* the slice at first
          tiles,  \* what it has been cut into, in order
          cuts    \* history: the windows it has been cut by, one after another

vars == <<slice, tiles, cuts>>

Init == slice \in Slices /\ tiles = <<slice>> /\ cuts = <<>>

(* window_expansion_plan and explode, on one axis: every tile is cut.      *)
Cut ==
    \E w \in Cuts :
        /\ Len(cuts) < MaxCuts
        /\ Len(Intervals(w, tiles)) <= MaxTiles
        /\ tiles' = Intervals(w, tiles)
        /\ cuts' = Append(cuts, w)
        /\ UNCHANGED slice

Spec == Init /\ [][Cut]_vars

-----------------------------------------------------------------------------
(* What must hold.                                                         *)

(* Type invariant: the ends of a tile are floats, and no tile is empty,    *)
(* though its start and its stop come about by different roundings.        *)
TypeOK ==
    /\ slice \in Slices
    /\ cuts \in Seq(Cuts) /\ Len(cuts) <= MaxCuts /\ Len(tiles) <= MaxTiles
    /\ \A p \in DOMAIN tiles : /\ IsFloat(tiles[p][1]) /\ IsFloat(tiles[p][2])
                               /\ tiles[p][1] < tiles[p][2]

(* Partial windows whose stride is their size, cut one within the other,   *)
(* tile a slice up to one sample: at any rate the first tile begins with   *)
(* the slice, each later one at the sample at which its neighbour ended or *)
(* one away, the last ends with the slice or one sample early, and none    *)
(* reads beyond it.  Rounding neither adds up over the tiles nor loses or  *)
(* repeats a tile.                                                         *)
TilesStrayByOneSample ==
    (\A n \in DOMAIN cuts : cuts[n].partial /\ cuts[n].stride = cuts[n].size /\ cuts[n].offset = 0) =>
        \A rate \in Rates :
            LET whole == Samples(slice, rate)
                read == [p \in DOMAIN tiles |-> Samples(tiles[p], rate)] IN
            /\ tiles # <<>>
            /\ read[1][1] = whole[1]
            /\ \A p \in 2 .. Len(tiles) : Magnitude(read[p][1] - read[p-1][2]) <= 1
            /\ read[Len(tiles)][2] \in whole[2] - 1 .. whole[2]
            /\ \A p \in DOMAIN tiles : whole[1] <= read[p][1] /\ read[p][2] <= whole[2]

(* The count of the windows and their bounds, computed apart in floats,    *)
(* agree on which windows fit, however a tile came about: one that fits    *)
(* with more than the rounding to spare is there, as long as asked for,    *)
(* and one that does not is left out, or is last and cut to the tile.      *)
OnlyRoundingDecidesFit ==
    \A p \in DOMAIN tiles, w \in Cuts :
        LET tile == tiles[p]
            made == Intervals(w, <<tile>>)
            over(k) == tile[1] + w.offset + (k - 1) * w.stride + w.size - tile[2] IN
        \A k \in 1 .. Len(made) + 1 :
            /\ over(k) < -Slack(slice) =>
                k <= Len(made) /\ Magnitude(made[k][2] - made[k][1] - w.size) <= Slack(slice)
            /\ over(k) > Slack(slice) /\ k <= Len(made) =>
                w.partial /\ k = Len(made) /\ made[k][2] = tile[2]

(* What AxisWindow says of windows whose stride is their size: they do not *)
(* overlap, so that no sample is read by two of them.  In the code a tile  *)
(* may stop one rounding after its neighbour starts, and they do.          *)
WindowsDoNotOverlap ==
    (\A n \in DOMAIN cuts : cuts[n].stride = cuts[n].size) =>
        \A rate \in Rates, p \in 2 .. Len(tiles) :
            Samples(tiles[p-1], rate)[2] <= Samples(tiles[p], rate)[1]
=============================================================================
