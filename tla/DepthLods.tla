------------------------------ MODULE DepthLods ------------------------------
(***************************************************************************)
(* How ConvertDepthToYUV (src/core/DepthPts.cpp) fills the holes of a      *)
(* picture before coding it: DepthBuildLods averages the picture into      *)
(* smaller and smaller levels, and DepthFillEmpty fills the holes of each  *)
(* level, last the picture's own, from the next smaller one.               *)
(*                                                                         *)
(* The levels lie one behind the other in a vector, and are read by index  *)
(* without regard to their sizes, up to the memory behind the vector.  The *)
(* caller makes room for one level more than DepthBuildLods builds; it     *)
(* keeps the zeros of the new vector.                                      *)
(*                                                                         *)
(* A depth is the set of the pixels it was averaged from: {} for not a     *)
(* number, and a set of its own for each depth that is no average.  Depths *)
(* are taken to be greater than 0 (of 0 the inverse is infinite).          *)
(***************************************************************************)
EXTENDS Integers, FiniteSets, FiniteSetsExt, Functions

CONSTANTS
  Least,    \* 16: no level narrower than this is built
  Pictures  \* sizes, and the indices of the pixels that hold a depth

ASSUME LodsAssumption ==
  /\ Least \in Nat \ {0, 1}
  /\ \A p \in Pictures :
       /\ DOMAIN p = {"width", "height", "measured", "infinite"}
       /\ p.width \in Nat /\ p.height \in Nat \ {0}
       \* Below, lodSizes.size() - 1 underflows at once.
       /\ p.width >= Least
       /\ p.measured \cup p.infinite \subseteq 0 .. p.width * p.height - 1
       /\ p.measured \cap p.infinite = {}

VARIABLES
  picture, \* what ConvertDepthToYUV is given
  data,    \* the depths of the picture
  lods,    \* the vector of the levels
  level,   \* the level to be built or filled next; 0 is data
  phase,   \* "build", "fill", "done"
  behind   \* history: what holes were given from behind the vector

lodsVars == <<picture, data, lods, level, phase, behind>>

NaN      == {}
Zero     == {-1}
Infinite == {-2}
Unknown  == {-3}  \* a number that was never a depth

(* What a read of the memory behind the vector may find.                   *)
Garbage == {NaN, Infinite, Unknown}

(* A size or a coordinate, halved k times.                                 *)
Shifted(a, k) ==
  LET shifted[j \in Nat] == IF j = 0 THEN a ELSE shifted[j - 1] \div 2
  IN  shifted[k]

(* The size of level k of the picture.                                     *)
Width(k)  == Shifted(picture.width, k)
Height(k) == Shifted(picture.height, k)

(* The last level there is room for: the first one that is too narrow.     *)
Last == Min({k \in 1 .. picture.width : Width(k) < Least})

Indices(k) == 0 .. Width(k) * Height(k) - 1

(* Where level k begins: behind the levels from 1 on before it.            *)
Offset(k) ==
  LET offset[j \in Nat] ==
        IF j <= 1 THEN 0 ELSE offset[j - 1] + Width(j - 1) * Height(j - 1)
  IN  offset[k]

Room == Offset(Last + 1)

Pixels == 0 .. picture.width * picture.height - 1

IsAverage(depth) == depth \subseteq Pixels \/ depth \in {Zero, Unknown}

(* Types: what is built are averages; an infinity that is not the          *)
(* picture's comes from behind the vector.                                 *)
LodsTypeOK ==
  /\ picture.measured \cup picture.infinite \subseteq Pixels
  /\ DOMAIN data = Pixels
  /\ \A i \in Pixels : IsAverage(data[i]) \/ data[i] = Infinite
  /\ DOMAIN lods = 0 .. Room - 1
  /\ \A i \in DOMAIN lods :
       IsAverage(lods[i]) \/ (lods[i] = Infinite /\ Infinite \in behind)
  /\ behind \subseteq Garbage
  /\ level \in 0 .. Last
  /\ phase \in {"build", "fill", "done"}

LodsInit ==
  /\ picture \in Pictures
  /\ data = [i \in Pixels |->
               IF i \in picture.measured THEN {i}
               ELSE IF i \in picture.infinite THEN Infinite ELSE NaN]
  /\ lods = [i \in 0 .. Room - 1 |-> Zero]
  /\ level = 1
  /\ phase = "build"
  /\ behind = {}
-----------------------------------------------------------------------------
(* The i-th depth counted from the beginning of level k.                   *)
ReadLevel(k, i) == IF k = 0 THEN data[i] ELSE lods[Offset(k) + i]

(* The vector with these depths for level k, by index from 0.              *)
WriteLevel(k, depths) ==
  [j \in DOMAIN lods |->
     IF j - Offset(k) \in DOMAIN depths THEN depths[j - Offset(k)] ELSE lods[j]]

(* Mutant of AverageOver: only the upper two of the four are averaged.     *)
AverageOverRow(k, i) ==
  LET x == i % Width(k)
      y == i \div Width(k)
      two == {ReadLevel(k - 1, 2 * y * Width(k - 1) + 2 * x + dx) : dx \in {0, 1}}
  IN  UNION (two \ {Infinite})

(* The average over a square of four depths of the level before; to        *)
(* DepthBuildLods an infinite depth is not a number.                       *)
AverageOver(k, i) ==
  LET x == i % Width(k)
      y == i \div Width(k)
      four == {ReadLevel(k - 1, (2 * y + dy) * Width(k - 1) + 2 * x + dx) :
                 dx \in {0, 1}, dy \in {0, 1}}
  IN  UNION (four \ {Infinite})

(* One turn of the loop of DepthBuildLods.                                 *)
BuildLevel ==
  /\ phase = "build"
  /\ Width(level) >= Least
  /\ lods' = WriteLevel(level, [i \in Indices(level) |-> AverageOver(level, i)])
  /\ level' = level + 1
  /\ UNCHANGED <<picture, data, phase, behind>>

(* Mutant of EndBuild: the last level is left out, as it was never built.  *)
EndBuildWithoutLast ==
  /\ phase = "build"
  /\ Width(level) < Least
  /\ phase' = "fill"
  /\ level' = IF level > 1 THEN level - 2 ELSE 0
  /\ UNCHANGED <<picture, data, lods, behind>>

(* The next level is too narrow; it stays as it is, and the one before it  *)
(* is the first to be filled.                                              *)
EndBuild ==
  /\ phase = "build"
  /\ Width(level) < Least
  /\ phase' = "fill"
  /\ level' = level - 1
  /\ UNCHANGED <<picture, data, lods, behind>>

(* Where DepthFillEmpty looks in level k + 1 for the i-th depth of level k.*)
Source(k, i) ==
  LET x == i % Width(k)
      y == i \div Width(k)
  IN  (y \div 2) * Width(k + 1) + x \div 2

(* The holes of level k that are filled from behind the vector.            *)
FilledBehind(k) ==
  {i \in Indices(k) : ReadLevel(k, i) = NaN /\ Offset(k + 1) + Source(k, i) >= Room}

(* DepthFillEmpty: the i-th depth of level k, if it is not a number the    *)
(* one of the level after it, or what was found behind the vector.         *)
FilledFrom(k, i, found) ==
  IF ReadLevel(k, i) # NaN THEN ReadLevel(k, i)
  ELSE IF i \in DOMAIN found THEN found[i]
  ELSE ReadLevel(k + 1, Source(k, i))

FillLevel ==
  /\ phase = "fill"
  /\ level > 0
  /\ \E found \in [FilledBehind(level) -> Garbage] :
       /\ lods' = WriteLevel(level, [i \in Indices(level) |-> FilledFrom(level, i, found)])
       /\ behind' = behind \cup Range(found)
  /\ level' = level - 1
  /\ UNCHANGED <<picture, data, phase>>

FillData ==
  /\ phase = "fill"
  /\ level = 0
  /\ \E found \in [FilledBehind(0) -> Garbage] :
       /\ data' = [i \in DOMAIN data |-> FilledFrom(0, i, found)]
       /\ behind' = behind \cup Range(found)
  /\ phase' = "done"
  /\ UNCHANGED <<picture, lods, level>>

LodsNext == BuildLevel \/ EndBuild \/ FillLevel \/ FillData
LodsSpec == LodsInit /\ [][LodsNext]_lodsVars
-----------------------------------------------------------------------------
Column(i) == i % picture.width
Row(i)    == i \div picture.width

(* The block of 2^k by 2^k pixels around pixel i lies in the picture.      *)
HasBlock(i, k) == /\ Shifted(Column(i), k) < Width(k)
                  /\ Shifted(Row(i), k) < Height(k)

MeasuredAround(i, k) ==
  {j \in picture.measured : /\ Shifted(Column(j), k) = Shifted(Column(i), k)
                            /\ Shifted(Row(j), k) = Shifted(Row(i), k)}

(* The levels that can tell pixel i a depth.                               *)
Helpful(i) == {k \in 1 .. Last - 1 : HasBlock(i, k) /\ MeasuredAround(i, k) # {}}

(* A pixel with a depth keeps it.  A hole is given the average of the      *)
(* smallest block around it in which anything was measured: going through  *)
(* the levels one by one, each overwritten in place, gives no pixel the    *)
(* depth of a farther or a wider block.  A hole no built level helps is    *)
(* given depth 0, from the level that was never built, provided a block of *)
(* that level lies around it: at the right and lower edge of a picture     *)
(* whose size does not halve evenly, the depth of some other place, or of  *)
(* no place in the picture, is read instead.                               *)
FilledFromNearest == phase = "done" =>
  \A i \in DOMAIN data :
    /\ i \in picture.measured => data[i] = {i}
    /\ i \in picture.infinite => data[i] = Infinite
    /\ i \notin picture.measured \cup picture.infinite =>
         IF Helpful(i) # {} THEN data[i] = MeasuredAround(i, Min(Helpful(i)))
         ELSE HasBlock(i, Last) => data[i] = Zero

(* Around pixel i nothing was measured in any block that lies in the       *)
(* picture, and the block of the last level does not.                      *)
AtEdge(i) == Helpful(i) = {} /\ ~HasBlock(i, Last)

(* A pixel is left without a depth, or becomes infinite though it was not, *)
(* only where the size does not halve evenly, only with nothing measured   *)
(* around it, and only if a hole was filled with just that from behind the *)
(* vector; and in a picture that halves evenly down to the last level,     *)
(* nothing behind the vector is ever used.  Of 640 by 480 the edge is the  *)
(* 32 lowest rows: 20 by 15 halves to 10 by 7.                             *)
HolesFromBehindOnly == phase = "done" =>
  /\ \A i \in DOMAIN data :
       /\ data[i] = NaN => NaN \in behind /\ AtEdge(i)
       /\ data[i] = Infinite => i \in picture.infinite \/ (Infinite \in behind /\ AtEdge(i))
  /\ behind # {} => \E i \in DOMAIN data : ~HasBlock(i, Last)
=============================================================================
