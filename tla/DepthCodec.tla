----------------------------- MODULE DepthCodec -----------------------------
(***************************************************************************)
(* How src/core/DepthPts.cpp packs the depths of a picture into the planes *)
(* of a video frame, for one square of four pixels (the squares do not     *)
(* depend on each other): ConvertDepthToYUV gives each pixel the integer   *)
(* part of its scaled depth in Y, and the square one fraction in U and one *)
(* in V; ConvertYUVToDepth takes them apart again.                         *)
(*                                                                         *)
(* A scaled depth is a number of parts of a step of Y, Fine to the step,   *)
(* and what comes back a number of Fine * Levels to the step: both are     *)
(* integers.  The arithmetic is exact where the code's is in floats.       *)
(***************************************************************************)
EXTENDS Integers, FiniteSets, FiniteSetsExt

CONSTANTS
  Invalid, \* 255, the Y of a hole
  Levels,  \* 255, what a fraction is multiplied with to give U and V
  Fine,    \* parts of a step of Y a scaled depth is counted in
  Most     \* the largest scaled depth a picture holds

ASSUME CodecAssumption ==
  /\ Invalid \in Nat \ {0}
  /\ Levels \in Nat \ {0}
  /\ Fine \in Nat \ {0}
  /\ Most \in Nat

VARIABLES
  square, \* the scaled depths of the four pixels
  code,   \* their Y, and the U and V of the square
  back,   \* what ConvertYUVToDepth gives
  stage   \* "encode", "decode", "done"

codecVars == <<square, code, back, stage>>

Pixel == 1 .. 4
Hole  == -1      \* a depth that is not a number, or infinite
Byte  == 0 .. Invalid

(* Types: Y reaches the code of a hole, U and V never the largest byte.    *)
CodecTypeOK ==
  /\ square \in [Pixel -> 0 .. Most \cup {Hole}]
  /\ code \in [y : [Pixel -> Byte], u : 0 .. Levels - 1, v : 0 .. Levels - 1]
  /\ back \in [Pixel -> 0 .. Invalid * Fine * Levels - 1 \cup {Hole}]
  /\ stage \in {"encode", "decode", "done"}

CodecInit ==
  /\ square \in [Pixel -> 0 .. Most \cup {Hole}]
  /\ code = [y |-> [i \in Pixel |-> Invalid], u |-> 0, v |-> 0]
  /\ back = [i \in Pixel |-> Hole]
  /\ stage = "encode"
-----------------------------------------------------------------------------
(* Mutant of SharesU: the first Y is not remembered for the pixels after.  *)
SharesUAlone(y, these) == {i \in these : i = Min(these)}

(* Mutant of SharesV: V is averaged over all the square.                   *)
SharesVWithAll(y, these) == these

(* Of these pixels, those with the same Y as the first share U.  All the   *)
(* others share V, whatever their Y.                                       *)
SharesU(y, these) == {i \in these : y[i] = y[Min(these)]}
SharesV(y, these) == these \ SharesU(y, these)

(* Mutant of YOf: Y is rounded, and its fraction is not.                   *)
YOfRounded(depth) ==
  IF depth = Hole THEN {Invalid}
  ELSE IF (2 * depth + Fine) \div (2 * Fine) \in Byte
       THEN {(2 * depth + Fine) \div (2 * Fine)} ELSE Byte

(* (uint8_t)sv: undefined, so any byte, once it does not fit.  Nothing     *)
(* keeps a depth beyond maxDepth from being coded as a hole.               *)
YOf(depth) ==
  IF depth = Hole THEN {Invalid}
  ELSE IF depth \div Fine \in Byte THEN {depth \div Fine} ELSE Byte

(* The sum of f over these pixels of the square.                           *)
SumOver(these, f) ==
  LET only == [i \in Pixel |-> IF i \in these THEN f[i] ELSE 0]
  IN  only[1] + only[2] + only[3] + only[4]

(* The mean of the fractions of these pixels, as a byte.                   *)
MeanFraction(these) ==
  IF these = {} THEN 0
  ELSE (SumOver(these, [i \in Pixel |-> square[i] % Fine]) * Levels)
         \div (SumOver(these, [i \in Pixel |-> 1]) * Fine)

Measured == {i \in Pixel : square[i] # Hole}

(* ConvertDepthToYUV, one square.                                          *)
Encode ==
  /\ stage = "encode"
  /\ stage' = "decode"
  /\ \E y \in [Pixel -> Byte] :
       /\ \A i \in Pixel : y[i] \in YOf(square[i])
       /\ code' = [y |-> y,
                   u |-> MeanFraction(SharesU(y, Measured)),
                   v |-> MeanFraction(SharesV(y, Measured))]
  /\ UNCHANGED <<square, back>>

(* ConvertYUVToDepth, one square.                                          *)
Decode ==
  /\ stage = "decode"
  /\ stage' = "done"
  /\ LET seen == {i \in Pixel : code.y[i] # Invalid}
         fraction(i) == IF i \in SharesU(code.y, seen) THEN code.u ELSE code.v
     IN  back' = [i \in Pixel |->
                    IF i \in seen THEN (code.y[i] * Levels + fraction(i)) * Fine
                    ELSE Hole]
  /\ UNCHANGED <<square, code>>

CodecNext == Encode \/ Decode
CodecSpec == CodecInit /\ [][CodecNext]_codecVars
-----------------------------------------------------------------------------
(* What the Y of a pixel can hold.                                         *)
Codable(i) == square[i] # Hole /\ square[i] \div Fine < Invalid

(* Holes come back as holes, and every codable depth with its step of Y:   *)
(* it is never off by as much as a step, whatever its neighbours are, also *)
(* those too far away to be coded.                                         *)
StepSurvives == stage = "done" =>
  \A i \in Pixel :
    /\ square[i] = Hole => back[i] = Hole
    /\ Codable(i) => /\ back[i] # Hole
                     /\ back[i] \div (Levels * Fine) = square[i] \div Fine

(* The decoder finds out again which pixels shared U: a codable pixel's    *)
(* fraction lies between those of the pixels it was averaged with, within  *)
(* a level, and so a pixel that shares with nobody loses less than a level *)
(* however its neighbours differ.  Encoder and decoder find the same first *)
(* pixel only if the first one measured is not coded like a hole; if it    *)
(* is, the encoder keeps U for it and the decoder gives U to others.       *)
FractionIsOwn ==
  stage = "done" /\ (\E i \in Measured : /\ code.y[i] # Invalid
                                         /\ \A j \in Measured : i <= j) =>
  \A i \in {j \in Pixel : Codable(j)} :
    LET shareU == SharesU(code.y, Measured)
        with   == IF i \in shareU THEN shareU ELSE Measured \ shareU
        found  == back[i] % (Levels * Fine)
    IN  /\ \E j \in with : found <= (square[j] % Fine) * Levels
        /\ \E j \in with : found > (square[j] % Fine) * Levels - Fine

(* Of two codable pixels of a square the nearer one never comes back as    *)
(* the farther one: pixels of one step share one fraction, even where      *)
(* encoder and decoder disagree about which.                               *)
OrderSurvives == stage = "done" =>
  \A i, j \in {k \in Pixel : Codable(k)} :
    square[i] <= square[j] => back[i] <= back[j]
=============================================================================
