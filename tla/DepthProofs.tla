----------------------------- MODULE DepthProofs -----------------------------
(***************************************************************************)
(* Proofs about the depth codec (DepthCodec), for any number of steps,     *)
(* levels and parts of a step and any depths, and about the filling of     *)
(* holes (DepthLods), for pictures of any size and any pixels measured.    *)
(***************************************************************************)
EXTENDS DepthCodec, DepthLods, WellFoundedInduction, TLAPS

(* Division with remainder. *)
LEMMA Quotient ==
  ASSUME NEW a \in Nat, NEW b \in Nat, b > 0
  PROVE  /\ a \div b \in Nat /\ a % b \in 0 .. b - 1
         /\ a = (b * (a \div b)) + (a % b)
  OBVIOUS

LEMMA QuotientIs ==
  ASSUME NEW b \in Nat, b > 0, NEW q \in Nat, NEW r \in 0 .. b - 1
  PROVE  ((b * q) + r) \div b = q /\ ((b * q) + r) % b = r
<1> DEFINE p == ((b * q) + r) \div b
<1>1. b * q \in Nat /\ (b * q) + r \in Nat
  OBVIOUS
<1>2. p \in Nat /\ b * p <= (b * q) + r /\ (b * q) + r < (b * p) + b
  BY <1>1, Quotient
<1>3. /\ (b * q) + r = (b * p) + (((b * q) + r) % b)
      /\ ((b * q) + r) % b \in Int
  BY <1>1, Quotient
<1>4. /\ b * (p + 1) = (b * p) + b /\ b * (q + 1) = (b * q) + b
      /\ p < q => b * (p + 1) <= b * q
      /\ p > q => b * (q + 1) <= b * p
  <2> HIDE DEF p
  <2> QED BY <1>2
<1>5. p = q
  <2> HIDE DEF p
  <2> QED BY <1>1, <1>2, <1>4
<1>6. ((b * q) + r) % b = r
  <2> HIDE DEF p
  <2> QED BY <1>1, <1>3, <1>5
<1> QED BY <1>5, <1>6
-----------------------------------------------------------------------------
(***************************************************************************)
(* The codec.                                                              *)
(***************************************************************************)

(* The average over some pixels is less than the largest byte, and within  *)
(* a level of the fractions of two of them, one on each side.              *)
LEMMA MeanIsBetween ==
  ASSUME square \in [Pixel -> Int], NEW these \in SUBSET Pixel, these # {}
  PROVE  /\ MeanFraction(these) \in 0 .. Levels - 1
         /\ \E j \in these : MeanFraction(these) * Fine <= (square[j] % Fine) * Levels
         /\ \E j \in these :
              MeanFraction(these) * Fine > ((square[j] % Fine) * Levels) - Fine
<1> DEFINE q == MeanFraction(these)
           In(i, n) == IF i \in these THEN n ELSE 0
<1>1. Levels \in Nat /\ Levels > 0 /\ Fine \in Nat /\ Fine > 0
  BY CodecAssumption
<1>2. PICK r \in [Pixel -> 0 .. Fine - 1] : \A i \in Pixel : r[i] = square[i] % Fine
  <2>1. \A i \in Pixel : square[i] % Fine \in 0 .. Fine - 1
    BY <1>1
  <2>2. [i \in Pixel |-> square[i] % Fine] \in [Pixel -> 0 .. Fine - 1]
    BY <2>1
  <2> QED BY <2>2
<1>3. 1 \in Pixel /\ 2 \in Pixel /\ 3 \in Pixel /\ 4 \in Pixel
  BY DEF Pixel
<1>4. PICK s \in Nat : s = ((In(1, r[1]) + In(2, r[2])) + In(3, r[3])) + In(4, r[4])
  BY <1>1, <1>2, <1>3
<1>5. PICK n \in 1 .. 4 : n = ((In(1, 1) + In(2, 1)) + In(3, 1)) + In(4, 1)
  <2> PICK e \in these : TRUE
    OBVIOUS
  <2>1. e = 1 \/ e = 2 \/ e = 3 \/ e = 4
    BY DEF Pixel
  <2>2. ((In(1, 1) + In(2, 1)) + In(3, 1)) + In(4, 1) \in 1 .. 4
    BY <2>1
  <2> QED BY <2>2
<1>6. q = (s * Levels) \div (n * Fine)
  <2>1. SumOver(these, [i \in Pixel |-> square[i] % Fine]) = s
    BY <1>2, <1>3, <1>4 DEF SumOver
  <2>2. SumOver(these, [i \in Pixel |-> 1]) = n
    BY <1>3, <1>5 DEF SumOver
  <2> QED BY <2>1, <2>2 DEF MeanFraction
<1>7. n * Fine \in Nat /\ n * Fine > 0 /\ s * Levels \in Nat
  BY <1>1
<1>8. /\ q \in Nat
      /\ (n * Fine) * q <= s * Levels
      /\ s * Levels < ((n * Fine) * q) + (n * Fine)
  <2> HIDE DEF q
  <2> QED BY <1>6, <1>7, Quotient
<1> HIDE DEF q
<1>9. PICK p \in [Pixel -> Nat] : \A i \in Pixel : p[i] = r[i] * Levels
  <2>1. [i \in Pixel |-> r[i] * Levels] \in [Pixel -> Nat]
    BY <1>1, <1>2
  <2> QED BY <2>1
<1>10. \A i \in Pixel : In(i, r[i]) * Levels = In(i, p[i]) /\ In(i, r[i]) \in Nat
  BY <1>1, <1>2, <1>9
<1>11. s * Levels = ((In(1, p[1]) + In(2, p[2])) + In(3, p[3])) + In(4, p[4])
  <2> HIDE DEF In
  <2>1. s * Levels = (((In(1, r[1]) * Levels) + (In(2, r[2]) * Levels))
                        + (In(3, r[3]) * Levels)) + (In(4, r[4]) * Levels)
    BY <1>1, <1>3, <1>4, <1>10
  <2> QED BY <2>1, <1>3, <1>10
<1>12. PICK m \in Nat : m = q * Fine
  BY <1>1, <1>8
<1>13. /\ (n * Fine) * q = ((In(1, m) + In(2, m)) + In(3, m)) + In(4, m)
       /\ n * Fine = ((In(1, Fine) + In(2, Fine)) + In(3, Fine)) + In(4, Fine)
  <2>1. (n * Fine) * q = n * m
    BY <1>1, <1>8, <1>12
  <2>2. CASE n = 1
    BY <2>1, <2>2, <1>1, <1>5
  <2>3. CASE n = 2
    BY <2>1, <2>3, <1>1, <1>5
  <2>4. CASE n = 3
    BY <2>1, <2>4, <1>1, <1>5
  <2>5. CASE n = 4
    BY <2>1, <2>5, <1>1, <1>5
  <2> QED BY <2>2, <2>3, <2>4, <2>5
<1>14. \E j \in these : m <= p[j]
  BY <1>3, <1>8, <1>11, <1>13 DEF Pixel
<1>15. \E j \in these : m > p[j] - Fine
  BY <1>1, <1>3, <1>8, <1>11, <1>13 DEF Pixel
<1>16. q < Levels
  <2>1. PICK j \in these : m <= p[j]
    BY <1>14
  <2>2. p[j] = r[j] * Levels /\ r[j] \in 0 .. Fine - 1
    BY <1>2, <1>9
  <2>3. r[j] * Levels < Fine * Levels
    BY <2>2, <1>1
  <2>4. q >= Levels => q * Fine >= Levels * Fine
    BY <1>1, <1>8
  <2>5. /\ Fine * Levels \in Int /\ Levels * Fine = Fine * Levels
        /\ r[j] * Levels \in Int /\ q * Fine \in Int
    BY <2>2, <1>1, <1>8
  <2>6. q * Fine < Levels * Fine
    BY <2>1, <2>2, <2>3, <2>5, <1>12
  <2> QED BY <2>4, <2>5, <2>6, <1>1, <1>8
<1> QED
  <2>1. \A j \in these : p[j] = (square[j] % Fine) * Levels
    BY <1>2, <1>9
  <2>2. q \in 0 .. Levels - 1
    BY <1>1, <1>8, <1>16
  <2> QED BY <2>1, <2>2, <1>12, <1>14, <1>15 DEF q
-----------------------------------------------------------------------------
(* A set of numbers that is not empty has a least element. *)
LEMMA LeastElement ==
  ASSUME NEW S \in SUBSET Nat, S # {}
  PROVE  Min(S) \in S /\ \A x \in S : Min(S) <= x
<1> DEFINE R == OpToRel(<, Nat)
<1>1. PICK x \in S : \A y \in S : ~(<<y, x>> \in R)
  <2>1. IsWellFoundedOn(R, Nat)
    BY NatLessThanWellFounded
  <2> HIDE DEF R
  <2> QED BY <2>1, WFMin
<1>2. ASSUME NEW y \in S, y < x PROVE FALSE
  <2>1. <<y, x>> \in R
    BY <1>2 DEF OpToRel
  <2> QED BY <2>1, <1>1
<1>3. \A y \in S : x <= y
  <2> HIDE DEF R
  <2> QED BY <1>2
<1> QED BY <1>3 DEF Min

LEMMA LeastIs ==
  ASSUME NEW S \in SUBSET Nat, NEW x \in S, \A y \in S : x <= y
  PROVE  Min(S) = x
<1>1. PICK m \in S : m = Min(S) /\ m <= x
  BY LeastElement
<1>2. x <= m /\ x \in Nat /\ m \in Nat
  OBVIOUS
<1> QED BY <1>1, <1>2

(***************************************************************************)
(* The pixels the decoder takes for measured, and which of the fractions   *)
(* it gives them.                                                          *)
(***************************************************************************)
Seen == {i \in Pixel : code.y[i] # Invalid}
Fraction(i) == IF i \in SharesU(code.y, Seen) THEN code.u ELSE code.v

(* The invariant: what was coded is what Encode computes of the square,    *)
(* and what came back is what Decode computes of the code.                 *)
CodecInv ==
  /\ square \in [Pixel -> 0 .. Most \cup {Hole}]
  /\ stage \in {"encode", "decode", "done"}
  /\ stage = "encode" => code = [y |-> [i \in Pixel |-> Invalid], u |-> 0, v |-> 0]
  /\ stage # "encode" =>
       /\ code = [y |-> code.y, u |-> code.u, v |-> code.v]
       /\ code.y \in [Pixel -> Byte]
       /\ \A i \in Pixel : code.y[i] \in YOf(square[i])
       /\ code.u = MeanFraction(SharesU(code.y, Measured))
       /\ code.v = MeanFraction(SharesV(code.y, Measured))
  /\ stage # "done" => back = [i \in Pixel |-> Hole]
  /\ stage = "done" =>
       back = [i \in Pixel |-> IF i \in Seen
                               THEN (code.y[i] * Levels + Fraction(i)) * Fine ELSE Hole]

LEMMA CodecInitially == CodecInit => CodecInv
BY DEF CodecInit, CodecInv

LEMMA CodecStep == CodecInv /\ [CodecNext]_codecVars => CodecInv'
<1> SUFFICES ASSUME CodecInv, [CodecNext]_codecVars PROVE CodecInv'
  OBVIOUS
<1>1. CASE Encode
  <2>1. PICK y \in [Pixel -> Byte] :
          /\ \A i \in Pixel : y[i] \in YOf(square[i])
          /\ code' = [y |-> y,
                      u |-> MeanFraction(SharesU(y, Measured)),
                      v |-> MeanFraction(SharesV(y, Measured))]
    BY <1>1 DEF Encode
  <2>2. /\ code'.y = y
        /\ code'.u = MeanFraction(SharesU(y, Measured))
        /\ code'.v = MeanFraction(SharesV(y, Measured))
    BY <2>1
  <2>3. /\ square' = square /\ back' = back /\ stage = "encode" /\ stage' = "decode"
        /\ Measured' = Measured
    BY <1>1 DEF Encode, Measured
  <2>5. \A i \in Pixel : code'.y[i] \in YOf(square'[i])
    BY <2>1, <2>2, <2>3
  <2>6. /\ code'.u = MeanFraction(SharesU(code.y, Measured))'
        /\ code'.v = MeanFraction(SharesV(code.y, Measured))'
    BY <2>2, <2>3 DEF MeanFraction, SumOver, SharesU, SharesV
  <2>7. code' = [y |-> code'.y, u |-> code'.u, v |-> code'.v]
    BY <2>1, <2>2
  <2>8. square' \in [Pixel -> 0 .. Most \cup {Hole}] /\ back' = [i \in Pixel |-> Hole]
    BY <2>3 DEF CodecInv
  <2>9. code'.y \in [Pixel -> Byte]
    BY <2>2
  <2> QED BY <2>3, <2>5, <2>6, <2>7, <2>8, <2>9 DEF CodecInv
<1>2. CASE Decode
  <2>1. square' = square /\ code' = code /\ stage = "decode" /\ stage' = "done"
    BY <1>2 DEF Decode
  <2>2. Measured' = Measured /\ Seen' = Seen
    BY <2>1 DEF Measured, Seen
  <2>3. \A i : Fraction(i)' = Fraction(i)
    BY <2>1, <2>2 DEF Fraction
  <2>4. back' = [i \in Pixel |-> IF i \in Seen
                                 THEN (code.y[i] * Levels + Fraction(i)) * Fine ELSE Hole]
    BY <1>2 DEF Decode, Seen, Fraction
  <2>5. /\ MeanFraction(SharesU(code.y, Measured))' = MeanFraction(SharesU(code.y, Measured))
        /\ MeanFraction(SharesV(code.y, Measured))' = MeanFraction(SharesV(code.y, Measured))
    BY <2>1, <2>2 DEF MeanFraction, SumOver
  <2> QED BY <2>1, <2>2, <2>3, <2>4, <2>5 DEF CodecInv
<1>3. CASE UNCHANGED codecVars
  BY <1>3 DEF codecVars, CodecInv, Measured, Seen, Fraction, MeanFraction, SumOver
<1> QED BY <1>1, <1>2, <1>3 DEF CodecNext

THEOREM CodecInvariant == CodecSpec => []CodecInv
BY CodecInitially, CodecStep, PTL DEF CodecSpec
-----------------------------------------------------------------------------
(* What the invariant says of the fractions and of the pixels. *)
LEMMA BytesBelowLevels ==
  ASSUME CodecInv, stage # "encode"
  PROVE  code.u \in 0 .. Levels - 1 /\ code.v \in 0 .. Levels - 1
<1>1. 0 \in 0 .. Levels - 1
  BY CodecAssumption
<1>2. square \in [Pixel -> Int]
  BY CodecAssumption DEF CodecInv, Hole
<1>3. ASSUME NEW these \in SUBSET Pixel
      PROVE  MeanFraction(these) \in 0 .. Levels - 1
  <2>1. CASE these = {}
    BY <2>1, <1>1 DEF MeanFraction
  <2>2. CASE these # {}
    BY <2>2, <1>2, MeanIsBetween
  <2> QED BY <2>1, <2>2
<1>4. /\ SharesU(code.y, Measured) \in SUBSET Pixel
      /\ SharesV(code.y, Measured) \in SUBSET Pixel
  BY DEF SharesU, SharesV, Measured
<1> QED BY <1>3, <1>4 DEF CodecInv

LEMMA HoleIsNotSeen ==
  ASSUME CodecInv, stage # "encode", NEW i \in Pixel, square[i] = Hole
  PROVE  i \notin Seen
BY DEF CodecInv, YOf, Seen

LEMMA CodableIsSeen ==
  ASSUME CodecInv, stage # "encode", NEW i \in Pixel, Codable(i)
  PROVE  /\ i \in Seen /\ i \in Measured
         /\ square[i] \in Nat /\ code.y[i] \in Nat /\ code.y[i] = square[i] \div Fine
<1>1. square[i] \in Nat /\ square[i] # Hole
  BY CodecAssumption DEF Codable, CodecInv, Hole
<1>2. square[i] \div Fine \in Nat
  BY <1>1, CodecAssumption, Quotient
<1>3. square[i] \div Fine \in Byte /\ square[i] \div Fine # Invalid
  BY <1>2, CodecAssumption DEF Codable, Byte
<1>4. code.y[i] = square[i] \div Fine
  BY <1>1, <1>3 DEF CodecInv, YOf
<1> QED BY <1>1, <1>2, <1>3, <1>4 DEF Seen, Measured

(* The steps and the fraction of what comes back. *)
LEMMA BackOfSeen ==
  ASSUME CodecInv, stage = "done", NEW i \in Seen
  PROVE  /\ Fraction(i) \in 0 .. Levels - 1 /\ code.y[i] \in 0 .. Invalid - 1
         /\ back[i] = ((Levels * Fine) * code.y[i]) + (Fraction(i) * Fine)
         /\ Fraction(i) * Fine \in 0 .. (Levels * Fine) - 1
<1>1. Levels \in Nat /\ Fine \in Nat /\ Levels > 0 /\ Fine > 0 /\ Invalid \in Nat
  BY CodecAssumption
<1>2. Fraction(i) \in 0 .. Levels - 1
  BY BytesBelowLevels DEF Fraction
<1>3. i \in Pixel /\ code.y[i] \in 0 .. Invalid - 1
  BY <1>1 DEF CodecInv, Seen, Byte
<1>4. back[i] = (code.y[i] * Levels + Fraction(i)) * Fine
  BY <1>3 DEF CodecInv
<1> HIDE DEF Seen
<1>5. PICK y \in Nat, f \in 0 .. Levels - 1 : y = code.y[i] /\ f = Fraction(i)
  BY <1>2, <1>3
<1>6. (y * Levels + f) * Fine = ((Levels * Fine) * y) + (f * Fine)
  BY <1>1, <1>5
<1>7. f * Fine \in 0 .. (Levels * Fine) - 1
  <2>1. f + 1 <= Levels /\ f \in Nat
    BY <1>1, <1>5
  <2>2. (f + 1) * Fine <= Levels * Fine /\ (f + 1) * Fine = (f * Fine) + Fine
    BY <2>1, <1>1
  <2>3. f * Fine \in Nat /\ Levels * Fine \in Nat
    BY <2>1, <1>1
  <2> QED BY <2>2, <2>3, <1>1
<1> QED BY <1>2, <1>3, <1>4, <1>5, <1>6, <1>7

LEMMA StepOfSeen ==
  ASSUME CodecInv, stage = "done", NEW i \in Seen
  PROVE  /\ back[i] \div (Levels * Fine) = code.y[i]
         /\ back[i] % (Levels * Fine) = Fraction(i) * Fine
         /\ back[i] \in 0 .. Invalid * Fine * Levels - 1
<1>1. /\ Levels \in Nat /\ Fine \in Nat /\ Levels > 0 /\ Fine > 0 /\ Invalid \in Nat
      /\ Levels * Fine \in Nat /\ Levels * Fine > 0
  BY CodecAssumption
<1>2. PICK y \in 0 .. Invalid - 1, r \in 0 .. (Levels * Fine) - 1 :
        y = code.y[i] /\ r = Fraction(i) * Fine /\ back[i] = ((Levels * Fine) * y) + r
  BY BackOfSeen
<1>3. PICK b \in Nat : b = Levels * Fine /\ b > 0
  BY <1>1
<1>4. ((b * y) + r) \div b = y /\ ((b * y) + r) % b = r
  <2>1. y \in Nat /\ r \in 0 .. b - 1
    BY <1>1, <1>2, <1>3
  <2> QED BY <2>1, <1>3, QuotientIs
<1>5. (b * y) + r \in 0 .. Invalid * Fine * Levels - 1
  <2>1. y + 1 <= Invalid /\ y \in Nat /\ r \in Nat /\ r < b
    BY <1>1, <1>2, <1>3
  <2>2. b * (y + 1) <= b * Invalid /\ b * (y + 1) = (b * y) + b
    BY <2>1, <1>1, <1>3
  <2>3. b * Invalid = Invalid * Fine * Levels
    BY <1>1, <1>3
  <2>4. b * y \in Nat /\ b * Invalid \in Nat
    BY <2>1, <1>1, <1>3
  <2> QED BY <2>1, <2>2, <2>3, <2>4, <1>3
<1> QED BY <1>2, <1>3, <1>4, <1>5

(* Y of a pixel is a byte or the code of a hole, U and V are never the     *)
(* largest byte, and nothing negative or too large comes back.             *)
THEOREM CodecTypeCorrect == CodecSpec => []CodecTypeOK
<1>1. CodecInv => CodecTypeOK
  <2> SUFFICES ASSUME CodecInv PROVE CodecTypeOK
    OBVIOUS
  <2>1. square \in [Pixel -> 0 .. Most \cup {Hole}] /\ stage \in {"encode", "decode", "done"}
    BY DEF CodecInv
  <2>2. code \in [y : [Pixel -> Byte], u : 0 .. Levels - 1, v : 0 .. Levels - 1]
    <3>1. CASE stage = "encode"
      BY <3>1, CodecAssumption DEF CodecInv, Byte
    <3>2. CASE stage # "encode"
      BY <3>2, BytesBelowLevels DEF CodecInv
    <3> QED BY <3>1, <3>2
  <2>3. back \in [Pixel -> 0 .. Invalid * Fine * Levels - 1 \cup {Hole}]
    <3>1. CASE stage # "done"
      BY <3>1 DEF CodecInv
    <3>2. CASE stage = "done"
      <4>1. \A i \in Seen : back[i] \in 0 .. Invalid * Fine * Levels - 1
        BY <3>2, StepOfSeen
      <4>2. \A i \in Pixel : i \notin Seen => back[i] = Hole
        BY <3>2 DEF CodecInv
      <4>3. back = [i \in Pixel |-> back[i]]
        BY <3>2 DEF CodecInv
      <4> QED BY <4>1, <4>2, <4>3
    <3> QED BY <3>1, <3>2
  <2> QED BY <2>1, <2>2, <2>3 DEF CodecTypeOK
<1> QED BY <1>1, CodecInvariant, PTL

(* Whatever depths the four pixels have, holes come back as holes and      *)
(* every depth that can be coded with its step of Y.                       *)
THEOREM StepsSurvive == CodecSpec => []StepSurvives
<1>1. CodecInv => StepSurvives
  <2> SUFFICES ASSUME CodecInv, stage = "done", NEW i \in Pixel
               PROVE  /\ square[i] = Hole => back[i] = Hole
                      /\ Codable(i) => /\ back[i] # Hole
                                       /\ back[i] \div (Levels * Fine) = square[i] \div Fine
    BY DEF StepSurvives
  <2>1. ASSUME square[i] = Hole PROVE back[i] = Hole
    BY <2>1, HoleIsNotSeen DEF CodecInv
  <2>2. ASSUME Codable(i)
        PROVE  back[i] # Hole /\ back[i] \div (Levels * Fine) = square[i] \div Fine
    <3>1. i \in Seen /\ code.y[i] = square[i] \div Fine
      BY <2>2, CodableIsSeen
    <3>2. back[i] \div (Levels * Fine) = code.y[i] /\ back[i] \in Nat
      BY <3>1, StepOfSeen
    <3> QED BY <3>1, <3>2 DEF Hole
  <2> QED BY <2>1, <2>2
<1> QED BY <1>1, CodecInvariant, PTL

(* With any depths, of two that can be coded the nearer one never comes    *)
(* back as the farther one.                                                *)
THEOREM OrderIsKept == CodecSpec => []OrderSurvives
<1>1. CodecInv => OrderSurvives
  <2> SUFFICES ASSUME CodecInv, stage = "done", NEW i \in Pixel, NEW j \in Pixel,
                      Codable(i), Codable(j), square[i] <= square[j]
               PROVE  back[i] <= back[j]
    BY DEF OrderSurvives
  <2>1. /\ i \in Seen /\ code.y[i] \in Nat /\ code.y[i] = square[i] \div Fine
        /\ j \in Seen /\ code.y[j] \in Nat /\ code.y[j] = square[j] \div Fine
        /\ square[i] \in Nat /\ square[j] \in Nat
    BY CodableIsSeen
  <2>6. PICK b \in Nat : b = Levels * Fine
    BY CodecAssumption
  <2>2. PICK f \in 0 .. b - 1, g \in 0 .. b - 1 :
          /\ f = Fraction(i) * Fine /\ g = Fraction(j) * Fine
          /\ back[i] = (b * code.y[i]) + f /\ back[j] = (b * code.y[j]) + g
    BY <2>1, <2>6, BackOfSeen
  <2>3. code.y[i] <= code.y[j]
    <3>1. Fine \in Nat /\ Fine > 0
      BY CodecAssumption
    <3>2. square[i] \div Fine <= square[j] \div Fine
      BY <3>1, <2>1
    <3> QED BY <3>2, <2>1
  <2>4. CASE code.y[i] = code.y[j]
    <3>1. Fraction(i) = Fraction(j)
      BY <2>1, <2>4 DEF Fraction, SharesU
    <3> QED BY <3>1, <2>1, <2>2, <2>4
  <2>5. CASE code.y[i] < code.y[j]
    <3>1. PICK y \in Nat, z \in Nat : y = code.y[i] /\ z = code.y[j] /\ y + 1 <= z
      BY <2>1, <2>5
    <3>2. b * (y + 1) <= b * z /\ b * (y + 1) = (b * y) + b
      BY <3>1
    <3>3. b * y \in Nat /\ b * z \in Nat
      BY <3>1
    <3> QED BY <3>1, <3>2, <3>3, <2>2
  <2> QED BY <2>1, <2>3, <2>4, <2>5
<1> QED BY <1>1, CodecInvariant, PTL

(* If the first pixel measured is not coded like a hole, every depth that  *)
(* can be coded gets a fraction within a level of those it shared with,    *)
(* whichever of the four are holes and whatever the others hold.           *)
THEOREM FractionsAreOwn == CodecSpec => []FractionIsOwn
<1>1. CodecInv => FractionIsOwn
  <2> DEFINE shareU == SharesU(code.y, Measured)
             With(i) == IF i \in shareU THEN shareU ELSE Measured \ shareU
             Found(i) == back[i] % (Levels * Fine)
  <2> SUFFICES ASSUME CodecInv, stage = "done",
                      NEW first \in Measured, code.y[first] # Invalid,
                      \A j \in Measured : first <= j,
                      NEW i \in Pixel, Codable(i)
               PROVE  /\ \E j \in With(i) : Found(i) <= (square[j] % Fine) * Levels
                      /\ \E j \in With(i) : Found(i) > (square[j] % Fine) * Levels - Fine
    BY DEF FractionIsOwn
  <2>1. /\ i \in Seen /\ i \in Measured
        /\ Found(i) = Fraction(i) * Fine
    BY CodableIsSeen, StepOfSeen
  <2>2. /\ Measured \in SUBSET Pixel /\ Seen \subseteq Measured /\ first \in Seen
        /\ Pixel \subseteq Nat
    <3>1. Seen \subseteq Pixel /\ Measured \subseteq Pixel /\ first \in Seen
      BY DEF Seen, Measured
    <3>2. Seen \subseteq Measured
      BY <3>1, HoleIsNotSeen DEF Measured
    <3> QED BY <3>1, <3>2 DEF Pixel
  <2>3. Min(Measured) = first /\ Min(Seen) = first
    BY <2>2, LeastIs
  <2>4. i \in SharesU(code.y, Seen) <=> i \in shareU
    BY <2>1, <2>2, <2>3 DEF SharesU
  <2>5. Fraction(i) = MeanFraction(With(i))
    BY <2>4 DEF Fraction, CodecInv, SharesV
  <2>6. With(i) \in SUBSET Pixel /\ With(i) # {}
    BY <2>1, <2>2 DEF SharesU
  <2>7. square \in [Pixel -> Int]
    BY CodecAssumption DEF CodecInv, Hole
  <2> HIDE DEF With
  <2> QED BY <2>1, <2>5, <2>6, <2>7, MeanIsBetween
<1> QED BY <1>1, CodecInvariant, PTL
-----------------------------------------------------------------------------
(***************************************************************************)
(* What a recursive function computes.  A set of naturals that holds 0 and *)
(* with every number the next holds them all, and so there is a function   *)
(* that begins with c and goes on with step.                               *)
(***************************************************************************)
LEMMA AllNaturals ==
  ASSUME NEW S \in SUBSET Nat, 0 \in S, \A n \in S : n + 1 \in S
  PROVE  S = Nat
<1> DEFINE T == Nat \ S
<1> SUFFICES ASSUME T # {} PROVE FALSE
  OBVIOUS
<1>1. Min(T) \in T /\ \A x \in T : Min(T) <= x
  <2>1. T \in SUBSET Nat
    OBVIOUS
  <2> HIDE DEF T
  <2> QED BY <2>1, LeastElement
<1>2. PICK m \in T : \A x \in T : m <= x
  BY <1>1
<1>3. m \in Nat /\ m # 0 /\ m - 1 \in Nat
  OBVIOUS
<1>4. m - 1 \notin T
  <2>1. m - 1 \in T => m <= m - 1
    BY <1>2
  <2> QED BY <2>1, <1>3
<1>5. m - 1 \in S => (m - 1) + 1 \in S
  OBVIOUS
<1> QED BY <1>3, <1>4, <1>5

(* The functions that are right up to n, and no further. *)
Begun(c, step, n) ==
  {g \in [0 .. n -> Nat] : /\ g[0] = c
                         /\ \A j \in 0 .. n - 1 : g[j + 1] = step[<<j, g[j]>>]}

LEMMA BegunAgree ==
  ASSUME NEW c \in Nat, NEW step \in [Nat \X Nat -> Nat]
  PROVE  \A k \in Nat : \A m, n \in Nat :
           k <= m /\ k <= n =>
             \A g \in Begun(c, step, m), h \in Begun(c, step, n) : g[k] = h[k]
<1> DEFINE A == {k \in Nat : \A m, n \in Nat :
                   k <= m /\ k <= n =>
                     \A g \in Begun(c, step, m), h \in Begun(c, step, n) : g[k] = h[k]}
<1>1. 0 \in A
  BY DEF Begun
<1>2. ASSUME NEW k \in A PROVE k + 1 \in A
  <2> SUFFICES ASSUME NEW m \in Nat, NEW n \in Nat, k + 1 <= m, k + 1 <= n,
                      NEW g \in Begun(c, step, m), NEW h \in Begun(c, step, n)
               PROVE  g[k + 1] = h[k + 1]
    OBVIOUS
  <2>1. k \in 0 .. m - 1 /\ k \in 0 .. n - 1
    OBVIOUS
  <2>2. g[k] = h[k]
    OBVIOUS
  <2>3. g[k + 1] = step[<<k, g[k]>>] /\ h[k + 1] = step[<<k, h[k]>>]
    BY <2>1 DEF Begun
  <2> QED BY <2>2, <2>3
<1>3. A = Nat
  <2>1. A \in SUBSET Nat
    OBVIOUS
  <2> HIDE DEF A
  <2> QED BY <1>1, <1>2, <2>1, AllNaturals
<1> QED BY <1>3

LEMMA BegunExist ==
  ASSUME NEW c \in Nat, NEW step \in [Nat \X Nat -> Nat]
  PROVE  \A n \in Nat : Begun(c, step, n) # {}
<1> DEFINE A == {n \in Nat : Begun(c, step, n) # {}}
<1>1. 0 \in A
  <2>1. [j \in 0 .. 0 |-> c] \in Begun(c, step, 0)
    BY DEF Begun
  <2> QED BY <2>1
<1>2. ASSUME NEW n \in A PROVE n + 1 \in A
  <2>1. PICK g \in Begun(c, step, n) : TRUE
    OBVIOUS
  <2>2. /\ g \in [0 .. n -> Nat] /\ g[0] = c
        /\ \A j \in 0 .. n - 1 : g[j + 1] = step[<<j, g[j]>>]
    BY DEF Begun
  <2> DEFINE h == [j \in 0 .. n + 1 |-> IF j <= n THEN g[j] ELSE step[<<n, g[n]>>]]
  <2>3. h \in [0 .. n + 1 -> Nat]
    BY <2>2
  <2>4. h[0] = c
    BY <2>2
  <2>5. ASSUME NEW j \in 0 .. (n + 1) - 1
        PROVE  h[j + 1] = step[<<j, h[j]>>]
    <3>1. CASE j = n
      <4>1. h[n + 1] = step[<<n, g[n]>>] /\ h[n] = g[n]
        OBVIOUS
      <4> HIDE DEF h
      <4> QED BY <3>1, <4>1
    <3>2. CASE j # n
      BY <3>2, <2>2
    <3> QED BY <3>1, <3>2
  <2>6. h \in Begun(c, step, n + 1)
    <3> HIDE DEF h
    <3> QED BY <2>3, <2>4, <2>5 DEF Begun
  <2> QED BY <2>6
<1>3. A = Nat
  <2>1. A \in SUBSET Nat
    OBVIOUS
  <2> HIDE DEF A
  <2> QED BY <1>1, <1>2, <2>1, AllNaturals
<1> QED BY <1>3

LEMMA RecursiveFunction ==
  ASSUME NEW c \in Nat, NEW step \in [Nat \X Nat -> Nat]
  PROVE  \E f \in [Nat -> Nat] : /\ f[0] = c
                               /\ \A n \in Nat : f[n + 1] = step[<<n, f[n]>>]
<1> DEFINE Up(n) == CHOOSE g : g \in Begun(c, step, n)
           f == [n \in Nat |-> Up(n)[n]]
<1>1. \A n \in Nat : Up(n) \in Begun(c, step, n)
  BY BegunExist
<1>2. \A n \in Nat : Up(n)[n] \in Nat /\ Up(n)[0] = c
  <2> HIDE DEF Up
  <2> QED BY <1>1 DEF Begun
<1>3. f \in [Nat -> Nat] /\ f[0] = c
  <2> HIDE DEF Up
  <2> QED BY <1>2
<1>4. ASSUME NEW n \in Nat PROVE f[n + 1] = step[<<n, f[n]>>]
  <2> HIDE DEF Up
  <2>1. Up(n + 1) \in Begun(c, step, n + 1) /\ Up(n) \in Begun(c, step, n)
    BY <1>1
  <2>2. Up(n + 1)[n + 1] = step[<<n, Up(n + 1)[n]>>]
    <3>1. n \in 0 .. (n + 1) - 1
      OBVIOUS
    <3> QED BY <2>1, <3>1 DEF Begun
  <2>3. Up(n + 1)[n] = Up(n)[n]
    <3>1. n + 1 \in Nat /\ n <= n + 1 /\ n <= n
      OBVIOUS
    <3>2. \A g \in Begun(c, step, n + 1), h \in Begun(c, step, n) : g[n] = h[n]
      BY <3>1, BegunAgree
    <3> QED BY <2>1, <3>2
  <2> QED BY <2>2, <2>3
<1> QED BY <1>3, <1>4
-----------------------------------------------------------------------------
(***************************************************************************)
(* Halving, and the places of the levels.                                  *)
(***************************************************************************)
LEMMA ShiftedIs ==
  ASSUME NEW a \in Nat
  PROVE  /\ Shifted(a, 0) = a
         /\ \A k \in Nat : /\ Shifted(a, k) \in Nat
                           /\ Shifted(a, k + 1) = Shifted(a, k) \div 2
<1> DEFINE step == [p \in Nat \X Nat |-> p[2] \div 2]
           Halves(g) == g = [j \in Nat |-> IF j = 0 THEN a ELSE g[j - 1] \div 2]
           s == CHOOSE g : Halves(g)
<1>1. \E g : Halves(g)
  <2>1. step \in [Nat \X Nat -> Nat]
    OBVIOUS
  <2>2. PICK f \in [Nat -> Nat] : /\ f[0] = a
                                  /\ \A n \in Nat : f[n + 1] = step[<<n, f[n]>>]
    <3> HIDE DEF step
    <3> QED BY <2>1, RecursiveFunction
  <2>3. \A n \in Nat : f[n + 1] = f[n] \div 2
    BY <2>2
  <2>4. ASSUME NEW j \in Nat PROVE f[j] = IF j = 0 THEN a ELSE f[j - 1] \div 2
    <3>1. CASE j = 0
      BY <3>1, <2>2
    <3>2. CASE j # 0
      <4>1. j - 1 \in Nat /\ (j - 1) + 1 = j
        BY <3>2
      <4>2. f[(j - 1) + 1] = f[j - 1] \div 2
        BY <4>1, <2>3
      <4> QED BY <3>2, <4>1, <4>2
    <3> QED BY <3>1, <3>2
  <2>5. Halves(f)
    BY <2>4
  <2> QED BY <2>5
<1>2. s = [j \in Nat |-> IF j = 0 THEN a ELSE s[j - 1] \div 2]
  <2>1. Halves(s)
    <3> HIDE DEF Halves
    <3> QED BY <1>1
  <2> HIDE DEF s
  <2> QED BY <2>1
<1>3. \A k : Shifted(a, k) = s[k]
  BY DEF Shifted
<1> HIDE DEF s
<1>4. s[0] = a
  BY <1>2
<1>5. ASSUME NEW k \in Nat PROVE s[k + 1] = s[k] \div 2
  <2>1. k + 1 \in Nat /\ k + 1 # 0 /\ (k + 1) - 1 = k
    OBVIOUS
  <2>2. s[k + 1] = s[(k + 1) - 1] \div 2
    BY <1>2, <2>1
  <2> QED BY <2>1, <2>2
<1>6. \A k \in Nat : s[k] \in Nat
  <2> DEFINE A == {k \in Nat : s[k] \in Nat}
  <2>1. 0 \in A
    BY <1>4
  <2>2. \A k \in A : k + 1 \in A
    BY <1>5
  <2>3. A = Nat
    <3>1. A \in SUBSET Nat
      OBVIOUS
    <3> HIDE DEF A
    <3> QED BY <2>1, <2>2, <3>1, AllNaturals
  <2> QED BY <2>3
<1> QED BY <1>3, <1>4, <1>5, <1>6

(* Halved often enough, every size is 0. *)
LEMMA ShiftedAway ==
  ASSUME NEW a \in Nat
  PROVE  \A k \in Nat : Shifted(a, k) = 0 \/ Shifted(a, k) + k <= a
<1> DEFINE A == {k \in Nat : Shifted(a, k) = 0 \/ Shifted(a, k) + k <= a}
<1>1. 0 \in A
  BY ShiftedIs
<1>2. ASSUME NEW k \in A PROVE k + 1 \in A
  <2>1. PICK s \in Nat : s = Shifted(a, k) /\ (s = 0 \/ s + k <= a)
    BY ShiftedIs
  <2>2. Shifted(a, k + 1) = s \div 2
    BY <2>1, ShiftedIs
  <2>3. s \div 2 = 0 \/ (s \div 2) + 1 <= s
    OBVIOUS
  <2> QED BY <2>1, <2>2, <2>3
<1>3. A = Nat
  <2>1. A \in SUBSET Nat
    OBVIOUS
  <2> HIDE DEF A
  <2> QED BY <1>1, <1>2, <2>1, AllNaturals
<1> QED BY <1>3

(* The picture of a state, as the assumption has it. *)
PictureOK ==
  /\ picture.width \in Nat /\ picture.height \in Nat \ {0}
  /\ picture.width >= Least
  /\ picture.measured \cup picture.infinite \subseteq Pixels
  /\ picture.measured \cap picture.infinite = {}

LEMMA Sizes ==
  ASSUME PictureOK
  PROVE  /\ Width(0) = picture.width /\ Height(0) = picture.height
         /\ \A k \in Nat : /\ Width(k) \in Nat /\ Width(k + 1) = Width(k) \div 2
                           /\ Height(k) \in Nat /\ Height(k + 1) = Height(k) \div 2
BY ShiftedIs DEF PictureOK, Width, Height

LEMMA LastIs ==
  ASSUME PictureOK
  PROVE  /\ Last \in Nat \ {0} /\ Width(Last) < Least
         /\ \A k \in 1 .. Last - 1 : Width(k) >= Least
<1> DEFINE N == {k \in 1 .. picture.width : Width(k) < Least}
<1>1. picture.width \in Nat /\ picture.width > 1 /\ Least \in Nat /\ Least > 1
  BY LodsAssumption DEF PictureOK
<1>2. picture.width \in N
  <2>1. Shifted(picture.width, picture.width) = 0
    <3>1. PICK s \in Nat : s = Shifted(picture.width, picture.width)
      BY <1>1, ShiftedIs
    <3> QED BY <3>1, <1>1, ShiftedAway
  <2> QED BY <1>1, <2>1 DEF Width
<1>3. N \in SUBSET Nat /\ N # {}
  BY <1>1, <1>2
<1>4. Last = Min(N)
  BY DEF Last
<1>5. Min(N) \in N /\ \A k \in N : Min(N) <= k
  <2> HIDE DEF N
  <2> QED BY <1>3, LeastElement
<1>6. PICK m \in N : m = Last /\ \A k \in N : m <= k
  BY <1>4, <1>5
<1>7. m \in 1 .. picture.width /\ Width(m) < Least
  OBVIOUS
<1>8. ASSUME NEW k \in 1 .. m - 1 PROVE Width(k) >= Least
  <2>1. k \in 1 .. picture.width /\ k \notin N
    BY <1>1, <1>6, <1>7
  <2>2. Width(k) \in Nat
    BY Sizes
  <2> QED BY <2>1, <2>2, <1>1
<1> QED BY <1>1, <1>6, <1>7, <1>8

LEMMA Offsets ==
  ASSUME PictureOK
  PROVE  /\ Offset(1) = 0
         /\ \A k \in Nat \ {0} :
              Offset(k) \in Nat /\ Offset(k + 1) = Offset(k) + Width(k) * Height(k)
<1> DEFINE Behind(n, o) == IF n = 0 THEN 0 ELSE o + Width(n) * Height(n)
           step == [p \in Nat \X Nat |-> Behind(p[1], p[2])]
           Ends(g) == g = [j \in Nat |-> IF j <= 1 THEN 0
                                         ELSE g[j - 1] + Width(j - 1) * Height(j - 1)]
           s == CHOOSE g : Ends(g)
<1>0. \A k \in Nat : Width(k) * Height(k) \in Nat
  BY Sizes
<1>1. \E g : Ends(g)
  <2>1. \A n, o \in Nat : Behind(n, o) \in Nat
    BY <1>0
  <2>2. step \in [Nat \X Nat -> Nat]
    <3> HIDE DEF Behind
    <3> QED BY <2>1
  <2>3. PICK f \in [Nat -> Nat] : /\ f[0] = 0
                                  /\ \A n \in Nat : f[n + 1] = step[<<n, f[n]>>]
    <3> HIDE DEF step
    <3>1. \A c \in Nat : \E f \in [Nat -> Nat] :
             f[0] = c /\ \A n \in Nat : f[n + 1] = step[<<n, f[n]>>]
      BY <2>2, RecursiveFunction
    <3> QED BY <3>1
  <2>4. \A n \in Nat : f[n + 1] = Behind(n, f[n])
    <3> HIDE DEF Behind
    <3> QED BY <2>3
  <2>5. ASSUME NEW j \in Nat
        PROVE  f[j] = IF j <= 1 THEN 0 ELSE f[j - 1] + Width(j - 1) * Height(j - 1)
    <3>1. CASE j = 0
      BY <3>1, <2>3
    <3>2. CASE j # 0
      <4>1. j - 1 \in Nat /\ (j - 1) + 1 = j /\ (j - 1 = 0 <=> j <= 1)
        BY <3>2
      <4>2. f[(j - 1) + 1] = Behind(j - 1, f[j - 1])
        <5> HIDE DEF Behind
        <5> QED BY <4>1, <2>4
      <4> QED BY <3>2, <4>1, <4>2
    <3> QED BY <3>1, <3>2
  <2>6. Ends(f)
    BY <2>5
  <2> QED BY <2>6
<1>2. s = [j \in Nat |-> IF j <= 1 THEN 0 ELSE s[j - 1] + Width(j - 1) * Height(j - 1)]
  <2>1. Ends(s)
    <3> HIDE DEF Ends
    <3> QED BY <1>1
  <2> HIDE DEF s
  <2> QED BY <2>1
<1>3. \A k : Offset(k) = s[k]
  BY DEF Offset
<1> HIDE DEF s
<1>4. s[0] = 0 /\ s[1] = 0
  BY <1>2
<1>5. ASSUME NEW k \in Nat \ {0} PROVE s[k + 1] = s[k] + Width(k) * Height(k)
  <2>1. k + 1 \in Nat /\ ~(k + 1 <= 1) /\ (k + 1) - 1 = k
    OBVIOUS
  <2>2. s[k + 1] = s[(k + 1) - 1] + Width((k + 1) - 1) * Height((k + 1) - 1)
    BY <1>2, <2>1
  <2> QED BY <2>1, <2>2
<1>6. \A k \in Nat : s[k] \in Nat
  <2> DEFINE A == {k \in Nat : s[k] \in Nat}
  <2>1. 0 \in A
    BY <1>4
  <2>2. ASSUME NEW k \in A PROVE k + 1 \in A
    <3>1. CASE k = 0
      BY <3>1, <1>4
    <3>2. CASE k # 0
      <4>1. s[k + 1] = s[k] + Width(k) * Height(k) /\ Width(k) * Height(k) \in Nat
        BY <3>2, <1>0, <1>5
      <4> QED BY <4>1
    <3> QED BY <3>1, <3>2
  <2>3. A = Nat
    <3>1. A \in SUBSET Nat
      OBVIOUS
    <3> HIDE DEF A
    <3> QED BY <2>1, <2>2, <3>1, AllNaturals
  <2> QED BY <2>3
<1> QED BY <1>3, <1>4, <1>5, <1>6
-----------------------------------------------------------------------------
(***************************************************************************)
(* The invariant of the filling.                                           *)
(***************************************************************************)
(* The columns and rows of a level, and where a place of it lies in it. *)
Across(k)      == 0 .. Width(k) - 1
Down(k)        == 0 .. Height(k) - 1
Place(k, x, y) == y * Width(k) + x

(* The pixels measured in the block of level k at column x and row y. *)
Block(k, x, y) ==
  {j \in picture.measured : Shifted(Column(j), k) = x /\ Shifted(Row(j), k) = y}

(* Each place of a level that was built has the average of its block. *)
BuiltLevel(k) ==
  \A x \in Across(k), y \in Down(k) : lods[Offset(k) + Place(k, x, y)] = Block(k, x, y)

(* Where the block of level k around pixel i lies in the vector. *)
Around(i, k) == Offset(k) + Place(k, Shifted(Column(i), k), Shifted(Row(i), k))

(* Nothing was measured around pixel i from level k up to before level n. *)
NothingBefore(i, k, n) == \A m \in k .. n - 1 : MeasuredAround(i, m) = {}

(* Around each pixel a level that was filled has the average of the first  *)
(* block with a measured pixel, from this level on, or depth 0.            *)
FilledLevel(k) ==
  \A i \in Pixels : HasBlock(i, k) =>
    /\ \A n \in k .. Last - 1 :
         HasBlock(i, n) /\ MeasuredAround(i, n) # {} /\ NothingBefore(i, k, n) =>
           lods[Around(i, k)] = MeasuredAround(i, n)
    /\ HasBlock(i, Last) /\ NothingBefore(i, k, Last) => lods[Around(i, k)] = Zero

(* The picture as it came. *)
Given == [i \in Pixels |->
            IF i \in picture.measured THEN {i}
            ELSE IF i \in picture.infinite THEN Infinite ELSE NaN]

(* What a place of the vector may hold: what was built, or an infinity,    *)
(* once one was found behind the vector.                                   *)
IsAccounted(depth, all) == IsAverage(depth) \/ (depth = Infinite /\ Infinite \in all)

(* The invariant of the filling, in parts. *)
Layout ==
  /\ PictureOK
  /\ DOMAIN lods = 0 .. Room - 1
  /\ \A j \in DOMAIN lods : IsAccounted(lods[j], behind)
  /\ behind \subseteq Garbage
  /\ behind # {} => \E i \in Pixels : ~HasBlock(i, Last)
  /\ phase \in {"build", "fill", "done"}
  /\ phase # "done" => data = Given

Building ==
  phase = "build" =>
    /\ level \in 1 .. Last
    /\ behind = {}
    /\ \A k \in 1 .. level - 1 : BuiltLevel(k)
    /\ \A j \in DOMAIN lods : j >= Offset(level) => lods[j] = Zero

Filling ==
  phase = "fill" =>
    /\ level \in 0 .. Last - 1
    /\ \A k \in 1 .. level : BuiltLevel(k)
    /\ \A k \in level + 1 .. Last : FilledLevel(k)
    /\ \A j \in DOMAIN lods : j >= Offset(level + 1) /\ lods[j] = NaN => NaN \in behind

Done ==
  phase = "done" =>
    /\ level = 0
    /\ DOMAIN data = Pixels
    /\ \A i \in Pixels : IsAverage(data[i]) \/ data[i] = Infinite
    /\ FilledFromNearest
    /\ HolesFromBehindOnly

LodsInv == Layout /\ Building /\ Filling /\ Done
-----------------------------------------------------------------------------
(***************************************************************************)
(* Where things lie: the places of a level, the levels in the vector, the  *)
(* pixels of a block.                                                      *)
(***************************************************************************)
LEMMA RowsAndColumns ==
  ASSUME NEW w \in Nat, NEW h \in Nat, NEW x \in 0 .. w - 1, NEW y \in 0 .. h - 1
  PROVE  /\ y * w + x \in 0 .. w * h - 1
         /\ (y * w + x) % w = x /\ (y * w + x) \div w = y
<1>1. w > 0 /\ y \in Nat /\ y + 1 <= h
  OBVIOUS
<1>2. (w * y) + x = y * w + x
  BY <1>1
<1>3. ((w * y) + x) % w = x /\ ((w * y) + x) \div w = y
  BY <1>1, QuotientIs
<1>4. y * w + x \in 0 .. w * h - 1
  <2>1. w * (y + 1) <= w * h /\ w * (y + 1) = (w * y) + w
    BY <1>1
  <2>2. w * y \in Nat /\ w * h \in Nat
    BY <1>1
  <2> QED BY <1>2, <2>1, <2>2
<1> QED BY <1>2, <1>3, <1>4

LEMMA RowAndColumn ==
  ASSUME NEW w \in Nat, w > 0, NEW h \in Nat, NEW j \in 0 .. w * h - 1
  PROVE  /\ j % w \in 0 .. w - 1 /\ j \div w \in 0 .. h - 1
         /\ (j \div w) * w + (j % w) = j
<1>1. w * h \in Nat /\ j \in Nat /\ j < w * h
  OBVIOUS
<1>2. PICK q \in Nat, r \in 0 .. w - 1 :
        q = j \div w /\ r = j % w /\ j = (w * q) + r
  BY <1>1, Quotient
<1>3. (w * q) + r = q * w + r
  BY <1>2
<1>4. q < h
  <2>1. q >= h => w * q >= w * h
    BY <1>2
  <2>2. w * q \in Nat
    BY <1>2
  <2> QED BY <1>1, <1>2, <2>1, <2>2
<1> QED BY <1>2, <1>3, <1>4

LEMMA PlaceIs ==
  ASSUME PictureOK, NEW k \in Nat, NEW x \in Across(k), NEW y \in Down(k)
  PROVE  /\ Place(k, x, y) \in Indices(k)
         /\ Place(k, x, y) % Width(k) = x /\ Place(k, x, y) \div Width(k) = y
BY Sizes, RowsAndColumns DEF Place, Across, Down, Indices

LEMMA PlaceOf ==
  ASSUME PictureOK, NEW k \in Nat, Width(k) > 0, NEW j \in Indices(k)
  PROVE  /\ j % Width(k) \in Across(k) /\ j \div Width(k) \in Down(k)
         /\ Place(k, j % Width(k), j \div Width(k)) = j
BY Sizes, RowAndColumn DEF Place, Across, Down, Indices

LEMMA PixelPlace ==
  ASSUME PictureOK, NEW i \in Pixels
  PROVE  /\ Column(i) \in Across(0) /\ Row(i) \in Down(0)
         /\ Column(i) \in Nat /\ Row(i) \in Nat
         /\ Place(0, Column(i), Row(i)) = i
<1>1. Width(0) = picture.width /\ Height(0) = picture.height /\ Width(0) > 0
  BY Sizes, LodsAssumption DEF PictureOK
<1>2. i \in Indices(0)
  BY <1>1 DEF Pixels, Indices
<1>3. /\ i % Width(0) \in Across(0) /\ i \div Width(0) \in Down(0)
      /\ Place(0, i % Width(0), i \div Width(0)) = i
  BY <1>1, <1>2, PlaceOf
<1> QED BY <1>1, <1>3 DEF Column, Row, Across, Down

(* A level ends where the next begins, and the last before the end of the  *)
(* vector.                                                                 *)
LEMMA OffsetsGrow ==
  ASSUME PictureOK, NEW k \in Nat \ {0}
  PROVE  \A n \in Nat : Offset(k) <= Offset(k + n)
<1> DEFINE A == {n \in Nat : Offset(k) <= Offset(k + n)}
<1>1. 0 \in A
  BY Offsets
<1>2. ASSUME NEW n \in A PROVE n + 1 \in A
  <2>1. k + n \in Nat \ {0} /\ (k + n) + 1 = k + (n + 1)
    OBVIOUS
  <2>2. /\ Offset(k + n) \in Nat /\ Offset(k) \in Nat
        /\ Offset((k + n) + 1) = Offset(k + n) + Width(k + n) * Height(k + n)
    BY <2>1, Offsets
  <2>3. Width(k + n) * Height(k + n) \in Nat
    <3>1. Width(k + n) \in Nat /\ Height(k + n) \in Nat
      BY <2>1, Sizes
    <3> QED BY <3>1
  <2> QED BY <2>1, <2>2, <2>3
<1>3. A = Nat
  <2>1. A \in SUBSET Nat
    OBVIOUS
  <2> HIDE DEF A
  <2> QED BY <1>1, <1>2, <2>1, AllNaturals
<1> QED BY <1>3

LEMMA LevelsInOrder ==
  ASSUME PictureOK, NEW k \in Nat \ {0}, NEW n \in Nat, k <= n
  PROVE  Offset(k) \in Nat /\ Offset(n) \in Nat /\ Offset(k) <= Offset(n)
<1>1. n - k \in Nat /\ k + (n - k) = n /\ n \in Nat \ {0}
  OBVIOUS
<1>2. Offset(k) <= Offset(k + (n - k))
  BY <1>1, OffsetsGrow
<1> QED BY <1>1, <1>2, Offsets

LEMMA LevelPlace ==
  ASSUME PictureOK, NEW k \in Nat \ {0}, NEW j \in Indices(k)
  PROVE  /\ Offset(k) + j \in Nat /\ j \in Nat /\ Offset(k) \in Nat
         /\ Offset(k) <= Offset(k) + j /\ Offset(k) + j < Offset(k + 1)
         /\ k <= Last => Offset(k) + j \in 0 .. Room - 1
<1>1. PICK a \in Nat : a = Width(k) * Height(k)
  <2>1. Width(k) \in Nat /\ Height(k) \in Nat
    BY Sizes
  <2> QED BY <2>1
<1>2. j \in 0 .. a - 1
  BY <1>1 DEF Indices
<1>3. Offset(k) \in Nat /\ Offset(k + 1) = Offset(k) + a
  BY <1>1, Offsets
<1>4. Offset(k) + j \in Nat /\ Offset(k) + j < Offset(k + 1)
  BY <1>2, <1>3
<1>5. ASSUME k <= Last PROVE Offset(k) + j \in 0 .. Room - 1
  <2>1. Last + 1 \in Nat /\ k + 1 <= Last + 1 /\ k + 1 \in Nat \ {0}
    BY <1>5, LastIs
  <2>2. /\ Offset(k + 1) \in Nat /\ Offset(Last + 1) \in Nat
        /\ Offset(k + 1) <= Offset(Last + 1)
    BY <2>1, LevelsInOrder
  <2> QED BY <1>4, <2>2 DEF Room
<1> QED BY <1>2, <1>3, <1>4, <1>5

(* A block around a pixel has a place in its level, and the smaller blocks *)
(* around the pixel lie in the picture with it.                            *)
LEMMA BlockPlace ==
  ASSUME PictureOK, NEW i \in Pixels, NEW k \in Nat
  PROVE  /\ Shifted(Column(i), k) \in Nat /\ Shifted(Row(i), k) \in Nat
         /\ Shifted(Column(i), k + 1) = Shifted(Column(i), k) \div 2
         /\ Shifted(Row(i), k + 1) = Shifted(Row(i), k) \div 2
         /\ HasBlock(i, k) => /\ Shifted(Column(i), k) \in Across(k)
                              /\ Shifted(Row(i), k) \in Down(k)
         /\ HasBlock(i, k + 1) => HasBlock(i, k)
<1>1. Column(i) \in Nat /\ Row(i) \in Nat
  BY PixelPlace
<1>2. PICK c \in Nat, r \in Nat :
        /\ c = Shifted(Column(i), k) /\ Shifted(Column(i), k + 1) = c \div 2
        /\ r = Shifted(Row(i), k) /\ Shifted(Row(i), k + 1) = r \div 2
  <2>1. \A a \in Nat : /\ Shifted(a, k) \in Nat
                       /\ Shifted(a, k + 1) = Shifted(a, k) \div 2
    BY ShiftedIs
  <2>2. /\ Shifted(Column(i), k) \in Nat
        /\ Shifted(Column(i), k + 1) = Shifted(Column(i), k) \div 2
    BY <1>1, <2>1
  <2>3. /\ Shifted(Row(i), k) \in Nat
        /\ Shifted(Row(i), k + 1) = Shifted(Row(i), k) \div 2
    BY <1>1, <2>1
  <2> QED BY <2>2, <2>3
<1>3. PICK w \in Nat, h \in Nat :
        w = Width(k) /\ h = Height(k) /\ Width(k + 1) = w \div 2 /\ Height(k + 1) = h \div 2
  BY Sizes
<1>4. c \div 2 < w \div 2 => c < w
  OBVIOUS
<1>5. r \div 2 < h \div 2 => r < h
  OBVIOUS
<1>6. HasBlock(i, k + 1) => HasBlock(i, k)
  BY <1>2, <1>3, <1>4, <1>5 DEF HasBlock
<1>7. HasBlock(i, k) => /\ Shifted(Column(i), k) \in Across(k)
                        /\ Shifted(Row(i), k) \in Down(k)
  BY <1>2, <1>3 DEF HasBlock, Across, Down
<1> QED BY <1>2, <1>6, <1>7

LEMMA SmallerBlocks ==
  ASSUME PictureOK, NEW i \in Pixels, NEW n \in Nat, HasBlock(i, n)
  PROVE  \A k \in 0 .. n : HasBlock(i, k)
<1> DEFINE A == {d \in Nat : d <= n => HasBlock(i, n - d)}
<1>1. 0 \in A
  OBVIOUS
<1>2. ASSUME NEW d \in A PROVE d + 1 \in A
  <2> SUFFICES ASSUME d + 1 <= n PROVE HasBlock(i, n - (d + 1))
    OBVIOUS
  <2>1. n - (d + 1) \in Nat /\ (n - (d + 1)) + 1 = n - d /\ d <= n
    OBVIOUS
  <2>2. HasBlock(i, n - d)
    BY <2>1
  <2> QED BY <2>1, <2>2, BlockPlace
<1>3. A = Nat
  <2>1. A \in SUBSET Nat
    OBVIOUS
  <2> HIDE DEF A
  <2> QED BY <1>1, <1>2, <2>1, AllNaturals
<1>4. ASSUME NEW k \in 0 .. n PROVE HasBlock(i, k)
  <2>1. n - k \in A /\ n - k <= n /\ n - (n - k) = k
    BY <1>3
  <2> QED BY <2>1
<1> QED BY <1>4

(* Where the blocks of the last level lie in the picture around all of its *)
(* pixels, each level halves evenly: the block of the last pixel is the    *)
(* last one of every level.                                                *)
LEMMA LastBlocks ==
  ASSUME PictureOK, \A i \in Pixels : HasBlock(i, Last)
  PROVE  \A k \in 0 .. Last : /\ Shifted(picture.width - 1, k) = Width(k) - 1
                             /\ Shifted(picture.height - 1, k) = Height(k) - 1
<1>1. PICK w \in Nat, h \in Nat :
        w = picture.width - 1 /\ h = picture.height - 1 /\ Last \in Nat
  BY LastIs, LodsAssumption DEF PictureOK
<1>2. PICK i \in Pixels : Column(i) = w /\ Row(i) = h
  <2>1. w \in 0 .. picture.width - 1 /\ h \in 0 .. picture.height - 1
    BY <1>1
  <2>2. picture.width \in Nat /\ picture.height \in Nat
    BY DEF PictureOK
  <2> QED BY <2>1, <2>2, RowsAndColumns DEF Pixels, Column, Row
<1>3. \A k \in 0 .. Last : Shifted(w, k) < Width(k) /\ Shifted(h, k) < Height(k)
  BY <1>1, <1>2, SmallerBlocks DEF HasBlock
<1> DEFINE A == {k \in Nat : k <= Last => /\ Shifted(w, k) = Width(k) - 1
                                        /\ Shifted(h, k) = Height(k) - 1}
<1>4. 0 \in A
  BY <1>1, Sizes, ShiftedIs
<1>5. ASSUME NEW k \in A PROVE k + 1 \in A
  <2> SUFFICES ASSUME k + 1 <= Last
               PROVE  /\ Shifted(w, k + 1) = Width(k + 1) - 1
                      /\ Shifted(h, k + 1) = Height(k + 1) - 1
    OBVIOUS
  <2>1. k <= Last /\ k + 1 \in 0 .. Last /\ k \in Nat
    BY <1>1
  <2>2. PICK a \in Nat, b \in Nat :
          a = Width(k) /\ Width(k + 1) = a \div 2 /\ b = Height(k) /\ Height(k + 1) = b \div 2
    BY <2>1, Sizes
  <2>3. Shifted(w, k) = a - 1 /\ Shifted(h, k) = b - 1
    BY <2>1, <2>2
  <2>4. Shifted(w, k + 1) = (a - 1) \div 2 /\ Shifted(h, k + 1) = (b - 1) \div 2
    <3>1. /\ Shifted(w, k + 1) = Shifted(w, k) \div 2
          /\ Shifted(h, k + 1) = Shifted(h, k) \div 2
      BY <2>1, ShiftedIs
    <3> QED BY <2>3, <3>1
  <2>5. (a - 1) \div 2 < a \div 2 /\ (b - 1) \div 2 < b \div 2
    BY <1>3, <2>1, <2>2, <2>4
  <2>6. (a - 1) \div 2 = (a \div 2) - 1 /\ (b - 1) \div 2 = (b \div 2) - 1
    BY <2>5, <2>2
  <2> QED BY <2>2, <2>4, <2>6
<1>6. A = Nat
  <2>1. A \in SUBSET Nat
    OBVIOUS
  <2> HIDE DEF A
  <2> QED BY <1>4, <1>5, <2>1, AllNaturals
<1> QED BY <1>1, <1>6

LEMMA HalvesEvenly ==
  ASSUME PictureOK, \A i \in Pixels : HasBlock(i, Last), NEW k \in 0 .. Last - 1
  PROVE  /\ \A x \in Across(k) : x \div 2 \in Across(k + 1)
         /\ \A y \in Down(k) : y \div 2 \in Down(k + 1)
<1>1. Last \in Nat /\ k \in Nat /\ k \in 0 .. Last /\ k + 1 \in 0 .. Last
  BY LastIs
<1>2. PICK w \in Nat, h \in Nat : w = picture.width - 1 /\ h = picture.height - 1
  BY LodsAssumption DEF PictureOK
<1>3. PICK a \in Nat, b \in Nat :
        a = Width(k) /\ Width(k + 1) = a \div 2 /\ b = Height(k) /\ Height(k + 1) = b \div 2
  BY <1>1, Sizes
<1>4. /\ (a - 1) \div 2 = (a \div 2) - 1
      /\ (b - 1) \div 2 = (b \div 2) - 1
  <2>1. /\ Shifted(w, k) = a - 1 /\ Shifted(w, k + 1) = (a \div 2) - 1
        /\ Shifted(h, k) = b - 1 /\ Shifted(h, k + 1) = (b \div 2) - 1
    BY <1>1, <1>2, <1>3, LastBlocks
  <2>2. /\ Shifted(w, k + 1) = Shifted(w, k) \div 2
        /\ Shifted(h, k + 1) = Shifted(h, k) \div 2
    BY <1>1, <1>2, ShiftedIs
  <2> QED BY <2>1, <2>2
<1>5. /\ \A x \in 0 .. a - 1 : x \div 2 \in 0 .. (a \div 2) - 1
      /\ \A y \in 0 .. b - 1 : y \div 2 \in 0 .. (b \div 2) - 1
  BY <1>3, <1>4
<1> QED BY <1>3, <1>5 DEF Across, Down

LEMMA AroundIs ==
  ASSUME PictureOK, NEW i \in Pixels, NEW k \in Nat
  PROVE  MeasuredAround(i, k) = Block(k, Shifted(Column(i), k), Shifted(Row(i), k))
BY DEF MeasuredAround, Block
-----------------------------------------------------------------------------
(***************************************************************************)
(* What is read and written.                                               *)
(***************************************************************************)
LEMMA AveragesAreDepths ==
  /\ Zero # NaN /\ Unknown # NaN /\ Infinite # NaN
  /\ \A depth : IsAverage(depth) => depth # Infinite
  /\ \A depth \in SUBSET Pixels : IsAverage(depth)
  /\ IsAverage(NaN) /\ IsAverage(Unknown) /\ IsAverage(Zero)
  /\ \A depth \in Garbage : IsAverage(depth) \/ depth = Infinite
<1>1. -2 \notin Pixels
  BY DEF Pixels
<1> QED BY <1>1 DEF IsAverage, Zero, NaN, Unknown, Infinite, Garbage

(* A block is made of four blocks of the level before. *)
LEMMA BlockOfFour ==
  ASSUME PictureOK, NEW k \in Nat, NEW x \in Nat, NEW y \in Nat
  PROVE  \A j : j \in Block(k + 1, x, y) <=>
                  \E dx \in {0, 1}, dy \in {0, 1} : j \in Block(k, 2 * x + dx, 2 * y + dy)
<1>1. \A c, z \in Nat : c \div 2 = z <=> \E d \in {0, 1} : c = 2 * z + d
  OBVIOUS
<1>2. ASSUME NEW j \in picture.measured
      PROVE  /\ Shifted(Column(j), k + 1) = x <=>
                  \E dx \in {0, 1} : Shifted(Column(j), k) = 2 * x + dx
             /\ Shifted(Row(j), k + 1) = y <=>
                  \E dy \in {0, 1} : Shifted(Row(j), k) = 2 * y + dy
  <2>1. j \in Pixels
    BY DEF PictureOK
  <2>2. PICK c \in Nat, r \in Nat : /\ c = Shifted(Column(j), k)
                                    /\ r = Shifted(Row(j), k)
    BY <2>1, BlockPlace
  <2>3. Shifted(Column(j), k + 1) = c \div 2 /\ Shifted(Row(j), k + 1) = r \div 2
    BY <2>1, <2>2, BlockPlace
  <2>4. c \div 2 = x <=> \E dx \in {0, 1} : c = 2 * x + dx
    BY <1>1
  <2>5. r \div 2 = y <=> \E dy \in {0, 1} : r = 2 * y + dy
    BY <1>1
  <2> QED BY <2>2, <2>3, <2>4, <2>5
<1> QED BY <1>2 DEF Block

LEMMA BlockOfOne ==
  ASSUME PictureOK, NEW i \in Pixels
  PROVE  /\ Shifted(Column(i), 0) = Column(i) /\ Shifted(Row(i), 0) = Row(i)
         /\ HasBlock(i, 0)
         /\ MeasuredAround(i, 0) = IF i \in picture.measured THEN {i} ELSE {}
<1>1. \A j \in Pixels : /\ Shifted(Column(j), 0) = Column(j) /\ Shifted(Row(j), 0) = Row(j)
                        /\ Place(0, Column(j), Row(j)) = j
  BY PixelPlace, ShiftedIs
<1>2. \A j \in picture.measured : Column(j) = Column(i) /\ Row(j) = Row(i) => j = i
  <2>1. \A j \in picture.measured : j \in Pixels
    BY DEF PictureOK
  <2> QED BY <1>1, <2>1
<1>3. MeasuredAround(i, 0) = IF i \in picture.measured THEN {i} ELSE {}
  <2>1. \A j \in picture.measured : j \in Pixels
    BY DEF PictureOK
  <2>2. \A j : j \in MeasuredAround(i, 0) <=> j = i /\ i \in picture.measured
    BY <1>1, <1>2, <2>1 DEF MeasuredAround
  <2> QED BY <2>2
<1>4. HasBlock(i, 0)
  <2>1. Column(i) \in Across(0) /\ Row(i) \in Down(0) /\ Width(0) \in Nat /\ Height(0) \in Nat
    BY PixelPlace, Sizes
  <2> QED BY <1>1, <2>1 DEF HasBlock, Across, Down
<1> QED BY <1>1, <1>3, <1>4

LEMMA ReadIs ==
  ASSUME PictureOK, NEW k \in 1 .. Last, NEW j
  PROVE  ReadLevel(k, j) = lods[Offset(k) + j]
<1>1. k # 0
  BY LastIs
<1> QED BY <1>1 DEF ReadLevel

(* Where DepthFillEmpty looks lies before the end of the vector at a pixel *)
(* whose next block lies in the picture, and everywhere if each level      *)
(* halves evenly.                                                          *)
LEMMA SourceIs ==
  ASSUME PictureOK, NEW k \in 0 .. Last - 1, NEW x \in Across(k), NEW y \in Down(k)
  PROVE  /\ Source(k, Place(k, x, y)) = Place(k + 1, x \div 2, y \div 2)
         /\ x \div 2 \in Across(k + 1) /\ y \div 2 \in Down(k + 1) =>
              Place(k, x, y) \notin FilledBehind(k)
<1>1. /\ Last \in Nat /\ k \in Nat /\ k + 1 \in Nat \ {0} /\ k + 1 <= Last
  BY LastIs
<1>2. Source(k, Place(k, x, y)) = Place(k + 1, x \div 2, y \div 2)
  <2>1. Place(k, x, y) % Width(k) = x /\ Place(k, x, y) \div Width(k) = y
    BY <1>1, PlaceIs
  <2> QED BY <2>1 DEF Source, Place
<1>3. ASSUME x \div 2 \in Across(k + 1), y \div 2 \in Down(k + 1)
      PROVE  Place(k, x, y) \notin FilledBehind(k)
  <2>1. Place(k + 1, x \div 2, y \div 2) \in Indices(k + 1)
    BY <1>1, <1>3, PlaceIs
  <2>2. Room \in Nat
    BY <1>1, Offsets DEF Room
  <2>3. ~(Offset(k + 1) + Source(k, Place(k, x, y)) >= Room)
    BY <1>1, <1>2, <2>1, <2>2, LevelPlace
  <2> QED BY <2>3 DEF FilledBehind
<1> QED BY <1>2, <1>3

LEMMA NothingBehind ==
  ASSUME PictureOK, \A i \in Pixels : HasBlock(i, Last), NEW k \in 0 .. Last - 1,
         Width(k) > 0
  PROVE  FilledBehind(k) = {}
<1>1. k \in Nat
  BY LastIs
<1>2. ASSUME NEW j \in Indices(k) PROVE j \notin FilledBehind(k)
  <2>1. PICK x \in Across(k), y \in Down(k) : j = Place(k, x, y)
    BY <1>1, PlaceOf
  <2>2. x \div 2 \in Across(k + 1) /\ y \div 2 \in Down(k + 1)
    BY HalvesEvenly
  <2> QED BY <2>1, <2>2, SourceIs
<1> QED BY <1>2 DEF FilledBehind

(* What DepthBuildLods and DepthFillEmpty find at a place of a level that  *)
(* was built, or of the picture.                                           *)
LEMMA ReadBlock ==
  ASSUME PictureOK, data = Given, NEW k \in 0 .. Last, k # 0 => BuiltLevel(k),
         NEW x \in Across(k), NEW y \in Down(k)
  PROVE  \/ ReadLevel(k, Place(k, x, y)) = Block(k, x, y)
         \/ /\ k = 0 /\ Place(k, x, y) \in picture.infinite
            /\ ReadLevel(k, Place(k, x, y)) = Infinite /\ Block(k, x, y) = {}
<1>1. Last \in Nat /\ k \in Nat
  BY LastIs
<1>2. CASE k # 0
  <2>1. k \in 1 .. Last
    BY <1>1, <1>2
  <2>2. Place(k, x, y) \in Indices(k)
    BY <1>1, PlaceIs
  <2>3. ReadLevel(k, Place(k, x, y)) = lods[Offset(k) + Place(k, x, y)]
    BY <2>1, <2>2, ReadIs
  <2> QED BY <1>2, <2>3 DEF BuiltLevel
<1>3. CASE k = 0
  <2>1. PICK p : p = Place(0, x, y)
    OBVIOUS
  <2>2. /\ p \in Indices(0) /\ p % Width(0) = x /\ p \div Width(0) = y
        /\ Width(0) = picture.width /\ Height(0) = picture.height
    BY <1>3, <2>1, PlaceIs, Sizes
  <2>3. p \in Pixels /\ Column(p) = x /\ Row(p) = y
    BY <2>2 DEF Pixels, Indices, Column, Row
  <2>4. Block(0, x, y) = IF p \in picture.measured THEN {p} ELSE {}
    BY <2>3, BlockOfOne, AroundIs
  <2>5. ReadLevel(0, p) = IF p \in picture.measured THEN {p}
                          ELSE IF p \in picture.infinite THEN Infinite ELSE NaN
    BY <2>3 DEF ReadLevel, Given
  <2> QED BY <1>3, <2>1, <2>4, <2>5 DEF NaN
<1> QED BY <1>2, <1>3

(* So the average over four depths is that of the block they make up. *)
LEMMA AverageIs ==
  ASSUME PictureOK, data = Given, NEW k \in 1 .. Last, k # 1 => BuiltLevel(k - 1),
         NEW x \in Across(k), NEW y \in Down(k)
  PROVE  AverageOver(k, Place(k, x, y)) = Block(k, x, y)
<1> DEFINE Read(dx, dy) == ReadLevel(k - 1, (2 * y + dy) * Width(k - 1) + 2 * x + dx)
           Quarter(dx, dy) == Block(k - 1, 2 * x + dx, 2 * y + dy)
           four == {Read(dx, dy) : dx \in {0, 1}, dy \in {0, 1}}
<1>1. /\ Last \in Nat /\ k \in Nat /\ k - 1 \in Nat /\ (k - 1) + 1 = k /\ k - 1 \in 0 .. Last
      /\ k - 1 # 0 => BuiltLevel(k - 1)
  BY LastIs
<1>2. PICK w \in Nat, h \in Nat : /\ w = Width(k - 1) /\ Width(k) = w \div 2
                                  /\ h = Height(k - 1) /\ Height(k) = h \div 2
  <2>1. /\ Width(k - 1) \in Nat /\ Width((k - 1) + 1) = Width(k - 1) \div 2
        /\ Height(k - 1) \in Nat /\ Height((k - 1) + 1) = Height(k - 1) \div 2
    BY <1>1, Sizes
  <2> QED BY <1>1, <2>1
<1>3. x \in Nat /\ x < w \div 2 /\ y \in Nat /\ y < h \div 2
  BY <1>2 DEF Across, Down
<1>4. ASSUME NEW dx \in {0, 1}, NEW dy \in {0, 1}
      PROVE  \/ Read(dx, dy) = Quarter(dx, dy)
             \/ Read(dx, dy) = Infinite /\ Quarter(dx, dy) = {}
  <2>1. 2 * x + dx \in 0 .. w - 1 /\ 2 * y + dy \in 0 .. h - 1
    BY <1>3
  <2>2. 2 * x + dx \in Across(k - 1) /\ 2 * y + dy \in Down(k - 1)
    BY <1>2, <2>1 DEF Across, Down
  <2>3. (2 * y + dy) * w + 2 * x + dx = (2 * y + dy) * w + (2 * x + dx)
    <3>1. PICK a \in Nat : a = (2 * y + dy) * w
      BY <1>3
    <3> QED BY <3>1, <1>3
  <2>4. Read(dx, dy) = ReadLevel(k - 1, Place(k - 1, 2 * x + dx, 2 * y + dy))
    BY <1>2, <2>3 DEF Place
  <2>5. \/ ReadLevel(k - 1, Place(k - 1, 2 * x + dx, 2 * y + dy)) = Quarter(dx, dy)
        \/ /\ ReadLevel(k - 1, Place(k - 1, 2 * x + dx, 2 * y + dy)) = Infinite
           /\ Quarter(dx, dy) = {}
    BY <1>1, <2>2, ReadBlock
  <2> HIDE DEF Read, Quarter
  <2> QED BY <2>4, <2>5
<1>5. \A dx \in {0, 1}, dy \in {0, 1} : Quarter(dx, dy) # Infinite
  <2>1. \A j \in picture.measured : j \in Pixels
    BY DEF PictureOK
  <2>2. \A dx, dy : Quarter(dx, dy) \in SUBSET Pixels
    BY <2>1 DEF Block
  <2> HIDE DEF Quarter
  <2> QED BY <2>2, AveragesAreDepths
<1>6. AverageOver(k, Place(k, x, y)) = UNION (four \ {Infinite})
  <2>1. Place(k, x, y) % Width(k) = x /\ Place(k, x, y) \div Width(k) = y
    BY <1>1, PlaceIs
  <2> QED BY <2>1 DEF AverageOver
<1>7. \A j : j \in Block(k, x, y) <=> \E dx \in {0, 1}, dy \in {0, 1} : j \in Quarter(dx, dy)
  <2>1. \A j : j \in Block((k - 1) + 1, x, y) <=>
                 \E dx \in {0, 1}, dy \in {0, 1} : j \in Quarter(dx, dy)
    BY <1>1, <1>3, BlockOfFour
  <2> QED BY <1>1, <2>1
<1>8. \A j : j \in UNION (four \ {Infinite}) <=>
               \E dx \in {0, 1}, dy \in {0, 1} : j \in Quarter(dx, dy)
  <2> HIDE DEF Read, Quarter
  <2> QED BY <1>4, <1>5
<1> HIDE DEF four, Quarter
<1> QED BY <1>6, <1>7, <1>8

(* A level is written where it lies, and nothing else. *)
LEMMA WriteIs ==
  ASSUME PictureOK, DOMAIN lods = 0 .. Room - 1, NEW k \in 1 .. Last,
         NEW depths, DOMAIN depths = Indices(k)
  PROVE  LET new == WriteLevel(k, depths)
         IN  /\ DOMAIN new = 0 .. Room - 1
             /\ \A j \in Indices(k) : new[Offset(k) + j] = depths[j]
             /\ \A p \in 0 .. Room - 1 :
                  p < Offset(k) \/ p >= Offset(k + 1) => new[p] = lods[p]
             /\ \A p \in 0 .. Room - 1 :
                  p >= Offset(k) /\ p < Offset(k + 1) =>
                    p - Offset(k) \in Indices(k) /\ new[p] = depths[p - Offset(k)]
<1>1. Last \in Nat /\ k \in Nat \ {0} /\ k <= Last
  BY LastIs
<1>2. PICK o \in Nat, a \in Nat :
        o = Offset(k) /\ a = Width(k) * Height(k) /\ Offset(k + 1) = o + a
  <2>1. Width(k) \in Nat /\ Height(k) \in Nat
    BY <1>1, Sizes
  <2>2. Width(k) * Height(k) \in Nat
    BY <2>1
  <2> QED BY <1>1, <2>2, Offsets
<1>3. Indices(k) = 0 .. a - 1
  BY <1>2 DEF Indices
<1>4. \A j \in Indices(k) : o + j \in 0 .. Room - 1
  BY <1>1, <1>2, LevelPlace
<1>5. \A p \in 0 .. Room - 1 :
        WriteLevel(k, depths)[p] = IF p - o \in 0 .. a - 1 THEN depths[p - o] ELSE lods[p]
  BY <1>2, <1>3 DEF WriteLevel
<1>6. DOMAIN WriteLevel(k, depths) = 0 .. Room - 1
  BY DEF WriteLevel
<1>7. PICK new : new = WriteLevel(k, depths)
  OBVIOUS
<1>8. \A j \in 0 .. a - 1 : new[o + j] = depths[j]
  <2>1. \A j \in 0 .. a - 1 : (o + j) - o = j
    OBVIOUS
  <2> QED BY <1>3, <1>4, <1>5, <1>7, <2>1
<1>9. \A p \in 0 .. Room - 1 : p < o \/ p >= o + a => new[p] = lods[p]
  BY <1>5, <1>7
<1>10. \A p \in 0 .. Room - 1 :
         p >= o /\ p < o + a => p - o \in 0 .. a - 1 /\ new[p] = depths[p - o]
  <2>1. \A p \in 0 .. Room - 1 : p >= o /\ p < o + a => p - o \in 0 .. a - 1
    OBVIOUS
  <2> QED BY <2>1, <1>5, <1>7
<1> QED BY <1>2, <1>3, <1>6, <1>7, <1>8, <1>9, <1>10
-----------------------------------------------------------------------------
(***************************************************************************)
(* The steps.  None changes the picture, and with it the layout.           *)
(***************************************************************************)
LEMMA SamePicture ==
  ASSUME picture' = picture
  PROVE  /\ PictureOK' = PictureOK /\ Last' = Last /\ Room' = Room
         /\ Pixels' = Pixels /\ Given' = Given
         /\ \A k : /\ Offset(k)' = Offset(k) /\ Indices(k)' = Indices(k)
                   /\ Across(k)' = Across(k) /\ Down(k)' = Down(k)
         /\ \A k, x, y : Place(k, x, y)' = Place(k, x, y) /\ Block(k, x, y)' = Block(k, x, y)
<1>1. Last' = Last /\ Pixels' = Pixels /\ Given' = Given /\ PictureOK' = PictureOK
  BY DEF Last, Width, Pixels, Given, PictureOK
<1>2. \A k : Offset(k)' = Offset(k) /\ Indices(k)' = Indices(k)
  BY DEF Offset, Width, Height, Indices
<1>3. Room' = Room
  BY <1>1 DEF Room, Offset, Width, Height
<1>4. \A k : Across(k)' = Across(k) /\ Down(k)' = Down(k)
  BY DEF Across, Down, Width, Height
<1>5. \A k, x, y : Place(k, x, y)' = Place(k, x, y)
  BY DEF Place, Width
<1>6. \A k, x, y : Block(k, x, y)' = Block(k, x, y)
  BY DEF Block, Column, Row
<1> QED BY <1>1, <1>2, <1>3, <1>4, <1>5, <1>6

LEMMA SameAround ==
  ASSUME picture' = picture
  PROVE  /\ \A i, k : /\ HasBlock(i, k)' = HasBlock(i, k)
                      /\ MeasuredAround(i, k)' = MeasuredAround(i, k)
                      /\ Around(i, k)' = Around(i, k)
         /\ \A i, k, n : NothingBefore(i, k, n)' = NothingBefore(i, k, n)
         /\ \A i : Helpful(i)' = Helpful(i) /\ AtEdge(i)' = AtEdge(i)
         /\ \A depth : IsAverage(depth)' = IsAverage(depth)
         /\ \A depth, all : IsAccounted(depth, all)' = IsAccounted(depth, all)
         /\ Garbage' = Garbage /\ NaN' = NaN /\ Zero' = Zero /\ Infinite' = Infinite
<1>1. \A i, k : /\ HasBlock(i, k)' = HasBlock(i, k)
                /\ MeasuredAround(i, k)' = MeasuredAround(i, k)
  BY DEF HasBlock, MeasuredAround, Column, Row, Width, Height
<1>2. \A i, k : Around(i, k)' = Around(i, k)
  BY DEF Around, Offset, Place, Column, Row, Width, Height
<1>3. \A i, k, n : NothingBefore(i, k, n)' = NothingBefore(i, k, n)
  BY DEF NothingBefore, MeasuredAround, Column, Row
<1>4. \A i : Helpful(i)' = Helpful(i) /\ AtEdge(i)' = AtEdge(i)
  BY DEF AtEdge, Helpful, HasBlock, MeasuredAround, Column, Row, Width, Height, Last
<1>5. \A depth : IsAverage(depth)' = IsAverage(depth)
  BY DEF IsAverage, Pixels, Zero, Unknown
<1>6. Garbage' = Garbage /\ NaN' = NaN /\ Zero' = Zero /\ Infinite' = Infinite
  BY DEF Garbage, NaN, Zero, Infinite, Unknown
<1>7. \A depth, all : IsAccounted(depth, all)' = IsAccounted(depth, all)
  BY <1>5, <1>6 DEF IsAccounted
<1> QED BY <1>1, <1>2, <1>3, <1>4, <1>5, <1>6, <1>7

(* A level stays as it was built or filled while its part of the vector    *)
(* does.                                                                   *)
LEMMA StaysBuilt ==
  ASSUME PictureOK, picture' = picture, NEW k \in 1 .. Last, BuiltLevel(k),
         \A p \in 0 .. Room - 1 : p < Offset(k + 1) => lods'[p] = lods[p]
  PROVE  BuiltLevel(k)'
<1>1. Last \in Nat /\ k \in Nat \ {0} /\ k <= Last
  BY LastIs
<1>2. ASSUME NEW x \in Across(k), NEW y \in Down(k)
      PROVE  lods'[Offset(k) + Place(k, x, y)] = Block(k, x, y)
  <2>1. Place(k, x, y) \in Indices(k)
    BY <1>1, PlaceIs
  <2>2. PICK p \in 0 .. Room - 1 : p = Offset(k) + Place(k, x, y) /\ p < Offset(k + 1)
    BY <1>1, <2>1, LevelPlace
  <2> QED BY <2>2 DEF BuiltLevel
<1> QED BY <1>2, SamePicture DEF BuiltLevel

LEMMA StaysFilled ==
  ASSUME PictureOK, picture' = picture, NEW k \in 1 .. Last, FilledLevel(k),
         \A p \in 0 .. Room - 1 : p >= Offset(k) => lods'[p] = lods[p]
  PROVE  FilledLevel(k)'
<1>1. Last \in Nat /\ k \in Nat \ {0} /\ k <= Last
  BY LastIs
<1>2. ASSUME NEW i \in Pixels, HasBlock(i, k)
      PROVE  lods'[Around(i, k)] = lods[Around(i, k)]
  <2>1. Shifted(Column(i), k) \in Across(k) /\ Shifted(Row(i), k) \in Down(k)
    BY <1>1, <1>2, BlockPlace
  <2>2. Place(k, Shifted(Column(i), k), Shifted(Row(i), k)) \in Indices(k)
    BY <1>1, <2>1, PlaceIs
  <2>3. Around(i, k) \in 0 .. Room - 1 /\ Offset(k) <= Around(i, k) /\ Offset(k) \in Nat
    BY <1>1, <2>2, LevelPlace DEF Around
  <2> QED BY <2>3
<1>3. ASSUME NEW i \in Pixels, HasBlock(i, k)
      PROVE  /\ \A n \in k .. Last - 1 :
                  HasBlock(i, n) /\ MeasuredAround(i, n) # {} /\ NothingBefore(i, k, n) =>
                    lods'[Around(i, k)] = MeasuredAround(i, n)
             /\ HasBlock(i, Last) /\ NothingBefore(i, k, Last) => lods'[Around(i, k)] = Zero
  BY <1>2, <1>3 DEF FilledLevel
<1>4. Zero' = Zero
  BY DEF Zero
<1> QED BY <1>3, <1>4, SamePicture, SameAround DEF FilledLevel

(***************************************************************************)
(* DepthBuildLods: the levels are the averages of their blocks.            *)
(***************************************************************************)
LEMMA BuildStep ==
  ASSUME LodsInv, BuildLevel
  PROVE  LodsInv'
<1> PICK k : k = level
  OBVIOUS
<1> DEFINE depths == [i \in Indices(k) |-> AverageOver(k, i)]
<1>1. /\ PictureOK /\ data = Given /\ phase = "build" /\ k \in 1 .. Last
      /\ DOMAIN lods = 0 .. Room - 1
      /\ \A j \in 1 .. k - 1 : BuiltLevel(j)
      /\ \A p \in 0 .. Room - 1 : IsAverage(lods[p])
      /\ \A p \in 0 .. Room - 1 : p >= Offset(k) => lods[p] = Zero
      /\ behind = {}
  BY DEF BuildLevel, LodsInv, Layout, Building, IsAccounted
<1>2. /\ picture' = picture /\ data' = data /\ phase' = "build" /\ level' = k + 1
      /\ behind' = {}
      /\ lods' = WriteLevel(k, depths)
  BY <1>1 DEF BuildLevel
<1>3. /\ Last \in Nat /\ k \in Nat \ {0} /\ k < Last /\ Width(k) > 0
  <2>1. /\ Last \in Nat \ {0} /\ Width(Last) < Least /\ Width(k) >= Least
        /\ Least \in Nat /\ Least > 1
    BY <1>1, LastIs, LodsAssumption DEF BuildLevel
  <2>2. k \in Nat /\ k <= Last /\ Width(k) \in Nat /\ Width(Last) \in Nat
    BY <1>1, <2>1, Sizes
  <2>3. k # Last
    BY <2>1, <2>2
  <2> QED BY <1>1, <2>1, <2>2, <2>3
<1>4. DOMAIN depths = Indices(k) /\ \A j \in Indices(k) : depths[j] = AverageOver(k, j)
  OBVIOUS
<1>5. \A x \in Across(k), y \in Down(k) : AverageOver(k, Place(k, x, y)) = Block(k, x, y)
  <2>1. k # 1 => BuiltLevel(k - 1)
    BY <1>1, <1>3
  <2> QED BY <1>1, <2>1, AverageIs
<1> HIDE DEF depths
<1>6. /\ DOMAIN lods' = 0 .. Room - 1
      /\ \A j \in Indices(k) : lods'[Offset(k) + j] = depths[j]
      /\ \A p \in 0 .. Room - 1 : p < Offset(k) \/ p >= Offset(k + 1) => lods'[p] = lods[p]
      /\ \A p \in 0 .. Room - 1 :
           p >= Offset(k) /\ p < Offset(k + 1) =>
             p - Offset(k) \in Indices(k) /\ lods'[p] = depths[p - Offset(k)]
  BY <1>1, <1>2, <1>4, WriteIs
<1>7. BuiltLevel(k)'
  <2>1. ASSUME NEW x \in Across(k), NEW y \in Down(k)
        PROVE  lods'[Offset(k) + Place(k, x, y)] = Block(k, x, y)
    <3>1. Place(k, x, y) \in Indices(k)
      BY <1>1, <1>3, PlaceIs
    <3> QED BY <3>1, <1>4, <1>5, <1>6
  <2> QED BY <2>1, <1>2, SamePicture DEF BuiltLevel
<1>8. ASSUME NEW j \in 1 .. k - 1 PROVE BuiltLevel(j)'
  <2>1. j \in 1 .. Last /\ j + 1 \in Nat \ {0} /\ j + 1 <= k
    BY <1>3
  <2>2. Offset(j + 1) \in Nat /\ Offset(k) \in Nat /\ Offset(j + 1) <= Offset(k)
    BY <1>1, <1>3, <2>1, LevelsInOrder
  <2>3. \A p \in 0 .. Room - 1 : p < Offset(j + 1) => lods'[p] = lods[p]
    BY <1>6, <2>2
  <2> QED BY <1>1, <1>2, <2>1, <2>3, StaysBuilt
<1>9. /\ Offset(k) \in Nat /\ Offset(k + 1) \in Nat /\ Offset(k) <= Offset(k + 1)
  BY <1>1, <1>3, LevelsInOrder
<1>10. \A p \in 0 .. Room - 1 : p >= Offset(k + 1) => lods'[p] = Zero
  <2>1. \A p \in 0 .. Room - 1 : p >= Offset(k + 1) => p >= Offset(k)
    BY <1>9
  <2> QED BY <1>1, <1>6, <2>1
<1>11. \A p \in 0 .. Room - 1 : IsAverage(lods'[p])
  <2>1. ASSUME NEW j \in Indices(k) PROVE IsAverage(depths[j])
    <3>1. PICK x \in Across(k), y \in Down(k) : j = Place(k, x, y)
      BY <1>1, <1>3, PlaceOf
    <3>2. Block(k, x, y) \in SUBSET Pixels
      BY <1>1 DEF Block, PictureOK
    <3> QED BY <3>1, <3>2, <1>4, <1>5, AveragesAreDepths
  <2>2. ASSUME NEW p \in 0 .. Room - 1 PROVE IsAverage(lods'[p])
    <3>1. CASE p < Offset(k) \/ p >= Offset(k + 1)
      BY <3>1, <1>1, <1>6
    <3>2. CASE p >= Offset(k) /\ p < Offset(k + 1)
      BY <3>2, <1>6, <2>1
    <3>3. p \in Int
      OBVIOUS
    <3> QED BY <3>1, <3>2, <3>3, <1>9
  <2> QED BY <2>2
<1>12. Layout'
  <2>1. \A p \in 0 .. Room - 1 : IsAccounted(lods'[p], behind')
    BY <1>11 DEF IsAccounted
  <2> QED BY <1>1, <1>2, <1>6, <2>1, SamePicture, SameAround DEF Layout
<1>13. Building'
  <2>1. level' \in 1 .. Last'
    BY <1>2, <1>3, SamePicture
  <2>2. \A j \in 1 .. level' - 1 : BuiltLevel(j)'
    <3>1. \A j \in 1 .. level' - 1 : j = k \/ j \in 1 .. k - 1
      BY <1>2, <1>3
    <3> QED BY <3>1, <1>7, <1>8
  <2>3. \A j \in DOMAIN lods' : j >= Offset(level)' => lods'[j] = Zero'
    <3>1. Offset(level)' = Offset(k + 1)
      BY <1>2, SamePicture
    <3>2. Zero' = Zero
      BY DEF Zero
    <3> QED BY <3>1, <3>2, <1>6, <1>10
  <2> QED BY <2>1, <2>2, <2>3, <1>2 DEF Building
<1>14. Filling' /\ Done'
  BY <1>2 DEF Filling, Done
<1> QED BY <1>12, <1>13, <1>14 DEF LodsInv
-----------------------------------------------------------------------------
(* The loop ends at the level that is too narrow, all of it still zeros. *)
LEMMA EndBuildStep ==
  ASSUME LodsInv, EndBuild
  PROVE  LodsInv'
<1>1. /\ PictureOK /\ data = Given /\ phase = "build" /\ level \in 1 .. Last
      /\ DOMAIN lods = 0 .. Room - 1
      /\ \A j \in 1 .. level - 1 : BuiltLevel(j)
      /\ \A p \in 0 .. Room - 1 : IsAverage(lods[p])
      /\ \A p \in 0 .. Room - 1 : p >= Offset(level) => lods[p] = Zero
      /\ Width(level) < Least /\ behind = {}
  BY DEF EndBuild, LodsInv, Layout, Building, IsAccounted
<1>2. /\ picture' = picture /\ data' = data /\ phase' = "fill" /\ level' = level - 1
      /\ lods' = lods /\ behind' = {}
  BY <1>1 DEF EndBuild
<1>3. Last \in Nat \ {0} /\ level = Last
  <2>1. Last \in Nat \ {0} /\ \A k \in 1 .. Last - 1 : Width(k) >= Least
    BY <1>1, LastIs
  <2>2. Width(level) \in Nat /\ Least \in Nat
    BY <1>1, Sizes, LodsAssumption
  <2>3. level \notin 1 .. Last - 1
    BY <1>1, <2>1, <2>2
  <2> QED BY <1>1, <2>1, <2>3
<1>4. ASSUME NEW i \in Pixels, HasBlock(i, Last)
      PROVE  lods[Around(i, Last)] = Zero
  <2>1. Shifted(Column(i), Last) \in Across(Last) /\ Shifted(Row(i), Last) \in Down(Last)
    BY <1>1, <1>3, <1>4, BlockPlace
  <2>2. Place(Last, Shifted(Column(i), Last), Shifted(Row(i), Last)) \in Indices(Last)
    BY <1>1, <1>3, <2>1, PlaceIs
  <2>3. Around(i, Last) \in 0 .. Room - 1 /\ Offset(Last) <= Around(i, Last)
        /\ Offset(Last) \in Nat
    BY <1>1, <1>3, <2>2, LevelPlace DEF Around
  <2> QED BY <1>1, <1>3, <2>3
<1>5. FilledLevel(Last)
  <2>1. \A n : n \notin Last .. Last - 1
    BY <1>3
  <2> QED BY <1>4, <2>1 DEF FilledLevel
<1>6. Layout'
  <2>1. \A p \in 0 .. Room - 1 : IsAccounted(lods'[p], behind')
    BY <1>1, <1>2 DEF IsAccounted
  <2> QED BY <1>1, <1>2, <2>1, SamePicture, SameAround DEF Layout
<1>7. Filling'
  <2>1. level' \in 0 .. Last' - 1
    BY <1>2, <1>3, SamePicture
  <2>2. ASSUME NEW k \in 1 .. level' PROVE BuiltLevel(k)'
    <3>1. k \in 1 .. level - 1 /\ k \in 1 .. Last
      BY <1>2, <1>3
    <3> QED BY <1>1, <1>2, <3>1, StaysBuilt
  <2>3. ASSUME NEW k \in level' + 1 .. Last' PROVE FilledLevel(k)'
    <3>1. k = Last /\ k \in 1 .. Last
      BY <1>2, <1>3, SamePicture
    <3>2. FilledLevel(k)
      BY <1>5, <3>1
    <3> QED BY <1>1, <1>2, <3>1, <3>2, StaysFilled
  <2>4. ASSUME NEW j \in DOMAIN lods', j >= Offset(level + 1)', lods'[j] = NaN'
        PROVE  NaN' \in behind'
    <3>1. Offset(level + 1)' = Offset(level)
      <4>1. PICK k : k = level'
        OBVIOUS
      <4>2. k + 1 = level
        BY <4>1, <1>2, <1>3
      <4>3. Offset(level + 1)' = Offset(k + 1)
        BY <4>1, <1>2, SamePicture
      <4> QED BY <4>2, <4>3
    <3>2. lods[j] = Zero
      BY <1>1, <1>2, <2>4, <3>1
    <3> QED BY <3>2, <2>4, <1>2, AveragesAreDepths DEF NaN
  <2> QED BY <2>1, <2>2, <2>3, <2>4 DEF Filling
<1>8. Building' /\ Done'
  BY <1>2 DEF Building, Done
<1> QED BY <1>6, <1>7, <1>8 DEF LodsInv

(***************************************************************************)
(* DepthFillEmpty, at any level and at the picture itself.                 *)
(***************************************************************************)

(* At the place of a pixel it leaves what was measured around it, from the *)
(* smallest block on, or the zeros of the last level.                      *)
LEMMA FillIsNearest ==
  ASSUME PictureOK, data = Given, NEW k \in 0 .. Last - 1, k # 0 => BuiltLevel(k),
         FilledLevel(k + 1), NEW i \in Pixels, HasBlock(i, k), k = 0 => i \notin picture.infinite,
         NEW found, DOMAIN found = FilledBehind(k)
  PROVE  LET filled == FilledFrom(k, Place(k, Shifted(Column(i), k), Shifted(Row(i), k)), found)
         IN  /\ \A n \in k .. Last - 1 :
                  HasBlock(i, n) /\ MeasuredAround(i, n) # {} /\ NothingBefore(i, k, n) =>
                    filled = MeasuredAround(i, n)
             /\ HasBlock(i, Last) /\ NothingBefore(i, k, Last) => filled = Zero
<1>1. /\ Last \in Nat \ {0} /\ k \in Nat /\ k \in 0 .. Last /\ k + 1 \in 1 .. Last
      /\ k + 1 \in Nat \ {0} /\ k + 1 <= Last
  BY LastIs
<1>2. PICK x, y, p : /\ x = Shifted(Column(i), k) /\ y = Shifted(Row(i), k)
                     /\ p = Place(k, x, y)
  OBVIOUS
<1>3. x \in Across(k) /\ y \in Down(k) /\ x \in Nat /\ y \in Nat
  BY <1>1, <1>2, BlockPlace
<1>4. p \in Indices(k) /\ p % Width(k) = x /\ p \div Width(k) = y
  BY <1>1, <1>2, <1>3, PlaceIs
<1>5. ReadLevel(k, p) = MeasuredAround(i, k)
  <2>1. MeasuredAround(i, k) = Block(k, x, y)
    BY <1>1, <1>2, AroundIs
  <2>2. k = 0 => p = i
    BY <1>2, PixelPlace, BlockOfOne
  <2> QED BY <1>1, <1>2, <1>3, <2>1, <2>2, ReadBlock
<1>6. CASE MeasuredAround(i, k) # {}
  <2>1. FilledFrom(k, p, found) = MeasuredAround(i, k)
    BY <1>5, <1>6 DEF FilledFrom, NaN
  <2>2. ASSUME NEW n \in k .. Last, NothingBefore(i, k, n) PROVE n = k
    <3>1. k \in k .. n - 1 \/ n = k
      BY <1>1
    <3> QED BY <3>1, <2>2, <1>6 DEF NothingBefore
  <2>3. \A n \in k .. Last - 1 : n \in k .. Last
    BY <1>1
  <2>4. ~NothingBefore(i, k, Last)
    BY <2>2, <1>1
  <2> QED BY <2>1, <2>2, <2>3, <2>4, <1>2
<1>7. CASE MeasuredAround(i, k) = {}
  <2>1. ASSUME NEW n \in k + 1 .. Last, HasBlock(i, n)
        PROVE  HasBlock(i, k + 1) /\ FilledFrom(k, p, found) = lods[Around(i, k + 1)]
    <3>1. n \in Nat /\ k + 1 \in 0 .. n
      BY <1>1
    <3>2. HasBlock(i, k + 1)
      BY <3>1, <2>1, SmallerBlocks
    <3>3. /\ Shifted(Column(i), k + 1) \in Across(k + 1)
          /\ Shifted(Row(i), k + 1) \in Down(k + 1)
      BY <1>1, <3>2, BlockPlace
    <3>4. Place(k + 1, Shifted(Column(i), k + 1), Shifted(Row(i), k + 1)) \in Indices(k + 1)
      BY <1>1, <3>3, PlaceIs
    <3>5. /\ Shifted(Column(i), k + 1) = x \div 2 /\ Shifted(Row(i), k + 1) = y \div 2
      BY <1>1, <1>2, BlockPlace
    <3>6. p \notin DOMAIN found /\ Source(k, p) = Place(k + 1, x \div 2, y \div 2)
      BY <1>2, <1>3, <3>3, <3>5, SourceIs
    <3>7. FilledFrom(k, p, found) = ReadLevel(k + 1, Source(k, p))
      BY <1>5, <1>7, <3>6 DEF FilledFrom, NaN
    <3> QED BY <1>1, <3>2, <3>5, <3>6, <3>7, ReadIs DEF Around
  <2>2. ASSUME NEW n \in k .. Last, NothingBefore(i, k, n)
        PROVE  NothingBefore(i, k + 1, n)
    <3>1. \A m \in k + 1 .. n - 1 : m \in k .. n - 1
      BY <1>1
    <3> QED BY <2>2, <3>1 DEF NothingBefore
  <2>3. ASSUME NEW n \in k .. Last - 1, HasBlock(i, n), MeasuredAround(i, n) # {},
               NothingBefore(i, k, n)
        PROVE  FilledFrom(k, p, found) = MeasuredAround(i, n)
    <3>1. n # k
      BY <2>3, <1>7
    <3>2. n \in k + 1 .. Last - 1 /\ n \in k + 1 .. Last /\ n \in k .. Last
      BY <3>1, <1>1
    <3>3. HasBlock(i, k + 1) /\ FilledFrom(k, p, found) = lods[Around(i, k + 1)]
      BY <2>1, <2>3, <3>2
    <3>4. NothingBefore(i, k + 1, n)
      BY <2>2, <2>3, <3>2
    <3> QED BY <2>3, <3>2, <3>3, <3>4 DEF FilledLevel
  <2>4. ASSUME HasBlock(i, Last), NothingBefore(i, k, Last)
        PROVE  FilledFrom(k, p, found) = Zero
    <3>1. Last \in k + 1 .. Last /\ Last \in k .. Last
      BY <1>1
    <3>2. HasBlock(i, k + 1) /\ FilledFrom(k, p, found) = lods[Around(i, k + 1)]
      BY <2>1, <2>4, <3>1
    <3>3. NothingBefore(i, k + 1, Last)
      BY <2>2, <2>4, <3>1
    <3> QED BY <2>4, <3>2, <3>3 DEF FilledLevel
  <2> QED BY <2>3, <2>4, <1>2
<1> QED BY <1>6, <1>7

(* What it leaves is what it reads, or what was found behind the vector.   *)
LEMMA FillIsAccounted ==
  ASSUME PictureOK, DOMAIN lods = 0 .. Room - 1,
         \A p \in 0 .. Room - 1 : IsAccounted(lods[p], behind),
         NEW k \in 0 .. Last - 1, NEW j \in Indices(k), Width(k) > 0,
         \A p \in 0 .. Room - 1 : p >= Offset(k + 1) /\ lods[p] = NaN => NaN \in behind,
         NEW found \in [FilledBehind(k) -> Garbage]
  PROVE  LET all    == behind \cup Range(found)
             filled == FilledFrom(k, j, found)
         IN  \/ filled = ReadLevel(k, j) /\ ReadLevel(k, j) # NaN
             \/ /\ ReadLevel(k, j) = NaN
                /\ IsAverage(filled) \/ (filled = Infinite /\ Infinite \in all)
                /\ filled = NaN => NaN \in all
<1>1. /\ Last \in Nat /\ k \in Nat /\ k + 1 \in Nat \ {0} /\ k + 1 # 0
  BY LastIs
<1>2. CASE ReadLevel(k, j) # NaN
  BY <1>2 DEF FilledFrom
<1>3. CASE ReadLevel(k, j) = NaN /\ j \in FilledBehind(k)
  <2>1. FilledFrom(k, j, found) = found[j] /\ found[j] \in Garbage /\ found[j] \in Range(found)
    BY <1>3 DEF FilledFrom, Range
  <2> QED BY <1>3, <2>1, AveragesAreDepths
<1>4. CASE ReadLevel(k, j) = NaN /\ j \notin FilledBehind(k)
  <2>1. PICK x \in Across(k), y \in Down(k) : j = Place(k, x, y)
    BY <1>1, PlaceOf
  <2>2. PICK q \in Nat : q = Source(k, j)
    <3>1. Source(k, j) = Place(k + 1, x \div 2, y \div 2)
      BY <2>1, SourceIs
    <3>2. x \in Nat /\ y \in Nat /\ Width(k + 1) \in Nat
      <4>1. Width(k) \in Nat /\ Height(k) \in Nat /\ Width(k + 1) \in Nat
        BY <1>1, Sizes
      <4> QED BY <4>1 DEF Across, Down
    <3>3. x \div 2 \in Nat /\ y \div 2 \in Nat
      BY <3>2
    <3>4. (y \div 2) * Width(k + 1) \in Nat
      BY <3>2, <3>3
    <3> QED BY <3>1, <3>3, <3>4 DEF Place
  <2>3. Offset(k + 1) \in Nat /\ Room \in Nat
    <3>1. Last + 1 \in Nat \ {0}
      BY <1>1
    <3> QED BY <1>1, <3>1, Offsets DEF Room
  <2>4. PICK p \in 0 .. Room - 1 : p = Offset(k + 1) + q /\ p >= Offset(k + 1)
    <3>1. ~(Offset(k + 1) + Source(k, j) >= Room)
      BY <1>4 DEF FilledBehind
    <3> QED BY <2>2, <2>3, <3>1
  <2>5. FilledFrom(k, j, found) = lods[p]
    BY <1>1, <1>4, <2>2, <2>4 DEF FilledFrom, ReadLevel
  <2>6. IsAccounted(lods[p], behind) /\ (lods[p] = NaN => NaN \in behind)
    BY <2>4
  <2> QED BY <1>4, <2>5, <2>6 DEF IsAccounted
<1> QED BY <1>2, <1>3, <1>4

(* And behind the vector nothing is found where each level halves evenly.  *)
LEMMA StillAccounted ==
  ASSUME PictureOK, NEW k \in 0 .. Last - 1, Width(k) > 0,
         behind \subseteq Garbage, behind # {} => \E i \in Pixels : ~HasBlock(i, Last),
         NEW found \in [FilledBehind(k) -> Garbage]
  PROVE  LET all == behind \cup Range(found)
         IN  /\ all \subseteq Garbage
             /\ all # {} => \E i \in Pixels : ~HasBlock(i, Last)
<1>1. Range(found) \subseteq Garbage
  BY DEF Range
<1>2. ASSUME \A i \in Pixels : HasBlock(i, Last) PROVE Range(found) = {}
  <2>1. FilledBehind(k) = {}
    BY <1>2, NothingBehind
  <2> QED BY <2>1 DEF Range
<1> QED BY <1>1, <1>2
-----------------------------------------------------------------------------
(* A level is filled from the level after it, in place. *)
LEMMA FillStep ==
  ASSUME LodsInv, FillLevel
  PROVE  LodsInv'
<1> PICK k : k = level
  OBVIOUS
<1>0. PICK found \in [FilledBehind(k) -> Garbage] :
      /\ lods' = WriteLevel(k, [i \in Indices(k) |-> FilledFrom(k, i, found)])
      /\ behind' = behind \cup Range(found)
  BY DEF FillLevel
<1> DEFINE depths == [i \in Indices(k) |-> FilledFrom(k, i, found)]
<1>1. /\ PictureOK /\ data = Given /\ phase = "fill" /\ k \in 1 .. Last - 1
      /\ DOMAIN lods = 0 .. Room - 1
      /\ \A j \in 1 .. k : BuiltLevel(j)
      /\ \A j \in k + 1 .. Last : FilledLevel(j)
      /\ \A p \in 0 .. Room - 1 : IsAccounted(lods[p], behind)
      /\ \A p \in 0 .. Room - 1 : p >= Offset(k + 1) /\ lods[p] = NaN => NaN \in behind
      /\ behind \subseteq Garbage
      /\ behind # {} => \E i \in Pixels : ~HasBlock(i, Last)
  BY DEF FillLevel, LodsInv, Layout, Filling
<1>2. /\ picture' = picture /\ data' = data /\ phase' = "fill" /\ level' = k - 1
      /\ lods' = WriteLevel(k, depths) /\ behind' = behind \cup Range(found)
  BY <1>0, <1>1 DEF FillLevel
<1>3. /\ Last \in Nat \ {0} /\ k \in Nat \ {0} /\ k < Last /\ Width(k) > 0
      /\ k \in 1 .. Last /\ k \in 0 .. Last - 1 /\ k + 1 \in k + 1 .. Last
  <2>1. Last \in Nat \ {0} /\ \A j \in 1 .. Last - 1 : Width(j) >= Least
    BY <1>1, LastIs
  <2>2. Width(k) \in Nat /\ Width(k) >= Least /\ Least \in Nat /\ Least > 1
    <3>1. k \in Nat /\ Least \in Nat /\ Least > 1
      BY <1>1, <2>1, LodsAssumption
    <3> QED BY <1>1, <2>1, <3>1, Sizes
  <2> QED BY <1>1, <2>1, <2>2
<1>4. DOMAIN depths = Indices(k) /\ \A j \in Indices(k) : depths[j] = FilledFrom(k, j, found)
  OBVIOUS
<1> HIDE DEF depths
<1>5. /\ DOMAIN lods' = 0 .. Room - 1
      /\ \A j \in Indices(k) : lods'[Offset(k) + j] = depths[j]
      /\ \A p \in 0 .. Room - 1 : p < Offset(k) \/ p >= Offset(k + 1) => lods'[p] = lods[p]
      /\ \A p \in 0 .. Room - 1 :
           p >= Offset(k) /\ p < Offset(k + 1) =>
             p - Offset(k) \in Indices(k) /\ lods'[p] = depths[p - Offset(k)]
  BY <1>1, <1>2, <1>3, <1>4, WriteIs
<1>6. /\ Offset(k) \in Nat /\ Offset(k + 1) \in Nat /\ Offset(k) <= Offset(k + 1)
  BY <1>1, <1>3, LevelsInOrder
<1>7. \A j \in Indices(k) : /\ IsAccounted(depths[j], behind')
                            /\ depths[j] = NaN => NaN \in behind'
  <2>1. ASSUME NEW j \in Indices(k)
        PROVE  LET filled == FilledFrom(k, j, found)
               IN  /\ IsAverage(filled) \/ (filled = Infinite /\ Infinite \in behind')
                   /\ filled = NaN => NaN \in behind'
    <3>1. \/ /\ FilledFrom(k, j, found) = ReadLevel(k, j)
             /\ ReadLevel(k, j) # NaN
          \/ /\ \/ IsAverage(FilledFrom(k, j, found))
                \/ FilledFrom(k, j, found) = Infinite /\ Infinite \in behind'
             /\ FilledFrom(k, j, found) = NaN => NaN \in behind'
      BY <1>1, <1>2, <1>3, FillIsAccounted
    <3>2. ReadLevel(k, j) = lods[Offset(k) + j] /\ Offset(k) + j \in 0 .. Room - 1
      BY <1>1, <1>3, ReadIs, LevelPlace
    <3>3. IsAccounted(ReadLevel(k, j), behind)
      BY <1>1, <3>2
    <3>4. behind \subseteq behind'
      BY <1>2
    <3> QED BY <3>1, <3>3, <3>4 DEF IsAccounted
  <2>2. \A j \in Indices(k) : /\ \/ IsAverage(depths[j])
                                 \/ depths[j] = Infinite /\ Infinite \in behind'
                              /\ depths[j] = NaN => NaN \in behind'
    BY <1>4, <2>1
  <2> QED BY <2>2 DEF IsAccounted
<1>8. ASSUME NEW p \in 0 .. Room - 1
      PROVE  /\ IsAccounted(lods'[p], behind')
             /\ p >= Offset(k) /\ lods'[p] = NaN => NaN \in behind'
  <2>1. CASE p < Offset(k) \/ p >= Offset(k + 1)
    <3>1. lods'[p] = lods[p] /\ (p >= Offset(k) => p >= Offset(k + 1))
      BY <2>1, <1>5, <1>6
    <3>2. IsAccounted(lods[p], behind) => IsAccounted(lods'[p], behind')
      BY <3>1, <1>2 DEF IsAccounted
    <3>3. behind \subseteq behind'
      BY <1>2
    <3> QED BY <3>1, <3>2, <3>3, <1>1
  <2>2. CASE p >= Offset(k) /\ p < Offset(k + 1)
    <3>1. p - Offset(k) \in Indices(k) /\ lods'[p] = depths[p - Offset(k)]
      BY <2>2, <1>5
    <3> QED BY <3>1, <1>7
  <2> QED BY <2>1, <2>2, <1>6
<1>9. ASSUME NEW j \in 1 .. k - 1 PROVE BuiltLevel(j)'
  <2>1. j \in 1 .. Last /\ j + 1 \in Nat \ {0} /\ j + 1 <= k /\ j \in 1 .. k
    BY <1>3
  <2>2. Offset(j + 1) \in Nat /\ Offset(j + 1) <= Offset(k)
    BY <1>1, <1>3, <2>1, LevelsInOrder
  <2>3. \A p \in 0 .. Room - 1 : p < Offset(j + 1) => lods'[p] = lods[p]
    BY <1>5, <1>6, <2>2
  <2> QED BY <1>1, <1>2, <2>1, <2>3, StaysBuilt
<1>10. ASSUME NEW j \in k + 1 .. Last PROVE FilledLevel(j)'
  <2>1. j \in 1 .. Last /\ k + 1 \in Nat \ {0} /\ k + 1 <= j /\ j \in Nat
    BY <1>3
  <2>2. Offset(j) \in Nat /\ Offset(k + 1) <= Offset(j)
    BY <1>1, <1>3, <2>1, LevelsInOrder
  <2>3. \A p \in 0 .. Room - 1 : p >= Offset(j) => lods'[p] = lods[p]
    BY <1>5, <1>6, <2>2
  <2> QED BY <1>1, <1>2, <2>1, <2>3, StaysFilled
<1>11. FilledLevel(k)'
  <2>1. ASSUME NEW i \in Pixels, HasBlock(i, k)
        PROVE  /\ \A n \in k .. Last - 1 :
                    HasBlock(i, n) /\ MeasuredAround(i, n) # {} /\ NothingBefore(i, k, n) =>
                      lods'[Around(i, k)] = MeasuredAround(i, n)
               /\ HasBlock(i, Last) /\ NothingBefore(i, k, Last) =>
                    lods'[Around(i, k)] = Zero
    <3>1. /\ Shifted(Column(i), k) \in Across(k) /\ Shifted(Row(i), k) \in Down(k)
      BY <1>1, <1>3, <2>1, BlockPlace
    <3>2. Place(k, Shifted(Column(i), k), Shifted(Row(i), k)) \in Indices(k)
      BY <1>1, <1>3, <3>1, PlaceIs
    <3>3. lods'[Around(i, k)] =
            FilledFrom(k, Place(k, Shifted(Column(i), k), Shifted(Row(i), k)), found)
      BY <3>2, <1>4, <1>5 DEF Around
    <3>4. BuiltLevel(k) /\ FilledLevel(k + 1) /\ k # 0
      BY <1>1, <1>3
    <3> QED BY <1>1, <1>3, <2>1, <3>3, <3>4, FillIsNearest
  <2>2. Zero' = Zero
    BY DEF Zero
  <2> QED BY <2>1, <2>2, <1>2, SamePicture, SameAround DEF FilledLevel
<1>12. Layout'
  <2>1. /\ behind' \subseteq Garbage
        /\ behind' # {} => \E i \in Pixels : ~HasBlock(i, Last)
    BY <1>1, <1>2, <1>3, StillAccounted
  <2> QED BY <1>1, <1>2, <1>5, <1>8, <2>1, SamePicture, SameAround DEF Layout
<1>13. Filling'
  <2>1. level' \in 0 .. Last' - 1
    BY <1>2, <1>3, SamePicture
  <2>2. \A j \in 1 .. level' : BuiltLevel(j)'
    BY <1>2, <1>9
  <2>3. \A j \in level' + 1 .. Last' : FilledLevel(j)'
    <3>1. \A j \in level' + 1 .. Last' : j = k \/ j \in k + 1 .. Last
      BY <1>2, <1>3, SamePicture
    <3> QED BY <3>1, <1>10, <1>11
  <2>4. ASSUME NEW j \in DOMAIN lods', j >= Offset(level + 1)', lods'[j] = NaN'
        PROVE  NaN' \in behind'
    <3>1. Offset(level + 1)' = Offset(k)
      <4>1. PICK m : m = level'
        OBVIOUS
      <4>2. m + 1 = k
        BY <4>1, <1>2, <1>3
      <4>3. Offset(level + 1)' = Offset(m + 1)
        BY <4>1, <1>2, SamePicture
      <4> QED BY <4>2, <4>3
    <3> QED BY <3>1, <2>4, <1>5, <1>8 DEF NaN
  <2> QED BY <2>1, <2>2, <2>3, <2>4 DEF Filling
<1>14. Building' /\ Done'
  BY <1>2 DEF Building, Done
<1> QED BY <1>12, <1>13, <1>14 DEF LodsInv

(* Last the picture is filled from the first level. *)
LEMMA FillDataStep ==
  ASSUME LodsInv, FillData
  PROVE  LodsInv'
<1>1. /\ PictureOK /\ data = Given /\ phase = "fill" /\ level = 0
      /\ DOMAIN lods = 0 .. Room - 1 /\ 0 \in 0 .. Last - 1
      /\ FilledLevel(0 + 1)
      /\ \A p \in 0 .. Room - 1 : IsAccounted(lods[p], behind)
      /\ \A p \in 0 .. Room - 1 : p >= Offset(0 + 1) /\ lods[p] = NaN => NaN \in behind
      /\ behind \subseteq Garbage
      /\ behind # {} => \E i \in Pixels : ~HasBlock(i, Last)
  <2>1. /\ PictureOK /\ data = Given /\ phase = "fill" /\ level = 0
        /\ DOMAIN lods = 0 .. Room - 1 /\ 0 \in 0 .. Last - 1
        /\ \A k \in level + 1 .. Last : FilledLevel(k)
        /\ \A p \in 0 .. Room - 1 : IsAccounted(lods[p], behind)
        /\ \A p \in 0 .. Room - 1 : p >= Offset(level + 1) /\ lods[p] = NaN => NaN \in behind
        /\ behind \subseteq Garbage
        /\ behind # {} => \E i \in Pixels : ~HasBlock(i, Last)
    BY DEF FillData, LodsInv, Layout, Filling
  <2>2. 0 + 1 \in level + 1 .. Last
    BY <2>1, LastIs
  <2> QED BY <2>1, <2>2
<1>2. PICK found \in [FilledBehind(0) -> Garbage] :
        /\ data' = [i \in Pixels |-> FilledFrom(0, i, found)]
        /\ behind' = behind \cup Range(found)
        /\ picture' = picture /\ lods' = lods /\ level' = 0 /\ phase' = "done"
  BY <1>1 DEF FillData, Given
<1>3. /\ Width(0) > 0 /\ Indices(0) = Pixels /\ Last \in Nat \ {0}
  <2>1. Width(0) = picture.width /\ Height(0) = picture.height
    BY <1>1, Sizes
  <2> QED BY <1>1, <2>1, LastIs, LodsAssumption DEF PictureOK, Indices, Pixels
<1>4. ASSUME NEW i \in Pixels
      PROVE  /\ data'[i] = NaN => NaN \in behind'
             /\ data'[i] = Infinite => i \in picture.infinite \/ Infinite \in behind'
             /\ IsAverage(data'[i]) \/ data'[i] = Infinite
             /\ i \in picture.measured => data'[i] = {i}
             /\ i \in picture.infinite => data'[i] = Infinite
  <2>1. \/ /\ FilledFrom(0, i, found) = ReadLevel(0, i)
           /\ ReadLevel(0, i) # NaN
        \/ /\ ReadLevel(0, i) = NaN
           /\ \/ IsAverage(FilledFrom(0, i, found))
              \/ FilledFrom(0, i, found) = Infinite /\ Infinite \in behind'
           /\ FilledFrom(0, i, found) = NaN => NaN \in behind'
    BY <1>1, <1>2, <1>3, FillIsAccounted
  <2>2. ReadLevel(0, i) = IF i \in picture.measured THEN {i}
                          ELSE IF i \in picture.infinite THEN Infinite ELSE NaN
    BY <1>1 DEF ReadLevel, Given
  <2>3. data'[i] = FilledFrom(0, i, found)
    BY <1>2
  <2>4. IsAverage({i}) /\ {i} # NaN /\ {i} # Infinite /\ Infinite # NaN
    <3>1. {i} \in SUBSET Pixels
      OBVIOUS
    <3> QED BY <3>1, AveragesAreDepths DEF NaN
  <2>5. i \in picture.infinite => i \notin picture.measured
    BY <1>1 DEF PictureOK
  <2>6. CASE i \in picture.measured
    BY <2>1, <2>2, <2>3, <2>4, <2>5, <2>6
  <2>7. CASE i \in picture.infinite
    BY <2>1, <2>2, <2>3, <2>4, <2>5, <2>7
  <2>8. CASE i \notin picture.measured /\ i \notin picture.infinite
    BY <2>1, <2>2, <2>3, <2>8, AveragesAreDepths
  <2> QED BY <2>6, <2>7, <2>8
<1>5. ASSUME NEW i \in Pixels, i \notin picture.measured \cup picture.infinite
      PROVE  IF Helpful(i) # {} THEN data'[i] = MeasuredAround(i, Min(Helpful(i)))
             ELSE HasBlock(i, Last) => data'[i] = Zero
  <2>1. HasBlock(i, 0) /\ MeasuredAround(i, 0) = {}
    BY <1>1, <1>5, BlockOfOne
  <2>2. /\ \A n \in 0 .. Last - 1 :
             HasBlock(i, n) /\ MeasuredAround(i, n) # {} /\ NothingBefore(i, 0, n) =>
               data'[i] = MeasuredAround(i, n)
        /\ HasBlock(i, Last) /\ NothingBefore(i, 0, Last) => data'[i] = Zero
    <3>1. Place(0, Shifted(Column(i), 0), Shifted(Row(i), 0)) = i
      BY <1>1, BlockOfOne, PixelPlace
    <3>2. data'[i] = FilledFrom(0, Place(0, Shifted(Column(i), 0), Shifted(Row(i), 0)), found)
      BY <1>2, <3>1
    <3>3. i \notin picture.infinite
      BY <1>5
    <3> QED BY <1>1, <2>1, <3>2, <3>3, FillIsNearest
  <2>3. ASSUME NEW n \in 1 .. Last, HasBlock(i, n), \A m \in Helpful(i) : n <= m
        PROVE  NothingBefore(i, 0, n)
    <3>1. ASSUME NEW m \in 0 .. n - 1, m # 0 PROVE MeasuredAround(i, m) = {}
      <4>1. m \in 1 .. Last - 1 /\ m \in 0 .. n /\ n \in Nat /\ ~(n <= m)
        BY <1>3, <3>1
      <4>2. HasBlock(i, m)
        BY <1>1, <2>3, <4>1, SmallerBlocks
      <4>3. m \notin Helpful(i)
        BY <2>3, <4>1
      <4> QED BY <4>1, <4>2, <4>3 DEF Helpful
    <3> QED BY <2>1, <3>1 DEF NothingBefore
  <2>4. CASE Helpful(i) # {}
    <3>1. Helpful(i) \in SUBSET Nat
      BY <1>3 DEF Helpful
    <3>2. PICK n \in Helpful(i) : n = Min(Helpful(i)) /\ \A m \in Helpful(i) : n <= m
      BY <3>1, <2>4, LeastElement
    <3>3. n \in 1 .. Last /\ n \in 0 .. Last - 1 /\ HasBlock(i, n) /\ MeasuredAround(i, n) # {}
      <4>1. n \in 1 .. Last - 1 /\ HasBlock(i, n) /\ MeasuredAround(i, n) # {}
        BY <3>2 DEF Helpful
      <4> QED BY <1>3, <4>1
    <3> QED BY <2>2, <2>3, <2>4, <3>2, <3>3
  <2>5. CASE Helpful(i) = {}
    <3>1. Last \in 1 .. Last
      BY <1>3
    <3> QED BY <2>2, <2>3, <2>5, <3>1
  <2> QED BY <2>4, <2>5
<1>6. Layout'
  <2>1. /\ behind' \subseteq Garbage
        /\ behind' # {} => \E i \in Pixels : ~HasBlock(i, Last)
    BY <1>1, <1>2, <1>3, StillAccounted
  <2>2. \A p \in 0 .. Room - 1 : IsAccounted(lods'[p], behind')
    BY <1>1, <1>2 DEF IsAccounted
  <2> QED BY <1>1, <1>2, <2>1, <2>2, SamePicture, SameAround DEF Layout
<1>7. Infinite' = Infinite /\ NaN' = NaN /\ Zero' = Zero
  BY <1>2, SameAround
<1>8. DOMAIN data' = Pixels
  BY <1>2
<1>9. FilledFromNearest'
  BY <1>2, <1>4, <1>5, <1>7, <1>8, SamePicture, SameAround DEF FilledFromNearest
<1>10. HolesFromBehindOnly'
  <2>1. ASSUME NEW i \in Pixels, data'[i] = NaN \/ data'[i] = Infinite,
               i \notin picture.infinite
        PROVE  AtEdge(i)
    <3>1. i \notin picture.measured
      <4>1. {i} # NaN /\ {i} # Infinite
        BY DEF NaN, Infinite, Pixels
      <4> QED BY <2>1, <4>1, <1>4
    <3>2. Helpful(i) = {}
      <4>1. ASSUME Helpful(i) # {} PROVE FALSE
        <5>1. Helpful(i) \in SUBSET Nat
          BY <1>3 DEF Helpful
        <5>2. Min(Helpful(i)) \in Helpful(i)
          BY <4>1, <5>1, LeastElement
        <5>3. PICK n : n = Min(Helpful(i)) /\ MeasuredAround(i, n) # {}
          BY <5>2 DEF Helpful
        <5>4. MeasuredAround(i, n) \in SUBSET Pixels
          BY <1>1 DEF MeasuredAround, PictureOK
        <5>5. MeasuredAround(i, n) # NaN /\ MeasuredAround(i, n) # Infinite
          BY <5>3, <5>4, AveragesAreDepths DEF NaN
        <5>6. data'[i] = MeasuredAround(i, n)
          BY <4>1, <5>3, <2>1, <3>1, <1>5
        <5> QED BY <5>5, <5>6, <2>1
      <4> QED BY <4>1
    <3>3. ~HasBlock(i, Last)
      <4>1. Zero # NaN /\ Zero # Infinite
        BY AveragesAreDepths
      <4> QED BY <4>1, <2>1, <3>1, <3>2, <1>5
    <3> QED BY <3>2, <3>3 DEF AtEdge
  <2>2. ASSUME NEW i \in Pixels, data'[i] = NaN PROVE NaN \in behind' /\ AtEdge(i)
    <3>1. i \notin picture.infinite
      BY <2>2, <1>4, AveragesAreDepths
    <3> QED BY <2>1, <2>2, <3>1, <1>4
  <2>3. ASSUME NEW i \in Pixels, data'[i] = Infinite
        PROVE  i \in picture.infinite \/ (Infinite \in behind' /\ AtEdge(i))
    BY <2>1, <2>3, <1>4
  <2>4. behind' # {} => \E i \in Pixels : ~HasBlock(i, Last)
    BY <1>1, <1>2, <1>3, StillAccounted
  <2>5. \A i : AtEdge(i)' = AtEdge(i) /\ HasBlock(i, Last)' = HasBlock(i, Last)
    <3>1. PICK n : n = Last
      OBVIOUS
    <3>2. n = Last' /\ \A i : HasBlock(i, n)' = HasBlock(i, n) /\ AtEdge(i)' = AtEdge(i)
      BY <3>1, <1>2, SamePicture, SameAround
    <3> QED BY <3>1, <3>2
  <2> QED BY <1>2, <1>7, <1>8, <2>2, <2>3, <2>4, <2>5 DEF HolesFromBehindOnly
<1>11. Done'
  BY <1>2, <1>4, <1>7, <1>8, <1>9, <1>10, SamePicture, SameAround DEF Done
<1>12. Building' /\ Filling'
  BY <1>2 DEF Building, Filling
<1> QED BY <1>6, <1>11, <1>12 DEF LodsInv
-----------------------------------------------------------------------------
LEMMA LodsInitially == LodsInit => LodsInv
<1> SUFFICES ASSUME LodsInit PROVE LodsInv
  OBVIOUS
<1>1. PictureOK
  BY LodsAssumption DEF LodsInit, PictureOK, Pixels
<1>2. /\ data = Given /\ phase = "build" /\ level = 1 /\ behind = {}
      /\ lods = [p \in 0 .. Room - 1 |-> Zero]
  BY DEF LodsInit, Given
<1>3. Last \in Nat \ {0}
  BY <1>1, LastIs
<1>4. Layout
  BY <1>1, <1>2, AveragesAreDepths DEF Layout, IsAccounted
<1>5. Building
  <2>1. \A k : k \notin 1 .. level - 1
    BY <1>2
  <2> QED BY <1>2, <1>3, <2>1 DEF Building
<1>6. Filling /\ Done
  BY <1>2 DEF Filling, Done
<1> QED BY <1>4, <1>5, <1>6 DEF LodsInv

LEMMA LodsStutter ==
  ASSUME LodsInv, UNCHANGED lodsVars
  PROVE  LodsInv'
<1>1. /\ picture' = picture /\ data' = data /\ lods' = lods /\ level' = level
      /\ phase' = phase /\ behind' = behind
  BY DEF lodsVars
<1>2. /\ Zero' = Zero /\ NaN' = NaN /\ Infinite' = Infinite
      /\ Last \in Nat \ {0} /\ PictureOK
  BY <1>1, LastIs, SameAround DEF LodsInv, Layout
<1>3. Layout'
  <2>1. \A i : HasBlock(i, Last)' = HasBlock(i, Last)
    <3>1. PICK m : m = Last
      OBVIOUS
    <3>2. m = Last' /\ \A i : HasBlock(i, m)' = HasBlock(i, m)
      BY <3>1, <1>1, SamePicture, SameAround
    <3> QED BY <3>1, <3>2
  <2> QED BY <1>1, <2>1, SamePicture, SameAround DEF LodsInv, Layout
<1>4. \A k \in 1 .. Last : /\ BuiltLevel(k) => BuiltLevel(k)'
                           /\ FilledLevel(k) => FilledLevel(k)'
  BY <1>1, <1>2, StaysBuilt, StaysFilled
<1>5. PICK n : n = level
  OBVIOUS
<1>6. Offset(level)' = Offset(level) /\ Offset(level + 1)' = Offset(level + 1)
  <2>1. \A k : Offset(k)' = Offset(k)
    BY <1>1, SamePicture
  <2>2. n = level' /\ Offset(n)' = Offset(n) /\ Offset(n + 1)' = Offset(n + 1)
    BY <2>1, <1>1, <1>5
  <2> QED BY <2>2, <1>5
<1>7. Building'
  <2>1. ASSUME phase = "build" PROVE \A k \in 1 .. level - 1 : BuiltLevel(k)'
    <3>1. \A k \in 1 .. level - 1 : k \in 1 .. Last
      BY <2>1, <1>2 DEF LodsInv, Building
    <3> QED BY <2>1, <3>1, <1>4 DEF LodsInv, Building
  <2> QED BY <1>1, <1>2, <1>6, <2>1, SamePicture DEF LodsInv, Building
<1>8. Filling'
  <2>1. ASSUME phase = "fill"
        PROVE  /\ \A k \in 1 .. level : BuiltLevel(k)'
               /\ \A k \in level + 1 .. Last : FilledLevel(k)'
    <3>1. /\ \A k \in 1 .. level : k \in 1 .. Last
          /\ \A k \in level + 1 .. Last : k \in 1 .. Last
      BY <2>1, <1>2 DEF LodsInv, Filling
    <3> QED BY <2>1, <3>1, <1>4 DEF LodsInv, Filling
  <2> QED BY <1>1, <1>2, <1>6, <2>1, SamePicture DEF LodsInv, Filling
<1>9. Done'
  <2>1. FilledFromNearest => FilledFromNearest'
    BY <1>1, <1>2, SamePicture, SameAround DEF FilledFromNearest
  <2>2. HolesFromBehindOnly => HolesFromBehindOnly'
    <3>1. PICK m : m = Last
      OBVIOUS
    <3>2. m = Last' /\ \A i : HasBlock(i, m)' = HasBlock(i, m) /\ AtEdge(i)' = AtEdge(i)
      BY <3>1, <1>1, SamePicture, SameAround
    <3>3. \A i : HasBlock(i, Last)' = HasBlock(i, Last) /\ AtEdge(i)' = AtEdge(i)
      BY <3>1, <3>2
    <3> QED BY <3>3, <1>1, <1>2 DEF HolesFromBehindOnly
  <2> QED BY <1>1, <1>2, <2>1, <2>2, SamePicture, SameAround DEF LodsInv, Done
<1> QED BY <1>3, <1>7, <1>8, <1>9 DEF LodsInv

(* Each level that was built has the averages of its blocks, each level    *)
(* that was filled what was measured nearest around the pixels, whatever   *)
(* the sizes: the vector is written and read where the levels lie.         *)
THEOREM LodsInvariant == LodsSpec => []LodsInv
<1>1. LodsInv /\ [LodsNext]_lodsVars => LodsInv'
  BY BuildStep, EndBuildStep, FillStep, FillDataStep, LodsStutter DEF LodsNext
<1> QED BY <1>1, LodsInitially, PTL DEF LodsSpec

(* What is built are averages of pixels, in a vector of the size the       *)
(* caller has made; an infinity in it comes from behind the vector.        *)
THEOREM LodsTypeCorrect == LodsSpec => []LodsTypeOK
<1>1. LodsInv => LodsTypeOK
  <2> SUFFICES ASSUME LodsInv PROVE LodsTypeOK
    OBVIOUS
  <2>1. PictureOK /\ Last \in Nat \ {0}
    BY LastIs DEF LodsInv, Layout
  <2>2. \A i \in Pixels : IsAverage(Given[i]) \/ Given[i] = Infinite
    <3>1. \A i \in Pixels : {i} \in SUBSET Pixels
      OBVIOUS
    <3>2. NaN \in SUBSET Pixels
      BY DEF NaN
    <3> QED BY <3>1, <3>2, AveragesAreDepths DEF Given
  <2>3. /\ DOMAIN data = Pixels
        /\ \A i \in Pixels : IsAverage(data[i]) \/ data[i] = Infinite
    <3>1. CASE phase # "done"
      BY <2>2, <3>1 DEF LodsInv, Layout, Given
    <3>2. CASE phase = "done"
      BY <3>2 DEF LodsInv, Done
    <3> QED BY <3>1, <3>2
  <2>4. level \in 0 .. Last /\ phase \in {"build", "fill", "done"}
    <3>1. phase \in {"build", "fill", "done"}
      BY DEF LodsInv, Layout
    <3>2. phase = "build" => level \in 1 .. Last
      BY DEF LodsInv, Building
    <3>3. phase = "fill" => level \in 0 .. Last - 1
      BY DEF LodsInv, Filling
    <3>4. phase = "done" => level = 0
      BY DEF LodsInv, Done
    <3> QED BY <2>1, <3>1, <3>2, <3>3, <3>4
  <2> QED BY <2>1, <2>3, <2>4 DEF LodsTypeOK, LodsInv, Layout, PictureOK, IsAccounted
<1> QED BY <1>1, LodsInvariant, PTL

(* Whatever the size of the picture and whichever pixels were measured: a  *)
(* pixel with a depth keeps it, and a hole gets the average of the         *)
(* smallest block around it in which anything was measured.                *)
THEOREM HolesFilledFromNearest == LodsSpec => []FilledFromNearest
<1>1. LodsInv => FilledFromNearest
  BY DEF LodsInv, Done, FilledFromNearest
<1> QED BY <1>1, LodsInvariant, PTL

(* Whatever the size of the picture: a pixel is left without a depth, or   *)
(* made infinite, only with nothing measured around it, at the edge of a   *)
(* picture that does not halve evenly, and if that was found behind the    *)
(* vector.  In a picture that halves evenly nothing behind it is used.     *)
THEOREM HolesOnlyFromBehind == LodsSpec => []HolesFromBehindOnly
<1>1. LodsInv => HolesFromBehindOnly
  BY DEF LodsInv, Done, HolesFromBehindOnly
<1> QED BY <1>1, LodsInvariant, PTL
=============================================================================
