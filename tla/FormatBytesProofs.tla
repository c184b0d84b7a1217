-------------------------- MODULE FormatBytesProofs --------------------------
(***************************************************************************)
(* What the format streams write they read back, for every number put      *)
(* takes and wherever it stands, and the reader stops right behind it.     *)
(***************************************************************************)
EXTENDS FormatBytes, TLAPS

Unit == {IntUnit, LongUnit}

(* The numbers put takes in one of the two forms. *)
Puts(unit) == IF unit = IntUnit THEN PutsInt ELSE PutsLong

LEMMA Weights ==
    /\ Weight[1] = 1 /\ Weight[2] = Weight1 /\ Weight[3] = Weight2
    /\ Weight[4] = Weight3 /\ Weight[5] = Weight4 /\ Weight[6] = Weight5
    /\ Weight[7] = Weight6 /\ Weight[8] = Weight7
    /\ \A j \in 1 .. 8 : Weight[j] \in Nat \ {0}
<1>1. \A j \in 1 .. 8 : j \in {1, 2, 3, 4, 5, 6, 7, 8}
  BY SMT
<1>2. \A w \in {Weight1, Weight2, Weight3, Weight4, Weight5, Weight6, Weight7} :
        w \in Nat \ {0}
  BY SMT DEF Weight1, Weight2, Weight3, Weight4, Weight5, Weight6, Weight7
<1> QED BY <1>1, <1>2, SMT DEF Weight

(* The bytes of a number, from the right. *)
Digit(val, j) == (val \div Weight[j]) % 256

LEMMA Quotients ==
    ASSUME NEW val \in PutsLong
    PROVE  /\ val \in Nat
           /\ \A j \in 1 .. 8 : Digit(val, j) \in 0 .. 255
           /\ val = (val % 256) + 256 * (val \div Weight1)
           /\ val \div Weight1 = ((val \div Weight1) % 256) + 256 * (val \div Weight2)
           /\ val \div Weight2 = ((val \div Weight2) % 256) + 256 * (val \div Weight3)
           /\ val \div Weight3 = ((val \div Weight3) % 256) + 256 * (val \div Weight4)
           /\ val \div Weight4 = ((val \div Weight4) % 256) + 256 * (val \div Weight5)
           /\ val \div Weight5 = ((val \div Weight5) % 256) + 256 * (val \div Weight6)
           /\ val \div Weight6 = ((val \div Weight6) % 256) + 256 * (val \div Weight7)
           /\ (val \div Weight7) % 256 = val \div Weight7
<1>0. val \in Nat /\ val < 32 * Weight7
  BY DEF PutsLong, LongUnit
<1>1. val = (val % 256) + 256 * (val \div Weight1)
  BY <1>0, SMT DEF Weight1
<1>2. val \div Weight1 = ((val \div Weight1) % 256) + 256 * (val \div Weight2)
  BY <1>0, SMTT(60) DEF Weight1, Weight2
<1>3. val \div Weight2 = ((val \div Weight2) % 256) + 256 * (val \div Weight3)
  BY <1>0, SMTT(60) DEF Weight1, Weight2, Weight3
<1>4. val \div Weight3 = ((val \div Weight3) % 256) + 256 * (val \div Weight4)
  BY <1>0, SMTT(60) DEF Weight1, Weight2, Weight3, Weight4
<1>5. val \div Weight4 = ((val \div Weight4) % 256) + 256 * (val \div Weight5)
  BY <1>0, SMTT(60) DEF Weight1, Weight2, Weight3, Weight4, Weight5
<1>6. val \div Weight5 = ((val \div Weight5) % 256) + 256 * (val \div Weight6)
  BY <1>0, SMTT(60) DEF Weight1, Weight2, Weight3, Weight4, Weight5, Weight6
<1>7. val \div Weight6 = ((val \div Weight6) % 256) + 256 * (val \div Weight7)
  BY <1>0, SMTT(60) DEF Weight1, Weight2, Weight3, Weight4, Weight5, Weight6, Weight7
<1>8. (val \div Weight7) % 256 = val \div Weight7
  <2>1. val \div Weight7 \in Nat /\ val \div Weight7 < 32
    BY <1>0, SMTT(60) DEF Weight1, Weight2, Weight3, Weight4, Weight5, Weight6, Weight7
  <2> QED BY <2>1, SMT
<1>10. \A j \in 1 .. 8 : Digit(val, j) \in 0 .. 255
  <2> TAKE j \in 1 .. 8
  <2>1. Weight[j] \in Nat \ {0}
    BY Weights
  <2>2. val \div Weight[j] \in Nat
    BY <1>0, <2>1, SMT
  <2> QED BY <2>2, SMT DEF Digit
<1> QED BY <1>0, <1>1, <1>2, <1>3, <1>4, <1>5, <1>6, <1>7, <1>8, <1>10

LEMMA Digits ==
    ASSUME NEW val \in Nat
    PROVE  /\ Digit(val, 1) = val % 256 /\ Digit(val, 2) = (val \div Weight1) % 256
           /\ Digit(val, 3) = (val \div Weight2) % 256 /\ Digit(val, 4) = (val \div Weight3) % 256
           /\ Digit(val, 5) = (val \div Weight4) % 256 /\ Digit(val, 6) = (val \div Weight5) % 256
           /\ Digit(val, 7) = (val \div Weight6) % 256 /\ Digit(val, 8) = (val \div Weight7) % 256
<1>1. val \div 1 = val
  BY SMT
<1> QED BY <1>1, Weights DEF Digit

LEMMA SumOfDigits ==
    ASSUME NEW val \in PutsLong
    PROVE  /\ val = Digit(val, 1) * Weight[1] + Digit(val, 2) * Weight[2]
                 + Digit(val, 3) * Weight[3] + Digit(val, 4) * Weight[4]
                 + Digit(val, 5) * Weight[5] + Digit(val, 6) * Weight[6]
                 + Digit(val, 7) * Weight[7] + Digit(val, 8) * Weight[8]
           /\ \A j \in 1 .. 8 : Digit(val, j) \in 0 .. 255
<1> DEFINE d1 == Digit(val, 1)
           d2 == Digit(val, 2)
           d3 == Digit(val, 3)
           d4 == Digit(val, 4)
           d5 == Digit(val, 5)
           d6 == Digit(val, 6)
           d7 == Digit(val, 7)
           d8 == Digit(val, 8)
<1>1. \A j \in 1 .. 8 : Digit(val, j) \in 0 .. 255
  BY Quotients
<1>2. val = d1 + 256 * (d2 + 256 * (d3 + 256 * (d4 + 256 * (d5 + 256 * (d6
              + 256 * (d7 + 256 * d8))))))
  BY Quotients, Digits
<1>3. d1 * 1 = d1 * Weight[1]
  BY Weights
<1>4. d1 \in Nat /\ d2 \in Nat /\ d3 \in Nat /\ d4 \in Nat /\ d5 \in Nat
      /\ d6 \in Nat /\ d7 \in Nat /\ d8 \in Nat
  BY <1>1, SMT
<1>5. d1 + 256 * (d2 + 256 * (d3 + 256 * (d4 + 256 * (d5 + 256 * (d6
              + 256 * (d7 + 256 * d8))))))
        = d1 * 1 + d2 * Weight1 + d3 * Weight2 + d4 * Weight3 + d5 * Weight4
              + d6 * Weight5 + d7 * Weight6 + d8 * Weight7
  <2> HIDE DEF d1, d2, d3, d4, d5, d6, d7, d8
  <2> QED BY <1>4, SMT DEF Weight1, Weight2, Weight3, Weight4, Weight5, Weight6, Weight7
<1>6. val = d1 * Weight[1] + d2 * Weight[2] + d3 * Weight[3] + d4 * Weight[4]
              + d5 * Weight[5] + d6 * Weight[6] + d7 * Weight[7] + d8 * Weight[8]
  <2> HIDE DEF d1, d2, d3, d4, d5, d6, d7, d8
  <2> QED BY <1>2, <1>3, <1>5, Weights
<1> QED BY <1>1, <1>6

LEMMA PutsRange ==
    ASSUME NEW unit \in Unit, NEW val \in Puts(unit)
    PROVE  /\ val \in PutsLong
           /\ unit \in {32, 64} /\ val \in Nat
           /\ unit = 64 => val < 64 * Weight3
           /\ val < 32 * Weight7
<1> USE DEF LongUnit, IntUnit
<1>1. CASE unit = IntUnit
  <2>1. val \in Nat /\ val < 64 * Weight3
    BY <1>1 DEF Puts, PutsInt
  <2>2. val < 32 * Weight7
    BY <2>1, SMT DEF Weight1, Weight2, Weight3, Weight4, Weight5, Weight6, Weight7
  <2> QED BY <1>1, <2>1, <2>2 DEF PutsLong
<1>2. CASE unit = LongUnit
  <2>1. unit # IntUnit /\ unit # 64
    BY <1>2, SMT
  <2>2. val \in Nat /\ val < 32 * Weight7
    BY <2>1 DEF Puts, PutsLong
  <2> QED BY <1>2, <2>1, <2>2 DEF PutsLong
<1> QED BY <1>1, <1>2 DEF Unit

(* The digits beyond the length are zero, and the first leaves room for    *)
(* the bits of the length.                                                 *)
LEMMA Fits ==
    ASSUME NEW unit \in Unit, NEW val \in Puts(unit)
    PROVE  /\ Length(val, unit) \in 1 .. 8
           /\ (Length(val, unit) - 1) * unit + unit <= 256
           /\ Digit(val, Length(val, unit)) \in 0 .. unit - 1
           /\ \A j \in 1 .. 8 : j > Length(val, unit) => Digit(val, j) = 0
<1> DEFINE n == Length(val, unit)
<1>1. val \in Nat /\ unit \in {32, 64}
  BY PutsRange
<1>2. /\ unit = 64 => val < 64 * Weight3
      /\ val < 32 * Weight7
  BY PutsRange
<1>3. /\ Digit(val, 1) = val % 256 /\ Digit(val, 2) = (val \div Weight1) % 256
      /\ Digit(val, 3) = (val \div Weight2) % 256 /\ Digit(val, 4) = (val \div Weight3) % 256
      /\ Digit(val, 5) = (val \div Weight4) % 256 /\ Digit(val, 6) = (val \div Weight5) % 256
      /\ Digit(val, 7) = (val \div Weight6) % 256 /\ Digit(val, 8) = (val \div Weight7) % 256
  BY <1>1, Digits
<1>4. n \in 1 .. 8 /\ (unit = 64 => n <= 4)
  BY <1>1, <1>2, SMT DEF Length
<1>5. (n - 1) * unit + unit <= 256
  <2> HIDE DEF n
  <2> QED BY <1>1, <1>4, SMT
<1>6. \A j \in 1 .. 8 : j \in {1, 2, 3, 4, 5, 6, 7, 8}
  BY SMT
<1> USE DEF Weight1, Weight2, Weight3, Weight4, Weight5, Weight6, Weight7
<1>7. CASE n = 1
  <2>1. val < unit
    BY <1>7, <1>1, <1>2, SMT DEF Length
  <2> HIDE DEF n
  <2>2. Digit(val, 1) \in 0 .. unit - 1
    BY <2>1, <1>1, <1>3, SMT
  <2>3. /\ Digit(val, 2) = 0 /\ Digit(val, 3) = 0 /\ Digit(val, 4) = 0 /\ Digit(val, 5) = 0 /\ Digit(val, 6) = 0 /\ Digit(val, 7) = 0 /\ Digit(val, 8) = 0
    BY <2>1, <1>1, <1>2, <1>3, SMT
  <2> QED BY <2>3, <2>2, <1>7, <1>4, <1>5, <1>6, SMT DEF n
<1>8. CASE n = 2
  <2>1. val < unit * Weight1
    BY <1>8, <1>1, <1>2, SMT DEF Length
  <2> HIDE DEF n
  <2>2. Digit(val, 2) \in 0 .. unit - 1
    BY <2>1, <1>1, <1>3, SMT
  <2>3. /\ Digit(val, 3) = 0 /\ Digit(val, 4) = 0 /\ Digit(val, 5) = 0 /\ Digit(val, 6) = 0 /\ Digit(val, 7) = 0 /\ Digit(val, 8) = 0
    BY <2>1, <1>1, <1>2, <1>3, SMT
  <2> QED BY <2>3, <2>2, <1>8, <1>4, <1>5, <1>6, SMT DEF n
<1>9. CASE n = 3
  <2>1. val < unit * Weight2
    BY <1>9, <1>1, <1>2, SMT DEF Length
  <2> HIDE DEF n
  <2>2. Digit(val, 3) \in 0 .. unit - 1
    BY <2>1, <1>1, <1>3, SMT
  <2>3. /\ Digit(val, 4) = 0 /\ Digit(val, 5) = 0 /\ Digit(val, 6) = 0 /\ Digit(val, 7) = 0 /\ Digit(val, 8) = 0
    BY <2>1, <1>1, <1>2, <1>3, SMT
  <2> QED BY <2>3, <2>2, <1>9, <1>4, <1>5, <1>6, SMT DEF n
<1>10. CASE n = 4
  <2>1. val < unit * Weight3
    BY <1>10, <1>1, <1>2, SMT DEF Length
  <2> HIDE DEF n
  <2>2. Digit(val, 4) \in 0 .. unit - 1
    BY <2>1, <1>1, <1>3, SMT
  <2>3. /\ Digit(val, 5) = 0 /\ Digit(val, 6) = 0 /\ Digit(val, 7) = 0 /\ Digit(val, 8) = 0
    BY <2>1, <1>1, <1>2, <1>3, SMT
  <2> QED BY <2>3, <2>2, <1>10, <1>4, <1>5, <1>6, SMT DEF n
<1>11. CASE n = 5
  <2>1. val < unit * Weight4
    BY <1>11, <1>1, <1>2, SMT DEF Length
  <2> HIDE DEF n
  <2>2. Digit(val, 5) \in 0 .. unit - 1
    BY <2>1, <1>1, <1>3, SMT
  <2>3. /\ Digit(val, 6) = 0 /\ Digit(val, 7) = 0 /\ Digit(val, 8) = 0
    BY <2>1, <1>1, <1>2, <1>3, SMT
  <2> QED BY <2>3, <2>2, <1>11, <1>4, <1>5, <1>6, SMT DEF n
<1>12. CASE n = 6
  <2>1. val < unit * Weight5
    BY <1>12, <1>1, <1>2, SMT DEF Length
  <2> HIDE DEF n
  <2>2. Digit(val, 6) \in 0 .. unit - 1
    BY <2>1, <1>1, <1>3, SMT
  <2>3. /\ Digit(val, 7) = 0 /\ Digit(val, 8) = 0
    BY <2>1, <1>1, <1>2, <1>3, SMT
  <2> QED BY <2>3, <2>2, <1>12, <1>4, <1>5, <1>6, SMT DEF n
<1>13. CASE n = 7
  <2>1. val < unit * Weight6
    BY <1>13, <1>1, <1>2, SMT DEF Length
  <2> HIDE DEF n
  <2>2. Digit(val, 7) \in 0 .. unit - 1
    BY <2>1, <1>1, <1>3, SMT
  <2>3. /\ Digit(val, 8) = 0
    BY <2>1, <1>1, <1>2, <1>3, SMT
  <2> QED BY <2>3, <2>2, <1>13, <1>4, <1>5, <1>6, SMT DEF n
<1>14. CASE n = 8
  <2>1. val < unit * Weight7
    BY <1>14, <1>1, <1>2, SMT DEF Length
  <2> HIDE DEF n
  <2>2. Digit(val, 8) \in 0 .. unit - 1
    BY <2>1, <1>1, <1>3, SMT
  <2> QED BY <2>2, <1>14, <1>4, <1>5, <1>6, SMT DEF n
<1> QED BY <1>4, <1>6, <1>7, <1>8, <1>9, <1>10, <1>11, <1>12, <1>13, <1>14

(* The bytes of a number at its place in the data. *)
Holds(data, off, val, unit) ==
    \A i \in 1 .. Length(val, unit) : data[off + i] = Put(val, unit)[i]

(* What get makes of a number that was put there. *)
LEMMA GetPut ==
    ASSUME NEW unit \in Unit, NEW val \in Puts(unit), NEW data, NEW off \in Nat,
           Holds(data, off, val, unit)
    PROVE  /\ Get(data, off, unit) = val
           /\ Takes(data, off, unit) = Length(val, unit)
<1> DEFINE n == Length(val, unit)
<1>1. /\ n \in 1 .. 8 /\ (n - 1) * unit + unit <= 256
      /\ Digit(val, n) \in 0 .. unit - 1
      /\ \A j \in 1 .. 8 : j > n => Digit(val, j) = 0
  BY Fits
<1>2. val \in PutsLong
  BY PutsRange
<1>3. \A j \in 1 .. 8 : Digit(val, j) \in 0 .. 255 /\ Weight[j] \in Nat \ {0}
  BY <1>2, SumOfDigits, Weights
<1>4. \A i \in 1 .. n : Put(val, unit)[i] = Digit(val, n - i + 1)
                                        + (IF i = 1 THEN (n - 1) * unit ELSE 0)
  BY DEF Put, Digit
<1>5. data[off + 1] = Digit(val, n) + (n - 1) * unit
  <2>1. data[off + 1] = Put(val, unit)[1]
    BY <1>1, SMT DEF Holds
  <2>2. n - 1 + 1 = n /\ 1 \in 1 .. n
    BY <1>1, SMT
  <2> HIDE DEF n
  <2> QED BY <1>4, <2>1, <2>2, SMT
<1>6. data[off + 1] \div unit = n - 1 /\ data[off + 1] % unit = Digit(val, n)
  <2> HIDE DEF n
  <2>1. CASE unit = 64
    BY <2>1, <1>1, <1>5, SMT
  <2>2. CASE unit = 32
    BY <2>2, <1>1, <1>5, SMT
  <2> QED BY <2>1, <2>2 DEF Unit, IntUnit, LongUnit
<1>7. Takes(data, off, unit) = n
  <2> HIDE DEF n
  <2> QED BY <1>1, <1>6, SMT DEF Takes
<1>8. \A j \in 1 .. 8 : Part(data, off, unit, j) = Digit(val, j) * Weight[j]
  <2> TAKE j \in 1 .. 8
  <2>1. CASE j > n
    <3>1. Part(data, off, unit, j) = 0
      BY <2>1, <1>7 DEF Part
    <3> HIDE DEF n
    <3> QED BY <2>1, <3>1, <1>1, <1>3, SMT
  <2>2. CASE j = n
    <3>1. ~ j > n
      BY <2>2, <1>1, SMT
    <3> QED BY <2>2, <3>1, <1>6, <1>7 DEF Part
  <2>3. CASE j < n
    <3>1. n - j + 1 \in 2 .. n /\ n - (n - j + 1) + 1 = j /\ off + n - j + 1 = off + (n - j + 1)
      BY <2>3, <1>1, SMT
    <3>2. data[off + n - j + 1] = Digit(val, j)
      <4>1. data[off + (n - j + 1)] = Put(val, unit)[n - j + 1]
        BY <3>1, SMT DEF Holds
      <4>2. Put(val, unit)[n - j + 1] = Digit(val, j) + 0
        <5> HIDE DEF n
        <5>1. n - j + 1 \in 1 .. n /\ n - j + 1 # 1
          BY <3>1, <1>1, SMT
        <5> QED BY <5>1, <3>1, <1>4
      <4>3. Digit(val, j) + 0 = Digit(val, j)
        BY <1>3, SMT
      <4> QED BY <3>1, <4>1, <4>2, <4>3
    <3>3. ~ j > n /\ j # n
      BY <2>3, <1>1, SMT
    <3> QED BY <3>2, <3>3, <1>7 DEF Part
  <2> QED BY <2>1, <2>2, <2>3, <1>1, SMT
<1>9. Get(data, off, unit)
        = Digit(val, 1) * Weight[1] + Digit(val, 2) * Weight[2]
        + Digit(val, 3) * Weight[3] + Digit(val, 4) * Weight[4]
        + Digit(val, 5) * Weight[5] + Digit(val, 6) * Weight[6]
        + Digit(val, 7) * Weight[7] + Digit(val, 8) * Weight[8]
  BY <1>8, SMT DEF Get
<1> QED BY <1>2, <1>7, <1>9, SumOfDigits

LEMMA PutBytes ==
    ASSUME NEW unit \in Unit, NEW val \in Puts(unit)
    PROVE  Put(val, unit) \in Seq(Byte) /\ Len(Put(val, unit)) = Length(val, unit)
<1> DEFINE n == Length(val, unit)
<1>1. /\ n \in 1 .. 8 /\ (n - 1) * unit + unit <= 256 /\ Digit(val, n) \in 0 .. unit - 1
  BY Fits
<1>2. val \in PutsLong
  BY PutsRange
<1>3. \A j \in 1 .. 8 : Digit(val, j) \in 0 .. 255
  BY <1>2, SumOfDigits
<1>4. Put(val, unit) = [i \in 1 .. n |-> Digit(val, n - i + 1)
                                       + (IF i = 1 THEN (n - 1) * unit ELSE 0)]
  BY DEF Put, Digit
<1> HIDE DEF n
<1>5. ASSUME NEW i \in 1 .. n
      PROVE  Digit(val, n - i + 1) + (IF i = 1 THEN (n - 1) * unit ELSE 0) \in Byte
  <2>1. CASE i = 1
    <3>1. n - i + 1 = n
      BY <2>1, <1>1, SMT
    <3>2. CASE unit = 64
      BY <2>1, <3>1, <3>2, <1>1, SMT DEF Byte
    <3>3. CASE unit = 32
      BY <2>1, <3>1, <3>3, <1>1, SMT DEF Byte
    <3> QED BY <3>2, <3>3 DEF Unit, IntUnit, LongUnit
  <2>2. CASE i # 1
    <3>1. n - i + 1 \in 1 .. 8
      BY <2>2, <1>1, SMT
    <3> QED BY <2>2, <3>1, <1>3, SMT DEF Byte
  <2> QED BY <2>1, <2>2
<1>6. Put(val, unit) \in [1 .. n -> Byte]
  BY <1>4, <1>5
<1>7. Put(val, unit) \in Seq(Byte) /\ Len(Put(val, unit)) = n
  BY <1>6, <1>1, SMT
<1> QED BY <1>7 DEF n

(* What is behind some data keeps its place. *)
LEMMA Placed ==
    ASSUME NEW unit \in Unit, NEW val \in Puts(unit),
           NEW before \in Seq(Byte), NEW after \in Seq(Byte)
    PROVE  /\ Holds(before \o Put(val, unit) \o after, Len(before), val, unit)
           /\ Len(before) # Len(before \o Put(val, unit) \o after)
           /\ Length(val, unit) \in 1 .. 8
<1> DEFINE put == Put(val, unit)
<1>1. put \in Seq(Byte) /\ Len(put) = Length(val, unit)
  BY PutBytes
<1>2. Length(val, unit) \in 1 .. 8
  BY Fits
<1>3. \A i \in 1 .. Len(put) : (before \o put \o after)[Len(before) + i] = put[i]
  <2> HIDE DEF put
  <2> QED BY <1>1, SMT
<1>4. Len(before \o put \o after) = Len(before) + Len(put) + Len(after)
  <2> HIDE DEF put
  <2> QED BY <1>1, SMT
<1>5. Len(before) # Len(before \o put \o after)
  <2> HIDE DEF put
  <2> QED BY <1>1, <1>2, <1>4, SMT
<1> QED BY <1>1, <1>2, <1>3, <1>5 DEF Holds

(* Every int of up to 30 bits is read back, wherever it stands in a meta   *)
(* file, and the reader stands behind its last byte (writeZInt, readZInt). *)
THEOREM ZIntReadBack ==
    ASSUME NEW val \in PutsInt, NEW before \in Seq(Byte), NEW after \in Seq(Byte)
    PROVE  ReadZInt(before \o PutInt(val) \o after, Len(before))
             = [val |-> val, position |-> Len(before) + Len(PutInt(val))]
<1>1. IntUnit \in Unit /\ val \in Puts(IntUnit)
  BY DEF Unit, Puts
<1> DEFINE data == before \o Put(val, IntUnit) \o after
<1>2. /\ Holds(data, Len(before), val, IntUnit) /\ Len(before) # Len(data)
      /\ Len(before) \in Nat
  BY <1>1, Placed
<1>3. /\ Get(data, Len(before), IntUnit) = val
      /\ Takes(data, Len(before), IntUnit) = Length(val, IntUnit)
  <2> HIDE DEF data
  <2> QED BY <1>1, <1>2, GetPut
<1>4. Len(Put(val, IntUnit)) = Length(val, IntUnit)
  BY <1>1, PutBytes
<1> QED BY <1>2, <1>3, <1>4 DEF ReadZInt, ReadZ, PutInt

(* The same for a long of up to 61 bits (writeZLong, readZLong). *)
THEOREM ZLongReadBack ==
    ASSUME NEW val \in PutsLong, NEW before \in Seq(Byte), NEW after \in Seq(Byte)
    PROVE  ReadZLong(before \o PutLong(val) \o after, Len(before))
             = [val |-> val, position |-> Len(before) + Len(PutLong(val))]
<1>1. LongUnit \in Unit /\ val \in Puts(LongUnit)
  BY DEF Unit, Puts, LongUnit, IntUnit
<1> DEFINE data == before \o Put(val, LongUnit) \o after
<1>2. /\ Holds(data, Len(before), val, LongUnit) /\ Len(before) # Len(data)
      /\ Len(before) \in Nat
  BY <1>1, Placed
<1>3. /\ Get(data, Len(before), LongUnit) = val
      /\ Takes(data, Len(before), LongUnit) = Length(val, LongUnit)
  <2> HIDE DEF data
  <2> QED BY <1>1, <1>2, GetPut
<1>4. Len(Put(val, LongUnit)) = Length(val, LongUnit)
  BY <1>1, PutBytes
<1> QED BY <1>2, <1>3, <1>4 DEF ReadZLong, ReadZ, PutLong

LEMMA Associative ==
    ASSUME NEW a \in Seq(Byte), NEW b \in Seq(Byte), NEW c \in Seq(Byte)
    PROVE  a \o (b \o c) = (a \o b) \o c
BY SMT

LEMMA Middle ==
    ASSUME NEW a \in Seq(Byte), NEW b \in Seq(Byte), NEW c \in Seq(Byte)
    PROVE  SubSeq(a \o (b \o c), Len(a) + 1, Len(a) + Len(b)) = b
BY SMT

(* A block of a meta is read back, and the reader stands behind it, ready  *)
(* for the next one (Block.write, Block.read).                             *)
THEOREM BlockReadBack ==
    ASSUME NEW off \in PutsLong, NEW len \in PutsInt,
           NEW before \in Seq(Byte), NEW after \in Seq(Byte)
    PROVE  ReadBlock(before \o WriteBlock(off, len) \o after, Len(before))
             = [off |-> off, len |-> len,
                position |-> Len(before) + Len(WriteBlock(off, len))]
<1> DEFINE o == PutLong(off)
           l == PutInt(len)
<1>1. o \in Seq(Byte) /\ l \in Seq(Byte)
  BY PutBytes DEF PutLong, PutInt, Unit, Puts, IntUnit, LongUnit
<1> DEFINE data == before \o WriteBlock(off, len) \o after
<1>2. /\ data = before \o o \o (l \o after)
      /\ data = (before \o o) \o l \o after
      /\ Len(before \o o) = Len(before) + Len(o)
      /\ Len(WriteBlock(off, len)) = Len(o) + Len(l)
      /\ l \o after \in Seq(Byte) /\ before \o o \in Seq(Byte)
      /\ Len(before) + Len(o) + Len(l) = Len(before) + (Len(o) + Len(l))
  <2>1. WriteBlock(off, len) = o \o l
    BY DEF WriteBlock
  <2>2. Len(before) \in Nat /\ Len(o) \in Nat /\ Len(l) \in Nat
    BY <1>1
  <2> HIDE DEF o, l, data
  <2>3. l \o after \in Seq(Byte) /\ before \o o \in Seq(Byte)
    BY <1>1
  <2>4. Len(before \o o) = Len(before) + Len(o)
    BY <1>1
  <2>5. Len(WriteBlock(off, len)) = Len(o) + Len(l)
    BY <2>1, <1>1
  <2>6. before \o (o \o l) = (before \o o) \o l
    BY <1>1, Associative
  <2>7. (before \o o) \o (l \o after) = ((before \o o) \o l) \o after
    BY <1>1, <2>3, Associative
  <2>8. Len(before) + Len(o) + Len(l) = Len(before) + (Len(o) + Len(l))
    BY <2>2, SMT
  <2> QED BY <2>1, <2>3, <2>4, <2>5, <2>6, <2>7, <2>8 DEF data
<1>3. ReadZLong(data, Len(before)) = [val |-> off, position |-> Len(before) + Len(o)]
  <2>1. ReadZLong(before \o o \o (l \o after), Len(before))
          = [val |-> off, position |-> Len(before) + Len(o)]
    BY <1>2, ZLongReadBack
  <2> HIDE DEF data, o, l
  <2> QED BY <2>1, <1>2
<1>4. ReadZInt(data, Len(before) + Len(o))
        = [val |-> len, position |-> Len(before) + Len(o) + Len(l)]
  <2>1. ReadZInt((before \o o) \o l \o after, Len(before \o o))
          = [val |-> len, position |-> Len(before \o o) + Len(l)]
    BY <1>2, ZIntReadBack
  <2> HIDE DEF data, o, l
  <2> QED BY <2>1, <1>2
<1> HIDE DEF data, o, l
<1>5. ReadBlock(data, Len(before)) = [off |-> off, len |-> len, position |-> Len(before) + Len(o) + Len(l)]
  BY <1>3, <1>4 DEF ReadBlock
<1> QED BY <1>2, <1>5 DEF data

LEMMA ByteReadBack ==
    ASSUME NEW byte \in Byte, NEW before \in Seq(Byte), NEW after \in Seq(Byte)
    PROVE  ReadByte(before \o <<byte>> \o after, Len(before))
             = [val |-> byte, position |-> Len(before) + 1]
<1>1. (before \o <<byte>> \o after)[Len(before) + 1] = byte
  BY SMT
<1> QED BY <1>1 DEF ReadByte

LEMMA UByteReadBack ==
    ASSUME NEW byte \in 0 .. 127, NEW before \in Seq(Byte), NEW after \in Seq(Byte)
    PROVE  ReadUByte(before \o <<byte>> \o after, Len(before))
             = [val |-> byte, position |-> Len(before) + 1]
<1> DEFINE data == before \o <<byte>> \o after
<1>1. <<byte>> \in Seq(Byte)
  BY DEF Byte
<1>2. data[Len(before) + 1] = byte
  BY SMT
<1>3. Len(before) # Len(data)
  BY <1>1, SMT
<1>4. byte < 128
  BY SMT
<1> QED BY <1>2, <1>3, <1>4 DEF ReadUByte

LEMMA StringReadBack ==
    ASSUME NEW str \in Seq(Byte), Len(str) \in PutsInt,
           NEW before \in Seq(Byte), NEW after \in Seq(Byte)
    PROVE  /\ WriteString(str) \in Seq(Byte)
           /\ ReadString(before \o WriteString(str) \o after, Len(before))
                = [val |-> str, position |-> Len(before) + Len(WriteString(str))]
<1> DEFINE l == PutInt(Len(str))
           data == before \o WriteString(str) \o after
<1>1. l \in Seq(Byte)
  BY PutBytes DEF PutInt, Unit, Puts
<1>2. WriteString(str) = l \o str
  BY DEF WriteString
<1> HIDE DEF l
<1>3. /\ WriteString(str) \in Seq(Byte) /\ Len(WriteString(str)) = Len(l) + Len(str)
      /\ str \o after \in Seq(Byte)
  BY <1>1, <1>2
<1>4. data = before \o l \o (str \o after)
  <2>1. before \o (l \o str) = (before \o l) \o str
    BY <1>1, Associative
  <2>2. (before \o l) \o (str \o after) = ((before \o l) \o str) \o after
    <3>1. before \o l \in Seq(Byte)
      BY <1>1
    <3> QED BY <3>1, Associative
  <2> QED BY <2>1, <2>2, <1>2
<1>5. ReadZInt(data, Len(before)) = [val |-> Len(str), position |-> Len(before) + Len(l)]
  <2>1. ReadZInt(before \o PutInt(Len(str)) \o (str \o after), Len(before))
          = [val |-> Len(str), position |-> Len(before) + Len(PutInt(Len(str)))]
    BY <1>3, ZIntReadBack
  <2> HIDE DEF data
  <2> QED BY <2>1, <1>4 DEF l
<1>6. SubSeq(data, Len(before) + Len(l) + 1, Len(before) + Len(l) + Len(str)) = str
  <2>1. before \o l \in Seq(Byte) /\ Len(before \o l) = Len(before) + Len(l)
    BY <1>1
  <2>2. SubSeq((before \o l) \o (str \o after), Len(before \o l) + 1, Len(before \o l) + Len(str)) = str
    BY <2>1, Middle
  <2> HIDE DEF data
  <2> QED BY <1>4, <2>1, <2>2
<1>7. Len(before) \in Nat /\ Len(l) \in Nat /\ Len(str) \in Nat
  BY <1>1
<1>8. Len(before) + Len(l) + Len(str) = Len(before) + Len(WriteString(str))
  BY <1>3, <1>7, SMT
<1> HIDE DEF data
<1>9. ReadString(data, Len(before)) = [val |-> str, position |-> Len(before) + Len(WriteString(str))]
  <2>1. /\ ReadZInt(data, Len(before)).val = Len(str)
        /\ ReadZInt(data, Len(before)).position = Len(before) + Len(l)
    BY <1>5
  <2> QED BY <2>1, <1>6, <1>8 DEF ReadString
<1> QED BY <1>3, <1>9 DEF data

(* The metas up to their blocks that the store writes. *)
Heads == [header : 0 .. 127, fileName : {str \in Seq(Byte) : Len(str) \in PutsInt},
          node : PutsInt, flag : Byte, blocks : PutsInt]

(* A meta is read back up to its blocks, field by field, and the reader    *)
(* stands before the first block (Meta.write, Meta.read).                  *)
THEOREM HeadReadBack ==
    ASSUME NEW meta \in Heads, NEW before \in Seq(Byte), NEW after \in Seq(Byte)
    PROVE  ReadHead(before \o WriteHead(meta) \o after, Len(before))
             = [meta |-> meta, position |-> Len(before) + Len(WriteHead(meta))]
<1> DEFINE f1 == <<meta.header>>
           f2 == WriteString(meta.fileName)
           f3 == PutInt(meta.node)
           f4 == <<meta.flag>>
           f5 == PutInt(meta.blocks)
           b2 == before \o f1
           b3 == b2 \o f2
           b4 == b3 \o f3
           b5 == b4 \o f4
           a4 == f5 \o after
           a3 == f4 \o a4
           a2 == f3 \o a3
           a1 == f2 \o a2
           data == before \o WriteHead(meta) \o after
<1>1. /\ meta.header \in 0 .. 127 /\ meta.fileName \in Seq(Byte) /\ Len(meta.fileName) \in PutsInt
      /\ meta.node \in PutsInt /\ meta.flag \in Byte /\ meta.blocks \in PutsInt
      /\ meta = [header |-> meta.header, fileName |-> meta.fileName, node |-> meta.node,
                 flag |-> meta.flag, blocks |-> meta.blocks]
  BY DEF Heads
<1>2. f1 \in Seq(Byte) /\ f2 \in Seq(Byte) /\ f3 \in Seq(Byte) /\ f4 \in Seq(Byte) /\ f5 \in Seq(Byte)
  <2>1. f3 \in Seq(Byte) /\ f5 \in Seq(Byte)
    BY <1>1, PutBytes DEF PutInt, Unit, Puts
  <2>2. f2 \in Seq(Byte)
    BY <1>1, StringReadBack
  <2>3. f1 \in Seq(Byte) /\ f4 \in Seq(Byte)
    BY <1>1 DEF Byte
  <2> QED BY <2>1, <2>2, <2>3
<1>3. WriteHead(meta) = f1 \o (f2 \o (f3 \o (f4 \o f5)))
  BY DEF WriteHead
<1> HIDE DEF f1, f2, f3, f4, f5
<1>4. b2 \in Seq(Byte) /\ b3 \in Seq(Byte) /\ b4 \in Seq(Byte) /\ b5 \in Seq(Byte)
  BY <1>2
<1>5. a1 \in Seq(Byte) /\ a2 \in Seq(Byte) /\ a3 \in Seq(Byte) /\ a4 \in Seq(Byte)
  BY <1>2
<1>6. /\ Len(b2) = Len(before) + Len(f1) /\ Len(b3) = Len(b2) + Len(f2)
      /\ Len(b4) = Len(b3) + Len(f3) /\ Len(b5) = Len(b4) + Len(f4)
  <2> HIDE DEF a1, a2, a3, a4, data
  <2> QED BY <1>2, <1>4
<1>20. /\ b2 = before \o f1 /\ b3 = b2 \o f2 /\ b4 = b3 \o f3 /\ b5 = b4 \o f4
       /\ a4 = f5 \o after /\ a3 = f4 \o a4 /\ a2 = f3 \o a3 /\ a1 = f2 \o a2
       /\ data = (before \o WriteHead(meta)) \o after
  OBVIOUS
<1> HIDE DEF data, b2, b3, b4, b5, a1, a2, a3, a4
<1>7. data = before \o f1 \o a1
  <2>1. f4 \o f5 \in Seq(Byte) /\ f3 \o (f4 \o f5) \in Seq(Byte)
        /\ f2 \o (f3 \o (f4 \o f5)) \in Seq(Byte)
    BY <1>2
  <2>2. /\ (f4 \o f5) \o after = a3
        /\ (f3 \o (f4 \o f5)) \o after = a2
        /\ (f2 \o (f3 \o (f4 \o f5))) \o after = a1
    <3>1. (f4 \o f5) \o after = f4 \o (f5 \o after)
      <4>1. f4 \in Seq(Byte) /\ f5 \in Seq(Byte)
        BY <1>2
      <4> QED BY <4>1, Associative
    <3>2. (f3 \o (f4 \o f5)) \o after = f3 \o ((f4 \o f5) \o after)
      <4>1. f3 \in Seq(Byte) /\ f4 \o f5 \in Seq(Byte)
        BY <1>2, <2>1
      <4> QED BY <4>1, Associative
    <3>3. (f2 \o (f3 \o (f4 \o f5))) \o after = f2 \o ((f3 \o (f4 \o f5)) \o after)
      <4>1. f2 \in Seq(Byte) /\ f3 \o (f4 \o f5) \in Seq(Byte)
        BY <1>2, <2>1
      <4> QED BY <4>1, Associative
    <3> QED BY <3>1, <3>2, <3>3, <1>20
  <2> DEFINE r == f2 \o (f3 \o (f4 \o f5))
  <2>3. r \in Seq(Byte) /\ r \o after = a1 /\ WriteHead(meta) = f1 \o r
    BY <2>1, <2>2, <1>3
  <2> HIDE DEF r
  <2>4. before \o (f1 \o r) = (before \o f1) \o r
    BY <2>3, <1>2, Associative
  <2>5. ((before \o f1) \o r) \o after = (before \o f1) \o (r \o after)
    <3>1. before \o f1 \in Seq(Byte)
      BY <1>2
    <3> QED BY <3>1, <2>3, Associative
  <2> QED BY <2>3, <2>4, <2>5, <1>20
<1>8. data = b2 \o f2 \o a2
  <2>1. b2 \o (f2 \o a2) = (b2 \o f2) \o a2
    <3>1. b2 \in Seq(Byte) /\ f2 \in Seq(Byte) /\ a2 \in Seq(Byte)
      BY <1>2, <1>4, <1>5
    <3> QED BY <3>1, Associative
  <2> QED BY <2>1, <1>7, <1>20
<1>9. data = b3 \o f3 \o a3
  <2>1. b3 \o (f3 \o a3) = (b3 \o f3) \o a3
    <3>1. b3 \in Seq(Byte) /\ f3 \in Seq(Byte) /\ a3 \in Seq(Byte)
      BY <1>2, <1>4, <1>5
    <3> QED BY <3>1, Associative
  <2> QED BY <2>1, <1>8, <1>20
<1>10. data = b4 \o f4 \o a4
  <2>1. b4 \o (f4 \o a4) = (b4 \o f4) \o a4
    <3>1. b4 \in Seq(Byte) /\ f4 \in Seq(Byte) /\ a4 \in Seq(Byte)
      BY <1>2, <1>4, <1>5
    <3> QED BY <3>1, Associative
  <2> QED BY <2>1, <1>9, <1>20
<1>11. data = b5 \o f5 \o after
  <2>1. b5 \o (f5 \o after) = (b5 \o f5) \o after
    <3>1. b5 \in Seq(Byte) /\ f5 \in Seq(Byte) /\ after \in Seq(Byte)
      BY <1>2, <1>4, <1>5
    <3> QED BY <3>1, Associative
  <2> QED BY <2>1, <1>10, <1>20
<1>12. ReadUByte(data, Len(before)) = [val |-> meta.header, position |-> Len(b2)]
  <2>1. ReadUByte(before \o f1 \o a1, Len(before)) = [val |-> meta.header, position |-> Len(before) + 1]
    BY <1>1, <1>5, UByteReadBack DEF f1
  <2>2. Len(f1) = 1
    BY DEF f1
  <2> QED BY <2>1, <2>2, <1>6, <1>7
<1>13. ReadString(data, Len(b2)) = [val |-> meta.fileName, position |-> Len(b3)]
  <2>1. ReadString(b2 \o f2 \o a2, Len(b2)) = [val |-> meta.fileName, position |-> Len(b2) + Len(f2)]
    BY <1>1, <1>4, <1>5, StringReadBack DEF f2
  <2> QED BY <2>1, <1>6, <1>8
<1>14. ReadZInt(data, Len(b3)) = [val |-> meta.node, position |-> Len(b4)]
  <2>1. ReadZInt(b3 \o f3 \o a3, Len(b3)) = [val |-> meta.node, position |-> Len(b3) + Len(f3)]
    BY <1>1, <1>4, <1>5, ZIntReadBack DEF f3
  <2> QED BY <2>1, <1>6, <1>9
<1>15. ReadByte(data, Len(b4)) = [val |-> meta.flag, position |-> Len(b5)]
  <2>1. ReadByte(b4 \o f4 \o a4, Len(b4)) = [val |-> meta.flag, position |-> Len(b4) + 1]
    BY <1>1, <1>4, <1>5, ByteReadBack DEF f4
  <2>2. Len(f4) = 1
    BY DEF f4
  <2> QED BY <2>1, <2>2, <1>6, <1>10
<1>16. ReadZInt(data, Len(b5)) = [val |-> meta.blocks, position |-> Len(b5) + Len(f5)]
  <2>1. ReadZInt(b5 \o f5 \o after, Len(b5)) = [val |-> meta.blocks, position |-> Len(b5) + Len(f5)]
    BY <1>1, <1>4, ZIntReadBack DEF f5
  <2> QED BY <2>1, <1>11
<1>17. Len(b5) + Len(f5) = Len(before) + Len(WriteHead(meta))
  <2>1. Len(WriteHead(meta)) = Len(f1) + (Len(f2) + (Len(f3) + (Len(f4) + Len(f5))))
    <3>1. Len(f4 \o f5) = Len(f4) + Len(f5) /\ f4 \o f5 \in Seq(Byte)
      BY <1>2
    <3>2. Len(f3 \o (f4 \o f5)) = Len(f3) + Len(f4 \o f5) /\ f3 \o (f4 \o f5) \in Seq(Byte)
      BY <1>2, <3>1
    <3>3. Len(f2 \o (f3 \o (f4 \o f5))) = Len(f2) + Len(f3 \o (f4 \o f5))
          /\ f2 \o (f3 \o (f4 \o f5)) \in Seq(Byte)
      BY <1>2, <3>2
    <3>4. Len(f1 \o (f2 \o (f3 \o (f4 \o f5)))) = Len(f1) + Len(f2 \o (f3 \o (f4 \o f5)))
      BY <1>2, <3>3
    <3> QED BY <1>3, <3>1, <3>2, <3>3, <3>4
  <2>2. /\ Len(f1) \in Nat /\ Len(f2) \in Nat /\ Len(f3) \in Nat /\ Len(f4) \in Nat
        /\ Len(f5) \in Nat /\ Len(before) \in Nat
    BY <1>2
  <2> QED BY <2>1, <2>2, <1>6, SMT
<1>18. ReadHead(data, Len(before))
        = [meta |-> [header |-> meta.header, fileName |-> meta.fileName, node |-> meta.node,
                     flag |-> meta.flag, blocks |-> meta.blocks],
           position |-> Len(b5) + Len(f5)]
  <2>1. /\ ReadUByte(data, Len(before)).val = meta.header
        /\ ReadUByte(data, Len(before)).position = Len(b2)
        /\ ReadString(data, Len(b2)).val = meta.fileName
        /\ ReadString(data, Len(b2)).position = Len(b3)
        /\ ReadZInt(data, Len(b3)).val = meta.node
        /\ ReadZInt(data, Len(b3)).position = Len(b4)
        /\ ReadByte(data, Len(b4)).val = meta.flag
        /\ ReadByte(data, Len(b4)).position = Len(b5)
        /\ ReadZInt(data, Len(b5)).val = meta.blocks
        /\ ReadZInt(data, Len(b5)).position = Len(b5) + Len(f5)
    BY <1>12, <1>13, <1>14, <1>15, <1>16
  <2> DEFINE header == meta.header
  <2>2. header \in 0 .. 127
    BY <1>1
  <2> HIDE DEF header
  <2>3. ~(header < 0)
    BY <2>2, SMT
  <2>4. ~(ReadUByte(data, Len(before)).val < 0)
    BY <2>1, <2>3 DEF header
  <2> QED BY <2>1, <2>4 DEF ReadHead
<1> QED BY <1>1, <1>17, <1>18 DEF data
=============================================================================
