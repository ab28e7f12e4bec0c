----------------------- MODULE DistanceSensorsProof ------------------------
(***************************************************************************)
(* Proofs about DistanceSensors: for any number of sensors, and whichever  *)
(* fail to start, each sensor in use is alone at its address, each budget  *)
(* that was accepted is met, and each reading is a new one of its sensor.  *)
(***************************************************************************)
EXTENDS DistanceSensors, TLAPS

-----------------------------------------------------------------------------
(* Division *)

LEMMA DivIs ==
    ASSUME NEW x \in Nat, NEW p \in Nat \ {0}
    PROVE  x \div p \in Nat /\ p * (x \div p) <= x /\ x < p * (x \div p) + p
OBVIOUS

LEMMA DivModOf ==
    ASSUME NEW p \in Nat \ {0}, NEW n \in Nat, NEW q \in 0 .. p - 1
    PROVE  (n * p + q) % p = q /\ (n * p + q) \div p = n
OBVIOUS

LEMMA ModSmall ==
    ASSUME NEW m \in Nat, NEW x \in 0 .. m - 1
    PROVE  x % m = x
OBVIOUS

LEMMA Times ==
    ASSUME NEW p \in Nat, NEW a \in Nat, NEW b \in Nat, a <= b
    PROVE  p * a <= p * b /\ p * a \in Nat
OBVIOUS

\* As many times as b fits into a, at least, a quotient holds b.
LEMMA DivAtLeast ==
    ASSUME NEW x \in Nat, NEW p \in Nat \ {0}, NEW k \in Nat
    PROVE  x \div p >= k <=> x >= p * k
<1>1. x \div p \in Nat /\ p * (x \div p) <= x /\ x < p * (x \div p) + p
  BY DivIs
<1> DEFINE q == x \div p
<1> HIDE DEF q
<1>2. CASE q >= k
  <2>1. p * k <= p * q
    BY <1>1, <1>2, Times DEF q
  <2> QED BY <1>1, <1>2, <2>1, Times DEF q
<1>3. CASE q + 1 <= k
  <2>1. p * (q + 1) <= p * k /\ p * (q + 1) = p * q + p
    BY <1>1, <1>3, Times DEF q
  <2> QED BY <1>1, <1>3, <2>1, Times DEF q
<1> QED BY <1>1, <1>2, <1>3 DEF q

-----------------------------------------------------------------------------
(* The coding of a timeout *)

Pow(n) == 2^n

LEMMA Powers ==
    /\ Pow(0) = 1 /\ Pow(8) = 256
    /\ \A m \in 0 .. 8 : Pow(m) \in Nat \ {0}
    /\ \A m \in 1 .. 8 : Pow(m) = 2 * Pow(m - 1)
<1>1. /\ Pow(0) = 1 /\ Pow(1) = 2 /\ Pow(2) = 4 /\ Pow(3) = 8 /\ Pow(4) = 16
      /\ Pow(5) = 32 /\ Pow(6) = 64 /\ Pow(7) = 128 /\ Pow(8) = 256
  BY DEF Pow
<1>2. \A m \in 0 .. 8 : m \in {0, 1, 2, 3, 4, 5, 6, 7, 8}
  OBVIOUS
<1>3. \A m \in 1 .. 8 : m \in {1, 2, 3, 4, 5, 6, 7, 8}
  OBVIOUS
<1> QED BY <1>1, <1>2, <1>3

\* The loop stops at the first shift that makes v fit.
Stops(v, n) == v \div Pow(n) < Byte /\ \A m \in 0 .. n - 1 : v \div Pow(m) >= Byte

LEMMA ShiftsIs ==
    ASSUME NEW v \in Nat, NEW n \in 0 .. 8, Stops(v, n)
    PROVE  Shifts(v) = n
<1> DEFINE s == CHOOSE k \in 0 .. 16 : Stops(v, k)
<1>1. Shifts(v) = s
  BY DEF Shifts, Stops, Pow
<1>2. s \in 0 .. 16 /\ Stops(v, s)
  OBVIOUS
<1> HIDE DEF s
<1>3. n \in 0 .. s - 1 \/ s \in 0 .. n - 1 \/ s = n
  BY <1>2
<1>4. ~(n \in 0 .. s - 1)
  <2>1. v \div Pow(n) \in Nat
    BY Powers, DivIs
  <2> QED BY <1>2, <2>1 DEF Stops, Byte
<1>5. ~(s \in 0 .. n - 1)
  <2> SUFFICES ASSUME s \in 0 .. n - 1 PROVE FALSE
    OBVIOUS
  <2>1. s \in 0 .. 8
    OBVIOUS
  <2>2. v \div Pow(s) \in Nat
    BY <2>1, Powers, DivIs
  <2> QED BY <1>2, <2>2 DEF Stops, Byte
<1> QED BY <1>1, <1>3, <1>4, <1>5

\* Eight shifts are enough for what 16 bits hold.
LEMMA SomeShift ==
    ASSUME NEW v \in 0 .. U16 - 1
    PROVE  \E n \in 0 .. 8 : Stops(v, n)
<1> DEFINE Fits(n) == v \div Pow(n) < Byte
<1>1. ASSUME NEW n \in 0 .. 8 PROVE v \div Pow(n) \in Nat
  <2>1. v \in Nat /\ Pow(n) \in Nat \ {0}
    BY Powers DEF U16, Byte
  <2> QED BY <2>1, DivIs
<1>2. Fits(8)
  <2>1. v < 256 * 256 /\ v \in Nat /\ Pow(8) = 256
    BY Powers DEF U16, Byte
  <2>2. ~(v \div 256 >= 256)
    BY <2>1, DivAtLeast
  <2> QED BY <1>1, <2>1, <2>2 DEF Byte
<1> HIDE DEF Fits
<1>3. \E n \in {0, 1, 2, 3, 4, 5, 6, 7, 8} :
          Fits(n) /\ \A m \in {0, 1, 2, 3, 4, 5, 6, 7, 8} : m < n => ~Fits(m)
  <2>1. CASE Fits(0)
    BY <2>1
  <2>2. CASE Fits(1) /\ ~Fits(0)
    BY <2>2
  <2>3. CASE Fits(2) /\ ~Fits(0) /\ ~Fits(1)
    BY <2>3
  <2>4. CASE Fits(3) /\ ~Fits(0) /\ ~Fits(1) /\ ~Fits(2)
    BY <2>4
  <2>5. CASE Fits(4) /\ ~Fits(0) /\ ~Fits(1) /\ ~Fits(2) /\ ~Fits(3)
    BY <2>5
  <2>6. CASE Fits(5) /\ ~Fits(0) /\ ~Fits(1) /\ ~Fits(2) /\ ~Fits(3) /\ ~Fits(4)
    BY <2>6
  <2>7. CASE ~Fits(0) /\ ~Fits(1) /\ ~Fits(2) /\ ~Fits(3) /\ ~Fits(4) /\ ~Fits(5)
    BY <1>2, <2>7
  <2> QED BY <2>1, <2>2, <2>3, <2>4, <2>5, <2>6, <2>7
<1>4. PICK n \in 0 .. 8 : Fits(n) /\ \A m \in 0 .. n - 1 : ~Fits(m)
  BY <1>3
<1>5. \A m \in 0 .. n - 1 : v \div Pow(m) >= Byte
  <2> SUFFICES ASSUME NEW m \in 0 .. n - 1 PROVE v \div Pow(m) >= Byte
    OBVIOUS
  <2>1. ~(v \div Pow(m) < Byte) /\ v \div Pow(m) \in Nat
    BY <1>1, <1>4 DEF Fits
  <2> QED BY <2>1 DEF Byte
<1> QED BY <1>4, <1>5 DEF Stops, Fits

\* What is left after n shifts fills a byte but for its highest bit.
LEMMA ShiftedIs ==
    ASSUME NEW v \in Nat, NEW n \in 0 .. 8, Stops(v, n),
           NEW p, p = Pow(n), NEW q, q = v \div p
    PROVE  /\ p \in Nat \ {0} /\ q \in 0 .. 255 /\ p * q \in Nat
           /\ p * q <= v /\ v < p * q + p
           /\ 128 * (v - p * q) <= p * q
<1>1. p \in Nat \ {0}
  BY Powers
<1>2. q \in Nat /\ p * q <= v /\ v < p * q + p
  BY <1>1, DivIs
<1>3. q < 256
  BY DEF Stops, Byte
<1>4. p * q \in Nat
  BY <1>1, <1>2, Times
<1>5. CASE n = 0
  <2>1. p = 1
    BY <1>5, Powers
  <2> QED BY <1>1, <1>2, <1>3, <1>4, <2>1
<1>6. CASE n # 0
  <2> DEFINE h == Pow(n - 1)
  <2>1. h \in Nat \ {0} /\ p = 2 * h /\ n - 1 \in 0 .. n - 1
    BY <1>6, Powers
  <2>2. v \div h >= 256
    BY <2>1 DEF Stops, Byte
  <2> HIDE DEF h
  <2>3. v >= h * 256
    BY <2>1, <2>2, DivAtLeast
  <2>4. v >= p * 128
    BY <2>1, <2>3
  <2>5. q >= 128
    BY <1>1, <2>4, DivAtLeast
  <2>6. p * 128 <= p * q
    BY <1>1, <1>2, <2>5, Times
  <2>7. 128 * (v - p * q) <= p * q
    <3> DEFINE x == p * q
    <3> HIDE DEF x
    <3> QED BY <1>1, <1>2, <1>4, <2>6 DEF x
  <2>8. q \in 0 .. 255
    BY <1>2, <1>3
  <2> QED BY <1>1, <1>2, <1>4, <2>7, <2>8
<1> QED BY <1>5, <1>6

(***************************************************************************)
(* What is decoded is what was encoded, but for what a byte cannot hold:   *)
(* less than one part in 128.                                              *)
(***************************************************************************)
LEMMA CodingLoses ==
    ASSUME NEW t \in 1 .. U16 - 1
    PROVE  LET w == DecodeTimeout(EncodeTimeout(t))
           IN  w \in 1 .. t /\ 128 * (t - w) <= w - 1
<1>1. PICK v \in 0 .. U16 - 1 : t = v + 1 /\ v = t - 1 /\ v + 1 < U16
  <2>1. U16 \in Nat
    BY DEF U16, Byte
  <2>2. t - 1 \in 0 .. U16 - 1 /\ t = (t - 1) + 1 /\ (t - 1) + 1 < U16
    BY <2>1
  <2> QED BY <2>2
<1>2. U16 \in Nat /\ Byte = 256 /\ v \in Nat
  BY DEF U16, Byte
<1>3. PICK n \in 0 .. 8 : Stops(v, n)
  BY SomeShift
<1> DEFINE p == Pow(n)
           q == v \div p
           w == DecodeTimeout(EncodeTimeout(t))
<1>4. Shifts(v) = n
  BY <1>2, <1>3, ShiftsIs
<1>5. EncodeTimeout(t) = n * 256 + q
  <2>1. EncodeTimeout(t) = n * 256 + (v \div 2^n)
    <3>1. t > 0
      BY <1>1, <1>2
    <3> QED BY <1>1, <1>2, <1>4, <3>1 DEF EncodeTimeout
  <2> QED BY <2>1 DEF Pow
<1>6. w = ((((EncodeTimeout(t) % 256) * Pow(EncodeTimeout(t) \div 256)) % U16) + 1) % U16
  BY <1>2 DEF DecodeTimeout, Pow
<1>7. /\ p \in Nat \ {0} /\ q \in 0 .. 255 /\ p * q \in Nat
      /\ p * q <= v /\ v < p * q + p
      /\ 128 * (v - p * q) <= p * q
  BY <1>2, <1>3, ShiftedIs
<1> HIDE DEF p, q, w
<1>8. (n * 256 + q) % 256 = q /\ (n * 256 + q) \div 256 = n
  BY <1>7, DivModOf
<1>9. w = (((q * p) % U16) + 1) % U16
  BY <1>5, <1>6, <1>8 DEF p
<1>10. PICK x \in Nat : x = p * q /\ x = q * p
  BY <1>7
<1>11. x % U16 = x /\ (x + 1) % U16 = x + 1
  <2>1. x \in 0 .. U16 - 1 /\ x + 1 \in 0 .. U16 - 1
    BY <1>1, <1>2, <1>7, <1>10
  <2> QED BY <1>2, <2>1, ModSmall
<1>12. w = x + 1
  BY <1>9, <1>10, <1>11
<1>13. x <= v /\ 128 * (v - x) <= x
  BY <1>7, <1>10
<1> QED BY <1>1, <1>12, <1>13 DEF w

-----------------------------------------------------------------------------
(* Setting a budget *)

LEMMA DivOfInt ==
    ASSUME NEW x \in Int, NEW p \in Nat \ {0}
    PROVE  x \div p \in Int /\ p * (x \div p) <= x /\ x < p * (x \div p) + p
OBVIOUS

\* p is the macro period and h half of it, u the time there is, per a macro
\* period in microseconds; all(n) stands for n macro periods in nanoseconds.
LEMMA Rounding ==
    ASSUME NEW p \in Nat, p >= 3000, NEW h \in Nat, 2 * h <= p, p <= 2 * h + 1,
           NEW u \in Nat,
           NEW allT \in Nat, allT <= 1000 * u + h, 1000 * u + h < allT + p,
           NEW allW \in Nat, NEW allLost \in Nat, 128 * allLost + p <= allW,
           NEW x \in Int, 1000 * x <= (allT - allLost) + h,
                          (allT - allLost) + h < 1000 * x + 1000,
           NEW per \in Nat, p + h < 1000 * per + 1000,
           NEW e \in Nat, allW + h < 1000 * e + 1000,
           NEW g \in Nat, e < 127 * g + 127
    PROVE  x <= u + per /\ u - x <= per + g
OBVIOUS

LEMMA PeriodIs ==
    /\ FinalPclks = 10
    /\ MacroPeriod(FinalPclks) \in Nat /\ MacroPeriod(FinalPclks) >= 3000
<1>1. FinalPclks = 10
  BY DEF FinalPclks, VcselPeriod
<1>2. MacroPeriod(10) \in Nat /\ MacroPeriod(10) >= 3000
  <2> DEFINE n == 2304 * 10 * 1655 + 500
  <2>1. n \in Nat /\ n >= 1000 * 3000
    OBVIOUS
  <2> HIDE DEF n
  <2>2. n \div 1000 \in Nat /\ n \div 1000 >= 3000
    BY <2>1, DivIs, DivAtLeast
  <2> QED BY <2>2 DEF MacroPeriod, n
<1> QED BY <1>1, <1>2

LEMMA OthersTake == Used \in Nat /\ PreMclks \in Nat \ {0}
<1>1. \A m \in Nat, k \in Nat : ToMicroseconds(m, k) \in Nat
  <2> SUFFICES ASSUME NEW m \in Nat, NEW k \in Nat PROVE ToMicroseconds(m, k) \in Nat
    OBVIOUS
  <2>1. MacroPeriod(k) \in Nat
    <3>1. 2304 * k * 1655 + 500 \in Nat
      OBVIOUS
    <3> QED BY <3>1, DivIs DEF MacroPeriod
  <2>2. m * MacroPeriod(k) \in Nat /\ MacroPeriod(k) \div 2 \in Nat
    BY <2>1, Times, DivIs
  <2>3. m * MacroPeriod(k) + MacroPeriod(k) \div 2 \in Nat
    BY <2>2
  <2> QED BY <2>3, DivIs DEF ToMicroseconds
<1>2. PreMclks \in Nat \ {0}
  <2>1. 150 % Byte = 150 /\ 150 \div Byte = 0
    BY DEF Byte
  <2>2. U16 \in Nat /\ 150 \in 0 .. U16 - 1 /\ 151 \in 0 .. U16 - 1
    BY DEF U16, Byte
  <2>3. 150 % U16 = 150 /\ 151 % U16 = 151
    BY <2>2, ModSmall
  <2>4. 2^0 = 1
    OBVIOUS
  <2>5. PreMclks = ((((150 % Byte) * 2^(150 \div Byte)) % U16) + 1) % U16
    BY DEF PreMclks, DecodeTimeout
  <2>6. PreMclks = (((150 * 1) % U16) + 1) % U16
    BY <2>1, <2>4, <2>5
  <2>7. 150 * 1 = 150 /\ 150 + 1 = 151
    OBVIOUS
  <2> QED BY <2>3, <2>6, <2>7
<1>3. MsrcMclks \in Nat /\ PrePclks \in Nat
  BY DEF MsrcMclks, PrePclks, VcselPeriod
<1>4. ToMicroseconds(MsrcMclks, PrePclks) \in Nat /\ ToMicroseconds(PreMclks, PrePclks) \in Nat
  BY <1>1, <1>2, <1>3
<1> QED BY <1>2, <1>4 DEF Used

(***************************************************************************)
(* A budget that is accepted is met.                                       *)
(***************************************************************************)
LEMMA AcceptedIsMet ==
    ASSUME NEW b \in Nat, Accepted(b), FitsField(b)
    PROVE  Meets(FinalFor(b), b)
<1> DEFINE p == MacroPeriod(FinalPclks)
           h == p \div 2
           u == b - Used
           T == ToMclks(u, FinalPclks)
           v == T + PreMclks
           w == DecodeTimeout(FinalFor(b))
           x == ToMicroseconds(w - PreMclks, FinalPclks)
           e == ToMicroseconds(w, FinalPclks)
<1>1. u \in Nat /\ Used \in Nat /\ PreMclks \in Nat \ {0}
  BY OthersTake DEF Accepted
<1>2. p \in Nat /\ p >= 3000
  BY PeriodIs
<1>3. T = (u * 1000 + h) \div p
  BY DEF ToMclks
<1>4. x = ((w - PreMclks) * p + h) \div 1000 /\ e = (w * p + h) \div 1000
  BY DEF ToMicroseconds
<1>5. Period = (1 * p + h) \div 1000
  BY DEF Period, ToMicroseconds
<1>6. v < U16
  BY DEF FitsField
<1>7. FinalFor(b) = EncodeTimeout(((T % U16) + PreMclks) % U16)
  BY DEF FinalFor
<1>8. w = DecodeTimeout(FinalFor(b))
  OBVIOUS
<1>9. Takes(FinalFor(b)) = Used + x
  BY DEF Takes
<1> HIDE DEF p, h, u, T, w, x, e
<1>10. h \in Nat /\ 2 * h <= p /\ p <= 2 * h + 1
  BY <1>2, DivIs DEF h
<1>11. u * 1000 + h \in Nat /\ u * 1000 = 1000 * u
  BY <1>1, <1>10
<1>12. T \in Nat /\ p * T <= 1000 * u + h /\ 1000 * u + h < p * T + p
  BY <1>2, <1>3, <1>11, DivIs
<1>13. v \in 1 .. U16 - 1 /\ U16 \in Nat
  <2>1. U16 \in Nat
    BY DEF U16, Byte
  <2>2. T + PreMclks \in Nat \ {0}
    BY <1>1, <1>12
  <2> QED BY <1>6, <2>1, <2>2
<1>14. FinalFor(b) = EncodeTimeout(v)
  <2>1. T \in 0 .. U16 - 1 /\ v \in 0 .. U16 - 1
    BY <1>1, <1>12, <1>13
  <2>2. T % U16 = T /\ v % U16 = v
    BY <1>13, <2>1, ModSmall
  <2> QED BY <1>7, <2>2
<1>15. w \in 1 .. v /\ 128 * (v - w) <= w - 1
  BY <1>8, <1>13, <1>14, CodingLoses
<1> DEFINE allT == p * T
           allW == p * w
           allLost == p * (v - w)
           per == Period
           g == e \div 127
<1>16. /\ allT \in Nat /\ allW \in Nat /\ allLost \in Nat
       /\ (w - PreMclks) * p = allT - allLost /\ w * p = allW
  <2>1. p * T \in Nat /\ p * w \in Nat /\ p * (v - w) \in Nat
    BY <1>1, <1>2, <1>12, <1>15, Times
  <2>2. w - PreMclks = T - (v - w)
    BY <1>1, <1>12, <1>15
  <2>3. (w - PreMclks) * p = p * T - p * (v - w)
    BY <1>1, <1>2, <1>12, <1>15, <2>2
  <2> QED BY <1>2, <1>15, <2>1, <2>3
<1>17. 128 * allLost + p <= allW
  <2>1. 128 * (v - w) + 1 <= w /\ v - w \in Nat /\ w \in Nat
    BY <1>1, <1>12, <1>15
  <2>2. p * (128 * (v - w) + 1) <= p * w
    BY <1>2, <2>1, Times
  <2>3. p * (128 * (v - w) + 1) = 128 * allLost + p
    BY <1>2, <2>1
  <2> QED BY <2>2, <2>3
<1>18. x \in Int /\ 1000 * x <= (allT - allLost) + h /\ (allT - allLost) + h < 1000 * x + 1000
  <2>1. x = ((allT - allLost) + h) \div 1000
    BY <1>4, <1>16
  <2> HIDE DEF allT, allLost
  <2>2. (allT - allLost) + h \in Int
    BY <1>10, <1>16
  <2> QED BY <2>1, <2>2, DivOfInt
<1>19. per \in Nat /\ p + h < 1000 * per + 1000
  BY <1>2, <1>5, <1>10, DivIs
<1>20. e \in Nat /\ allW + h < 1000 * e + 1000
  BY <1>4, <1>10, <1>16, DivIs
<1>21. g \in Nat /\ e < 127 * g + 127
  BY <1>20, DivIs
<1> HIDE DEF allT, allW, allLost, per, g
<1>22. x <= u + per /\ u - x <= per + g
  <2>1. allT <= 1000 * u + h /\ 1000 * u + h < allT + p
    BY <1>12 DEF allT
  <2> QED BY <1>1, <1>2, <1>10, <1>16, <1>17, <1>18, <1>19, <1>20, <1>21, <2>1, Rounding
<1>23. Takes(FinalFor(b)) <= b + Period
  <2>1. b = Used + u
    BY <1>1 DEF u
  <2> QED BY <1>1, <1>9, <1>18, <1>19, <1>22, <2>1 DEF per
<1>24. b - Takes(FinalFor(b)) <= Period + e \div 127
  <2>1. b = Used + u
    BY <1>1 DEF u
  <2> QED BY <1>1, <1>9, <1>18, <1>19, <1>21, <1>22, <2>1 DEF per, g
<1> QED BY <1>23, <1>24 DEF Meets, e, w

-----------------------------------------------------------------------------
(* The order of the sensors *)

N == Len(Order)

LEMMA OrderIs ==
    /\ N \in Nat \ {0}
    /\ Sensors = {Order[k] : k \in 1 .. N}
    /\ \A j, k \in 1 .. N : Order[j] = Order[k] => j = k
BY SensorsAssumption DEF N, Sensors

\* Only the last sensor may keep the address all come up at.
LEMMA OnlyLastAtDefault ==
    \A k \in 1 .. N : Own[Order[k]] = Default => k = N
<1> SUFFICES ASSUME NEW k \in 1 .. N, k # N PROVE Own[Order[k]] # Default
  OBVIOUS
<1>1. k \in 1 .. N - 1
  BY OrderIs
<1> QED BY <1>1, SensorsAssumption DEF N

LEMMA OwnApart == \A r, s \in Sensors : Own[r] = Own[s] => r = s
BY SensorsAssumption

-----------------------------------------------------------------------------
(* The inductive invariant *)

Turns ==
    /\ turn \in 1 .. N /\ tried \in 0 .. N
    /\ pc \in {"start", "failed", "address", "mode", "range", "status", "read", "clear"}
    /\ \A s \in up : \E k \in 1 .. tried : s = Order[k]
    /\ pc \in {"status", "read", "clear"} => tried = N
    /\ pc = "start" => turn \in {tried, tried + 1}
    /\ pc \in {"failed", "address"} => turn = tried
    /\ pc \in {"mode", "range"} /\ tried # N => turn = tried

Powered ==
    /\ up \subseteq Sensors
    /\ on = IF pc = "failed" THEN up \cup {cur} ELSE up
    /\ pc \in {"start", "failed"} => cur \notin up
    /\ pc \in {"address", "mode", "range"} => cur \in up

Addressed ==
    /\ chip \in [Sensors -> Addresses] /\ address \in [Sensors -> Addresses]
    /\ \A s \in Sensors \ up : address[s] = Default
    /\ \A s \in up : chip[s] = address[s]
    /\ \A s \in up : chip[s] = IF pc = "address" /\ s = cur THEN Default ELSE Own[s]
    /\ pc = "failed" => chip[cur] = Default

Inv == Turns /\ Powered /\ Addressed

LEMMA CurIs ==
    ASSUME turn \in 1 .. N
    PROVE  cur \in Sensors
BY OrderIs DEF cur

\* While a sensor is started, none in use is where it comes up.
LEMMA NobodyAtDefault ==
    ASSUME Turns, Powered, pc \in {"start", "failed", "address"},
           NEW s \in up, s # cur
    PROVE  Own[s] # Default
<1> SUFFICES ASSUME Own[s] = Default PROVE FALSE
  OBVIOUS
<1>1. PICK k \in 1 .. tried : s = Order[k]
  BY DEF Turns
<1>2. tried \in 0 .. N /\ turn \in 1 .. N /\ (turn = tried \/ turn = tried + 1)
  BY DEF Turns
<1>3. k \in 1 .. N
  BY <1>1, <1>2, OrderIs
<1>4. k = N
  BY <1>1, <1>3, OnlyLastAtDefault
<1>5. turn = N
  BY <1>1, <1>2, <1>4, OrderIs
<1> QED BY <1>1, <1>4, <1>5 DEF cur

LEMMA InvAlone == Inv => AloneAtAddress
<1> SUFFICES ASSUME Inv, NEW s \in up PROVE Answering(address[s]) = {s}
  BY DEF AloneAtAddress
<1>1. s \in on /\ chip[s] = address[s]
  BY DEF Inv, Powered, Addressed
<1>2. ASSUME NEW t \in on, chip[t] = chip[s] PROVE t = s
  <2>1. s \in Sensors /\ up \subseteq Sensors /\ cur \in Sensors
    BY CurIs DEF Inv, Turns, Powered
  <2>2. CASE pc = "failed" /\ t = cur
    <3>1. chip[t] = Default /\ chip[s] = Own[s] /\ s # cur
      BY <2>2 DEF Inv, Powered, Addressed
    <3> QED BY <1>2, <2>2, <3>1, NobodyAtDefault DEF Inv
  <2>3. CASE t \in up
    <3>1. CASE pc = "address" /\ (s = cur \/ t = cur)
      <4>1. ASSUME s # t PROVE FALSE
        BY <1>2, <2>3, <3>1, <4>1, NobodyAtDefault DEF Inv, Addressed
      <4> QED BY <4>1
    <3>2. CASE ~(pc = "address" /\ (s = cur \/ t = cur))
      <4>1. chip[s] = Own[s] /\ chip[t] = Own[t]
        BY <2>3, <3>2 DEF Inv, Addressed
      <4> QED BY <1>2, <2>1, <2>3, <4>1, OwnApart
    <3> QED BY <3>1, <3>2
  <2> QED BY <2>2, <2>3 DEF Inv, Powered
<1> QED BY <1>1, <1>2 DEF Answering

LEMMA InitInv == Init => Inv
<1> SUFFICES ASSUME Init PROVE Inv
  OBVIOUS
<1>1. Turns
  BY OrderIs DEF Init, Turns
<1>2. Powered
  BY DEF Init, Powered
<1>3. Addressed
  BY DEF Init, Addressed, Addresses
<1> QED BY <1>1, <1>2, <1>3 DEF Inv

\* The invariant reads only these.
LEMMA InvKept ==
    ASSUME Inv, UNCHANGED <<address, on, chip, turn, tried, up>>,
           pc' = pc \/ (pc \in {"status", "read", "clear"} /\ pc' \in {"status", "read", "clear"})
                    \/ (pc = "mode" /\ pc' = "range")
    PROVE  Inv'
<1>1. Turns'
  BY DEF Inv, Turns
<1>2. Powered' /\ Addressed'
  BY DEF Inv, Turns, Powered, Addressed, cur
<1> QED BY <1>1, <1>2 DEF Inv

\* The application goes on to another sensor: to the next one it has not
\* started, or to poll.
LEMMA InvGoesOn ==
    ASSUME Inv, GoOn(tried), pc \in {"failed", "mode", "range", "status", "clear"},
           UNCHANGED <<address, chip, tried>>,
           up' = up, on' = up
    PROVE  Inv'
<1>1. turn \in 1 .. N /\ tried \in 0 .. N /\ N \in Nat \ {0}
  BY OrderIs DEF Inv, Turns
<1>2. turn' = Following(turn) /\ pc' = IF tried = N THEN "status" ELSE "start"
  BY DEF GoOn, N
<1>3. Following(turn) = IF turn = N THEN 1 ELSE turn + 1
  BY <1>1 DEF Following, N
<1>4. turn' \in 1 .. N
  BY <1>1, <1>2, <1>3
<1>5. CASE tried = N
  <2>1. pc' = "status"
    BY <1>2, <1>5
  <2>2. Turns'
    BY <1>1, <1>4, <1>5, <2>1 DEF Inv, Turns
  <2> QED BY <2>1, <2>2 DEF Inv, Powered, Addressed
<1>6. CASE tried # N
  <2>1. pc' = "start" /\ turn = tried
    BY <1>2, <1>6 DEF Inv, Turns
  <2>2. turn' = tried + 1
    BY <1>1, <1>2, <1>3, <1>6, <2>1
  <2>3. Turns'
    BY <1>1, <1>4, <2>1, <2>2 DEF Inv, Turns
  <2>4. cur' \notin up
    <3> SUFFICES ASSUME Order[tried + 1] \in up PROVE FALSE
      BY <2>2 DEF cur
    <3>1. PICK k \in 1 .. tried : Order[tried + 1] = Order[k]
      BY DEF Inv, Turns
    <3>2. k \in 1 .. N /\ tried + 1 \in 1 .. N /\ k # tried + 1
      BY <1>1, <1>6, <3>1
    <3> QED BY <3>1, <3>2, OrderIs
  <2>5. Powered'
    BY <2>1, <2>4 DEF Inv, Powered
  <2>6. Addressed'
    BY <2>1 DEF Inv, Addressed, Powered
  <2> QED BY <2>3, <2>5, <2>6 DEF Inv
<1> QED BY <1>5, <1>6

LEMMA StartInv == Inv /\ Start => Inv'
<1> SUFFICES ASSUME Inv, Start PROVE Inv'
  OBVIOUS
<1>1. /\ pc = "start" /\ on' = on \cup {cur}
      /\ chip' = [chip EXCEPT ![cur] = IF cur \in on THEN @ ELSE Default]
      /\ tried' = IF turn > tried THEN turn ELSE tried
      /\ UNCHANGED <<address, turn>>
      /\ \/ up' = up \cup {cur} /\ pc' \in AfterStart
         \/ up' = up /\ pc' = "failed"
  BY DEF Start
<1>2. turn \in 1 .. N /\ tried \in 0 .. N /\ turn \in {tried, tried + 1} /\ cur' = cur
  BY <1>1 DEF Inv, Turns, cur
<1>3. cur \in Sensors /\ on = up /\ cur \notin up /\ up \subseteq Sensors
  BY <1>1, <1>2, CurIs DEF Inv, Powered
<1>4. tried' = turn
  BY <1>1, <1>2, OrderIs
<1>5. \/ up' = up \cup {cur} /\ pc' = "address"
      \/ up' = up \cup {cur} /\ pc' \in {"mode", "range"} /\ Own[cur] = Default
      \/ up' = up /\ pc' = "failed"
  BY <1>1 DEF AfterStart
<1>6. Turns'
  <2>1. \A s \in up' : \E k \in 1 .. turn : s = Order[k]
    <3>1. ASSUME NEW s \in up PROVE \E k \in 1 .. turn : s = Order[k]
      <4>1. PICK k \in 1 .. tried : s = Order[k]
        BY DEF Inv, Turns
      <4>2. k \in 1 .. turn
        BY <1>2, <4>1, OrderIs
      <4> QED BY <4>1, <4>2
    <3>2. \E k \in 1 .. turn : cur = Order[k]
      BY <1>2 DEF cur
    <3> QED BY <1>1, <3>1, <3>2
  <2>2. turn' \in 1 .. N /\ tried' \in 0 .. N
    BY <1>1, <1>2, <1>4
  <2> QED BY <1>1, <1>4, <1>5, <2>1, <2>2 DEF Turns
<1>7. Powered'
  BY <1>1, <1>2, <1>3, <1>5 DEF Powered
<1>8. chip'[cur] = Default /\ \A s \in up : chip'[s] = chip[s]
  BY <1>1, <1>3 DEF Inv, Addressed
<1>9. address[cur] = Default
  BY <1>3 DEF Inv, Addressed
<1>10. Addressed'
  <2>1. chip' \in [Sensors -> Addresses] /\ address' \in [Sensors -> Addresses]
    BY <1>1 DEF Inv, Addressed, Addresses
  <2>2. \A s \in Sensors \ up' : address'[s] = Default
    BY <1>1 DEF Inv, Addressed
  <2>3. \A s \in up' : chip'[s] = address'[s]
    BY <1>1, <1>8, <1>9 DEF Inv, Addressed
  <2>4. \A s \in up : chip'[s] = Own[s] /\ s # cur
    BY <1>1, <1>3, <1>8 DEF Inv, Addressed
  <2>5. \A s \in up' : chip'[s] = IF pc' = "address" /\ s = cur THEN Default ELSE Own[s]
    BY <1>1, <1>5, <1>8, <2>4
  <2> QED BY <1>2, <1>8, <2>1, <2>2, <2>3, <2>5 DEF Addressed
<1> QED BY <1>6, <1>7, <1>10 DEF Inv

LEMMA SetAddressInv == Inv /\ SetAddress => Inv'
<1> SUFFICES ASSUME Inv, SetAddress PROVE Inv'
  OBVIOUS
<1>1. /\ pc = "address" /\ chip' = Written(chip, Own[cur])
      /\ address' = [address EXCEPT ![cur] = Own[cur]]
      /\ pc' \in {"mode", "range"} /\ UNCHANGED <<on, turn, tried, up>>
  BY DEF SetAddress
<1>2. cur \in up /\ up = on /\ cur \in Sensors /\ up \subseteq Sensors /\ cur' = cur
  BY <1>1 DEF Inv, Powered, cur
<1>3. Answering(address[cur]) = {cur}
  BY <1>2, InvAlone DEF AloneAtAddress
<1>4. chip' = [s \in Sensors |-> IF s = cur THEN Own[cur] ELSE chip[s]]
  BY <1>1, <1>3 DEF Written
<1>5. Turns'
  BY <1>1 DEF Inv, Turns
<1>6. Powered'
  BY <1>1, <1>2 DEF Inv, Powered
<1>7. Addressed'
  <2>1. Own[cur] \in Addresses
    BY <1>2 DEF Addresses
  <2>2. chip' \in [Sensors -> Addresses] /\ address' \in [Sensors -> Addresses]
    BY <1>1, <1>4, <2>1 DEF Inv, Addressed
  <2>3. \A s \in Sensors \ up' : address'[s] = Default
    BY <1>1, <1>2 DEF Inv, Addressed
  <2>4. \A s \in up' : chip'[s] = address'[s] /\ chip'[s] = Own[s]
    BY <1>1, <1>2, <1>4 DEF Inv, Addressed
  <2> QED BY <1>1, <2>2, <2>3, <2>4 DEF Addressed
<1> QED BY <1>5, <1>6, <1>7 DEF Inv

LEMMA StopInv == Inv /\ Stop => Inv'
<1> SUFFICES ASSUME Inv, Stop PROVE Inv'
  OBVIOUS
<1>1. /\ on' = on \ {cur} /\ up' = up \ {cur} /\ UNCHANGED <<address, chip, tried>>
  BY DEF Stop, Shutdown
<1>2. cur \in Sensors /\ turn \in 1 .. N /\ tried \in 0 .. N
  BY CurIs DEF Inv, Turns
<1>3. CASE pc = "status" /\ cur \in Restarted \cap up /\ pc' = "start" /\ turn' = turn
  <2>1. Own[cur] = Default
    BY <1>3, SensorsAssumption
  <2>2. turn = N /\ tried = N
    BY <1>2, <1>3, <2>1, OnlyLastAtDefault DEF Inv, Turns, cur
  <2>3. Turns'
    BY <1>1, <1>2, <1>3, <2>2 DEF Inv, Turns
  <2>4. Powered'
    BY <1>1, <1>3 DEF Inv, Powered, cur
  <2>5. address[cur] = Default
    BY <1>3, <2>1 DEF Inv, Addressed
  <2>6. Addressed'
    BY <1>1, <1>3, <2>5 DEF Inv, Addressed
  <2> QED BY <2>3, <2>4, <2>6 DEF Inv
<1>4. CASE pc = "failed" /\ pc' = "start" /\ turn' = turn
  <2>1. up' = up /\ on' = up /\ cur \notin up
    BY <1>1, <1>4 DEF Inv, Powered
  <2>2. Turns'
    BY <1>1, <1>2, <1>4, <2>1 DEF Inv, Turns
  <2>3. Powered'
    BY <1>1, <1>4, <2>1 DEF Inv, Powered, cur
  <2>4. Addressed'
    BY <1>1, <1>4, <2>1 DEF Inv, Addressed
  <2> QED BY <2>2, <2>3, <2>4 DEF Inv
<1>5. CASE pc = "failed" /\ GoOn(tried)
  <2>1. up' = up /\ on' = up
    BY <1>1, <1>5 DEF Inv, Powered
  <2> QED BY <1>1, <1>5, <2>1, InvGoesOn
<1> QED BY <1>3, <1>4, <1>5 DEF Stop

LEMMA NextInv == Inv /\ [Next]_vars => Inv'
<1> SUFFICES ASSUME Inv, [Next]_vars PROVE Inv'
  OBVIOUS
<1>1. CASE \E s \in Sensors : Measure(s)
  BY <1>1, InvKept DEF Measure, app
<1>2. CASE SetMode
  BY <1>2, InvKept DEF SetMode
<1>3. CASE StartContinuous
  <2>1. /\ pc = "range" /\ GoOn(tried) /\ UNCHANGED <<address, on, chip, tried, up>>
    BY <1>3 DEF StartContinuous, app
  <2>2. on' = up
    BY <2>1 DEF Inv, Powered
  <2> QED BY <2>1, <2>2, InvGoesOn
<1>4. ASSUME pc \in {"status", "read", "clear"}, pc' \in {"status", "read", "clear"},
             UNCHANGED <<address, on, chip, tried, up>>, turn' \in {turn, Following(turn)}
      PROVE  Inv'
  <2>1. turn \in 1 .. N /\ tried = N /\ N \in Nat \ {0}
    BY <1>4, OrderIs DEF Inv, Turns
  <2>2. Following(turn) = IF turn = N THEN 1 ELSE turn + 1
    BY <2>1 DEF Following, N
  <2>3. turn' \in 1 .. N
    BY <1>4, <2>1, <2>2
  <2>4. Turns'
    BY <1>4, <2>1, <2>3 DEF Inv, Turns
  <2>5. Powered' /\ Addressed'
    BY <1>4 DEF Inv, Powered, Addressed
  <2> QED BY <2>4, <2>5 DEF Inv
<1>5. CASE Status
  BY <1>4, <1>5 DEF Status, app, device
<1>6. CASE ReadRange
  BY <1>4, <1>6 DEF ReadRange, device
<1>7. CASE Clear
  BY <1>4, <1>7 DEF Clear, app
<1>8. CASE Without
  BY <1>4, <1>8 DEF Without, app, device
<1>9. CASE StopContinuous
  <2>1. /\ pc = "status" /\ cur \in up /\ pc' = "mode"
        /\ UNCHANGED <<address, on, chip, turn, tried, up>>
    BY <1>9 DEF StopContinuous, app
  <2>2. Turns' /\ Powered' /\ Addressed'
    BY <2>1 DEF Inv, Turns, Powered, Addressed, cur
  <2> QED BY <2>2 DEF Inv
<1>10. CASE UNCHANGED vars
  BY <1>10, InvKept DEF vars
<1> QED BY <1>1, <1>2, <1>3, <1>5, <1>6, <1>7, <1>8, <1>9, <1>10,
           StartInv, SetAddressInv, StopInv DEF Next, Poll

(***************************************************************************)
(* What the driver keeps of the measurements.  A sensor with a measurement *)
(* that was not cleared has a later one than the driver returned, but for  *)
(* the one that was just read and is about to be cleared.                  *)
(***************************************************************************)
Pending(s) == s \in fresh /\ ~(pc = "clear" /\ s = cur)

Measured ==
    /\ made \in [Sensors -> 0 .. MaxSamples]
    /\ last \in [Sensors -> Readings \cup {None}]
    /\ pc \in {"read", "clear"} => cur \in up
    /\ pc = "read" => cur \in fresh
    /\ \A s \in Sensors : last[s] # None =>
           last[s][2] <= made[s] /\ (Pending(s) => last[s][2] < made[s])

LEMMA InitMeasured == Init => Measured
BY SensorsAssumption DEF Init, Measured, Readings

\* What the driver is told comes from the sensor it asks.
LEMMA AsksCur ==
    ASSUME Inv, cur \in up
    PROVE  cur \in Sensors /\ Answering(address[cur]) = {cur}
BY InvAlone DEF AloneAtAddress, Inv, Powered

LEMMA ReadIsNew ==
    ASSUME Inv, Measured, ReadRange
    PROVE  /\ last' = [last EXCEPT ![cur] = <<cur, made[cur]>>]
           /\ NewReading(cur)
<1>1. /\ pc = "read" /\ cur \in up /\ cur \in fresh
  BY DEF ReadRange, Measured
<1>2. cur \in Sensors /\ Answering(address[cur]) = {cur}
  BY <1>1, AsksCur
<1>3. last' = [last EXCEPT ![cur] = <<cur, made[cur]>>]
  BY <1>2 DEF ReadRange
<1>4. last'[cur] = <<cur, made[cur]>>
  BY <1>2, <1>3 DEF Measured
<1>5. last[cur] # None => last[cur][2] < made[cur]
  BY <1>1, <1>2 DEF Measured, Pending
<1>6. last[cur] # None => last[cur][2] \in Int /\ made[cur] \in Int
  BY <1>2 DEF Measured, Readings
<1> QED BY <1>3, <1>4, <1>5, <1>6 DEF NewReading

LEMMA NextMeasured == Inv /\ Measured /\ [Next]_vars => Measured'
<1> SUFFICES ASSUME Inv, Measured, [Next]_vars PROVE Measured'
  OBVIOUS
<1>1. /\ made \in [Sensors -> 0 .. MaxSamples] /\ MaxSamples \in Nat
      /\ last \in [Sensors -> Readings \cup {None}]
      /\ \A s \in Sensors : last[s] # None =>
             last[s][2] \in Nat /\ last[s][2] <= made[s]
  BY SensorsAssumption DEF Measured, Readings
<1>2. ASSUME NEW s \in Sensors, made[s] < MaxSamples,
             made' = [made EXCEPT ![s] = @ + 1], fresh' = fresh \cup {s},
             UNCHANGED <<last, turn, up>>,
             pc' = pc \/ (pc = "status" /\ pc' = "mode")
      PROVE  Measured'
  <2>1. made' \in [Sensors -> 0 .. MaxSamples] /\ \A r \in Sensors : made'[r] \in Nat
    BY <1>1, <1>2
  <2>2. cur' = cur
    BY <1>2 DEF cur
  <2>3. ASSUME NEW r \in Sensors, last[r] # None
        PROVE  last[r][2] <= made'[r] /\ (Pending(r)' => last[r][2] < made'[r])
    <3>1. CASE r = s
      BY <1>1, <1>2, <2>1, <2>3, <3>1
    <3>2. CASE r # s
      <4>1. made'[r] = made[r] /\ (Pending(r)' => Pending(r))
        BY <1>1, <1>2, <2>2, <3>2 DEF Pending
      <4> QED BY <1>1, <2>3, <4>1 DEF Measured
    <3> QED BY <3>1, <3>2
  <2> QED BY <1>1, <1>2, <2>1, <2>2, <2>3 DEF Measured
<1>3. ASSUME UNCHANGED <<made, last>>, fresh' \subseteq fresh,
             pc' \notin {"read", "clear"}, pc # "clear" \/ cur \notin fresh'
      PROVE  Measured'
  <2>1. \A s \in Sensors : Pending(s)' => Pending(s)
    BY <1>3 DEF Pending
  <2> QED BY <1>3, <2>1 DEF Measured
<1>4. CASE \E s \in Sensors : Measure(s)
  BY <1>2, <1>4 DEF Measure, app
<1>5. CASE Start
  BY <1>3, <1>5 DEF Start, AfterStart
<1>6. CASE SetAddress \/ SetMode
  BY <1>3, <1>6 DEF SetAddress, SetMode
<1>7. CASE StartContinuous
  BY <1>3, <1>7 DEF StartContinuous, GoOn, app
<1>8. CASE Status
  <2>1. /\ cur \in up /\ pc = "status" /\ UNCHANGED <<made, last, fresh, up>>
    BY <1>8 DEF Status, app, device
  <2>2. Answering(address[cur]) = {cur}
    BY <2>1, AsksCur
  <2>3. (cur \in fresh /\ pc' = "read" /\ turn' = turn) \/ pc' = "status"
    BY <1>8, <2>2 DEF Status
  <2>4. CASE cur \in fresh /\ pc' = "read" /\ turn' = turn
    <3>1. cur' = cur /\ \A s \in Sensors : Pending(s)' => Pending(s)
      BY <2>1, <2>4 DEF cur, Pending
    <3> QED BY <2>1, <2>4, <3>1 DEF Measured
  <2>5. CASE pc' = "status"
    BY <1>3, <2>1, <2>5
  <2> QED BY <2>3, <2>4, <2>5
<1>9. CASE ReadRange
  <2>1. /\ pc = "read" /\ pc' = "clear" /\ cur' = cur
        /\ UNCHANGED <<made, fresh, up, turn>>
    BY <1>9 DEF ReadRange, device, cur
  <2>2. cur \in up /\ cur \in Sensors
    BY <2>1, AsksCur DEF Measured
  <2>3. last' = [last EXCEPT ![cur] = <<cur, made[cur]>>]
    BY <1>9, ReadIsNew
  <2>4. last' \in [Sensors -> Readings \cup {None}]
    BY <1>1, <2>2, <2>3 DEF Readings
  <2>5. ASSUME NEW s \in Sensors, last'[s] # None
        PROVE  last'[s][2] <= made[s] /\ (Pending(s)' => last'[s][2] < made[s])
    <3>1. CASE s = cur
      BY <1>1, <2>1, <2>3, <3>1 DEF Pending
    <3>2. CASE s # cur
      <4>1. last'[s] = last[s] /\ (Pending(s)' => Pending(s))
        BY <1>1, <2>1, <2>3, <3>2 DEF Pending
      <4> QED BY <2>5, <4>1 DEF Measured
    <3> QED BY <3>1, <3>2
  <2> QED BY <1>1, <2>1, <2>2, <2>4, <2>5 DEF Measured
<1>10. CASE Clear
  <2>1. cur \in up
    BY <1>10 DEF Clear, Measured
  <2> QED BY <1>3, <1>10, <2>1, AsksCur DEF Clear, app
<1>11. CASE Without
  BY <1>3, <1>11 DEF Without, app, device
<1>12. CASE Stop
  BY <1>3, <1>12 DEF Stop, GoOn, Shutdown
<1>13. CASE StopContinuous
  <2>1. /\ pc = "status" /\ pc' = "mode" /\ cur \in up /\ UNCHANGED <<last, turn, up>>
    BY <1>13 DEF StopContinuous, app
  <2>2. CASE UNCHANGED <<made, fresh>>
    BY <1>3, <2>1, <2>2
  <2>3. CASE \E s \in Answering(address[cur]) :
                 /\ made[s] < MaxSamples
                 /\ made' = [made EXCEPT ![s] = @ + 1] /\ fresh' = fresh \cup {s}
    BY <1>2, <2>1, <2>3, AsksCur
  <2> QED BY <1>13, <2>2, <2>3 DEF StopContinuous
<1>14. CASE UNCHANGED vars
  <2>1. UNCHANGED <<made, last, pc, fresh, up>> /\ cur' = cur
    BY <1>14 DEF vars, cur
  <2> QED BY <2>1 DEF Measured, Pending
<1> QED BY <1>4, <1>5, <1>6, <1>7, <1>8, <1>9, <1>10, <1>11, <1>12, <1>13, <1>14
        DEF Next, Poll

-----------------------------------------------------------------------------
(***************************************************************************)
(* The register of each sensor in use holds what its own budget asks for.  *)
(***************************************************************************)
Budgeted ==
    /\ wanted \in [Sensors -> Modes \cup {0}]
    /\ \A s \in up : wanted[s] # 0 =>
           Accepted(wanted[s]) /\ final[s] = FinalFor(wanted[s])

LEMMA BudgetedIsMet == Inv /\ Budgeted => BudgetMet
<1> SUFFICES ASSUME Inv, Budgeted, NEW s \in up, wanted[s] # 0
             PROVE  Meets(final[s], wanted[s])
  BY DEF BudgetMet
<1>1. s \in Sensors
  BY DEF Inv, Powered
<1>2. wanted[s] \in Modes /\ Accepted(wanted[s]) /\ final[s] = FinalFor(wanted[s])
  BY <1>1 DEF Budgeted
<1>3. wanted[s] \in Nat /\ FitsField(wanted[s])
  BY <1>2, SensorsAssumption
<1> QED BY <1>2, <1>3, AcceptedIsMet

LEMMA InitBudgeted == Init => Budgeted
BY DEF Init, Budgeted

LEMMA NextBudgeted == Inv /\ Budgeted /\ [Next]_vars => Budgeted'
<1> SUFFICES ASSUME Inv, Budgeted, [Next]_vars PROVE Budgeted'
  OBVIOUS
<1>1. up \subseteq Sensors
  BY DEF Inv, Powered
<1>2. CASE UNCHANGED <<wanted, final>> /\ up' \subseteq up
  BY <1>2 DEF Budgeted
<1>3. CASE Start /\ pc' # "failed"
  <2> DEFINE set == {s \in on' : chip'[s] = address[cur]}
  <2>1. /\ pc = "start" /\ on' = on \cup {cur}
        /\ chip' = [chip EXCEPT ![cur] = IF cur \in on THEN @ ELSE Default]
        /\ final' = [s \in Sensors |-> IF s \in set THEN TunedFinal ELSE final[s]]
        /\ wanted' = [wanted EXCEPT ![cur] = 0]
        /\ up' = up \cup {cur}
    BY <1>3 DEF Start
  <2>2. cur \notin up /\ on = up /\ cur \in Sensors
    BY <2>1, CurIs DEF Inv, Powered, Turns
  <2>3. address[cur] = Default
    BY <2>2 DEF Inv, Addressed
  <2>4. ASSUME NEW s \in up PROVE s \notin set /\ s # cur
    <3>1. s # cur /\ chip'[s] = chip[s] /\ chip[s] = Own[s]
      BY <1>1, <2>1, <2>2 DEF Inv, Addressed
    <3>2. Own[s] # Default
      BY <2>1, <3>1, NobodyAtDefault DEF Inv
    <3> QED BY <2>3, <3>1, <3>2
  <2> HIDE DEF set
  <2>5. \A s \in up : final'[s] = final[s] /\ wanted'[s] = wanted[s]
    BY <1>1, <2>1, <2>4 DEF Budgeted
  <2>6. wanted' \in [Sensors -> Modes \cup {0}] /\ wanted'[cur] = 0
    BY <2>1, <2>2 DEF Budgeted
  <2> QED BY <2>1, <2>5, <2>6 DEF Budgeted
<1>4. CASE SetMode
  <2>1. pc = "mode" /\ up' = up /\ cur \in up
    BY <1>4 DEF SetMode, Inv, Powered
  <2>2. cur \in Sensors /\ Answering(address[cur]) = {cur}
    BY <2>1, AsksCur
  <2>3. PICK b \in Modes :
            IF Accepted(b)
            THEN final' = Written(final, FinalFor(b)) /\ wanted' = [wanted EXCEPT ![cur] = b]
            ELSE UNCHANGED <<final, wanted>>
    BY <1>4 DEF SetMode
  <2>4. CASE ~Accepted(b)
    BY <1>2, <2>1, <2>3, <2>4
  <2>5. CASE Accepted(b)
    <3>1. final' = [s \in Sensors |-> IF s = cur THEN FinalFor(b) ELSE final[s]]
      BY <2>2, <2>3, <2>5 DEF Written
    <3>2. wanted' = [wanted EXCEPT ![cur] = b]
      BY <2>3, <2>5
    <3>3. wanted' \in [Sensors -> Modes \cup {0}]
      BY <2>2, <3>2 DEF Budgeted
    <3>4. final'[cur] = FinalFor(b) /\ wanted'[cur] = b
      BY <2>2, <3>1, <3>2 DEF Budgeted
    <3>5. \A s \in up : s # cur => final'[s] = final[s] /\ wanted'[s] = wanted[s]
      BY <1>1, <3>1, <3>2 DEF Budgeted
    <3> QED BY <2>1, <2>5, <3>3, <3>4, <3>5 DEF Budgeted
  <2> QED BY <2>4, <2>5
<1>5. CASE Start /\ pc' = "failed"
  BY <1>2, <1>5 DEF Start, AfterStart
<1>6. CASE \E s \in Sensors : Measure(s)
  BY <1>2, <1>6 DEF Measure, app
<1>7. CASE SetAddress
  BY <1>2, <1>7 DEF SetAddress
<1>8. CASE StartContinuous
  BY <1>2, <1>8 DEF StartContinuous, app
<1>9. CASE Poll
  BY <1>2, <1>9 DEF Poll, Status, ReadRange, Clear, Without, app, device
<1>10. CASE Stop
  BY <1>2, <1>10 DEF Stop
<1>11. CASE StopContinuous
  BY <1>2, <1>11 DEF StopContinuous, app
<1>12. CASE UNCHANGED vars
  BY <1>2, <1>12 DEF vars
<1> QED BY <1>3, <1>4, <1>5, <1>6, <1>7, <1>8, <1>9, <1>10, <1>11, <1>12 DEF Next

-----------------------------------------------------------------------------
(* The theorems *)

(***************************************************************************)
(* Each sensor in use answers where its structure says, and no other does, *)
(* although all come up at the same address, and although one may fail to  *)
(* start (vl53l0x_example.c:204-216, vl53l0x.c:249, 748-757).              *)
(***************************************************************************)
THEOREM EachAlone == Spec => []AloneAtAddress
BY InitInv, NextInv, InvAlone, PTL DEF Spec

(***************************************************************************)
(* A budget that vl53l0x_setMode accepted for a sensor is met by that      *)
(* sensor, whatever its neighbours were set to and however often they, or  *)
(* it, are started again; for every budget whose timeout fits its 16 bits  *)
(* (vl53l0x.c:280-301, 503-556).                                           *)
(***************************************************************************)
THEOREM EachBudgetMet == Spec => []BudgetMet
BY InitInv, NextInv, InitBudgeted, NextBudgeted, BudgetedIsMet, PTL DEF Spec

(***************************************************************************)
(* Each reading is a new measurement of the sensor that was asked, for any *)
(* number of sensors and measurements (vl53l0x.c:873-887).                 *)
(***************************************************************************)
THEOREM EachReadingNew == Spec => ReadingsAreNew
<1>1. Inv /\ Measured /\ [Next]_vars => [ReadRange => NewReading(cur)]_vars
  BY ReadIsNew
<1> QED BY InitInv, NextInv, InitMeasured, NextMeasured, <1>1, PTL DEF Spec, ReadingsAreNew
=============================================================================
