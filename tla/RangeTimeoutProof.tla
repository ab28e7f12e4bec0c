------------------------- MODULE RangeTimeoutProof -------------------------
(***************************************************************************)
(* Proofs about RangeTimeout, for a byte and a timeout of any size: a wait *)
(* is never given up early but for the two excuses, and is given up at the *)
(* first check after the timeout although the count wraps and is torn.     *)
(***************************************************************************)
EXTENDS RangeTimeout, TLAPS

-----------------------------------------------------------------------------
(* Division *)

LEMMA DivIs ==
    ASSUME NEW x \in Nat, NEW p \in Nat \ {0}
    PROVE  x \div p \in Nat /\ p * (x \div p) <= x /\ x < p * (x \div p) + p
OBVIOUS

LEMMA DivModOf ==
    ASSUME NEW p \in Nat \ {0}, NEW n \in Nat, NEW q \in 0 .. p - 1
    PROVE  (p * n + q) % p = q /\ (p * n + q) \div p = n
OBVIOUS

LEMMA DivModExact ==
    ASSUME NEW p \in Nat \ {0}, NEW n \in Nat
    PROVE  (p * n) % p = 0 /\ (p * n) \div p = n
<1>1. (p * n + 0) % p = 0 /\ (p * n + 0) \div p = n
  BY DivModOf
<1>2. p * n \in Nat
  OBVIOUS
<1> QED BY <1>1, <1>2

LEMMA DivOne ==
    ASSUME NEW x \in Nat
    PROVE  x \div 1 = x /\ 0 + 1 * x = x
<1> DEFINE p == 1
<1>1. p \in Nat \ {0} /\ p * x = x
  OBVIOUS
<1> HIDE DEF p
<1>2. (p * x) \div p = x
  BY <1>1, DivModExact
<1>3. 0 + 1 * x = x
  OBVIOUS
<1> QED BY <1>1, <1>2, <1>3 DEF p

LEMMA ModIs ==
    ASSUME NEW x \in Nat, NEW p \in Nat \ {0}
    PROVE  x % p \in 0 .. p - 1 /\ x = p * (x \div p) + (x % p)
OBVIOUS

\* The remainder of what is at most once around.
LEMMA ModNear ==
    ASSUME NEW p \in Nat \ {0}, NEW x \in -p .. 2 * p - 1
    PROVE  /\ x < 0 => x % p = x + p
           /\ 0 <= x /\ x < p => x % p = x
           /\ p <= x => x % p = x - p
OBVIOUS

LEMMA Times ==
    ASSUME NEW p \in Nat, NEW a \in Nat, NEW b \in Nat, a <= b
    PROVE  p * a <= p * b /\ p * a \in Nat /\ p * (a + 1) = p * a + p
OBVIOUS

\* A digit more splits off from the rest of a number.
LEMMA DigitSplits ==
    ASSUME NEW x \in Nat, NEW p \in Nat \ {0}, NEW b \in Nat \ {0}
    PROVE  /\ p * b \in Nat \ {0}
           /\ ((x \div p) % b) * p + (p * b) * (x \div (p * b)) = p * (x \div p)
<1> DEFINE q == x \div p
           r == q \div b
           d == q % b
           rest == p * d + (x - p * q)
<1>1. q \in Nat /\ p * q <= x /\ x < p * q + p
  BY DivIs
<1>2. r \in Nat /\ d \in 0 .. b - 1 /\ q = b * r + d
  BY <1>1, DivIs, ModIs
<1> HIDE DEF q
<1> HIDE DEF r, d
<1>3. p * d + p <= p * b /\ p * d \in Nat
  <2>1. d + 1 <= b /\ d \in Nat /\ d + 1 \in Nat /\ b \in Nat
    BY <1>2
  <2>2. p * (d + 1) <= p * b
    BY <2>1, Times
  <2> QED BY <2>1, <2>2, Times
<1>4. p * b \in Nat \ {0}
  OBVIOUS
<1>5. rest \in 0 .. p * b - 1
  BY <1>1, <1>3, <1>4
<1>6. p * q = p * (b * r) + p * d
  BY <1>2
<1>7. p * (b * r) = (p * b) * r
  BY <1>2
<1>8. x = (p * b) * r + rest
  BY <1>1, <1>2, <1>3, <1>6, <1>7
<1>9. x \div (p * b) = r
  BY <1>2, <1>4, <1>5, <1>8, DivModOf
<1>10. d * p = p * d
  BY <1>2
<1> QED BY <1>4, <1>6, <1>7, <1>9, <1>10 DEF q, d

-----------------------------------------------------------------------------
(* The places of the bytes *)

LEMMA Sizes ==
    /\ Byte \in Nat /\ Byte >= 3 /\ Pace \in Nat /\ Pace >= 1 /\ 2 * Pace < Byte
    /\ U16 \in Nat /\ U16 >= 3 * Byte
    /\ U24 \in Nat /\ U24 >= 3 * U16
    /\ U32 \in Nat /\ U32 >= 3 * U24
    /\ Timeout \in Nat /\ 1 <= Timeout /\ Timeout < U16
<1>1. /\ Byte \in Nat /\ Byte >= 3 /\ Pace \in Nat /\ Pace >= 1 /\ 2 * Pace < Byte
  BY TimeoutAssumption, PaceAssumption
<1>2. ASSUME NEW n \in Nat PROVE Byte * n \in Nat /\ Byte * n >= 3 * n
  BY <1>1
<1>3. U16 \in Nat /\ U16 >= 3 * Byte
  BY <1>1, <1>2 DEF U16
<1>4. U24 \in Nat /\ U24 >= 3 * U16
  BY <1>2, <1>3 DEF U24
<1>5. U32 = Byte * U24
  BY <1>1 DEF U32, U24, U16
<1>6. U32 \in Nat /\ U32 >= 3 * U24
  BY <1>2, <1>4, <1>5
<1>7. Timeout \in 1 .. U16 - 1
  BY TimeoutAssumption
<1> QED BY <1>1, <1>3, <1>4, <1>6, <1>7

LEMMA Products ==
    U16 = Byte * Byte /\ U24 = U16 * Byte /\ U32 = U24 * Byte /\ U32 = U16 * U16
BY Sizes DEF U16, U24, U32

LEMMA Places ==
    /\ Place(0) = 1 /\ Place(1) = Byte /\ Place(2) = U16 /\ Place(3) = U24 /\ Place(4) = U32
BY DEF Place

LEMMA PlaceGrows ==
    ASSUME NEW k \in 0 .. 3
    PROVE  Place(k) \in Nat \ {0} /\ Place(k + 1) = Place(k) * Byte
<1>1. k = 0 \/ k = 1 \/ k = 2 \/ k = 3
  OBVIOUS
<1> QED BY <1>1, Places, Sizes, Products

\* The count holds so many whole p.
Divides(p) == \E r \in Nat \ {0} : U32 = p * r

LEMMA PlaceDivides ==
    ASSUME NEW k \in 0 .. 4
    PROVE  /\ Place(k) \in Nat \ {0} /\ Place(k) <= U32
           /\ Divides(Place(k))
<1>1. k = 0 \/ k = 1 \/ k = 2 \/ k = 3 \/ k = 4
  OBVIOUS
<1>2. U32 = 1 * U32 /\ U32 = Byte * U24 /\ U32 = U16 * U16 /\ U32 = U24 * Byte /\ U32 = U32 * 1
  BY Sizes, Products
<1>3. /\ 1 \in Nat \ {0} /\ Byte \in Nat \ {0} /\ U16 \in Nat \ {0} /\ U24 \in Nat \ {0}
      /\ U32 \in Nat \ {0} /\ 1 <= U32 /\ Byte <= U32 /\ U16 <= U32 /\ U24 <= U32
  BY Sizes
<1>4. CASE k = 0
  BY <1>2, <1>3, <1>4, Places DEF Divides
<1>5. CASE k = 1
  BY <1>2, <1>3, <1>5, Places DEF Divides
<1>6. CASE k = 2
  BY <1>2, <1>3, <1>6, Places DEF Divides
<1>7. CASE k = 3
  BY <1>2, <1>3, <1>7, Places DEF Divides
<1>8. CASE k = 4
  BY <1>2, <1>3, <1>8, Places DEF Divides
<1> QED BY <1>1, <1>4, <1>5, <1>6, <1>7, <1>8

LEMMA PlaceOfBytes ==
    ASSUME NEW k \in 1 .. 3
    PROVE  /\ Place(k) \in {Byte, U16, U24}
           /\ \E r \in Nat \ {0} : Place(k) = Byte * r
<1>1. k = 1 \/ k = 2 \/ k = 3
  OBVIOUS
<1>2. Byte = Byte * 1 /\ U16 = Byte * Byte /\ U24 = Byte * U16
  BY Sizes, Products
<1> QED BY <1>1, <1>2, Places, Sizes

(***************************************************************************)
(* What a tick does to the part of the count above a place.                *)
(***************************************************************************)
After(m) == (m + 1) % U32

LEMMA AfterIs ==
    ASSUME NEW m \in 0 .. U32 - 1
    PROVE  After(m) = (IF m + 1 = U32 THEN 0 ELSE m + 1) /\ After(m) \in 0 .. U32 - 1
<1> DEFINE x == m + 1
           p == U32
<1>1. p \in Nat \ {0} /\ x \in -p .. 2 * p - 1 /\ 0 <= x /\ x <= p
  BY Sizes
<1> HIDE DEF x, p
<1>2. (x < p => x % p = x) /\ (p <= x => x % p = x - p)
  BY <1>1, ModNear
<1>3. After(m) = x % p
  BY DEF After, x, p
<1> QED BY <1>1, <1>2, <1>3 DEF x, p

LEMMA TickAbove ==
    ASSUME NEW m \in 0 .. U32 - 1, NEW p \in Nat \ {0}, Divides(p)
    PROVE  /\ After(m) \div p = m \div p \/ After(m) % p = 0
           /\ After(m) \div p # m \div p /\ After(m) # 0 =>
                  p * (After(m) \div p) = After(m) /\ p * (m \div p) = After(m) - p
           /\ After(m) = 0 => p * (m \div p) = U32 - p /\ After(m) \div p = 0
<1> DEFINE n == After(m)
           q == m \div p
<1>0. PICK r \in Nat \ {0} : U32 = p * r
  BY DEF Divides
<1>1. q \in Nat /\ p * q <= m /\ m < p * q + p
  BY DivIs
<1>2. U32 \in Nat /\ U32 >= 3
  BY Sizes
<1>3. n = IF m + 1 = U32 THEN 0 ELSE m + 1
  BY AfterIs
<1> HIDE DEF q, n
<1>4. p * (q + 1) = p * q + p
  BY <1>1
<1>5. CASE m + 1 = U32
  <2>1. n = 0 /\ n = p * 0
    BY <1>3, <1>5
  <2>2. n \div p = 0 /\ n % p = 0
    BY <2>1, DivModExact
  <2>3. q = r - 1
    <3>1. m = p * (r - 1) + (p - 1)
      BY <1>0, <1>5
    <3>2. r - 1 \in Nat /\ p - 1 \in 0 .. p - 1
      OBVIOUS
    <3> QED BY <3>1, <3>2, DivModOf DEF q
  <2>4. p * (r - 1) = U32 - p
    BY <1>0
  <2> QED BY <2>1, <2>2, <2>3, <2>4 DEF q, n
<1>6. CASE m + 1 # U32 /\ m + 1 < p * q + p
  <2>1. n = p * q + (n - p * q) /\ n - p * q \in 0 .. p - 1 /\ n # 0
    BY <1>1, <1>2, <1>3, <1>6
  <2> DEFINE s == n - p * q
  <2>2. n = p * q + s /\ s \in 0 .. p - 1
    BY <2>1
  <2> HIDE DEF s
  <2>3. n \div p = q
    BY <1>1, <2>2, DivModOf
  <2> QED BY <2>1, <2>3 DEF q, n
<1>7. CASE m + 1 # U32 /\ m + 1 = p * q + p
  <2> DEFINE k == q + 1
  <2>1. n = p * k /\ k \in Nat /\ n # 0
    BY <1>1, <1>2, <1>3, <1>4, <1>7
  <2> HIDE DEF k
  <2>2. n \div p = k /\ n % p = 0
    BY <2>1, DivModExact
  <2>3. p * (n \div p) = n /\ p * q = n - p
    BY <1>1, <1>4, <2>1, <2>2 DEF k
  <2> QED BY <2>2, <2>3, <2>1 DEF q, n
<1> QED BY <1>1, <1>5, <1>6, <1>7

\* The lowest byte of the count counts up to the carry.
LEMMA LowByte ==
    ASSUME NEW m \in 0 .. U32 - 1
    PROVE  /\ m % Byte \in 0 .. Byte - 1
           /\ After(m) % Byte = 0 \/ After(m) % Byte = (m % Byte) + 1
           /\ After(m) % Byte = 0 => m % Byte = Byte - 1
<1> DEFINE n == After(m)
           b == Byte
           q == m \div b
           l == m % b
<1>0. b \in Nat \ {0} /\ Divides(b) /\ m \in Nat
  BY PlaceDivides, Places, Sizes
<1>1. n = IF m + 1 = U32 THEN 0 ELSE m + 1
  BY AfterIs
<1> HIDE DEF n, b
<1>2. q \in Nat /\ l \in 0 .. b - 1 /\ m = b * q + l
  BY <1>0, DivIs, ModIs
<1>3. PICK r \in Nat \ {0} : U32 = b * r
  BY <1>0 DEF Divides
<1> HIDE DEF q, l
<1>5. CASE m + 1 = U32
  <2> DEFINE k == r - 1
             t == b - 1
  <2>1. m = b * k + t /\ k \in Nat /\ t \in 0 .. b - 1
    BY <1>0, <1>3, <1>5
  <2> HIDE DEF k, t
  <2>2. m % b = t
    BY <1>0, <2>1, DivModOf
  <2>3. n = b * 0
    BY <1>0, <1>1, <1>5
  <2>4. n % b = 0
    BY <1>0, <2>3, DivModExact
  <2> QED BY <1>0, <2>2, <2>4 DEF b, t, n
<1>6. CASE m + 1 # U32 /\ l = b - 1
  <2> DEFINE k == q + 1
  <2>1. n = b * k /\ k \in Nat
    BY <1>0, <1>1, <1>2, <1>6
  <2> HIDE DEF k
  <2>2. n % b = 0
    BY <1>0, <2>1, DivModExact
  <2> QED BY <1>2, <1>6, <2>2 DEF l, b, n
<1>7. CASE m + 1 # U32 /\ l # b - 1
  <2> DEFINE s == l + 1
  <2>1. n = b * q + s /\ s \in 0 .. b - 1 /\ s # 0
    BY <1>0, <1>1, <1>2, <1>7
  <2> HIDE DEF s
  <2>2. n % b = s
    BY <1>0, <1>2, <2>1, DivModOf
  <2> QED BY <1>2, <2>1, <2>2 DEF l, b, n, s
<1> QED BY <1>5, <1>6, <1>7

-----------------------------------------------------------------------------
(***************************************************************************)
(* What has been read so far.                                              *)
(***************************************************************************)
Reading ==
    /\ word < Place(bytes)
    /\ bytes > 0 => pc \in {"stamp", "check"}
    /\ pc = "check" => i2cTimeout = Timeout

\* The count as it will have been read if it stands still from now on.
Seen == word + Place(bytes) * (ms \div Place(bytes))

LEMMA InitTyped == Init => TypeOK /\ Reading
<1> SUFFICES ASSUME Init PROVE TypeOK /\ Reading
  OBVIOUS
<1>1. Place(bytes) = 1
  BY Places DEF Init
<1>2. 0 \in 0 .. U32 - 1 /\ 0 \in 0 .. U16 - 1 /\ 0 \in 0 .. Longest /\ 0 \in 0 .. Pace
  BY Sizes DEF Longest
<1>3. Reading
  BY <1>1 DEF Init, Reading
<1>4. /\ ms \in 0 .. U32 - 1 /\ timeoutStart \in 0 .. U16 - 1 /\ word \in 0 .. U32 - 1
      /\ elapsed \in 0 .. Longest /\ since \in 0 .. Pace /\ bytes \in 0 .. 4
  BY <1>2 DEF Init
<1>5. /\ timedOut \in BOOLEAN /\ early \in BOOLEAN /\ late \in BOOLEAN
      /\ wide \in BOOLEAN /\ torn \in BOOLEAN /\ chosen \in BOOLEAN
  BY DEF Init
<1>6. TypeOK
  BY <1>4, <1>5 DEF Init, TypeOK
<1> QED BY <1>3, <1>6

LEMMA ByteFits ==
    ASSUME TypeOK, Reading, ReadByte
    PROVE  word' \in 0 .. U32 - 1 /\ word' < Place(bytes')
<1> DEFINE p == Place(bytes)
           d == (ms \div p) % Byte
<1>1. bytes \in 0 .. 3 /\ bytes' = bytes + 1 /\ bytes' \in 0 .. 4
  BY DEF TypeOK, ReadByte
<1>2. p \in Nat \ {0} /\ Place(bytes') = p * Byte
  BY <1>1, PlaceGrows
<1>3. Place(bytes') <= U32 /\ Byte \in Nat \ {0} /\ U32 \in Nat
  BY <1>1, PlaceDivides, Sizes
<1>4. word \in Nat /\ word < p /\ ms \in Nat
  BY DEF TypeOK, Reading
<1>5. d \in 0 .. Byte - 1
  BY <1>2, <1>3, <1>4, DivIs, ModIs
<1>6. word' = word + d * p
  BY DEF ReadByte
<1> HIDE DEF p, d
<1>7. p * (d + 1) <= p * Byte /\ p * d \in Nat /\ p * (d + 1) = p * d + p
  <2>1. d \in Nat /\ d + 1 \in Nat /\ d + 1 <= Byte
    BY <1>3, <1>5
  <2> QED BY <1>2, <1>3, <2>1, Times
<1>8. d * p = p * d
  BY <1>2, <1>5
<1>9. p * Byte \in Nat
  BY <1>2, <1>3
<1> QED BY <1>2, <1>3, <1>4, <1>6, <1>7, <1>8, <1>9

LEMMA NextTyped == TypeOK /\ Reading /\ [Next]_vars => TypeOK' /\ Reading'
<1> SUFFICES ASSUME TypeOK, Reading, [Next]_vars PROVE TypeOK' /\ Reading'
  OBVIOUS
<1>1. Place(0) = 1 /\ 0 \in 0 .. Pace /\ 0 \in 0 .. Longest /\ 0 \in 0 .. U32 - 1
  BY Places, Sizes DEF Longest
<1>2. CASE Tick
  <2>1. ms' \in 0 .. U32 - 1
    BY <1>2, AfterIs DEF Tick, TypeOK, After
  <2>2. since' \in 0 .. Pace /\ elapsed' \in 0 .. Longest
    BY <1>2, Sizes DEF Tick, TypeOK, Longest
  <2>3. wide' \in BOOLEAN /\ torn' \in BOOLEAN
    BY <1>2 DEF Tick, TypeOK
  <2> QED BY <1>2, <2>1, <2>2, <2>3 DEF Tick, TypeOK, Reading, fields
<1>3. CASE SensorInit
  BY <1>1, <1>3 DEF SensorInit, TypeOK, Reading, history, excuses
<1>4. CASE AppSets
  BY <1>1, <1>4 DEF AppSets, TypeOK, Reading, history, excuses
<1>5. CASE \E o \in {"start", "single"} : Call(o)
  BY <1>1, <1>5 DEF Call, StartWait, TypeOK, Reading, fields, history, excuses
<1>6. CASE ReadByte
  <2>1. word' \in 0 .. U32 - 1 /\ word' < Place(bytes')
    BY <1>6, ByteFits
  <2>2. bytes' \in 0 .. 4 /\ elapsed' \in 0 .. Longest
    BY <1>1, <1>6 DEF ReadByte, TypeOK
  <2>3. bytes' > 0 => pc' \in {"stamp", "check"}
    BY <1>6 DEF ReadByte
  <2> QED BY <1>6, <2>1, <2>2, <2>3 DEF ReadByte, TypeOK, Reading, fields, history, excuses
<1>7. CASE StartTimeout
  <2>1. timeoutStart' \in 0 .. U16 - 1
    <3>1. word \in Nat /\ U16 \in Nat \ {0} /\ timeoutStart' = word % U16
      BY <1>7, Sizes DEF StartTimeout, TypeOK
    <3> QED BY <3>1, ModIs
  <2> QED BY <1>1, <1>7, <2>1 DEF StartTimeout, TypeOK, Reading, history, excuses
<1>8. CASE NotAnswered
  BY <1>1, <1>8 DEF NotAnswered, TypeOK, Reading, fields, history, excuses
<1>9. CASE CheckTimeout
  <2>1. Reading'
    BY <1>1, <1>9 DEF CheckTimeout, GivesUp, Reading
  <2>2. early' \in BOOLEAN /\ late' \in BOOLEAN /\ timedOut' \in BOOLEAN
    BY <1>9 DEF CheckTimeout, GivesUp, TypeOK
  <2>3. pc' \in {"idle", "poll"} /\ unasked' \subseteq {"start", "single"}
    BY <1>9 DEF CheckTimeout, GivesUp, TypeOK
  <2> QED BY <1>1, <1>9, <2>1, <2>2, <2>3 DEF CheckTimeout, TypeOK, excuses
<1>10. CASE Answered
  BY <1>1, <1>10 DEF Answered, StartWait, Waits, TypeOK, Reading, fields, history, excuses
<1>11. CASE TimeoutOccurred
  BY <1>1, <1>11 DEF TimeoutOccurred, TypeOK, Reading, excuses
<1>12. CASE UNCHANGED vars
  BY <1>12 DEF vars, fields, history, excuses, TypeOK, Reading
<1> QED BY <1>2, <1>3, <1>4, <1>5, <1>6, <1>7, <1>8, <1>9, <1>10, <1>11, <1>12
        DEF Next, Waiting

-----------------------------------------------------------------------------
(* What the timer and the main context do to the count that is read *)

LEMMA SeenAt ==
    ASSUME TypeOK, Reading
    PROVE  /\ Seen \in 0 .. U32 - 1
           /\ word <= Seen
           /\ bytes = 0 => word = 0 /\ Seen = ms
           /\ bytes = 4 => Seen = word
<1> DEFINE p == Place(bytes)
           q == ms \div p
<1>1. PICK r \in Nat \ {0} : U32 = p * r
  BY PlaceDivides DEF TypeOK, Divides
<1>2. p \in Nat \ {0} /\ p <= U32 /\ U32 \in Nat \ {0} /\ ms \in 0 .. U32 - 1 /\ ms \in Nat
      /\ word \in Nat /\ word < p
  BY PlaceDivides, Sizes DEF TypeOK, Reading
<1>3. q \in Nat /\ p * q <= ms /\ ms < p * q + p
  BY <1>2, DivIs
<1>4. Seen = word + p * q
  BY DEF Seen
<1>5. bytes = 0 => p = 1
  BY Places
<1>6. bytes = 4 => p = U32
  BY Places
<1> HIDE DEF p, q
<1>8. p * q \in Nat
  BY <1>2, <1>3
<1>7. p * q <= U32 - p
  <2>1. q + 1 <= r
    <3>1. SUFFICES ASSUME r <= q PROVE FALSE
      BY <1>1, <1>3
    <3>2. p * r <= p * q
      BY <1>1, <1>2, <1>3, <3>1, Times
    <3> QED BY <1>1, <1>2, <1>3, <3>2
  <2>2. p * (q + 1) <= p * r /\ p * (q + 1) = p * q + p
    BY <1>1, <1>2, <1>3, <2>1, Times
  <2> QED BY <1>1, <1>2, <1>8, <2>2
<1>9. p = 1 => p * q = ms
  BY <1>2, <1>3
<1>10. p = U32 => p * q = 0
  BY <1>2, <1>7, <1>8
<1> QED BY <1>2, <1>4, <1>5, <1>6, <1>7, <1>8, <1>9, <1>10

LEMMA ReadSeen ==
    ASSUME TypeOK, Reading, ReadByte
    PROVE  Seen' = Seen
<1> DEFINE p == Place(bytes)
<1>1. p \in Nat \ {0} /\ Place(bytes + 1) = p * Byte /\ Byte \in Nat \ {0}
  BY PlaceGrows, Sizes DEF TypeOK, ReadByte
<1>2. ms \in Nat /\ word \in Nat
  BY DEF TypeOK
<1>3. ((ms \div p) % Byte) * p + (p * Byte) * (ms \div (p * Byte)) = p * (ms \div p)
  BY <1>1, <1>2, DigitSplits
<1>4. ms \div p \in Nat /\ (ms \div p) % Byte \in Nat /\ ms \div (p * Byte) \in Nat
      /\ p * Byte \in Nat \ {0}
  <2>1. p * Byte \in Nat \ {0}
    BY <1>1, <1>2, DigitSplits
  <2>2. ms \div p \in Nat /\ ms \div (p * Byte) \in Nat
    BY <1>1, <1>2, <2>1, DivIs
  <2>3. (ms \div p) % Byte \in 0 .. Byte - 1
    BY <1>1, <2>2, ModIs
  <2> QED BY <1>1, <2>1, <2>2, <2>3
<1>5. /\ Seen' = word + ((ms \div p) % Byte) * p + (p * Byte) * (ms \div (p * Byte))
      /\ Seen = word + p * (ms \div p)
  BY <1>1 DEF Seen, ReadByte
<1> DEFINE above == p * (ms \div p)
           digit == ((ms \div p) % Byte) * p
           rest == (p * Byte) * (ms \div (p * Byte))
<1>6. above \in Nat /\ digit \in Nat /\ rest \in Nat
  BY <1>1, <1>4
<1>7. digit + rest = above /\ Seen' = word + digit + rest /\ Seen = word + above
  BY <1>3, <1>5
<1> HIDE DEF above, digit, rest
<1> QED BY <1>2, <1>6, <1>7

(***************************************************************************)
(* A tick is seen if nothing was read yet, or when it carries into what    *)
(* was not read yet.                                                       *)
(***************************************************************************)
LEMMA TickSeen ==
    ASSUME TypeOK, Reading, Tick
    PROVE  /\ ms' = IF ms + 1 = U32 THEN 0 ELSE ms + 1
           /\ Seen' \in Nat
           /\ ~Carries /\ bytes # 0 => Seen' = Seen
           /\ Carries =>
                /\ Place(bytes) \in {Byte, U16, U24}
                /\ ms' % Byte = 0 /\ ms % Byte = Byte - 1
                /\ ms' # 0 => /\ Seen' = Seen + Place(bytes)
                              /\ Seen' = word + ms'
                              /\ Place(bytes) <= ms'
                /\ ms' = 0 => Seen' = Seen + Place(bytes) - U32
           /\ ms' % Byte = 0 \/ ms' % Byte = (ms % Byte) + 1
           /\ ms % Byte \in 0 .. Byte - 1
<1> DEFINE p == Place(bytes)
           q == ms \div p
           n == After(ms)
<1>1. Divides(p)
  BY PlaceDivides DEF TypeOK
<1>2. p \in Nat \ {0} /\ p <= U32 /\ U32 \in Nat \ {0} /\ ms \in 0 .. U32 - 1
      /\ word \in Nat
  BY PlaceDivides, Sizes DEF TypeOK
<1>3. ms' = n /\ bytes' = bytes /\ word' = word
  BY DEF Tick, After
<1>4. Seen = word + p * q /\ Seen' = word + p * (n \div p)
  BY <1>3 DEF Seen
<1>5. Carries <=> bytes \in 1 .. 3 /\ n \div p # q
  BY DEF Carries, After
<1>6. /\ n \in 0 .. U32 - 1
      /\ n = IF ms + 1 = U32 THEN 0 ELSE ms + 1
      /\ n \div p = q \/ n % p = 0
      /\ n \div p # q /\ n # 0 => p * (n \div p) = n /\ p * q = n - p
      /\ n = 0 => p * q = U32 - p /\ n \div p = 0
  <2> HIDE DEF p
  <2> QED BY <1>1, <1>2, AfterIs, TickAbove
<1>7. q \in Nat /\ n \div p \in Nat
  <2>1. ms \in Nat /\ n \in Nat
    BY <1>2, <1>6
  <2> QED BY <1>2, <2>1, DivIs
<1>8. p * q \in Nat /\ p * (n \div p) \in Nat
  BY <1>2, <1>7
<1>9. /\ n % Byte = 0 \/ n % Byte = (ms % Byte) + 1
      /\ ms % Byte \in 0 .. Byte - 1
      /\ n % Byte = 0 => ms % Byte = Byte - 1
  BY <1>2, LowByte
<1>10. ASSUME Carries
       PROVE  p \in {Byte, U16, U24} /\ n % Byte = 0
  <2>1. bytes \in 1 .. 3 /\ n \div p # q
    BY <1>5, <1>10
  <2>2. PICK s \in Nat \ {0} : p = Byte * s
    BY <2>1, PlaceOfBytes
  <2>3. p \in {Byte, U16, U24}
    BY <2>1, PlaceOfBytes
  <2>4. n % p = 0
    BY <1>6, <2>1
  <2>5. PICK m \in Nat : n = Byte * m
    <3>1. n \in Nat
      BY <1>6
    <3>2. n = p * (n \div p)
      <4> HIDE DEF p, n
      <4>1. n = p * (n \div p) + (n % p)
        BY <1>2, <3>1, ModIs
      <4>2. p * (n \div p) \in Nat
        BY <1>8
      <4> QED BY <2>4, <4>1, <4>2
    <3> DEFINE k == n \div p
    <3>3. k \in Nat /\ n = p * k
      BY <1>7, <3>2
    <3> HIDE DEF k, p, n
    <3>4. n = Byte * (s * k) /\ s * k \in Nat
      BY <2>2, <3>3, Sizes
    <3> QED BY <3>4
  <2>6. n = Byte * m + 0 /\ 0 \in 0 .. Byte - 1 /\ Byte \in Nat \ {0}
    BY <2>5, Sizes, <1>6
  <2>7. (Byte * m + 0) % Byte = 0
    BY <2>6, DivModOf
  <2> QED BY <2>3, <2>6, <2>7
<1> HIDE DEF q, n
<1>11. ASSUME ~Carries, bytes # 0 PROVE Seen' = Seen
  <2>1. CASE bytes \in 1 .. 3
    BY <1>4, <1>5, <1>11, <2>1
  <2>2. CASE bytes = 4
    <3>1. p = U32
      BY <2>2, Places
    <3>2. p * q = 0
      BY <1>2, <1>4, <1>8, <2>2, SeenAt
    <3>3. p * (n \div p) = 0
      BY <1>2, <1>6, <1>8, <3>1, <3>2
    <3> QED BY <1>4, <3>2, <3>3
  <2> QED BY <1>11, <2>1, <2>2 DEF TypeOK
<1>12. ASSUME Carries, n # 0
       PROVE  Seen' = Seen + p /\ Seen' = word + n /\ p <= n
  <2>1. p * (n \div p) = n /\ p * q = n - p
    BY <1>5, <1>6, <1>12
  <2> QED BY <1>2, <1>4, <1>6, <1>8, <2>1
<1>13. ASSUME n = 0 PROVE Seen' = Seen + p - U32
  <2>1. p * q = U32 - p /\ p * (n \div p) = 0
    BY <1>2, <1>6, <1>13
  <2> QED BY <1>2, <1>4, <2>1
<1>14. Seen' \in Nat
  BY <1>2, <1>4, <1>8
<1> QED BY <1>3, <1>6, <1>9, <1>10, <1>11, <1>12, <1>13, <1>14

-----------------------------------------------------------------------------
(***************************************************************************)
(* Without an excuse the count is what it was at the start of the wait and *)
(* the milliseconds since, and no reading of it is ahead of it.            *)
(***************************************************************************)
Excused == wide \/ torn

Timely ==
    ~Excused =>
        /\ ms < U16
        /\ pc = "stamp" /\ bytes > 0 => Seen + elapsed = ms
        /\ pc \in {"poll", "check"} => timeoutStart + elapsed = ms
        /\ pc = "check" => timeoutStart <= Seen /\ Seen <= ms

LEMMA InitTimely == Init => NotEarly /\ Timely
BY Sizes DEF Init, NotEarly, Timely, Excused

\* What subtracting the start of the wait from a reading gives.
LEMMA Subtracted ==
    ASSUME TypeOK
    PROVE  (word - timeoutStart) % U32
               = IF word < timeoutStart THEN word - timeoutStart + U32 ELSE word - timeoutStart
<1> DEFINE x == word - timeoutStart
           p == U32
<1>1. p \in Nat \ {0} /\ x \in -p .. 2 * p - 1 /\ x < p
      /\ word \in Nat /\ timeoutStart \in Nat
  BY Sizes DEF TypeOK
<1>2. x < 0 <=> word < timeoutStart
  BY <1>1
<1> HIDE DEF x, p
<1>3. (x < 0 => x % p = x + p) /\ (0 <= x /\ x < p => x % p = x)
  BY <1>1, ModNear
<1>4. x % p = IF x < 0 THEN x + p ELSE x
  BY <1>1, <1>3
<1> QED BY <1>2, <1>4 DEF x, p

LEMMA TickUnread ==
    ASSUME TypeOK, Reading, Tick, bytes = 0
    PROVE  Seen' = ms'
<1>1. word' = 0 /\ Place(bytes') = 1 /\ ms' \in Nat
  BY SeenAt, AfterIs, Places, Sizes DEF Tick, TypeOK, After
<1>2. ms' \div 1 = ms' /\ 0 + 1 * ms' = ms'
  BY <1>1, DivOne
<1>3. Seen' = word' + Place(bytes') * (ms' \div Place(bytes'))
  BY DEF Seen
<1> QED BY <1>1, <1>2, <1>3, Zenon

LEMMA TickTimely ==
    ASSUME TypeOK, Reading, Timely, Tick
    PROVE  Timely'
<1> SUFFICES ASSUME ~Excused' PROVE
        /\ ms' < U16
        /\ pc' = "stamp" /\ bytes' > 0 => Seen' + elapsed' = ms'
        /\ pc' \in {"poll", "check"} => timeoutStart' + elapsed' = ms'
        /\ pc' = "check" => timeoutStart' <= Seen' /\ Seen' <= ms'
  BY DEF Timely
<1>1. ~Excused /\ ~Carries /\ ms' < U16
  <2> DEFINE far == ms' >= U16
  <2>1. wide' = (wide \/ far) /\ torn' = (torn \/ Carries)
    BY DEF Tick
  <2>2. ms' \in Nat /\ U16 \in Nat
    BY AfterIs, Sizes DEF Tick, TypeOK, After
  <2> HIDE DEF far
  <2>3. ~Excused /\ ~Carries /\ ~far
    BY <2>1 DEF Excused
  <2> QED BY <2>2, <2>3 DEF far
<1>2. /\ ms' = ms + 1 /\ ms < U16 /\ ms \in Nat /\ Seen \in Nat
      /\ timeoutStart \in Nat /\ bytes \in 0 .. 4 /\ elapsed \in Nat
  BY <1>1, TickSeen, SeenAt, Sizes DEF Timely, TypeOK
<1>3. bytes # 0 => Seen' = Seen
  BY <1>1, TickSeen
<1>4. bytes = 0 => Seen' = ms' /\ Seen = ms
  BY SeenAt, TickUnread
<1>5. elapsed <= ms => elapsed' = elapsed + 1
  BY <1>1, <1>2, Sizes DEF Tick, Longest
<1>6. pc' = pc /\ bytes' = bytes /\ timeoutStart' = timeoutStart
  BY DEF Tick, fields
<1>7. CASE pc = "stamp" /\ bytes > 0
  BY <1>1, <1>2, <1>3, <1>5, <1>6, <1>7 DEF Timely
<1>8. CASE pc \in {"poll", "check"}
  BY <1>1, <1>2, <1>3, <1>4, <1>5, <1>6, <1>8 DEF Timely
<1> QED BY <1>1, <1>6, <1>7, <1>8

LEMMA NextTimely ==
    TypeOK /\ Reading /\ NotEarly /\ Timely /\ [Next]_vars => NotEarly' /\ Timely'
<1> SUFFICES ASSUME TypeOK, Reading, NotEarly, Timely, [Next]_vars
             PROVE  NotEarly' /\ Timely'
  OBVIOUS
<1>1. CASE Tick
  <2>1. NotEarly'
    BY <1>1 DEF Tick, NotEarly
  <2> QED BY <1>1, <2>1, TickTimely
<1>2. CASE UNCHANGED <<early, excuses, ms>> /\ pc' \in {"idle", "new"}
  BY <1>2 DEF NotEarly, Timely, Excused, excuses
<1>3. CASE UNCHANGED <<early, excuses, ms>> /\ pc' = "stamp" /\ bytes' = 0
  BY <1>3 DEF NotEarly, Timely, Excused, excuses
<1>4. CASE UNCHANGED vars
  BY <1>4 DEF vars, fields, history, excuses, NotEarly, Timely, Excused, Seen
<1>5. CASE ReadByte
  <2>1. Seen' = Seen
    BY <1>5, ReadSeen
  <2>2. NotEarly'
    BY <1>5 DEF ReadByte, history, excuses, NotEarly
  <2>3. CASE pc = "stamp" /\ bytes = 0
    BY <1>5, <2>1, <2>2, <2>3, SeenAt DEF ReadByte, history, excuses, fields, Timely, Excused, TypeOK
  <2>4. CASE ~(pc = "stamp" /\ bytes = 0)
    BY <1>5, <2>1, <2>2, <2>4 DEF ReadByte, history, excuses, fields, Timely, Excused, TypeOK
  <2> QED BY <2>2, <2>3, <2>4
<1>6. CASE StartTimeout
  <2>1. NotEarly'
    BY <1>6 DEF StartTimeout, history, excuses, NotEarly
  <2>2. ASSUME ~Excused PROVE ms < U16 /\ timeoutStart' + elapsed = ms
    <3>1. Seen = word /\ Seen + elapsed = ms /\ ms < U16 /\ word \in Nat /\ elapsed \in Nat
      BY <1>6, <2>2, SeenAt DEF StartTimeout, Timely, TypeOK
    <3> DEFINE p == U16
    <3>2. p \in Nat \ {0} /\ word < p /\ word \in -p .. 2 * p - 1 /\ 0 <= word
      BY <3>1, Sizes DEF TypeOK
    <3> HIDE DEF p
    <3>3. word % p = word
      BY <3>2, ModNear
    <3> QED BY <1>6, <3>1, <3>3 DEF StartTimeout, p
  <2> QED BY <1>6, <2>1, <2>2 DEF StartTimeout, history, excuses, Timely, Excused
<1>7. CASE NotAnswered
  <2>1. bytes = 0 /\ Seen = ms /\ Seen' = Seen
    BY <1>7, SeenAt DEF NotAnswered, Reading, TypeOK, Seen
  <2>2. NotEarly'
    BY <1>7 DEF NotAnswered, history, excuses, NotEarly
  <2>3. timeoutStart \in Nat /\ elapsed \in Nat /\ ms \in Nat
    BY DEF TypeOK
  <2> QED BY <1>7, <2>1, <2>2, <2>3 DEF NotAnswered, fields, history, excuses, Timely, Excused
<1>8. CASE CheckTimeout
  <2>1. /\ word \in Nat /\ timeoutStart \in Nat /\ elapsed \in Nat /\ Timeout \in Nat
        /\ i2cTimeout = Timeout /\ Seen = word /\ ms \in Nat
    BY <1>8, SeenAt, Sizes DEF CheckTimeout, TypeOK, Reading
  <2>2. ASSUME ~Excused, Expired PROVE elapsed > Timeout
    <3>1. timeoutStart <= word /\ word <= ms /\ timeoutStart + elapsed = ms
      BY <1>8, <2>1, <2>2 DEF CheckTimeout, Timely
    <3>2. word - timeoutStart > Timeout
      BY <2>1, <2>2, <3>1, Subtracted DEF Expired
    <3> QED BY <2>1, <3>1, <3>2
  <2>3. NotEarly'
    <3>1. Expired /\ elapsed <= Timeout => Excused
      BY <2>1, <2>2
    <3> QED BY <1>8, <3>1 DEF CheckTimeout, NotEarly, Excused, excuses
  <2>4. pc' \in {"poll", "idle"} /\ UNCHANGED <<ms, timeoutStart, elapsed, excuses>>
    BY <1>8 DEF CheckTimeout, GivesUp
  <2>5. Timely'
    BY <1>8, <2>4 DEF CheckTimeout, Timely, Excused, excuses
  <2> QED BY <2>3, <2>5
<1>9. CASE SensorInit
  BY <1>2, <1>9 DEF SensorInit, history
<1>10. CASE AppSets
  BY <1>2, <1>10 DEF AppSets, history
<1>11. CASE \E o \in {"start", "single"} : Call(o)
  BY <1>3, <1>11 DEF Call, StartWait, history
<1>12. CASE Answered
  BY <1>2, <1>3, <1>12 DEF Answered, StartWait, history
<1>13. CASE TimeoutOccurred
  BY <1>2, <1>13 DEF TimeoutOccurred
<1> QED BY <1>1, <1>4, <1>5, <1>6, <1>7, <1>8, <1>9, <1>10, <1>11, <1>12, <1>13
        DEF Next, Waiting

-----------------------------------------------------------------------------
(***************************************************************************)
(* The count is torn at most once while it is read: what is read is ahead  *)
(* by the place it carried into, and it takes a byte's worth of ticks to   *)
(* carry again.  A start of the wait that holds the low bytes of the count *)
(* is exact; one that was torn is short of U16 by a byte, which only makes *)
(* the wait shorter.  With any other the first check gives up, but for one *)
(* that is torn by the wrap of the count, and then the second does.        *)
(***************************************************************************)
Torn == {0, Byte, U16, U24}

\* The count when the wait began, and what a reading makes of the time since.
Began == IF ms >= elapsed THEN ms - elapsed ELSE ms - elapsed + U32
Gone == IF Seen >= Began THEN Seen - Began ELSE Seen - Began + U32

\* Ticks since the round of the loop before this one.
Rounds == IF pc = "check" THEN since + Pace ELSE since

Stamping == pc = "stamp" /\ bytes > 0
Waited == pc \in {"poll", "check"} /\ i2cTimeout = Timeout

Stamped ==
    Stamping =>
        /\ elapsed <= since
        /\ \E t \in Torn : /\ Seen = Began + t \/ Seen = Began + t - U32
                           /\ t # 0 => ms % Byte < elapsed

Checked ==
    pc = "check" =>
        /\ \E t \in Torn : /\ elapsed - since + t <= Gone /\ Gone <= elapsed + t
                           /\ t # 0 => ms % Byte < since
        /\ Seen < Began => ms < elapsed

Bounded == Waited => elapsed <= Timeout + Pace + Rounds

Exact == timeoutStart = Began
Short == timeoutStart = Began - U16 + Byte
Ahead == \E h \in 1 .. U16 - 1 : Began = timeoutStart + U16 * h
TornStart ==
    /\ \E g \in 0 .. U16 : g # 1 /\ Began = timeoutStart + U16 * g - Byte
    /\ ms % Byte < elapsed
    /\ pc = "check" => Gone <= elapsed
First == elapsed <= Rounds /\ (Ahead \/ TornStart)
Second ==
    /\ elapsed <= 2 * Pace + Rounds
    /\ timeoutStart = Began - U32 + U16
    /\ ms < elapsed
    /\ pc = "check" => Seen <= ms + Byte

Started == Waited => Exact \/ Short \/ First \/ Second

Prompt == Stamped /\ Checked /\ Bounded /\ Started /\ ~late

\* What the steps use of the sizes and the types.
LEMMA Ranges ==
    ASSUME TypeOK, Reading
    PROVE  /\ ms \in Nat /\ ms < U32 /\ elapsed \in Nat /\ elapsed <= U16 + 3 * Pace
           /\ since \in Nat /\ since <= Pace /\ timeoutStart \in Nat /\ timeoutStart < U16
           /\ Seen \in Nat /\ Seen < U32 /\ Began \in Nat /\ Began < U32
           /\ Gone \in Nat /\ Gone < U32 /\ Rounds \in Nat
<1>1. /\ ms \in Nat /\ ms < U32 /\ elapsed \in Nat /\ elapsed <= U16 + 3 * Pace
      /\ since \in Nat /\ since <= Pace /\ timeoutStart \in Nat /\ timeoutStart < U16
  BY Sizes DEF TypeOK, Longest
<1>2. Seen \in Nat /\ Seen < U32
  BY SeenAt, Sizes
<1>3. Began \in Nat /\ Began < U32
  BY <1>1, Sizes DEF Began
<1>4. Gone \in Nat /\ Gone < U32
  BY <1>2, <1>3, Sizes DEF Gone
<1>5. Rounds \in Nat
  BY <1>1, Sizes DEF Rounds
<1> QED BY <1>1, <1>2, <1>3, <1>4, <1>5

LEMMA TickPrompt ==
    ASSUME TypeOK, Reading, Prompt, Tick
    PROVE  Prompt'
<1>1. /\ pc' = pc /\ bytes' = bytes /\ timeoutStart' = timeoutStart /\ late' = late
      /\ since' = since + 1 /\ since < Pace /\ i2cTimeout' = i2cTimeout
  BY DEF Tick, fields
<1>2. CASE ~Stamping /\ ~Waited
  <2>1. pc # "check"
    BY <1>2 DEF Reading, Waited
  <2>2. ~Stamping' /\ ~Waited' /\ pc' # "check"
    BY <1>1, <1>2, <2>1 DEF Stamping, Waited
  <2> QED BY <1>1, <2>2 DEF Prompt, Stamped, Checked, Bounded, Started
<1>3. CASE Stamping \/ Waited
  <2> USE Ranges
  <2>1. elapsed < U16 + 3 * Pace /\ Rounds' = Rounds + 1
    <3>1. Rounds <= 2 * Pace - 1 /\ Rounds' = Rounds + 1
      BY <1>1, Sizes DEF Rounds
    <3> QED BY <1>1, <1>3, <3>1, Sizes DEF Prompt, Stamped, Bounded
  <2>2. elapsed' = elapsed + 1
    BY <2>1 DEF Tick, Longest
  <2>3. /\ ms' = IF ms + 1 = U32 THEN 0 ELSE ms + 1
        /\ ms' \in Nat /\ ms' < U32 /\ Seen' \in Nat
    BY TickSeen, Sizes
  <2>4. Began' = Began
    BY <2>1, <2>2, <2>3, Sizes DEF Began
  <2>5. /\ ms % Byte \in Nat /\ ms' % Byte \in Nat
        /\ ms' % Byte <= (ms % Byte) + 1
        /\ Carries => ms' % Byte = 0 /\ ms % Byte = Byte - 1
    BY TickSeen, Sizes
  <2>6. Carries => /\ Place(bytes) \in {Byte, U16, U24}
                   /\ Seen' = Seen + Place(bytes) \/ Seen' = Seen + Place(bytes) - U32
    BY TickSeen
  <2>7. bytes # 0 /\ ~Carries => Seen' = Seen
    BY TickSeen
  <2>8. Stamped'
    <3> SUFFICES ASSUME Stamping PROVE Stamped'
      BY <1>1 DEF Stamped, Stamping
    <3>1. elapsed' <= since'
      BY <1>1, <2>2 DEF Prompt, Stamped
    <3>2. PICK t \in Torn : /\ Seen = Began + t \/ Seen = Began + t - U32
                            /\ t # 0 => ms % Byte < elapsed
      BY DEF Prompt, Stamped
    <3>3. CASE ~Carries
      <4>1. Seen' = Began' + t \/ Seen' = Began' + t - U32
        BY <2>4, <2>7, <3>2, <3>3 DEF Stamping
      <4>2. t # 0 => ms' % Byte < elapsed'
        BY <2>2, <2>5, <3>2
      <4> QED BY <3>1, <4>1, <4>2 DEF Stamped
    <3>4. CASE Carries
      <4>1. t = 0
        BY <1>1, <2>5, <3>2, <3>4, Sizes DEF Prompt, Stamped
      <4> DEFINE p == Place(bytes)
      <4>2. p \in Torn /\ p \in Nat
        BY <2>6, <3>4, Sizes DEF Torn
      <4>3. Seen' = Began' + p \/ Seen' = Began' + p - U32
        BY <2>3, <2>4, <2>6, <3>2, <3>4, <4>1, <4>2, Sizes
      <4>4. ms' % Byte < elapsed'
        BY <2>2, <2>5, <3>4
      <4> QED BY <3>1, <4>2, <4>3, <4>4 DEF Stamped
    <3> QED BY <3>3, <3>4
  <2>9. Checked'
    <3> SUFFICES ASSUME pc = "check" PROVE Checked'
      BY <1>1 DEF Checked
    <3>1. Gone' = IF Seen' >= Began THEN Seen' - Began ELSE Seen' - Began + U32
      BY <2>4 DEF Gone
    <3>2. CASE bytes = 0
      <4>1. Seen' = ms'
        BY <3>2, TickUnread
      <4>2. Gone' = elapsed' /\ (Seen' < Began => ms' < elapsed')
        BY <2>1, <2>2, <2>3, <3>1, <4>1, Sizes DEF Began
      <4>3. 0 \in Torn /\ elapsed' - since' + 0 <= Gone' /\ Gone' <= elapsed' + 0
        BY <1>1, <2>2, <4>2 DEF Torn
      <4> QED BY <2>4, <4>2, <4>3 DEF Checked
    <3>3. CASE bytes # 0
      <4>1. PICK t \in Torn : /\ elapsed - since + t <= Gone /\ Gone <= elapsed + t
                              /\ t # 0 => ms % Byte < since
        BY DEF Prompt, Checked
      <4>2. t \in Nat /\ elapsed + t < U32 - U24
        BY <2>1, <4>1, Sizes DEF Torn
      <4>3. Seen < Began => ms < elapsed
        BY DEF Prompt, Checked
      <4>4. Gone = IF Seen >= Began THEN Seen - Began ELSE Seen - Began + U32
        BY DEF Gone
      <4>5. CASE ~Carries
        <5>1. Seen' = Seen
          BY <2>7, <3>3, <4>5
        <5>2. elapsed' - since' + t <= Gone' /\ Gone' <= elapsed' + t
          BY <1>1, <2>2, <3>1, <4>1, <4>2, <4>4, <5>1
        <5>3. t # 0 => ms' % Byte < since'
          BY <1>1, <2>5, <4>1
        <5>4. Seen' < Began' => ms' < elapsed'
          BY <2>2, <2>3, <2>4, <4>3, <5>1
        <5> QED BY <5>2, <5>3, <5>4 DEF Checked
      <4>6. CASE Carries
        <5> DEFINE p == Place(bytes)
        <5>1. t = 0
          BY <1>1, <2>5, <4>1, <4>6, Sizes
        <5>2. p \in Torn /\ p \in Nat /\ p <= U24
          BY <2>6, <4>6, Sizes DEF Torn
        <5>3. Seen' = Seen + p \/ Seen' = Seen + p - U32
          BY <2>6, <4>6
        <5> HIDE DEF p
        <5>4. Gone' = Gone + p
          BY <2>3, <3>1, <4>1, <4>2, <4>4, <5>1, <5>2, <5>3, Sizes
        <5>5. elapsed' - since' + p <= Gone' /\ Gone' <= elapsed' + p
          BY <1>1, <2>2, <4>1, <5>1, <5>2, <5>4
        <5>6. ms' % Byte < since'
          BY <1>1, <2>5, <4>6
        <5>7. Seen' < Began' => ms' < elapsed'
          <6>1. CASE ms' = 0
            BY <2>2, <6>1
          <6>2. CASE ms' # 0
            <7>1. Seen' = Seen + p
              BY <4>6, <6>2, TickSeen DEF p
            <7> QED BY <2>2, <2>3, <2>4, <4>3, <5>2, <7>1
          <6> QED BY <6>1, <6>2
        <5> QED BY <5>2, <5>5, <5>6, <5>7 DEF Checked
      <4> QED BY <4>5, <4>6
    <3> QED BY <3>2, <3>3
  <2>10. Bounded'
    BY <1>1, <2>1, <2>2, Sizes DEF Prompt, Bounded, Waited
  <2>11. Started'
    <3> SUFFICES ASSUME Waited PROVE (Exact \/ Short \/ First \/ Second)'
      BY <1>1 DEF Started, Waited
    <3>1. Exact \/ Short \/ First \/ Second
      BY DEF Prompt, Started
    <3>2. ASSUME Exact \/ Short PROVE Exact' \/ Short'
      BY <1>1, <2>4, <3>2 DEF Exact, Short
    <3>3. ASSUME First PROVE First'
      <4>1. elapsed <= Rounds /\ elapsed' <= Rounds'
        BY <2>1, <2>2, <3>3 DEF First
      <4>2. ASSUME Ahead PROVE Ahead'
        BY <1>1, <2>4, <4>2 DEF Ahead
      <4>3. ASSUME TornStart PROVE TornStart'
        <5>1. ms % Byte < elapsed /\ ms' % Byte < elapsed'
          BY <2>2, <2>5, <4>3 DEF TornStart
        <5>2. ~Carries
          BY <1>1, <2>5, <4>1, <5>1, Sizes DEF Rounds
        <5>3. ASSUME pc = "check" PROVE Gone' <= elapsed'
          <6>1. CASE bytes = 0
            <7>1. Seen' = ms'
              BY <6>1, TickUnread
            <7> QED BY <2>1, <2>2, <2>3, <2>4, <7>1, Sizes DEF Gone, Began
          <6>2. CASE bytes # 0
            <7>1. Gone' = Gone
              BY <2>4, <2>7, <5>2, <6>2 DEF Gone
            <7> QED BY <2>2, <4>3, <5>3, <7>1 DEF TornStart
          <6> QED BY <6>1, <6>2
        <5>4. \E g \in 0 .. U16 : g # 1 /\ Began' = timeoutStart' + U16 * g - Byte
          BY <1>1, <2>4, <4>3 DEF TornStart
        <5> QED BY <1>1, <5>1, <5>3, <5>4 DEF TornStart
      <4> QED BY <3>3, <4>1, <4>2, <4>3 DEF First
    <3>4. ASSUME Second PROVE Second'
      <4>1. elapsed <= 4 * Pace - 1 /\ ms < elapsed
        BY <1>1, <3>4, Sizes DEF Second, Rounds
      <4>2. ms' = ms + 1 /\ ms' # 0 /\ ms' < U16
        BY <2>3, <4>1, Sizes
      <4>3. ASSUME pc = "check" PROVE Seen' <= ms' + Byte
        <5>1. CASE bytes = 0
          <6>1. Seen' = ms'
            BY <5>1, TickUnread
          <6> QED BY <2>3, <6>1, Sizes
        <5>2. CASE bytes # 0 /\ ~Carries
          BY <2>7, <3>4, <4>2, <4>3, <5>2, Sizes DEF Second
        <5>3. CASE Carries
          <6>1. Place(bytes) \in {Byte, U16, U24} /\ Place(bytes) <= ms' /\ Seen' = word + ms'
            BY <4>2, <5>3, TickSeen
          <6>2. Place(bytes) = Byte /\ word \in Nat /\ word < Byte
            BY <4>2, <6>1, Sizes DEF TypeOK, Reading
          <6> QED BY <2>3, <6>1, <6>2, Sizes
        <5> QED BY <5>1, <5>2, <5>3
      <4>4. elapsed' <= 2 * Pace + Rounds' /\ ms' < elapsed'
        BY <2>1, <2>2, <3>4, <4>1, <4>2, Sizes DEF Second
      <4>5. timeoutStart' = Began' - U32 + U16
        BY <1>1, <2>4, <3>4 DEF Second
      <4> QED BY <1>1, <4>3, <4>4, <4>5 DEF Second
    <3> QED BY <3>1, <3>2, <3>3, <3>4
  <2> QED BY <1>1, <2>8, <2>9, <2>10, <2>11 DEF Prompt
<1> QED BY <1>2, <1>3

LEMMA ReadPrompt ==
    ASSUME TypeOK, Reading, Prompt, ReadByte
    PROVE  Prompt'
<1>1. /\ Seen' = Seen /\ ms' = ms /\ pc' = pc /\ since' = since /\ late' = late
      /\ timeoutStart' = timeoutStart /\ bytes' = bytes + 1 /\ bytes \in 0 .. 3
      /\ pc \in {"stamp", "check"} /\ i2cTimeout' = i2cTimeout
  BY ReadSeen DEF ReadByte, fields, history, TypeOK
<1>2. CASE pc = "stamp" /\ bytes = 0
  <2>1. elapsed' = 0 /\ Seen = ms
    BY <1>2, SeenAt DEF ReadByte
  <2>2. Began' = ms
    BY <1>1, <2>1, Ranges DEF Began
  <2>3. 0 \in Torn /\ Seen' = Began' + 0
    BY <1>1, <2>1, <2>2, Ranges DEF Torn
  <2>4. elapsed' <= since'
    BY <1>1, <2>1, Ranges
  <2>5. Stamped'
    BY <2>3, <2>4 DEF Stamped
  <2>6. Checked' /\ Bounded' /\ Started'
    BY <1>1, <1>2 DEF Checked, Bounded, Started, Waited
  <2> QED BY <1>1, <2>5, <2>6 DEF Prompt
<1>3. CASE ~(pc = "stamp" /\ bytes = 0)
  <2>1. elapsed' = elapsed
    BY <1>3 DEF ReadByte
  <2>2. Began' = Began /\ Gone' = Gone /\ Rounds' = Rounds
    BY <1>1, <2>1 DEF Began, Gone, Rounds
  <2>3. Stamped'
    <3>1. Stamping' => Stamping
      BY <1>1, <1>3 DEF Stamping
    <3> QED BY <1>1, <2>1, <2>2, <3>1 DEF Prompt, Stamped
  <2>4. Checked'
    BY <1>1, <2>1, <2>2 DEF Prompt, Checked
  <2>5. Bounded'
    BY <1>1, <2>1, <2>2 DEF Prompt, Bounded, Waited
  <2>6. Started'
    BY <1>1, <2>1, <2>2
       DEF Prompt, Started, Waited, Exact, Short, First, Ahead, TornStart, Second
  <2> QED BY <1>1, <2>3, <2>4, <2>5, <2>6 DEF Prompt
<1> QED BY <1>2, <1>3

LEMMA StampPrompt ==
    ASSUME TypeOK, Reading, Prompt, StartTimeout
    PROVE  Prompt'
<1> USE Ranges
<1>1. /\ pc = "stamp" /\ bytes = 4 /\ pc' = "poll" /\ timeoutStart' = word % U16
      /\ ms' = ms /\ elapsed' = elapsed /\ since' = since /\ late' = late
      /\ word = Seen
  BY SeenAt DEF StartTimeout, history
<1>2. PICK t \in Torn : /\ Seen = Began + t \/ Seen = Began + t - U32
                        /\ t # 0 => ms % Byte < elapsed
  BY <1>1 DEF Prompt, Stamped, Stamping
<1>3. elapsed <= since
  BY <1>1 DEF Prompt, Stamped, Stamping
<1>4. Began' = Began /\ Rounds' = since
  BY <1>1 DEF Began, Rounds
<1> DEFINE h == word \div U16
           a == timeoutStart'
<1>5. h \in Nat /\ a \in Nat /\ a < U16 /\ word = U16 * h + a
  <2> DEFINE p == U16
  <2>1. p \in Nat \ {0} /\ word \in Nat
    BY <1>1, Sizes
  <2> HIDE DEF p
  <2>2. word \div p \in Nat /\ word % p \in 0 .. p - 1 /\ word = p * (word \div p) + (word % p)
    BY <2>1, DivIs, ModIs
  <2> QED BY <1>1, <2>1, <2>2, Sizes DEF p
<1> HIDE DEF h, a
<1>6. h <= U16 - 1
  <2>1. SUFFICES ASSUME U16 <= h PROVE FALSE
    BY <1>5, Sizes
  <2>2. U16 * U16 <= U16 * h
    BY <1>5, <2>1, Times, Sizes
  <2> QED BY <1>1, <1>5, <2>2, Products, Sizes
<1>7. ASSUME NEW k \in Int, Began = a + U16 * k PROVE k \in 0 .. U16 - 1
  <2>1. k >= 0
    <3>1. SUFFICES ASSUME k <= -1 PROVE FALSE
      BY <1>7
    <3>2. U16 * k <= -U16
      <4>1. U16 * 1 <= U16 * (-k) /\ -k \in Nat
        BY <3>1, Times, Sizes
      <4>2. U16 * (-k) = -(U16 * k) /\ U16 * 1 = U16 /\ U16 * k \in Int
        BY Sizes
      <4> QED BY <4>1, <4>2, Sizes
    <3> QED BY <1>5, <1>7, <3>2, Sizes
  <2>2. k <= U16 - 1
    <3>1. SUFFICES ASSUME U16 <= k PROVE FALSE
      BY <1>7, Sizes
    <3>2. U16 * U16 <= U16 * k
      BY <2>1, <3>1, Times, Sizes
    <3> QED BY <1>5, <1>7, <3>2, Products, Sizes
  <2> QED BY <1>7, <2>1, <2>2
<1>8. ASSUME t # Byte PROVE Exact' \/ Ahead'
  <2>1. PICK m \in {0, 1, Byte} : t = U16 * m
    BY <1>8, Products, Sizes DEF Torn
  <2>2. m \in Int /\ h \in Int /\ U16 \in Int /\ U32 = U16 * U16
    BY <1>5, <2>1, Sizes, Products
  <2>3. U16 * (h - m) = U16 * h - U16 * m /\ U16 * (h - m + U16) = U16 * h - U16 * m + U16 * U16
    BY <2>2
  <2>4. U16 * h \in Int /\ U16 * m \in Int
    BY <2>2
  <2>5. Began = a + U16 * (h - m) \/ Began = a + U16 * (h - m + U16)
    BY <1>1, <1>2, <1>5, <2>1, <2>2, <2>3, <2>4
  <2>6. PICK k \in Int : Began = a + U16 * k
    <3> DEFINE i == h - m
               j == h - m + U16
    <3>1. i \in Int /\ j \in Int /\ (Began = a + U16 * i \/ Began = a + U16 * j)
      BY <2>2, <2>5
    <3> HIDE DEF i, j
    <3> QED BY <3>1
  <2>7. k \in 0 .. U16 - 1
    BY <1>7, <2>6
  <2>8. CASE k = 0
    <3>1. a = Began'
      BY <1>4, <1>5, <2>6, <2>8, Sizes
    <3> QED BY <3>1 DEF Exact, a
  <2>9. CASE k # 0
    <3>1. k \in 1 .. U16 - 1 /\ Began' = a + U16 * k
      BY <1>4, <2>6, <2>7, <2>9, Sizes
    <3> QED BY <3>1 DEF Ahead, a
  <2> QED BY <2>8, <2>9
<1>9. ASSUME t = Byte PROVE Short' \/ TornStart'
  <2>1. ms' % Byte < elapsed'
    BY <1>1, <1>2, <1>9, Sizes
  <2>2. PICK g \in 0 .. U16 : Began = a + U16 * g - Byte
    <3> DEFINE low == U16 * h
    <3>1. low \in Nat /\ Seen = low + a
      BY <1>1, <1>5, Sizes
    <3>2. 1 <= h => U16 <= low
      <4>1. 1 <= h => U16 * 1 <= U16 * h
        BY <1>5, Times, Sizes
      <4> QED BY <1>5, <4>1, Sizes
    <3> HIDE DEF low
    <3>3. CASE Seen = Began + t
      <4>1. Began = a + low - Byte
        BY <1>5, <1>9, <3>1, <3>3, Sizes
      <4>2. h \in 0 .. U16
        BY <1>5, <1>6, Sizes
      <4> QED BY <4>1, <4>2 DEF low
    <3>4. CASE Seen = Began + t - U32
      <4>1. low < U16
        BY <1>5, <1>9, <3>1, <3>4, Sizes
      <4>2. h = 0
        BY <1>5, <3>1, <3>2, <4>1, Sizes
      <4>3. low = 0
        BY <4>2, Sizes DEF low
      <4>4. Began = a + U32 - Byte
        BY <1>5, <1>9, <3>1, <3>4, <4>3, Sizes
      <4>5. Began = a + U16 * U16 - Byte /\ U16 \in 0 .. U16
        BY <4>4, Products, Sizes
      <4> QED BY <4>5
    <3> QED BY <1>2, <3>3, <3>4
  <2>3. CASE g = 1
    <3>1. a = Began' - U16 + Byte
      BY <1>4, <1>5, <2>2, <2>3, Sizes
    <3> QED BY <3>1 DEF Short, a
  <2>4. CASE g # 1
    <3>1. Began' = a + U16 * g - Byte
      BY <1>4, <2>2
    <3> QED BY <1>1, <2>1, <2>4, <3>1 DEF TornStart, a
  <2> QED BY <2>3, <2>4
<1>10. elapsed' <= Rounds' /\ Rounds' \in Nat
  BY <1>1, <1>3, <1>4
<1>11. Exact' \/ Short' \/ First'
  BY <1>8, <1>9, <1>10 DEF First
<1>12. Bounded'
  BY <1>1, <1>10, Sizes DEF Bounded
<1> QED BY <1>1, <1>11, <1>12 DEF Prompt, Stamped, Stamping, Checked, Started

\* Without a timeout nothing is claimed of the wait.
LEMMA EndlessPrompt ==
    ASSUME Prompt, NotAnswered, ~(i2cTimeout > 0)
    PROVE  Prompt'
<1>1. pc' = "poll" /\ late' = late /\ i2cTimeout' = i2cTimeout
  BY DEF NotAnswered, fields, history
<1>2. i2cTimeout # Timeout
  BY Sizes
<1> QED BY <1>1, <1>2
        DEF Prompt, Stamped, Stamping, Checked, Bounded, Started, Waited

LEMMA RoundPrompt ==
    ASSUME TypeOK, Reading, Prompt, NotAnswered, i2cTimeout > 0
    PROVE  Prompt'
<1> USE Ranges
<1>1. /\ pc = "poll" /\ pc' = "check" /\ bytes = 0 /\ bytes' = bytes /\ since' = 0
      /\ ms' = ms /\ word' = word /\ elapsed' = elapsed /\ timeoutStart' = timeoutStart
      /\ late' = late /\ i2cTimeout' = i2cTimeout /\ i2cTimeout = Timeout
  BY Sizes DEF NotAnswered, fields, history, Reading, TypeOK
<1>2. Began' = Began /\ Seen' = ms /\ Rounds = since /\ Rounds' = Pace
  BY <1>1, SeenAt, Sizes DEF Began, Seen, Rounds
<1>3. elapsed <= U16 + 3 * Pace
  BY <1>1
<1>4. Gone' = elapsed /\ (Seen' < Began' => ms < elapsed)
  BY <1>2, <1>3, Sizes DEF Gone, Began
<1>5. Checked'
  <2>1. 0 \in Torn /\ elapsed' - since' + 0 <= Gone' /\ Gone' <= elapsed' + 0
    BY <1>1, <1>4 DEF Torn
  <2> QED BY <1>1, <1>4, <2>1 DEF Checked
<1>6. Bounded'
  BY <1>1, <1>2, Sizes DEF Prompt, Bounded, Waited
<1>7. Exact \/ Short \/ First \/ Second
  BY <1>1 DEF Prompt, Started, Waited
<1>8. Exact => Exact'
  BY <1>1, <1>2 DEF Exact
<1>9. Short => Short'
  BY <1>1, <1>2 DEF Short
<1>10. First => First'
  <2>1. Rounds <= Rounds'
    BY <1>2, Sizes
  <2>2. Ahead => Ahead'
    BY <1>1, <1>2 DEF Ahead
  <2>3. TornStart => TornStart'
    BY <1>1, <1>2, <1>4 DEF TornStart
  <2>4. elapsed <= Rounds => elapsed' <= Rounds'
    BY <1>1, <1>2, <2>1, Sizes
  <2> QED BY <2>2, <2>3, <2>4 DEF First
<1>11. Second => Second'
  BY <1>1, <1>2, Sizes DEF Second
<1> QED BY <1>1, <1>5, <1>6, <1>7, <1>8, <1>9, <1>10, <1>11
        DEF Prompt, Stamped, Stamping, Started

(***************************************************************************)
(* A check that does not give up has seen all the time there was before    *)
(* it, and leaves no start of the wait but three.                          *)
(***************************************************************************)
LEMMA GoesOnInTime ==
    ASSUME TypeOK, Reading, Prompt, CheckTimeout, ~Expired
    PROVE  /\ elapsed - since <= Timeout
           /\ \/ Exact \/ Short
              \/ elapsed <= 2 * Pace /\ timeoutStart = Began - U32 + U16 /\ ms < elapsed
<1> USE Ranges
<1> DEFINE d == IF Seen < timeoutStart THEN Seen - timeoutStart + U32 ELSE Seen - timeoutStart
<1>1. /\ pc = "check" /\ bytes = 4 /\ Seen = word /\ i2cTimeout = Timeout
      /\ Rounds = since + Pace
  BY SeenAt DEF CheckTimeout, Reading, Rounds
<1>2. d <= Timeout /\ d \in Nat
  <2>1. d = (word - timeoutStart) % U32
    BY <1>1, Subtracted
  <2>2. d \in Nat
    BY Sizes
  <2> HIDE DEF d
  <2> QED BY <1>1, <2>1, <2>2, Sizes DEF Expired
<1>3. PICK t \in Torn : elapsed - since + t <= Gone /\ Gone <= elapsed + t
  BY <1>1 DEF Prompt, Checked
<1>4. Seen < Began => ms < elapsed
  BY <1>1 DEF Prompt, Checked
<1>5. t \in {0, Byte, U16, U24} /\ t \in Nat
  BY Sizes DEF Torn
<1>6. CASE Exact
  BY <1>2, <1>3, <1>5, <1>6, Sizes DEF Exact, Gone
<1>7. CASE Short
  BY <1>2, <1>3, <1>5, <1>7, Sizes DEF Short, Gone
<1>8. CASE First /\ Ahead
  <2>1. elapsed <= 2 * Pace
    BY <1>1, <1>8, Sizes DEF First
  <2>2. PICK h \in 1 .. U16 - 1 : Began = timeoutStart + U16 * h
    BY <1>8 DEF Ahead
  <2>3. U16 * h \in Nat /\ U16 <= U16 * h
    <3>1. U16 * 1 <= U16 * h
      BY <2>2, Times, Sizes
    <3> QED BY <2>2, <3>1, Sizes
  <2>4. Seen < Began
    BY <1>2, <2>2, <2>3, Sizes
  <2>5. ms < elapsed /\ Began > U32 - Byte
    BY <1>4, <2>1, <2>4, Sizes DEF Began
  <2>6. h = U16 - 1
    <3>1. SUFFICES ASSUME h <= U16 - 2 PROVE FALSE
      BY <2>2, Sizes
    <3>2. U16 * h <= U16 * (U16 - 2) /\ U16 * (U16 - 2) = U32 - 2 * U16
      <4>1. U16 - 2 \in Nat
        BY Sizes
      <4>2. U16 * (U16 - 2) = U16 * U16 - 2 * U16
        BY Sizes
      <4> QED BY <3>1, <4>1, <4>2, Times, Products, Sizes
    <3> QED BY <2>2, <2>3, <2>5, <3>2, Sizes
  <2>7. timeoutStart = Began - U32 + U16
    <3>1. U16 * h = U16 * U16 - U16
      BY <2>6, Sizes
    <3> QED BY <2>2, <3>1, Products, Sizes
  <2>8. elapsed - since <= Timeout
    BY <1>2, <1>3, <1>5, <2>1, <2>4, <2>7, Sizes DEF Gone
  <2> QED BY <1>8, <2>1, <2>5, <2>7, <2>8
<1>9. ~(First /\ TornStart)
  <2> SUFFICES ASSUME First, TornStart PROVE FALSE
    OBVIOUS
  <2>1. Gone <= elapsed /\ elapsed <= 2 * Pace
    BY <1>1, Sizes DEF First, TornStart
  <2>2. PICK g \in 0 .. U16 : g # 1 /\ Began = timeoutStart + U16 * g - Byte
    BY DEF TornStart
  <2>3. U16 * g <= U32 /\ U16 * g \in Nat
    <3>1. U16 * g <= U16 * U16
      BY <2>2, Times, Sizes
    <3> QED BY <2>2, <3>1, Products, Sizes
  <2>4. U16 * g = 0 \/ U16 * g >= 2 * U16
    <3>1. g >= 2 => U16 * 2 <= U16 * g
      BY <2>2, Times, Sizes
    <3> QED BY <2>2, <2>3, <3>1, Sizes
  <2> DEFINE far == U16 * g
  <2>5. far \in Nat /\ far <= U32 /\ (far = 0 \/ far >= 2 * U16)
        /\ Began = timeoutStart + far - Byte
    BY <2>2, <2>3, <2>4
  <2> HIDE DEF far
  <2> QED BY <1>2, <2>1, <2>5, Sizes DEF Gone
<1>10. ~Second
  BY <1>1, <1>2, Sizes DEF Second, Began
<1>11. Exact \/ Short \/ First \/ Second
  BY <1>1 DEF Prompt, Started, Waited
<1> QED BY <1>6, <1>7, <1>8, <1>9, <1>10, <1>11 DEF First

LEMMA CheckPrompt ==
    ASSUME TypeOK, Reading, Prompt, CheckTimeout
    PROVE  Prompt'
<1> USE Ranges
<1>1. /\ pc = "check" /\ since' = 0 /\ ms' = ms /\ elapsed' = elapsed
      /\ timeoutStart' = timeoutStart
  BY DEF CheckTimeout
<1>2. Began' = Began
  BY <1>1 DEF Began
<1>3. ~Expired => elapsed - since <= Timeout
  BY GoesOnInTime
<1>4. ~late'
  <2> DEFINE overdue == elapsed - since > Timeout
  <2>1. late' = (late \/ (~Expired /\ overdue))
    BY DEF CheckTimeout
  <2>2. ~Expired => ~overdue
    BY <1>3, Sizes
  <2> HIDE DEF overdue
  <2> QED BY <2>1, <2>2 DEF Prompt
<1>5. CASE Expired
  <2>1. pc' = "idle"
    BY <1>5 DEF CheckTimeout, GivesUp
  <2> QED BY <1>4, <2>1 DEF Prompt, Stamped, Stamping, Checked, Bounded, Started, Waited
<1>6. CASE ~Expired
  <2>1. pc' = "poll"
    BY <1>6 DEF CheckTimeout
  <2>2. Rounds' = 0
    BY <1>1, <2>1 DEF Rounds
  <2>3. Bounded'
    BY <1>1, <1>3, <1>6, <2>2, Sizes DEF Bounded
  <2>4. \/ Exact \/ Short
        \/ elapsed <= 2 * Pace /\ timeoutStart = Began - U32 + U16 /\ ms < elapsed
    BY <1>6, GoesOnInTime
  <2>5. Exact' \/ Short' \/ Second'
    BY <1>1, <1>2, <2>1, <2>2, <2>4, Sizes DEF Exact, Short, Second
  <2> QED BY <1>4, <2>1, <2>3, <2>5 DEF Prompt, Stamped, Stamping, Checked, Started
<1> QED BY <1>5, <1>6

LEMMA InitPrompt == Init => Prompt
BY DEF Init, Prompt, Stamped, Stamping, Checked, Bounded, Started, Waited

LEMMA NextPrompt == TypeOK /\ Reading /\ Prompt /\ [Next]_vars => Prompt'
<1> SUFFICES ASSUME TypeOK, Reading, Prompt, [Next]_vars PROVE Prompt'
  OBVIOUS
<1> USE DEF Stamped, Stamping, Checked, Bounded, Started, Waited, Prompt
<1>1. CASE Tick
  BY <1>1, TickPrompt
<1>2. CASE pc' \in {"new", "idle"} /\ late' = late
  BY <1>2
<1>3. CASE pc' = "stamp" /\ bytes' = 0 /\ late' = late
  BY <1>3
<1>4. CASE Waiting
  BY <1>4, ReadPrompt, StampPrompt, EndlessPrompt, RoundPrompt, CheckPrompt DEF Waiting
<1>5. CASE SensorInit
  BY <1>2, <1>5 DEF SensorInit, history
<1>6. CASE AppSets
  BY <1>2, <1>6 DEF AppSets, history
<1>7. CASE \E o \in {"start", "single"} : Call(o)
  BY <1>3, <1>7 DEF Call, StartWait, history
<1>8. CASE Answered
  BY <1>2, <1>3, <1>8 DEF Answered, StartWait, history
<1>9. CASE TimeoutOccurred
  BY <1>2, <1>9 DEF TimeoutOccurred
<1>10. CASE UNCHANGED vars
  BY <1>10 DEF vars, fields, history, excuses, Began, Gone, Seen, Rounds,
               Exact, Short, First, Ahead, TornStart, Second
<1> QED BY <1>1, <1>4, <1>5, <1>6, <1>7, <1>8, <1>9, <1>10 DEF Next

-----------------------------------------------------------------------------
(* The theorems *)

(***************************************************************************)
(* Each variable keeps to its range: a count read a byte at a time, torn   *)
(* or not, is one of 32 bits (vl53l0x.c:112-120).                          *)
(***************************************************************************)
THEOREM TypeCorrect == Spec => []TypeOK
BY InitTyped, NextTyped, PTL DEF Spec

(***************************************************************************)
(* A wait is given up early only when the robot has run for 65 seconds or  *)
(* a reading of the count was torn (vl53l0x.c:112-120), whatever the       *)
(* timeout (vl53l0x.h:53).                                                 *)
(***************************************************************************)
THEOREM EarlyIsExcused == Spec => []NotEarly
BY InitTyped, NextTyped, InitTimely, NextTimely, PTL DEF Spec

(***************************************************************************)
(* A wait is given up at the first check after the timeout, although the   *)
(* count wraps at 16 and at 32 bits and its bytes are read while it is     *)
(* counted on (vl53l0x.c:112-120), while there are fewer than 128          *)
(* interrupts in a round of the loop.                                      *)
(***************************************************************************)
THEOREM NeverLate == Spec => []NotLate
<1>1. Prompt => NotLate
  BY DEF Prompt, NotLate
<1> QED BY <1>1, InitTyped, NextTyped, InitPrompt, NextPrompt, PTL DEF Spec
=============================================================================
