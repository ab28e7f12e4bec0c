----------------------------- MODULE BondsProof -----------------------------
(***************************************************************************)
(* Bonds, for any number of messages a bond takes, any size of the queue,  *)
(* any number of bonds, losses of power and failures of the radio.         *)
(***************************************************************************)
EXTENDS Bonds, SequenceTheorems, TLAPS

-----------------------------------------------------------------------------
(* Arithmetic *)

LEMMA AtLeast ==
    ASSUME NEW m \in Nat \ {0}, NEW n \in Nat \ {0}
    PROVE  m <= m * n
OBVIOUS

LEMMA Sizes ==
    /\ Msgs \in Nat \ {0} /\ QueueSize \in Nat \ {0} /\ Byte \in Nat /\ Opcode \in Nat
    /\ Valid \in Nat /\ Erased \in Nat /\ Erased = Byte - 1
    /\ Valid + Msgs < Erased /\ 4 <= Erased
    /\ Top \in Nat /\ Erased + 3 * Msgs <= Top /\ 7 <= Top
    /\ MaxBonds \in Nat \ {0} /\ MaxErrors \in Nat /\ Garbled = MaxBonds + 1
<1>1. /\ Msgs \in Nat \ {0} /\ QueueSize \in Nat \ {0} /\ Byte \in Nat /\ Opcode \in Nat
      /\ Erased = Byte - 1 /\ Valid = Byte \div 2 /\ Valid + Msgs < Erased
      /\ Top \in Nat /\ MaxBonds \in Nat \ {0} /\ MaxErrors \in Nat /\ Garbled = MaxBonds + 1
  BY BondsAssumption DEF Erased, Valid, Garbled
<1>2. Valid \in Nat /\ Erased \in Nat /\ 4 <= Erased
  BY <1>1
<1>3. Erased + 3 * Msgs <= Top
  <2> DEFINE m == 3 * Msgs
             n == MaxBonds + MaxErrors
  <2>1. Erased + m * n <= Top
    BY BondsAssumption
  <2>2. m \in Nat \ {0} /\ n \in Nat \ {0}
    BY <1>1
  <2>3. m * n \in Nat
    BY <2>2
  <2> HIDE DEF m, n
  <2>4. m <= m * n
    BY <2>2, AtLeast
  <2>5. Erased + m <= Top
    BY <1>1, <1>2, <2>1, <2>2, <2>3, <2>4
  <2> QED BY <2>5 DEF m
<1> QED BY <1>1, <1>2, <1>3

\* A piece tells whose it is.
LEMMA Quotient ==
    ASSUME NEW b \in Nat \ {0}, NEW q \in Nat, NEW r \in 0 .. b - 1
    PROVE  (b * q + r) \div b = q
OBVIOUS

LEMMA OwnerOf ==
    ASSUME NEW p \in Nat, NEW n \in 1 .. Msgs
    PROVE  Owner(Piece(p, n)) = p /\ Piece(p, n) \in Nat
<1>1. Msgs \in Nat \ {0} /\ n - 1 \in 0 .. Msgs - 1 /\ n \in Nat
  BY Sizes
<1>2. Msgs * p \in Nat
  BY <1>1
<1>3. Msgs * p + n - 1 = Msgs * p + (n - 1)
  BY <1>1, <1>2
<1> QED BY <1>1, <1>2, <1>3, Quotient DEF Owner, Piece

-----------------------------------------------------------------------------
(* Queues *)

LEMMA AppendAt ==
    ASSUME NEW T, NEW q \in Seq(T), NEW e \in T
    PROVE  /\ Append(q, e) \in Seq(T) /\ Len(Append(q, e)) = Len(q) + 1
           /\ Append(q, e) # << >> /\ Len(q) \in Nat
           /\ \A i \in 1 .. Len(q) : Append(q, e)[i] = q[i]
           /\ Append(q, e)[Len(q) + 1] = e
           /\ q = << >> => Head(Append(q, e)) = e /\ Tail(Append(q, e)) = << >>
           /\ q # << >> => /\ Head(Append(q, e)) = Head(q)
                           /\ Tail(Append(q, e)) = Append(Tail(q), e)
OBVIOUS

LEMMA TailAt ==
    ASSUME NEW T, NEW q \in Seq(T), q # << >>
    PROVE  /\ Tail(q) \in Seq(T) /\ Len(Tail(q)) = Len(q) - 1
           /\ Len(q) \in Nat \ {0} /\ Head(q) = q[1] /\ Head(q) \in T
           /\ \A i \in 1 .. Len(q) - 1 : Tail(q)[i] = q[i + 1]
OBVIOUS

LEMMA TwoMore ==
    ASSUME NEW T, NEW q \in Seq(T), NEW a \in T, NEW b \in T
    PROVE  q \o <<a, b>> = Append(Append(q, a), b)
OBVIOUS

-----------------------------------------------------------------------------
(* Events and commands *)

SimpleTypes == {"bond", "connect", "version", "disconnect"}
HwTypes == {"startedHw", "hwError"}

SimpleCommands == {c \in Commands : c.type \in SimpleTypes}
HwEvents == {e \in Events : e.type \in HwTypes}
NoStart == {e \in Events : e.type # "started"}

\* A response that bond_data_read_store takes for data.
Good(e) == e.type = "rsp" /\ e.status \in {"continue", "complete"}

\* What the sketch may hear while there is a link, or its end is on its way.
LinkEvents == {e \in Events : ~Good(e) /\ e.type \notin {"started", "timeout"}}

LEMMA CommandIs ==
    /\ \A t \in SimpleTypes : Command(t) \in SimpleCommands /\ Command(t).type = t
    /\ Command("read") \in Commands /\ Command("read").type = "read"
    /\ SimpleCommands \subseteq Commands
BY DEF Command, Commands, SimpleTypes, SimpleCommands

LEMMA PlainIs ==
    \A t \in Types : Plain(t) \in Events /\ Plain(t).type = t
BY DEF Plain, Event, Events

LEMMA SendIs ==
    ASSUME TypeOK, NEW c \in Commands, Send(c)
    PROVE  /\ tx' \in Seq(Commands) /\ Len(tx') <= QueueSize
           /\ tx' = tx \/ tx' = Append(tx, c)
           /\ tx = << >> => tx' = <<c>>
           /\ tx # << >> => tx' # << >> /\ Head(tx') = Head(tx)
<1>1. /\ tx \in Seq(Commands) /\ Len(tx) <= QueueSize /\ QueueSize \in Nat \ {0}
      /\ tx' = IF Len(tx) < QueueSize THEN Append(tx, c) ELSE tx
  BY Sizes DEF TypeOK, Send
<1>2. /\ Append(tx, c) \in Seq(Commands) /\ Len(Append(tx, c)) = Len(tx) + 1 /\ Len(tx) \in Nat
      /\ Append(tx, c) # << >> /\ tx # << >> => Head(Append(tx, c)) = Head(tx)
  BY <1>1, AppendAt
<1>3. tx = << >> => Len(tx) = 0 /\ Append(tx, c) = <<c>>
  BY <1>1
<1> QED BY <1>1, <1>2, <1>3

LEMMA AdvertiseIs ==
    ASSUME TypeOK, NEW n \in Nat, Advertise(n)
    PROVE  /\ tx' \in Seq(Commands) /\ Len(tx') <= QueueSize
           /\ pc' \in {"loop", "pin"}
           /\ \/ tx' = tx
              \/ tx' = Append(tx, Command("connect"))
              \/ n < BONDS_MAX /\ tx' = Append(tx, Command("bond"))
<1>1. pc' \in {"loop", "pin"}
  BY DEF Advertise, Done
<1>2. Command("bond") \in Commands /\ Command("connect") \in Commands
  BY CommandIs DEF SimpleTypes
<1>3. CASE UNCHANGED tx
  BY <1>1, <1>3 DEF TypeOK
<1>4. CASE n < BONDS_MAX /\ Send(Command("bond"))
  BY <1>1, <1>2, <1>4, SendIs
<1>5. CASE Send(Command("connect"))
  BY <1>1, <1>2, <1>5, SendIs
<1> QED BY <1>3, <1>4, <1>5 DEF Advertise

-----------------------------------------------------------------------------
(* The invariant *)

\* After power was lost, until the event that says so is handled.
Booting == rx # << >> /\ Head(rx).type = "started"

BootOK ==
    /\ rx # << >> => Tail(rx) \in Seq(NoStart)
    /\ pc \in {"clear", "halt"} => Booting
    /\ Booting => /\ pc \in {"loop", "clear", "halt"} /\ number = 0 /\ offset = 4
                  /\ ~bonded /\ mode = "standby" /\ tx = << >>
                  /\ Tail(rx) \in Seq(HwEvents)
    /\ pc = "clear" => at \in 0 .. 3 /\ \A a \in 0 .. at - 1 : eeprom[a] = Erased
    /\ pc = "halt" => \A a \in 0 .. 3 : eeprom[a] = Erased

(***************************************************************************)
(* A link, from when it is made until its end is handled: nothing is under *)
(* way to or from the radio that could be taken for bonding data, and no   *)
(* bond is being restored, but one that waits for an answer in vain.       *)
(***************************************************************************)
Ends(i) == rx[i].type = "disconnected"
Ending == \E i \in 1 .. Len(rx) : Ends(i)
InLink == mode \in {"bonding", "linked"} \/ Ending

LinkOK ==
    /\ mode # "standby" => sent = 0
    /\ Ending => mode \notin {"bonding", "linked"}
    /\ \A i, j \in 1 .. Len(rx) : Ends(i) /\ Ends(j) => i = j
    /\ InLink => /\ pc \in {"loop", "pin", "restoreWait"}
                 /\ sent = 0
                 /\ tx \in Seq(SimpleCommands) /\ rx \in Seq(LinkEvents)
                 /\ \A i \in 1 .. Len(rx) :
                       rx[i].type \in HwTypes => \E j \in 1 .. i - 1 : Ends(j)

(***************************************************************************)
(* The radio stands by after what it says last, if it is this.  So none is *)
(* connected to while the next message is about to be written back to it.  *)
(***************************************************************************)
Standing(e) == e.type \in HwTypes \cup {"started", "timeout"} \/ Good(e)

StandOK ==
    /\ rx # << >> /\ Standing(rx[Len(rx)]) => mode = "standby"
    /\ pc = "restore" /\ rx = << >> /\ tx = << >> => mode = "standby"

(***************************************************************************)
(* The reading of a bond.  The next thing to come is the next message of   *)
(* it, or something that ends the reading.                                 *)
(***************************************************************************)
Reading == {"readWait", "cells", "commit", "next"}

Message(p, n) == Event("rsp", IF n = Msgs THEN "complete" ELSE "continue", Piece(p, n))

\* The radio was not disturbed after it read out n messages of p.
Calm(p, n) == held = p /\ sent = n % Msgs

Asked(p) ==
    /\ rx = << >> /\ tx = <<Command("read")>>
    /\ mode = "standby" /\ held = p /\ sent = left - 1

Answered(p) ==
    /\ rx # << >> /\ Head(rx) = Message(p, left) /\ Tail(rx) \in Seq(HwEvents)
    /\ tx = << >> /\ mode = "standby"
    /\ Tail(rx) = << >> => Calm(p, left)

Foul ==
    \/ rx # << >> /\ ~Good(Head(rx))
    \/ /\ rx = << >> /\ tx # << >>
       /\ Head(tx).type \in SimpleTypes \/ (Head(tx).type = "read" /\ mode # "standby")

Took(p) ==
    /\ msg = Message(p, left)
    /\ tx = << >> /\ mode = "standby" /\ rx \in Seq(HwEvents)
    /\ rx = << >> => Calm(p, left)

\* No clearing has begun or was cut short, no offset was cut to a byte.
Uncut == tidy /\ ~(pc = "clear" /\ at > 0)

\* In e, from cell s, the first n messages of p, but for the opcodes.
Holds(e, s, p, n) ==
    \A j \in 1 .. n : e[s + 3 * (j - 1)] = 2 /\ e[s + 3 * (j - 1) + 2] = Piece(p, j)

Start == eeprom[2 * index + 1]

ReadOK ==
    /\ pc \in Reading => ~bonded /\ index = number
    /\ pc = "readWait" =>
          /\ left \in 1 .. Msgs
          /\ Foul \/ \E p \in 0 .. Garbled : /\ Asked(p) \/ Answered(p)
                                             /\ Uncut => Holds(eeprom, Start, p, left - 1)
    /\ pc = "cells" =>
          /\ left \in 1 .. Msgs /\ at \in 1 .. 3
          /\ \E p \in 0 .. Garbled :
                /\ Took(p)
                /\ Uncut => /\ Holds(eeprom, Start, p, left - 1)
                            /\ at > 1 => eeprom[Start + 3 * (left - 1)] = 2
    /\ pc = "commit" =>
          /\ left = Msgs
          /\ \E p \in 0 .. Garbled : Took(p) /\ (Uncut => Holds(eeprom, Start, p, Msgs))
    /\ pc = "next" => tx = << >> /\ mode = "standby" /\ rx \in Seq(HwEvents)

(***************************************************************************)
(* The header.  Bonds are counted, follow one another, and with two of     *)
(* them no further bond can be on its way.                                 *)
(***************************************************************************)
Bondless == {e \in Events : e.type # "bond"}
NoBonding ==
    /\ ~bonded /\ mode \notin {"bond", "bonding"}
    /\ tx \in Seq({c \in Commands : c.type # "bond"}) /\ rx \in Seq(Bondless)

End0 == eeprom[1] + 3 * Msgs

\* The first bond begins at cell 4, or far enough behind the header.
Clear4(s) == s = 4 \/ s >= 7

Written == IF pc = "cells" THEN at - 1 ELSE IF pc = "commit" THEN 3 ELSE 0

CountOK ==
    /\ Exists(1) => Exists(0) /\ NoBonding
    /\ ~Booting /\ pc = "next" =>
          /\ index \in 0 .. 1 /\ Exists(index) /\ (index = 0 => ~Exists(1))
          /\ offset = Start + 3 * Msgs
    /\ ~Booting /\ pc # "next" =>
          /\ number \in 0 .. 2 /\ (Exists(0) <=> number > 0) /\ (Exists(1) <=> number = 2)
          /\ number = 0 /\ pc # "cells" => Clear4(offset)
          /\ number = 1 => offset >= End0
    /\ pc \in {"readWait", "cells", "commit"} =>
          /\ index \in 0 .. 1
          /\ index = 0 => Clear4(Start) /\ Start + 3 * Msgs <= Erased
          /\ index = 1 => End0 <= Start
          /\ Start <= Erased
          /\ offset = Start + 3 * (left - 1) + Written

(***************************************************************************)
(* The bonds.                                                              *)
(***************************************************************************)
Whole(k) == eeprom[2 * k] = Valid + Msgs /\ Holds(eeprom, eeprom[2 * k + 1], committed[k], Msgs)

BondsOK ==
    /\ Exists(0) => Whole(0) /\ Clear4(eeprom[1]) /\ End0 <= eeprom[3] /\ eeprom[3] <= Erased
    /\ ~Exists(0) => eeprom[3] = Erased
    /\ Exists(1) => Whole(1)

Inv == TypeOK /\ BootOK /\ LinkOK /\ StandOK /\ ReadOK /\ (Uncut => CountOK /\ BondsOK)

-----------------------------------------------------------------------------
(* Types *)

LEMMA NoneInSeq == \A T : << >> \in Seq(T)
OBVIOUS

\* The parts of TypeOK that belong together.
SketchTypes ==
    /\ number \in Nat /\ current \in Nat /\ offset \in Nat
    /\ bonded \in BOOLEAN /\ asked \in BOOLEAN
    /\ pc \in {"loop", "pin", "restore", "restoreWait", "readWait", "cells",
               "commit", "next", "clear", "halt"}
    /\ caller \in {"start", "timeout"}
    /\ index \in Nat /\ at \in Nat /\ left \in Int /\ msg \in Events

StoreTypes ==
    /\ eeprom \in [0 .. Top -> Nat]
    /\ committed \in [0 .. BONDS_MAX - 1 -> Int]
    /\ pin2 \in BOOLEAN /\ tidy \in BOOLEAN
    /\ boots \in 0 .. MaxBoots

QueueTypes ==
    /\ tx \in Seq(Commands) /\ Len(tx) <= QueueSize
    /\ rx \in Seq(Events)

RadioTypes ==
    /\ mode \in {"standby", "bond", "connect", "bonding", "linked"}
    /\ held \in 0 .. Garbled /\ made \in 0 .. MaxBonds
    /\ sent \in 0 .. Msgs - 1
    /\ seen \in Seq(Nat) /\ Len(seen) < Msgs
    /\ errors \in 0 .. MaxErrors

LEMMA TypeParts == TypeOK <=> SketchTypes /\ StoreTypes /\ QueueTypes /\ RadioTypes
BY DEF TypeOK, SketchTypes, StoreTypes, QueueTypes, RadioTypes

LEMMA InitTypes == Init => TypeOK
<1> SUFFICES ASSUME Init PROVE TypeOK
  OBVIOUS
<1>1. Plain("rsp") \in Events /\ Plain("started") \in Events
  BY PlainIs DEF Types
<1>2. SketchTypes
  BY <1>1, Sizes DEF Init, SketchTypes, BONDS_MAX
<1>3. StoreTypes
  <2>1. eeprom = [a \in 0 .. Top |-> Erased] /\ committed = [k \in 0 .. BONDS_MAX - 1 |-> Nobody]
    BY DEF Init
  <2>2. eeprom \in [0 .. Top -> Nat]
    BY <2>1, Sizes
  <2>3. committed \in [0 .. BONDS_MAX - 1 -> Int]
    BY <2>1 DEF Nobody
  <2>4. pin2 \in BOOLEAN /\ tidy \in BOOLEAN /\ boots \in 0 .. MaxBoots
    BY BondsAssumption DEF Init
  <2> QED BY <2>2, <2>3, <2>4 DEF StoreTypes
<1>4. QueueTypes
  <2>1. tx = << >> /\ rx = <<Plain("started")>>
    BY DEF Init
  <2>2. tx \in Seq(Commands) /\ Len(tx) <= QueueSize
    BY <2>1, NoneInSeq, Sizes
  <2>3. rx \in Seq(Events)
    BY <1>1, <2>1
  <2> QED BY <2>2, <2>3 DEF QueueTypes
<1>5. RadioTypes
  BY Sizes DEF Init, RadioTypes, Nobody
<1> QED BY <1>2, <1>3, <1>4, <1>5, TypeParts

LEMMA CellIs ==
    ASSUME StoreTypes
    PROVE  /\ \A a : Cell(a) \in Nat
           /\ \A k \in 0 .. 2 : eeprom[k] \in Nat /\ eeprom[2 * k] \in Nat /\ eeprom[2 * k + 1] \in Nat
BY Sizes DEF StoreTypes, Cell

LEMMA SketchTypesNext == Inv /\ [Next]_vars => SketchTypes'
<1> SUFFICES ASSUME Inv, [Next]_vars PROVE SketchTypes'
  OBVIOUS
<1> USE DEF ram, local
<1>1. SketchTypes /\ StoreTypes /\ QueueTypes /\ ReadOK /\ TypeOK
  BY TypeParts DEF Inv
<1>2. (\A a : Cell(a) \in Nat) /\ Plain("rsp") \in Events /\ Valid \in Nat \ {0}
  <2>1. Valid # 0
    BY BondsAssumption DEF Valid, Erased
  <2> QED BY <1>1, <2>1, CellIs, PlainIs, Sizes DEF Types
<1>3. CASE UNCHANGED <<ram, pc, local>>
  BY <1>1, <1>3 DEF SketchTypes
<1>4. \A k \in 0 .. 1, from \in {"start", "timeout"} :
          BeginRestore(k, from) => /\ caller' \in {"start", "timeout"} /\ index' \in Nat
                                   /\ at' \in Nat /\ left' \in Int /\ pc' = "restore" /\ msg' = msg
  BY <1>1, <1>2, CellIs DEF BeginRestore
<1>5. Returned => /\ caller' \in {"start", "timeout"} /\ index' \in Nat
                  /\ at' \in Nat /\ left' \in Int /\ msg' \in Events
  BY <1>2 DEF Returned
<1>6. Done => pc' \in {"loop", "pin"}
  BY DEF Done
<1>7. \A n : Advertise(n) => pc' \in {"loop", "pin"}
  BY <1>6 DEF Advertise
<1>8. CASE Restart
  <2>1. number' \in Nat /\ offset' \in Nat
    BY <1>1, <1>2, <1>8 DEF Restart, Recount, SketchTypes
  <2>2. CASE Exists(0)
    BY <1>1, <1>4, <1>8, <2>1, <2>2 DEF Restart, SketchTypes
  <2>3. CASE ~Exists(0)
    BY <1>1, <1>6, <1>8, <2>1, <2>3 DEF Restart, SketchTypes
  <2> QED BY <2>2, <2>3
<1>9. CASE Connected \/ Ignored
  BY <1>1, <1>6, <1>9 DEF Connected, Ignored, SketchTypes
<1>10. CASE BondStatus
  <2>1. bonded' \in BOOLEAN
    BY <1>10 DEF BondStatus
  <2> QED BY <1>1, <1>6, <1>10, <2>1 DEF BondStatus, SketchTypes
<1>11. CASE Timeout
  <2> DEFINE k == IF current >= BONDS_MAX THEN 0 ELSE current
  <2>1. k \in 0 .. 1
    BY <1>1 DEF SketchTypes, BONDS_MAX
  <2> HIDE DEF k
  <2>2. CASE Exists(k)
    <3>1. current' = k /\ BeginRestore(k, "timeout") /\ UNCHANGED <<number, offset, bonded, asked>>
      BY <1>11, <2>2 DEF Timeout, k
    <3> QED BY <1>1, <1>4, <2>1, <3>1 DEF SketchTypes
  <2>3. CASE ~Exists(k)
    <3>1. current' = 0 /\ Advertise(number) /\ UNCHANGED <<local, number, offset, bonded, asked>>
      BY <1>11, <2>3 DEF Timeout, k
    <3> QED BY <1>1, <1>7, <3>1 DEF SketchTypes
  <2> QED BY <2>2, <2>3
<1>12. CASE Disconnected
  <2>1. bonded' \in BOOLEAN
    BY <1>12 DEF Disconnected
  <2>2. CASE bonded
    BY <1>1, <1>12, <2>1, <2>2 DEF Disconnected, SketchTypes
  <2>3. CASE ~bonded
    BY <1>1, <1>7, <1>12, <2>1, <2>3 DEF Disconnected, SketchTypes
  <2> QED BY <2>2, <2>3
<1>13. CASE EndLink
  BY <1>1, <1>13 DEF EndLink, SketchTypes
<1>14. \A b \in BOOLEAN : Restored(b) => current' \in Nat /\ Returned /\ pc' \in {"loop", "pin"}
  BY <1>1, <1>6, <1>7 DEF Restored, SketchTypes
<1>15. CASE RestoreSend
  <2>1. CASE Len(tx) < QueueSize
    BY <1>1, <1>2, <1>15, <2>1 DEF RestoreSend, SketchTypes
  <2>2. CASE ~(Len(tx) < QueueSize)
    <3>1. Restored(FALSE) /\ UNCHANGED <<number, offset, bonded, asked>>
      BY <1>15, <2>2 DEF RestoreSend
    <3> QED BY <1>1, <1>5, <1>14, <3>1 DEF SketchTypes
  <2> QED BY <2>1, <2>2
<1>16. CASE RestoreWait
  <2> DEFINE e == Head(rx)
             b == e.type = "rsp" /\ Completes(e)
  <2>1. CASE e.type # "rsp" \/ Completes(e) \/ left = 1
    <3>1. Restored(b) /\ UNCHANGED <<number, offset, bonded, asked>>
      BY <1>16, <2>1 DEF RestoreWait
    <3>2. b \in BOOLEAN
      OBVIOUS
    <3> HIDE DEF b
    <3> QED BY <1>1, <1>5, <1>14, <3>1, <3>2 DEF SketchTypes
  <2>2. CASE ~(e.type # "rsp" \/ Completes(e) \/ left = 1)
    BY <1>1, <1>16, <2>2 DEF RestoreWait, SketchTypes
  <2> QED BY <2>1, <2>2
<1>17. CASE ReadWait
  <2>1. rx # << >> /\ Head(rx) \in Events
    BY <1>1, <1>17, TailAt DEF ReadWait, QueueTypes
  <2>2. CASE Good(Head(rx))
    BY <1>1, <1>17, <2>1, <2>2 DEF ReadWait, SketchTypes, Good
  <2>3. CASE ~Good(Head(rx))
    BY <1>1, <1>5, <1>7, <1>17, <2>3 DEF ReadWait, SketchTypes, Good
  <2> QED BY <2>2, <2>3
<1>18. CASE WriteCell
  BY <1>1, <1>18 DEF WriteCell, SketchTypes
<1>19. CASE Commit
  BY <1>1, <1>19 DEF Commit, SketchTypes
<1>20. CASE SetNext
  BY <1>1, <1>5, <1>7, <1>20 DEF SetNext, SketchTypes
<1>21. CASE Clear
  BY <1>1, <1>21 DEF Clear, SketchTypes
<1>22. CASE Boot
  <2>1. UNCHANGED made /\ pc' \in {"loop", "clear"} /\ number' \in Nat /\ current' \in Nat /\ offset' \in Nat
        /\ bonded' = FALSE /\ asked' = FALSE /\ Returned
    BY <1>22, Sizes DEF Boot, BONDS_MAX
  <2> QED BY <1>5, <2>1 DEF SketchTypes
<1>23. CASE Press \/ Answer \/ AdvertTimeout \/ LinkMade \/ BondMade \/ LinkLost \/ HwError
  BY <1>3, <1>23 DEF Press, Answer, AdvertTimeout, LinkMade, BondMade, LinkLost, HwError, program
<1>24. CASE UNCHANGED vars
  BY <1>3, <1>24 DEF vars
<1> QED BY <1>8, <1>9, <1>10, <1>11, <1>12, <1>13, <1>15, <1>16, <1>17, <1>18, <1>19,
           <1>20, <1>21, <1>22, <1>23, <1>24 DEF Next, Sketch

LEMMA StoreTypesNext == Inv /\ [Next]_vars => StoreTypes'
<1> SUFFICES ASSUME Inv, [Next]_vars PROVE StoreTypes'
  OBVIOUS
<1> USE DEF rest
<1>1. SketchTypes /\ StoreTypes /\ QueueTypes /\ ReadOK
  BY TypeParts DEF Inv
<1>2. Erased \in Nat /\ Valid \in Nat /\ Byte \in Nat \ {0} /\ MaxBoots \in Nat
  BY Sizes, BondsAssumption
<1>3. CASE UNCHANGED <<eeprom, rest>>
  BY <1>1, <1>3 DEF StoreTypes
<1>4. CASE Disconnected
  <2>1. tidy' \in BOOLEAN
    BY <1>1, <1>4 DEF Disconnected, StoreTypes
  <2>2. offset % Byte \in Nat
    BY <1>1, <1>2 DEF SketchTypes
  <2>3. eeprom' \in [0 .. Top -> Nat]
    BY <1>1, <1>4, <2>2 DEF Disconnected, StoreTypes
  <2> QED BY <1>1, <1>4, <2>1, <2>3 DEF Disconnected, StoreTypes
<1>5. CASE ReadWait
  BY <1>1, <1>2, <1>5 DEF ReadWait, StoreTypes
<1>6. CASE WriteCell
  <2>1. at \in 1 .. 3 /\ msg.data \in Nat /\ Opcode \in Nat
    BY <1>1, <1>6, Sizes DEF WriteCell, ReadOK, SketchTypes, Events
  <2>2. <<2, Opcode, msg.data>>[at] \in Nat
    BY <2>1
  <2> QED BY <1>1, <1>6, <2>2 DEF WriteCell, StoreTypes
<1>7. CASE Commit
  <2>1. Valid + left \in Nat
    BY <1>1, <1>2, <1>7, Sizes DEF Commit, ReadOK
  <2>2. Owner(msg.data) \in Int
    BY <1>1, Sizes DEF Owner, SketchTypes, Events
  <2> QED BY <1>1, <1>7, <2>1, <2>2 DEF Commit, StoreTypes
<1>8. CASE SetNext
  <2>1. offset % Byte \in Nat
    BY <1>1, <1>2 DEF SketchTypes
  <2> QED BY <1>1, <1>8, <2>1 DEF SetNext, StoreTypes
<1>9. CASE Clear
  <2>1. tidy' \in BOOLEAN
    BY <1>1, <1>9 DEF Clear, StoreTypes
  <2> QED BY <1>1, <1>2, <1>9, <2>1 DEF Clear, StoreTypes
<1>10. CASE Boot
  <2>1. tidy' \in BOOLEAN
    BY <1>1, <1>10 DEF Boot, StoreTypes
  <2> QED BY <1>1, <1>2, <1>10, <2>1 DEF Boot, StoreTypes
<1>11. CASE Press
  <2>1. pin2' \in BOOLEAN
    BY <1>1, <1>11 DEF Press, StoreTypes
  <2> QED BY <1>1, <1>11, <2>1 DEF Press, StoreTypes
<1>12. CASE Answer \/ HwError
  BY <1>1, <1>12 DEF Answer, HwError, StoreTypes
<1>13. CASE AdvertTimeout \/ LinkMade \/ BondMade \/ LinkLost
  BY <1>3, <1>13 DEF AdvertTimeout, LinkMade, BondMade, LinkLost, program
<1>14. CASE Restart \/ Connected \/ BondStatus \/ Ignored \/ Timeout \/ EndLink
            \/ RestoreSend \/ RestoreWait
  BY <1>3, <1>14 DEF Restart, Connected, BondStatus, Ignored, Timeout, EndLink,
                     RestoreSend, RestoreWait
<1>15. CASE UNCHANGED vars
  BY <1>3, <1>15 DEF vars
<1> QED BY <1>4, <1>5, <1>6, <1>7, <1>8, <1>9, <1>10, <1>11, <1>12, <1>13, <1>14, <1>15
        DEF Next, Sketch

\* What the radio answers.
LEMMA AnswerIs ==
    ASSUME TypeOK, Answer
    PROVE  /\ tx # << >> /\ tx' = Tail(tx) /\ Head(tx) \in Commands
           /\ \E e \in Events : /\ rx' = Append(rx, e) /\ e.type = "rsp"
                                /\ Good(e) => /\ Head(tx).type \in {"read", "write"}
                                               /\ mode' = "standby"
           /\ Head(tx).type # "read" \/ mode' # "standby" => sent' = 0
           /\ mode' \in {mode, "bond", "connect"}
           /\ held' \in 0 .. Garbled /\ sent' \in 0 .. Msgs - 1
           /\ seen' \in Seq(Nat) /\ Len(seen') < Msgs
           /\ errors' \in 0 .. MaxErrors
<1>1. /\ tx # << >> /\ tx' = Tail(tx)
      /\ SketchTypes /\ StoreTypes /\ QueueTypes /\ RadioTypes
  BY TypeParts DEF Answer
<1>2. Head(tx) \in Commands
  BY <1>1, TailAt DEF QueueTypes
<1> DEFINE c == Head(tx)
<1>3. Msgs \in Nat \ {0} /\ Len(<< >>) = 0 /\ << >> \in Seq(Nat) /\ MaxErrors \in Nat /\ MaxBonds \in Nat
  BY Sizes
<1>4. \A s \in {"success", "error", "continue", "complete"}, d \in Nat :
          Event("rsp", s, d) \in Events /\ Event("rsp", s, d).type = "rsp"
             /\ Event("rsp", s, d).status = s
  BY DEF Event, Events, Types
<1>5. \A s \in {"success", "error"} : ~Good(Event("rsp", s, 0))
  BY <1>4 DEF Good
<1>6. Dropped => sent' \in 0 .. Msgs - 1 /\ seen' \in Seq(Nat) /\ Len(seen') < Msgs
  BY <1>3 DEF Dropped
<1> DEFINE Says1 == \E e \in Events : /\ rx' = Append(rx, e) /\ e.type = "rsp"
                                      /\ Good(e) => /\ c.type \in {"read", "write"}
                                                     /\ mode' = "standby"
           Drops == c.type # "read" \/ mode' # "standby" => sent' = 0
           Fine == /\ mode' \in {mode, "bond", "connect"}
                   /\ held' \in 0 .. Garbled /\ sent' \in 0 .. Msgs - 1
                   /\ seen' \in Seq(Nat) /\ Len(seen') < Msgs
                   /\ errors' \in 0 .. MaxErrors
<1> HIDE DEF c
<1>7. CASE Advertising(c)
  <2>1. Says1
    BY <1>4, <1>5, <1>7 DEF Advertising, Response, Report
  <2>2. Drops /\ Fine
    BY <1>1, <1>6, <1>7 DEF Advertising, RadioTypes, Dropped
  <2> QED BY <1>1, <1>2, <2>1, <2>2 DEF c
<1>8. CASE Simple(c)
  <2>1. Says1
    BY <1>4, <1>5, <1>8 DEF Simple, Response, Report
  <2>2. Drops /\ Fine
    BY <1>1, <1>6, <1>8 DEF Simple, RadioTypes, Dropped
  <2> QED BY <1>1, <1>2, <2>1, <2>2 DEF c
<1>9. CASE ReadOut(c)
  <2>1. Piece(held, sent + 1) \in Nat
    BY <1>1, <1>3, Sizes DEF RadioTypes, Piece
  <2>2. (sent + 1) % Msgs \in 0 .. Msgs - 1
    BY <1>1, <1>3 DEF RadioTypes
  <2>3. (IF sent + 1 = Msgs THEN "complete" ELSE "continue") \in {"continue", "complete"}
    OBVIOUS
  <2>4. Says1
    BY <1>4, <1>9, <2>1, <2>3 DEF ReadOut, Response, Report
  <2>5. Drops /\ Fine
    BY <1>1, <1>3, <1>9, <2>2 DEF ReadOut, RadioTypes
  <2> QED BY <1>1, <1>2, <2>4, <2>5 DEF c
<1>10. CASE WrittenBack(c)
  <2>1. c.data \in Nat /\ c.type = "write"
    BY <1>2, <1>10 DEF Commands, WrittenBack, c
  <2>2. PeerOf(Append(seen, c.data)) \in 0 .. Garbled
    BY Sizes DEF PeerOf
  <2>3. Append(seen, c.data) \in Seq(Nat) /\ Len(Append(seen, c.data)) = Len(seen) + 1 /\ Len(seen) \in Nat
    BY <1>1, <2>1 DEF RadioTypes
  <2>4. mode = "standby" /\ mode' = mode /\ sent' = 0 /\ errors' = errors
    BY <1>10 DEF WrittenBack, InOrder
  <2>5. Drops /\ mode' = "standby"
    BY <2>4
  <2>6. Response("complete", 0) \/ Response("continue", 0)
    BY <1>10 DEF WrittenBack
  <2>7. Says1
    BY <1>4, <2>1, <2>5, <2>6 DEF Response, Report
  <2>8. seen' \in Seq(Nat) /\ Len(seen') < Msgs
    <3>1. seen' = << >> \/ (seen' = Append(seen, c.data) /\ Len(seen) + 1 # Msgs)
      BY <1>10 DEF WrittenBack
    <3>2. Len(seen) < Msgs /\ (Len(seen) + 1 # Msgs => Len(seen) + 1 < Msgs)
      BY <1>1, <1>3, <2>3 DEF RadioTypes
    <3>3. CASE seen' = << >>
      BY <1>3, <3>3
    <3>4. CASE seen' = Append(seen, c.data) /\ Len(seen) + 1 # Msgs
      BY <2>3, <3>2, <3>4
    <3> QED BY <3>1, <3>3, <3>4
  <2>9. held' \in 0 .. Garbled
    BY <1>1, <1>10, <2>2 DEF WrittenBack, RadioTypes
  <2>10. Fine
    BY <1>1, <1>3, <2>4, <2>8, <2>9 DEF RadioTypes
  <2> QED BY <1>1, <1>2, <2>5, <2>7, <2>10 DEF c
<1>11. CASE Refused(c)
  <2>1. errors' \in 0 .. MaxErrors
    BY <1>1, <1>3, <1>11 DEF Refused, RadioTypes
  <2>2. Says1
    BY <1>4, <1>5, <1>11 DEF Refused, Response, Report
  <2>3. Drops /\ Fine
    BY <1>1, <1>6, <1>11, <2>1 DEF Refused, RadioTypes, Dropped
  <2> QED BY <1>1, <1>2, <2>2, <2>3 DEF c
<1> QED BY <1>7, <1>8, <1>9, <1>10, <1>11 DEF Answer, c

LEMMA WriteIs ==
    TypeOK => WriteMessage \in Commands /\ WriteMessage.type = "write"
<1> SUFFICES ASSUME TypeOK PROVE WriteMessage \in Commands /\ WriteMessage.type = "write"
  OBVIOUS
<1>1. Cell(at + 2) \in Nat /\ Opcode \in Nat
  BY TypeParts, CellIs, Sizes
<1> QED BY <1>1 DEF WriteMessage, Commands

\* What the sketch sends when it restores no bond, or no more.
LEMMA RestoredIs ==
    ASSUME TypeOK, NEW b \in BOOLEAN, Restored(b)
    PROVE  /\ tx' \in Seq(Commands) /\ Len(tx') <= QueueSize
           /\ pc' \in {"loop", "pin"}
           /\ \/ tx' = tx
              \/ tx' = Append(tx, Command("connect"))
              \/ number < BONDS_MAX /\ tx' = Append(tx, Command("bond"))
<1>1. CASE caller = "timeout"
  BY <1>1, AdvertiseIs DEF Restored, TypeOK
<1>2. CASE caller # "timeout"
  <2>1. Command("connect") \in Commands
    BY CommandIs DEF SimpleTypes
  <2>2. Send(Command("connect")) /\ pc' \in {"loop", "pin"}
    BY <1>2 DEF Restored, Done
  <2> QED BY <2>1, <2>2, SendIs
<1> QED BY <1>1, <1>2

\* What the sketch sends: nothing, a command of its own, or one for a bond.
TxSends ==
    \/ tx' = tx
    \/ \E c \in SimpleCommands : tx' = Append(tx, c)
    \/ pc' = "readWait" /\ (tx' = tx \/ tx' = Append(tx, Command("read")))
    \/ pc = "restore" /\ tx' = Append(tx, WriteMessage)

LEMMA SketchSends ==
    ASSUME TypeOK, Sketch
    PROVE  TxSends /\ tx' \in Seq(Commands) /\ Len(tx') <= QueueSize
<1> USE DEF TxSends
<1>1. /\ tx \in Seq(Commands) /\ Len(tx) <= QueueSize /\ number \in Nat
      /\ \A t \in SimpleTypes : Command(t) \in SimpleCommands /\ Command(t) \in Commands
      /\ Command("read") \in Commands /\ WriteMessage \in Commands
  BY CommandIs, WriteIs DEF TypeOK
<1>2. \A t \in SimpleTypes : Send(Command(t)) =>
          TxSends /\ tx' \in Seq(Commands) /\ Len(tx') <= QueueSize
  BY <1>1, SendIs
<1>3. \A n \in Nat : Advertise(n) =>
          TxSends /\ tx' \in Seq(Commands) /\ Len(tx') <= QueueSize
  BY <1>1, AdvertiseIs DEF SimpleTypes
<1>4. \A b \in BOOLEAN : Restored(b) =>
          TxSends /\ tx' \in Seq(Commands) /\ Len(tx') <= QueueSize
  BY <1>1, RestoredIs DEF SimpleTypes
<1>5. Send(Command("read")) /\ pc' = "readWait" =>
          TxSends /\ tx' \in Seq(Commands) /\ Len(tx') <= QueueSize
  BY <1>1, SendIs
<1>6. UNCHANGED tx => TxSends /\ tx' \in Seq(Commands) /\ Len(tx') <= QueueSize
  BY <1>1
<1> HIDE DEF TxSends
<1>7. CASE Restart
  BY <1>2, <1>6, <1>7 DEF Restart, BeginRestore, SimpleTypes
<1>8. CASE Connected \/ EndLink
  BY <1>2, <1>8 DEF Connected, EndLink, SimpleTypes
<1>9. CASE BondStatus \/ Ignored \/ Commit \/ Clear
  BY <1>6, <1>9 DEF BondStatus, Ignored, Commit, Clear
<1>10. CASE Timeout
  BY <1>1, <1>3, <1>6, <1>10 DEF Timeout, BeginRestore
<1>11. CASE Disconnected
  BY <1>1, <1>3, <1>5, <1>11 DEF Disconnected
<1>12. CASE RestoreSend
  <2>1. CASE Len(tx) < QueueSize
    <3>1. Send(WriteMessage) /\ pc = "restore"
      BY <1>12, <2>1 DEF RestoreSend
    <3>2. tx' = Append(tx, WriteMessage)
      BY <2>1, <3>1 DEF Send
    <3> QED BY <1>1, <3>1, <3>2, SendIs DEF TxSends
  <2>2. CASE ~(Len(tx) < QueueSize)
    BY <1>4, <1>12, <2>2 DEF RestoreSend
  <2> QED BY <2>1, <2>2
<1>13. CASE RestoreWait
  <2> DEFINE e == Head(rx)
             b == e.type = "rsp" /\ Completes(e)
  <2>1. b \in BOOLEAN
    OBVIOUS
  <2>2. CASE e.type # "rsp" \/ Completes(e) \/ left = 1
    <3>1. Restored(b)
      BY <1>13, <2>2 DEF RestoreWait
    <3> HIDE DEF b
    <3> QED BY <1>4, <2>1, <3>1
  <2>3. CASE ~(e.type # "rsp" \/ Completes(e) \/ left = 1)
    BY <1>6, <1>13, <2>3 DEF RestoreWait
  <2> QED BY <2>2, <2>3
<1>14. CASE ReadWait
  BY <1>1, <1>3, <1>6, <1>14 DEF ReadWait
<1>15. CASE WriteCell
  BY <1>5, <1>6, <1>15 DEF WriteCell
<1>16. CASE SetNext
  <2>1. number + 1 \in Nat
    BY <1>1
  <2> QED BY <1>3, <1>16, <2>1 DEF SetNext
<1> QED BY <1>7, <1>8, <1>9, <1>10, <1>11, <1>12, <1>13, <1>14, <1>15, <1>16 DEF Sketch

\* How the events change in a step of the sketch
LEMMA SketchTakes ==
    Sketch => \/ rx' = rx
              \/ rx # << >> /\ rx' = Tail(rx) /\ pc \in {"loop", "restoreWait", "readWait"}
<1>1. \A t : Got(t) => rx # << >> /\ rx' = Tail(rx) /\ pc = "loop"
  BY DEF Got
<1> QED BY <1>1 DEF Sketch, Restart, Connected, BondStatus, Ignored, Timeout, Disconnected, EndLink,
        RestoreSend, RestoreWait, ReadWait, WriteCell, Commit, SetNext, Clear

\* How the events change when the radio starts again by itself
LEMMA HwErrorIs ==
    ASSUME TypeOK, HwError
    PROVE  /\ \E a, b \in HwEvents : rx' = Append(Append(rx, a), b)
           /\ tx' = tx \/ (tx # << >> /\ tx' = Tail(tx))
           /\ mode' = "standby" /\ held' = Nobody /\ sent' = 0 /\ seen' = << >>
           /\ errors' \in 0 .. MaxErrors
           /\ UNCHANGED <<eeprom, ram, pc, local, made, boots, pin2, committed, tidy>>
<1>1. Plain("startedHw") \in HwEvents /\ Plain("hwError") \in HwEvents
  BY PlainIs DEF Types, HwEvents, HwTypes
<1>2. rx \in Seq(Events) /\ HwEvents \subseteq Events
  BY DEF TypeOK, HwEvents
<1>3. rx' = rx \o <<Plain("startedHw"), Plain("hwError")>> \/ rx' = rx \o <<Plain("hwError"), Plain("startedHw")>>
  BY DEF HwError
<1>4. \E a, b \in HwEvents : rx' = rx \o <<a, b>>
  BY <1>1, <1>3
<1>5. PICK a \in HwEvents, b \in HwEvents : rx' = rx \o <<a, b>>
  BY <1>4
<1>6. rx' = Append(Append(rx, a), b)
  <2>1. a \in Events /\ b \in Events
    BY <1>2
  <2> QED BY <1>2, <1>5, <2>1, TwoMore
<1>7. errors' \in 0 .. MaxErrors
  BY Sizes DEF HwError, TypeOK
<1> QED BY <1>6, <1>7 DEF HwError, Dropped

\* What the radio says of the link
Says(type) == \E e \in Events : rx' = Append(rx, e) /\ e.type = type

LEMMA LinkSays ==
    /\ AdvertTimeout => Says("timeout")
    /\ LinkMade => Says("connected")
    /\ BondMade => Says("bond")
    /\ LinkLost => Says("disconnected")
<1>1. \A t \in Types : Plain(t) \in Events /\ Plain(t).type = t
  BY PlainIs
<1>2. \A s \in {"success", "failed"} : Event("bond", s, 0) \in Events
                                       /\ Event("bond", s, 0).type = "bond"
  BY DEF Event, Events, Types
<1> QED BY <1>1, <1>2 DEF AdvertTimeout, LinkMade, BondMade, LinkLost, Report, Says, Types

LEMMA QueueTypesNext == Inv /\ [Next]_vars => QueueTypes'
<1> SUFFICES ASSUME Inv, [Next]_vars PROVE QueueTypes'
  OBVIOUS
<1>1. TypeOK /\ QueueTypes
  BY TypeParts DEF Inv
<1>2. rx # << >> => Tail(rx) \in Seq(Events)
  BY <1>1, TailAt DEF QueueTypes
<1>3. tx # << >> => Tail(tx) \in Seq(Commands) /\ Len(Tail(tx)) <= QueueSize
  <2>1. QueueSize \in Nat /\ tx \in Seq(Commands) /\ Len(tx) <= QueueSize
    BY <1>1, Sizes DEF QueueTypes
  <2>2. tx # << >> => Tail(tx) \in Seq(Commands) /\ Len(Tail(tx)) = Len(tx) - 1 /\ Len(tx) \in Nat
    BY <2>1, TailAt
  <2> QED BY <2>1, <2>2
<1>4. \A e \in Events : Append(rx, e) \in Seq(Events)
  BY <1>1 DEF QueueTypes
<1>5. CASE Sketch
  BY <1>1, <1>2, <1>5, SketchSends, SketchTakes DEF QueueTypes
<1>6. CASE Boot
  <2>1. Plain("started") \in Events /\ Len(<< >>) = 0 /\ << >> \in Seq(Commands)
    BY PlainIs DEF Types
  <2> QED BY <1>6, <2>1, Sizes DEF Boot, QueueTypes
<1>7. CASE Answer
  BY <1>1, <1>3, <1>4, <1>7, AnswerIs DEF QueueTypes
<1>8. CASE HwError
  <2>1. PICK a \in HwEvents, b \in HwEvents : rx' = Append(Append(rx, a), b)
    BY <1>1, <1>8, HwErrorIs
  <2>2. a \in Events /\ b \in Events
    BY DEF HwEvents
  <2>3. rx' \in Seq(Events)
    BY <1>4, <2>1, <2>2
  <2> QED BY <1>1, <1>3, <1>8, <2>3, HwErrorIs DEF QueueTypes
<1>9. CASE AdvertTimeout \/ LinkMade \/ BondMade \/ LinkLost
  <2>1. rx' \in Seq(Events)
    BY <1>4, <1>9, LinkSays DEF Says
  <2>2. UNCHANGED tx
    BY <1>9 DEF AdvertTimeout, LinkMade, BondMade, LinkLost
  <2> QED BY <1>1, <2>1, <2>2 DEF QueueTypes
<1>10. CASE Press \/ UNCHANGED vars
  BY <1>1, <1>10 DEF Press, vars, QueueTypes
<1> QED BY <1>5, <1>6, <1>7, <1>8, <1>9, <1>10 DEF Next

LEMMA RadioTypesNext == Inv /\ [Next]_vars => RadioTypes'
<1> SUFFICES ASSUME Inv, [Next]_vars PROVE RadioTypes'
  OBVIOUS
<1> USE DEF radio, rest
<1>1. TypeOK /\ RadioTypes
  BY TypeParts DEF Inv
<1>2. Msgs \in Nat \ {0} /\ << >> \in Seq(Nat) /\ Len(<< >>) = 0 /\ Nobody \in 0 .. Garbled
      /\ MaxBonds \in Nat /\ Garbled = MaxBonds + 1
  BY Sizes DEF Nobody
<1>3. CASE Sketch
  <2>1. UNCHANGED <<radio, errors>>
    BY <1>3 DEF Sketch, Restart, Connected, BondStatus, Ignored, Timeout, Disconnected, EndLink,
       RestoreSend, RestoreWait, ReadWait, WriteCell, Commit, SetNext, Clear
  <2> QED BY <1>1, <2>1 DEF RadioTypes
<1>4. CASE Boot
  BY <1>1, <1>2, <1>4 DEF Boot, RadioTypes
<1>5. CASE Answer
  <2>1. UNCHANGED made
    BY <1>5 DEF Answer
  <2>2. mode' \in {"standby", "bond", "connect", "bonding", "linked"}
    BY <1>1, <1>5, AnswerIs DEF RadioTypes
  <2> QED BY <1>1, <1>5, <2>1, <2>2, AnswerIs DEF RadioTypes
<1>6. CASE HwError
  <2>1. UNCHANGED made
    BY <1>6 DEF HwError
  <2> QED BY <1>1, <1>2, <1>6, <2>1, HwErrorIs DEF RadioTypes
<1>7. CASE AdvertTimeout \/ LinkMade \/ LinkLost
  BY <1>1, <1>7 DEF AdvertTimeout, LinkMade, LinkLost, program, RadioTypes
<1>8. CASE BondMade
  <2>1. made' \in 0 .. MaxBonds /\ held' \in 0 .. Garbled
    BY <1>1, <1>2, <1>8 DEF BondMade, RadioTypes
  <2> QED BY <1>1, <1>8, <2>1 DEF BondMade, program, RadioTypes
<1>9. CASE Press \/ UNCHANGED vars
  BY <1>1, <1>9 DEF Press, vars, RadioTypes
<1> QED BY <1>3, <1>4, <1>5, <1>6, <1>7, <1>8, <1>9 DEF Next

LEMMA TypesNext == Inv /\ [Next]_vars => TypeOK'
<1>1. TypeOK' <=> SketchTypes' /\ StoreTypes' /\ QueueTypes' /\ RadioTypes'
  BY TypeParts, PTL
<1> QED BY <1>1, SketchTypesNext, StoreTypesNext, QueueTypesNext, RadioTypesNext

-----------------------------------------------------------------------------
(* The start *)

LEMMA SketchRuns ==
    Sketch => \/ Clear
              \/ /\ pc \notin {"clear", "halt"} /\ pc' \notin {"clear", "halt"}
                 /\ \/ rx # << >> /\ rx' = Tail(rx)
                    \/ rx' = rx /\ (pc # "loop" \/ rx = << >>)
<1>1. Done => pc' \in {"loop", "pin"}
  BY DEF Done
<1>2. (\A n : Advertise(n) => pc' \in {"loop", "pin"}) /\ (\A b : Restored(b) => pc' \in {"loop", "pin"})
  BY <1>1 DEF Advertise, Restored
<1>3. CASE Restart \/ Connected \/ BondStatus \/ Ignored
  BY <1>1, <1>3 DEF Restart, Connected, BondStatus, Ignored, Got, BeginRestore
<1>4. CASE Timeout \/ Disconnected
  BY <1>1, <1>2, <1>4 DEF Timeout, Disconnected, Got, BeginRestore
<1>5. CASE EndLink
  BY <1>5 DEF EndLink
<1>6. CASE RestoreSend
  BY <1>2, <1>6 DEF RestoreSend
<1>7. CASE RestoreWait
  BY <1>2, <1>7 DEF RestoreWait
<1>8. CASE ReadWait \/ SetNext
  BY <1>2, <1>8 DEF ReadWait, SetNext
<1>9. CASE WriteCell \/ Commit
  BY <1>9 DEF WriteCell, Commit
<1> QED BY <1>3, <1>4, <1>5, <1>6, <1>7, <1>8, <1>9 DEF Sketch

\* An event more, of those that come between two starts
LEMMA StartAppend ==
    ASSUME NEW q \in Seq(Events), NEW e \in NoStart, q # << >> => Tail(q) \in Seq(NoStart)
    PROVE  /\ Append(q, e) # << >> /\ Tail(Append(q, e)) \in Seq(NoStart)
           /\ q # << >> => Head(Append(q, e)) = Head(q)
           /\ q = << >> => Head(Append(q, e)).type # "started"
           /\ q # << >> /\ Tail(q) \in Seq(HwEvents) /\ e \in HwEvents =>
                  Tail(Append(q, e)) \in Seq(HwEvents)
<1>1. e \in Events
  BY DEF NoStart
<1>2. /\ Append(q, e) # << >>
      /\ q = << >> => Head(Append(q, e)) = e /\ Tail(Append(q, e)) = << >>
      /\ q # << >> => Head(Append(q, e)) = Head(q) /\ Tail(Append(q, e)) = Append(Tail(q), e)
  BY <1>1, AppendAt
<1>3. CASE q = << >>
  BY <1>2, <1>3 DEF NoStart
<1>4. CASE q # << >>
  BY <1>2, <1>4
<1> QED BY <1>3, <1>4

LEMMA BootNext == Inv /\ [Next]_vars => BootOK'
<1> SUFFICES ASSUME Inv, [Next]_vars PROVE BootOK'
  OBVIOUS
<1> USE DEF local, ram, radio, rest
<1>1. TypeOK /\ BootOK /\ rx \in Seq(Events) /\ (rx # << >> => Tail(rx) \in Seq(NoStart))
  BY DEF Inv, TypeOK, BootOK
<1>2. HwEvents \subseteq NoStart
  BY DEF HwEvents, NoStart, HwTypes
<1>3. ASSUME rx' = rx, ~Booting, pc' \notin {"clear", "halt"} PROVE BootOK'
  BY <1>1, <1>3 DEF BootOK, Booting
<1>4. ASSUME rx # << >>, rx' = Tail(rx), pc' \notin {"clear", "halt"} PROVE BootOK'
  <2>1. rx' \in Seq(NoStart)
    BY <1>1, <1>4
  <2>2. rx' # << >> => Head(rx') \in NoStart /\ Tail(rx') \in Seq(NoStart)
    BY <2>1, TailAt
  <2> QED BY <1>4, <2>2 DEF BootOK, Booting, NoStart
<1>5. ASSUME NEW e \in NoStart, rx' = Append(rx, e), ~Booting, pc' = pc PROVE BootOK'
  <2>1. Tail(rx') \in Seq(NoStart) /\ ~Booting'
    BY <1>1, <1>5, StartAppend DEF Booting
  <2> QED BY <1>1, <1>5, <2>1 DEF BootOK
<1>6. CASE Sketch /\ ~Clear
  BY <1>1, <1>3, <1>4, <1>6, SketchRuns DEF BootOK, Booting
<1>7. CASE Clear
  <2>1. Booting' /\ pc' \in {"clear", "halt"} /\ rx' = rx /\ at \in 0 .. 3
        /\ \A a \in 0 .. at - 1 : eeprom[a] = Erased
    BY <1>1, <1>7 DEF Clear, BootOK, Booting
  <2>2. at' = at + 1 /\ \A a \in 0 .. at : eeprom'[a] = Erased
    <3>1. at' = at + 1 /\ eeprom' = [eeprom EXCEPT ![at] = Erased]
      BY <1>7 DEF Clear
    <3>2. ASSUME NEW a \in 0 .. at PROVE eeprom'[a] = Erased
      <4>1. a \in DOMAIN eeprom /\ (a = at \/ a \in 0 .. at - 1)
        BY <1>1, <2>1, Sizes DEF TypeOK
      <4> QED BY <2>1, <3>1, <4>1
    <3> QED BY <3>1, <3>2
  <2>3. (pc' = "clear" => at' \in 0 .. 3) /\ (pc' = "halt" => at' = 4)
    BY <1>1, <1>7, <2>1 DEF Clear, BONDS_MAX
  <2> QED BY <1>1, <1>7, <2>1, <2>2, <2>3 DEF Clear, BootOK, Booting
<1>8. CASE Boot
  <2>1. Plain("started") \in Events /\ Plain("started").type = "started"
    BY PlainIs DEF Types
  <2>2. rx' # << >> /\ Head(rx') = Plain("started") /\ Tail(rx') = << >>
    BY <1>8 DEF Boot
  <2>3. pc' \in {"loop", "clear"}
    BY <1>8 DEF Boot
  <2> QED BY <1>8, <2>1, <2>2, <2>3 DEF Boot, Returned, BootOK, Booting, BONDS_MAX
<1>9. CASE Answer
  <2>1. PICK e \in Events : rx' = Append(rx, e) /\ e.type = "rsp"
    BY <1>1, <1>9, AnswerIs
  <2>2. ~Booting /\ pc' = pc
    BY <1>1, <1>9 DEF Answer, BootOK
  <2> QED BY <1>5, <2>1, <2>2 DEF NoStart
<1>10. CASE AdvertTimeout \/ LinkMade \/ BondMade \/ LinkLost
  <2>1. PICK e \in Events : rx' = Append(rx, e) /\ e.type # "started"
    BY <1>10, LinkSays DEF Says
  <2>2. ~Booting /\ pc' = pc
    BY <1>1, <1>10 DEF AdvertTimeout, LinkMade, BondMade, LinkLost, program, BootOK
  <2> QED BY <1>5, <2>1, <2>2 DEF NoStart
<1>11. CASE HwError
  <2>1. PICK a \in HwEvents, b \in HwEvents : rx' = Append(Append(rx, a), b)
    BY <1>1, <1>11, HwErrorIs
  <2> DEFINE q == Append(rx, a)
  <2>2. /\ q \in Seq(Events) /\ q # << >> /\ Tail(q) \in Seq(NoStart)
        /\ rx # << >> => Head(q) = Head(rx)
        /\ rx = << >> => Head(q).type # "started"
        /\ rx # << >> /\ Tail(rx) \in Seq(HwEvents) => Tail(q) \in Seq(HwEvents)
    <3>1. q \in Seq(Events)
      BY <1>1 DEF HwEvents
    <3> QED BY <1>1, <1>2, <3>1, StartAppend
  <2> HIDE DEF q
  <2>3. /\ Append(q, b) # << >> /\ Tail(Append(q, b)) \in Seq(NoStart)
        /\ Head(Append(q, b)) = Head(q)
        /\ Tail(q) \in Seq(HwEvents) => Tail(Append(q, b)) \in Seq(HwEvents)
    BY <1>2, <2>2, StartAppend
  <2>4. rx' = Append(q, b)
    BY <2>1 DEF q
  <2>5. Booting' <=> Booting
    BY <2>2, <2>3, <2>4 DEF Booting
  <2>6. Booting => Tail(rx') \in Seq(HwEvents)
    BY <1>1, <2>2, <2>3, <2>4 DEF BootOK, Booting
  <2>7. mode' = "standby" /\ UNCHANGED <<eeprom, ram, pc, local>> /\ (tx = << >> => tx' = << >>)
    BY <1>11 DEF HwError
  <2> QED BY <1>1, <2>3, <2>4, <2>5, <2>6, <2>7 DEF BootOK
<1>12. CASE Press \/ UNCHANGED vars
  BY <1>1, <1>12 DEF Press, vars, BootOK, Booting
<1> QED BY <1>6, <1>7, <1>8, <1>9, <1>10, <1>11, <1>12 DEF Next

-----------------------------------------------------------------------------
(* The radio's standing by *)

LEMMA TailLast ==
    ASSUME NEW T, NEW q \in Seq(T), q # << >>, Tail(q) # << >>
    PROVE  Tail(q)[Len(Tail(q))] = q[Len(q)]
<1>1. Tail(q) \in Seq(T) /\ Len(Tail(q)) = Len(q) - 1 /\ Len(q) \in Nat \ {0}
      /\ \A i \in 1 .. Len(q) - 1 : Tail(q)[i] = q[i + 1]
  BY TailAt
<1>2. Len(Tail(q)) # 0
  BY <1>1
<1>3. Len(q) - 1 \in 1 .. Len(q) - 1 /\ Len(q) - 1 + 1 = Len(q)
  BY <1>1, <1>2
<1> QED BY <1>1, <1>3

LEMMA OneLeft ==
    ASSUME NEW T, NEW q \in Seq(T), q # << >>, Tail(q) = << >>
    PROVE  q[Len(q)] = Head(q) /\ Len(q) = 1
<1> DEFINE t == Tail(q)
<1>1. Len(t) = Len(q) - 1 /\ Len(q) \in Nat \ {0} /\ Head(q) = q[1]
  BY TailAt
<1>2. t = << >>
  OBVIOUS
<1> HIDE DEF t
<1>3. Len(t) = 0
  BY <1>2
<1>4. Len(q) = 1
  BY <1>1, <1>3
<1>5. q[1] = Head(q)
  BY <1>1
<1> QED BY <1>4, <1>5, Zenon

\* What makes the sketch send the next message of a bond
LEMMA RestoreBegins ==
    TypeOK /\ Sketch /\ pc' = "restore" =>
        rx # << >> /\ rx' = Tail(rx) /\ Standing(Head(rx))
<1> SUFFICES ASSUME TypeOK, Sketch, pc' = "restore"
             PROVE  rx # << >> /\ rx' = Tail(rx) /\ Standing(Head(rx))
  OBVIOUS
<1>1. ~Done /\ (\A n : ~Advertise(n)) /\ (\A b : ~Restored(b))
  BY DEF Done, Advertise, Restored
<1>2. CASE Restart
  BY <1>2 DEF Restart, Got, Standing, HwTypes
<1>3. CASE Timeout
  BY <1>3 DEF Timeout, Got, Standing
<1>4. CASE RestoreWait
  BY <1>1, <1>4 DEF RestoreWait, Standing, Good
<1>5. ~(Connected \/ BondStatus \/ Ignored \/ Disconnected \/ EndLink \/ RestoreSend \/ ReadWait
        \/ WriteCell \/ Commit \/ SetNext \/ Clear)
  BY <1>1 DEF Connected, BondStatus, Ignored, Disconnected, EndLink, RestoreSend, ReadWait,
              WriteCell, Commit, SetNext, Clear
<1> QED BY <1>2, <1>3, <1>4, <1>5 DEF Sketch

LEMMA StandNext == Inv /\ [Next]_vars => StandOK'
<1> SUFFICES ASSUME Inv, [Next]_vars PROVE StandOK'
  OBVIOUS
<1> USE DEF radio, rest
<1>1. TypeOK /\ StandOK /\ rx \in Seq(Events)
  BY DEF Inv, TypeOK
<1>2. ASSUME NEW e \in Events, rx' = Append(rx, e), Standing(e) => mode' = "standby"
      PROVE  StandOK'
  <2>1. rx' # << >> /\ rx'[Len(rx')] = e
    BY <1>1, <1>2, AppendAt
  <2> QED BY <1>2, <2>1 DEF StandOK, Standing
<1>3. CASE Sketch
  <2>1. UNCHANGED mode
    BY <1>3 DEF Sketch, Restart, Connected, BondStatus, Ignored, Timeout, Disconnected, EndLink,
       RestoreSend, RestoreWait, ReadWait, WriteCell, Commit, SetNext, Clear
  <2>2. rx' # << >> => rx # << >> /\ rx'[Len(rx')] = rx[Len(rx)]
    BY <1>1, <1>3, SketchTakes, TailLast
  <2>3. pc' = "restore" /\ rx' = << >> => mode = "standby"
    <3> SUFFICES ASSUME pc' = "restore", rx' = << >> PROVE mode = "standby"
      OBVIOUS
    <3>1. rx # << >> /\ Tail(rx) = << >> /\ Standing(Head(rx))
      BY <1>1, <1>3, RestoreBegins
    <3>2. rx[Len(rx)] = Head(rx)
      BY <1>1, <3>1, OneLeft
    <3> QED BY <1>1, <3>1, <3>2 DEF StandOK
  <2> QED BY <1>1, <2>1, <2>2, <2>3 DEF StandOK, Standing
<1>4. CASE Boot
  BY <1>4 DEF Boot, StandOK
<1>5. CASE Answer
  <2>1. PICK e \in Events : rx' = Append(rx, e) /\ e.type = "rsp" /\ (Good(e) => mode' = "standby")
    BY <1>1, <1>5, AnswerIs
  <2> QED BY <1>2, <2>1 DEF Standing, HwTypes
<1>6. CASE AdvertTimeout
  BY <1>6 DEF AdvertTimeout, StandOK
<1>7. CASE LinkMade \/ BondMade \/ LinkLost
  <2>1. PICK e \in Events : rx' = Append(rx, e) /\ e.type \in {"connected", "bond", "disconnected"}
    BY <1>7, LinkSays DEF Says
  <2> QED BY <1>2, <2>1 DEF Standing, HwTypes, Good
<1>8. CASE HwError
  BY <1>8 DEF HwError, StandOK
<1>9. CASE Press \/ UNCHANGED vars
  BY <1>1, <1>9 DEF Press, vars, StandOK, Standing
<1> QED BY <1>3, <1>4, <1>5, <1>6, <1>7, <1>8, <1>9 DEF Next

-----------------------------------------------------------------------------
(* The link *)

\* Nothing restarts in a link, and no bond is read or restored.
LEMMA LinkHead ==
    ASSUME Inv, InLink, rx # << >>, ~Ends(1)
    PROVE  Head(rx) = rx[1] /\ Head(rx) \in LinkEvents /\ Head(rx).type \notin HwTypes
<1>1. /\ rx \in Seq(LinkEvents)
      /\ \A i \in 1 .. Len(rx) : rx[i].type \in HwTypes => \E j \in 1 .. i - 1 : Ends(j)
  BY DEF Inv, LinkOK
<1>2. Head(rx) = rx[1] /\ Head(rx) \in LinkEvents /\ 1 \in 1 .. Len(rx)
  BY <1>1, TailAt
<1>3. ~\E j \in 1 .. 1 - 1 : Ends(j)
  OBVIOUS
<1> QED BY <1>1, <1>2, <1>3

LEMMA LinkPc ==
    ASSUME Inv, Sketch, InLink, rx # << >> => ~Ends(1)
    PROVE  pc' \in {"loop", "pin", "restoreWait"}
<1>1. pc \in {"loop", "pin", "restoreWait"} /\ TypeOK
  BY DEF Inv, LinkOK
<1>2. rx # << >> => /\ Head(rx) = rx[1] /\ ~Good(Head(rx))
                    /\ Head(rx).type \notin {"started", "timeout", "hwError", "disconnected"}
  BY LinkHead DEF LinkEvents, HwTypes, Ends
<1>3. (Done => pc' \in {"loop", "pin"}) /\ (\A b : Restored(b) => pc' \in {"loop", "pin"})
  BY DEF Restored, Advertise, Done
<1>4. CASE Connected \/ BondStatus \/ Ignored
  BY <1>3, <1>4 DEF Connected, BondStatus, Ignored
<1>5. CASE EndLink
  BY <1>5 DEF EndLink
<1>6. CASE RestoreWait
  BY <1>2, <1>3, <1>6 DEF RestoreWait, Good
<1>7. ~(Restart \/ Timeout \/ Disconnected)
  BY <1>2 DEF Restart, Timeout, Disconnected, Got
<1>8. ~(RestoreSend \/ ReadWait \/ WriteCell \/ Commit \/ SetNext \/ Clear)
  BY <1>1 DEF RestoreSend, ReadWait, WriteCell, Commit, SetNext, Clear
<1> QED BY <1>4, <1>5, <1>6, <1>7, <1>8 DEF Sketch

LEMMA LinkSketch == Inv /\ Sketch => LinkOK'
<1> SUFFICES ASSUME Inv, Sketch PROVE LinkOK'
  OBVIOUS
<1>1. TypeOK /\ LinkOK /\ rx \in Seq(Events) /\ tx \in Seq(Commands)
  BY DEF Inv, TypeOK
<1>2. UNCHANGED <<mode, sent>>
  BY DEF Sketch, Restart, Connected, BondStatus, Ignored, Timeout, Disconnected, EndLink,
     RestoreSend, RestoreWait, ReadWait, WriteCell, Commit, SetNext, Clear, radio
<1>3. mode' # "standby" => sent' = 0
  BY <1>1, <1>2 DEF LinkOK
<1>4. ASSUME rx # << >>, rx' = Tail(rx)
      PROVE  /\ Len(rx') = Len(rx) - 1 /\ Len(rx) \in Nat \ {0}
             /\ \A i \in 1 .. Len(rx') : rx'[i] = rx[i + 1] /\ i + 1 \in 2 .. Len(rx)
                                         /\ Ends(i)' = Ends(i + 1)
  <2>1. Len(rx') = Len(rx) - 1 /\ Len(rx) \in Nat \ {0} /\ \A i \in 1 .. Len(rx) - 1 : rx'[i] = rx[i + 1]
    BY <1>1, <1>4, TailAt
  <2> QED BY <2>1 DEF Ends
<1>5. ASSUME rx' = rx
      PROVE  Len(rx') = Len(rx) /\ Ending' = Ending /\ InLink' = InLink /\ \A i : Ends(i)' = Ends(i)
  BY <1>2, <1>5 DEF Ending, InLink, Ends
<1>6. CASE ~InLink
  <2>1. ~Ending /\ mode \notin {"bonding", "linked"}
    BY <1>6 DEF InLink
  <2>2. ~Ending'
    <3>1. CASE rx' = rx
      BY <1>5, <2>1, <3>1
    <3>2. CASE rx # << >> /\ rx' = Tail(rx)
      BY <1>4, <2>1, <3>2 DEF Ending
    <3> QED BY <3>1, <3>2, SketchTakes
  <2>3. ~InLink' /\ \A i \in 1 .. Len(rx') : ~Ends(i)'
    BY <1>2, <2>1, <2>2 DEF InLink, Ending
  <2> QED BY <1>3, <2>2, <2>3 DEF LinkOK
<1>7. CASE InLink
  <2>1. /\ pc \in {"loop", "pin", "restoreWait"} /\ tx \in Seq(SimpleCommands) /\ rx \in Seq(LinkEvents)
        /\ sent = 0
        /\ \A i \in 1 .. Len(rx) : rx[i].type \in HwTypes => \E j \in 1 .. i - 1 : Ends(j)
        /\ \A i, j \in 1 .. Len(rx) : Ends(i) /\ Ends(j) => i = j
        /\ Ending => mode \notin {"bonding", "linked"}
    BY <1>1, <1>7 DEF LinkOK
  <2>2. EndLink \/ (rx # << >> /\ rx' = Tail(rx))
    BY <2>1 DEF Sketch, Restart, Connected, BondStatus, Ignored, Timeout, Disconnected, Got,
       RestoreSend, RestoreWait, ReadWait, WriteCell, Commit, SetNext, Clear
  <2>3. ASSUME pc' \in {"loop", "pin", "restoreWait"} PROVE tx' \in Seq(SimpleCommands)
    <3>1. tx' = tx \/ \E c \in SimpleCommands : tx' = Append(tx, c)
      BY <1>1, <2>1, <2>3, SketchSends DEF TxSends
    <3> QED BY <2>1, <3>1
  <2>4. CASE EndLink
    <3>1. pc' = "loop" /\ rx' = rx
      BY <2>4 DEF EndLink
    <3>2. tx' \in Seq(SimpleCommands)
      BY <2>3, <3>1
    <3>3. \A i : Ends(i)' = Ends(i)
      BY <1>5, <3>1
    <3> QED BY <1>2, <1>3, <1>5, <2>1, <3>1, <3>2, <3>3 DEF LinkOK
  <2>5. CASE rx # << >> /\ rx' = Tail(rx) /\ Ends(1)
    <3>1. 1 \in 1 .. Len(rx)
      BY <1>4, <2>5
    <3>2. \A i \in 1 .. Len(rx') : ~Ends(i)'
      BY <1>4, <2>1, <2>5, <3>1
    <3>3. ~Ending' /\ ~InLink'
      BY <1>2, <2>1, <2>5, <3>1, <3>2 DEF Ending, InLink
    <3> QED BY <1>3, <3>2, <3>3 DEF LinkOK
  <2>6. CASE rx # << >> /\ rx' = Tail(rx) /\ ~Ends(1)
    <3>1. pc' \in {"loop", "pin", "restoreWait"}
      BY <1>7, <2>6, LinkPc
    <3>2. tx' \in Seq(SimpleCommands)
      BY <2>3, <3>1
    <3>3. rx' \in Seq(LinkEvents)
      BY <2>1, <2>6, TailAt
    <3>4. \A i, j \in 1 .. Len(rx') : Ends(i)' /\ Ends(j)' => i = j
      BY <1>4, <2>1, <2>6
    <3>5. Ending' => Ending
      BY <1>4, <2>6 DEF Ending
    <3>6. ASSUME NEW i \in 1 .. Len(rx'), rx'[i].type \in HwTypes
          PROVE  \E j \in 1 .. i - 1 : Ends(j)'
      <4>1. PICK j \in 1 .. (i + 1) - 1 : Ends(j)
        BY <1>4, <2>1, <2>6, <3>6
      <4>2. j # 1
        BY <2>6, <4>1
      <4>3. j - 1 \in 1 .. i - 1 /\ j - 1 \in 1 .. Len(rx') /\ (j - 1) + 1 = j
        BY <1>4, <2>6, <4>2
      <4>4. Ends(j - 1)'
        BY <1>4, <2>6, <4>1, <4>3
      <4> QED BY <4>3, <4>4
    <3> QED BY <1>2, <1>3, <2>1, <3>1, <3>2, <3>3, <3>4, <3>5, <3>6 DEF LinkOK
  <2> QED BY <2>2, <2>4, <2>5, <2>6
<1> QED BY <1>6, <1>7

\* A link is made while the sketch waits for events, or for an answer in vain.
LEMMA LinkBegins ==
    ASSUME Inv, LinkMade
    PROVE  pc \in {"loop", "pin", "restoreWait"}
<1>1. rx = << >> /\ tx = << >> /\ mode # "standby"
  BY DEF LinkMade, Settled
<1>2. pc \notin {"clear", "halt"}
  BY <1>1 DEF Inv, BootOK, Booting
<1>3. pc # "restore"
  BY <1>1 DEF Inv, StandOK
<1>4. pc \notin {"readWait", "cells", "commit", "next"}
  BY <1>1 DEF Inv, ReadOK, Foul, Asked, Answered, Took
<1> QED BY <1>2, <1>3, <1>4 DEF Inv, TypeOK

LEMMA LinkNext == Inv /\ [Next]_vars => LinkOK'
<1> SUFFICES ASSUME Inv, [Next]_vars PROVE LinkOK'
  OBVIOUS
<1>1. TypeOK /\ LinkOK /\ rx \in Seq(Events) /\ tx \in Seq(Commands) /\ Len(rx) \in Nat
  BY DEF Inv, TypeOK
<1>2. /\ Ending => mode \notin {"bonding", "linked"}
      /\ \A i, j \in 1 .. Len(rx) : Ends(i) /\ Ends(j) => i = j
      /\ InLink => /\ pc \in {"loop", "pin", "restoreWait"} /\ sent = 0
                   /\ tx \in Seq(SimpleCommands) /\ rx \in Seq(LinkEvents)
                   /\ \A i \in 1 .. Len(rx) :
                         rx[i].type \in HwTypes => \E j \in 1 .. i - 1 : Ends(j)
  BY <1>1 DEF LinkOK
<1>3. ASSUME NEW e \in Events, rx' = Append(rx, e)
      PROVE  /\ Len(rx') = Len(rx) + 1 /\ rx'[Len(rx) + 1] = e
             /\ \A i \in 1 .. Len(rx) : rx'[i] = rx[i] /\ (Ends(i)' <=> Ends(i))
             /\ \A i : i = Len(rx) + 1 => (Ends(i)' <=> e.type = "disconnected")
             /\ Ending' <=> Ending \/ e.type = "disconnected"
  <2>1. Len(rx') = Len(rx) + 1 /\ rx'[Len(rx) + 1] = e /\ \A i \in 1 .. Len(rx) : rx'[i] = rx[i]
    BY <1>1, <1>3, AppendAt
  <2>2. /\ \A i \in 1 .. Len(rx) : Ends(i)' <=> Ends(i)
        /\ \A i : i = Len(rx) + 1 => (Ends(i)' <=> e.type = "disconnected")
    BY <2>1, Zenon DEF Ends
  <2>3. \A i \in 1 .. Len(rx') : i \in 1 .. Len(rx) \/ i = Len(rx) + 1
    BY <1>1, <2>1
  <2>4. (\A i \in 1 .. Len(rx) : i \in 1 .. Len(rx')) /\ Len(rx) + 1 \in 1 .. Len(rx')
    BY <1>1, <2>1
  <2>5. Ending' <=> Ending \/ e.type = "disconnected"
    BY <2>2, <2>3, <2>4, Zenon DEF Ending
  <2> QED BY <2>1, <2>2, <2>5
\* An event more that does not end the link, in a link that goes on
<1>4. ASSUME NEW e \in Events, rx' = Append(rx, e), e.type # "disconnected",
             mode' # "standby" => sent' = 0,
             mode' \in {"bonding", "linked"} => ~Ending,
             InLink' => /\ InLink \/ rx = << >>
                        /\ pc' \in {"loop", "pin", "restoreWait"} /\ sent' = 0
                        /\ tx' \in Seq(SimpleCommands) /\ e \in LinkEvents
                        /\ e.type \in HwTypes => Ending
      PROVE  LinkOK'
  <2>1. (Ending' <=> Ending) /\ \A i \in 1 .. Len(rx') : i \in 1 .. Len(rx) \/ i = Len(rx) + 1
    BY <1>1, <1>3, <1>4
  <2>2. \A i, j \in 1 .. Len(rx') : Ends(i)' /\ Ends(j)' => i = j
    BY <1>2, <1>3, <1>4, <2>1
  <2>3. InLink' => rx' \in Seq(LinkEvents)
    <3>1. InLink' => rx \in Seq(LinkEvents)
      BY <1>2, <1>4, NoneInSeq
    <3> QED BY <1>4, <3>1
  <2>4. ASSUME InLink', NEW i \in 1 .. Len(rx'), rx'[i].type \in HwTypes
        PROVE  \E j \in 1 .. i - 1 : Ends(j)'
    <3>1. CASE i \in 1 .. Len(rx)
      <4>1. InLink
        BY <1>1, <1>4, <2>4, <3>1
      <4>2. PICK j \in 1 .. i - 1 : Ends(j)
        BY <1>2, <1>3, <1>4, <2>4, <3>1, <4>1
      <4>3. j \in 1 .. Len(rx)
        BY <1>1, <3>1
      <4> QED BY <1>3, <1>4, <4>2, <4>3
    <3>2. CASE i = Len(rx) + 1
      <4>1. Ending
        BY <1>3, <1>4, <2>4, <3>2
      <4>2. PICK j \in 1 .. Len(rx) : Ends(j)
        BY <4>1 DEF Ending
      <4>3. j \in 1 .. i - 1
        BY <1>1, <3>2
      <4> QED BY <1>3, <1>4, <4>2, <4>3
    <3> QED BY <2>1, <3>1, <3>2
  <2> QED BY <1>4, <2>1, <2>2, <2>3, <2>4 DEF LinkOK
<1>5. CASE Boot
  <2>1. mode' = "standby" /\ rx' = <<Plain("started")>> /\ Plain("started").type = "started"
    BY <1>5, PlainIs DEF Boot, Types
  <2>2. \A i \in 1 .. Len(rx') : ~Ends(i)'
    BY <2>1 DEF Ends
  <2>3. ~Ending' /\ ~InLink'
    BY <2>1, <2>2 DEF Ending, InLink
  <2> QED BY <2>1, <2>2, <2>3 DEF LinkOK
<1>6. CASE Answer
  <2>1. PICK e \in Events : /\ rx' = Append(rx, e) /\ e.type = "rsp"
                            /\ Good(e) => Head(tx).type \in {"read", "write"}
    BY <1>1, <1>6, AnswerIs
  <2>2. /\ tx # << >> /\ tx' = Tail(tx) /\ mode' \in {mode, "bond", "connect"} /\ pc' = pc
        /\ Head(tx).type # "read" \/ mode' # "standby" => sent' = 0
    BY <1>1, <1>6, AnswerIs DEF Answer
  <2>3. Ending' <=> Ending
    BY <1>3, <2>1
  <2>4. InLink' => InLink
    BY <2>2, <2>3 DEF InLink
  <2>5. ASSUME InLink PROVE Head(tx).type \in SimpleTypes /\ tx' \in Seq(SimpleCommands)
    BY <1>2, <2>2, <2>5, TailAt DEF SimpleCommands
  <2>6. InLink => e \in LinkEvents /\ sent' = 0
    BY <2>1, <2>2, <2>5 DEF LinkEvents, SimpleTypes
  <2>7. mode' \in {"bonding", "linked"} => ~Ending
    BY <1>2, <2>2
  <2> QED BY <1>2, <1>4, <2>1, <2>2, <2>4, <2>5, <2>6, <2>7 DEF HwTypes
<1>7. CASE AdvertTimeout
  <2>1. PICK e \in Events : rx' = Append(rx, e) /\ e.type = "timeout"
    BY <1>7, LinkSays DEF Says
  <2>2. mode' = "standby" /\ rx = << >>
    BY <1>7 DEF AdvertTimeout, Settled
  <2>3. ~Ending /\ ~Ending'
    <3>1. ~Ending
      BY <2>2 DEF Ending
    <3> QED BY <1>3, <2>1, <3>1
  <2>4. ~InLink'
    BY <2>2, <2>3 DEF InLink
  <2> QED BY <1>4, <2>1, <2>2, <2>4
<1>8. CASE LinkMade \/ BondMade
  <2>1. PICK e \in Events : rx' = Append(rx, e) /\ e.type \in {"connected", "bond"}
    BY <1>8, LinkSays DEF Says
  <2>2. /\ rx = << >> /\ tx = << >> /\ mode # "standby" /\ UNCHANGED <<pc, tx, sent>>
        /\ BondMade => mode = "bonding"
    BY <1>8 DEF LinkMade, BondMade, Settled, program
  <2>3. ~Ending
    BY <2>2 DEF Ending
  <2>4. sent' = 0
    BY <1>1, <2>2 DEF LinkOK
  <2>5. pc \in {"loop", "pin", "restoreWait"}
    <3>1. CASE LinkMade
      BY <3>1, LinkBegins
    <3>2. CASE BondMade
      BY <1>2, <2>2, <3>2 DEF InLink
    <3> QED BY <1>8, <3>1, <3>2
  <2>6. e \in LinkEvents
    BY <2>1 DEF LinkEvents, Good
  <2>7. tx' \in Seq(SimpleCommands)
    BY <2>2
  <2> QED BY <1>4, <2>1, <2>2, <2>3, <2>4, <2>5, <2>6, <2>7 DEF HwTypes
<1>9. CASE LinkLost
  <2>1. PICK e \in Events : rx' = Append(rx, e) /\ e.type = "disconnected"
    BY <1>9, LinkSays DEF Says
  <2>2. mode \in {"bonding", "linked"} /\ mode' = "standby" /\ UNCHANGED <<pc, tx, sent>>
    BY <1>9 DEF LinkLost, program
  <2>3. InLink /\ ~Ending
    BY <1>2, <2>2 DEF InLink
  <2>4. \A i \in 1 .. Len(rx) : ~Ends(i) /\ rx[i].type \notin HwTypes
    <3>1. \A i \in 1 .. Len(rx) : ~Ends(i)
      BY <2>3 DEF Ending
    <3>2. \A i \in 1 .. Len(rx) : \A j \in 1 .. i - 1 : j \in 1 .. Len(rx)
      BY <1>1
    <3> QED BY <1>2, <2>3, <3>1, <3>2
  <2>5. \A i \in 1 .. Len(rx') : i \in 1 .. Len(rx) \/ i = Len(rx) + 1
    BY <1>1, <1>3, <2>1
  <2>6. \A i, j \in 1 .. Len(rx') : Ends(i)' /\ Ends(j)' => i = j
    BY <1>3, <2>1, <2>4, <2>5
  <2>7. \A i \in 1 .. Len(rx') : rx'[i].type \notin HwTypes
    BY <1>3, <2>1, <2>4, <2>5 DEF HwTypes
  <2>8. rx' \in Seq(LinkEvents)
    <3>1. e \in LinkEvents /\ rx \in Seq(LinkEvents)
      BY <1>2, <2>1, <2>3 DEF LinkEvents, Good
    <3> QED BY <2>1, <3>1
  <2> QED BY <1>2, <2>2, <2>3, <2>6, <2>7, <2>8 DEF LinkOK
<1>10. CASE HwError
  <2>1. PICK a \in HwEvents, b \in HwEvents : rx' = Append(Append(rx, a), b)
    BY <1>1, <1>10, HwErrorIs
  <2>2. /\ mode' = "standby" /\ sent' = 0 /\ pc' = pc
        /\ tx' = tx \/ (tx # << >> /\ tx' = Tail(tx))
    BY <1>1, <1>10, HwErrorIs
  <2> DEFINE q == Append(rx, a)
  <2>3. a \in Events /\ b \in Events /\ a \in LinkEvents /\ b \in LinkEvents
        /\ a.type # "disconnected" /\ b.type # "disconnected"
    BY DEF HwEvents, HwTypes, LinkEvents, Good
  <2>4. q \in Seq(Events) /\ Len(q) = Len(rx) + 1 /\ q[Len(rx) + 1] = a /\ \A i \in 1 .. Len(rx) : q[i] = rx[i]
    BY <1>1, <2>3, AppendAt
  <2> HIDE DEF q
  <2>5. /\ Len(rx') = Len(q) + 1 /\ rx'[Len(q) + 1] = b /\ \A i \in 1 .. Len(q) : rx'[i] = q[i]
    <3>1. rx' = Append(q, b)
      BY <2>1 DEF q
    <3> QED BY <2>3, <2>4, <3>1, AppendAt
  <2>6. /\ Len(rx') = Len(rx) + 2 /\ rx'[Len(rx) + 1] = a /\ rx'[Len(rx) + 2] = b
        /\ \A i \in 1 .. Len(rx) : rx'[i] = rx[i]
    BY <1>1, <2>4, <2>5
  <2>7. \A i \in 1 .. Len(rx') : i \in 1 .. Len(rx) \/ i = Len(rx) + 1 \/ i = Len(rx) + 2
    BY <1>1, <2>6
  <2>8. /\ \A i \in 1 .. Len(rx) : Ends(i)' = Ends(i)
        /\ \A i \in 1 .. Len(rx') : Ends(i)' => i \in 1 .. Len(rx)
    BY <2>3, <2>6, <2>7 DEF Ends
  <2>9. (Ending' => Ending) /\ \A i, j \in 1 .. Len(rx') : Ends(i)' /\ Ends(j)' => i = j
    BY <1>2, <2>8 DEF Ending
  <2>10. InLink' => InLink /\ Ending
    BY <2>2, <2>9 DEF InLink
  <2>11. InLink' => tx' \in Seq(SimpleCommands) /\ rx' \in Seq(LinkEvents)
    <3>1. InLink' => tx' \in Seq(SimpleCommands)
      <4>1. tx # << >> /\ tx \in Seq(SimpleCommands) => Tail(tx) \in Seq(SimpleCommands)
        BY TailAt
      <4> QED BY <1>2, <2>2, <2>10, <4>1
    <3>2. InLink' => rx' \in Seq(LinkEvents)
      BY <1>2, <2>1, <2>3, <2>10
    <3> QED BY <3>1, <3>2
  <2>12. ASSUME InLink', NEW i \in 1 .. Len(rx'), rx'[i].type \in HwTypes
         PROVE  \E j \in 1 .. i - 1 : Ends(j)'
    <3>1. CASE i \in 1 .. Len(rx)
      <4>1. PICK j \in 1 .. i - 1 : Ends(j)
        BY <1>2, <2>6, <2>10, <2>12, <3>1
      <4>2. j \in 1 .. Len(rx)
        BY <1>1, <3>1
      <4> QED BY <2>8, <4>1, <4>2
    <3>2. CASE i \in {Len(rx) + 1, Len(rx) + 2}
      <4>1. PICK j \in 1 .. Len(rx) : Ends(j)
        BY <2>10, <2>12 DEF Ending
      <4>2. j \in 1 .. i - 1
        BY <1>1, <3>2
      <4> QED BY <2>8, <4>1, <4>2
    <3> QED BY <2>7, <3>1, <3>2
  <2> QED BY <1>2, <2>2, <2>9, <2>10, <2>11, <2>12 DEF LinkOK
<1>11. CASE Press \/ UNCHANGED vars
  <2>1. UNCHANGED <<pc, tx, rx, mode, sent>>
    BY <1>11 DEF Press, vars, radio
  <2> QED BY <1>1, <2>1 DEF LinkOK, InLink, Ending, Ends
<1>12. CASE Sketch
  BY <1>12, LinkSketch
<1> QED BY <1>5, <1>6, <1>7, <1>8, <1>9, <1>10, <1>11, <1>12 DEF Next

-----------------------------------------------------------------------------
(* Where things are *)

\* Cells elsewhere, and the first opcode, do not matter.
LEMMA HoldsKept ==
    ASSUME NEW e, NEW f, NEW s \in Nat, NEW p, NEW n \in Nat, Holds(e, s, p, n),
           \A a \in s .. s + 3 * n - 1 : a # s + 1 => f[a] = e[a]
    PROVE  Holds(f, s, p, n)
<1> SUFFICES ASSUME NEW j \in 1 .. n
             PROVE  f[s + 3 * (j - 1)] = 2 /\ f[s + 3 * (j - 1) + 2] = Piece(p, j)
  BY DEF Holds
<1>1. /\ s + 3 * (j - 1) \in s .. s + 3 * n - 1 /\ s + 3 * (j - 1) + 2 \in s .. s + 3 * n - 1
      /\ s + 3 * (j - 1) # s + 1 /\ s + 3 * (j - 1) + 2 # s + 1
  OBVIOUS
<1> QED BY <1>1 DEF Holds

LEMMA HoldsMore ==
    ASSUME NEW e, NEW s \in Nat, NEW p, NEW n \in Nat \ {0}, Holds(e, s, p, n - 1),
           e[s + 3 * (n - 1)] = 2, e[s + 3 * (n - 1) + 2] = Piece(p, n)
    PROVE  Holds(e, s, p, n)
<1>1. \A j \in 1 .. n : j \in 1 .. n - 1 \/ j = n
  OBVIOUS
<1> QED BY <1>1 DEF Holds

LEMMA UncutNext == Inv /\ [Next]_vars /\ Uncut' => (Uncut /\ ~Clear) \/ (Clear /\ pc' = "halt")
<1> SUFFICES ASSUME Inv, [Next]_vars, Uncut'
             PROVE  (Uncut /\ ~Clear) \/ (Clear /\ pc' = "halt")
  OBVIOUS
<1>1. CASE Clear
  <2>1. at \in 0 .. 3 /\ at' = at + 1 /\ (pc' = "halt" \/ pc' = "clear")
    BY <1>1 DEF Clear, Inv, BootOK
  <2> QED BY <1>1, <2>1 DEF Uncut
<1>2. CASE Sketch /\ ~Clear
  <2>1. pc # "clear"
    BY <1>2, SketchRuns
  <2>2. tidy' => tidy
    BY <1>2 DEF Sketch, Restart, Connected, BondStatus, Ignored, Timeout, Disconnected, EndLink,
       RestoreSend, RestoreWait, ReadWait, WriteCell, Commit, SetNext, rest
  <2> QED BY <1>2, <2>1, <2>2 DEF Uncut
<1>3. CASE Boot
  <2>1. pc' # "halt"
    BY <1>3 DEF Boot
  <2>2. ~Clear
    BY <1>3, <2>1 DEF Boot, Clear, rest
  <2> QED BY <1>3, <2>2 DEF Boot, Uncut
<1>4. CASE ~Clear /\ UNCHANGED <<tidy, pc, at>>
  BY <1>4 DEF Uncut
<1>5. CASE Press \/ Answer \/ AdvertTimeout \/ LinkMade \/ BondMade \/ LinkLost \/ HwError \/ UNCHANGED vars
  BY <1>1, <1>4, <1>5 DEF Press, Answer, AdvertTimeout, LinkMade, BondMade, LinkLost, HwError,
     program, local, rest, vars
<1> QED BY <1>1, <1>2, <1>3, <1>5 DEF Next

\* While a bond is read, its place is free, and behind what there is.
LEMMA ReadingAt ==
    ASSUME Inv, Uncut, pc \in {"readWait", "cells", "commit"}
    PROVE  /\ ~Booting /\ number = index /\ index \in 0 .. 1 /\ left \in 1 .. Msgs
           /\ Start \in Nat /\ 4 <= Start /\ Start <= Erased /\ Start + 3 * Msgs <= Top
           /\ Clear4(Start)
           /\ offset = Start + 3 * (left - 1) + Written
           /\ pc = "cells" => /\ at \in 1 .. 3 /\ offset = Start + 3 * (left - 1) + (at - 1)
                              /\ offset \in 4 .. Top
           /\ pc = "commit" => left = Msgs /\ offset = Start + 3 * Msgs
           /\ index = 0 => ~Exists(0) /\ ~Exists(1) /\ eeprom[3] = Erased
                           /\ Start = eeprom[1] /\ End0 <= Erased
           /\ index = 1 => Exists(0) /\ ~Exists(1) /\ Start = eeprom[3] /\ End0 <= Start
                           /\ eeprom[1] \in Nat /\ Clear4(eeprom[1]) /\ 4 <= eeprom[1]
<1>1. ~Booting
  BY DEF Inv, BootOK
<1>2. TypeOK /\ CountOK /\ BondsOK /\ ReadOK
  BY DEF Inv
<1>3. eeprom[1] \in Nat /\ eeprom[3] \in Nat /\ Msgs \in Nat \ {0} /\ Erased \in Nat /\ Top \in Nat
      /\ Erased + 3 * Msgs <= Top
  BY <1>2, Sizes DEF TypeOK
<1>4. /\ number = index /\ left \in 1 .. Msgs
      /\ pc = "cells" => at \in 1 .. 3
      /\ pc = "commit" => left = Msgs
  BY <1>2, Sizes DEF ReadOK, Reading
<1>5. /\ index \in 0 .. 1
      /\ index = 0 => Clear4(Start) /\ Start + 3 * Msgs <= Erased
      /\ index = 1 => End0 <= Start
      /\ Start <= Erased
      /\ offset = Start + 3 * (left - 1) + Written
  BY <1>2 DEF CountOK
<1>6. (Exists(0) <=> number > 0) /\ (Exists(1) <=> number = 2)
  BY <1>1, <1>2 DEF CountOK
<1>7. /\ index = 0 => ~Exists(0) /\ ~Exists(1) /\ eeprom[3] = Erased
                      /\ Start = eeprom[1] /\ End0 <= Erased
      /\ index = 1 => Exists(0) /\ ~Exists(1) /\ Start = eeprom[3] /\ Clear4(eeprom[1])
  BY <1>2, <1>4, <1>5, <1>6 DEF BondsOK, Start, End0
<1>8. Clear4(eeprom[1]) => 4 <= eeprom[1]
  BY <1>3 DEF Clear4
<1>9. Start \in Nat /\ Clear4(Start) /\ 4 <= Start /\ Start + 3 * Msgs <= Top
  BY <1>3, <1>5, <1>7, <1>8 DEF Clear4, End0
<1>10. pc = "cells" => /\ offset = Start + 3 * (left - 1) + (at - 1)
                       /\ offset \in 4 .. Top
  BY <1>3, <1>4, <1>5, <1>9 DEF Written
<1>11. pc = "commit" => offset = Start + 3 * Msgs
  BY <1>3, <1>4, <1>5, <1>9 DEF Written
<1> QED BY <1>1, <1>3, <1>4, <1>5, <1>7, <1>8, <1>9, <1>10, <1>11

\* What a write behind the header leaves alone
LEMMA BehindHeader ==
    ASSUME TypeOK, NEW a \in 4 .. Top, NEW v, eeprom' = [eeprom EXCEPT ![a] = v]
    PROVE  /\ eeprom'[a] = v
           /\ \A b \in 0 .. Top : b # a => eeprom'[b] = eeprom[b]
           /\ \A b \in 0 .. 3 : eeprom'[b] = eeprom[b]
           /\ \A k \in 0 .. 1 : Exists(k)' = Exists(k)
<1>1. eeprom \in [0 .. Top -> Nat] /\ 7 <= Top /\ Top \in Nat
  BY Sizes DEF TypeOK
<1>2. eeprom'[a] = v /\ \A b \in 0 .. Top : b # a => eeprom'[b] = eeprom[b]
  BY <1>1
<1>3. \A b \in 0 .. 3 : b \in 0 .. Top /\ b # a
  BY <1>1
<1>4. \A k \in 0 .. 1 : 2 * k \in 0 .. 3
  OBVIOUS
<1> QED BY <1>2, <1>3, <1>4 DEF Exists

-----------------------------------------------------------------------------
(* The reading of a bond *)

LEMMA MessageIs ==
    ASSUME NEW p \in 0 .. Garbled, NEW n \in 1 .. Msgs
    PROVE  /\ Message(p, n) \in Events /\ Message(p, n).type = "rsp" /\ Good(Message(p, n))
           /\ Message(p, n).data = Piece(p, n) /\ Piece(p, n) \in Nat
           /\ Completes(Message(p, n)) <=> n = Msgs
<1>1. Piece(p, n) \in Nat
  BY Sizes, OwnerOf
<1>2. CASE n = Msgs
  BY <1>1, <1>2 DEF Message, Event, Events, Types, Good, Completes
<1>3. CASE n # Msgs
  BY <1>1, <1>3 DEF Message, Event, Events, Types, Good, Completes
<1> QED BY <1>2, <1>3

LEMMA HwBad == \A e \in HwEvents : e \in Events /\ ~Good(e)
BY DEF HwEvents, HwTypes, Good

RadioStep == Answer \/ AdvertTimeout \/ LinkMade \/ BondMade \/ LinkLost \/ HwError

LEMMA RadioLeaves ==
    RadioStep => UNCHANGED <<eeprom, ram, pc, local, committed, tidy>>
BY DEF RadioStep, Answer, AdvertTimeout, LinkMade, BondMade, LinkLost, HwError, program, rest

\* Standing by, without a command, the radio can do nothing but start again.
LEMMA QuietRadio ==
    ASSUME TypeOK, RadioStep, tx = << >>, mode = "standby"
    PROVE  /\ tx' = << >> /\ mode' = "standby" /\ rx' # << >>
           /\ rx \in Seq(HwEvents) => rx' \in Seq(HwEvents)
           /\ rx # << >> => Head(rx') = Head(rx)
           /\ rx # << >> /\ Tail(rx) \in Seq(HwEvents) =>
                  Tail(rx') \in Seq(HwEvents) /\ Tail(rx') # << >>
<1>1. HwError
  BY DEF RadioStep, Answer, AdvertTimeout, LinkMade, BondMade, LinkLost
<1>2. PICK a \in HwEvents, b \in HwEvents : rx' = Append(Append(rx, a), b)
  BY <1>1, HwErrorIs
<1>3. tx' = << >> /\ mode' = "standby"
  BY <1>1 DEF HwError
<1>4. rx \in Seq(Events) /\ a \in Events /\ b \in Events
  BY HwBad DEF TypeOK
<1> DEFINE q == Append(rx, a)
<1>5. /\ q \in Seq(Events) /\ q # << >>
      /\ rx # << >> => Head(q) = Head(rx) /\ Tail(q) = Append(Tail(rx), a)
  BY <1>4, AppendAt
<1>6. rx \in Seq(HwEvents) => q \in Seq(HwEvents)
  OBVIOUS
<1> HIDE DEF q
<1>7. Append(q, b) # << >> /\ Head(Append(q, b)) = Head(q) /\ Tail(Append(q, b)) = Append(Tail(q), b)
  BY <1>4, <1>5, AppendAt
<1>8. rx' = Append(q, b)
  BY <1>2 DEF q
<1>9. rx \in Seq(HwEvents) => rx' \in Seq(HwEvents)
  BY <1>6, <1>8
<1>10. ASSUME rx # << >>, Tail(rx) \in Seq(HwEvents)
       PROVE  Tail(rx') \in Seq(HwEvents) /\ Tail(rx') # << >>
  <2>1. Tail(q) \in Seq(HwEvents)
    <3>1. Append(Tail(rx), a) \in Seq(HwEvents)
      BY <1>10
    <3> QED BY <1>5, <1>10, <3>1, Zenon
  <2>2. Append(Tail(q), b) \in Seq(HwEvents) /\ Append(Tail(q), b) # << >>
    BY <2>1, AppendAt
  <2> QED BY <1>7, <1>8, <2>2
<1> QED BY <1>3, <1>5, <1>7, <1>8, <1>9, <1>10

\* What ends the reading is not taken back.
LEMMA FoulRadio == TypeOK /\ RadioStep /\ Foul => Foul'
<1> SUFFICES ASSUME TypeOK, RadioStep, Foul PROVE Foul'
  OBVIOUS
<1>1. rx \in Seq(Events)
  BY DEF TypeOK
<1>2. ~Settled
  BY DEF Foul, Settled
<1>3. CASE Answer
  <2>1. PICK e \in Events : /\ rx' = Append(rx, e) /\ e.type = "rsp"
                            /\ Good(e) => /\ Head(tx).type \in {"read", "write"}
                                           /\ mode' = "standby"
    BY <1>3, AnswerIs
  <2>2. CASE rx # << >> /\ ~Good(Head(rx))
    <3>1. rx' # << >> /\ Head(rx') = Head(rx)
      BY <1>1, <2>1, <2>2, AppendAt
    <3> QED BY <2>2, <3>1 DEF Foul
  <2>3. CASE rx = << >>
    <3>1. rx' # << >> /\ Head(rx') = e
      BY <1>1, <2>1, <2>3, AppendAt
    <3>2. ~Good(e)
      <4>1. CASE Head(tx).type \in SimpleTypes
        BY <2>1, <4>1 DEF SimpleTypes
      <4>2. CASE Head(tx).type = "read" /\ mode # "standby"
        <5>1. Refused(Head(tx))
          BY <1>3, <4>2 DEF Answer, Advertising, Simple, ReadOut, WrittenBack
        <5>2. mode' = mode
          BY <5>1 DEF Refused
        <5> QED BY <2>1, <4>2, <5>2
      <4> QED BY <2>3, <4>1, <4>2 DEF Foul
    <3> QED BY <3>1, <3>2 DEF Foul
  <2> QED BY <2>2, <2>3 DEF Foul
<1>4. CASE LinkLost
  <2>1. PICK e \in Events : rx' = Append(rx, e)
    BY <1>4, LinkSays DEF Says
  <2>2. rx # << >> /\ ~Good(Head(rx))
    BY <1>4 DEF LinkLost, Foul
  <2>3. rx' # << >> /\ Head(rx') = Head(rx)
    BY <1>1, <2>1, <2>2, AppendAt
  <2> QED BY <2>2, <2>3 DEF Foul
<1>5. CASE HwError
  <2>1. PICK a \in HwEvents, b \in HwEvents : rx' = Append(Append(rx, a), b)
    BY <1>5, HwErrorIs
  <2>2. a \in Events /\ b \in Events /\ ~Good(a)
    BY HwBad
  <2> DEFINE q == Append(rx, a)
  <2>3. q \in Seq(Events) /\ q # << >> /\ ~Good(Head(q))
    <3>1. CASE rx = << >>
      BY <1>1, <2>2, <3>1, AppendAt
    <3>2. CASE rx # << >>
      <4>1. q \in Seq(Events) /\ q # << >> /\ Head(q) = Head(rx)
        BY <1>1, <2>2, <3>2, AppendAt
      <4>2. ~Good(Head(rx))
        BY <3>2 DEF Foul
      <4> HIDE DEF q
      <4> QED BY <4>1, <4>2
    <3> QED BY <3>1, <3>2
  <2> HIDE DEF q
  <2>4. Append(q, b) # << >> /\ Head(Append(q, b)) = Head(q)
    BY <2>2, <2>3, AppendAt
  <2>5. rx' = Append(q, b)
    BY <2>1 DEF q
  <2> QED BY <2>3, <2>4, <2>5 DEF Foul
<1>6. ~(AdvertTimeout \/ LinkMade \/ BondMade)
  BY <1>2 DEF AdvertTimeout, LinkMade, BondMade
<1> QED BY <1>3, <1>4, <1>5, <1>6 DEF RadioStep

\* The next message comes, or the reading ends.
LEMMA AskedRadio ==
    ASSUME TypeOK, RadioStep, NEW p \in 0 .. Garbled, left \in 1 .. Msgs, Asked(p)
    PROVE  Foul' \/ Answered(p)'
<1>1. /\ rx = << >> /\ tx = <<Command("read")>> /\ mode = "standby"
      /\ held = p /\ sent = left - 1 /\ Command("read").type = "read"
  BY CommandIs DEF Asked
<1>2. tx # << >> /\ Head(tx) = Command("read") /\ Tail(tx) = << >>
  BY <1>1
<1>3. CASE HwError
  <2>1. PICK a \in HwEvents, b \in HwEvents : rx' = Append(Append(rx, a), b)
    BY <1>3, HwErrorIs
  <2>2. Append(rx, a) \in Seq(Events) /\ Append(rx, a) # << >> /\ Head(Append(rx, a)) = a
        /\ b \in Events /\ ~Good(a)
    <3>1. a \in Events /\ b \in Events /\ ~Good(a) /\ rx \in Seq(Events)
      BY HwBad DEF TypeOK
    <3> QED BY <1>1, <3>1, AppendAt
  <2>3. rx' # << >> /\ Head(rx') = a
    BY <2>1, <2>2, AppendAt
  <2> QED BY <2>2, <2>3 DEF Foul
<1>4. CASE Answer
  <2>1. tx' = << >> /\ UNCHANGED <<left, msg>>
    BY <1>2, <1>4 DEF Answer, local
  <2>2. ReadOut(Command("read")) \/ Refused(Command("read"))
    BY <1>1, <1>2, <1>4 DEF Answer, Advertising, Simple, WrittenBack
  <2>3. CASE Refused(Command("read"))
    <3>1. rx' = <<Event("rsp", "error", 0)>>
      BY <1>1, <2>3 DEF Refused, Response, Report
    <3>2. rx' # << >> /\ Head(rx') = Event("rsp", "error", 0)
      BY <3>1
    <3>3. ~Good(Event("rsp", "error", 0))
      BY DEF Good, Event
    <3> QED BY <3>2, <3>3 DEF Foul
  <2>4. CASE ReadOut(Command("read"))
    <3>1. left \in Nat /\ Msgs \in Nat \ {0} /\ sent + 1 = left
      BY <1>1, Sizes
    <3>2. /\ sent' = left % Msgs /\ held' = p /\ mode' = "standby"
          /\ Response(IF left = Msgs THEN "complete" ELSE "continue", Piece(p, left))
      BY <1>1, <2>4, <3>1 DEF ReadOut
    <3>3. rx' = <<Message(p, left)>>
      BY <1>1, <3>2 DEF Response, Report, Message
    <3>4. rx' # << >> /\ Head(rx') = Message(p, left) /\ Tail(rx') = << >>
      BY <3>3
    <3>5. Message(p, left)' = Message(p, left)
      BY <2>1 DEF Message
    <3>6. Tail(rx') \in Seq(HwEvents)
      BY <3>4, NoneInSeq
    <3> QED BY <2>1, <3>2, <3>4, <3>5, <3>6 DEF Answered, Calm
  <2> QED BY <2>2, <2>3, <2>4
<1>5. ~(AdvertTimeout \/ LinkMade \/ BondMade \/ LinkLost)
  BY <1>1, <1>2 DEF AdvertTimeout, LinkMade, BondMade, LinkLost
<1> QED BY <1>3, <1>4, <1>5 DEF RadioStep

LEMMA AnsweredRadio ==
    ASSUME TypeOK, RadioStep, NEW p, Answered(p)
    PROVE  Answered(p)'
<1>1. /\ rx # << >> /\ Head(rx) = Message(p, left) /\ Tail(rx) \in Seq(HwEvents)
      /\ tx = << >> /\ mode = "standby"
  BY DEF Answered
<1>2. /\ tx' = << >> /\ mode' = "standby" /\ rx' # << >> /\ Head(rx') = Head(rx)
      /\ Tail(rx') \in Seq(HwEvents) /\ Tail(rx') # << >>
  BY <1>1, QuietRadio
<1>3. Message(p, left)' = Message(p, left)
  BY RadioLeaves DEF Message, local
<1> QED BY <1>1, <1>2, <1>3 DEF Answered

LEMMA TookRadio ==
    ASSUME TypeOK, RadioStep, NEW p, Took(p)
    PROVE  Took(p)'
<1>1. msg = Message(p, left) /\ tx = << >> /\ mode = "standby" /\ rx \in Seq(HwEvents)
  BY DEF Took
<1>2. tx' = << >> /\ mode' = "standby" /\ rx' # << >> /\ rx' \in Seq(HwEvents)
  BY <1>1, QuietRadio
<1>3. msg' = msg /\ Message(p, left)' = Message(p, left)
  BY RadioLeaves DEF Message, local
<1> QED BY <1>1, <1>2, <1>3 DEF Took

LEMMA ReadRadio == Inv /\ RadioStep => ReadOK'
<1> SUFFICES ASSUME Inv, RadioStep PROVE ReadOK'
  OBVIOUS
<1>1. TypeOK /\ ReadOK
  BY DEF Inv
<1>2. UNCHANGED <<eeprom, number, bonded, pc, index, at, left, msg, tidy>>
  BY RadioLeaves DEF ram, local
<1>3. (Uncut' <=> Uncut) /\ Start' = Start
  BY <1>2 DEF Uncut, Start
<1>4. pc' \in Reading => ~bonded' /\ index' = number'
  BY <1>1, <1>2 DEF ReadOK
<1>5. CASE pc \notin Reading
  BY <1>2, <1>5 DEF ReadOK, Reading
<1>6. CASE pc = "readWait"
  <2>1. left \in 1 .. Msgs
    BY <1>1, <1>6 DEF ReadOK
  <2>2. Foul' \/ \E p \in 0 .. Garbled : /\ Asked(p)' \/ Answered(p)'
                                         /\ Uncut => Holds(eeprom, Start, p, left - 1)
    <3>1. CASE Foul
      BY <1>1, <3>1, FoulRadio
    <3>2. ASSUME NEW p \in 0 .. Garbled, Asked(p) \/ Answered(p),
                 Uncut => Holds(eeprom, Start, p, left - 1)
          PROVE  Foul' \/ Answered(p)'
      BY <1>1, <2>1, <3>2, AskedRadio, AnsweredRadio
    <3> QED BY <1>1, <1>6, <3>1, <3>2 DEF ReadOK
  <2> QED BY <1>2, <1>3, <1>4, <1>6, <2>1, <2>2 DEF ReadOK
<1>7. CASE pc = "cells"
  <2>1. /\ left \in 1 .. Msgs /\ at \in 1 .. 3
        /\ \E p \in 0 .. Garbled :
              /\ Took(p)
              /\ Uncut => /\ Holds(eeprom, Start, p, left - 1)
                          /\ at > 1 => eeprom[Start + 3 * (left - 1)] = 2
    BY <1>1, <1>7 DEF ReadOK
  <2>2. \A p : Took(p) => Took(p)'
    BY <1>1, TookRadio
  <2> QED BY <1>2, <1>3, <1>4, <1>7, <2>1, <2>2 DEF ReadOK
<1>8. CASE pc = "commit"
  <2>1. left = Msgs /\ \E p \in 0 .. Garbled : Took(p) /\ (Uncut => Holds(eeprom, Start, p, Msgs))
    BY <1>1, <1>8 DEF ReadOK
  <2>2. \A p : Took(p) => Took(p)'
    BY <1>1, TookRadio
  <2> QED BY <1>2, <1>3, <1>4, <1>8, <2>1, <2>2 DEF ReadOK
<1>9. CASE pc = "next"
  <2>1. tx = << >> /\ mode = "standby" /\ rx \in Seq(HwEvents)
    BY <1>1, <1>9 DEF ReadOK
  <2>2. tx' = << >> /\ mode' = "standby" /\ rx' \in Seq(HwEvents)
    BY <1>1, <2>1, QuietRadio
  <2> QED BY <1>2, <1>4, <1>9, <2>2 DEF ReadOK
<1> QED BY <1>5, <1>6, <1>7, <1>8, <1>9 DEF Reading

\* The command for a message goes out: it is the next, or the reading ends.
LEMMA ReadSent ==
    ASSUME TypeOK, Send(Command("read")), UNCHANGED <<mode, held, sent>>,
           tx \in Seq(SimpleCommands), rx' \in Seq(Events),
           \A i \in 1 .. Len(rx') : ~Good(rx'[i]),
           rx' = << >> /\ tx = << >> /\ mode = "standby" => sent = left' - 1
    PROVE  Foul' \/ \E p \in 0 .. Garbled : Asked(p)'
<1>1. Command("read") \in Commands /\ Command("read").type = "read" /\ tx \in Seq(Commands)
      /\ held \in 0 .. Garbled
  BY CommandIs DEF TypeOK
<1>2. tx' \in Seq(Commands) /\ (tx = << >> => tx' = <<Command("read")>>)
      /\ (tx # << >> => tx' # << >> /\ Head(tx') = Head(tx))
  BY <1>1, SendIs
<1>3. CASE rx' # << >>
  <2>1. Head(rx') = rx'[1] /\ 1 \in 1 .. Len(rx')
    BY <1>3
  <2> QED BY <1>3, <2>1 DEF Foul
<1>4. CASE rx' = << >> /\ tx # << >>
  <2>1. Head(tx).type \in SimpleTypes
    BY <1>4, TailAt DEF SimpleCommands
  <2> QED BY <1>2, <1>4, <2>1 DEF Foul
<1>5. CASE rx' = << >> /\ tx = << >>
  <2>1. tx' # << >> /\ Head(tx') = Command("read")
    <3>1. \A c : <<c>> # << >> /\ Head(<<c>>) = c
      OBVIOUS
    <3> QED BY <1>2, <1>5, <3>1, Zenon
  <2>2. CASE mode # "standby"
    BY <1>1, <1>5, <2>1, <2>2 DEF Foul
  <2>3. CASE mode = "standby"
    BY <1>1, <1>2, <1>5, <2>3 DEF Asked
  <2> QED BY <2>2, <2>3
<1> QED BY <1>3, <1>4, <1>5

LEMMA ReadBegins == Inv /\ Disconnected => ReadOK'
<1> SUFFICES ASSUME Inv, Disconnected PROVE ReadOK'
  OBVIOUS
<1>1. TypeOK /\ LinkOK /\ rx \in Seq(Events)
  BY DEF Inv, TypeOK
<1>2. rx # << >> /\ rx' = Tail(rx) /\ Head(rx).type = "disconnected" /\ UNCHANGED <<mode, held, sent>>
  BY DEF Disconnected, Got, radio
<1>3. CASE ~bonded
  <2>1. pc' \in {"loop", "pin"}
    BY <1>3 DEF Disconnected, Advertise, Done
  <2> QED BY <2>1 DEF ReadOK, Reading
<1>4. CASE bonded
  <2>1. /\ ~bonded' /\ pc' = "readWait" /\ index' = number' /\ left' = 1 /\ Send(Command("read"))
    BY <1>4 DEF Disconnected
  <2>2. InLink
    <3>1. 1 \in 1 .. Len(rx) /\ Ends(1)
      BY <1>1, <1>2, TailAt DEF Ends
    <3> QED BY <3>1 DEF InLink, Ending
  <2>3. sent = 0 /\ tx \in Seq(SimpleCommands) /\ rx \in Seq(LinkEvents)
    BY <1>1, <2>2 DEF LinkOK
  <2>4. rx' \in Seq(LinkEvents)
    BY <1>2, <2>3, TailAt
  <2>5. \A i \in 1 .. Len(rx') : ~Good(rx'[i])
    BY <2>4 DEF LinkEvents
  <2>6. rx' \in Seq(Events)
    BY <1>1, <1>2, TailAt
  <2>7. sent = left' - 1
    BY <2>1, <2>3
  <2>8. Foul' \/ \E p \in 0 .. Garbled : Asked(p)'
    BY <1>1, <1>2, <2>1, <2>3, <2>5, <2>6, <2>7, ReadSent
  <2>9. left' \in 1 .. Msgs
    BY <2>1, Sizes
  <2>10. \A p : Holds(eeprom, Start, p, left - 1)'
    BY <2>1 DEF Holds
  <2> QED BY <2>1, <2>8, <2>9, <2>10 DEF ReadOK
<1> QED BY <1>3, <1>4

LEMMA ReadTakes == Inv /\ ReadWait => ReadOK'
<1> SUFFICES ASSUME Inv, ReadWait PROVE ReadOK'
  OBVIOUS
<1>1. TypeOK /\ ReadOK /\ pc = "readWait" /\ rx # << >> /\ rx' = Tail(rx)
      /\ UNCHANGED <<number, bonded, tidy, mode, held, sent>>
  BY DEF Inv, ReadWait, ram, rest, radio
<1>2. CASE ~Good(Head(rx))
  <2>1. pc' \in {"loop", "pin"}
    BY <1>2 DEF ReadWait, Good, Advertise, Done
  <2> QED BY <2>1 DEF ReadOK, Reading
<1>3. CASE Good(Head(rx))
  <2>1. msg' = Head(rx) /\ at' = 1 /\ pc' = "cells" /\ UNCHANGED <<eeprom, index, left, tx>>
    BY <1>3 DEF ReadWait, Good
  <2>2. ~bonded /\ index = number /\ left \in 1 .. Msgs
    BY <1>1 DEF ReadOK, Reading
  <2>3. PICK p \in 0 .. Garbled : Answered(p) /\ (Uncut => Holds(eeprom, Start, p, left - 1))
    BY <1>1, <1>3 DEF ReadOK, Foul, Asked
  <2>4. Took(p)'
    <3>1. Message(p, left)' = Message(p, left) /\ (Calm(p, left)' <=> Calm(p, left))
      BY <1>1, <2>1 DEF Message, Calm
    <3> QED BY <1>1, <2>1, <2>3, <3>1 DEF Answered, Took
  <2>5. (Uncut' => Uncut) /\ Start' = Start
    BY <1>1, <2>1 DEF Uncut, Start
  <2> QED BY <1>1, <2>1, <2>2, <2>3, <2>4, <2>5 DEF ReadOK
<1> QED BY <1>2, <1>3

LEMMA ReadCommits == Inv /\ Commit => ReadOK'
<1> SUFFICES ASSUME Inv, Commit PROVE ReadOK'
  OBVIOUS
<1>1. pc = "commit" /\ pc' = "next" /\ UNCHANGED <<index, number, bonded, tx, mode, rx>>
  BY DEF Commit, ram, local, radio
<1>2. ~bonded /\ index = number /\ tx = << >> /\ mode = "standby" /\ rx \in Seq(HwEvents)
  BY <1>1 DEF Inv, ReadOK, Reading, Took
<1> QED BY <1>1, <1>2 DEF ReadOK

LEMMA ReadWrites == Inv /\ WriteCell => ReadOK'
<1> SUFFICES ASSUME Inv, WriteCell PROVE ReadOK'
  OBVIOUS
<1>1. TypeOK /\ ReadOK /\ pc = "cells"
      /\ UNCHANGED <<number, bonded, index, msg, rx, tidy, mode, held, sent>>
  BY DEF Inv, WriteCell, radio, rest
<1>2. ~bonded /\ index = number /\ left \in 1 .. Msgs /\ at \in 1 .. 3 /\ Msgs \in Nat \ {0}
  BY <1>1, Sizes DEF ReadOK, Reading
<1>3. PICK p \in 0 .. Garbled :
        /\ Took(p)
        /\ Uncut => /\ Holds(eeprom, Start, p, left - 1)
                    /\ at > 1 => eeprom[Start + 3 * (left - 1)] = 2
  BY <1>1 DEF ReadOK
<1>4. /\ msg = Message(p, left) /\ tx = << >> /\ mode = "standby" /\ rx \in Seq(HwEvents)
      /\ rx = << >> => held = p /\ sent = left % Msgs
  BY <1>3 DEF Took, Calm
<1>5. (Completes(msg) <=> left = Msgs) /\ msg.data = Piece(p, left)
  BY <1>2, <1>4, MessageIs
<1>6. /\ at' = at + 1
      /\ eeprom' = [eeprom EXCEPT ![offset] = <<2, Opcode, msg.data>>[at]]
      /\ at < 3 => UNCHANGED <<pc, tx, left>>
      /\ at = 3 /\ left = Msgs => pc' = "commit" /\ UNCHANGED <<tx, left>>
      /\ at = 3 /\ left # Msgs => pc' = "readWait" /\ Send(Command("read")) /\ left' = left + 1
  BY <1>2, <1>5 DEF WriteCell
<1>7. (Uncut' => Uncut) /\ (pc' # "clear")
  BY <1>1, <1>2, <1>6 DEF Uncut
\* What is in the cells
<1>8. ASSUME Uncut
      PROVE  /\ Start' = Start /\ Holds(eeprom', Start, p, left - 1)
             /\ eeprom'[Start + 3 * (left - 1)] = 2
             /\ at = 3 => Holds(eeprom', Start, p, left)
  <2>1. /\ index \in 0 .. 1 /\ Start \in Nat /\ Start + 3 * Msgs <= Top
        /\ offset = Start + 3 * (left - 1) + (at - 1) /\ offset \in 4 .. Top /\ Top \in Nat
    BY <1>1, <1>8, ReadingAt, Sizes
  <2> DEFINE v == <<2, Opcode, msg.data>>[at]
  <2> HIDE DEF v
  <2>2. eeprom' = [eeprom EXCEPT ![offset] = v]
    BY <1>6 DEF v
  <2>3. /\ eeprom'[offset] = v
        /\ \A b \in 0 .. Top : b # offset => eeprom'[b] = eeprom[b]
        /\ \A b \in 0 .. 3 : eeprom'[b] = eeprom[b]
    BY <1>1, <2>1, <2>2, BehindHeader
  <2>4. Start' = Start
    <3>1. 2 * index + 1 \in 0 .. 3
      BY <2>1
    <3>2. eeprom'[2 * index + 1] = eeprom[2 * index + 1]
      BY <2>3, <3>1
    <3> QED BY <1>1, <3>2 DEF Start
  <2>5. Holds(eeprom', Start, p, left - 1)
    <3>1. \A a \in Start .. Start + 3 * (left - 1) - 1 : eeprom'[a] = eeprom[a]
      BY <1>2, <2>1, <2>3
    <3>2. Holds(eeprom, Start, p, left - 1) /\ left - 1 \in Nat
      BY <1>2, <1>3, <1>8
    <3> QED BY <2>1, <3>1, <3>2, HoldsKept
  <2>6. eeprom'[Start + 3 * (left - 1)] = 2
    <3>1. CASE at = 1
      <4>1. v = 2 /\ offset = Start + 3 * (left - 1)
        BY <1>2, <2>1, <3>1 DEF v
      <4> QED BY <2>3, <4>1
    <3>2. CASE at > 1
      <4>1. Start + 3 * (left - 1) \in 0 .. Top /\ Start + 3 * (left - 1) # offset
        BY <1>2, <2>1, <3>2
      <4> QED BY <1>3, <1>8, <2>3, <3>2, <4>1
    <3> QED BY <1>2, <3>1, <3>2
  <2>7. ASSUME at = 3 PROVE Holds(eeprom', Start, p, left)
    <3>1. v = Piece(p, left) /\ offset = Start + 3 * (left - 1) + 2
      BY <1>2, <1>5, <2>1, <2>7 DEF v
    <3>2. eeprom'[Start + 3 * (left - 1) + 2] = Piece(p, left)
      BY <2>3, <3>1
    <3>3. left \in Nat \ {0}
      BY <1>2
    <3> QED BY <2>1, <2>5, <2>6, <3>2, <3>3, HoldsMore
  <2> QED BY <2>4, <2>5, <2>6, <2>7
<1>9. CASE at < 3
  <2>1. pc' = "cells" /\ left' = left /\ tx' = tx /\ at' \in 1 .. 3
    BY <1>1, <1>2, <1>6, <1>9
  <2>2. Took(p)'
    <3>1. Message(p, left)' = Message(p, left) /\ (Calm(p, left)' <=> Calm(p, left))
      BY <1>1, <2>1 DEF Message, Calm
    <3> QED BY <1>1, <1>3, <2>1, <3>1 DEF Took
  <2>3. Uncut' => (Holds(eeprom, Start, p, left - 1) /\ eeprom[Start + 3 * (left - 1)] = 2)'
    BY <1>7, <1>8, <2>1
  <2> QED BY <1>1, <1>2, <2>1, <2>2, <2>3 DEF ReadOK
<1>10. CASE at = 3 /\ left = Msgs
  <2>1. pc' = "commit" /\ left' = left /\ tx' = tx
    BY <1>6, <1>10
  <2>2. Took(p)'
    <3>1. Message(p, left)' = Message(p, left) /\ (Calm(p, left)' <=> Calm(p, left))
      BY <1>1, <2>1 DEF Message, Calm
    <3> QED BY <1>1, <1>3, <2>1, <3>1 DEF Took
  <2>3. Uncut' => Holds(eeprom, Start, p, Msgs)'
    BY <1>7, <1>8, <1>10
  <2> QED BY <1>1, <1>2, <1>10, <2>1, <2>2, <2>3 DEF ReadOK
<1>11. CASE at = 3 /\ left # Msgs
  <2>1. pc' = "readWait" /\ Send(Command("read")) /\ left' = left + 1
    BY <1>6, <1>11
  <2>2. left' \in 1 .. Msgs /\ left' - 1 = left
    BY <1>2, <1>11, <2>1
  <2>3. rx' = rx /\ rx' \in Seq(Events) /\ \A i \in 1 .. Len(rx') : ~Good(rx'[i])
    BY <1>1, <1>4, HwBad DEF TypeOK
  <2>4. rx' = << >> => sent = left' - 1 /\ held = p
    <3>1. left % Msgs = left
      BY <1>2, <1>11
    <3> QED BY <1>4, <2>2, <2>3, <3>1
  <2>5. Foul' \/ Asked(p)'
    <3>1. CASE rx' # << >>
      <4>1. Head(rx') = rx'[1] /\ 1 \in 1 .. Len(rx')
        BY <2>3, <3>1
      <4> QED BY <2>3, <3>1, <4>1 DEF Foul
    <3>2. CASE rx' = << >>
      <4>1. tx' = <<Command("read")>>
        BY <1>1, <1>4, <2>1, SendIs, CommandIs
      <4> QED BY <1>1, <1>4, <2>4, <3>2, <4>1 DEF Asked
    <3> QED BY <3>1, <3>2
  <2>6. Uncut' => Holds(eeprom, Start, p, left - 1)'
    BY <1>7, <1>8, <1>11, <2>2
  <2> QED BY <1>1, <1>2, <2>1, <2>2, <2>5, <2>6 DEF ReadOK
<1> QED BY <1>2, <1>9, <1>10, <1>11

LEMMA ReadNext == Inv /\ [Next]_vars => ReadOK'
<1> SUFFICES ASSUME Inv, [Next]_vars PROVE ReadOK'
  OBVIOUS
<1>1. ASSUME pc' \notin Reading PROVE ReadOK'
  BY <1>1 DEF ReadOK, Reading
<1>2. Done \/ (\E n : Advertise(n)) \/ (\E b : Restored(b)) => pc' \in {"loop", "pin"}
  BY DEF Done, Advertise, Restored
<1>3. CASE Restart \/ Connected \/ BondStatus \/ Ignored \/ Timeout \/ EndLink
  BY <1>1, <1>2, <1>3 DEF Restart, Connected, BondStatus, Ignored, Timeout, EndLink, BeginRestore,
     Reading
<1>4. CASE RestoreSend
  BY <1>1, <1>2, <1>4 DEF RestoreSend, Reading
<1>5. CASE RestoreWait
  <2>1. pc = "restoreWait"
    BY <1>5 DEF RestoreWait
  <2>2. pc' \in {"loop", "pin", "restore", "restoreWait"}
    BY <1>2, <1>5, <2>1 DEF RestoreWait
  <2> QED BY <1>1, <2>2 DEF Reading
<1>6. CASE SetNext
  BY <1>1, <1>2, <1>6 DEF SetNext, Reading
<1>7. CASE Clear \/ Boot
  <2>1. pc' \in {"loop", "clear", "halt"}
    BY <1>7 DEF Clear, Boot
  <2> QED BY <1>1, <2>1 DEF Reading
<1>8. CASE Press \/ UNCHANGED vars
  <2>1. UNCHANGED <<eeprom, number, bonded, pc, index, at, left, msg, tidy, tx, rx, mode, held, sent>>
    BY <1>8 DEF Press, vars, ram, local, radio, rest
  <2>2. /\ (Uncut' <=> Uncut) /\ Start' = Start /\ (Foul' <=> Foul)
        /\ \A p : (Asked(p)' <=> Asked(p)) /\ (Answered(p)' <=> Answered(p)) /\ (Took(p)' <=> Took(p))
    BY <2>1 DEF Uncut, Start, Foul, Asked, Answered, Took, Calm, Message
  <2> QED BY <2>1, <2>2 DEF Inv, ReadOK
<1>9. CASE Disconnected
  BY <1>9, ReadBegins
<1>10. CASE ReadWait
  BY <1>10, ReadTakes
<1>11. CASE WriteCell
  BY <1>11, ReadWrites
<1>12. CASE Commit
  BY <1>12, ReadCommits
<1>13. CASE RadioStep
  BY <1>13, ReadRadio
<1> QED BY <1>3, <1>4, <1>5, <1>6, <1>7, <1>8, <1>9, <1>10, <1>11, <1>12, <1>13
        DEF Next, Sketch, RadioStep

-----------------------------------------------------------------------------
(* The bonds *)

LEMMA Running == Inv /\ Sketch /\ ~Clear /\ ~Restart => ~Booting
<1> SUFFICES ASSUME Inv, Sketch, ~Clear, ~Restart, Booting PROVE FALSE
  OBVIOUS
<1>1. rx # << >> /\ Head(rx).type = "started" /\ pc \in {"loop", "clear", "halt"}
  BY DEF Inv, BootOK, Booting
<1> QED BY <1>1 DEF Sketch, Connected, BondStatus, Ignored, Timeout, Disconnected, Got, EndLink,
        RestoreSend, RestoreWait, ReadWait, WriteCell, Commit, SetNext

\* No bond is on its way after a step that starts none.
LEMMA NoBondingKept ==
    ASSUME TypeOK, NoBonding, UNCHANGED mode,
           bonded' => bonded \/ (rx # << >> /\ Head(rx).type = "bond"),
           rx' = rx \/ (rx # << >> /\ rx' = Tail(rx)),
           tx' = tx \/ \E c \in Commands : c.type # "bond" /\ tx' = Append(tx, c)
    PROVE  NoBonding'
<1> DEFINE Others == {c \in Commands : c.type # "bond"}
<1>1. ~bonded /\ mode \notin {"bond", "bonding"} /\ tx \in Seq(Others) /\ rx \in Seq(Bondless)
  BY DEF NoBonding
<1>2. tx' \in Seq(Others)
  <2>1. CASE tx' = tx
    BY <1>1, <2>1
  <2>2. ASSUME NEW c \in Commands, c.type # "bond", tx' = Append(tx, c) PROVE tx' \in Seq(Others)
    <3>1. c \in Others
      BY <2>2
    <3> HIDE DEF Others
    <3> QED BY <1>1, <2>2, <3>1
  <2> QED BY <2>1, <2>2
<1>3. rx' \in Seq(Bondless)
  <2>1. rx # << >> => Tail(rx) \in Seq(Bondless)
    BY <1>1, TailAt
  <2> QED BY <1>1, <2>1
<1>4. ~bonded'
  <2>1. rx # << >> => Head(rx) \in Bondless
    BY <1>1, TailAt
  <2> QED BY <1>1, <2>1 DEF Bondless
<1> QED BY <1>1, <1>2, <1>3, <1>4 DEF NoBonding

\* What is sent but for a bond
Sends(n) ==
    \/ tx' = tx
    \/ \E c \in Commands : c.type # "bond" /\ tx' = Append(tx, c)
    \/ n < BONDS_MAX /\ tx' = Append(tx, Command("bond"))

LEMMA SendsIs ==
    TypeOK => /\ \A n \in Nat : Advertise(n) => Sends(n)
              /\ \A b \in BOOLEAN : Restored(b) => Sends(number)
              /\ \A c \in Commands : c.type # "bond" /\ Send(c) => Sends(number)
<1> SUFFICES ASSUME TypeOK
             PROVE  /\ \A n \in Nat : Advertise(n) => Sends(n)
                    /\ \A b \in BOOLEAN : Restored(b) => Sends(number)
                    /\ \A c \in Commands : c.type # "bond" /\ Send(c) => Sends(number)
  OBVIOUS
<1>1. Command("connect") \in Commands /\ Command("connect").type # "bond"
  BY CommandIs DEF SimpleTypes, SimpleCommands
<1>2. \A n \in Nat : Advertise(n) => Sends(n)
  BY <1>1, AdvertiseIs DEF Sends
<1>3. \A b \in BOOLEAN : Restored(b) => Sends(number)
  BY <1>1, RestoredIs DEF Sends
<1>4. \A c \in Commands : c.type # "bond" /\ Send(c) => Sends(number)
  BY SendIs DEF Sends
<1> QED BY <1>2, <1>3, <1>4

\* The steps of the sketch that leave the bonds and their number alone
LEMMA CountKept ==
    ASSUME Inv, Uncut, ~Booting, pc \notin Reading, pc' \notin Reading,
           UNCHANGED <<eeprom, number, offset, committed, mode>>,
           bonded' => bonded \/ (rx # << >> /\ Head(rx).type = "bond"),
           rx' = rx \/ (rx # << >> /\ rx' = Tail(rx)),
           Sends(number)
    PROVE  CountOK' /\ BondsOK'
<1>1. TypeOK /\ CountOK /\ BondsOK
  BY DEF Inv
<1>2. /\ \A k : Exists(k)' = Exists(k) /\ Whole(k)' = Whole(k)
      /\ End0' = End0
  BY DEF Exists, Whole, End0
<1>3. /\ number \in 0 .. 2 /\ (Exists(0) <=> number > 0) /\ (Exists(1) <=> number = 2)
      /\ number = 0 => Clear4(offset)
      /\ number = 1 => offset >= End0
  BY <1>1 DEF CountOK, Reading
<1>4. Exists(1) => Exists(0) /\ NoBonding'
  <2> SUFFICES ASSUME Exists(1) PROVE Exists(0) /\ NoBonding'
    OBVIOUS
  <2>1. Exists(0) /\ NoBonding /\ number = 2
    BY <1>1, <1>3 DEF CountOK
  <2>2. tx' = tx \/ \E c \in Commands : c.type # "bond" /\ tx' = Append(tx, c)
    BY <2>1 DEF Sends, BONDS_MAX
  <2> QED BY <1>1, <2>1, <2>2, NoBondingKept
<1>5. CountOK'
  BY <1>2, <1>3, <1>4 DEF CountOK, Reading
<1>6. BondsOK'
  BY <1>1, <1>2 DEF BondsOK
<1> QED BY <1>5, <1>6

LEMMA CountQuiet ==
    ASSUME Inv, Uncut,
           \/ Connected \/ BondStatus \/ Ignored \/ Timeout \/ EndLink \/ RestoreSend \/ RestoreWait
           \/ Disconnected /\ ~bonded
    PROVE  CountOK' /\ BondsOK'
<1> USE DEF ram, local, radio, rest
<1>1. TypeOK /\ number \in Nat
  BY DEF Inv, TypeOK
<1>2. Sketch /\ ~Restart /\ ~Clear
  BY DEF Sketch, Restart, Clear, Connected, BondStatus, Ignored, Timeout, EndLink, RestoreSend,
         RestoreWait, Disconnected, Got
<1>3. ~Booting
  BY <1>2, Running
<1>4. rx' = rx \/ (rx # << >> /\ rx' = Tail(rx))
  BY <1>2, SketchTakes
<1>5. /\ Command("version") \in Commands /\ Command("version").type # "bond"
      /\ Command("disconnect") \in Commands /\ Command("disconnect").type # "bond"
      /\ WriteMessage \in Commands /\ WriteMessage.type # "bond"
  BY <1>1, CommandIs, WriteIs DEF SimpleTypes, SimpleCommands
<1>6. UNCHANGED tx => Sends(number)
  BY DEF Sends
<1>7. \A n : Advertise(n) => pc' \notin Reading
  BY DEF Advertise, Done, Reading
<1>8. \A b : Restored(b) => pc' \notin Reading
  BY DEF Restored, Advertise, Done, Reading
<1>9. Done => pc' \notin Reading
  BY DEF Done, Reading
<1>10. CASE Connected
  <2>1. Sends(number)
    BY <1>1, <1>5, <1>10, SendsIs DEF Connected
  <2> QED BY <1>3, <1>4, <1>9, <1>10, <2>1, CountKept DEF Connected, Got, Reading
<1>11. CASE BondStatus
  BY <1>3, <1>4, <1>6, <1>9, <1>11, CountKept DEF BondStatus, Got, Reading
<1>12. CASE Ignored
  BY <1>3, <1>4, <1>6, <1>9, <1>12, CountKept DEF Ignored, Got, Reading
<1>13. CASE Timeout
  <2>1. Sends(number) /\ pc' \notin Reading
    <3>1. Advertise(number) => Sends(number)
      BY <1>1, SendsIs
    <3>2. \A k, from : BeginRestore(k, from) => UNCHANGED tx /\ pc' \notin Reading
      BY DEF BeginRestore, Reading
    <3> QED BY <1>6, <1>7, <1>13, <3>1, <3>2 DEF Timeout
  <2> QED BY <1>3, <1>4, <1>13, <2>1, CountKept DEF Timeout, Got, Reading
<1>14. CASE EndLink
  <2>1. Sends(number)
    BY <1>1, <1>5, <1>14, SendsIs DEF EndLink
  <2> QED BY <1>3, <1>4, <1>14, <2>1, CountKept DEF EndLink, Reading
<1>15. CASE RestoreSend
  <2>1. Sends(number) /\ pc' \notin Reading
    <3>1. CASE Len(tx) < QueueSize
      BY <1>1, <1>5, <1>15, <3>1, SendsIs DEF RestoreSend, Reading
    <3>2. CASE ~(Len(tx) < QueueSize)
      <4>1. Restored(FALSE)
        BY <1>15, <3>2 DEF RestoreSend
      <4> QED BY <1>1, <1>8, <4>1, SendsIs
    <3> QED BY <3>1, <3>2
  <2> QED BY <1>3, <1>4, <1>15, <2>1, CountKept DEF RestoreSend, Reading
<1>16. CASE RestoreWait
  <2> DEFINE e == Head(rx)
             b == e.type = "rsp" /\ Completes(e)
  <2>1. Sends(number) /\ pc' \notin Reading
    <3>1. CASE e.type # "rsp" \/ Completes(e) \/ left = 1
      <4>1. Restored(b) /\ b \in BOOLEAN
        BY <1>16, <3>1 DEF RestoreWait
      <4> HIDE DEF b
      <4> QED BY <1>1, <1>8, <4>1, SendsIs
    <3>2. CASE ~(e.type # "rsp" \/ Completes(e) \/ left = 1)
      BY <1>6, <1>16, <3>2 DEF RestoreWait, Reading
    <3> QED BY <3>1, <3>2
  <2> QED BY <1>3, <1>4, <1>16, <2>1, CountKept DEF RestoreWait, Reading
<1>17. CASE Disconnected /\ ~bonded
  <2>1. Sends(number) /\ pc' \notin Reading
    BY <1>1, <1>7, <1>17, SendsIs DEF Disconnected
  <2> QED BY <1>3, <1>4, <1>17, <2>1, CountKept DEF Disconnected, Got, Reading
<1> QED BY <1>10, <1>11, <1>12, <1>13, <1>14, <1>15, <1>16, <1>17

LEMMA CountRestart ==
    ASSUME Inv, Uncut, Restart
    PROVE  CountOK' /\ BondsOK'
<1> USE DEF local, radio, rest
<1>1. TypeOK /\ CountOK /\ BondsOK /\ BootOK /\ number \in Nat /\ pc = "loop"
      /\ rx # << >> /\ rx' = Tail(rx) /\ UNCHANGED <<eeprom, committed, mode, bonded>>
  BY DEF Inv, TypeOK, Restart, Got
<1>2. /\ \A k : Exists(k)' = Exists(k) /\ Whole(k)' = Whole(k)
      /\ End0' = End0
  BY <1>1 DEF Exists, Whole, End0
<1>3. pc' \notin Reading
  BY DEF Restart, BeginRestore, Done, Reading
<1>4. BondsOK'
  BY <1>1, <1>2 DEF BondsOK
<1>5. CASE Exists(0)
  <2> DEFINE n == IF Exists(1) THEN 2 ELSE 1
  <2>1. number' = n /\ offset' = Cell(2 * n + 1) /\ UNCHANGED tx
    BY <1>5 DEF Restart, Recount, BeginRestore
  <2>2. ~Exists(1) => offset' = eeprom[3]
    <3>1. 3 \in DOMAIN eeprom
      BY <1>1, Sizes DEF TypeOK
    <3> QED BY <2>1, <3>1 DEF Cell
  <2>3. eeprom[3] >= End0
    <3>1. eeprom[3] \in Nat /\ eeprom[1] \in Nat /\ Msgs \in Nat
      BY <1>1, Sizes DEF TypeOK
    <3> QED BY <1>1, <1>5, <3>1 DEF BondsOK, End0
  <2>4. Exists(1) => NoBonding'
    <3>1. Exists(1) => NoBonding
      BY <1>1 DEF CountOK
    <3> QED BY <1>1, <2>1, <3>1, NoBondingKept
  <2>5. number' \in 0 .. 2 /\ number' > 0 /\ (Exists(1) <=> number' = 2)
    BY <2>1
  <2> QED BY <1>2, <1>3, <1>4, <1>5, <2>2, <2>3, <2>4, <2>5 DEF CountOK, Reading
<1>6. CASE ~Exists(0)
  <2>1. number' = 0 /\ offset' = offset /\ ~Exists(1)
    BY <1>1, <1>6 DEF Restart, Recount, CountOK
  <2>2. Clear4(offset)
    <3>1. CASE Booting
      BY <1>1, <3>1 DEF BootOK, Clear4
    <3>2. CASE ~Booting
      BY <1>1, <1>6, <3>2 DEF CountOK
    <3> QED BY <3>1, <3>2
  <2> QED BY <1>2, <1>3, <1>4, <1>6, <2>1, <2>2 DEF CountOK, Reading, Clear4
<1> QED BY <1>5, <1>6

LEMMA CountBoot ==
    ASSUME Inv, Uncut, Boot
    PROVE  CountOK' /\ BondsOK'
<1>1. /\ CountOK /\ BondsOK /\ UNCHANGED <<eeprom, committed>> /\ pc' \in {"loop", "clear"}
      /\ bonded' = FALSE /\ mode' = "standby" /\ tx' = << >> /\ rx' = <<Plain("started")>>
  BY DEF Inv, Boot
<1>2. /\ \A k : Exists(k)' = Exists(k) /\ Whole(k)' = Whole(k)
      /\ End0' = End0
  BY <1>1 DEF Exists, Whole, End0
<1>3. Booting'
  <2>1. \A e : <<e>> # << >> /\ Head(<<e>>) = e
    OBVIOUS
  <2> QED BY <1>1, <2>1, PlainIs DEF Booting, Types
<1>4. NoBonding'
  <2>1. Plain("started") \in Bondless
    BY PlainIs DEF Bondless, Types
  <2>2. rx' \in Seq(Bondless)
    BY <1>1, <2>1
  <2> QED BY <1>1, <2>2, NoneInSeq DEF NoBonding
<1>5. CountOK'
  BY <1>1, <1>2, <1>3, <1>4 DEF CountOK
<1> QED BY <1>1, <1>2, <1>5 DEF BondsOK

LEMMA CountClear ==
    ASSUME Inv, Clear, pc' = "halt"
    PROVE  CountOK' /\ BondsOK'
<1>1. BootOK'
  BY BootNext DEF Next, Sketch
<1>2. Booting' /\ \A a \in 0 .. 3 : eeprom'[a] = Erased
  BY <1>1 DEF BootOK
<1>3. ~Exists(0)' /\ ~Exists(1)' /\ eeprom'[3] = Erased
  BY <1>2 DEF Exists
<1>4. CountOK'
  BY <1>2, <1>3 DEF CountOK
<1> QED BY <1>3, <1>4 DEF BondsOK

\* The radio starts no bond by itself.
LEMMA NoBondingRadio ==
    ASSUME Inv, RadioStep, NoBonding
    PROVE  NoBonding'
<1>1. /\ ~bonded /\ mode \notin {"bond", "bonding"}
      /\ tx \in Seq({c \in Commands : c.type # "bond"}) /\ rx \in Seq(Bondless)
      /\ TypeOK /\ ~bonded'
  BY RadioLeaves DEF NoBonding, Inv, ram
<1>2. tx # << >> => /\ Tail(tx) \in Seq({c \in Commands : c.type # "bond"})
                    /\ Head(tx).type # "bond"
  BY <1>1, TailAt
<1>3. \A e \in Events : e.type # "bond" => Append(rx, e) \in Seq(Bondless)
  BY <1>1 DEF Bondless
<1>4. CASE Answer
  <2>1. rx' \in Seq(Bondless) /\ tx # << >> /\ tx' = Tail(tx)
    BY <1>1, <1>3, <1>4, AnswerIs
  <2>2. mode' \notin {"bond", "bonding"}
    BY <1>1, <1>2, <1>4, <2>1 DEF Answer, Advertising, Simple, ReadOut, WrittenBack, Refused
  <2> QED BY <1>1, <1>2, <2>1, <2>2 DEF NoBonding
<1>5. CASE AdvertTimeout \/ LinkMade \/ LinkLost
  <2>1. PICK e \in Events : rx' = Append(rx, e) /\ e.type # "bond"
    BY <1>5, LinkSays DEF Says
  <2>2. mode' \notin {"bond", "bonding"} /\ tx' = tx
    BY <1>1, <1>5 DEF AdvertTimeout, LinkMade, LinkLost
  <2> QED BY <1>1, <1>3, <2>1, <2>2 DEF NoBonding
<1>6. CASE HwError
  <2>1. PICK a \in HwEvents, b \in HwEvents : rx' = Append(Append(rx, a), b)
    BY <1>1, <1>6, HwErrorIs
  <2>2. rx' \in Seq(Bondless)
    <3>1. a \in Bondless /\ b \in Bondless
      BY DEF HwEvents, HwTypes, Bondless
    <3> QED BY <1>1, <2>1, <3>1
  <2>3. mode' = "standby" /\ tx' \in Seq({c \in Commands : c.type # "bond"})
    BY <1>1, <1>2, <1>6, HwErrorIs
  <2> QED BY <1>1, <2>2, <2>3 DEF NoBonding
<1>7. ~BondMade
  BY <1>1 DEF BondMade
<1> QED BY <1>4, <1>5, <1>6, <1>7 DEF RadioStep

LEMMA CountRadio ==
    ASSUME Inv, Uncut, RadioStep
    PROVE  CountOK' /\ BondsOK'
<1>1. CountOK /\ BondsOK /\ TypeOK /\ BootOK /\ UNCHANGED <<eeprom, ram, pc, local, committed>>
  BY RadioLeaves DEF Inv
<1>2. /\ \A k : Exists(k)' = Exists(k) /\ Whole(k)' = Whole(k)
      /\ End0' = End0 /\ Start' = Start /\ Written' = Written
  BY <1>1 DEF Exists, Whole, End0, Start, Written, local
<1>3. Booting => Booting'
  <2> SUFFICES ASSUME Booting PROVE Booting'
    OBVIOUS
  <2>1. tx = << >> /\ mode = "standby" /\ rx # << >> /\ Head(rx).type = "started"
    BY <1>1 DEF BootOK, Booting
  <2>2. rx' # << >> /\ Head(rx') = Head(rx)
    BY <1>1, <2>1, QuietRadio
  <2> QED BY <2>1, <2>2 DEF Booting
<1>4. Exists(1) => Exists(0) /\ NoBonding'
  BY <1>1, NoBondingRadio DEF CountOK
<1>5. CountOK'
  BY <1>1, <1>2, <1>3, <1>4 DEF CountOK, ram, local
<1> QED BY <1>1, <1>2, <1>5 DEF BondsOK

\* A bond is kept when its header and the cells of its data are.
LEMMA WholeKept ==
    ASSUME Inv, NEW k \in 0 .. 1, Whole(k),
           eeprom'[2 * k] = eeprom[2 * k], eeprom'[2 * k + 1] = eeprom[2 * k + 1],
           committed'[k] = committed[k],
           \A a \in eeprom[2 * k + 1] .. eeprom[2 * k + 1] + 3 * Msgs - 1 :
               a # eeprom[2 * k + 1] + 1 => eeprom'[a] = eeprom[a]
    PROVE  Whole(k)'
<1>1. eeprom[2 * k + 1] \in Nat /\ Msgs \in Nat
  <2>1. 2 * k + 1 \in 0 .. Top
    BY Sizes
  <2> QED BY <2>1, Sizes DEF Inv, TypeOK
<1>2. Holds(eeprom, eeprom[2 * k + 1], committed[k], Msgs)
  BY DEF Whole
<1>3. Holds(eeprom', eeprom[2 * k + 1], committed[k], Msgs)
  BY <1>1, <1>2, HoldsKept
<1>4. Holds(eeprom', eeprom'[2 * k + 1], committed'[k], Msgs)
  BY <1>3
<1> QED BY <1>4 DEF Whole

\* What is known of the first bond
LEMMA FirstBond ==
    ASSUME Inv, Uncut, Exists(0)
    PROVE  /\ Whole(0) /\ Clear4(eeprom[1]) /\ End0 <= eeprom[3] /\ eeprom[3] <= Erased
           /\ eeprom[1] \in Nat /\ eeprom[3] \in Nat /\ 4 <= eeprom[1]
           /\ End0 = eeprom[1] + 3 * Msgs /\ End0 \in Nat /\ 7 <= End0
<1>1. eeprom[1] \in Nat /\ eeprom[3] \in Nat /\ Msgs \in Nat \ {0}
  BY Sizes DEF Inv, TypeOK
<1>2. Whole(0) /\ Clear4(eeprom[1]) /\ End0 <= eeprom[3] /\ eeprom[3] <= Erased
  BY DEF Inv, BondsOK
<1>3. 4 <= eeprom[1]
  BY <1>1, <1>2 DEF Clear4
<1> QED BY <1>1, <1>2, <1>3 DEF End0

LEMMA CountBegins ==
    ASSUME Inv, Uncut, Disconnected, bonded, Uncut'
    PROVE  CountOK' /\ BondsOK'
<1>1. TypeOK /\ CountOK /\ BondsOK /\ pc = "loop"
  BY DEF Inv, Disconnected, Got
<1>2. ~Booting
  BY Running DEF Sketch, Clear, Restart, Disconnected, Got
<1>3. /\ Msgs \in Nat \ {0} /\ Top \in Nat /\ 7 <= Top /\ Erased = Byte - 1 /\ Byte \in Nat
      /\ Erased \in Nat /\ offset \in Nat
  BY <1>1, Sizes DEF TypeOK
<1>4. /\ number \in 0 .. 1 /\ (Exists(0) <=> number > 0) /\ ~Exists(1)
      /\ number = 0 => Clear4(offset)
      /\ number = 1 => offset >= End0
  BY <1>1, <1>2 DEF CountOK, NoBonding
<1>5. /\ offset < Byte
      /\ number = 0 => offset + 3 * Msgs < Byte
  <2>1. Fits
    BY Zenon DEF Disconnected, Uncut
  <2> QED BY <1>3, <1>4, <2>1 DEF Fits
<1>6. offset % Byte = offset
  BY <1>3, <1>5
<1>7. /\ eeprom' = [eeprom EXCEPT ![2 * number + 1] = offset]
      /\ index' = number /\ left' = 1 /\ pc' = "readWait"
      /\ UNCHANGED <<number, offset, committed>>
  BY <1>6 DEF Disconnected
<1>8. /\ eeprom'[2 * number + 1] = offset
      /\ \A a \in 0 .. Top : a # 2 * number + 1 => eeprom'[a] = eeprom[a]
  BY <1>1, <1>3, <1>4, <1>7 DEF TypeOK
<1>9. eeprom'[0] = eeprom[0] /\ eeprom'[2] = eeprom[2]
  BY <1>3, <1>4, <1>8
<1>10. (Exists(0)' <=> Exists(0)) /\ ~Exists(1)'
  BY <1>4, <1>9 DEF Exists
<1>11. Start' = offset /\ Written' = 0
  BY <1>7, <1>8 DEF Start, Written
<1>12. CASE number = 0
  <2>1. eeprom'[1] = offset /\ eeprom'[3] = eeprom[3] /\ ~Exists(0) /\ eeprom[3] = Erased
    BY <1>1, <1>3, <1>4, <1>8, <1>12 DEF BondsOK
  <2>2. Clear4(Start)' /\ Start' + 3 * Msgs <= Erased /\ Start' <= Erased
    BY <1>3, <1>4, <1>5, <1>11, <1>12 DEF Clear4
  <2>3. CountOK'
    BY <1>3, <1>4, <1>7, <1>10, <1>11, <1>12, <2>1, <2>2 DEF CountOK, Clear4
  <2>4. BondsOK'
    BY <1>10, <2>1 DEF BondsOK
  <2> QED BY <2>3, <2>4
<1>13. CASE number = 1
  <2>1. /\ Exists(0) /\ Whole(0) /\ Clear4(eeprom[1]) /\ eeprom[1] \in Nat /\ 4 <= eeprom[1]
        /\ End0 = eeprom[1] + 3 * Msgs /\ eeprom[3] <= Erased /\ End0 <= eeprom[3]
        /\ eeprom[3] \in Nat
    BY <1>4, <1>13, FirstBond
  <2>2. eeprom'[3] = offset /\ eeprom'[1] = eeprom[1]
    BY <1>3, <1>8, <1>13
  <2>3. Whole(0)'
    <3>1. \A a \in eeprom[1] .. eeprom[1] + 3 * Msgs - 1 : a \in 0 .. Top /\ a # 3
      BY <1>3, <2>1, Sizes
    <3>2. \A a \in eeprom[1] .. eeprom[1] + 3 * Msgs - 1 : eeprom'[a] = eeprom[a]
      BY <1>8, <1>13, <3>1
    <3> QED BY <1>7, <1>9, <2>1, <2>2, <3>2, WholeKept
  <2>4. End0' = End0 /\ Clear4(eeprom[1])'
    BY <2>1, <2>2 DEF End0, Clear4
  <2>5. End0' <= Start' /\ Start' <= Erased
    BY <1>3, <1>4, <1>5, <1>11, <1>13, <2>4
  <2>6. CountOK'
    BY <1>3, <1>4, <1>7, <1>10, <1>11, <1>13, <2>1, <2>4, <2>5 DEF CountOK
  <2>7. BondsOK'
    BY <1>3, <1>10, <1>11, <2>1, <2>2, <2>3, <2>4, <2>5 DEF BondsOK
  <2> QED BY <2>6, <2>7
<1> QED BY <1>4, <1>12, <1>13

LEMMA CountTakes ==
    ASSUME Inv, Uncut, ReadWait
    PROVE  CountOK' /\ BondsOK'
<1>1. TypeOK /\ CountOK /\ BondsOK /\ pc = "readWait" /\ UNCHANGED <<number, offset, committed>>
  BY DEF Inv, ReadWait, ram, rest
<1>2. /\ ~Booting /\ number = index /\ index \in 0 .. 1 /\ ~Exists(1) /\ ~Exists(index)
  BY <1>1, ReadingAt
<1>3. eeprom' = eeprom
  <2>1. CASE eeprom' = [eeprom EXCEPT ![2 * index] = Erased]
    <3>1. eeprom[2 * index] = Erased /\ eeprom \in [0 .. Top -> Nat]
      BY <1>1, <1>2 DEF Exists, TypeOK
    <3> QED BY <2>1, <3>1
  <2> QED BY <2>1 DEF ReadWait
<1>4. /\ \A k : Exists(k)' = Exists(k) /\ Whole(k)' = Whole(k)
      /\ End0' = End0
  BY <1>1, <1>3 DEF Exists, Whole, End0
<1>5. BondsOK'
  BY <1>1, <1>3, <1>4 DEF BondsOK
<1>6. /\ (Exists(0) <=> number > 0) /\ (Exists(1) <=> number = 2)
      /\ number = 0 => Clear4(offset)
      /\ number = 1 => offset >= End0
  BY <1>1, <1>2 DEF CountOK
<1>7. CASE Good(Head(rx))
  <2>1. pc' = "cells" /\ at' = 1 /\ UNCHANGED <<index, left>>
    BY <1>7 DEF ReadWait, Good
  <2>2. Start' = Start /\ Written = 0 /\ Written' = 0
    BY <1>1, <1>3, <2>1 DEF Start, Written
  <2> QED BY <1>1, <1>2, <1>3, <1>4, <1>5, <1>6, <2>1, <2>2 DEF CountOK
<1>8. CASE ~Good(Head(rx))
  <2>1. pc' \in {"loop", "pin"}
    BY <1>8 DEF ReadWait, Good, Advertise, Done
  <2> QED BY <1>1, <1>2, <1>3, <1>4, <1>5, <1>6, <2>1 DEF CountOK, Reading, Clear4
<1> QED BY <1>7, <1>8

LEMMA CountWrites ==
    ASSUME Inv, Uncut, WriteCell
    PROVE  CountOK' /\ BondsOK'
<1>1. /\ TypeOK /\ CountOK /\ BondsOK /\ pc = "cells"
      /\ UNCHANGED <<number, index, committed>>
  BY DEF Inv, WriteCell, rest
<1>2. /\ ~Booting /\ number = index /\ index \in 0 .. 1 /\ left \in 1 .. Msgs /\ at \in 1 .. 3
      /\ Start \in Nat /\ 4 <= Start /\ Start <= Erased /\ Start + 3 * Msgs <= Top /\ Clear4(Start)
      /\ offset = Start + 3 * (left - 1) + (at - 1) /\ offset \in 4 .. Top
      /\ ~Exists(1) /\ Msgs \in Nat \ {0} /\ Top \in Nat /\ Erased \in Nat
  BY <1>1, ReadingAt, Sizes
<1>3. /\ index = 0 => ~Exists(0) /\ Start = eeprom[1] /\ eeprom[3] = Erased /\ End0 <= Erased
      /\ index = 1 => Exists(0) /\ Start = eeprom[3] /\ End0 <= Start
  BY <1>1, ReadingAt
<1> DEFINE v == <<2, Opcode, msg.data>>[at]
<1> HIDE DEF v
<1>4. eeprom' = [eeprom EXCEPT ![offset] = v]
  BY DEF WriteCell, v
<1>5. /\ \A b \in 0 .. Top : b # offset => eeprom'[b] = eeprom[b]
      /\ \A b \in 0 .. 3 : eeprom'[b] = eeprom[b]
      /\ \A k \in 0 .. 1 : Exists(k)' = Exists(k)
  BY <1>1, <1>2, <1>4, BehindHeader
<1>6. eeprom'[0] = eeprom[0] /\ eeprom'[1] = eeprom[1] /\ eeprom'[3] = eeprom[3]
      /\ Exists(0)' = Exists(0) /\ ~Exists(1)'
  BY <1>2, <1>5
<1>7. Start' = Start /\ End0' = End0
  <2>1. 2 * index + 1 \in 0 .. 3
    BY <1>2
  <2> QED BY <1>1, <1>5, <1>6, <2>1 DEF Start, End0
<1>8. /\ offset' = offset + 1 /\ at' = at + 1
      /\ \/ at < 3 /\ pc' = "cells" /\ left' = left
         \/ at = 3 /\ pc' = "commit" /\ left' = left
         \/ at = 3 /\ pc' = "readWait" /\ left' = left + 1
  BY <1>1, <1>2 DEF WriteCell
<1>9. offset' = Start + 3 * (left' - 1) + Written'
  BY <1>2, <1>8 DEF Written
<1>10. pc' # "cells" => Clear4(offset)'
  BY <1>2, <1>8 DEF Clear4
<1>11. (Exists(0) <=> number > 0) /\ (number = 1 => offset >= End0)
  BY <1>1, <1>2 DEF CountOK
<1>12. End0 \in Nat
  <2>1. eeprom[1] \in Nat
    BY <1>1, Sizes DEF TypeOK
  <2> QED BY <1>2, <2>1 DEF End0
<1>13. CountOK'
  <2>1. /\ number' \in 0 .. 1 /\ (Exists(0)' <=> number' > 0) /\ number' # 2 /\ pc' # "next"
        /\ number' = 1 => offset' >= End0'
    BY <1>1, <1>2, <1>6, <1>7, <1>8, <1>11, <1>12
  <2>2. /\ index' \in 0 .. 1 /\ Start' <= Erased
        /\ index' = 0 => Clear4(Start)' /\ Start' + 3 * Msgs <= Erased
        /\ index' = 1 => End0' <= Start'
    <3>1. index = 0 => Start + 3 * Msgs <= Erased
      BY <1>3 DEF End0
    <3> QED BY <1>1, <1>2, <1>3, <1>7, <3>1 DEF Clear4
  <2>3. offset' = Start' + 3 * (left' - 1) + Written'
    BY <1>7, <1>9
  <2> QED BY <1>6, <1>10, <2>1, <2>2, <2>3 DEF CountOK
<1>14. CASE index = 0
  <2>1. ~Exists(0)' /\ eeprom'[3] = Erased
    BY <1>3, <1>6, <1>14
  <2>2. BondsOK'
    BY <1>6, <2>1 DEF BondsOK
  <2> QED BY <1>13, <2>2
<1>15. CASE index = 1
  <2>1. /\ Exists(0) /\ Whole(0) /\ Clear4(eeprom[1]) /\ eeprom[1] \in Nat /\ 4 <= eeprom[1]
        /\ End0 = eeprom[1] + 3 * Msgs /\ eeprom[3] <= Erased /\ End0 <= eeprom[3] /\ End0 <= Start
    BY <1>3, <1>15, FirstBond
  <2>2. \A a \in eeprom[1] .. eeprom[1] + 3 * Msgs - 1 : a \in 0 .. Top /\ a # offset
    BY <1>2, <2>1
  <2>3. \A a \in eeprom[1] .. eeprom[1] + 3 * Msgs - 1 : eeprom'[a] = eeprom[a]
    BY <1>5, <2>2
  <2>4. Whole(0)'
    BY <1>1, <1>6, <2>1, <2>3, WholeKept
  <2>5. Clear4(eeprom[1])' /\ End0' <= eeprom'[3] /\ eeprom'[3] <= Erased
    BY <1>6, <1>7, <2>1 DEF Clear4
  <2>6. Exists(0)'
    BY <1>6, <2>1
  <2>7. BondsOK'
    BY <1>6, <2>4, <2>5, <2>6 DEF BondsOK
  <2> QED BY <1>13, <2>7
<1> QED BY <1>2, <1>13, <1>14, <1>15

LEMMA CountCommits ==
    ASSUME Inv, Uncut, Commit
    PROVE  CountOK' /\ BondsOK'
<1>1. /\ TypeOK /\ CountOK /\ BondsOK /\ ReadOK /\ pc = "commit" /\ pc' = "next"
      /\ UNCHANGED <<number, index, offset, bonded, tx, rx, mode>>
  BY DEF Inv, Commit, ram, local, radio
<1>2. /\ ~Booting /\ number = index /\ index \in 0 .. 1 /\ left = Msgs
      /\ Start \in Nat /\ 4 <= Start /\ Start <= Erased /\ Start + 3 * Msgs <= Top /\ Clear4(Start)
      /\ offset = Start + 3 * Msgs
      /\ ~Exists(1) /\ Msgs \in Nat \ {0} /\ Top \in Nat /\ Erased \in Nat /\ Valid \in Nat
      /\ Valid + Msgs < Erased /\ 7 <= Top
  BY <1>1, ReadingAt, Sizes
<1>3. PICK p \in 0 .. Garbled : Took(p) /\ Holds(eeprom, Start, p, Msgs)
  BY <1>1 DEF ReadOK
<1>4. Owner(msg.data) = p /\ p \in Nat
  <2>1. p \in Nat /\ Msgs \in 1 .. Msgs
    BY <1>2, Sizes
  <2>2. msg = Message(p, Msgs)
    BY <1>2, <1>3 DEF Took
  <2>3. msg.data = Piece(p, Msgs)
    BY <2>1, <2>2, MessageIs
  <2> QED BY <2>1, <2>3, OwnerOf
<1>5. /\ eeprom' = [eeprom EXCEPT ![2 * index] = Valid + Msgs]
      /\ committed' = [committed EXCEPT ![index] = p]
  BY <1>2, <1>4 DEF Commit
<1>6. /\ eeprom'[2 * index] = Valid + Msgs /\ Valid + Msgs # Erased
      /\ \A a \in 0 .. Top : a # 2 * index => eeprom'[a] = eeprom[a]
  BY <1>1, <1>2, <1>5 DEF TypeOK
<1>7. committed'[index] = p /\ (index = 1 => committed'[0] = committed[0])
  BY <1>1, <1>2, <1>5 DEF TypeOK, BONDS_MAX
<1>8. \A a \in 4 .. Top : eeprom'[a] = eeprom[a]
  BY <1>2, <1>6
<1>9. /\ eeprom'[1] = eeprom[1] /\ eeprom'[3] = eeprom[3] /\ Start' = Start /\ End0' = End0
  BY <1>1, <1>2, <1>6 DEF Start, End0
<1>10. Holds(eeprom', Start, p, Msgs)
  <2>1. \A a \in Start .. Start + 3 * Msgs - 1 : eeprom'[a] = eeprom[a]
    BY <1>2, <1>8
  <2> QED BY <1>2, <1>3, <1>4, <2>1, HoldsKept
<1>11. Whole(index)'
  BY <1>1, <1>6, <1>7, <1>9, <1>10 DEF Whole, Start
<1>12. CASE index = 0
  <2>1. ~Exists(0) /\ eeprom[3] = Erased /\ Start = eeprom[1] /\ End0 <= Erased
    BY <1>1, <1>12, ReadingAt
  <2>2. Exists(0)' /\ ~Exists(1)'
    BY <1>2, <1>6, <1>12 DEF Exists
  <2>3. CountOK'
    BY <1>1, <1>2, <1>9, <1>12, <2>2 DEF CountOK
  <2>4. Whole(0)'
    BY <1>1, <1>11, <1>12 DEF Whole
  <2>5. Clear4(eeprom[1])' /\ End0' <= eeprom'[3] /\ eeprom'[3] <= Erased
    BY <1>2, <1>9, <2>1 DEF Clear4
  <2>6. BondsOK'
    BY <2>2, <2>4, <2>5 DEF BondsOK
  <2> QED BY <2>3, <2>6
<1>13. CASE index = 1
  <2>1. /\ Exists(0) /\ Whole(0) /\ Clear4(eeprom[1]) /\ eeprom[1] \in Nat /\ 4 <= eeprom[1]
        /\ End0 = eeprom[1] + 3 * Msgs /\ eeprom[3] <= Erased /\ End0 <= eeprom[3]
    BY <1>1, <1>13, ReadingAt, FirstBond
  <2>2. eeprom'[0] = eeprom[0] /\ Exists(0)' /\ Exists(1)'
    BY <1>2, <1>6, <1>13, <2>1 DEF Exists
  <2>3. Whole(0)'
    <3>1. \A a \in eeprom[1] .. eeprom[1] + 3 * Msgs - 1 : a \in 4 .. Top
      BY <1>2, <2>1, FirstBond, Sizes
    <3>2. \A a \in eeprom[1] .. eeprom[1] + 3 * Msgs - 1 : eeprom'[a] = eeprom[a]
      BY <1>8, <3>1
    <3> QED BY <1>7, <1>9, <1>13, <2>1, <2>2, <3>2, WholeKept
  <2>4. NoBonding'
    <3>1. ~bonded /\ tx = << >> /\ mode = "standby" /\ rx \in Seq(HwEvents)
      BY <1>1, <1>3 DEF ReadOK, Reading, Took
    <3>2. HwEvents \subseteq Bondless
      BY DEF HwEvents, HwTypes, Bondless
    <3>3. rx' \in Seq(Bondless)
      BY <1>1, <3>1, <3>2
    <3> QED BY <1>1, <3>1, <3>3, NoneInSeq DEF NoBonding
  <2>5. CountOK'
    BY <1>1, <1>2, <1>9, <1>13, <2>2, <2>4 DEF CountOK
  <2>6. Whole(1)'
    BY <1>1, <1>11, <1>13 DEF Whole
  <2>7. Clear4(eeprom[1])' /\ End0' <= eeprom'[3] /\ eeprom'[3] <= Erased
    BY <1>9, <2>1 DEF Clear4
  <2>8. BondsOK'
    BY <2>2, <2>3, <2>6, <2>7 DEF BondsOK
  <2> QED BY <2>5, <2>8
<1> QED BY <1>2, <1>12, <1>13

LEMMA CountSetNext ==
    ASSUME Inv, Uncut, SetNext
    PROVE  CountOK' /\ BondsOK'
<1>1. /\ TypeOK /\ CountOK /\ BondsOK /\ ReadOK /\ pc = "next" /\ number' = number + 1
      /\ UNCHANGED <<offset, bonded, committed, rx, mode>> /\ Advertise(number + 1)
      /\ eeprom' = [eeprom EXCEPT ![2 * (index + 1) + 1] = offset % Byte]
  BY DEF Inv, SetNext, rest, radio
<1>2. ~Booting
  BY <1>1 DEF Inv, BootOK
<1>3. /\ index \in 0 .. 1 /\ number = index /\ Exists(index) /\ (index = 0 => ~Exists(1))
      /\ offset = Start + 3 * Msgs
  BY <1>1, <1>2 DEF CountOK, ReadOK, Reading
<1>4. Exists(0)
  BY <1>1, <1>3 DEF CountOK
<1>5. /\ Whole(0) /\ Clear4(eeprom[1]) /\ End0 <= eeprom[3] /\ eeprom[3] <= Erased
      /\ eeprom[1] \in Nat /\ eeprom[3] \in Nat /\ 4 <= eeprom[1]
      /\ End0 = eeprom[1] + 3 * Msgs /\ End0 \in Nat /\ 7 <= End0
  BY <1>4, FirstBond
<1>6. /\ Top \in Nat /\ 7 <= Top /\ Byte \in Nat /\ Erased = Byte - 1 /\ Msgs \in Nat \ {0}
      /\ Erased + 3 * Msgs <= Top
  BY Sizes
<1>7. \A a \in 0 .. Top : a # 2 * (index + 1) + 1 => eeprom'[a] = eeprom[a]
  BY <1>1, <1>3, <1>6 DEF TypeOK
<1>8. eeprom'[0] = eeprom[0] /\ eeprom'[1] = eeprom[1] /\ eeprom'[2] = eeprom[2]
      /\ Exists(0)' = Exists(0) /\ Exists(1)' = Exists(1) /\ End0' = End0
  <2>1. eeprom'[0] = eeprom[0] /\ eeprom'[1] = eeprom[1] /\ eeprom'[2] = eeprom[2]
    BY <1>3, <1>6, <1>7
  <2> QED BY <2>1 DEF Exists, End0
<1>9. Whole(0)'
  <2>1. \A a \in eeprom[1] .. eeprom[1] + 3 * Msgs - 1 :
            a # eeprom[1] + 1 => a \in 0 .. Top /\ a # 2 * (index + 1) + 1
    BY <1>3, <1>5, <1>6 DEF Clear4
  <2>2. \A a \in eeprom[1] .. eeprom[1] + 3 * Msgs - 1 :
            a # eeprom[1] + 1 => eeprom'[a] = eeprom[a]
    BY <1>7, <2>1
  <2> QED BY <1>1, <1>5, <1>8, <2>2, WholeKept
<1>10. pc' \notin Reading
  BY <1>1 DEF Advertise, Done, Reading
<1>11. CASE index = 0
  <2>1. offset = End0 /\ offset % Byte = offset
    BY <1>3, <1>5, <1>6, <1>11 DEF Start
  <2>2. eeprom'[3] = offset
    BY <1>1, <1>6, <1>11, <2>1 DEF TypeOK
  <2>3. CountOK'
    BY <1>1, <1>3, <1>4, <1>5, <1>8, <1>10, <1>11, <2>1 DEF CountOK, Reading
  <2>4. BondsOK'
    BY <1>3, <1>4, <1>5, <1>6, <1>8, <1>9, <1>11, <2>1, <2>2 DEF BondsOK, Clear4
  <2> QED BY <2>3, <2>4
<1>12. CASE index = 1
  <2>1. Exists(1) /\ Whole(1) /\ NoBonding
    BY <1>1, <1>3, <1>12 DEF BondsOK, CountOK
  <2>2. eeprom'[3] = eeprom[3]
    BY <1>6, <1>7, <1>12
  <2>3. Whole(1)'
    <3>1. \A a \in eeprom[3] .. eeprom[3] + 3 * Msgs - 1 : a \in 0 .. Top /\ a # 5
      BY <1>5, <1>6
    <3>2. \A a \in eeprom[3] .. eeprom[3] + 3 * Msgs - 1 : eeprom'[a] = eeprom[a]
      BY <1>7, <1>12, <3>1
    <3> QED BY <1>1, <1>8, <2>1, <2>2, <3>2, WholeKept
  <2>4. NoBonding'
    <3>1. number + 1 = 2 /\ number + 1 \in Nat
      BY <1>3, <1>12
    <3>2. Sends(2)
      BY <1>1, <3>1, SendsIs
    <3>3. tx' = tx \/ \E c \in Commands : c.type # "bond" /\ tx' = Append(tx, c)
      BY <3>2 DEF Sends, BONDS_MAX
    <3> QED BY <1>1, <2>1, <3>3, NoBondingKept
  <2>5. CountOK'
    BY <1>1, <1>3, <1>4, <1>8, <1>10, <1>12, <2>1, <2>4 DEF CountOK, Reading
  <2>6. BondsOK'
    BY <1>4, <1>5, <1>8, <1>9, <2>1, <2>2, <2>3 DEF BondsOK, Clear4
  <2> QED BY <2>5, <2>6
<1> QED BY <1>3, <1>11, <1>12

LEMMA CountNext == Inv /\ [Next]_vars /\ Uncut' => CountOK' /\ BondsOK'
<1> SUFFICES ASSUME Inv, [Next]_vars, Uncut' PROVE CountOK' /\ BondsOK'
  OBVIOUS
<1>1. (Uncut /\ ~Clear) \/ (Clear /\ pc' = "halt")
  BY UncutNext
<1>2. CASE Clear /\ pc' = "halt"
  BY <1>2, CountClear
<1>3. CASE Uncut /\ Sketch /\ ~Clear
  BY <1>3, CountQuiet, CountRestart, CountBegins, CountTakes, CountWrites, CountCommits,
     CountSetNext DEF Sketch
<1>4. CASE Uncut /\ Boot
  BY <1>4, CountBoot
<1>5. CASE Uncut /\ RadioStep
  BY <1>5, CountRadio
<1>6. CASE Uncut /\ (Press \/ UNCHANGED vars)
  <2>1. UNCHANGED <<eeprom, ram, pc, local, tx, rx, mode, committed>>
    BY <1>6 DEF Press, vars, radio, rest
  <2>2. CountOK /\ BondsOK
    BY <1>6 DEF Inv
  <2>3. /\ \A k : Exists(k)' = Exists(k) /\ Whole(k)' = Whole(k)
        /\ End0' = End0 /\ Start' = Start /\ Written' = Written /\ NoBonding' = NoBonding
        /\ Booting' = Booting
    BY <2>1 DEF Exists, Whole, End0, Start, Written, NoBonding, Booting, local, ram
  <2> QED BY <2>1, <2>2, <2>3 DEF CountOK, BondsOK, local, ram
<1> QED BY <1>1, <1>2, <1>3, <1>4, <1>5, <1>6 DEF Next, RadioStep

LEMMA InitInv == Init => Inv
<1> SUFFICES ASSUME Init PROVE Inv
  OBVIOUS
<1>1. TypeOK
  BY InitTypes
<1>2. /\ pc = "loop" /\ tx = << >> /\ rx = <<Plain("started")>> /\ mode = "standby" /\ sent = 0
      /\ number = 0 /\ offset = 4 /\ ~bonded /\ eeprom = [a \in 0 .. Top |-> Erased]
  BY DEF Init, BONDS_MAX
<1>3. Plain("started") \in Events /\ Plain("started").type = "started"
  BY PlainIs DEF Types
<1>4. rx # << >> /\ Head(rx) = Plain("started") /\ Tail(rx) = << >> /\ Len(rx) = 1
      /\ rx[1] = Plain("started")
  BY <1>2
<1>5. BootOK
  BY <1>2, <1>3, <1>4, NoneInSeq DEF BootOK, Booting
<1>6. \A i \in 1 .. Len(rx) : ~Ends(i)
  BY <1>3, <1>4 DEF Ends
<1>7. LinkOK
  BY <1>2, <1>6 DEF LinkOK, InLink, Ending
<1>8. StandOK
  BY <1>2 DEF StandOK
<1>9. ReadOK
  BY <1>2 DEF ReadOK, Reading
<1>10. ~Exists(0) /\ ~Exists(1) /\ eeprom[3] = Erased
  BY <1>2, Sizes DEF Exists
<1>11. CountOK
  BY <1>2, <1>10 DEF CountOK, Clear4
<1>12. BondsOK
  BY <1>10 DEF BondsOK
<1> QED BY <1>1, <1>5, <1>7, <1>8, <1>9, <1>11, <1>12 DEF Inv

LEMMA InvNext == Inv /\ [Next]_vars => Inv'
BY TypesNext, BootNext, LinkNext, StandNext, ReadNext, CountNext DEF Inv

LEMMA InvAlways == Spec => []Inv
BY InitInv, InvNext, PTL DEF Spec

-----------------------------------------------------------------------------
(***************************************************************************)
(* The variables of the sketch and of the radio keep their types.          *)
(***************************************************************************)
THEOREM TypeCorrect == Spec => []TypeOK
<1>1. Inv => TypeOK
  BY DEF Inv
<1> QED BY <1>1, InvAlways, PTL

(***************************************************************************)
(* A bond that the header says is valid is the one last stored there,      *)
(* wherever power is lost and whatever the radio fails to do               *)
(* (.ino:333-385, 457-471, 631-643, 837-840).                              *)
(***************************************************************************)
THEOREM StoredWhole == Spec => []ValidBondWhole
<1>1. Inv => ValidBondWhole
  <2> SUFFICES ASSUME Inv, tidy, pc # "clear", NEW k \in 0 .. BONDS_MAX - 1, Exists(k)
               PROVE  /\ eeprom[2 * k] = Valid + Msgs
                      /\ \A n \in 1 .. Msgs :
                           LET a == eeprom[2 * k + 1] + 3 * (n - 1)
                           IN  eeprom[a] = 2 /\ eeprom[a + 2] = Piece(committed[k], n)
    BY DEF ValidBondWhole
  <2>1. k = 0 \/ k = 1
    BY DEF BONDS_MAX
  <2>2. Whole(k)
    BY <2>1 DEF Inv, Uncut, BondsOK
  <2> QED BY <2>2 DEF Whole, Holds
<1> QED BY <1>1, InvAlways, PTL

(***************************************************************************)
(* What is stored is neither given up nor replaced: another bond is read   *)
(* only into a place that is free (.ino:397, 631-643).                     *)
(***************************************************************************)
THEOREM StoredKept == Spec => BondsKept
<1> DEFINE Kept == tidy /\ pc # "clear" =>
                      \A k \in 0 .. BONDS_MAX - 1 :
                          Exists(k) => Exists(k)' /\ committed'[k] = committed[k]
<1>1. Inv /\ [Next]_vars => [Kept]_vars
  <2> SUFFICES ASSUME Inv, Next, tidy, pc # "clear",
                      NEW k \in 0 .. BONDS_MAX - 1, Exists(k)
               PROVE  Exists(k)' /\ committed'[k] = committed[k]
    OBVIOUS
  <2>1. k \in 0 .. 1 /\ TypeOK /\ Uncut /\ 7 <= Top /\ Top \in Nat
    BY Sizes DEF BONDS_MAX, Inv, Uncut
  <2>2. CASE UNCHANGED <<eeprom, committed>>
    BY <2>2 DEF Exists
  <2>3. ASSUME committed' = committed, NEW a \in 0 .. Top, a # 2 * k, NEW v,
               eeprom' = [eeprom EXCEPT ![a] = v]
        PROVE  Exists(k)' /\ committed'[k] = committed[k]
    <3>1. eeprom'[2 * k] = eeprom[2 * k]
      BY <2>1, <2>3 DEF TypeOK
    <3> QED BY <2>3, <3>1 DEF Exists
  <2>4. CASE Disconnected
    <3>1. committed' = committed
      BY <2>4 DEF Disconnected
    <3>2. CASE bonded
      <4>1. eeprom' = [eeprom EXCEPT ![2 * number + 1] = offset % Byte]
        BY <2>4, <3>2 DEF Disconnected
      <4>2. ~Booting
        BY <2>4, Running DEF Sketch, Clear, Restart, Disconnected, Got
      <4>3. number \in 0 .. 2
        BY <2>1, <2>4, <4>2 DEF Inv, CountOK, Disconnected, Got
      <4>4. 2 * number + 1 \in 0 .. Top /\ 2 * number + 1 # 2 * k
        BY <2>1, <4>3
      <4> QED BY <2>3, <3>1, <4>1, <4>4
    <3>3. CASE ~bonded
      BY <2>2, <2>4, <3>1, <3>3 DEF Disconnected
    <3> QED BY <3>2, <3>3
  <2>5. CASE ReadWait
    <3>1. committed' = committed /\ pc = "readWait"
      BY <2>5 DEF ReadWait, rest
    <3>2. index \in 0 .. 1 /\ ~Exists(index)
      BY <2>1, <3>1, ReadingAt
    <3>3. 2 * index \in 0 .. Top /\ 2 * index # 2 * k
      <4>1. index # k
        BY <3>2
      <4> QED BY <2>1, <3>2, <4>1
    <3>4. eeprom' = eeprom \/ eeprom' = [eeprom EXCEPT ![2 * index] = Erased]
      BY <2>5 DEF ReadWait
    <3> QED BY <2>2, <2>3, <3>1, <3>3, <3>4
  <2>6. CASE WriteCell
    <3>1. committed' = committed /\ offset \in 4 .. Top
      BY <2>1, <2>6, ReadingAt DEF WriteCell, rest
    <3>2. offset \in 0 .. Top /\ offset # 2 * k
      BY <2>1, <3>1
    <3>3. \E v : eeprom' = [eeprom EXCEPT ![offset] = v]
      BY <2>6 DEF WriteCell
    <3> QED BY <2>3, <3>1, <3>2, <3>3
  <2>7. CASE Commit
    <3>1. index \in 0 .. 1 /\ ~Exists(index)
      BY <2>1, <2>7, ReadingAt DEF Commit
    <3>2. index # k
      BY <3>1
    <3>3. committed'[k] = committed[k]
      BY <2>1, <2>7, <3>1, <3>2 DEF Commit, TypeOK, BONDS_MAX
    <3>4. eeprom'[2 * k] = eeprom[2 * k]
      <4>1. 2 * index # 2 * k /\ 2 * k \in 0 .. Top
        BY <2>1, <3>1, <3>2
      <4> QED BY <2>1, <2>7, <4>1 DEF Commit, TypeOK
    <3> QED BY <3>3, <3>4 DEF Exists
  <2>8. CASE SetNext
    <3>1. committed' = committed /\ eeprom' = [eeprom EXCEPT ![2 * (index + 1) + 1] = offset % Byte]
      BY <2>8 DEF SetNext, rest
    <3>2. ~Booting
      BY <2>8 DEF Inv, BootOK, SetNext
    <3>3. index \in 0 .. 1
      BY <2>1, <2>8, <3>2 DEF Inv, CountOK, SetNext
    <3>4. 2 * (index + 1) + 1 \in 0 .. Top /\ 2 * (index + 1) + 1 # 2 * k
      BY <2>1, <3>3
    <3> QED BY <2>3, <3>1, <3>4
  <2>9. CASE Restart \/ Connected \/ BondStatus \/ Ignored \/ Timeout \/ EndLink \/ RestoreSend
             \/ RestoreWait \/ Boot \/ Press
    BY <2>2, <2>9 DEF Restart, Connected, BondStatus, Ignored, Timeout, EndLink, RestoreSend,
       RestoreWait, Boot, Press, rest
  <2>10. CASE RadioStep
    BY <2>2, <2>10, RadioLeaves
  <2>11. ~Clear
    BY DEF Clear
  <2> QED BY <2>4, <2>5, <2>6, <2>7, <2>8, <2>9, <2>10, <2>11 DEF Next, Sketch, RadioStep
<1>2. Spec => [][Kept]_vars
  BY <1>1, InvAlways, PTL DEF Spec
<1> QED BY <1>2 DEF BondsKept
=============================================================================
