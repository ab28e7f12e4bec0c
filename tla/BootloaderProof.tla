-------------------------- MODULE BootloaderProof --------------------------
(***************************************************************************)
(* Proofs about Bootloader: the bootloader is entered once for a request;  *)
(* a CRC that fits stands beside one whole configuration; and TRUE means   *)
(* that the image of the data is stored, if the last call that wrote came  *)
(* to a good end and the cells of the CRC are not worn.                    *)
(***************************************************************************)
EXTENDS Bootloader, SequenceTheorems, TLAPS

-----------------------------------------------------------------------------
(* What is stored *)

LEMMA CellsAre == Cells = 1 .. 5
BY DEF Cells, PipeBytes

(***************************************************************************)
(* The image of a configuration is as many numbers as there are cells.     *)
(***************************************************************************)
LEMMA ImageType ==
    ASSUME NEW c \in Configs
    PROVE  Image(c) \in [Cells -> Nat] /\ Image(c) \in Contents /\ Image(c) \in Images
<1>1. TimeoutLow(c.timeout) \in Nat /\ TimeoutHigh(c.timeout) \in Nat
  <2>1. Byte \in Nat \ {0}
    BY BootloaderAssumption
  <2>2. c.timeout \in Nat
    <3>1. Byte * Byte - 1 \in Int
      BY <2>1
    <3> QED BY <3>1, BootloaderAssumption
  <2>3. c.timeout % Byte \in Nat
    BY <2>1, <2>2
  <2> QED BY <2>1, <2>3 DEF TimeoutLow, TimeoutHigh
<1>2. SubSeq(c.pipes, 1, 2) \in Seq(Nat) /\ Len(SubSeq(c.pipes, 1, 2)) = 2
  BY BootloaderAssumption
<1>3. <<c.pins>> \in Seq(Nat) /\ Len(<<c.pins>>) = 1
  BY BootloaderAssumption
<1>4. Image(c) \in Seq(Nat) /\ Len(Image(c)) = 5
  BY <1>1, <1>2, <1>3 DEF Image, PipeBytes
<1>5. Image(c) \in [1 .. 5 -> Nat]
  BY <1>4, LenProperties
<1>6. Image(c) \in [Cells -> Nat]
  BY ONLY <1>5, CellsAre
<1> QED BY <1>6 DEF Contents, Images

LEMMA ContentsLength == \A f \in Contents : Len(f) = 5
<1> SUFFICES ASSUME NEW f \in Contents PROVE Len(f) = 5
  OBVIOUS
<1>1. f \in [1 .. 5 -> Nat \cup {Blank}]
  BY CellsAre DEF Contents
<1> QED BY ONLY <1>1

-----------------------------------------------------------------------------
(* The types *)

\* TypeOK with the bounds the model needs for TLC left out.
Types ==
    /\ eeprom \in Contents
    /\ crcLow \in Sums /\ crcHigh \in Sums
    /\ pc \in {"idle", "write", "crcLow", "crcHigh", "readback"}
    /\ config \in Configs
    /\ next \in Cells
    /\ key \in BOOLEAN
    /\ settled \in BOOLEAN
    /\ requests \in Nat /\ jumps \in Nat

LEMMA InitTypes == Init => Types
<1> SUFFICES ASSUME Init PROVE Types
  OBVIOUS
<1>1. eeprom \in Contents
  BY DEF Init, Contents
<1>2. crcLow \in Sums /\ crcHigh \in Sums
  BY DEF Init, Sums
<1>3. pc = "idle" /\ config \in Configs /\ next = 1 /\ requests = 0 /\ jumps = 0
  BY DEF Init
<1>4. key \in BOOLEAN /\ settled \in BOOLEAN
  BY DEF Init
<1> QED BY ONLY <1>1, <1>2, <1>3, <1>4, CellsAre DEF Types

LEMMA WrittenCell ==
    ASSUME NEW f \in Contents, NEW n \in Cells, NEW c \in Configs
    PROVE  /\ [f EXCEPT ![n] = Image(c)[n]] \in Contents
           /\ [f EXCEPT ![n] = Image(c)[n]][n] = Image(c)[n]
           /\ \A m \in Cells : m # n => [f EXCEPT ![n] = Image(c)[n]][m] = f[m]
BY ImageType DEF Contents

LEMMA NextTypes == Types /\ [Next]_vars => Types'
<1> SUFFICES ASSUME Types, [Next]_vars PROVE Types'
  OBVIOUS
<1>sums. \A c \in Configs : CRC(Image(c)) \in Sums
  BY DEF Sums, Images
<1> USE DEF Types, memory, call, booting
<1>1. CASE \E c \in Configs : Store(c)
  <2> PICK c \in Configs : Store(c)
    BY <1>1
  <2>1. settled' \in BOOLEAN
    BY ONLY Store(c), Types DEF Store, Types
  <2>2. next' \in Cells /\ pc' \in {"idle", "write"} /\ config' \in Configs
    BY CellsAre DEF Store, Return
  <2> QED BY <2>1, <2>2 DEF Store
<1>2. CASE WriteCell
  <2>1. eeprom' \in Contents
    BY <1>2, WrittenCell DEF WriteCell
  <2>2. Len(eeprom) = 5
    BY ContentsLength
  <2>3. next' \in Cells /\ pc' \in {"write", "crcLow"}
    BY <1>2, <2>2, CellsAre DEF WriteCell, Running
  <2> QED BY <1>2, <2>1, <2>3 DEF WriteCell
<1>3. CASE WriteCrcLow
  BY <1>3, <1>sums DEF WriteCrcLow
<1>4. CASE WriteCrcHigh
  BY <1>4, <1>sums DEF WriteCrcHigh
<1>5. CASE ReadBack
  <2>1. settled' \in BOOLEAN
    BY ONLY <1>5 DEF ReadBack, Valid
  <2> QED BY <1>5, <2>1 DEF ReadBack, Return
<1>6. CASE \E n \in Worn : Wear(n)
  BY <1>6 DEF Wear
<1>7. CASE Jump
  BY <1>7 DEF Jump
<1>ready. CASE Ready
  BY <1>ready DEF Ready
<1>set. CASE SetKey
  BY <1>set DEF SetKey
<1>8. CASE WatchdogBites \/ Interrupted
  BY <1>8, CellsAre DEF WatchdogBites, Interrupted, Restart
<1>9. CASE JumpCheck
  <2>1. key' \in BOOLEAN
    BY ONLY <1>9, Types DEF JumpCheck, Types
  <2>2. jumps' \in Nat
    BY <1>9 DEF JumpCheck
  <2> QED BY <1>9, <2>1, <2>2 DEF JumpCheck
<1>10. CASE UNCHANGED vars
  BY <1>10 DEF vars
<1> QED BY <1>1, <1>2, <1>3, <1>4, <1>5, <1>6, <1>7, <1>ready, <1>set, <1>8, <1>9, <1>10
        DEF Next

(***************************************************************************)
(* The types hold throughout (bootloader_setup.c).                         *)
(***************************************************************************)
THEOREM TypesHold == Spec => []Types
<1>1. Init => Types
  BY InitTypes
<1>2. Types /\ [Next]_vars => Types'
  BY NextTypes
<1> QED BY <1>1, <1>2, PTL DEF Spec

-----------------------------------------------------------------------------
(***************************************************************************)
(* A CRC that fits stands beside the image of one configuration            *)
(* (bootloader_setup.c:119-143).                                           *)
(***************************************************************************)
THEOREM FittingCrcMeansWhole == Spec => []ValidMeansWhole
<1>1. Types => ValidMeansWhole
  BY BlankAssumption DEF Types, ValidMeansWhole, Valid, CRC, Sums, Images
<1> QED BY <1>1, TypesHold, PTL

-----------------------------------------------------------------------------
(* A request is a call that still waits for the ready line, and then the   *)
(* key, which is used up by the jump.                                      *)

KeyCounted ==
    jumps + (IF key THEN 1 ELSE 0) + (IF mode = "wait" THEN 1 ELSE 0) <= requests

LEMMA NextKey == Types /\ KeyCounted /\ [Next]_vars => KeyCounted'
<1> SUFFICES ASSUME Types, KeyCounted, [Next]_vars PROVE KeyCounted'
  OBVIOUS
<1>0. key \in BOOLEAN /\ requests \in Nat /\ jumps \in Nat
  BY DEF Types
<1>1. CASE UNCHANGED <<key, requests, jumps>> /\ (mode' = "wait" => mode = "wait")
  BY <1>1, <1>0 DEF KeyCounted
<1>2. CASE Jump
  <2>1. key' = key /\ requests' = requests + 1 /\ jumps' = jumps /\ mode = "app"
    BY <1>2 DEF Jump, Running
  <2> QED BY ONLY <2>1, <1>0, KeyCounted DEF KeyCounted
<1>3. CASE SetKey
  <2>1. key' = TRUE /\ requests' = requests /\ jumps' = jumps
    BY <1>3 DEF SetKey
  <2>2. mode = "wait" /\ mode' = "jump"
    BY <1>3 DEF SetKey
  <2> QED BY ONLY <2>1, <2>2, <1>0, KeyCounted DEF KeyCounted
<1>4. CASE JumpCheck
  <2>1. CASE wdrf /\ key
    <3>1. key' = FALSE /\ jumps' = jumps + 1 /\ requests' = requests
      BY <1>4, <2>1 DEF JumpCheck
    <3>2. mode = "reset" /\ mode' = "boot"
      BY <1>4, <2>1 DEF JumpCheck
    <3> QED BY ONLY <3>1, <3>2, <2>1, <1>0, KeyCounted DEF KeyCounted
  <2>2. CASE ~(wdrf /\ key)
    BY <1>1, <1>4, <2>2 DEF JumpCheck
  <2> QED BY <2>1, <2>2
<1>5. CASE WatchdogBites \/ Interrupted
  BY <1>1, <1>5 DEF WatchdogBites, Interrupted, Restart
<1>6. CASE UNCHANGED booting
  BY <1>1, <1>6 DEF booting
<1>7. Jump \/ SetKey \/ JumpCheck \/ WatchdogBites \/ Interrupted \/ UNCHANGED booting
  BY DEF Next, vars, Store, WriteCell, WriteCrcLow, WriteCrcHigh, ReadBack, Wear, Ready
<1> QED BY <1>2, <1>3, <1>4, <1>5, <1>6, <1>7

(***************************************************************************)
(* The bootloader is entered at most once for each call of bootloader_jump *)
(* (bootloader_setup.c:29-38, 50).                                         *)
(***************************************************************************)
THEOREM EntersOncePerRequest == Spec => []OneJumpPerRequest
<1>1. Init => KeyCounted
  <2> SUFFICES ASSUME Init PROVE KeyCounted
    OBVIOUS
  <2>1. key = FALSE /\ requests = 0 /\ jumps = 0 /\ mode = "reset"
    BY DEF Init
  <2> QED BY ONLY <2>1 DEF KeyCounted
<1>2. Types /\ KeyCounted /\ [Next]_vars => KeyCounted'
  BY NextKey
<1>3. Types /\ KeyCounted => OneJumpPerRequest
  <2> SUFFICES ASSUME Types, KeyCounted PROVE OneJumpPerRequest
    OBVIOUS
  <2>1. key \in BOOLEAN /\ requests \in Nat /\ jumps \in Nat
    BY DEF Types
  <2> QED BY ONLY <2>1, KeyCounted DEF KeyCounted, OneJumpPerRequest
<1> QED BY <1>1, <1>2, <1>3, TypesHold, PTL DEF Spec

-----------------------------------------------------------------------------
(* A call that writes is settled only by its own good end, so whatever     *)
(* else is worn or cut short, a settled EEPROM is blank or whole, and the  *)
(* CRC cells hold, while they take their writes, the CRC of the call.      *)

Sound == {LowCell, HighCell} \cap wornOut = {}

Progress ==
    /\ settled => crcLow = Blank \/ Valid
    /\ pc = "crcHigh" => crcLow = Image(config)
    /\ pc = "readback" => crcLow = Image(config) /\ crcHigh = Image(config)
    /\ result = "TRUE" /\ settled => Valid /\ eeprom = Image(config)

CallInv ==
    /\ pc # "idle" => ~settled
    /\ Sound => Progress

LEMMA InitCall == Init => CallInv
BY DEF Init, CallInv, Progress

LEMMA NextCall == Types /\ CallInv /\ [Next]_vars => CallInv'
<1> SUFFICES ASSUME Types, CallInv, [Next]_vars PROVE CallInv'
  OBVIOUS
<1> USE DEF CallInv, memory, call, booting
<1>sound. Sound' => Sound /\ Progress
  <2>1. wornOut \subseteq wornOut'
    BY DEF Next, vars, Store, WriteCell, WriteCrcLow, WriteCrcHigh, ReadBack, Wear, Jump,
           Ready, SetKey, WatchdogBites, Interrupted, Restart, JumpCheck
  <2> QED BY <2>1 DEF Sound
<1>1. CASE \E c \in Configs : Store(c)
  <2> PICK c \in Configs : Store(c)
    BY <1>1
  <2>1. eeprom' = eeprom /\ crcLow' = crcLow /\ crcHigh' = crcHigh /\ config' = c
    BY DEF Store
  <2>2. CASE crcLow = CRC(Image(c)) /\ crcHigh = CRC(Image(c))
    <3>1. pc' = "idle" /\ settled' = settled
      BY <2>2 DEF Store, Return
    <3>2. Image(c) # Blank
      BY ImageType, BlankAssumption
    <3>3. Progress /\ settled => Valid /\ eeprom = Image(c)
      BY <2>2, <3>2 DEF Progress, Valid, CRC
    <3> QED BY <1>sound, <2>1, <3>1, <3>3 DEF Progress, Valid, CRC
  <2>3. CASE ~(crcLow = CRC(Image(c)) /\ crcHigh = CRC(Image(c)))
    <3>1. pc' = "write" /\ settled' = FALSE
      BY <2>3 DEF Store
    <3> QED BY <3>1 DEF Progress
  <2> QED BY <2>2, <2>3
<1>2. CASE WriteCell
  <2>1. settled' = settled /\ pc' \in {"write", "crcLow"} /\ ~settled
    BY <1>2 DEF WriteCell, Running
  <2> QED BY <2>1 DEF Progress
<1>3. CASE WriteCrcLow
  <2>1. settled' = settled /\ ~settled /\ pc' = "crcHigh" /\ config' = config
    BY <1>3 DEF WriteCrcLow, Running
  <2>2. Sound => crcLow' = Image(config)
    BY <1>3 DEF WriteCrcLow, Sound, CRC
  <2> QED BY <1>sound, <2>1, <2>2 DEF Progress
<1>4. CASE WriteCrcHigh
  <2>1. settled' = settled /\ ~settled /\ pc = "crcHigh" /\ pc' = "readback" /\ config' = config
    BY <1>4 DEF WriteCrcHigh, Running
  <2>2. Sound => crcHigh' = Image(config) /\ crcLow' = crcLow
    BY <1>4 DEF WriteCrcHigh, Sound, CRC
  <2> QED BY <1>sound, <2>1, <2>2 DEF Progress
<1>5. CASE ReadBack
  <2>1. pc = "readback" /\ pc' = "idle" /\ settled' = Valid /\ UNCHANGED <<memory, config>>
    BY <1>5 DEF ReadBack, Running, Return
  <2>2. Progress /\ Valid => eeprom = Image(config)
    BY <2>1 DEF Progress, Valid, CRC
  <2> QED BY <1>sound, <2>1, <2>2 DEF Progress, Valid
<1>6. CASE \E n \in Worn : Wear(n)
  BY <1>6, <1>sound DEF Wear, Progress, Valid
<1>7. CASE Jump \/ Ready \/ SetKey \/ JumpCheck
  <2>1. UNCHANGED <<memory, call>>
    BY <1>7 DEF Jump, Ready, SetKey, JumpCheck
  <2> QED BY <2>1, <1>sound DEF Progress, Valid
<1>8. CASE WatchdogBites \/ Interrupted
  <2>1. UNCHANGED <<memory, settled>> /\ pc' = "idle" /\ result' = "none"
    BY <1>8 DEF WatchdogBites, Interrupted, Restart
  <2> QED BY <2>1, <1>sound DEF Progress, Valid
<1>9. CASE UNCHANGED vars
  BY <1>9, <1>sound DEF vars, Progress, Valid
<1> QED BY <1>1, <1>2, <1>3, <1>4, <1>5, <1>6, <1>7, <1>8, <1>9 DEF Next

(***************************************************************************)
(* TRUE means that the image of the caller's data is stored, whatever      *)
(* earlier calls were cut short and whatever data cells are worn, if the   *)
(* last call that wrote returned TRUE itself and the cells of the CRC take *)
(* their writes (bootloader_setup.c:109-157).                              *)
(***************************************************************************)
THEOREM TrueIsStored == Spec => []TrueMeansStored
<1>1. Init => CallInv
  BY InitCall
<1>2. Types /\ CallInv /\ [Next]_vars => CallInv'
  BY NextCall
<1>3. CallInv => TrueMeansStored
  BY DEF CallInv, Progress, Sound, TrueMeansStored
<1> QED BY <1>1, <1>2, <1>3, TypesHold, PTL DEF Spec
=============================================================================
