----------------------------- MODULE Bootloader ----------------------------
(***************************************************************************)
(* Source/bootloader_setup.c.  bootloader_data_store writes the data the   *)
(* bootloader needs to the EEPROM, a cell at a time and the CRC last; the  *)
(* processor can be reset between any two of the writes, and a worn cell   *)
(* does not take what is written to it.  bootloader_jump and, after the    *)
(* reset, bootloader_jump_check hand control to the bootloader through     *)
(* boot_key, which survives a reset, and the watchdog; bootloader_jump     *)
(* first waits for the radio's ready line to be low.                       *)
(*                                                                         *)
(* A CRC is taken to tell any two contents apart: CRC(image) is the image, *)
(* and so is each of its two bytes.  Of the data, pins stands for the      *)
(* valid bytes, the pin configuration and the credits; timeout for the two *)
(* 16-bit values.                                                          *)
(***************************************************************************)
EXTENDS Integers, Sequences

CONSTANTS Configs,    \* the data the application may want to store
          Byte,       \* 2^8
          Blank,      \* the content of a cell never written
          Worn,       \* cells, those of the CRC among them, that may wear out
          MaxCalls,   \* bound on the calls of bootloader_data_store
          MaxJumps    \* bound on the calls of bootloader_jump

ASSUME BootloaderAssumption ==
    /\ \A c \in Configs :
         /\ c.pins \in Nat /\ c.timeout \in 0 .. Byte * Byte - 1
         /\ c.pipes \in Seq(Nat) /\ Len(c.pipes) >= 2
    /\ Byte \in Nat \ {0, 1}
    /\ MaxCalls \in Nat /\ MaxJumps \in Nat

VARIABLES eeprom,   \* the data cells
          crcLow,   \* the two CRC cells
          crcHigh,
          wornOut,  \* the cells that no longer take a write
          settled,  \* the last call that had something to write returned TRUE
          pc,       \* where the application is
          config,   \* the arguments of the call
          next,     \* the cell to be written next
          result,   \* what the last call returned
          stores,   \* calls so far
          key,      \* boot_key is BOOTLOADER_KEY
          wdrf,     \* the watchdog reset flag of MCUSR
          mode,     \* what runs: "reset", "app", "boot", or bootloader_jump
                    \* until ("wait") and after ("jump") it has set boot_key
          rdyn,     \* the radio's ready line is high
          requests, \* calls of bootloader_jump
          jumps,    \* entries to the bootloader
          disturbed \* since the last call of bootloader_jump there was a
                    \* reset the program did not ask for

memory == <<eeprom, crcLow, crcHigh, wornOut>>
call == <<pc, config, next, result, settled, stores>>
booting == <<key, wdrf, mode, requests, jumps, disturbed>>
vars == <<memory, call, booting, rdyn>>

-----------------------------------------------------------------------------
(* What is stored *)

\* conn_timeout is made a byte before it is shifted.
TimeoutHigh(t) == (t % Byte) \div Byte
TimeoutLow(t) == t % Byte

\* sizeof(pipes), the size of a pointer, not n_pipes
PipeBytes == 2

Image(c) ==
    <<c.pins>> \o SubSeq(c.pipes, 1, PipeBytes)
        \o <<TimeoutLow(c.timeout), TimeoutHigh(c.timeout)>>

Cells == 1 .. 3 + PipeBytes

LowCell == 4 + PipeBytes
HighCell == 5 + PipeBytes

\* Seeded fault: the CRC stops before the last two cells.
FaultCRC(image) == SubSeq(image, 1, Len(image) - 2)

\* crc_16_ccitt over the image
CRC(image) == image

\* What a bootloader finds: the CRC fits the cells.
Valid == crcLow = CRC(eeprom) /\ crcHigh = CRC(eeprom)

\* Two blank cells are not the CRC of anything the cells may hold.
Contents == [Cells -> Nat \cup {Blank}]

ASSUME BlankAssumption == Blank \notin Contents

Images == {Image(c) : c \in Configs}
Sums == {CRC(i) : i \in Images} \cup {Blank}

TypeOK ==
    /\ eeprom \in Contents
    /\ crcLow \in Sums /\ crcHigh \in Sums
    /\ wornOut \subseteq Worn
    /\ pc \in {"idle", "write", "crcLow", "crcHigh", "readback"}
    /\ config \in Configs
    /\ next \in Cells
    /\ result \in {"none", "TRUE", "FALSE"}
    /\ settled \in BOOLEAN
    /\ stores \in 0 .. MaxCalls
    /\ key \in BOOLEAN /\ wdrf \in BOOLEAN
    /\ mode \in {"reset", "app", "wait", "jump", "boot"}
    /\ rdyn \in BOOLEAN
    /\ requests \in 0 .. MaxJumps /\ jumps \in Nat
    /\ disturbed \in BOOLEAN

\* A blank EEPROM, and the reset of power-on; boot_key does not happen to
\* hold the key.
Init ==
    /\ eeprom = [n \in Cells |-> Blank]
    /\ crcLow = Blank /\ crcHigh = Blank
    /\ wornOut = {}
    /\ pc = "idle"
    /\ config \in Configs
    /\ next = 1
    /\ result = "none"
    /\ settled = TRUE
    /\ stores = 0
    /\ key = FALSE /\ wdrf = FALSE
    /\ mode = "reset"
    /\ rdyn \in BOOLEAN
    /\ requests = 0 /\ jumps = 0
    /\ disturbed = FALSE

-----------------------------------------------------------------------------
(* bootloader_data_store *)

Running(at) == mode = "app" /\ pc = at

Return(r) == pc' = "idle" /\ result' = r

Store(c) ==
    /\ Running("idle") /\ stores < MaxCalls
    /\ stores' = stores + 1
    /\ config' = c
    /\ next' = 1
    /\ IF crcLow = CRC(Image(c)) /\ crcHigh = CRC(Image(c))
       THEN Return("TRUE") /\ UNCHANGED settled
       ELSE pc' = "write" /\ result' = "none" /\ settled' = FALSE
    /\ UNCHANGED <<memory, booting, rdyn>>

WriteCell ==
    /\ Running("write")
    /\ eeprom' = IF next \in wornOut THEN eeprom
                 ELSE [eeprom EXCEPT ![next] = Image(config)[next]]
    /\ IF next = Len(eeprom)
       THEN pc' = "crcLow" /\ UNCHANGED next
       ELSE next' = next + 1 /\ UNCHANGED pc
    /\ UNCHANGED <<crcLow, crcHigh, wornOut, config, result, settled, stores, booting, rdyn>>

WriteCrcLow ==
    /\ Running("crcLow")
    /\ crcLow' = IF LowCell \in wornOut THEN crcLow ELSE CRC(Image(config))
    /\ pc' = "crcHigh"
    /\ UNCHANGED <<eeprom, crcHigh, wornOut, config, next, result, settled, stores,
                   booting, rdyn>>

WriteCrcHigh ==
    /\ Running("crcHigh")
    /\ crcHigh' = IF HighCell \in wornOut THEN crcHigh ELSE CRC(Image(config))
    /\ pc' = "readback"
    /\ UNCHANGED <<eeprom, crcLow, wornOut, config, next, result, settled, stores,
                   booting, rdyn>>

\* Seeded fault: the CRC cells are compared with the CRC that was to be
\* written, not with that of what is read back.
FaultReadBack ==
    /\ Running("readback")
    /\ LET good == crcLow = CRC(Image(config)) /\ crcHigh = CRC(Image(config))
       IN  Return(IF good THEN "TRUE" ELSE "FALSE") /\ settled' = good
    /\ UNCHANGED <<memory, config, next, stores, booting, rdyn>>

ReadBack ==
    /\ Running("readback")
    /\ Return(IF Valid THEN "TRUE" ELSE "FALSE")
    /\ settled' = Valid
    /\ UNCHANGED <<memory, config, next, stores, booting, rdyn>>

\* A cell wears out (external).
Wear(n) ==
    /\ n \notin wornOut
    /\ wornOut' = wornOut \cup {n}
    /\ UNCHANGED <<eeprom, crcLow, crcHigh, call, booting, rdyn>>

-----------------------------------------------------------------------------
(* bootloader_jump and bootloader_jump_check *)

\* The radio moves its ready line (external).
Ready == rdyn' = ~rdyn /\ UNCHANGED <<memory, call, booting>>

Jump ==
    /\ Running("idle") /\ requests < MaxJumps
    /\ mode' = "wait"
    /\ requests' = requests + 1
    /\ disturbed' = FALSE
    /\ UNCHANGED <<memory, call, key, wdrf, jumps, rdyn>>

\* Seeded fault: the key is not set.
FaultSetKey ==
    /\ mode = "wait" /\ ~rdyn
    /\ mode' = "jump"
    /\ UNCHANGED <<memory, call, key, wdrf, requests, jumps, disturbed, rdyn>>

\* Once the ready line is read low, however long that takes, boot_key is set
\* and the watchdog left to bite.
SetKey ==
    /\ mode = "wait" /\ ~rdyn
    /\ key' = TRUE
    /\ mode' = "jump"
    /\ UNCHANGED <<memory, call, wdrf, requests, jumps, disturbed, rdyn>>

\* The processor starts again (external): by the watchdog, which the
\* application may also have let run out, or from outside.
Restart(flag) ==
    /\ wdrf' = (wdrf \/ flag)
    /\ mode' = "reset"
    /\ pc' = "idle" /\ result' = "none" /\ next' = 1
    /\ UNCHANGED <<memory, config, settled, stores, key, requests, jumps, rdyn>>

WatchdogBites == mode = "jump" /\ Restart(TRUE) /\ UNCHANGED disturbed

Interrupted ==
    /\ mode # "reset"
    /\ \E flag \in BOOLEAN : Restart(flag)
    /\ disturbed' = TRUE

\* Seeded fault: the key is left in place.
FaultJumpCheck ==
    /\ mode = "reset"
    /\ wdrf' = FALSE
    /\ IF wdrf /\ key
       THEN mode' = "boot" /\ jumps' = jumps + 1
       ELSE mode' = "app" /\ UNCHANGED jumps
    /\ UNCHANGED <<memory, call, key, requests, disturbed, rdyn>>

JumpCheck ==
    /\ mode = "reset"
    /\ wdrf' = FALSE
    /\ IF wdrf /\ key
       THEN mode' = "boot" /\ key' = FALSE /\ jumps' = jumps + 1
       ELSE mode' = "app" /\ UNCHANGED <<key, jumps>>
    /\ UNCHANGED <<memory, call, requests, disturbed, rdyn>>

Next ==
    \/ \E c \in Configs : Store(c)
    \/ WriteCell \/ WriteCrcLow \/ WriteCrcHigh \/ ReadBack
    \/ \E n \in Worn : Wear(n)
    \/ Jump \/ Ready \/ SetKey \/ WatchdogBites \/ Interrupted \/ JumpCheck

Spec == Init /\ [][Next]_vars

FairSpec == Spec /\ WF_vars(SetKey) /\ WF_vars(WatchdogBites) /\ WF_vars(JumpCheck)

-----------------------------------------------------------------------------
(***************************************************************************)
(* Whatever is interrupted, worn or tried again, a CRC that fits means     *)
(* that the cells are the image of one configuration, never parts of two   *)
(* (bootloader_setup.c:119-143).                                           *)
(***************************************************************************)
ValidMeansWhole == Valid => eeprom \in Images

(***************************************************************************)
(* TRUE means that the image of the data the caller passed is in the       *)
(* EEPROM, whatever earlier calls were cut short by a reset and whatever   *)
(* cells of the data are worn, under two conditions.  The last call that   *)
(* had something to write has itself come to its end and returned TRUE:    *)
(* after one that did not, the CRC, by which alone a later call decides    *)
(* that nothing is to be written, may stand beside other data              *)
(* (bootloader_setup.c:113).  And the cells of the CRC take their writes:  *)
(* what is read back is compared with them, not with the CRC of the data   *)
(* (:157).  The image is what the code makes of the data, without what it  *)
(* loses of them (:84-98).                                                 *)
(***************************************************************************)
TrueMeansStored ==
    result = "TRUE" /\ settled /\ {LowCell, HighCell} \cap wornOut = {} =>
        Valid /\ eeprom = Image(config)

(***************************************************************************)
(* "Returns TRUE if the write was successful, or FALSE"                    *)
(* (bootloader_setup.h:18), with neither condition: not so.                *)
(***************************************************************************)
TrueMeansWritten == result = "TRUE" => Valid /\ eeprom = Image(config)

(***************************************************************************)
(* Stored are "the pipes used for a DFU transfer, found in this example's  *)
(* services.h, the connection timeout and the connection advertisement     *)
(* interval" (bootloader_setup.c:61-66): what the caller passed can be had *)
(* from the cells.  Not so of what :84-98 lose.                            *)
(***************************************************************************)
DataStored ==
    result = "TRUE" /\ settled /\ wornOut = {} =>
        /\ SubSeq(eeprom, 2, 1 + PipeBytes) = config.pipes
        /\ eeprom[2 + PipeBytes] + Byte * eeprom[3 + PipeBytes] = config.timeout

(***************************************************************************)
(* The bootloader is entered at most once for each call of bootloader_jump,*)
(* however the processor is reset (bootloader_setup.c:29-38, 50).          *)
(***************************************************************************)
OneJumpPerRequest == jumps <= requests

(***************************************************************************)
(* A call of bootloader_jump ends in the bootloader, unless another reset  *)
(* comes first, or the ready line is seen high while the call waits for it *)
(* (bootloader_setup.c:47-53).  A line that is high for ever holds the     *)
(* call for ever; from when it stays low the call gets on, and once the    *)
(* key is set the line no longer matters.                                  *)
(***************************************************************************)
JumpArrives ==
    mode \in {"wait", "jump"} ~>
        mode = "boot" \/ disturbed \/ (mode = "wait" /\ rdyn)

(***************************************************************************)
(* bootloader_jump "Returns only if the jump wasn't possible"              *)
(* (bootloader_setup.h:30): it jumps or it returns.  It does neither while *)
(* the ready line is high (bootloader_setup.c:47).                         *)
(***************************************************************************)
JumpOrReturn == mode = "wait" ~> mode # "wait"
=============================================================================
