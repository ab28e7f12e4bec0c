-------------------------------- MODULE Bonds -------------------------------
(***************************************************************************)
(* ble_HID_keyboard_2_bonds_template.ino keeps the bonding data of two     *)
(* peers in the EEPROM, because the radio forgets it with its power.  A    *)
(* new bond is read out of the radio after its link is lost and written a  *)
(* cell at a time; when advertising runs out, the stored bonds take turns  *)
(* in being written back to the radio, so that either peer finds it.       *)
(*                                                                         *)
(* The header of bond k is cell 2k, the number of its messages with the    *)
(* top bit set, and cell 2k + 1, where its data begins; a message is       *)
(* stored as length, opcode and data, of which one cell is modelled.       *)
(* Power may be lost between any two writes.                               *)
(*                                                                         *)
(* The radio is external: it answers commands in order, reads and writes   *)
(* its data in standby only, bonds in bond mode only, and may fail.  The   *)
(* setup of the radio, its pipes and timers have no part in this.          *)
(***************************************************************************)
EXTENDS Integers, Sequences

CONSTANTS Msgs,      \* messages the data of a bond takes
          QueueSize, \* ACI_QUEUE_SIZE
          Byte,      \* 2^8
          Opcode,    \* ACI_CMD_WRITE_DYNAMIC_DATA
          Top,       \* the last cell of the EEPROM
          MaxBonds,  \* bound on the bonds ever made
          MaxBoots,  \* bound on the losses of power
          MaxErrors  \* bound on the failures of the radio

BONDS_MAX == 2
Erased == Byte - 1
Valid == Byte \div 2    \* the top bit of a header cell

\* There are cells enough behind the one an erased offset leads to.
ASSUME BondsAssumption ==
    /\ Msgs \in Nat \ {0} /\ QueueSize \in Nat \ {0}
    /\ MaxBonds \in Nat \ {0} /\ MaxBoots \in Nat /\ MaxErrors \in Nat
    /\ Byte \in Nat /\ Opcode \in 1 .. Byte - 1
    /\ Valid + Msgs < Erased /\ Msgs * (MaxBonds + 1) < Erased
    /\ Top \in Nat /\ Erased + 3 * Msgs * (MaxBonds + MaxErrors) <= Top

VARIABLES eeprom,
          number,   \* bond_number
          current,  \* current_bond_index
          offset,   \* eeprom_write_offset
          bonded,   \* aci_state.bonded is ACI_BOND_STATUS_SUCCESS
          asked,    \* disconnect_started
          pc, caller, \* where the sketch is, and who restores
          index, at, left, \* bond_index, an offset, and the messages counted
          msg,      \* the answer being stored
          tx, rx,   \* commands to the radio, events from it
          mode,     \* "standby", "bond", "connect", "bonding" or "linked"
          held,     \* whose bonding data the radio holds
          sent,     \* messages of it the radio has read out
          seen,     \* what has been written to the radio
          made, boots, errors,
          pin2,
          committed,\* the peer of each bond last declared valid
          tidy      \* no clearing was cut short, and every offset fits its byte

ram == <<number, current, offset, bonded, asked>>
local == <<caller, index, at, left, msg>>
radio == <<mode, held, sent, seen, made>>
rest == <<boots, errors, pin2, committed, tidy>>
vars == <<eeprom, ram, pc, local, tx, rx, radio, rest>>

-----------------------------------------------------------------------------
(* Data *)

Nobody == 0
Garbled == MaxBonds + 1
Piece(peer, n) == Msgs * peer + n
Owner(piece) == (piece - 1) \div Msgs
SeqNo(piece) == ((piece - 1) % Msgs) + 1
Data(peer) == [n \in 1 .. Msgs |-> Piece(peer, n)]
PeerOf(data) ==
    IF \E p \in 0 .. MaxBonds : data = Data(p)
    THEN CHOOSE p \in 0 .. MaxBonds : data = Data(p) ELSE Garbled

Cell(a) == IF a \in DOMAIN eeprom THEN eeprom[a] ELSE Erased
Exists(k) == eeprom[2 * k] # Erased

Event(type, status, data) == [type |-> type, status |-> status, data |-> data]
Plain(type) == Event(type, "none", 0)
Command(type) == [type |-> type, op |-> 0, data |-> 0]

\* hal_aci_tl_send
Send(c) == tx' = IF Len(tx) < QueueSize THEN Append(tx, c) ELSE tx

Types == {"started", "startedHw", "hwError", "connected", "bond", "rsp",
          "timeout", "disconnected"}
Events == [type : Types, data : Nat,
           status : {"none", "success", "failed", "error", "continue", "complete"}]
Commands == [type : {"bond", "connect", "version", "disconnect", "read", "write"},
             op : Nat, data : Nat]

TypeOK ==
    /\ eeprom \in [0 .. Top -> Nat]
    /\ number \in Nat /\ current \in Nat /\ offset \in Nat
    /\ bonded \in BOOLEAN /\ asked \in BOOLEAN /\ pin2 \in BOOLEAN /\ tidy \in BOOLEAN
    /\ pc \in {"loop", "pin", "restore", "restoreWait", "readWait", "cells",
               "commit", "next", "clear", "halt"}
    /\ caller \in {"start", "timeout"}
    /\ index \in Nat /\ at \in Nat /\ left \in Int /\ msg \in Events
    /\ tx \in Seq(Commands) /\ Len(tx) <= QueueSize
    /\ rx \in Seq(Events)
    /\ mode \in {"standby", "bond", "connect", "bonding", "linked"}
    /\ held \in 0 .. Garbled /\ made \in 0 .. MaxBonds
    /\ sent \in 0 .. Msgs - 1
    /\ seen \in Seq(Nat) /\ Len(seen) < Msgs
    /\ boots \in 0 .. MaxBoots /\ errors \in 0 .. MaxErrors
    /\ committed \in [0 .. BONDS_MAX - 1 -> Int]

Init ==
    /\ eeprom = [a \in 0 .. Top |-> Erased]
    /\ number = 0 /\ current = Erased /\ offset = 2 * BONDS_MAX
    /\ bonded = FALSE /\ asked = FALSE
    /\ caller = "start" /\ index = 0 /\ at = 0 /\ left = 0 /\ msg = Plain("rsp")
    /\ pc = "loop" /\ tx = <<>> /\ rx = <<Plain("started")>>
    /\ mode = "standby" /\ held = Nobody /\ sent = 0 /\ seen = <<>> /\ made = 0
    /\ boots = 0 /\ errors = 0
    /\ pin2 \in BOOLEAN
    /\ committed = [k \in 0 .. BONDS_MAX - 1 |-> Nobody]
    /\ tidy = TRUE

-----------------------------------------------------------------------------
(* What follows a start, an end of a link, or an end of advertising *)

\* What the functions leave of their variables
Returned ==
    caller' = "start" /\ index' = 0 /\ at' = 0 /\ left' = 0 /\ msg' = Plain("rsp")

\* The event is done with; loop then looks at pin 2, which ends a link, once.
Done == pc' = IF pin2 /\ ~asked THEN "pin" ELSE "loop"

\* Pin 2 asks for another bond; with both places taken nothing is started.
Advertise(n) ==
    /\ Done
    /\ IF pin2 \/ n = 0
       THEN IF n < BONDS_MAX THEN Send(Command("bond")) ELSE UNCHANGED tx
       ELSE Send(Command("connect"))

BeginRestore(k, from) ==
    /\ caller' = from
    /\ index' = k
    /\ at' = eeprom[2 * k + 1]
    /\ left' = eeprom[2 * k] % Valid
    /\ pc' = "restore"
    /\ UNCHANGED <<tx, msg>>

Got(type) == pc = "loop" /\ rx # <<>> /\ Head(rx).type = type /\ rx' = Tail(rx)

\* Seeded fault: the write offset is not taken from the header.
FaultRecount ==
    IF Exists(0)
    THEN number' = (IF Exists(1) THEN 2 ELSE 1) /\ UNCHANGED offset
    ELSE number' = 0 /\ UNCHANGED offset

\* The bonds are counted from the header.
Recount ==
    IF Exists(0)
    THEN LET n == IF Exists(1) THEN 2 ELSE 1
         IN  number' = n /\ offset' = Cell(2 * n + 1)
    ELSE number' = 0 /\ UNCHANGED offset

\* ACI_EVT_DEVICE_STARTED without an error, and ACI_EVT_HW_ERROR
Restart ==
    /\ Got("started") \/ Got("hwError")
    /\ Recount
    /\ IF Exists(0)
       THEN current' = 0 /\ BeginRestore(0, "start")
       ELSE /\ Send(Command("bond"))
            /\ Done
            /\ UNCHANGED <<current, local>>
    /\ UNCHANGED <<eeprom, bonded, asked, radio, rest>>

Connected ==
    /\ Got("connected")
    /\ Send(Command("version"))
    /\ Done
    /\ UNCHANGED <<eeprom, ram, local, radio, rest>>

BondStatus ==
    /\ Got("bond")
    /\ bonded' = (Head(rx).status = "success")
    /\ Done
    /\ UNCHANGED <<eeprom, number, current, offset, asked, local, tx, radio, rest>>

\* Responses, and the start that follows an error of the radio
Ignored ==
    /\ Got("rsp") \/ Got("startedHw")
    /\ Done
    /\ UNCHANGED <<eeprom, ram, local, tx, radio, rest>>

\* Seeded fault: the other bond is not tried.
FaultTimeout ==
    /\ Got("timeout")
    /\ IF Exists(0) THEN current' = 0 /\ BeginRestore(0, "timeout")
       ELSE current' = 0 /\ Advertise(number) /\ UNCHANGED local
    /\ UNCHANGED <<eeprom, number, offset, bonded, asked, radio, rest>>

\* ACI_EVT_DISCONNECTED, at the end of advertising: the next bond is restored.
Timeout ==
    /\ Got("timeout")
    /\ LET k == IF current >= BONDS_MAX THEN 0 ELSE current
       IN  IF Exists(k) THEN current' = k /\ BeginRestore(k, "timeout")
           ELSE current' = 0 /\ Advertise(number) /\ UNCHANGED local
    /\ UNCHANGED <<eeprom, number, offset, bonded, asked, radio, rest>>

\* The offset of this bond, and that of the next, can be kept in a byte.
Fits == offset + (IF number = 0 THEN 3 * Msgs ELSE 0) < Byte

\* ... and at the end of a link: after a new bond its data is read.
Disconnected ==
    /\ Got("disconnected")
    /\ bonded' = FALSE
    /\ IF bonded
       THEN /\ eeprom' = [eeprom EXCEPT ![2 * number + 1] = offset % Byte]
            /\ Send(Command("read"))
            /\ index' = number /\ left' = 1
            /\ pc' = "readWait"
            /\ tidy' = (tidy /\ Fits)
            /\ UNCHANGED <<caller, at, msg>>
       ELSE Advertise(number) /\ UNCHANGED <<eeprom, local, tidy>>
    /\ UNCHANGED <<number, current, offset, asked, radio,
                   boots, errors, pin2, committed>>

EndLink ==
    /\ pc = "pin" \/ (pc = "loop" /\ rx = <<>> /\ pin2 /\ ~asked)
    /\ Send(Command("disconnect"))
    /\ asked' = TRUE
    /\ pc' = "loop"
    /\ UNCHANGED <<eeprom, number, current, offset, bonded, local, rx, radio, rest>>

-----------------------------------------------------------------------------
(* bond_data_restore *)

\* What it returns is taken up by the handler that called it.
Restored(complete) ==
    /\ current' = IF caller = "timeout" \/ complete THEN current + 1 ELSE current
    /\ Returned
    /\ IF caller = "timeout" THEN Advertise(number)
       ELSE Done /\ Send(Command("connect"))

\* Seeded fault: the opcode is sent as it is in the EEPROM.
FaultWriteMessage == [type |-> "write", op |-> Cell(at + 1), data |-> Cell(at + 2)]

\* The opcode is put right, for it may have been overwritten.
WriteMessage == [type |-> "write", op |-> Opcode, data |-> Cell(at + 2)]

RestoreSend ==
    /\ pc = "restore"
    /\ IF Len(tx) < QueueSize
       THEN /\ Send(WriteMessage)
            /\ at' = at + 1 + Cell(at)
            /\ pc' = "restoreWait"
            /\ UNCHANGED <<current, caller, index, left, msg>>
       ELSE Restored(FALSE)
    /\ UNCHANGED <<eeprom, number, offset, bonded, asked, rx, radio, rest>>

\* Seeded fault: any answer completes.
FaultCompletes(e) == e.status # "error"

Completes(e) == e.status = "complete"

\* Any response is taken for the answer, and any other event for a failure.
RestoreWait ==
    /\ pc = "restoreWait" /\ rx # <<>>
    /\ rx' = Tail(rx)
    /\ LET e == Head(rx)
       IN  IF e.type # "rsp" \/ Completes(e) \/ left = 1
           THEN Restored(e.type = "rsp" /\ Completes(e))
           ELSE /\ left' = left - 1
                /\ pc' = IF e.status = "continue" THEN "restore" ELSE pc
                /\ UNCHANGED <<current, caller, index, at, msg, tx>>
    /\ UNCHANGED <<eeprom, number, offset, bonded, asked, radio, rest>>

-----------------------------------------------------------------------------
(* bond_data_read_store *)

ReadWait ==
    /\ pc = "readWait" /\ rx # <<>>
    /\ rx' = Tail(rx)
    /\ LET e == Head(rx)
       IN  IF e.type = "rsp" /\ e.status \in {"continue", "complete"}
           THEN /\ msg' = e /\ at' = 1 /\ pc' = "cells"
                /\ UNCHANGED <<eeprom, caller, index, left, tx>>
           ELSE /\ eeprom' = IF e.type = "rsp"
                             THEN [eeprom EXCEPT ![2 * index] = Erased] ELSE eeprom
                /\ Advertise(number)
                /\ Returned
    /\ UNCHANGED <<ram, radio, rest>>

\* bond_data_store
WriteCell ==
    /\ pc = "cells"
    /\ eeprom' = [eeprom EXCEPT ![offset] = <<2, Opcode, msg.data>>[at]]
    /\ offset' = offset + 1
    /\ at' = at + 1
    /\ IF at < 3 THEN UNCHANGED <<pc, tx, left>>
       ELSE IF Completes(msg) THEN pc' = "commit" /\ UNCHANGED <<tx, left>>
       ELSE pc' = "readWait" /\ Send(Command("read")) /\ left' = left + 1
    /\ UNCHANGED <<number, current, bonded, asked, caller, index, msg, rx, radio, rest>>

\* The header makes the bond valid ...
Commit ==
    /\ pc = "commit"
    /\ eeprom' = [eeprom EXCEPT ![2 * index] = Valid + left]
    /\ committed' = [committed EXCEPT ![index] = Owner(msg.data)]
    /\ pc' = "next"
    /\ UNCHANGED <<ram, local, tx, rx, radio, boots, errors, pin2, tidy>>

\* Seeded fault: the bond is not counted.
FaultSetNext ==
    /\ pc = "next"
    /\ eeprom' = [eeprom EXCEPT ![2 * (index + 1) + 1] = offset % Byte]
    /\ Advertise(number)
    /\ Returned
    /\ UNCHANGED <<ram, rx, radio, rest>>

\* ... and the offset of the next is set, after the second bond in a cell of
\* the data of the first.
SetNext ==
    /\ pc = "next"
    /\ eeprom' = [eeprom EXCEPT ![2 * (index + 1) + 1] = offset % Byte]
    /\ number' = number + 1
    /\ Advertise(number + 1)
    /\ Returned
    /\ UNCHANGED <<current, offset, bonded, asked, rx, radio, rest>>

-----------------------------------------------------------------------------
(* setup *)

\* Power is lost, and comes back with pin 6 high or low.
Boot ==
    /\ boots < MaxBoots
    /\ boots' = boots + 1
    /\ number' = 0 /\ current' = Erased /\ offset' = 2 * BONDS_MAX
    /\ bonded' = FALSE /\ asked' = FALSE
    /\ Returned
    /\ tx' = <<>> /\ rx' = <<Plain("started")>>
    /\ mode' = "standby" /\ held' = Nobody /\ sent' = 0 /\ seen' = <<>>
    /\ pc' \in {"loop"} \cup (IF boots' < MaxBoots THEN {"clear"} ELSE {})
    /\ tidy' = (tidy /\ ~(pc = "clear" /\ at > 0))
    /\ UNCHANGED <<eeprom, made, errors, pin2, committed>>

\* The header is erased, a cell at a time; then nothing but a reset helps.
Clear ==
    /\ pc = "clear"
    /\ eeprom' = [eeprom EXCEPT ![at] = Erased]
    /\ at' = at + 1
    /\ IF at = 2 * BONDS_MAX - 1 THEN pc' = "halt" /\ tidy' = TRUE
       ELSE UNCHANGED <<pc, tidy>>
    /\ UNCHANGED <<ram, caller, index, left, msg, tx, rx, radio,
                   boots, errors, pin2, committed>>

Press == pin2' = ~pin2 /\ UNCHANGED <<eeprom, ram, pc, local, tx, rx, radio, boots,
                                      errors, committed, tidy>>

-----------------------------------------------------------------------------
(* The radio *)

Report(e) == rx' = Append(rx, e)
Response(status, data) == Report(Event("rsp", status, data))

Dropped == sent' = 0 /\ seen' = <<>>

Advertising(c) ==
    /\ c.type \in {"bond", "connect"}
    /\ IF mode = "standby" THEN mode' = c.type /\ Response("success", 0)
       ELSE UNCHANGED mode /\ Response("error", 0)
    /\ Dropped /\ UNCHANGED <<held, errors>>

Simple(c) ==
    /\ c.type \in {"version", "disconnect"}
    /\ Response(IF c.type = "disconnect" /\ mode \notin {"bonding", "linked"}
                THEN "error" ELSE "success", 0)
    /\ Dropped /\ UNCHANGED <<mode, held, errors>>

ReadOut(c) ==
    /\ c.type = "read" /\ mode = "standby"
    /\ sent' = (sent + 1) % Msgs
    /\ Response(IF sent + 1 = Msgs THEN "complete" ELSE "continue", Piece(held, sent + 1))
    /\ seen' = <<>> /\ UNCHANGED <<mode, held, errors>>

InOrder(c) == mode = "standby" /\ c.op = Opcode /\ SeqNo(c.data) = Len(seen) + 1

WrittenBack(c) ==
    /\ c.type = "write" /\ InOrder(c)
    /\ IF Len(seen) + 1 = Msgs
       THEN /\ seen' = <<>>
            /\ held' = PeerOf(Append(seen, c.data))
            /\ Response("complete", 0)
       ELSE seen' = Append(seen, c.data) /\ UNCHANGED held /\ Response("continue", 0)
    /\ sent' = 0 /\ UNCHANGED <<mode, errors>>

\* A command out of place, or one the radio fails to carry out
Refused(c) ==
    /\ c.type \in {"read", "write"}
    /\ \/ /\ IF c.type = "read" THEN mode # "standby" ELSE ~InOrder(c)
          /\ UNCHANGED errors
       \/ errors < MaxErrors /\ errors' = errors + 1
    /\ Response("error", 0)
    /\ Dropped /\ UNCHANGED <<mode, held>>

Answer ==
    /\ tx # <<>> /\ tx' = Tail(tx)
    /\ \/ Advertising(Head(tx)) \/ Simple(Head(tx))
       \/ ReadOut(Head(tx)) \/ WrittenBack(Head(tx)) \/ Refused(Head(tx))
    /\ UNCHANGED <<eeprom, ram, pc, local, made, boots, pin2, committed, tidy>>

program == <<eeprom, ram, pc, local, rest>>

\* Commands and events are dealt with long before advertising runs out, a
\* peer comes or has bonded; only the end of a link may come while the
\* sketch still has events to take.
Settled == tx = <<>> /\ rx = <<>>

AdvertTimeout ==
    /\ mode \in {"bond", "connect"} /\ Settled
    /\ mode' = "standby"
    /\ Report(Plain("timeout"))
    /\ UNCHANGED <<program, tx, held, sent, seen, made>>

\* Only the peer whose bond the radio holds answers in connect mode.
LinkMade ==
    /\ mode = "bond" \/ (mode = "connect" /\ held \in 1 .. MaxBonds)
    /\ Settled
    /\ mode' = IF mode = "bond" THEN "bonding" ELSE "linked"
    /\ Report(Plain("connected"))
    /\ UNCHANGED <<program, tx, held, sent, seen, made>>

BondMade ==
    /\ mode = "bonding" /\ Settled
    /\ mode' = "linked"
    /\ \/ /\ made < MaxBonds
          /\ made' = made + 1 /\ held' = made'
          /\ Report(Event("bond", "success", 0))
       \/ /\ Report(Event("bond", "failed", 0))
          /\ UNCHANGED <<made, held>>
    /\ UNCHANGED <<program, tx, sent, seen>>

LinkLost ==
    /\ mode \in {"bonding", "linked"} /\ tx = <<>>
    /\ mode' = "standby"
    /\ Report(Plain("disconnected"))
    /\ UNCHANGED <<program, tx, held, sent, seen, made>>

\* The radio starts again by itself and forgets the bond, and the command it
\* may have had.
HwError ==
    /\ errors < MaxErrors /\ errors' = errors + 1
    /\ mode' = "standby" /\ held' = Nobody /\ Dropped
    /\ tx' \in {tx} \cup (IF tx = <<>> THEN {} ELSE {Tail(tx)})
    /\ \E es \in {<<Plain("startedHw"), Plain("hwError")>>,
                  <<Plain("hwError"), Plain("startedHw")>>} : rx' = rx \o es
    /\ UNCHANGED <<eeprom, ram, pc, local, made, boots, pin2, committed, tidy>>

-----------------------------------------------------------------------------
Sketch ==
    \/ Restart \/ Connected \/ BondStatus \/ Ignored \/ Timeout \/ Disconnected
    \/ EndLink
    \/ RestoreSend \/ RestoreWait
    \/ ReadWait \/ WriteCell \/ Commit \/ SetNext
    \/ Clear

Next ==
    \/ Sketch \/ Boot \/ Press
    \/ Answer \/ AdvertTimeout \/ LinkMade \/ BondMade \/ LinkLost \/ HwError

Spec == Init /\ [][Next]_vars

\* The sketch runs and the radio answers; links end, and not every time
\* does a peer come before advertising runs out.
FairSpec == Spec /\ WF_vars(Sketch) /\ WF_vars(Answer) /\ WF_vars(LinkLost)
                 /\ SF_vars(AdvertTimeout)

-----------------------------------------------------------------------------
(***************************************************************************)
(* Whenever power is lost, reading fails or the radio answers late: a bond *)
(* that the header says is valid is, message for message, the one that was *)
(* last stored there, but for an opcode that restoring puts right.  Power  *)
(* lost while the bonds are cleared is left out: it can leave the second   *)
(* bond valid and uncounted (.ino:333-385, 457-471, 837-840).              *)
(***************************************************************************)
ValidBondWhole ==
    tidy /\ pc # "clear" =>
        \A k \in 0 .. BONDS_MAX - 1 : Exists(k) =>
            /\ eeprom[2 * k] = Valid + Msgs
            /\ \A n \in 1 .. Msgs :
                 LET a == eeprom[2 * k + 1] + 3 * (n - 1)
                 IN  eeprom[a] = 2 /\ eeprom[a + 2] = Piece(committed[k], n)

(***************************************************************************)
(* A bond, once stored, is neither given up nor replaced until the bonds   *)
(* are cleared, whatever fails afterwards (.ino:397, 631-643).             *)
(***************************************************************************)
BondsKept ==
    [][tidy /\ pc # "clear" =>
           \A k \in 0 .. BONDS_MAX - 1 :
               Exists(k) => Exists(k)' /\ committed'[k] = committed[k]]_vars

\* The radio has failed since, and the sketch is about to hear of it.
Forgotten == \E i \in 1 .. Len(rx) : rx[i].type = "hwError"

(***************************************************************************)
(* When bond_data_restore reports success, the radio holds the bond asked  *)
(* for, although any response is taken for the answer (.ino:304-321).      *)
(***************************************************************************)
RestoredAsStored ==
    [][RestoreWait /\ Head(rx).type = "rsp" /\ Completes(Head(rx)) /\ tidy
           => held = committed[index] \/ Forgotten]_vars

\* Nothing more happens: with two bonds and pin 2 high no advertising was
\* started, or the radio failed and bond_data_restore waits for ever.
Stopped ==
    /\ mode = "standby" /\ Settled
    /\ (pc = "restoreWait" /\ errors > 0) \/ (pc = "loop" /\ number = BONDS_MAX)

(***************************************************************************)
(* Every bond stored comes back to the radio again and again, so that its  *)
(* peer can connect, as long as the advertising goes on (.ino:597-666).    *)
(***************************************************************************)
EachBondOffered ==
    \A k \in 0 .. BONDS_MAX - 1 :
        Exists(k) ~> held = committed[k] \/ Stopped \/ ~Exists(k) \/ ~tidy
=============================================================================
