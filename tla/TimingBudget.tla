---------------------------- MODULE TimingBudget ---------------------------
(***************************************************************************)
(* setMeasurementTimingBudget of Source/vl53l0x.c gives the final range    *)
(* step what a budget leaves of the other steps, in the register           *)
(* FINAL_RANGE_CONFIG_TIMEOUT_MACROP, which holds a timeout of 16 bits in  *)
(* two bytes as (LSByte * 2^MSByte) + 1.  The registers of the other steps *)
(* are those of the tuning settings of vl53l0x_start and do not change     *)
(* afterwards.  Times are in microseconds.                                 *)
(***************************************************************************)
EXTENDS Integers

Byte == 256
U16 == Byte * Byte

-----------------------------------------------------------------------------
(* The coding *)

\* How often the loop shifts until v fits a byte.
Shifts(v) == CHOOSE n \in 0 .. 16 :
    v \div 2^n < Byte /\ \A m \in 0 .. n - 1 : v \div 2^m >= Byte

EncodeTimeout(t) ==
    IF t > 0
    THEN LET ls == t - 1 IN Shifts(ls) * Byte + (ls \div 2^Shifts(ls))
    ELSE 0

DecodeTimeout(r) == ((((r % Byte) * 2^(r \div Byte)) % U16) + 1) % U16

-----------------------------------------------------------------------------
(* Times, with the values of the tuning settings *)

MsrcMclks == 37 + 1
PreMclks == DecodeTimeout(150)
TunedFinal == 256 + 254
VcselPeriod(reg) == 2 * (reg + 1)
PrePclks == VcselPeriod(6)
FinalPclks == VcselPeriod(4)

MacroPeriod(pclks) == (2304 * pclks * 1655 + 500) \div 1000

ToMicroseconds(mclks, pclks) ==
    (mclks * MacroPeriod(pclks) + MacroPeriod(pclks) \div 2) \div 1000

ToMclks(us, pclks) == (us * 1000 + MacroPeriod(pclks) \div 2) \div MacroPeriod(pclks)

\* What the other steps take: DSS, pre-range and the overheads.
Used ==
    1320 + 960
        + 2 * (ToMicroseconds(MsrcMclks, PrePclks) + 690)
        + ToMicroseconds(PreMclks, PrePclks) + 660
        + 550

-----------------------------------------------------------------------------
(* Setting a budget *)

MinTimingBudget == 20000

Accepted(b) == b >= MinTimingBudget /\ Used <= b

FinalFor(b) == EncodeTimeout(((ToMclks(b - Used, FinalPclks) % U16) + PreMclks) % U16)

\* The timeout fits its 16 bits, as it does for budgets up to 2.5 s;
\* vl53l0x_setMode asks for 200 ms at most.
FitsField(b) == ToMclks(b - Used, FinalPclks) + PreMclks < U16

-----------------------------------------------------------------------------
(* What the register comes to *)

Period == ToMicroseconds(1, FinalPclks)

\* How long a measurement takes with r in the register.
Takes(r) == Used + ToMicroseconds(DecodeTimeout(r) - PreMclks, FinalPclks)

\* A macro period more than the budget at most, and less by no more than that
\* and what the coding of the timeout cuts off.
Meets(r, b) ==
    /\ Takes(r) <= b + Period
    /\ b - Takes(r) <= Period + ToMicroseconds(DecodeTimeout(r), FinalPclks) \div 127
=============================================================================
