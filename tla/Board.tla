------------------------------- MODULE Board -------------------------------
(***************************************************************************)
(* The board (crates/bsp-f446/src/lib.rs): why it was reset and how fast    *)
(* its clocks run.  The chip's reset flags are bits of its RCC_CSR; the     *)
(* code has an address, and names for the bits, of its own.                 *)
(***************************************************************************)
EXTENDS Naturals, Sequences

(* The STM32F446RE, external.                                               *)

ChipCsr == "0x4002_3874"

\* Bit 24 of RCC_CSR clears the flags.
RMVF == 24

\* The flags a reset raises: brown-out, pin and power-on, the pin, the watchdog.  The chip
\* may raise the flag of the pin along with any other.
ChipFlags == [Por |-> {25, 26, 27}, PinReset |-> {26}, Iwdg |-> {29}]

Raised(why) == {ChipFlags[why] \cup pin : pin \in SUBSET ChipFlags["PinReset"]}

\* A word read, or written, while the chip has the flags csr.  Another address than the
\* one of RCC_CSR is none of its: 0x4002_1050 lies among the words of GPIOE, beyond its
\* registers; the port has no clock yet, so that it reads 0 and takes no write.
Load(addr, csr) == IF addr = ChipCsr THEN csr ELSE {}

Store(addr, word, csr) == IF addr = ChipCsr /\ RMVF \in word THEN {} ELSE csr

-----------------------------------------------------------------------------
(* The code.                                                                *)

RCC_CSR_ADDR == "0x4002_1050"

ResetFlag == [Por |-> 25, LowPower |-> 26, PinReset |-> 27, Software |-> 28,
              Iwdg |-> 29, Wwdg |-> 30]

ReasonOrder == <<"Iwdg", "Wwdg", "Software", "LowPower", "PinReset", "Por">>

ResetReason == DOMAIN ResetFlag \cup {"Unknown"}

\* The first reason in that order whose flag is set.
ReasonOf(word) ==
    LET found == {i \in DOMAIN ReasonOrder : ResetFlag[ReasonOrder[i]] \in word}
    IN  IF found = {} THEN "Unknown"
        ELSE ReasonOrder[CHOOSE i \in found : \A j \in found : i <= j]

ReadResetReason(csr) == ReasonOf(Load(RCC_CSR_ADDR, csr))

ClearResetFlags(csr) == Store(RCC_CSR_ADDR, Load(RCC_CSR_ADDR, csr) \cup {RMVF}, csr)

-----------------------------------------------------------------------------
(* The clock tree, in Hz.                                                   *)

HSE == 8000000
PllOut == (HSE \div 4) * 168

SysClock == PllOut \div 4      \* divp
UsbClock == PllOut \div 7      \* divq

\* bxCAN runs on APB1.
CanClock == SysClock \div 2
=============================================================================
