------------------------------- MODULE DacPath -------------------------------
(***************************************************************************)
(* From the control registers to the output of the LTC2630: the control    *)
(* path of ControlMailbox, the choice between the manual code and the      *)
(* loop's (e310_ref_pll.v), the serialiser that shifts the chosen code out *)
(* (ltc2630_spi.v), and the chip that receives it.                         *)
(*                                                                         *)
(* All of it runs on the 200 MHz clock, so an edge of that clock is one    *)
(* step of the control path, of the loop and of the serialiser together.   *)
(* The serialiser's reset is synchronous: it acts at the first edge in     *)
(* reset, wherever a frame is then.  A bit on the wire is represented by   *)
(* the code it is a bit of.                                                *)
(***************************************************************************)
EXTENDS ControlMailbox

CONSTANTS
  ManualMode,    \* the one-bit field manual_mode ...
  ManualDac,     \* ... and the field manual_dac
  HOLDOVER_DAC,  \* the loop's code out of reset
  Bits,          \* bits of a frame: 24 in the code
  CLOCK_DIVIDER, \* 200 MHz cycles per half period of sclk
  UnknownCode    \* an output that no code accounts for

ASSUME DacAssumption ==
  /\ {ManualMode, ManualDac} \subseteq Field
  /\ HOLDOVER_DAC \in Value
  /\ UnknownCode \notin Value
  /\ Bits \in Nat \ {0}
  /\ CLOCK_DIVIDER \in Nat \ {0}

VARIABLES
  automatic_dac,
  \* ltc2630_spi
  state, last_value, transfer_value, last_value_valid,
  shift_register,  \* the code whose bits are left in it
  bit_count, divider, sclk, sync_n,
  \* the LTC2630
  clocked,         \* bits it has received since sync_n fell
  bits_of,         \* the codes those bits are bits of
  output           \* the code it converts

spiVars == <<state, last_value, transfer_value, last_value_valid,
             shift_register, bit_count, divider, sclk, sync_n>>
chipVars == <<clocked, bits_of, output>>
dacVars == <<automatic_dac, spiVars, chipVars>>
allVars == <<vars, dacVars>>

\* Everything but the loop's code.
pathVars == <<vars, spiVars, chipVars>>

DacTypeOK ==
  /\ {automatic_dac, last_value, transfer_value, shift_register} \subseteq Value
  /\ state \in {"IDLE", "TRANSFER", "FINISH"}
  /\ {last_value_valid, sync_n} \subseteq BOOLEAN /\ sclk \in Bit
  /\ bit_count \in 0..Bits - 1 /\ divider \in 0..CLOCK_DIVIDER - 1
  /\ clocked \in 0..Bits /\ bits_of \subseteq Value
  /\ output \in Value \cup {UnknownCode}

\* The power has come up: registers that were not reset yet hold zero.
DacInit ==
  /\ Init
  /\ automatic_dac = Reset0
  /\ state = "IDLE" /\ last_value = Reset0 /\ transfer_value = Reset0
  /\ last_value_valid = FALSE /\ shift_register = Reset0
  /\ bit_count = 0 /\ divider = 0 /\ sclk = 0 /\ sync_n = FALSE
  /\ clocked = 0 /\ bits_of = {} /\ output = UnknownCode
-------------------------------------------------------------------------------
active_dac == IF active[ManualMode] # Reset0 THEN active[ManualDac]
                                             ELSE automatic_dac

\* An edge of the loop out of reset may apply any new output, or keep the one it
\* has: in holdover it holds one code for ever.
LoopRun == automatic_dac' \in Value
LoopReset == automatic_dac' = HOLDOVER_DAC

\* sync_n falls: the chip starts to receive.
ChipSelected == clocked' = 0 /\ bits_of' = {} /\ UNCHANGED output

\* sclk rises: the chip takes the bit on mosi.
ChipClocked ==
  /\ clocked' = clocked + 1
  /\ bits_of' = bits_of \cup {shift_register}
  /\ UNCHANGED output

\* sync_n rises: the chip converts a frame whose bits are all there.  What it
\* makes of a frame that was cut short is left open.
ChipReleased ==
  /\ output' \in IF clocked # Bits THEN {output, UnknownCode}
                 ELSE IF \E c \in Value : bits_of = {c} THEN bits_of
                 ELSE {UnknownCode}
  /\ UNCHANGED <<clocked, bits_of>>

ChipIdle == UNCHANGED chipVars

\* Mistakes: the next bit is one of the present code, the value noted as shown
\* is the present one, and a reset leaves the note of what was shown.
ShiftsPresent == shift_register' = active_dac
PresentValue == active_dac
KeepsLast == UNCHANGED last_value_valid

\* Mistake: a bit too many.
LastBitLate == bit_count = Bits

LastBit == bit_count = Bits - 1

\* The register moves on to the next bit of the code it holds.
ShiftLeft == UNCHANGED shift_register

\* The value noted as the one the chip has been sent.
Shifted == transfer_value

\* What was sent before a reset counts no more.
ForgetLast == last_value_valid' = FALSE

SpiReset ==
  /\ state' = "IDLE" /\ last_value' = Reset0 /\ transfer_value' = Reset0
  /\ ForgetLast
  /\ shift_register' = Reset0 /\ bit_count' = 0 /\ divider' = 0
  /\ sclk' = 0 /\ sync_n' = TRUE
  /\ \/ sync_n /\ ChipIdle
     \/ ~sync_n /\ ChipReleased

\* IDLE, with a code that the chip has not been sent.
SpiStart ==
  /\ state = "IDLE"
  /\ ~last_value_valid \/ active_dac # last_value
  /\ shift_register' = active_dac /\ transfer_value' = active_dac
  /\ bit_count' = 0 /\ divider' = 0 /\ sclk' = 0
  /\ sync_n' = FALSE /\ state' = "TRANSFER"
  /\ ChipSelected
  /\ UNCHANGED <<last_value, last_value_valid>>

SpiRest ==
  /\ state = "IDLE"
  /\ last_value_valid /\ active_dac = last_value
  /\ divider' = 0 /\ sclk' = 0 /\ sync_n' = TRUE
  /\ ChipIdle
  /\ UNCHANGED <<state, last_value, transfer_value, last_value_valid,
                 shift_register, bit_count>>

SpiTransfer ==
  /\ state = "TRANSFER"
  /\ divider' = (divider + 1) % CLOCK_DIVIDER
  /\ \/ divider # CLOCK_DIVIDER - 1
        /\ ChipIdle /\ UNCHANGED <<state, shift_register, bit_count, sclk>>
     \/ /\ divider = CLOCK_DIVIDER - 1 /\ sclk = 0
        /\ sclk' = 1 /\ ChipClocked
        /\ UNCHANGED <<state, shift_register, bit_count>>
     \/ /\ divider = CLOCK_DIVIDER - 1 /\ sclk = 1 /\ ~LastBit
        /\ sclk' = 0 /\ bit_count' = bit_count + 1 /\ ShiftLeft
        /\ ChipIdle /\ UNCHANGED state
     \/ /\ divider = CLOCK_DIVIDER - 1 /\ sclk = 1 /\ LastBit
        /\ sclk' = 0 /\ state' = "FINISH"
        /\ ChipIdle /\ UNCHANGED <<shift_register, bit_count>>
  /\ UNCHANGED <<last_value, transfer_value, last_value_valid, sync_n>>

SpiFinish ==
  /\ state = "FINISH"
  /\ sync_n' = TRUE /\ ChipReleased
  /\ last_value' = Shifted /\ last_value_valid' = TRUE
  /\ state' = "IDLE"
  /\ UNCHANGED <<transfer_value, shift_register, bit_count, divider, sclk>>

SpiRun == SpiStart \/ SpiRest \/ SpiTransfer \/ SpiFinish
-------------------------------------------------------------------------------
DacRun == Clk200Run /\ LoopRun /\ SpiRun
DacRelease == Clk200Release /\ LoopReset /\ SpiReset

\* The 200 MHz clock may also run before its PLL reports lock, in reset.
DacHeld == ~pll_locked /\ LoopReset /\ SpiReset /\ UNCHANGED vars

\* The edges of the AXI clock and the asynchronous events.
DacElsewhere == (AxiEdge \/ PllLock \/ AxiReset \/ PllUnlock) /\ UNCHANGED dacVars

DacNext == DacRun \/ DacRelease \/ DacHeld \/ DacElsewhere

DacSpec == DacInit /\ [][DacNext]_allVars

\* The 200 MHz clock runs while its PLL is locked: an edge that moves the control
\* path or the serialiser on comes, whatever the loop does at it.  No change of the
\* loop's code is owed: in holdover it stays as it is.
DacFairSpec == DacSpec /\ WF_pathVars(DacRun \/ DacRelease)
-------------------------------------------------------------------------------
\* "Record the value actually shifted": a code the serialiser will not send
\* again is what the chip converts, whatever happened to the active code during
\* the frame, and whichever frame a reset cut short.
RecordIsTrue == last_value_valid => output = last_value

\* A code that enters the chip was the active one when its frame began: bits of
\* two codes are never put together, while both ways to choose the code, and
\* the two resets, change it in the middle of a frame.  Only a frame that a
\* reset cuts short may leave the chip with something else.
FrameIsOneCode ==
  [][output' # output => output' = transfer_value \/ vcxo_reset]_allVars

\* An active code that stays is sent: the chip ends up converting it, even when
\* it became active in the middle of a frame for another code, or a reset left
\* the chip with part of a frame.
CodeReachesDac ==
  \A c \in Value : <>[](~vcxo_reset /\ active_dac = c) => <>[](output = c)
===============================================================================
