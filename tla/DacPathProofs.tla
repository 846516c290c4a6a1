--------------------------- MODULE DacPathProofs ---------------------------
(***************************************************************************)
(* What DacPath guarantees for every set of codes, frame length and        *)
(* divider.  The argument rests on FrameInv: a frame under way holds one   *)
(* code, the chip has received only bits of it, and as many as the count.  *)
(***************************************************************************)
EXTENDS DacPath, ControlMailboxProofs

FrameInv ==
  /\ state # "IDLE" => ~sync_n /\ shift_register = transfer_value
  /\ state = "TRANSFER" => /\ clocked = bit_count + sclk
                           /\ bits_of = IF clocked = 0 THEN {}
                                                       ELSE {transfer_value}
  /\ state = "FINISH" => clocked = Bits /\ bits_of = {transfer_value}

DacInv ==
  /\ TypeOK /\ UnlockInv
  /\ DacTypeOK /\ FrameInv /\ RecordIsTrue

\* The composition makes only steps of the control path.
LEMMA DacStepIsControlStep == [DacNext]_allVars => [UnlockNext]_vars
BY DEF DacNext, DacRun, DacRelease, DacHeld, DacElsewhere, UnlockNext, Next,
       Clk200Edge, allVars

\* The code shown to the serialiser is a code.
LEMMA ActiveCode ==
  ASSUME TypeOK, DacTypeOK
  PROVE  active_dac \in Value
BY DacAssumption DEF TypeOK, DacTypeOK, Word, active_dac

\* A whole frame leaves the chip with its code, any other with what it had, or
\* with an unknown one.
LEMMA ReleaseOutput ==
  ASSUME DacTypeOK, ChipReleased
  PROVE  /\ output' \in Value \cup {UnknownCode}
         /\ \A c \in Value :
              clocked = Bits /\ bits_of = {c} => output' = c
BY DEF DacTypeOK, ChipReleased

LEMMA DacStart == DacInit => DacInv
<1> SUFFICES ASSUME DacInit PROVE DacInv
  OBVIOUS
<1>1. Init
  BY DEF DacInit
<1>2. TypeOK /\ UnlockInv
  BY <1>1, TypeInit, Sync0Type
  DEF Init, UnlockInv, LoopInOrder, WordBeforeRequest, ResetIsSilent, New,
      vcxo_reset
<1>3. {last_value_valid, sync_n} \subseteq BOOLEAN
  BY DEF DacInit
<1>4. DacTypeOK
  BY <1>3, DacAssumption, ResetValueAssumption DEF DacInit, DacTypeOK, Bit
<1>5. FrameInv /\ RecordIsTrue
  BY DEF DacInit, FrameInv, RecordIsTrue
<1> QED
  BY <1>2, <1>4, <1>5 DEF DacInv

\* A reset of the serialiser, wherever its frame is.
LEMMA ResetStep ==
  ASSUME DacTypeOK, SpiReset, automatic_dac' \in Value
  PROVE  DacTypeOK' /\ FrameInv' /\ RecordIsTrue'
<1>1. {last_value_valid', sync_n'} \subseteq BOOLEAN
  BY DEF SpiReset, ForgetLast
<1>2. /\ output' \in Value \cup {UnknownCode}
      /\ clocked' \in 0..Bits /\ bits_of' \subseteq Value
  <2>1. CASE ChipIdle
    BY <2>1 DEF ChipIdle, chipVars, DacTypeOK
  <2>2. CASE ChipReleased
    BY <2>2, ReleaseOutput DEF ChipReleased, DacTypeOK
  <2> QED
    BY <2>1, <2>2 DEF SpiReset
<1>3. DacTypeOK'
  BY <1>1, <1>2, DacAssumption, ResetValueAssumption
  DEF SpiReset, DacTypeOK, Bit
<1>4. FrameInv' /\ RecordIsTrue'
  BY DEF SpiReset, ForgetLast, FrameInv, RecordIsTrue
<1> QED
  BY <1>3, <1>4

\* An edge of the serialiser out of reset.
LEMMA RunStep ==
  ASSUME TypeOK, DacTypeOK, FrameInv, RecordIsTrue, SpiRun,
         automatic_dac' \in Value
  PROVE  DacTypeOK' /\ FrameInv' /\ RecordIsTrue'
<1>1. CASE SpiStart
  <2>1. active_dac \in Value
    BY ActiveCode
  <2>2. {last_value_valid', sync_n'} \subseteq BOOLEAN
    BY <1>1 DEF SpiStart, DacTypeOK
  <2>3. DacTypeOK'
    BY <1>1, <2>1, <2>2, DacAssumption
    DEF SpiStart, ChipSelected, DacTypeOK, Bit
  <2>4. FrameInv'
    BY <1>1 DEF SpiStart, ChipSelected, FrameInv
  <2>5. RecordIsTrue'
    BY <1>1 DEF SpiStart, ChipSelected, RecordIsTrue
  <2> QED
    BY <2>3, <2>4, <2>5
<1>2. CASE SpiRest
  <2>1. {last_value_valid', sync_n'} \subseteq BOOLEAN
    BY <1>2 DEF SpiRest, DacTypeOK
  <2>2. DacTypeOK'
    BY <1>2, <2>1, DacAssumption
    DEF SpiRest, ChipIdle, chipVars, DacTypeOK, Bit
  <2> QED
    BY <1>2, <2>2 DEF SpiRest, ChipIdle, chipVars, FrameInv, RecordIsTrue
<1>3. CASE SpiTransfer
  <2>1. {last_value_valid', sync_n'} \subseteq BOOLEAN
    BY <1>3 DEF SpiTransfer, DacTypeOK
  <2>2. divider' \in 0..CLOCK_DIVIDER - 1
    <3>1. divider' = IF divider = CLOCK_DIVIDER - 1 THEN 0 ELSE divider + 1
      BY <1>3, DacAssumption DEF SpiTransfer, DacTypeOK
    <3> QED
      BY <3>1, DacAssumption DEF DacTypeOK
  <2>3. /\ last_value' = last_value /\ transfer_value' = transfer_value
        /\ last_value_valid' = last_value_valid /\ sync_n' = sync_n
        /\ output' = output /\ shift_register' = shift_register
    BY <1>3 DEF SpiTransfer, ChipIdle, chipVars, ChipClocked, ShiftLeft
  <2>4. /\ ~sync_n /\ shift_register = transfer_value
        /\ clocked = bit_count + sclk
        /\ bits_of = IF clocked = 0 THEN {} ELSE {transfer_value}
    BY <1>3 DEF SpiTransfer, FrameInv
  <2>5. CASE sclk = 0 /\ sclk' = 1 /\ ChipClocked
             /\ UNCHANGED <<state, shift_register, bit_count>>
    <3>1. clocked' = bit_count' + sclk' /\ bits_of' = {transfer_value'}
          /\ clocked' # 0 /\ clocked' \in 0..Bits
      BY <2>3, <2>4, <2>5, DacAssumption DEF ChipClocked, DacTypeOK
    <3>2. DacTypeOK'
      BY <2>1, <2>2, <2>3, <2>5, <3>1 DEF DacTypeOK, Bit
    <3> QED
      BY <1>3, <2>3, <2>4, <2>5, <3>1, <3>2
      DEF SpiTransfer, FrameInv, RecordIsTrue
  <2>6. CASE ChipIdle /\ UNCHANGED <<state, shift_register, bit_count, sclk>>
    <3>1. DacTypeOK'
      BY <2>1, <2>2, <2>3, <2>6 DEF ChipIdle, chipVars, DacTypeOK
    <3> QED
      BY <1>3, <2>3, <2>4, <2>6, <3>1
      DEF SpiTransfer, ChipIdle, chipVars, FrameInv, RecordIsTrue
  <2>7. CASE sclk = 1 /\ sclk' = 0 /\ ~LastBit /\ bit_count' = bit_count + 1
             /\ ChipIdle /\ UNCHANGED state
    <3>1. bit_count' \in 0..Bits - 1
      BY <2>7, DacAssumption DEF LastBit, DacTypeOK
    <3>2. DacTypeOK'
      BY <2>1, <2>2, <2>3, <2>7, <3>1 DEF ChipIdle, chipVars, DacTypeOK, Bit
    <3>3. clocked' = bit_count' + sclk'
      BY <2>4, <2>7 DEF ChipIdle, chipVars, DacTypeOK
    <3> QED
      BY <1>3, <2>3, <2>4, <2>7, <3>2, <3>3
      DEF SpiTransfer, ChipIdle, chipVars, FrameInv, RecordIsTrue
  <2>8. CASE sclk = 1 /\ sclk' = 0 /\ LastBit /\ state' = "FINISH"
             /\ ChipIdle /\ UNCHANGED <<shift_register, bit_count>>
    <3>1. DacTypeOK'
      BY <2>1, <2>2, <2>3, <2>8 DEF ChipIdle, chipVars, DacTypeOK, Bit
    <3>2. clocked = Bits /\ clocked # 0
      BY <2>4, <2>8, DacAssumption DEF LastBit, DacTypeOK
    <3> QED
      BY <2>3, <2>4, <2>8, <3>1, <3>2
      DEF ChipIdle, chipVars, FrameInv, RecordIsTrue
  <2> QED
    BY <1>3, <2>5, <2>6, <2>7, <2>8 DEF SpiTransfer
<1>4. CASE SpiFinish
  <2>1. {last_value_valid', sync_n'} \subseteq BOOLEAN
    BY <1>4 DEF SpiFinish
  <2>2. output' = transfer_value
    BY <1>4, ReleaseOutput DEF SpiFinish, FrameInv, DacTypeOK
  <2>3. DacTypeOK'
    BY <1>4, <2>1, <2>2
    DEF SpiFinish, ChipReleased, Shifted, DacTypeOK
  <2> QED
    BY <1>4, <2>2, <2>3 DEF SpiFinish, Shifted, FrameInv, RecordIsTrue
<1> QED
  BY <1>1, <1>2, <1>3, <1>4 DEF SpiRun

LEMMA DacStep == DacInv /\ [DacNext]_allVars => DacInv'
<1> SUFFICES ASSUME DacInv, [DacNext]_allVars PROVE DacInv'
  OBVIOUS
<1>1. TypeOK' /\ UnlockInv'
  BY DacStepIsControlStep, UnlockTypeStep, UnlockStep DEF DacInv
<1>2. HOLDOVER_DAC \in Value
  BY DacAssumption
<1>3. CASE DacRun
  BY <1>1, <1>3, RunStep DEF DacRun, LoopRun, DacInv
<1>4. CASE DacRelease \/ DacHeld
  BY <1>1, <1>2, <1>4, ResetStep DEF DacRelease, DacHeld, LoopReset, DacInv
<1>5. CASE UNCHANGED dacVars
  BY <1>1, <1>5
  DEF dacVars, spiVars, chipVars, DacInv, DacTypeOK, FrameInv, RecordIsTrue
<1> QED
  BY <1>3, <1>4, <1>5 DEF DacNext, DacElsewhere, allVars

\* What the inductive invariant says holds in every state of the DAC path.
THEOREM DacInvariant == DacSpec => []DacInv
BY DacStart, DacStep, PTL DEF DacSpec

\* The serialiser and the chip keep their types.
THEOREM DacTypeCorrect == DacSpec => []DacTypeOK
BY DacInvariant, PTL DEF DacInv

\* A code that will not be sent again is the one the chip converts.
THEOREM RecordStaysTrue == DacSpec => []RecordIsTrue
BY DacInvariant, PTL DEF DacInv

\* No frame outside a reset sets the chip to anything but the one code that was
\* active when it began.
THEOREM FramesAreWhole == DacSpec => FrameIsOneCode
<1>1. DacInv /\ [DacNext]_allVars
        => [output' # output => output' = transfer_value \/ vcxo_reset]_allVars
  <2> SUFFICES ASSUME DacInv, DacNext, output' # output
               PROVE  output' = transfer_value \/ vcxo_reset
    OBVIOUS
  <2>1. CASE DacRun
    <3>1. CASE SpiFinish
      BY <3>1, ReleaseOutput DEF SpiFinish, DacInv, FrameInv, DacTypeOK
    <3>2. CASE SpiStart \/ SpiRest \/ SpiTransfer
      BY <3>2 DEF SpiStart, SpiRest, SpiTransfer, ChipSelected, ChipClocked,
                  ChipIdle, chipVars
    <3> QED
      BY <2>1, <3>1, <3>2 DEF DacRun, SpiRun
  <2>2. CASE DacRelease
    BY <2>2 DEF DacRelease, Clk200Release
  <2>3. CASE DacHeld
    BY <2>3 DEF DacHeld, DacInv, UnlockInv, ResetIsSilent, vcxo_reset
  <2>4. CASE DacElsewhere
    BY <2>4 DEF DacElsewhere, dacVars, chipVars
  <2> QED
    BY <2>1, <2>2, <2>3, <2>4 DEF DacNext
<1> QED
  BY <1>1, DacInvariant, PTL DEF DacSpec, FrameIsOneCode

\* The composition is the control path under losses of lock: what is proved of
\* the one holds of the other.
THEOREM PathImplementsControl == DacSpec => UnlockSpec
<1>1. DacInit => Init
  BY DEF DacInit
<1> QED
  BY <1>1, DacStepIsControlStep, PTL DEF DacSpec, UnlockSpec, UnlockNext

\* Along the whole path to the chip no control word is torn, even when the PLL
\* loses its lock.
THEOREM PathKeepsWordsWhole == DacSpec => WholeWords
BY PathImplementsControl, WholeDespiteUnlock

\* Along the whole path a word that waits to be sent or acknowledged is the
\* registers', as they were written last.
THEOREM PathKeepsNewest == DacSpec => []NewestKept
BY PathImplementsControl, NewestKeptDespiteUnlock, PTL

\* The serialiser has nothing to send.
SerialiserRests ==
  state = "IDLE" /\ last_value_valid /\ active_dac = last_value

\* End to end: with nothing left to send on either side, while the 200 MHz side
\* is in manual mode, the chip converts the code that software wrote last.
\* Resets and losses of lock on the way, in the middle of words and of frames,
\* do not make it an older one.
THEOREM WrittenCodeIsConverted ==
  DacSpec => [](pll_locked /\ WritesDone /\ active[ManualMode] # Reset0
                  /\ SerialiserRests
                    => output = regs[ManualDac])
<1>1. /\ DacInv
      /\ pll_locked /\ WritesDone => active \in {regs, ZeroWord}
      => (pll_locked /\ WritesDone /\ active[ManualMode] # Reset0
            /\ SerialiserRests
              => output = regs[ManualDac])
  <2> SUFFICES ASSUME DacInv, active \in {regs, ZeroWord},
                      active[ManualMode] # Reset0, SerialiserRests
               PROVE  output = regs[ManualDac]
    OBVIOUS
  <2>1. ZeroWord[ManualMode] = Reset0
    BY DacAssumption DEF ZeroWord
  <2>2. active = regs
    BY <2>1
  <2>3. output = active_dac
    BY DEF DacInv, RecordIsTrue, SerialiserRests
  <2> QED
    BY <2>2, <2>3 DEF active_dac
<1> QED
  BY <1>1, DacInvariant, PathImplementsControl, DoneIsInUseOrCleared, PTL
===============================================================================
