------------------------- MODULE ControlMailboxProofs -------------------------
(***************************************************************************)
(* What ControlMailbox guarantees for every set of fields and values.      *)
(***************************************************************************)
EXTENDS ControlMailbox, TLAPS

\* What every register is reset to is a word.
LEMMA ZeroWordType == ZeroWord \in Word
BY ResetValueAssumption DEF ZeroWord, Word

\* A synchroniser stays a synchroniser, each stage taking the one before it.
LEMMA ShiftType ==
  ASSUME NEW s \in [0..2 -> Bit], NEW b \in Bit
  PROVE  /\ Shift(s, b) \in [0..2 -> Bit]
         /\ Shift(s, b)[0] = b
         /\ Shift(s, b)[1] = s[0]
         /\ Shift(s, b)[2] = s[1]
BY DEF Shift

\* The reset synchroniser.
LEMMA Sync0Type ==
  /\ Sync0 \in [0..2 -> Bit]
  /\ Sync0[0] = 0 /\ Sync0[1] = 0 /\ Sync0[2] = 0
BY DEF Sync0, Bit

\* A sample of a word that does not change is that word.
LEMMA MixSame ==
  ASSUME NEW w \in Word, NEW x \in Mix(w, w)
  PROVE  x = w
BY DEF Mix, Word

\* Every variable starts within its type ...
LEMMA TypeInit == Init => TypeOK
<1>1. Init => {control_dirty, captured, pll_locked} \subseteq BOOLEAN
  BY DEF Init
<1> QED
  BY <1>1, ZeroWordType, Sync0Type DEF Init, TypeOK, Bit

\* ... and every step of the controller keeps it there.
LEMMA TypeStep == TypeOK /\ [Next]_vars => TypeOK'
<1> SUFFICES ASSUME TypeOK, [Next]_vars PROVE TypeOK'
  OBVIOUS
<1>1. ASSUME AxiSample PROVE control_ack_sync' \in [0..2 -> Bit]
  BY <1>1, ShiftType DEF AxiSample, TypeOK
<1>2. ASSUME NEW f \in Field, NEW v \in Value, AxiWrite(f, v)
      PROVE  TypeOK'
  <2>1. control_write_value(f, v) \in Word
    BY DEF control_write_value, TypeOK, Word
  <2>2. AxiSample
    BY <1>2 DEF AxiWrite
  <2>3. {control_dirty', captured', pll_locked'} \subseteq BOOLEAN
    BY <1>2 DEF AxiWrite, AxiSample, SendControl, TypeOK, resetVars
  <2> QED
    BY <1>1, <1>2, <2>1, <2>2, <2>3
    DEF AxiWrite, AxiSample, SendControl, TypeOK, Bit, clk200Vars, resetVars
<1>3. ASSUME AxiIdle PROVE TypeOK'
  <2>1. AxiSample
    BY <1>3 DEF AxiIdle
  <2>2. {control_dirty', captured', pll_locked'} \subseteq BOOLEAN
    BY <1>3 DEF AxiIdle, AxiSample, SendControl, TypeOK, resetVars
  <2> QED
    BY <1>1, <1>3, <2>1, <2>2
    DEF AxiIdle, AxiSample, SendControl, TypeOK, Bit, clk200Vars, resetVars
<1>4. ASSUME Clk200Run PROVE TypeOK'
  <2>1. request_sync' \in [0..2 -> Bit]
    BY <1>4, ShiftType DEF Clk200Run, TypeOK
  <2>2. {control_dirty', captured', pll_locked'} \subseteq BOOLEAN
    BY <1>4 DEF Clk200Run, RequestSeen, TypeOK, axiVars, resetVars
  <2> QED
    BY <1>4, <2>1, <2>2
    DEF Clk200Run, RequestSeen, SettleForClk200, Mix, TypeOK, axiVars, resetVars
<1>5. ASSUME Clk200Release PROVE TypeOK'
  BY <1>5 DEF Clk200Release, vcxo_reset, SettleForClk200, TypeOK, axiVars,
              clk200Vars
<1>6. ASSUME PllLock PROVE TypeOK'
  BY <1>6 DEF PllLock, TypeOK, axiVars, clk200Vars, oldVars
<1>7. ASSUME AxiReset PROVE TypeOK'
  <2>1. {control_dirty', captured', pll_locked'} \subseteq BOOLEAN
    BY <1>7 DEF AxiReset, TypeOK
  <2> QED
    BY <1>7, <2>1, ZeroWordType, Sync0Type
    DEF AxiReset, Clk200Reset, TypeOK, Bit
<1>8. CASE UNCHANGED vars
  BY <1>8 DEF vars, axiVars, clk200Vars, resetVars, oldVars, TypeOK
<1> QED
  BY <1>2, <1>3, <1>4, <1>5, <1>6, <1>7, <1>8
  DEF Next, AxiEdge, Clk200Edge

\* Every variable stays within its type.
THEOREM TypeCorrect == Spec => []TypeOK
BY TypeInit, TypeStep, PTL DEF Spec

\* The AXI domain keeps the newest register contents by itself: what happens to
\* the 200 MHz domain is nothing to it.
LEMMA NewestStep == NewestKept /\ [Next \/ PllUnlock]_vars => NewestKept'
<1> SUFFICES ASSUME NewestKept, [Next \/ PllUnlock]_vars PROVE NewestKept'
  OBVIOUS
<1>1. ASSUME NEW f \in Field, NEW v \in Value, AxiWrite(f, v)
      PROVE  NewestKept'
  BY <1>1 DEF AxiWrite, SendControl, NewestKept
<1>2. ASSUME AxiIdle PROVE NewestKept'
  BY <1>2 DEF AxiIdle, SendControl, NewestKept
<1>3. ASSUME Clk200Run \/ Clk200Release \/ PllLock \/ PllUnlock PROVE NewestKept'
  BY <1>3 DEF Clk200Run, Clk200Release, PllLock, PllUnlock, axiVars, NewestKept
<1>4. ASSUME AxiReset PROVE NewestKept'
  BY <1>4 DEF AxiReset, NewestKept
<1>5. CASE UNCHANGED vars
  BY <1>5 DEF vars, axiVars, NewestKept
<1> QED
  BY <1>1, <1>2, <1>3, <1>4, <1>5 DEF Next, AxiEdge, Clk200Edge

LEMMA NewestInit == Init => NewestKept
BY DEF Init, NewestKept

\* No write is lost to an older one: the newest register contents are in the
\* mailbox or queued for it.
THEOREM NewestIsKept == Spec => []NewestKept
BY NewestInit, NewestStep, PTL DEF Spec

\* Nor is it when the PLL loses its lock.
THEOREM NewestKeptDespiteUnlock == UnlockSpec => []NewestKept
BY NewestInit, NewestStep, PTL DEF UnlockSpec

\* A word is put in the mailbox only when nothing is on its way.
LEMMA NotPendingMeansQuiet ==
  ASSUME TypeOK, OneTransfer, ~control_pending
  PROVE  /\ old_request = control_request
         /\ request_sync = [s \in 0..2 |-> control_request]
         /\ control_ack = control_request
         /\ old_ack = control_request
         /\ control_ack_sync = [s \in 0..2 |-> control_request]
         /\ captured
BY DEF TypeOK, OneTransfer, control_pending, Bit

\* The request and the acknowledge keep one transfer apart from the next.
THEOREM TransferInvariant == Spec => []OneTransfer
<1>1. Init => OneTransfer
  BY Sync0Type DEF Init, OneTransfer
<1>2. TypeOK /\ OneTransfer /\ [Next]_vars => OneTransfer'
  <2> SUFFICES ASSUME TypeOK, OneTransfer, [Next]_vars PROVE OneTransfer'
    OBVIOUS
  <2>1. ASSUME AxiSample,
               \/ /\ ~control_pending
                  /\ \E w \in Word : SendControl(w)
               \/ UNCHANGED <<control_mailbox, control_request, captured>>
        PROVE  OneTransfer'
    <3>1. PICK b \in {old_ack, control_ack} :
            control_ack_sync' = Shift(control_ack_sync, b)
      BY <2>1 DEF AxiSample
    <3>2. /\ control_ack_sync'[0] = b
          /\ control_ack_sync'[1] = control_ack_sync[0]
          /\ control_ack_sync'[2] = control_ack_sync[1]
      BY <3>1, ShiftType DEF TypeOK
    <3>3. CASE ~control_pending /\ \E w \in Word : SendControl(w)
      BY <2>1, <3>2, <3>3, NotPendingMeansQuiet
      DEF AxiSample, SendControl, OneTransfer, TypeOK, Bit, clk200Vars
    <3>4. CASE UNCHANGED <<control_mailbox, control_request, captured>>
      BY <2>1, <3>2, <3>4
      DEF AxiSample, OneTransfer, TypeOK, Bit, clk200Vars
    <3> QED
      BY <2>1, <3>3, <3>4
  <2>2. ASSUME NEW f \in Field, NEW v \in Value, AxiWrite(f, v)
        PROVE  OneTransfer'
    <3>1. control_write_value(f, v) \in Word
      BY DEF control_write_value, TypeOK, Word
    <3> QED
      BY <2>1, <2>2, <3>1 DEF AxiWrite
  <2>3. ASSUME AxiIdle PROVE OneTransfer'
    BY <2>1, <2>3 DEF AxiIdle, TypeOK
  <2>4. ASSUME Clk200Run PROVE OneTransfer'
    <3>1. PICK b \in {old_request, control_request} :
            request_sync' = Shift(request_sync, b)
      BY <2>4 DEF Clk200Run
    <3>2. /\ request_sync'[0] = b
          /\ request_sync'[1] = request_sync[0]
          /\ request_sync'[2] = request_sync[1]
      BY <3>1, ShiftType DEF TypeOK
    <3>3. old_mailbox = control_mailbox => bus_meta' = control_mailbox
      BY <2>4, MixSame DEF Clk200Run, TypeOK
    <3> QED
      BY <2>4, <3>2, <3>3
      DEF Clk200Run, RequestSeen, SettleForClk200, OneTransfer, TypeOK, Bit, axiVars
  <2>5. ASSUME Clk200Release PROVE OneTransfer'
    BY <2>5 DEF Clk200Release, SettleForClk200, OneTransfer, TypeOK, Bit,
                axiVars, clk200Vars
  <2>6. ASSUME PllLock PROVE OneTransfer'
    BY <2>6 DEF PllLock, OneTransfer, axiVars, clk200Vars, oldVars
  <2>7. ASSUME AxiReset PROVE OneTransfer'
    BY <2>7, Sync0Type DEF AxiReset, Clk200Reset, OneTransfer
  <2>8. CASE UNCHANGED vars
    BY <2>8 DEF vars, axiVars, clk200Vars, oldVars, OneTransfer
  <2> QED
    BY <2>2, <2>3, <2>4, <2>5, <2>6, <2>7, <2>8
    DEF Next, AxiEdge, Clk200Edge
<1> QED
  BY <1>1, <1>2, TypeCorrect, PTL DEF Spec

\* The sending side fills the mailbox only after the word in it was captured.
LEMMA SendsWhenCaptured ==
  ASSUME TypeOK, OneTransfer, AxiEdge, control_mailbox' # control_mailbox
  PROVE  captured
<1>1. CASE \E f \in Field, v \in Value : AxiWrite(f, v)
  BY <1>1, NotPendingMeansQuiet DEF AxiWrite
<1>2. CASE AxiIdle
  BY <1>2, NotPendingMeansQuiet DEF AxiIdle
<1> QED
  BY <1>1, <1>2 DEF AxiEdge

\* The mailbox is frozen until the receiving domain has captured its word.
THEOREM FrozenUntilCaptured == Spec => MailboxFrozen
<1>1. TypeOK /\ OneTransfer /\ [Next]_vars
        => [control_mailbox' # control_mailbox => captured \/ AxiReset]_vars
  <2> SUFFICES ASSUME TypeOK, OneTransfer, Next,
                      control_mailbox' # control_mailbox
               PROVE  captured \/ AxiReset
    BY DEF vars, axiVars
  <2>1. CASE AxiEdge
    BY <2>1, SendsWhenCaptured
  <2>2. CASE Clk200Run \/ Clk200Release \/ PllLock
    BY <2>2 DEF Clk200Run, Clk200Release, PllLock, axiVars
  <2> QED
    BY <2>1, <2>2 DEF Next, Clk200Edge
<1> QED
  BY <1>1, TypeCorrect, TransferInvariant, PTL DEF Spec, MailboxFrozen

\* Software's writes are all on their way's end: none is travelling or queued.
WritesDone == ~control_pending /\ ~control_dirty

\* When the AXI domain has nothing left to send, the 200 MHz side uses what
\* software wrote last.
THEOREM DoneIsInUse == Spec => [](WritesDone => active = regs)
<1>1. TypeOK /\ OneTransfer /\ NewestKept => (WritesDone => active = regs)
  <2> SUFFICES ASSUME TypeOK, OneTransfer, NewestKept, WritesDone
               PROVE  active = regs
    OBVIOUS
  <2>1. control_ack = control_request /\ regs = control_mailbox
    BY NotPendingMeansQuiet DEF WritesDone, NewestKept
  <2> QED
    BY <2>1 DEF OneTransfer
<1> QED
  BY <1>1, TypeCorrect, TransferInvariant, NewestIsKept, PTL

\* The control path implements LatestWord: whole words only, each the newest.
THEOREM Refinement == Spec => ImplementsLatestWord
<1>1. Init => Abs!Init
  BY DEF Init, Abs!Init
<1>2. TypeOK /\ TypeOK' /\ OneTransfer /\ NewestKept /\ [Next]_vars
        => [Abs!Next]_Abs!vars
  <2> SUFFICES ASSUME TypeOK, TypeOK', OneTransfer, NewestKept, [Next]_vars
               PROVE  [Abs!Next]_Abs!vars
    OBVIOUS
  <2> USE DEF Abs!vars, Abs!Next
  <2>1. ASSUME NEW f \in Field, NEW v \in Value, AxiWrite(f, v)
        PROVE  [Abs!Next]_Abs!vars
    <3>1. CASE control_pending
      BY <2>1, <3>1 DEF AxiWrite, AxiSample, Abs!Offer, TypeOK, clk200Vars
    <3>2. CASE ~control_pending
      BY <2>1, <3>2, NotPendingMeansQuiet
      DEF AxiWrite, AxiSample, SendControl, Abs!Launch, TypeOK, clk200Vars
    <3> QED
      BY <3>1, <3>2
  <2>2. ASSUME AxiIdle PROVE [Abs!Next]_Abs!vars
    <3>1. CASE ~control_pending /\ control_dirty
      BY <2>2, <3>1, NotPendingMeansQuiet
      DEF AxiIdle, AxiSample, SendControl, NewestKept, Abs!Launch, TypeOK,
          clk200Vars
    <3>2. CASE control_pending \/ ~control_dirty
      BY <2>2, <3>2 DEF AxiIdle, AxiSample, clk200Vars
    <3> QED
      BY <3>1, <3>2
  <2>3. ASSUME Clk200Run PROVE [Abs!Next]_Abs!vars
    <3>1. CASE request_sync[2] # control_ack
      <4>1. ~captured /\ bus_sync = control_mailbox
        BY <3>1 DEF OneTransfer, TypeOK, Bit
      <4> QED
        BY <2>3, <3>1, <4>1 DEF Clk200Run, RequestSeen, Abs!Land, axiVars
    <3>2. CASE request_sync[2] = control_ack
      BY <2>3, <3>2 DEF Clk200Run, RequestSeen, axiVars
    <3> QED
      BY <3>1, <3>2
  <2>4. ASSUME Clk200Release \/ PllLock PROVE [Abs!Next]_Abs!vars
    BY <2>4 DEF Clk200Release, PllLock, axiVars, clk200Vars
  <2>5. ASSUME AxiReset PROVE [Abs!Next]_Abs!vars
    BY <2>5 DEF AxiReset, Clk200Reset, Abs!Reset
  <2>6. CASE UNCHANGED vars
    BY <2>6 DEF vars, axiVars, clk200Vars
  <2> QED
    BY <2>1, <2>2, <2>3, <2>4, <2>5, <2>6 DEF Next, AxiEdge, Clk200Edge
<1> QED
  BY <1>1, <1>2, TypeCorrect, TransferInvariant, NewestIsKept, PTL
  DEF Spec, ImplementsLatestWord, Abs!Spec

-------------------------------------------------------------------------------
(***************************************************************************)
(* With a PLL that may lose its lock.  OneTransfer does not survive: the   *)
(* reset of the 200 MHz side alone makes an old word look captured, or a   *)
(* captured one look new.  What survives is the order along the loop of    *)
(* request and acknowledge, from the moment the PLL has locked again, and  *)
(* that a request never overtakes the word it announces.                   *)
(***************************************************************************)
New(b) == b = control_request

\* The loop after the request's first sample, as in OneTransfer.
LoopInOrder ==
  /\ New(request_sync[1]) => New(request_sync[0])
  /\ New(request_sync[2]) => New(request_sync[1])
  /\ New(control_ack) => New(request_sync[2])
  /\ New(old_ack) => New(control_ack)
  /\ New(control_ack_sync[0]) => New(old_ack)
  /\ New(control_ack_sync[1]) => New(control_ack_sync[0])
  /\ New(control_ack_sync[2]) => New(control_ack_sync[1])

\* The word has come as far as its request, unless it is already in use.
WordBeforeRequest ==
  /\ New(request_sync[1]) /\ ~New(control_ack) => bus_meta = control_mailbox
  /\ New(request_sync[2]) /\ ~New(control_ack) => bus_sync = control_mailbox

\* A 200 MHz side in reset requests and acknowledges nothing, and has seen an
\* edge since the PLL locked once it counts down.
ResetIsSilent ==
  /\ vcxo_reset => request_sync = Sync0 /\ control_ack = 0
  /\ ~pll_locked => reset_release = 3

UnlockInv ==
  /\ New(old_request) => old_mailbox = control_mailbox
  /\ reset_release < 3 => (New(request_sync[0]) => New(old_request))
  /\ pll_locked => LoopInOrder /\ WordBeforeRequest
  /\ ResetIsSilent

UnlockNext == Next \/ PllUnlock

LEMMA UnlockTypeStep == TypeOK /\ [UnlockNext]_vars => TypeOK'
<1> SUFFICES ASSUME TypeOK, PllUnlock PROVE TypeOK'
  BY TypeStep DEF UnlockNext
<1>1. {control_dirty', captured', pll_locked'} \subseteq BOOLEAN
  BY DEF PllUnlock, TypeOK, axiVars
<1> QED
  BY <1>1, ZeroWordType, Sync0Type
  DEF PllUnlock, Clk200Reset, TypeOK, Bit, axiVars

\* No word is sent unless the whole loop shows the newest request.
LEMMA NotPendingInOrder ==
  ASSUME TypeOK, UnlockInv, pll_locked, ~control_pending
  PROVE  /\ New(request_sync[0]) /\ New(request_sync[1]) /\ New(request_sync[2])
         /\ New(control_ack) /\ New(old_ack)
         /\ New(control_ack_sync[0]) /\ New(control_ack_sync[1])
         /\ New(control_ack_sync[2])
BY DEF UnlockInv, LoopInOrder, control_pending, New

LEMMA UnlockStep == TypeOK /\ UnlockInv /\ [UnlockNext]_vars => UnlockInv'
<1> SUFFICES ASSUME TypeOK, UnlockInv, [UnlockNext]_vars PROVE UnlockInv'
  OBVIOUS
<1> USE DEF UnlockInv, LoopInOrder, WordBeforeRequest, ResetIsSilent, New
<1>1. ASSUME AxiSample,
             \/ /\ ~control_pending
                /\ \E w \in Word : SendControl(w)
             \/ UNCHANGED <<control_mailbox, control_request, captured>>
      PROVE  UnlockInv'
  <2>1. PICK b \in {old_ack, control_ack} :
          control_ack_sync' = Shift(control_ack_sync, b)
    BY <1>1 DEF AxiSample
  <2>2. /\ control_ack_sync'[0] = b
        /\ control_ack_sync'[1] = control_ack_sync[0]
        /\ control_ack_sync'[2] = control_ack_sync[1]
    BY <2>1, ShiftType DEF TypeOK
  <2>3. /\ request_sync' = request_sync /\ control_ack' = control_ack
        /\ bus_meta' = bus_meta /\ bus_sync' = bus_sync
        /\ pll_locked' = pll_locked /\ reset_release' = reset_release
        /\ old_ack' = control_ack /\ old_request' = control_request
        /\ old_mailbox' = control_mailbox
    BY <1>1 DEF AxiSample, clk200Vars, resetVars
  <2>4. ResetIsSilent'
    BY <2>3 DEF vcxo_reset
  <2>5. CASE ~control_pending /\ \E w \in Word : SendControl(w)
    <3>1. control_request' = 1 - control_request
      BY <2>5 DEF SendControl
    <3>2. control_request' # control_request
      BY <3>1 DEF TypeOK, Bit
    <3>3. (pll_locked => LoopInOrder /\ WordBeforeRequest)'
      BY <2>2, <2>3, <2>5, <3>2, NotPendingInOrder DEF TypeOK, Bit
    <3>4. (reset_release < 3 => (New(request_sync[0]) => New(old_request)))'
      BY <2>3, <2>5, <3>2, NotPendingInOrder DEF TypeOK, Bit
    <3> QED
      BY <2>3, <2>4, <3>2, <3>3, <3>4
  <2>6. CASE UNCHANGED <<control_mailbox, control_request, captured>>
    BY <2>2, <2>3, <2>4, <2>6
  <2> QED
    BY <1>1, <2>5, <2>6
<1>2. ASSUME NEW f \in Field, NEW v \in Value, AxiWrite(f, v)
      PROVE  UnlockInv'
  <2>1. control_write_value(f, v) \in Word
    BY DEF control_write_value, TypeOK, Word
  <2> QED
    BY <1>1, <1>2, <2>1 DEF AxiWrite
<1>3. ASSUME AxiIdle PROVE UnlockInv'
  BY <1>1, <1>3 DEF AxiIdle, TypeOK
<1>4. ASSUME Clk200Run PROVE UnlockInv'
  <2>1. PICK b \in {old_request, control_request} :
          request_sync' = Shift(request_sync, b)
    BY <1>4 DEF Clk200Run
  <2>2. /\ request_sync'[0] = b
        /\ request_sync'[1] = request_sync[0]
        /\ request_sync'[2] = request_sync[1]
    BY <2>1, ShiftType DEF TypeOK
  <2>3. old_mailbox = control_mailbox => bus_meta' = control_mailbox
    BY <1>4, MixSame DEF Clk200Run, TypeOK
  <2>4. /\ pll_locked /\ ~vcxo_reset /\ reset_release < 3
        /\ pll_locked' = pll_locked /\ reset_release' = reset_release
        /\ control_request' = control_request
        /\ control_mailbox' = control_mailbox
        /\ control_ack_sync' = control_ack_sync
        /\ old_request' = control_request /\ old_mailbox' = control_mailbox
        /\ old_ack' = control_ack /\ bus_sync' = bus_meta
    BY <1>4 DEF Clk200Run, SettleForClk200, axiVars, resetVars, vcxo_reset, TypeOK
  <2>5. control_ack' = IF request_sync[2] # control_ack THEN request_sync[2]
                                                       ELSE control_ack
    BY <1>4 DEF Clk200Run, RequestSeen
  <2>6. LoopInOrder'
    BY <2>2, <2>4, <2>5 DEF TypeOK, Bit
  <2>7. WordBeforeRequest'
    BY <2>2, <2>3, <2>4, <2>5 DEF TypeOK, Bit
  <2>8. ResetIsSilent'
    BY <2>4 DEF vcxo_reset
  <2> QED
    BY <2>2, <2>4, <2>6, <2>7, <2>8
<1>5. ASSUME Clk200Release PROVE UnlockInv'
  <2>1. /\ pll_locked /\ pll_locked' = pll_locked
        /\ reset_release' = reset_release - 1 /\ vcxo_reset
        /\ control_request' = control_request
        /\ control_mailbox' = control_mailbox
        /\ control_ack_sync' = control_ack_sync
        /\ old_request' = control_request /\ old_mailbox' = control_mailbox
        /\ old_ack' = control_ack /\ control_ack' = control_ack
        /\ request_sync' = request_sync
        /\ bus_sync' = bus_sync /\ bus_meta' = bus_meta
    BY <1>5 DEF Clk200Release, SettleForClk200, axiVars, clk200Vars
  <2> QED
    BY <2>1 DEF vcxo_reset, TypeOK
<1>6. ASSUME PllLock PROVE UnlockInv'
  <2>1. /\ ~pll_locked /\ reset_release = 3 /\ old_ack = 0
        /\ control_ack_sync = Sync0
        /\ reset_release' = reset_release
        /\ UNCHANGED <<control_request, control_mailbox, control_ack_sync,
                       old_request, old_mailbox, old_ack, control_ack,
                       request_sync, bus_sync, bus_meta>>
    BY <1>6 DEF PllLock, axiVars, clk200Vars, oldVars
  <2>2. request_sync = Sync0 /\ control_ack = 0
    BY <2>1 DEF vcxo_reset
  <2> QED
    BY <2>1, <2>2, Sync0Type DEF vcxo_reset
<1>7. ASSUME AxiReset PROVE UnlockInv'
  BY <1>7, Sync0Type DEF AxiReset, Clk200Reset, vcxo_reset
<1>8. ASSUME PllUnlock PROVE UnlockInv'
  BY <1>8, Sync0Type DEF PllUnlock, Clk200Reset, axiVars, vcxo_reset
<1>9. CASE UNCHANGED vars
  BY <1>9 DEF vars, axiVars, clk200Vars, resetVars, oldVars, vcxo_reset
<1> QED
  BY <1>2, <1>3, <1>4, <1>5, <1>6, <1>7, <1>8, <1>9
  DEF UnlockNext, Next, AxiEdge, Clk200Edge

\* Requests stay in order and never overtake their words, whenever the PLL
\* loses its lock.
THEOREM UnlockInvariant == UnlockSpec => [](TypeOK /\ UnlockInv)
<1>1. Init => UnlockInv
  BY Sync0Type
  DEF Init, UnlockInv, LoopInOrder, WordBeforeRequest, ResetIsSilent, New,
      vcxo_reset
<1> QED
  BY <1>1, TypeInit, UnlockTypeStep, UnlockStep, PTL DEF UnlockSpec, UnlockNext

\* The 200 MHz side never uses a torn control word, not even when the PLL loses
\* its lock in the middle of a transfer.
THEOREM WholeDespiteUnlock == UnlockSpec => WholeWords
<1>1. TypeOK /\ UnlockInv /\ [UnlockNext]_vars
        => [active' # active => active' \in {control_mailbox, ZeroWord}]_vars
  <2> SUFFICES ASSUME TypeOK, UnlockInv, UnlockNext, active' # active
               PROVE  active' \in {control_mailbox, ZeroWord}
    OBVIOUS
  <2>1. CASE Clk200Run
    <3>1. request_sync[2] # control_ack /\ active' = bus_sync /\ pll_locked
      BY <2>1 DEF Clk200Run, RequestSeen
    <3>2. bus_sync = control_mailbox
      BY <3>1 DEF UnlockInv, LoopInOrder, WordBeforeRequest, New, TypeOK, Bit
    <3> QED
      BY <3>1, <3>2
  <2>2. CASE AxiReset \/ PllUnlock
    BY <2>2 DEF AxiReset, PllUnlock, Clk200Reset
  <2>3. CASE AxiEdge
    BY <2>3 DEF AxiEdge, AxiIdle, AxiWrite, AxiSample, clk200Vars
  <2>4. CASE Clk200Release \/ PllLock
    BY <2>4 DEF Clk200Release, PllLock, clk200Vars
  <2> QED
    BY <2>1, <2>2, <2>3, <2>4 DEF UnlockNext, Next, Clk200Edge
<1> QED
  BY <1>1, UnlockInvariant, PTL DEF UnlockSpec, UnlockNext, WholeWords

\* What has been acknowledged is in use, or a loss of lock has cleared it.
UsedInv ==
  /\ vcxo_reset => active = ZeroWord
  /\ New(control_ack) => active \in {control_mailbox, ZeroWord}

LEMMA UsedStep ==
  ASSUME TypeOK, UnlockInv, UsedInv, [UnlockNext]_vars
  PROVE  UsedInv'
<1> USE DEF UsedInv, New
<1>1. ASSUME AxiSample,
             \/ /\ ~control_pending
                /\ \E w \in Word : SendControl(w)
             \/ UNCHANGED <<control_mailbox, control_request, captured>>
      PROVE  UsedInv'
  <2>1. UNCHANGED <<active, control_ack, reset_release, pll_locked>>
    BY <1>1 DEF AxiSample, clk200Vars, resetVars
  <2>2. CASE ~control_pending /\ \E w \in Word : SendControl(w)
    <3>1. control_request' # control_request
      BY <2>2 DEF SendControl, TypeOK, Bit
    <3>2. CASE pll_locked
      BY <2>1, <2>2, <3>1, <3>2, NotPendingInOrder DEF vcxo_reset
    <3>3. CASE ~pll_locked
      <4>1. vcxo_reset
        BY <3>3 DEF UnlockInv, ResetIsSilent, vcxo_reset
      <4> QED
        BY <2>1, <4>1 DEF vcxo_reset
    <3> QED
      BY <3>2, <3>3
  <2>3. CASE UNCHANGED <<control_mailbox, control_request, captured>>
    BY <2>1, <2>3 DEF vcxo_reset
  <2> QED
    BY <1>1, <2>2, <2>3
<1>2. ASSUME NEW f \in Field, NEW v \in Value, AxiWrite(f, v)
      PROVE  UsedInv'
  <2>1. control_write_value(f, v) \in Word
    BY DEF control_write_value, TypeOK, Word
  <2> QED
    BY <1>1, <1>2, <2>1 DEF AxiWrite
<1>3. ASSUME AxiIdle PROVE UsedInv'
  BY <1>1, <1>3 DEF AxiIdle, TypeOK
<1>4. ASSUME Clk200Run PROVE UsedInv'
  <2>1. /\ pll_locked /\ ~vcxo_reset /\ reset_release' = reset_release
        /\ UNCHANGED <<control_mailbox, control_request>>
    BY <1>4 DEF Clk200Run, axiVars, resetVars
  <2>2. CASE RequestSeen
    <3>1. active' = bus_sync /\ bus_sync = control_mailbox
      BY <1>4, <2>1, <2>2
      DEF Clk200Run, RequestSeen, UnlockInv, LoopInOrder, WordBeforeRequest,
          TypeOK, Bit
    <3> QED
      BY <2>1, <3>1 DEF vcxo_reset
  <2>3. CASE ~RequestSeen
    BY <1>4, <2>1, <2>3 DEF Clk200Run, vcxo_reset
  <2> QED
    BY <2>2, <2>3
<1>5. ASSUME Clk200Release \/ PllLock PROVE UsedInv'
  BY <1>5 DEF Clk200Release, PllLock, axiVars, clk200Vars, vcxo_reset
<1>6. ASSUME AxiReset \/ PllUnlock PROVE UsedInv'
  BY <1>6 DEF AxiReset, PllUnlock, Clk200Reset
<1>7. CASE UNCHANGED vars
  BY <1>7 DEF vars, axiVars, clk200Vars, resetVars, vcxo_reset
<1> QED
  BY <1>2, <1>3, <1>4, <1>5, <1>6, <1>7 DEF UnlockNext, Next, AxiEdge, Clk200Edge

\* Losses of lock cost software's word as a whole or not at all: with nothing
\* left to send the 200 MHz side uses the word software wrote last, or the
\* cleared one, and never an older one.
THEOREM DoneIsInUseOrCleared ==
  UnlockSpec => [](pll_locked /\ WritesDone => active \in {regs, ZeroWord})
<1>1. Init => UsedInv
  BY DEF Init, UsedInv
<1>2. TypeOK /\ UnlockInv /\ UsedInv /\ [UnlockNext]_vars => UsedInv'
  BY UsedStep
<1>3. TypeOK /\ UnlockInv /\ UsedInv /\ NewestKept
        => (pll_locked /\ WritesDone => active \in {regs, ZeroWord})
  <2> SUFFICES ASSUME TypeOK, UnlockInv, UsedInv, NewestKept, pll_locked, WritesDone
               PROVE  active \in {regs, ZeroWord}
    OBVIOUS
  <2>1. New(control_ack) /\ regs = control_mailbox
    BY NotPendingInOrder DEF WritesDone, NewestKept
  <2> QED
    BY <2>1 DEF UsedInv
<1> QED
  BY <1>1, <1>2, <1>3, UnlockInvariant, NewestKeptDespiteUnlock, PTL
  DEF UnlockSpec, UnlockNext
===============================================================================
