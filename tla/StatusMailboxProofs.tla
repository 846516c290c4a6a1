-------------------------- MODULE StatusMailboxProofs --------------------------
(***************************************************************************)
(* What StatusMailbox guarantees for every set of fields and values, with  *)
(* a PLL that keeps its lock.                                              *)
(***************************************************************************)
EXTENDS StatusMailbox, TLAPS

\* What every mailbox register is reset to is a word.
LEMMA ZeroWordType == ZeroWord \in Word
BY ResetAssumption DEF ZeroWord, Word

\* A synchroniser stays a synchroniser, each stage taking the one before it.
LEMMA ShiftType ==
  ASSUME NEW s \in [0..2 -> Bit], NEW b \in Bit
  PROVE  /\ Shift(s, b) \in [0..2 -> Bit]
         /\ Shift(s, b)[0] = b
         /\ Shift(s, b)[1] = s[0]
         /\ Shift(s, b)[2] = s[1]
BY DEF Shift

\* The reset synchroniser.
LEMMA Sync0Type ==
  /\ Sync0 \in [0..2 -> Bit]
  /\ Sync0[0] = 0 /\ Sync0[1] = 0 /\ Sync0[2] = 0
BY DEF Sync0, Bit

\* A sample of a word that does not change is that word.
LEMMA MixSame ==
  ASSUME NEW w \in Word, NEW x \in Mix(w, w)
  PROVE  x = w
BY DEF Mix, Word

LEMMA TypeInit == Init => TypeOK
<1>1. Init => {status_dirty, captured, pll_locked} \subseteq BOOLEAN
  BY DEF Init
<1> QED
  BY <1>1, ZeroWordType, Sync0Type, ResetAssumption DEF Init, TypeOK, Bit

LEMMA TypeStep == TypeOK /\ [Next]_vars => TypeOK'
<1> SUFFICES ASSUME TypeOK, [Next]_vars PROVE TypeOK'
  OBVIOUS
<1>1. ASSUME NEW w \in Word, Clk200Run(w) PROVE TypeOK'
  <2>1. status_ack_sync' \in [0..2 -> Bit]
    BY <1>1, ShiftType DEF Clk200Run, TypeOK
  <2>2. {status_dirty', captured', pll_locked'} \subseteq BOOLEAN
    BY <1>1 DEF Clk200Run, StatusSender, SendStatus, TypeOK, resetVars
  <2> QED
    BY <1>1, <2>1, <2>2
    DEF Clk200Run, StatusSender, SendStatus, SettleForClk200, TypeOK, Bit, axiVars,
        resetVars
<1>2. ASSUME Clk200Release PROVE TypeOK'
  BY <1>2 DEF Clk200Release, vcxo_reset, SettleForClk200, TypeOK, axiVars,
              clk200Vars
<1>3. ASSUME AxiEdge PROVE TypeOK'
  <2>1. request_sync' \in [0..2 -> Bit]
    BY <1>3, ShiftType DEF AxiEdge, TypeOK
  <2>2. {status_dirty', captured', pll_locked'} \subseteq BOOLEAN
    BY <1>3 DEF AxiEdge, TypeOK, clk200Vars, resetVars
  <2> QED
    BY <1>3, <2>1, <2>2 DEF AxiEdge, Mix, TypeOK, clk200Vars, resetVars
<1>4. ASSUME PllLock PROVE TypeOK'
  BY <1>4 DEF PllLock, TypeOK, axiVars, clk200Vars, oldVars
<1>5. ASSUME AxiReset PROVE TypeOK'
  <2>1. {status_dirty', captured', pll_locked'} \subseteq BOOLEAN
    BY <1>5 DEF AxiReset, Clk200Reset, TypeOK
  <2> QED
    BY <1>5, <2>1, ZeroWordType, Sync0Type, ResetAssumption
    DEF AxiReset, Clk200Reset, TypeOK, Bit
<1>6. CASE UNCHANGED vars
  BY <1>6 DEF vars, axiVars, clk200Vars, resetVars, oldVars, TypeOK
<1> QED
  BY <1>1, <1>2, <1>3, <1>4, <1>5, <1>6 DEF Next, Clk200Edge

\* Every variable stays within its type.
THEOREM StatusTypeCorrect == Spec => []TypeOK
BY TypeInit, TypeStep, PTL DEF Spec

\* A word enters the mailbox only once the sender has seen the last one
\* acknowledged.
LEMMA SenderWaits ==
  ASSUME TypeOK, StatusSender
  PROVE  \/ ~status_pending /\ \E w \in Word : SendStatus(w)
         \/ UNCHANGED <<status_mailbox, status_request, captured>>
BY DEF StatusSender, TypeOK

\* Along the loop of request and acknowledge a stage shows the newest request
\* only if all the stages before it do, and where the request has arrived its
\* word has arrived.
OneTransfer ==
  LET new(b) == b = status_request
  IN  /\ new(request_sync[0]) => new(old_request)
      /\ new(request_sync[1]) => new(request_sync[0])
      /\ new(request_sync[2]) => new(request_sync[1])
      /\ new(status_ack) => new(request_sync[2])
      /\ new(old_ack) => new(status_ack)
      /\ new(status_ack_sync[0]) => new(old_ack)
      /\ new(status_ack_sync[1]) => new(status_ack_sync[0])
      /\ new(status_ack_sync[2]) => new(status_ack_sync[1])
      /\ new(old_request) => old_mailbox = status_mailbox
      /\ new(request_sync[1]) => bus_meta = status_mailbox
      /\ new(request_sync[2]) => bus_sync = status_mailbox
      /\ new(status_ack) => view = status_mailbox
      /\ captured <=> new(status_ack)

\* When the sender sees nothing pending, every stage shows the last request.
LEMMA NotPendingMeansQuiet ==
  ASSUME TypeOK, OneTransfer, ~status_pending
  PROVE  /\ old_request = status_request
         /\ request_sync = [s \in 0..2 |-> status_request]
         /\ status_ack = status_request
         /\ old_ack = status_request
         /\ status_ack_sync = [s \in 0..2 |-> status_request]
         /\ captured
BY DEF TypeOK, OneTransfer, status_pending, Bit

\* One transfer is kept apart from the next.
THEOREM StatusTransferInvariant == Spec => []OneTransfer
<1>1. Init => OneTransfer
  BY Sync0Type DEF Init, OneTransfer
<1>2. TypeOK /\ OneTransfer /\ [Next]_vars => OneTransfer'
  <2> SUFFICES ASSUME TypeOK, OneTransfer, [Next]_vars PROVE OneTransfer'
    OBVIOUS
  <2>1. ASSUME NEW w \in Word, Clk200Run(w) PROVE OneTransfer'
    <3>1. PICK b \in {old_ack, status_ack} :
            status_ack_sync' = Shift(status_ack_sync, b)
      BY <2>1 DEF Clk200Run
    <3>2. /\ status_ack_sync'[0] = b
          /\ status_ack_sync'[1] = status_ack_sync[0]
          /\ status_ack_sync'[2] = status_ack_sync[1]
      BY <3>1, ShiftType DEF TypeOK
    <3>3. CASE ~status_pending /\ \E v \in Word : SendStatus(v)
      BY <2>1, <3>2, <3>3, NotPendingMeansQuiet
      DEF Clk200Run, SettleForClk200, SendStatus, OneTransfer, TypeOK, Bit, axiVars
    <3>4. CASE UNCHANGED <<status_mailbox, status_request, captured>>
      BY <2>1, <3>2, <3>4
      DEF Clk200Run, SettleForClk200, OneTransfer, TypeOK, Bit, axiVars
    <3> QED
      BY <2>1, <3>3, <3>4, SenderWaits DEF Clk200Run
  <2>2. ASSUME AxiEdge PROVE OneTransfer'
    <3>1. PICK b \in {old_request, status_request} :
            request_sync' = Shift(request_sync, b)
      BY <2>2 DEF AxiEdge
    <3>2. /\ request_sync'[0] = b
          /\ request_sync'[1] = request_sync[0]
          /\ request_sync'[2] = request_sync[1]
      BY <3>1, ShiftType DEF TypeOK
    <3>3. old_mailbox = status_mailbox => bus_meta' = status_mailbox
      BY <2>2, MixSame DEF AxiEdge, TypeOK
    <3> QED
      BY <2>2, <3>2, <3>3 DEF AxiEdge, OneTransfer, TypeOK, Bit, clk200Vars
  <2>3. ASSUME Clk200Release PROVE OneTransfer'
    BY <2>3 DEF Clk200Release, SettleForClk200, OneTransfer, TypeOK, Bit,
                axiVars, clk200Vars
  <2>4. ASSUME PllLock PROVE OneTransfer'
    BY <2>4 DEF PllLock, OneTransfer, axiVars, clk200Vars, oldVars
  <2>5. ASSUME AxiReset PROVE OneTransfer'
    BY <2>5, Sync0Type DEF AxiReset, Clk200Reset, OneTransfer
  <2>6. CASE UNCHANGED vars
    BY <2>6 DEF vars, axiVars, clk200Vars, oldVars, OneTransfer
  <2> QED
    BY <2>1, <2>2, <2>3, <2>4, <2>5, <2>6 DEF Next, Clk200Edge
<1> QED
  BY <1>1, <1>2, StatusTypeCorrect, PTL DEF Spec

\* The status path implements LatestWord: software reads whole words only.
THEOREM StatusRefinement == Spec => ImplementsLatestWord
<1>1. Init => Abs!Init
  BY DEF Init, Abs!Init
<1>2. TypeOK /\ OneTransfer /\ [Next]_vars => [Abs!Next]_Abs!vars
  <2> SUFFICES ASSUME TypeOK, OneTransfer, [Next]_vars
               PROVE  [Abs!Next]_Abs!vars
    OBVIOUS
  <2> USE DEF Abs!vars, Abs!Next
  <2>1. ASSUME NEW w \in Word, Clk200Run(w)
        PROVE  [Abs!Next]_Abs!vars
    <3>1. UNCHANGED view /\ StatusSender
      BY <2>1 DEF Clk200Run, axiVars
    <3>2. CASE current # status_mailbox /\ status_pending
      <4>1. UNCHANGED <<status_mailbox, captured>> /\ status_dirty'
              /\ status_queued' \in Word
        BY <3>1, <3>2 DEF StatusSender, TypeOK
      <4> QED
        BY <3>1, <4>1 DEF Abs!Offer
    <3>3. CASE ~status_pending /\ (current # status_mailbox \/ status_dirty)
      <4>1. PICK v \in Word : SendStatus(v)
        BY <3>1, <3>3 DEF StatusSender, TypeOK
      <4>2. captured
        BY <3>3, NotPendingMeansQuiet
      <4> QED
        BY <3>1, <4>1, <4>2 DEF SendStatus, Abs!Launch
    <3>4. CASE current = status_mailbox /\ (status_pending \/ ~status_dirty)
      BY <3>1, <3>4 DEF StatusSender
    <3> QED
      BY <3>2, <3>3, <3>4
  <2>2. ASSUME AxiEdge PROVE [Abs!Next]_Abs!vars
    <3>1. CASE request_sync[2] # status_ack
      <4>1. ~captured /\ bus_sync = status_mailbox
        BY <3>1 DEF OneTransfer, TypeOK, Bit
      <4> QED
        BY <2>2, <3>1, <4>1 DEF AxiEdge, Abs!Land, clk200Vars
    <3>2. CASE request_sync[2] = status_ack
      BY <2>2, <3>2 DEF AxiEdge, clk200Vars
    <3> QED
      BY <3>1, <3>2
  <2>3. ASSUME Clk200Release \/ PllLock PROVE [Abs!Next]_Abs!vars
    BY <2>3 DEF Clk200Release, PllLock, axiVars, clk200Vars
  <2>4. ASSUME AxiReset PROVE [Abs!Next]_Abs!vars
    BY <2>4 DEF AxiReset, Clk200Reset, Abs!Reset
  <2>5. CASE UNCHANGED vars
    BY <2>5 DEF vars, axiVars, clk200Vars
  <2> QED
    BY <2>1, <2>2, <2>3, <2>4, <2>5 DEF Next, Clk200Edge
<1> QED
  BY <1>1, <1>2, StatusTypeCorrect, StatusTransferInvariant, PTL
  DEF Spec, ImplementsLatestWord, Abs!Spec
-------------------------------------------------------------------------------
(***************************************************************************)
(* With a PLL that may lose its lock, OneTransfer does not hold: the reset *)
(* clears the mailbox and the request behind the AXI domain's back.  While *)
(* the PLL is locked the loop is in order all the same, for it locks only  *)
(* once the AXI domain has taken the cleared request.                      *)
(***************************************************************************)
New(b) == b = status_request

\* The loop of request and acknowledge, as in OneTransfer.  The 200 MHz side
\* sees an edge before the acknowledge it may still sample is settled.
LoopInOrder ==
  /\ New(request_sync[0]) => New(old_request)
  /\ New(request_sync[1]) => New(request_sync[0])
  /\ New(request_sync[2]) => New(request_sync[1])
  /\ New(status_ack) => New(request_sync[2])
  /\ New(old_ack) => New(status_ack)
  /\ reset_release < 3 => (New(status_ack_sync[0]) => New(old_ack))
  /\ New(status_ack_sync[1]) => New(status_ack_sync[0])
  /\ New(status_ack_sync[2]) => New(status_ack_sync[1])

\* The word has come as far as its request, unless software has it already.
WordBeforeRequest ==
  /\ reset_release < 3 => (New(old_request) => old_mailbox = status_mailbox)
  /\ New(request_sync[1]) /\ ~New(status_ack) => bus_meta = status_mailbox
  /\ New(request_sync[2]) /\ ~New(status_ack) => bus_sync = status_mailbox

\* A 200 MHz side in reset requests nothing, and once the PLL has locked the
\* AXI domain has nothing left to acknowledge.
ResetIsSilent ==
  /\ ~pll_locked => reset_release = 3
  /\ vcxo_reset => status_request = 0 /\ status_ack_sync = Sync0
  /\ vcxo_reset /\ pll_locked
       => old_request = 0 /\ request_sync = Sync0 /\ status_ack = 0

UnlockInv ==
  /\ ResetIsSilent
  /\ pll_locked => LoopInOrder /\ WordBeforeRequest

UnlockNext == Next \/ PllUnlock

LEMMA UnlockTypeStep == TypeOK /\ [UnlockNext]_vars => TypeOK'
<1> SUFFICES ASSUME TypeOK, PllUnlock PROVE TypeOK'
  BY TypeStep DEF UnlockNext
<1>1. {status_dirty', captured', pll_locked'} \subseteq BOOLEAN
  BY DEF PllUnlock, Clk200Reset, TypeOK
<1> QED
  BY <1>1, ZeroWordType, Sync0Type, ResetAssumption
  DEF PllUnlock, Clk200Reset, TypeOK, Bit, axiVars

\* No word is sent unless the whole loop shows the last request.
LEMMA NotPendingInOrder ==
  ASSUME TypeOK, UnlockInv, pll_locked, ~vcxo_reset, ~status_pending
  PROVE  /\ New(old_request)
         /\ New(request_sync[0]) /\ New(request_sync[1]) /\ New(request_sync[2])
         /\ New(status_ack) /\ New(old_ack)
         /\ New(status_ack_sync[0]) /\ New(status_ack_sync[1])
         /\ New(status_ack_sync[2])
<1>1. reset_release < 3
  BY DEF vcxo_reset, TypeOK
<1> QED
  BY <1>1 DEF UnlockInv, LoopInOrder, status_pending, New

LEMMA UnlockStep == TypeOK /\ UnlockInv /\ [UnlockNext]_vars => UnlockInv'
<1> SUFFICES ASSUME TypeOK, UnlockInv, [UnlockNext]_vars PROVE UnlockInv'
  OBVIOUS
<1> USE DEF UnlockInv, LoopInOrder, WordBeforeRequest, ResetIsSilent, New
<1>1. ASSUME NEW w \in Word, Clk200Run(w) PROVE UnlockInv'
  <2>1. PICK b \in {old_ack, status_ack} :
          status_ack_sync' = Shift(status_ack_sync, b)
    BY <1>1 DEF Clk200Run
  <2>2. /\ status_ack_sync'[0] = b
        /\ status_ack_sync'[1] = status_ack_sync[0]
        /\ status_ack_sync'[2] = status_ack_sync[1]
    BY <2>1, ShiftType DEF TypeOK
  <2>3. /\ pll_locked /\ ~vcxo_reset /\ reset_release < 3
        /\ pll_locked' = pll_locked /\ reset_release' = reset_release
        /\ request_sync' = request_sync /\ status_ack' = status_ack
        /\ bus_meta' = bus_meta /\ bus_sync' = bus_sync
        /\ old_ack' = status_ack /\ old_request' = status_request
        /\ old_mailbox' = status_mailbox
    BY <1>1 DEF Clk200Run, SettleForClk200, axiVars, resetVars, vcxo_reset, TypeOK
  <2>4. ResetIsSilent'
    BY <2>3 DEF vcxo_reset
  <2>5. CASE ~status_pending /\ \E v \in Word : SendStatus(v)
    <3>1. status_request' = 1 - status_request
      BY <2>5 DEF SendStatus
    <3>2. status_request' # status_request
      BY <3>1 DEF TypeOK, Bit
    <3>3. LoopInOrder' /\ WordBeforeRequest'
      BY <2>2, <2>3, <2>5, <3>2, NotPendingInOrder DEF TypeOK, Bit
    <3> QED
      BY <2>4, <3>3
  <2>6. CASE UNCHANGED <<status_mailbox, status_request, captured>>
    <3>1. LoopInOrder' /\ WordBeforeRequest'
      BY <2>2, <2>3, <2>6 DEF TypeOK, Bit
    <3> QED
      BY <2>4, <3>1
  <2> QED
    BY <1>1, <2>5, <2>6, SenderWaits DEF Clk200Run
<1>2. ASSUME Clk200Release PROVE UnlockInv'
  <2>1. /\ pll_locked /\ pll_locked' = pll_locked
        /\ reset_release' = reset_release - 1 /\ vcxo_reset
        /\ old_ack' = status_ack /\ old_request' = status_request
        /\ old_mailbox' = status_mailbox
        /\ UNCHANGED <<status_request, status_mailbox, status_ack_sync,
                       request_sync, status_ack, bus_meta, bus_sync>>
    BY <1>2 DEF Clk200Release, SettleForClk200, axiVars, clk200Vars
  <2>2. /\ status_request = 0 /\ status_ack_sync = Sync0
        /\ request_sync = Sync0 /\ status_ack = 0
    BY <2>1
  <2> QED
    BY <2>1, <2>2, Sync0Type DEF vcxo_reset
<1>3. ASSUME AxiEdge PROVE UnlockInv'
  <2>1. PICK b \in {old_request, status_request} :
          request_sync' = Shift(request_sync, b)
    BY <1>3 DEF AxiEdge
  <2>2. /\ request_sync'[0] = b
        /\ request_sync'[1] = request_sync[0]
        /\ request_sync'[2] = request_sync[1]
    BY <2>1, ShiftType DEF TypeOK
  <2>3. old_mailbox = status_mailbox => bus_meta' = status_mailbox
    BY <1>3, MixSame DEF AxiEdge, TypeOK
  <2>4. /\ UNCHANGED <<pll_locked, reset_release, status_request, status_mailbox,
                       status_ack_sync>>
        /\ old_request' = status_request /\ old_mailbox' = status_mailbox
        /\ old_ack' = status_ack /\ bus_sync' = bus_meta
    BY <1>3 DEF AxiEdge, clk200Vars, resetVars
  <2>5. status_ack' = IF request_sync[2] # status_ack THEN request_sync[2]
                                                     ELSE status_ack
    BY <1>3 DEF AxiEdge
  <2>6. ResetIsSilent'
    <3>1. vcxo_reset /\ pll_locked
            => b = 0 /\ Shift(request_sync, b) = Sync0 /\ status_ack' = 0
      BY <2>5, Sync0Type DEF Shift, Sync0
    <3> QED
      BY <2>1, <2>4, <3>1 DEF vcxo_reset
  <2>7. pll_locked => LoopInOrder'
    BY <2>2, <2>4, <2>5 DEF TypeOK, Bit
  <2>8. pll_locked => WordBeforeRequest'
    <3>1. CASE vcxo_reset /\ pll_locked
      <4>1. status_ack' = status_request' /\ old_mailbox' = status_mailbox'
        BY <2>4, <2>6, <3>1 DEF vcxo_reset
      <4> QED
        BY <4>1
    <3>2. CASE ~vcxo_reset
      <4>1. reset_release < 3
        BY <3>2 DEF vcxo_reset, TypeOK
      <4> QED
        BY <2>2, <2>3, <2>4, <2>5, <4>1 DEF TypeOK, Bit
    <3> QED
      BY <3>1, <3>2
  <2> QED
    BY <2>4, <2>6, <2>7, <2>8
<1>4. ASSUME PllLock PROVE UnlockInv'
  <2>1. /\ ~pll_locked /\ reset_release = 3 /\ old_request = 0
        /\ request_sync = Sync0 /\ status_ack = 0
        /\ reset_release' = reset_release
        /\ UNCHANGED <<status_request, status_mailbox, status_ack_sync,
                       old_request, old_mailbox, old_ack, status_ack,
                       request_sync, bus_sync, bus_meta>>
    BY <1>4 DEF PllLock, axiVars, clk200Vars, oldVars
  <2>2. status_request = 0 /\ status_ack_sync = Sync0
    BY <2>1 DEF vcxo_reset
  <2> QED
    BY <2>1, <2>2, Sync0Type DEF vcxo_reset
<1>5. ASSUME AxiReset PROVE UnlockInv'
  BY <1>5, Sync0Type DEF AxiReset, Clk200Reset, vcxo_reset
<1>6. ASSUME PllUnlock PROVE UnlockInv'
  BY <1>6 DEF PllUnlock, Clk200Reset, vcxo_reset
<1>7. CASE UNCHANGED vars
  BY <1>7 DEF vars, axiVars, clk200Vars, resetVars, oldVars, vcxo_reset
<1> QED
  BY <1>1, <1>2, <1>3, <1>4, <1>5, <1>6, <1>7 DEF UnlockNext, Next, Clk200Edge

\* While the PLL is locked requests stay in order and never overtake their
\* words, however often it lost its lock before.
THEOREM StatusUnlockInvariant == UnlockSpec => [](TypeOK /\ UnlockInv)
<1>1. Init => UnlockInv
  BY DEF Init, UnlockInv, ResetIsSilent, vcxo_reset
<1> QED
  BY <1>1, TypeInit, UnlockTypeStep, UnlockStep, PTL DEF UnlockSpec, UnlockNext

\* Software reads whole status words as long as the PLL is locked, whatever a
\* loss of its lock did to a word that was on its way.
THEOREM StatusWholeWhileLocked == UnlockSpec => WholeWhileLocked
<1>1. TypeOK /\ UnlockInv /\ [UnlockNext]_vars
        => [pll_locked /\ view' # view => view' \in {status_mailbox, ZeroWord}]_vars
  <2> SUFFICES ASSUME TypeOK, UnlockInv, UnlockNext, pll_locked, view' # view
               PROVE  view' \in {status_mailbox, ZeroWord}
    OBVIOUS
  <2>1. CASE AxiEdge
    <3>1. request_sync[2] # status_ack /\ view' = bus_sync
      BY <2>1 DEF AxiEdge
    <3>2. bus_sync = status_mailbox
      BY <3>1 DEF UnlockInv, LoopInOrder, WordBeforeRequest, New, TypeOK, Bit
    <3> QED
      BY <3>1, <3>2
  <2>2. CASE AxiReset
    BY <2>2 DEF AxiReset
  <2>3. CASE Clk200Edge \/ PllLock \/ PllUnlock
    BY <2>3 DEF Clk200Edge, Clk200Run, Clk200Release, PllLock, PllUnlock, axiVars
  <2> QED
    BY <2>1, <2>2, <2>3 DEF UnlockNext, Next
<1> QED
  BY <1>1, StatusUnlockInvariant, PTL DEF UnlockSpec, UnlockNext, WholeWhileLocked
-------------------------------------------------------------------------------
\* Out of a reset the mailbox is empty and no word was sent.
Unsent ==
  /\ current = Holdover /\ status_mailbox = ZeroWord
  /\ status_request = 0 /\ status_ack_sync = Sync0

\* What was acknowledged is what software reads, but before the first word
\* after a reset.
ToldInv ==
  /\ vcxo_reset => Unsent
  /\ pll_locked /\ New(status_ack) => view = status_mailbox \/ Unsent

LEMMA ToldStep ==
  ASSUME Holdover # ZeroWord, TypeOK, UnlockInv, ToldInv, [UnlockNext]_vars
  PROVE  ToldInv'
<1> USE DEF ToldInv, Unsent, New
<1>1. ASSUME NEW w \in Word, Clk200Run(w) PROVE ToldInv'
  <2>1. /\ pll_locked /\ ~vcxo_reset /\ StatusSender
        /\ reset_release' = reset_release
        /\ status_ack' = status_ack /\ view' = view
    BY <1>1 DEF Clk200Run, axiVars, resetVars
  <2>2. ~vcxo_reset'
    BY <2>1 DEF vcxo_reset
  <2>3. CASE ~status_pending /\ \E v \in Word : SendStatus(v)
    <3>1. status_request' = 1 - status_request
      BY <2>3 DEF SendStatus
    <3>2. status_request' # status_request
      BY <3>1 DEF TypeOK, Bit
    <3>3. status_ack' # status_request'
      BY <2>1, <2>3, <3>2, NotPendingInOrder
    <3> QED
      BY <2>2, <3>3
  <2>4. CASE UNCHANGED <<status_mailbox, status_request, captured>>
    <3>1. ~Unsent
      <4> SUFFICES ASSUME Unsent PROVE FALSE
        OBVIOUS
      <4>1. ~status_pending /\ current # status_mailbox
        BY Sync0Type DEF status_pending
      <4>2. SendStatus(current)
        BY <2>1, <4>1 DEF StatusSender
      <4>3. status_request' = 1 - status_request
        BY <4>2 DEF SendStatus
      <4> QED
        BY <2>4, <4>3 DEF TypeOK, Bit
    <3> QED
      BY <2>1, <2>2, <2>4, <3>1
  <2> QED
    BY <2>1, <2>3, <2>4, SenderWaits
<1>2. ASSUME AxiEdge PROVE ToldInv'
  <2>1. UNCHANGED <<current, status_mailbox, status_request, status_ack_sync,
                    pll_locked, reset_release>>
    BY <1>2 DEF AxiEdge, clk200Vars, resetVars
  <2>2. CASE request_sync[2] # status_ack
    <3>1. view' = bus_sync
      BY <1>2, <2>2 DEF AxiEdge
    <3>2. pll_locked => bus_sync = status_mailbox
      BY <2>2 DEF UnlockInv, LoopInOrder, WordBeforeRequest, TypeOK, Bit
    <3> QED
      BY <2>1, <3>1, <3>2 DEF vcxo_reset
  <2>3. CASE request_sync[2] = status_ack
    <3>1. UNCHANGED <<view, status_ack>>
      BY <1>2, <2>3 DEF AxiEdge
    <3> QED
      BY <2>1, <3>1 DEF vcxo_reset
  <2> QED
    BY <2>2, <2>3
<1>3. ASSUME Clk200Release PROVE ToldInv'
  BY <1>3 DEF Clk200Release, axiVars, clk200Vars, vcxo_reset
<1>4. ASSUME PllLock PROVE ToldInv'
  <2>1. Unsent
    BY <1>4 DEF PllLock, UnlockInv, ResetIsSilent, vcxo_reset
  <2> QED
    BY <1>4, <2>1 DEF PllLock, axiVars, clk200Vars, vcxo_reset
<1>5. ASSUME AxiReset \/ PllUnlock PROVE ToldInv'
  BY <1>5 DEF AxiReset, PllUnlock, Clk200Reset
<1>6. CASE UNCHANGED vars
  BY <1>6 DEF vars, axiVars, clk200Vars, resetVars, vcxo_reset
<1> QED
  BY <1>1, <1>2, <1>3, <1>4, <1>5, <1>6 DEF UnlockNext, Next, Clk200Edge

\* When the sender has come to rest software reads the status as it is, however
\* often the PLL lost its lock, provided that the status a reset shows is not
\* the empty mailbox: with HOLDOVER_DAC = 0 a reset could go unnoticed.
THEOREM SenderRestsWhenRead ==
  ASSUME Holdover # ZeroWord
  PROVE  UnlockSpec => []QuietIsCurrent
<1>1. Init => ToldInv
  BY DEF Init, ToldInv, Unsent
<1>2. TypeOK /\ UnlockInv /\ ToldInv /\ [UnlockNext]_vars => ToldInv'
  BY ToldStep
<1>3. TypeOK /\ UnlockInv /\ ToldInv => QuietIsCurrent
  <2> SUFFICES ASSUME TypeOK, UnlockInv, ToldInv, Quiet PROVE view = current
    BY DEF QuietIsCurrent
  <2>1. New(status_ack) /\ pll_locked /\ current = status_mailbox
    BY NotPendingInOrder DEF Quiet
  <2> QED
    BY <2>1 DEF ToldInv, Unsent
<1> QED
  BY <1>1, <1>2, <1>3, StatusUnlockInvariant, PTL DEF UnlockSpec, UnlockNext
===============================================================================
