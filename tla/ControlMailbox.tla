---------------------------- MODULE ControlMailbox ----------------------------
(***************************************************************************)
(* The control path of the VCXO controller (axi_e310_vcxo_ctrl.v): the     *)
(* register map in the AXI clock domain, the request/acknowledge mailbox   *)
(* that carries the control word to the 200 MHz domain, and the resets.    *)
(*                                                                         *)
(* The two clocks are unrelated, so the edges of the two domains           *)
(* interleave freely.  A signal that crosses is sampled near its change:   *)
(* an edge of the receiving clock that is the first one after an edge of   *)
(* the driving clock may find, bit by bit, the value from before that edge *)
(* or from after it.  The old_ variables hold the value from before.       *)
(***************************************************************************)
EXTENDS Integers

CONSTANTS
  Field,    \* the fields of the control word: reference, DAC code, manual mode
  Value,    \* the values of a field
  Reset0    \* the value every field is reset to

ASSUME ResetValueAssumption == Reset0 \in Value

VARIABLES
  \* AXI domain
  regs,             \* manual_mode, manual_dac, reference_select of the regmap
  control_mailbox, control_queued, control_request, control_dirty,
  control_ack_sync, \* three-stage synchroniser, stage 0 first
  \* 200 MHz domain
  bus_meta, bus_sync, request_sync, control_ack,
  active,           \* manual_mode, manual_dac, reference_select in use
  pll_locked,
  reset_release,    \* ones left in vcxo_reset_release: in reset while > 0
  \* what a sample taken now may still find instead of the current value
  old_request, old_mailbox, old_ack,
  captured          \* history: the word in the mailbox has been captured

axiVars == <<regs, control_mailbox, control_queued, control_request,
             control_dirty, control_ack_sync>>
clk200Vars == <<bus_meta, bus_sync, request_sync, control_ack, active>>
resetVars == <<pll_locked, reset_release>>
oldVars == <<old_request, old_mailbox, old_ack>>
vars == <<axiVars, clk200Vars, resetVars, oldVars, captured>>

Bit == {0, 1}
Word == [Field -> Value]
ZeroWord == [f \in Field |-> Reset0]
Sync0 == [s \in 0..2 |-> 0]

\* One edge of a three-stage synchroniser that samples b.
Shift(sync, b) == [s \in 0..2 |-> IF s = 0 THEN b ELSE sync[s - 1]]

\* The words a register can capture while the word `new' replaces `old'.
Mix(old, new) == {w \in Word : \A f \in Field : w[f] \in {old[f], new[f]}}

TypeOK ==
  /\ {regs, control_mailbox, control_queued, old_mailbox} \subseteq Word
  /\ {bus_meta, bus_sync, active} \subseteq Word
  /\ {control_request, control_ack, old_request, old_ack} \subseteq Bit
  /\ control_ack_sync \in [0..2 -> Bit]
  /\ request_sync \in [0..2 -> Bit]
  /\ {control_dirty, captured, pll_locked} \subseteq BOOLEAN
  /\ reset_release \in 0..3
-------------------------------------------------------------------------------
Init ==
  /\ regs = ZeroWord /\ control_mailbox = ZeroWord /\ control_queued = ZeroWord
  /\ control_request = 0 /\ control_dirty = FALSE /\ control_ack_sync = Sync0
  /\ bus_meta = ZeroWord /\ bus_sync = ZeroWord /\ request_sync = Sync0
  /\ control_ack = 0 /\ active = ZeroWord
  /\ pll_locked = FALSE /\ reset_release = 3
  /\ old_request = 0 /\ old_mailbox = ZeroWord /\ old_ack = 0
  /\ captured = TRUE

\* Mistakes the properties must reject: the acknowledge is not waited for, or
\* taken from the first stage, which may be metastable and is two edges early.
NeverPending == FALSE
PendingFirstStage == control_request # control_ack_sync[0]

control_pending == control_request # control_ack_sync[2]

vcxo_reset == reset_release > 0

\* Mistake: the queued word is not forgotten when a newer one is sent.
SendKeepsDirty(w) ==
  /\ control_mailbox' = w
  /\ control_request' = 1 - control_request
  /\ captured' = FALSE
  /\ UNCHANGED <<control_queued, control_dirty>>

\* The word w enters the mailbox and the request toggles.
SendControl(w) ==
  /\ control_mailbox' = w
  /\ control_request' = 1 - control_request
  /\ control_dirty' = FALSE
  /\ captured' = FALSE
  /\ UNCHANGED control_queued

\* What every AXI edge out of reset does besides the mailbox: the acknowledge
\* is sampled, and what it drives may be sampled old until the other side's edge.
AxiSample ==
  /\ \E b \in {old_ack, control_ack} :
       control_ack_sync' = Shift(control_ack_sync, b)
  /\ old_ack' = control_ack
  /\ old_request' = control_request
  /\ old_mailbox' = control_mailbox
  /\ UNCHANGED <<clk200Vars, resetVars>>

\* control_write_value_axi: the register written, beside the others' values.
control_write_value(f, v) == [regs EXCEPT ![f] = v]

\* An AXI edge with a register write.
AxiWrite(f, v) ==
  /\ regs' = control_write_value(f, v)
  /\ \/ /\ control_pending
        /\ control_queued' = control_write_value(f, v)
        /\ control_dirty' = TRUE
        /\ UNCHANGED <<control_mailbox, control_request, captured>>
     \/ /\ ~control_pending
        /\ SendControl(control_write_value(f, v))
  /\ AxiSample

\* Mistake: a queued word waits for the next write.
IdleNeverResends ==
  /\ UNCHANGED <<regs, control_mailbox, control_queued, control_request,
                 control_dirty, captured>>
  /\ AxiSample

\* An AXI edge without one.
AxiIdle ==
  /\ UNCHANGED regs
  /\ \/ /\ ~control_pending /\ control_dirty
        /\ SendControl(control_queued)
     \/ /\ control_pending \/ ~control_dirty
        /\ UNCHANGED <<control_mailbox, control_queued, control_request,
                       control_dirty, captured>>
  /\ AxiSample

\* After an edge of the 200 MHz clock its next edge samples what the AXI domain
\* drives now, and the AXI domain may sample what this edge replaces.
SettleForClk200 ==
  /\ old_request' = control_request
  /\ old_mailbox' = control_mailbox
  /\ old_ack' = control_ack

\* Mistake: the request is taken from the first stage, before the word arrives.
RequestFirstStage == request_sync[0] # control_ack

\* A request that has passed the synchroniser and is not yet acknowledged.
RequestSeen == request_sync[2] # control_ack

\* An edge of the 200 MHz clock out of reset.
Clk200Run ==
  /\ pll_locked /\ ~vcxo_reset
  /\ bus_meta' \in Mix(old_mailbox, control_mailbox)
  /\ bus_sync' = bus_meta
  /\ \E b \in {old_request, control_request} :
       request_sync' = Shift(request_sync, b)
  /\ \/ /\ RequestSeen
        /\ active' = bus_sync
        /\ control_ack' = request_sync[2]
        /\ captured' = TRUE
     \/ /\ ~RequestSeen
        /\ UNCHANGED <<active, control_ack, captured>>
  /\ SettleForClk200
  /\ UNCHANGED <<axiVars, resetVars>>

\* Mistake: the count of release edges runs on.
ReleaseWithoutEnd ==
  /\ pll_locked
  /\ reset_release' = reset_release - 1
  /\ SettleForClk200
  /\ UNCHANGED <<axiVars, clk200Vars, pll_locked, captured>>

\* An edge of the 200 MHz clock while it leaves reset.
Clk200Release ==
  /\ pll_locked /\ vcxo_reset
  /\ reset_release' = reset_release - 1
  /\ SettleForClk200
  /\ UNCHANGED <<axiVars, clk200Vars, pll_locked, captured>>

\* The asynchronous reset of all 200 MHz state.
Clk200Reset ==
  /\ bus_meta' = ZeroWord /\ bus_sync' = ZeroWord /\ request_sync' = Sync0
  /\ control_ack' = 0 /\ active' = ZeroWord
  /\ reset_release' = 3

\* The PLL needs thousands of clock periods to lock, so by then the AXI domain
\* has seen the acknowledge that the reset cleared.
PllLock ==
  /\ ~pll_locked
  /\ old_ack = 0 /\ control_ack_sync = Sync0
  /\ pll_locked' = TRUE
  /\ UNCHANGED <<axiVars, clk200Vars, reset_release, oldVars, captured>>

\* s_axi_aresetn: it resets the AXI domain and, through vcxo_reset_async, the
\* 200 MHz domain with it.
AxiReset ==
  /\ regs' = ZeroWord /\ control_mailbox' = ZeroWord
  /\ control_queued' = ZeroWord
  /\ control_request' = 0 /\ control_dirty' = FALSE /\ control_ack_sync' = Sync0
  /\ Clk200Reset
  /\ old_request' = 0 /\ old_mailbox' = ZeroWord /\ old_ack' = 0
  /\ captured' = TRUE
  /\ UNCHANGED pll_locked

\* The PLL loses lock: the 200 MHz domain is reset alone.
PllUnlock ==
  /\ pll_locked
  /\ pll_locked' = FALSE
  /\ Clk200Reset
  /\ old_ack' = control_ack
  /\ UNCHANGED <<axiVars, old_request, old_mailbox, captured>>

AxiEdge == AxiIdle \/ \E f \in Field, v \in Value : AxiWrite(f, v)
Clk200Edge == Clk200Run \/ Clk200Release

Next == AxiEdge \/ Clk200Edge \/ PllLock \/ AxiReset

\* Both clocks run; a register write takes several AXI edges, so that there are
\* edges without one, and nothing forces a write.
Fairness == WF_vars(AxiIdle) /\ WF_vars(Clk200Edge) /\ WF_vars(PllLock)

\* The controller with a PLL that keeps its lock once it has it.
Spec == Init /\ [][Next]_vars
FairSpec == Spec /\ Fairness

\* The controller with a PLL that may lose its lock.
UnlockSpec == Init /\ [][Next \/ PllUnlock]_vars
UnlockFairSpec == UnlockSpec /\ Fairness
-------------------------------------------------------------------------------
\* The domain crossing keeps the promise of LatestWord: the 200 MHz side uses
\* whole control words, the newest one each time the mailbox is filled, and no
\* word leaves the mailbox before it has been captured.
Abs == INSTANCE LatestWord
  WITH Zero <- ZeroWord, offered <- regs, carried <- control_mailbox,
       travelling <- ~captured, delivered <- active
ImplementsLatestWord == Abs!Spec

\* "The request/acknowledge pair freezes the multi-bit mailbox until the
\* receiving domain has captured it": a word is replaced in the mailbox only
\* after it was captured, or by the reset of both domains.
MailboxFrozen ==
  [][control_mailbox' # control_mailbox => captured \/ AxiReset]_vars

\* "Writes while a transfer is in flight are coalesced into one subsequent
\* mailbox update": the newest register contents are always either in the
\* mailbox or queued for it, so no write is lost to an older one.
NewestKept == regs = IF control_dirty THEN control_queued ELSE control_mailbox

\* The 200 MHz side goes from one control word to another only by a reset or
\* by taking the whole word that is in the mailbox, even when the PLL loses its
\* lock with a transfer on its way.
WholeWords ==
  [][active' # active => active' \in {control_mailbox, ZeroWord}]_vars

\* Along the loop of the request and the acknowledge at most one change is on
\* its way: a stage that shows the newest request is preceded by stages that
\* all show it.  Where the newest request has arrived, the word that came with
\* it has arrived too, although the word is sampled through one stage less.
OneTransfer ==
  LET new(b) == b = control_request
  IN  /\ new(request_sync[0]) => new(old_request)
      /\ new(request_sync[1]) => new(request_sync[0])
      /\ new(request_sync[2]) => new(request_sync[1])
      /\ new(control_ack) => new(request_sync[2])
      /\ new(old_ack) => new(control_ack)
      /\ new(control_ack_sync[0]) => new(old_ack)
      /\ new(control_ack_sync[1]) => new(control_ack_sync[0])
      /\ new(control_ack_sync[2]) => new(control_ack_sync[1])
      /\ new(old_request) => old_mailbox = control_mailbox
      /\ new(request_sync[1]) => bus_meta = control_mailbox
      /\ new(request_sync[2]) => bus_sync = control_mailbox
      /\ new(control_ack) => active = control_mailbox
      /\ captured <=> new(control_ack)

\* Software that stops changing the registers finds them in use: the 200 MHz
\* side settles on the register contents.
Settles == \A w \in Word : <>[](regs = w) => <>[](active = w)
===============================================================================
