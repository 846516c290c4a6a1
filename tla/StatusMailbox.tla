----------------------------- MODULE StatusMailbox -----------------------------
(***************************************************************************)
(* The status path of the VCXO controller (axi_e310_vcxo_ctrl.v): the DAC  *)
(* code in use and the lock status travel from the 200 MHz domain to the   *)
(* registers software reads.  The 200 MHz side compares its current status *)
(* with the mailbox on every edge, so that nothing but the mailbox itself  *)
(* remembers what software has been told.                                  *)
(*                                                                         *)
(* Clock edges and sampling are modelled as in ControlMailbox, with the    *)
(* domains in the opposite roles.                                          *)
(***************************************************************************)
EXTENDS Integers

CONSTANTS
  Field,    \* the fields of the status word: DAC code, is_pps, is_10m, locked
  Value,    \* the values of a field
  Reset0,   \* the value the mailbox registers are reset to
  Holdover  \* the status the reference loop shows while it is in reset

VARIABLES
  \* 200 MHz domain
  current,          \* active_dac, reference_is_pps, reference_is_10m, locked
  status_mailbox, status_queued, status_request, status_dirty,
  status_ack_sync,  \* three-stage synchroniser, stage 0 first
  pll_locked,
  reset_release,    \* ones left in vcxo_reset_release: in reset while > 0
  \* AXI domain
  bus_meta, bus_sync, request_sync, status_ack,
  view,             \* active_dac_axi and reference_status_axi
  \* what a sample taken now may still find instead of the current value
  old_request, old_mailbox, old_ack,
  captured          \* history: the word in the mailbox has been captured

clk200Vars == <<current, status_mailbox, status_queued, status_request,
                status_dirty, status_ack_sync>>
axiVars == <<bus_meta, bus_sync, request_sync, status_ack, view>>
resetVars == <<pll_locked, reset_release>>
oldVars == <<old_request, old_mailbox, old_ack>>
vars == <<clk200Vars, axiVars, resetVars, oldVars, captured>>

Bit == {0, 1}
Word == [Field -> Value]
ZeroWord == [f \in Field |-> Reset0]
Sync0 == [s \in 0..2 |-> 0]

ASSUME ResetAssumption == Reset0 \in Value /\ Holdover \in Word

\* One edge of a three-stage synchroniser that samples b.
Shift(sync, b) == [s \in 0..2 |-> IF s = 0 THEN b ELSE sync[s - 1]]

\* The words a register can capture while the word `new' replaces `old'.
Mix(old, new) == {w \in Word : \A f \in Field : w[f] \in {old[f], new[f]}}

TypeOK ==
  /\ {current, status_mailbox, status_queued, old_mailbox} \subseteq Word
  /\ {bus_meta, bus_sync, view} \subseteq Word
  /\ {status_request, status_ack, old_request, old_ack} \subseteq Bit
  /\ status_ack_sync \in [0..2 -> Bit]
  /\ request_sync \in [0..2 -> Bit]
  /\ {status_dirty, captured, pll_locked} \subseteq BOOLEAN
  /\ reset_release \in 0..3
-------------------------------------------------------------------------------
Init ==
  /\ current = Holdover
  /\ status_mailbox = ZeroWord /\ status_queued = ZeroWord
  /\ status_request = 0 /\ status_dirty = FALSE /\ status_ack_sync = Sync0
  /\ pll_locked = FALSE /\ reset_release = 3
  /\ bus_meta = ZeroWord /\ bus_sync = ZeroWord /\ request_sync = Sync0
  /\ status_ack = 0 /\ view = ZeroWord
  /\ old_request = 0 /\ old_mailbox = ZeroWord /\ old_ack = 0
  /\ captured = TRUE

status_pending == status_request # status_ack_sync[2]

vcxo_reset == reset_release > 0

\* The word w enters the mailbox and the request toggles.
SendStatus(w) ==
  /\ status_mailbox' = w
  /\ status_request' = 1 - status_request
  /\ status_dirty' = FALSE
  /\ captured' = FALSE
  /\ UNCHANGED status_queued

\* Mistake the properties must reject: the sender does not wait for the acknowledge.
SenderNeverWaits ==
  \/ /\ current # status_mailbox
     /\ SendStatus(current)
  \/ /\ current = status_mailbox
     /\ UNCHANGED <<status_mailbox, status_queued, status_request,
                    status_dirty, captured>>

\* What the sender does on an edge: a status that differs from the mailbox is
\* sent or, while a word is on its way, queued; a queued one is sent later,
\* even if the status has meanwhile returned to what the mailbox holds.
StatusSender ==
  \/ /\ current # status_mailbox /\ status_pending
     /\ status_queued' = current
     /\ status_dirty' = TRUE
     /\ UNCHANGED <<status_mailbox, status_request, captured>>
  \/ /\ current # status_mailbox /\ ~status_pending
     /\ SendStatus(current)
  \/ /\ current = status_mailbox /\ ~status_pending /\ status_dirty
     /\ SendStatus(status_queued)
  \/ /\ current = status_mailbox /\ (status_pending \/ ~status_dirty)
     /\ UNCHANGED <<status_mailbox, status_queued, status_request,
                    status_dirty, captured>>

\* After an edge of the 200 MHz clock.
SettleForClk200 ==
  /\ old_ack' = status_ack
  /\ old_request' = status_request
  /\ old_mailbox' = status_mailbox

\* An edge of the 200 MHz clock out of reset, after which the reference loop
\* and the DAC selection show the status w.
Clk200Run(w) ==
  /\ pll_locked /\ ~vcxo_reset
  /\ StatusSender
  /\ \E b \in {old_ack, status_ack} :
       status_ack_sync' = Shift(status_ack_sync, b)
  /\ current' = w
  /\ SettleForClk200
  /\ UNCHANGED <<axiVars, resetVars>>

\* Mistake: the count of release edges runs on.
ReleaseWithoutEnd ==
  /\ pll_locked
  /\ reset_release' = reset_release - 1
  /\ SettleForClk200
  /\ UNCHANGED <<clk200Vars, axiVars, pll_locked, captured>>

\* An edge of the 200 MHz clock while it leaves reset.
Clk200Release ==
  /\ pll_locked /\ vcxo_reset
  /\ reset_release' = reset_release - 1
  /\ SettleForClk200
  /\ UNCHANGED <<clk200Vars, axiVars, pll_locked, captured>>

\* An edge of the AXI clock out of reset.
AxiEdge ==
  /\ bus_meta' \in Mix(old_mailbox, status_mailbox)
  /\ bus_sync' = bus_meta
  /\ \E b \in {old_request, status_request} :
       request_sync' = Shift(request_sync, b)
  /\ \/ /\ request_sync[2] # status_ack
        /\ view' = bus_sync
        /\ status_ack' = request_sync[2]
        /\ captured' = TRUE
     \/ /\ request_sync[2] = status_ack
        /\ UNCHANGED <<view, status_ack, captured>>
  /\ old_request' = status_request
  /\ old_mailbox' = status_mailbox
  /\ old_ack' = status_ack
  /\ UNCHANGED <<clk200Vars, resetVars>>

\* The asynchronous reset of all 200 MHz state.
Clk200Reset ==
  /\ current' = Holdover
  /\ status_mailbox' = ZeroWord /\ status_queued' = ZeroWord
  /\ status_request' = 0 /\ status_dirty' = FALSE /\ status_ack_sync' = Sync0
  /\ reset_release' = 3

\* The PLL needs thousands of clock periods to lock, so by then the AXI domain
\* has taken the mailbox that the reset cleared.
PllLock ==
  /\ ~pll_locked
  /\ old_request = 0 /\ request_sync = Sync0 /\ status_ack = 0
  /\ pll_locked' = TRUE
  /\ UNCHANGED <<clk200Vars, axiVars, reset_release, oldVars, captured>>

\* s_axi_aresetn: it resets both domains.
AxiReset ==
  /\ Clk200Reset
  /\ bus_meta' = ZeroWord /\ bus_sync' = ZeroWord /\ request_sync' = Sync0
  /\ status_ack' = 0 /\ view' = ZeroWord
  /\ old_request' = 0 /\ old_mailbox' = ZeroWord /\ old_ack' = 0
  /\ captured' = TRUE
  /\ UNCHANGED pll_locked

\* The PLL loses lock: the 200 MHz domain is reset alone.
PllUnlock ==
  /\ pll_locked
  /\ pll_locked' = FALSE
  /\ Clk200Reset
  /\ old_request' = status_request
  /\ old_mailbox' = status_mailbox
  /\ UNCHANGED <<axiVars, old_ack, captured>>

Clk200Edge == Clk200Release \/ \E w \in Word : Clk200Run(w)

Next == AxiEdge \/ Clk200Edge \/ PllLock \/ AxiReset

\* An edge of the 200 MHz clock that leaves the status as it is: the reference
\* loop updates it at most once per comparison, thousands of edges apart.
QuietClk200Edge == Clk200Release \/ Clk200Run(current)

\* Both clocks run; nothing forces the status to change.
Fairness == WF_vars(AxiEdge) /\ WF_vars(QuietClk200Edge) /\ WF_vars(PllLock)

\* The controller with a PLL that keeps its lock once it has it.
Spec == Init /\ [][Next]_vars
FairSpec == Spec /\ Fairness

\* The controller with a PLL that may lose its lock.
UnlockSpec == Init /\ [][Next \/ PllUnlock]_vars
UnlockFairSpec == UnlockSpec /\ Fairness
-------------------------------------------------------------------------------
\* "This prevents software from observing a word assembled from two different
\* DAC updates": software's registers take whole words.  A word is what the sender
\* had queued when it filled the mailbox, which may be older than the last one sent.
Abs == INSTANCE LatestWord
  WITH Zero <- ZeroWord,
       offered <- IF status_dirty THEN status_queued ELSE status_mailbox,
       carried <- status_mailbox, travelling <- ~captured, delivered <- view
ImplementsLatestWord == Abs!Spec

\* While the PLL has its lock, software's registers change only to the whole word
\* that is in the mailbox, or by a reset, also after losses of the lock.
WholeWhileLocked ==
  [][pll_locked /\ view' # view => view' \in {status_mailbox, ZeroWord}]_vars

\* The sender has nothing left to tell: it runs, what it sent is acknowledged,
\* nothing is queued, and the status is the one in the mailbox.
Quiet ==
  /\ pll_locked /\ ~vcxo_reset
  /\ ~status_pending /\ ~status_dirty /\ current = status_mailbox

\* A sender at rest leaves nothing untold: software reads the status as it is,
\* also after losses of lock that cleared the sender's memory of what it told.
QuietIsCurrent == Quiet => view = current

\* Whatever was queued, dropped or sent stale on the way, a status that no
\* longer changes is what software reads, also after losses of the PLL's lock.
Settles ==
  \A w \in Word : <>[](pll_locked /\ ~vcxo_reset /\ current = w)
                     => <>[](view = w)
===============================================================================
