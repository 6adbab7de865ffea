------------------------------ MODULE SMDActNack ------------------------------
(***************************************************************************)
(* SMD in ACT_NACK mode, controller side, for one bank of one rank         *)
(* (Controller.h), with the DDR4 bank and subarray states (DDR4.cpp) and   *)
(* the fixed-rate refresher of every chip of the rank (SMD.h).             *)
(*                                                                         *)
(* The controller activates optimistically.  At the ACT it asks the chips  *)
(* whether the subarray is locked (is_smd_region_busy) and queues the      *)
(* answer, ACT_NACK or ACT_PARTIAL_NACK, in pending_act_nack; the answer   *)
(* takes effect smd_act_to_nack_cycles later, at the start of a tick.  A   *)
(* chip locks the subarray its counter points at unless the controller's   *)
(* channel shows it open (retry_ref).  The model keeps, besides, which     *)
(* subarray each chip really has open: the chips that were not refreshing  *)
(* it when the ACT arrived.                                                *)
(*                                                                         *)
(* One Controller::tick is three steps: Tick (clk++, the due NACK, the     *)
(* refreshers), Sched (the partial-NACK combined policy or one command of  *)
(* the scheduler) and Arrive (a CPU read offered to enqueue).  A request   *)
(* is its subarray; all requests of a subarray name one row.               *)
(***************************************************************************)
EXTENDS Integers, Sequences, FiniteSets, Bags

CONSTANTS
    Chips,          \* chips_per_rank
    NumSAs,         \* subarrays of the bank
    QMax,           \* readq.max
    Threshold,      \* smd_partial_nack_combined_threshold
    ActToNack,      \* smd_act_to_nack_cycles (nACTtoNACK)
    NRCD, NRAS, NRP,\* DDR4 timings
    NackResend,     \* nNACK_RESEND
    MaintLatency,   \* maint_latency * row_maint_granularity
    RefInterval,    \* ref_interval of SMDFixedRateRefresh
    PendingLimit,   \* smd_pending_ref_limit
    MaxQueued       \* bound of the model: requests in the read queue

SAs == 0 .. NumSAs - 1
NoSA == -1
TCap == NRCD + NRAS + NRP + NackResend

ASSUME /\ Chips = 0 .. Cardinality(Chips) - 1
       /\ NumSAs \in Nat \ {0} /\ QMax \in Nat \ {0}
       /\ {ActToNack, NRCD, NRAS, NRP, NackResend, MaintLatency} \subseteq Nat
       /\ RefInterval > MaintLatency       \* asserted by SMDFixedRateRefresh
       /\ NRAS >= ActToNack
       /\ MaxQueued >= QMax

VARIABLES
    bankState,  \* the bank node's state: "Closed", "Opened", "PartiallyOpened"
    bankSA,     \* the subarray in its row_state (NoSA when closed)
    chipOpen,   \* the subarray each chip has open (NoSA: none)
    locked,     \* the subarray each chip's refresher has locked in the bank
    compLeft,   \* maint_completion_clk - clk of each chip's machine, 0 if idle
    saCounter,  \* sa_counter of each chip's MaintenanceCounter for the bank
    pending,    \* pending_maint of that counter
    pclk,       \* the policies' clk modulo ref_interval
    worstCase,  \* smd_worst_case_ref_distribution
    readq,      \* bag of the subarrays of the read queue's requests
    actq,       \* bag of [sa, pn]: the actq's requests, pn = partially_nacked
    nackq,      \* pending_act_nack: <<[type, sa, left]>>, left = depart - clk
    sinceACT, sincePRE, sincePartial,  \* cycles since the bank's last ACT,
                \* PRE and ACT_PARTIAL_NACK, capped at TCap
    sinceNack,  \* cycles since each subarray's last (partial) NACK
    rdSA,       \* subarray of the RD issued in this tick, NoSA if none
    phase,      \* "tick", "sched" or "cpu"
    err         \* an assertion has aborted the simulator

chipVars == <<chipOpen, locked, compLeft, saCounter, pending, pclk, worstCase>>
timeVars == <<sinceACT, sincePRE, sincePartial, sinceNack>>
vars == <<bankState, bankSA, chipVars, readq, actq, nackq, timeVars, rdSA,
          phase, err>>

Inc(t) == IF t < TCap THEN t + 1 ELSE TCap

-----------------------------------------------------------------------------
(* The chips: SMDFixedRateRefresh and its MaintenanceMachine.              *)

\* ref_interval_offset of a chip.
Offset(c) == IF worstCase THEN c * MaintLatency ELSE 0

\* MaintenancePolicy::is_SA_active through channel->get_open_SA: the
\* subarray in the bank's row_state, whether fully or partially opened.
is_SA_active_opened_only(s) == bankState = "Opened" /\ bankSA = s

is_SA_active(s) == bankState # "Closed" /\ bankSA = s

\* MaintenancePolicy::contains_locked_SA for the bank.
contains_locked_SA(c) == locked[c] # NoSA

\* SMDFixedRateRefresh::retry_ref for subarray s, the machine's lock being
\* lk: the subarray is not open in the bank and the chip holds no lock.
retry_ref(s, lk) == ~is_SA_active(s) /\ lk = NoSA

\* process_maint_act_nack: the chip's lock after it tries to start the
\* maintenance of subarray s (lockSA on success, nothing otherwise).
process_maint_act_nack(s, lk) == IF retry_ref(s, lk) THEN s ELSE lk

\* SMDFixedRateRefresh::tick of chip c after the policy clock advanced to
\* clk: the machine releases its subarray at maint_completion_clk, starts
\* the pending maintenance of its counter if retry_ref allows, then the
\* policy adds a pending maintenance every ref_interval (asserting the
\* limit).  The result: [lk, cl, ctr, pend, err].
ChipTick(c, clk) ==
    LET cl   == IF compLeft[c] > 0 THEN compLeft[c] - 1 ELSE 0
        busy == cl > 0
        lk   == IF compLeft[c] = 1 THEN NoSA ELSE locked[c]
        s    == saCounter[c]
        try  == ~busy /\ pending[c] > 0
        go   == try /\ retry_ref(s, lk)
        p    == IF go THEN pending[c] - 1 ELSE pending[c]
        add  == (clk + 1 + Offset(c)) % RefInterval = 0
    IN [lk   |-> IF try THEN process_maint_act_nack(s, lk) ELSE lk,
        cl   |-> IF go THEN MaintLatency ELSE cl,
        ctr  |-> IF go THEN (s + 1) % NumSAs ELSE s,
        pend |-> IF add THEN p + 1 ELSE p,
        err  |-> add /\ p + 1 > PendingLimit]

-----------------------------------------------------------------------------
(* The controller.                                                         *)

\* is_smd_region_busy: count the chips whose locks cover subarray s,
\* answering SOME as soon as a chip disagrees with an earlier one.
RECURSIVE RegionBusy(_, _, _)
RegionBusy(s, i, n) ==
    IF i = Cardinality(Chips)
    THEN IF n = Cardinality(Chips) THEN "ALL" ELSE "NO"
    ELSE LET n2 == n + (IF locked[i] = s THEN 1 ELSE 0)
         IN IF n2 > 0 /\ n2 <= i THEN "SOME" ELSE RegionBusy(s, i + 1, n2)

is_smd_region_busy(s) == RegionBusy(s, 0, 0)

\* get_first_cmd: DDR4's prereq tables for a RD to subarray s.
get_first_cmd(s) ==
    CASE bankState = "Closed"                        -> "ACT"
      [] bankState = "Opened" /\ bankSA = s          -> "RD"
      [] bankState = "Opened"                        -> "PRE"
      [] bankState = "PartiallyOpened" /\ bankSA = s -> "ACT"
      [] OTHER                                       -> "NOP"

\* is_ready: the timing table's constraints on the bank and subarray.
is_ready(cmd, s) ==
    CASE cmd = "ACT" -> sincePRE >= NRP /\ sinceNack[s] >= NackResend
      [] cmd = "RD"  -> sinceACT >= NRCD
      [] cmd = "PRE" -> sinceACT >= NRAS /\ sincePartial >= NRAS - ActToNack
      [] OTHER       -> FALSE

Ready(s) == is_ready(get_first_cmd(s), s)

\* The DDR4 lambda of an ACT to s, and which chips open the row: those
\* not refreshing s.
ActLambda(s) ==
    /\ bankState' = "Opened" /\ bankSA' = s
    /\ chipOpen' = [c \in Chips |-> IF locked[c] = s THEN chipOpen[c] ELSE s]
    /\ sinceACT' = 0

\* The DDR4 lambda of a PRE: the bank and every chip close.
PreLambda ==
    /\ bankState' = "Closed" /\ bankSA' = NoSA
    /\ chipOpen' = [c \in Chips |-> NoSA]
    /\ sincePRE' = 0

\* Variant of NackFor that departs one cycle late.
NackFor_late(s) ==
    CASE is_smd_region_busy(s) = "ALL"  -> << [type |-> "NACK", sa |-> s, left |-> ActToNack + 1] >>
      [] is_smd_region_busy(s) = "SOME" -> << [type |-> "PARTIAL", sa |-> s, left |-> ActToNack + 1] >>
      [] OTHER                          -> << >>

\* The NACK answer issue_cmd queues for an ACT to s, if any, departing
\* smd_act_to_nack_cycles after the ACT.
NackFor(s) ==
    CASE is_smd_region_busy(s) = "ALL"  -> << [type |-> "NACK", sa |-> s, left |-> ActToNack] >>
      [] is_smd_region_busy(s) = "SOME" -> << [type |-> "PARTIAL", sa |-> s, left |-> ActToNack] >>
      [] OTHER                          -> << >>

\* Variant of NackState that leaves a partially NACKed bank opened.
NackState_ignore_partial(n) == IF n.type = "NACK" THEN "Closed" ELSE "Opened"

\* The bank state after a due answer: ACT_NACK closes the bank,
\* ACT_PARTIAL_NACK marks it partially opened.
NackState(n) == IF n.type = "NACK" THEN "Closed" ELSE "PartiallyOpened"

\* The start of Controller::tick: clk++, the due head of pending_act_nack
\* (channel->close_row or mark_partial_act_nack, whose lambdas assert the
\* bank and its subarray opened), then the refreshers of every chip.
Tick ==
    /\ phase = "tick" /\ ~err
    /\ LET clk  == (pclk + 1) % RefInterval
           q    == [i \in 1 .. Len(nackq) |->
                      [nackq[i] EXCEPT !.left = IF @ > 0 THEN @ - 1 ELSE 0]]
           due  == q # << >> /\ q[1].left = 0
           n    == q[1]
           ct   == [c \in Chips |-> ChipTick(c, clk)]
           bad  == due /\ ~(bankState = "Opened" /\ bankSA = n.sa)
       IN /\ nackq' = IF due THEN Tail(q) ELSE q
          /\ IF due
             THEN /\ bankState' = NackState(n)
                  /\ bankSA' = IF NackState(n) = "Closed" THEN NoSA ELSE bankSA
                  /\ sinceNack' = [s \in SAs |-> IF s = n.sa THEN 0 ELSE Inc(sinceNack[s])]
                  /\ sincePartial' = IF n.type = "PARTIAL" THEN 0 ELSE Inc(sincePartial)
             ELSE /\ UNCHANGED <<bankState, bankSA>>
                  /\ sinceNack' = [s \in SAs |-> Inc(sinceNack[s])]
                  /\ sincePartial' = Inc(sincePartial)
          /\ pclk' = clk
          /\ locked' = [c \in Chips |-> ct[c].lk]
          /\ compLeft' = [c \in Chips |-> ct[c].cl]
          /\ saCounter' = [c \in Chips |-> ct[c].ctr]
          /\ pending' = [c \in Chips |-> IF ct[c].pend <= PendingLimit
                                         THEN ct[c].pend ELSE PendingLimit]
          /\ err' = (bad \/ \E c \in Chips : ct[c].err)
    /\ sinceACT' = Inc(sinceACT) /\ sincePRE' = Inc(sincePRE)
    /\ rdSA' = NoSA
    /\ phase' = "sched"
    /\ UNCHANGED <<chipOpen, worstCase, readq, actq>>

-----------------------------------------------------------------------------

\* Requests of the read queue to other subarrays of the bank.
OtherSARequests(s) == BagCardinality(readq) - CopiesIn(s, readq)

\* The partial-NACK combined policy: a partially NACKed actq request that
\* would re-ACT its open bank, with at least Threshold read requests to
\* other subarrays, has the bank precharged and goes back to the read
\* queue (with partially_nacked cleared by issue_cmd).
CombinedPre(e) ==
    /\ Threshold < QMax
    /\ BagIn(e, actq) /\ e.pn
    /\ get_first_cmd(e.sa) = "ACT" /\ bankState # "Closed"
    /\ OtherSARequests(e.sa) >= Threshold
    /\ is_ready("PRE", e.sa)
    /\ PreLambda
    /\ actq' = actq (-) SetToBag({e})
    /\ readq' = readq (+) SetToBag({e.sa})
    /\ UNCHANGED <<sinceACT, nackq, rdSA>>

\* A combined-policy PRE is attempted this tick.
CombinedApplies ==
    \E e \in BagToSet(actq) : Threshold < QMax /\ e.pn /\ get_first_cmd(e.sa) = "ACT"
                              /\ bankState # "Closed"
                              /\ OtherSARequests(e.sa) >= Threshold
                              /\ is_ready("PRE", e.sa)

\* issue_cmd of the first command of a request to s taken from queue q of
\* the scheduler ("actq" or "readq"), with e its actq entry.
Issue(s, q, e) ==
    LET cmd   == get_first_cmd(s)
        resp  == is_smd_region_busy(s)
        rest  == IF q = "actq" THEN actq (-) SetToBag({e}) ELSE actq
        restR == IF q = "readq" THEN readq (-) SetToBag({s}) ELSE readq
    IN \/ /\ cmd = "ACT"
          /\ ActLambda(s)
          /\ nackq' = nackq \o NackFor(s)
          /\ actq' = rest (+) SetToBag({[sa |-> s,
                                          pn |-> CASE resp = "SOME" -> TRUE
                                                   [] resp = "NO"   -> FALSE
                                                   [] OTHER         -> e.pn]})
          /\ readq' = restR
          /\ UNCHANGED <<sincePRE, rdSA>>
       \/ /\ cmd = "RD"
          /\ actq' = rest /\ readq' = restR
          /\ rdSA' = s
          /\ UNCHANGED <<bankState, bankSA, chipOpen, nackq, sinceACT, sincePRE>>
       \/ /\ cmd = "PRE"
          /\ PreLambda
          /\ actq' = IF q = "actq" THEN rest (+) SetToBag({[e EXCEPT !.pn = FALSE]})
                     ELSE actq
          /\ UNCHANGED <<readq, nackq, sinceACT, rdSA>>

\* The scheduling step of Controller::tick.  The combined policy first;
\* else a ready request of actq, else of the read queue.
Sched ==
    /\ phase = "sched" /\ ~err
    /\ \/ \E e \in BagToSet(actq) : CombinedPre(e)
       \/ /\ ~CombinedApplies
          /\ \E e \in BagToSet(actq) : Ready(e.sa) /\ Issue(e.sa, "actq", e)
       \/ /\ ~CombinedApplies
          /\ \A e \in BagToSet(actq) : ~Ready(e.sa)
          /\ \E s \in BagToSet(readq) :
                Ready(s) /\ Issue(s, "readq", [sa |-> s, pn |-> FALSE])
       \/ /\ ~CombinedApplies
          /\ \A e \in BagToSet(actq) : ~Ready(e.sa)
          /\ \A s \in BagToSet(readq) : ~Ready(s)
          /\ UNCHANGED <<bankState, bankSA, chipOpen, readq, actq, nackq,
                         sincePRE, sinceACT, rdSA>>
    /\ phase' = "cpu"
    /\ UNCHANGED <<locked, compLeft, saCounter, pending, pclk, worstCase,
                   sincePartial, sinceNack, err>>

\* Variant of enqueue that refuses at size >= max.
enqueue_geq(s) == IF BagCardinality(readq) >= QMax THEN readq ELSE readq (+) SetToBag({s})

\* Controller::enqueue of a read to s: refused when queue.max == size.
enqueue(s) == IF BagCardinality(readq) = QMax THEN readq ELSE readq (+) SetToBag({s})

\* Between two ticks a CPU read to some subarray may be offered.
Arrive ==
    /\ phase = "cpu"
    /\ \/ \E s \in SAs : BagCardinality(readq) < MaxQueued /\ readq' = enqueue(s)
       \/ UNCHANGED readq
    /\ phase' = "tick"
    /\ UNCHANGED <<bankState, bankSA, chipVars, actq, nackq, timeVars, rdSA, err>>

Init ==
    /\ bankState = "Closed" /\ bankSA = NoSA
    /\ chipOpen = [c \in Chips |-> NoSA]
    /\ locked = [c \in Chips |-> NoSA]
    /\ compLeft = [c \in Chips |-> 0]
    /\ worstCase \in BOOLEAN
    /\ saCounter = [c \in Chips |-> IF worstCase THEN c % NumSAs ELSE 0]
    /\ pending = [c \in Chips |-> 0]
    /\ pclk = 0
    /\ readq = EmptyBag /\ actq = EmptyBag /\ nackq = << >>
    /\ sinceACT = TCap /\ sincePRE = TCap /\ sincePartial = TCap
    /\ sinceNack = [s \in SAs |-> TCap]
    /\ rdSA = NoSA
    /\ phase = "tick"
    /\ err = FALSE

Next == Tick \/ Sched \/ Arrive

Spec == Init /\ [][Next]_vars

-----------------------------------------------------------------------------

TypeOK ==
    /\ bankState \in {"Closed", "Opened", "PartiallyOpened"}
    /\ bankSA \in SAs \cup {NoSA}
    /\ chipOpen \in [Chips -> SAs \cup {NoSA}]
    /\ locked \in [Chips -> SAs \cup {NoSA}]
    /\ compLeft \in [Chips -> 0 .. MaintLatency]
    /\ saCounter \in [Chips -> SAs]
    /\ pending \in [Chips -> 0 .. PendingLimit]
    /\ IsABag(readq) /\ BagToSet(readq) \subseteq SAs
    /\ BagCardinality(readq) <= MaxQueued + 1
    /\ IsABag(actq) /\ BagToSet(actq) \subseteq [sa : SAs, pn : BOOLEAN]
    /\ nackq \in Seq([type : {"NACK", "PARTIAL"}, sa : SAs, left : 0 .. ActToNack])
    /\ rdSA \in SAs \cup {NoSA}
    /\ phase \in {"tick", "sched", "cpu"}

\* A RD reaches only a subarray that every chip has open and none is
\* refreshing: the controller's bank state, corrected by the NACKs that
\* arrive after the ACT, matches the chips (spec, "a locked subarray must
\* never be activated"; the PartiallyOpened state of DDR4.cpp).
ReadsHitOpenRows ==
    rdSA # NoSA => \A c \in Chips : chipOpen[c] = rdSA /\ locked[c] # rdSA

\* No chip refreshes a subarray it holds open: retry_ref's is_SA_active
\* check, made on the controller's view, keeps the chips' locks and open
\* rows apart through partial NACKs, re-ACTs and combined-policy PREs.
NoLockedOpen == \A c \in Chips : locked[c] = NoSA \/ chipOpen[c] # locked[c]

\* The read queue never holds more than readq.max requests (Controller::
\* enqueue refuses a request when the queue is full).
ReadQueueWithinMax == BagCardinality(readq) <= QMax

====
