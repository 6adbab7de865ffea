------------------------------ MODULE SMDLocks ------------------------------
(***************************************************************************)
(* The maintenance policies of one SMD chip sharing its locked_SAs table   *)
(* (SMD.h): the refresher (SMDFixedRateRefresh or SMDVariableRefresh), the *)
(* ECC scrubber (SMDECCScrubbing) and the RowHammer protector              *)
(* (SMDRowHammerProtection with its NeighborRowRefreshMachine).  Each      *)
(* policy has one machine.  In one Controller::tick the controller first   *)
(* serves a REF_STATUS_QUERY answer ("serve", RSQ mode), then the policies *)
(* tick in the order refreshers, scrubbers, RowHammer protectors, then the *)
(* controller issues a command ("sched").  The controller is abstracted to *)
(* the row it opens or closes and, in ACT_NACK mode, the activations it    *)
(* reports to the RowHammer protector.                                     *)
(***************************************************************************)
EXTENDS Integers, Sequences, FiniteSets

CONSTANTS
    Banks,            \* global bank ids 0..n-1 of the chip
    NumSAs,           \* subarrays per bank
    Rows,             \* row ids an activation may name
    Policies,         \* the enabled policies among "ref", "scrub", "rh"
    Mode,             \* smd_mode: "RSQ" or "ACT_NACK"
    VariableRefresh,  \* the refresher is SMDVariableRefresh
    ScrubLockBank,    \* smd_scrubbing_lock_region = "bank"
    RefInterval,      \* ref_interval of the refresher
    ScrubInterval,    \* scrub_interval of the scrubber
    RefLatency,       \* maint_latency * row_maint_granularity per policy
    ScrubLatency,
    RHLatency,
    Timeout,          \* ref_tracker_timeout_period
    PendingLimit,     \* smd_pending_ref_limit
    RHQueueSize       \* smd_rh_protection_neighbor_ref_queue_size

SAs == 0 .. NumSAs - 1
NoSA == -1
CtrPolicies == Policies \cap {"ref", "scrub"}
Period == RefInterval * ScrubInterval
RowAddr == [bank : Banks, sa : SAs, row : Rows]

ASSUME /\ Banks = 0 .. Cardinality(Banks) - 1
       /\ "ref" \in Policies /\ Policies \subseteq {"ref", "scrub", "rh"}
       /\ Mode \in {"RSQ", "ACT_NACK"}
       \* process_row_activation is called only in ACT_NACK mode
       /\ "rh" \in Policies => Mode = "ACT_NACK"
       /\ RefInterval > RefLatency /\ ScrubInterval > ScrubLatency

VARIABLES
    phase,       \* "serve", a policy of Policies, or "sched"
    locked,      \* SALock.locked of each bank
    lockedSA,    \* SALock.sa_id
    bankLocked,  \* SALock.bank_locked
    cooldown,    \* cooldown_exp - clk, 0 once expired
    compLeft,    \* maint_completion_clk - clk of each policy's machine
    lastLocked,  \* last_locked_SA of each machine: bank and subarray
    ctrIndex,    \* ctr_index of the refresh and scrub machines
    saCounter,   \* sa_counter of their MaintenanceCounters
    pendingMaint,\* pending_maint of their MaintenanceCounters
    rhQueue,     \* pending_neighbor_refs of the NeighborRowRefreshMachine
    openSA,      \* channel->get_open_SA of each bank
    ph,          \* the policies' clk modulo Period
    err          \* the assertion that aborted the simulator, or "none"

lockVars == <<locked, lockedSA, bankLocked, cooldown>>
machVars == <<compLeft, lastLocked, ctrIndex, saCounter, pendingMaint, rhQueue>>
vars == <<phase, lockVars, machVars, openSA, ph, err>>

-----------------------------------------------------------------------------
(* MaintenancePolicy: the shared SALock of a bank.                         *)

\* The remaining cooldown once the policy clock has advanced in this tick.
CooldownNow(b) == IF cooldown[b] > 0 THEN cooldown[b] - 1 ELSE 0

is_on_cooldown(b) == CooldownNow(b) > 0
is_SA_active(b, s) == openSA[b] = s
contains_locked_SA(b) == locked[b]
is_SA_under_maintenance(b, s) == (locked[b] /\ lockedSA[b] = s) \/ bankLocked[b]

\* The policies in the order Controller::tick runs them.
Order == SelectSeq(<<"ref", "scrub", "rh">>, LAMBDA p : p \in Policies)
PhaseAfter(p) ==
    LET i == CHOOSE j \in 1 .. Len(Order) : Order[j] = p
    IN IF i = Len(Order) THEN "sched" ELSE Order[i + 1]

\* maint_latency * row_maint_granularity of a policy.
Latency(p) == CASE p = "ref" -> RefLatency
              []   p = "scrub" -> ScrubLatency
              []   p = "rh" -> RHLatency

\* lock_entire_bank of a policy.
LocksWholeBank(p) == p = "scrub" /\ ScrubLockBank

\* Variant of increment that never wraps the subarray counter.
increment_without_wrap(s) == s + 1

\* MaintenanceCounter::increment of the subarray counter (rows abstracted).
increment(s) == IF s = NumSAs - 1 THEN 0 ELSE s + 1

\* The interval at which the policy adds a pending operation to every counter.
Interval(p) == IF p = "ref" THEN RefInterval ELSE ScrubInterval

\* (clk + 1) % interval == 0 for the policy clock of this tick, ph + 1.
add_pending_maint(p) == ((ph + 1) + 1) % Interval(p) = 0

-----------------------------------------------------------------------------
(* MaintenanceMachine::tick: release, then process the next counter.       *)

NoLk == [bank |-> -1, sa |-> NoSA]
NoFault == err = "none"

\* maint_completion_clk > clk: the machine is still maintaining.
Busy(p) == compLeft[p] > 1

\* maint_completion_clk == clk: releaseSA of last_locked_SA in this tick.
Releases(p) == compLeft[p] = 1

\* The assertions of releaseSA: the released subarray is the locked one.
releaseSA_ok(p) ==
    LET ll == lastLocked[p] IN locked[ll.bank] /\ lockedSA[ll.bank] = ll.sa

LockedAfterRelease(p) ==
    IF Releases(p) THEN [locked EXCEPT ![lastLocked[p].bank] = FALSE] ELSE locked

BankLockedAfterRelease(p) ==
    IF Releases(p) THEN [bankLocked EXCEPT ![lastLocked[p].bank] = FALSE]
    ELSE bankLocked

\* The assertions of lockSA: no lock in the bank and its cooldown expired.
lockSA_ok(p, b) == ~LockedAfterRelease(p)[b] /\ ~is_on_cooldown(b)

\* process_ref_rsq: the machine may lock unless the bank is on cooldown or
\* the subarray has an open row.
process_ref_rsq(b, s) == ~is_on_cooldown(b) /\ ~is_SA_active(b, s)

\* Variant of retry_ref without the contains_locked_SA test.
retry_ref_ignoring_locks(p, b, s) == ~is_SA_active(b, s)

\* retry_ref (and retry_var_ref): in ACT_NACK mode a machine locks only a
\* subarray without an open row in a bank that no policy has locked.
retry_ref(p, b, s) == ~is_SA_active(b, s) /\ ~LockedAfterRelease(p)[b]

\* The results the process function of machine p may have for subarray s of
\* bank b: "lock", "fail" (nothing locked, maint_completion_clk = 0), or
\* "skip" for SMDVariableRefresh when the Bloom filter reports no weak row
\* among the rows due and the operation counts as done without a lock.
Outcomes(p, b, s) ==
    IF Mode = "RSQ"
    THEN {IF process_ref_rsq(b, s) THEN "lock" ELSE "fail"}
    ELSE {IF retry_ref(p, b, s) THEN "lock" ELSE "fail"}
         \cup (IF p = "ref" /\ VariableRefresh THEN {"skip"} ELSE {})

\* The shared lock table and the machine after its releaseSA and, unless lk
\* is NoLk, its lockSA of lk.
LockStep(p, lk) ==
    /\ locked' = IF lk = NoLk THEN LockedAfterRelease(p)
                 ELSE [LockedAfterRelease(p) EXCEPT ![lk.bank] = TRUE]
    /\ lockedSA' = IF lk = NoLk THEN lockedSA ELSE [lockedSA EXCEPT ![lk.bank] = lk.sa]
    /\ bankLocked' = IF lk = NoLk THEN BankLockedAfterRelease(p)
                     ELSE [BankLockedAfterRelease(p) EXCEPT ![lk.bank] = LocksWholeBank(p)]
    /\ lastLocked' = IF lk = NoLk THEN lastLocked ELSE [lastLocked EXCEPT ![p] = lk]
    /\ compLeft' = [compLeft EXCEPT ![p] = IF lk = NoLk THEN 0 ELSE Latency(p)]

\* The first assertion the step trips, or "none".
LockErr(p, lk) ==
    CASE Releases(p) /\ ~releaseSA_ok(p) -> "releaseSA"
      [] lk # NoLk /\ ~lockSA_ok(p, lk.bank) -> "lockSA"
      [] OTHER -> "none"

\* pending_maint of the policy's counters after the machine retired one for
\* bank done (or none) and add_pending_maint ran.
NewPending(p, done) ==
    [c \in Banks |-> pendingMaint[p][c] - (IF c = done THEN 1 ELSE 0)
                                        + (IF add_pending_maint(p) THEN 1 ELSE 0)]

\* One tick of the refresher or the scrubber: clk++, the machine's tick, then
\* add_pending_maint on every counter when the interval elapsed.  The machine
\* takes the counter at ctr_index and advances ctr_index; with a pending
\* operation it runs the mode's process function and, unless it failed,
\* advances the counter's subarray and retires the operation.
CounterTick(p) ==
    /\ NoFault /\ phase = p /\ p \in CtrPolicies
    /\ \/ /\ Busy(p)
          /\ compLeft' = [compLeft EXCEPT ![p] = @ - 1]
          /\ pendingMaint' = [pendingMaint EXCEPT ![p] = NewPending(p, -1)]
          /\ err' = IF \E c \in Banks : NewPending(p, -1)[c] > PendingLimit
                    THEN "pending_maint_limit" ELSE err
          /\ UNCHANGED <<lockVars, lastLocked, ctrIndex, saCounter>>
       \/ /\ ~Busy(p)
          /\ LET b == ctrIndex[p]
                 s == saCounter[p][b]
             IN \E o \in IF pendingMaint[p][b] = 0 THEN {"fail"} ELSE Outcomes(p, b, s) :
                  LET lk == IF o = "lock" THEN [bank |-> b, sa |-> s] ELSE NoLk
                      done == IF o = "fail" THEN -1 ELSE b
                  IN /\ LockStep(p, lk)
                     /\ ctrIndex' = [ctrIndex EXCEPT ![p] = (b + 1) % Cardinality(Banks)]
                     /\ saCounter' = IF done = -1 THEN saCounter
                                     ELSE [saCounter EXCEPT ![p][b] = increment(s)]
                     /\ pendingMaint' = [pendingMaint EXCEPT ![p] = NewPending(p, done)]
                     /\ err' = IF LockErr(p, lk) # "none" THEN LockErr(p, lk)
                               ELSE IF \E c \in Banks : NewPending(p, done)[c] > PendingLimit
                               THEN "pending_maint_limit" ELSE err
          /\ UNCHANGED cooldown
    /\ phase' = PhaseAfter(p)
    /\ UNCHANGED <<rhQueue, openSA, ph>>

\* One tick of the RowHammer protector: clk++ (the Bloom filter swap and the
\* Graphene reset change no lock), then NeighborRowRefreshMachine::tick.  It
\* takes the oldest queued aggressor row and, if it can lock the row's
\* subarray, dequeues it.
RHTick ==
    /\ NoFault /\ phase = "rh"
    /\ \/ /\ Busy("rh")
          /\ compLeft' = [compLeft EXCEPT !["rh"] = @ - 1]
          /\ UNCHANGED <<lockVars, lastLocked, rhQueue, err>>
       \/ /\ ~Busy("rh")
          /\ rhQueue = <<>>
          /\ LockStep("rh", NoLk)
          /\ err' = IF LockErr("rh", NoLk) # "none" THEN LockErr("rh", NoLk) ELSE err
          /\ UNCHANGED <<cooldown, rhQueue>>
       \/ /\ ~Busy("rh")
          /\ rhQueue # <<>>
          /\ LET h == Head(rhQueue)
                 ok == retry_ref("rh", h.bank, h.sa)
                 lk == IF ok THEN [bank |-> h.bank, sa |-> h.sa] ELSE NoLk
             IN /\ LockStep("rh", lk)
                /\ rhQueue' = IF ok THEN Tail(rhQueue) ELSE rhQueue
                /\ err' = IF LockErr("rh", lk) # "none" THEN LockErr("rh", lk) ELSE err
          /\ UNCHANGED cooldown
    /\ phase' = PhaseAfter("rh")
    /\ UNCHANGED <<ctrIndex, saCounter, pendingMaint, openSA, ph>>

-----------------------------------------------------------------------------
(* The controller around the chip.                                         *)

\* Step 1 of Controller::tick in RSQ mode: a REF_STATUS_QUERY answer for bank
\* b is served.  For every chip the refresher's communicate_locked_SAs runs
\* and, with ECC scrubbing enabled, the scrubber's as well; both start the
\* cooldown of the same shared SALock and assert that it had expired.  The
\* refresh tracker queries a bank only after its cooldown expired.
Serve ==
    /\ NoFault /\ phase = "serve"
    /\ \/ UNCHANGED <<cooldown, err>>
       \/ /\ Mode = "RSQ"
          /\ \E b \in Banks :
                /\ cooldown[b] = 0
                /\ cooldown' = [cooldown EXCEPT ![b] = Timeout]
                /\ err' = IF "scrub" \in Policies /\ Timeout > 0
                          THEN "communicate_locked_SAs" ELSE err
    /\ phase' = Order[1]
    /\ UNCHANGED <<locked, lockedSA, bankLocked, machVars, openSA, ph>>

\* NeighborRowRefreshMachine::add_pending_maint of an aggressor row: a row
\* already queued is not queued again; otherwise pending_maint grows and the
\* limit assertion of MaintenanceMachine::add_pending_maint applies.
add_neighbor_ref(ra) ==
    IF \E i \in 1 .. Len(rhQueue) : rhQueue[i] = ra
    THEN UNCHANGED <<rhQueue, err>>
    ELSE /\ rhQueue' = Append(rhQueue, ra)
         /\ err' = IF Len(rhQueue) + 1 > RHQueueSize THEN "pending_maint_limit" ELSE err

\* An ACT issued to subarray s of bank b.  In ACT_NACK mode, when
\* is_smd_region_busy finds the subarray free, every chip's RowHammer
\* protector sees the activation; whether it queues a neighbor refresh
\* (PARA's coin, the counting Bloom filter, the Graphene table) is a choice.
\* A NACKed ACT leaves the row open until its ACT_NACK is served.
Activate(b, s, r) ==
    /\ openSA[b] = NoSA
    /\ openSA' = [openSA EXCEPT ![b] = s]
    /\ IF "rh" \in Policies /\ ~is_SA_under_maintenance(b, s)
       THEN \/ add_neighbor_ref([bank |-> b, sa |-> s, row |-> r])
            \/ UNCHANGED <<rhQueue, err>>
       ELSE UNCHANGED <<rhQueue, err>>

\* A PRE, or the close_row of a served ACT_NACK.
Precharge(b) ==
    /\ openSA[b] # NoSA
    /\ openSA' = [openSA EXCEPT ![b] = NoSA]
    /\ UNCHANGED <<rhQueue, err>>

\* The scheduling step of Controller::tick, after every policy ticked.  The
\* policies' clock has advanced by one.
Sched ==
    /\ NoFault /\ phase = "sched"
    /\ \/ UNCHANGED <<openSA, rhQueue, err>>
       \/ \E b \in Banks, s \in SAs, r \in Rows : Activate(b, s, r)
       \/ \E b \in Banks : Precharge(b)
    /\ cooldown' = [b \in Banks |-> CooldownNow(b)]
    /\ ph' = (ph + 1) % Period
    /\ phase' = "serve"
    /\ UNCHANGED <<locked, lockedSA, bankLocked, compLeft, lastLocked, ctrIndex,
                   saCounter, pendingMaint>>

-----------------------------------------------------------------------------

\* The constructors: SALock defaults, idle machines at counter 0, the
\* refresh counters at subarray 0 and the scrub counters at SAs_per_bank/2.
Init ==
    /\ phase = "serve"
    /\ locked = [b \in Banks |-> FALSE]
    /\ lockedSA = [b \in Banks |-> 0]
    /\ bankLocked = [b \in Banks |-> FALSE]
    /\ cooldown = [b \in Banks |-> 0]
    /\ compLeft = [p \in Policies |-> 0]
    /\ lastLocked = [p \in Policies |-> [bank |-> 0, sa |-> 0]]
    /\ ctrIndex = [p \in CtrPolicies |-> 0]
    /\ saCounter = [p \in CtrPolicies |->
                      [b \in Banks |-> IF p = "scrub" THEN NumSAs \div 2 ELSE 0]]
    /\ pendingMaint = [p \in CtrPolicies |-> [b \in Banks |-> 0]]
    /\ rhQueue = <<>>
    /\ openSA = [b \in Banks |-> NoSA]
    /\ ph = 0
    /\ err = "none"

Next ==
    \/ Serve
    \/ \E p \in CtrPolicies : CounterTick(p)
    \/ RHTick
    \/ Sched

Spec == Init /\ [][Next]_vars

-----------------------------------------------------------------------------
(* Properties                                                              *)

TypeOK ==
    /\ phase \in {"serve", "sched"} \cup Policies
    /\ locked \in [Banks -> BOOLEAN]
    /\ lockedSA \in [Banks -> SAs]
    /\ bankLocked \in [Banks -> BOOLEAN]
    /\ cooldown \in [Banks -> 0 .. Timeout]
    /\ compLeft \in [Policies -> 0 .. RefLatency + ScrubLatency + RHLatency]
    /\ lastLocked \in [Policies -> [bank : Banks, sa : SAs]]
    /\ ctrIndex \in [CtrPolicies -> Banks]
    /\ saCounter \in [CtrPolicies -> [Banks -> SAs]]
    /\ pendingMaint \in [CtrPolicies -> [Banks -> 0 .. PendingLimit + 1]]
    /\ rhQueue \in Seq(RowAddr) /\ Len(rhQueue) <= RHQueueSize + 1
    /\ openSA \in [Banks -> SAs \cup {NoSA}]
    /\ ph \in 0 .. Period - 1
    /\ err \in {"none", "releaseSA", "lockSA", "communicate_locked_SAs",
                "pending_maint_limit"}

\* Machine p holds bank b from its lockSA until the releaseSA at
\* maint_completion_clk.
Holds(p, b) == compLeft[p] >= 1 /\ lastLocked[p].bank = b

Abs == INSTANCE MaintLock WITH
           holders <- [b \in Banks |-> {p \in Policies : Holds(p, b)}],
           heldSA <- lockedSA, wholeBank <- bankLocked

\* Every step of the policies and the controller is a step of MaintLock:
\* no policy locks a bank another policy holds or a subarray with an open
\* row, and a lock ends only with its holder's release.
MaintLockSpec == Abs!Spec

\* The assertion in communicate_locked_SAs: a status answer never finds the
\* bank's cooldown running.
CommunicateAfterCooldown == err # "communicate_locked_SAs"

====
