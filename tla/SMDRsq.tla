------------------------------- MODULE SMDRsq -------------------------------
(***************************************************************************)
(* Self-Managing DRAM in RSQ (refresh status query) mode, one rank of one  *)
(* channel.  Every chip runs an SMDFixedRateRefresh policy whose           *)
(* MaintenanceMachines lock subarrays on their own (SMD.h); the memory     *)
(* controller learns of the locks only through REF_STATUS_QUERY responses  *)
(* that it records in its SMDTracker, and it may ACT a subarray only when  *)
(* the tracker entry of the bank is fresh and names no lock on it          *)
(* (Controller.h).                                                         *)
(*                                                                         *)
(* One Controller::tick is split into its three phases, in the code's     *)
(* order: "Serve" (clk++ and retire the head of `pending`), "Maint" (every *)
(* chip's policy ticks) and "Sched" (one command is chosen and issued).    *)
(* Absolute clocks are kept relative: the tracker stores the age of an     *)
(* entry, a lock its remaining cooldown, a machine its remaining busy     *)
(* cycles; all of them saturate where the code stops telling values apart. *)
(* DRAM timing (channel->check) is a nondeterministic yes/no.              *)
(***************************************************************************)
EXTENDS Integers, FiniteSets, Sequences, Bags

CONSTANTS
    Chips,               \* chip ids 0..chips_per_rank-1 of the rank
    Banks,               \* global bank ids 0..n-1
    NumSAs,              \* subarrays per bank
    Rows,                \* row ids of a subarray that requests may name
    NumMachines,         \* smd_num_ref_machines
    RefInterval,         \* SMDFixedRateRefresh::ref_interval
    Timeout,             \* ref_tracker_timeout_period
    MaintLatency,        \* maint_latency * row_maint_granularity
    ReadLatency,         \* channel->spec->read_latency
    PendingLimit,        \* pending_maint_limit
    MaxRowOpenIntervals, \* smd_max_row_open_intervals
    RowPolicy,           \* "opened" (the default) or "timeout"
    RowTimeout,          \* timeout_row_policy_threshold
    WorstCase,           \* smd_worst_case_ref_distribution
    QueueMax,            \* readq.max
    MaxReqs              \* bound: requests the client keeps outstanding

SAs == 0 .. NumSAs - 1
NoSA == -1
ForceLimit == Timeout * MaxRowOpenIntervals
AgeCap == IF ForceLimit > RowTimeout THEN ForceLimit + 1 ELSE RowTimeout + 1
CountersPerMachine == Cardinality(Banks) \div NumMachines
Machines == 0 .. NumMachines - 1

ASSUME /\ Chips = 0 .. Cardinality(Chips) - 1
       /\ Banks = 0 .. Cardinality(Banks) - 1
       /\ Cardinality(Banks) % NumMachines = 0          \* SMD.h:748
       /\ RefInterval > MaintLatency                     \* SMD.h:732
       /\ Timeout \in 1 .. RefInterval
       /\ RowPolicy \in {"opened", "timeout"}

Req == [bank : Banks, sa : SAs, row : Rows]
NoRow == [sa |-> NoSA, row |-> NoSA]
Asserts == {"none", "communicate_locked_SAs", "lockSA", "releaseSA",
            "pending_maint_limit"}

VARIABLES
    phase,        \* which part of Controller::tick runs next
    readq,        \* bag of READ requests waiting for their first command
    actq,         \* bag of requests whose row was activated
    open,         \* per bank: the open subarray and row, or NoRow
    openAge,      \* per bank: cycles the row has been open (RowTable)
    pending,      \* READ and REF_STATUS_QUERY responses: kind, bank, cycles to depart
    trackerBusy,  \* SMDTracker maint_status[chip].entries[bank].busy_SAs
    trackerAge,   \* clk - last_update_clk[bank], Timeout+1 when timed out
    inflight,     \* SMDTracker inflight_reqs[bank]
    locked,       \* SALock.locked of locked_SAs[chip][bank]
    lockedSA,     \* SALock.sa_id
    cooldown,     \* SALock.cooldown_exp - policy clk, 0 once expired
    compLeft,     \* maint_completion_clk - policy clk, 0 when idle
    lastLocked,   \* MaintenanceMachine::last_locked_SA (bank, sa)
    ctrIndex,     \* MaintenanceMachine::ctr_index
    saCounter,    \* MaintenanceCounter::sa_counter of chip, bank
    pendingMaint, \* MaintenanceCounter::pending_maint of chip, bank
    ph,           \* policy clk mod ref_interval
    err           \* the first assertion of SMD.h that failed, or "none"

ctrlVars == <<readq, actq, open, openAge>>
trackVars == <<pending, trackerBusy, trackerAge, inflight>>
chipVars == <<locked, lockedSA, cooldown, compLeft, lastLocked, ctrIndex,
              saCounter, pendingMaint, ph>>
vars == <<phase, err, ctrlVars, trackVars, chipVars>>

-----------------------------------------------------------------------------
(* SMDTracker (SMD.h), the controller's view of the chips.                 *)

\* A bank's entry is stale when it was never updated or is older than the
\* timeout period.
is_bank_timed_out(b) == trackerAge[b] > Timeout

\* 1: may ACT; -1: entry timed out; -2: some chip reports the subarray busy.
can_access_SA(b, s) ==
    IF is_bank_timed_out(b) THEN -1
    ELSE IF \E c \in Chips : s \in trackerBusy[c][b] THEN -2
    ELSE 1

\* SMDTracker::can_open: the subarray of a request's bank, asked of
\* can_access_SA at the controller's clock.
can_open(b, s) == can_access_SA(b, s)

\* Banks named by a request of actq or readq.
get_reqbuffer_banks == {r.bank : r \in BagToSet(actq) \cup BagToSet(readq)}

\* Variant of find_bank_to_query without the exists_inflight_req test.
find_bank_to_query_ignoring_inflight ==
    {b \in get_reqbuffer_banks : is_bank_timed_out(b)}

\* The banks find_bank_to_query may return: it scans an unordered_set and
\* returns the first bank that is timed out and has no query in flight.
find_bank_to_query ==
    {b \in get_reqbuffer_banks : is_bank_timed_out(b) /\ ~inflight[b]}

\* smd_query_ref_status(rank, cmd): if the RSQ timing check passes and a bank
\* qualifies, a REF_STATUS_QUERY departs after read_latency and the bank is
\* marked in flight.  The first disjunct is the failed timing check or the
\* -2 "no bank needs an update" return.
smd_query_ref_status ==
    \/ UNCHANGED <<pending, inflight>>
    \/ \E b \in find_bank_to_query :
          /\ pending' = Append(pending, [kind |-> "RSQ", bank |-> b, left |-> ReadLatency])
          /\ inflight' = [inflight EXCEPT ![b] = TRUE]

-----------------------------------------------------------------------------
(* MaintenancePolicy and MaintenanceMachine (SMD.h) as one policy tick.    *)

\* Bank of counter i of machine m: banks are dealt out as bank % machines.
CounterBank(m, i) == m + i * NumMachines
MachineOf(b) == b % NumMachines

\* The cooldown remaining after the policy clock advanced.
CooldownNow(c, b) == IF cooldown[c][b] > 0 THEN cooldown[c][b] - 1 ELSE 0

\* Variant of is_on_cooldown for a machine that never checks the cooldown.
is_on_cooldown_unchecked(c, b) == FALSE

\* is_on_cooldown(bank), evaluated at the advanced policy clock.
is_on_cooldown(c, b) == CooldownNow(c, b) > 0

\* is_SA_active: channel->get_open_SA(rank, bank) == sa.
is_SA_active(b, s) == open[b].sa = s

\* The machine is still busy after the clock advanced.
Busy(c, m) == compLeft[c][m] > 1

\* maint_completion_clk == clk: the machine releases last_locked_SA now.
Releases(c, m) == compLeft[c][m] = 1

CurBank(c, m) == CounterBank(m, ctrIndex[c][m])

\* process_ref_rsq succeeds: pending work, no cooldown, subarray not open.
process_ref_rsq(c, m) ==
    LET b == CurBank(c, m) IN
    /\ ~Busy(c, m)
    /\ pendingMaint[c][b] > 0
    /\ ~is_on_cooldown(c, b)
    /\ ~is_SA_active(b, saCounter[c][b])

\* The lock of bank b after this tick's releaseSA, before any lockSA.
LockedAfterRelease(c, b) ==
    locked[c][b] /\ ~(Releases(c, MachineOf(b))
                      /\ lastLocked[c][MachineOf(b)].bank = b)

\* Machine m of chip c locks bank b in this tick.
LocksBank(c, m, b) == process_ref_rsq(c, m) /\ CurBank(c, m) = b

\* Variant of increment that never wraps the subarray counter.
increment_without_wrap(s) == s + 1

\* MaintenanceCounter::increment of the subarray counter (rows abstracted).
increment(s) == IF s = NumSAs - 1 THEN 0 ELSE s + 1

\* The offset of a chip's refresh schedule in the worst-case distribution.
Offset(c) == IF WorstCase THEN c * MaintLatency ELSE 0

\* SMDFixedRateRefresh::tick adds a pending refresh to every counter when
\* (clk + 1 + offset) % ref_interval == 0 for the advanced clock.
add_pending_maint(c) == ((ph + 1) + 1 + Offset(c)) % RefInterval = 0

\* The assertions of releaseSA: the released subarray is the locked one.
releaseSA_ok(c, m) ==
    LET ll == lastLocked[c][m] IN locked[c][ll.bank] /\ lockedSA[c][ll.bank] = ll.sa

\* The assertions of lockSA: the bank holds no lock and is off cooldown.
lockSA_ok(c, b) == ~LockedAfterRelease(c, b) /\ ~is_on_cooldown(c, b)

\* pending_maint of a counter after the machine tick and add_pending_maint.
NewPending(c, b) ==
    pendingMaint[c][b] - (IF LocksBank(c, MachineOf(b), b) THEN 1 ELSE 0)
                       + (IF add_pending_maint(c) THEN 1 ELSE 0)

\* communicate_locked_SAs(bank): the locked subarray, if any.
communicate_locked_SAs(c, b) == IF locked[c][b] THEN {lockedSA[c][b]} ELSE {}

\* SMDTracker::update in RSQ mode, for a REF_STATUS_QUERY of bank b: each
\* chip's busy_SAs entry for b takes what the chip communicates.  (The
\* last_update_clk = clk half is trackerAge[b] = 0 in ServePending.)
update(b) == [c \in Chips |-> [trackerBusy[c] EXCEPT ![b] = communicate_locked_SAs(c, b)]]

-----------------------------------------------------------------------------
(* The DRAM device (DDR4.cpp) as far as the controller decides on it.      *)

\* decode through the prereq table: a closed bank needs ACT, the open row is
\* read, and any other open row or subarray of the bank needs PRE first.
get_first_cmd(r) ==
    IF open[r.bank] = NoRow THEN "ACT"
    ELSE IF open[r.bank] = [sa |-> r.sa, row |-> r.row] THEN "RD"
    ELSE "PRE"

\* The ACT and PRE/RDA lambdas of the bank and subarray levels.
Opened(r) == [open EXCEPT ![r.bank] = [sa |-> r.sa, row |-> r.row]]
Closed(b) == [open EXCEPT ![b] = NoRow]

-----------------------------------------------------------------------------
(* Controller::tick                                                        *)

NoFault == err = "none"

\* Controller::enqueue of a READ between two ticks; fails when readq is full.
enqueue ==
    /\ NoFault /\ phase = "Serve"
    /\ BagCardinality(readq) < QueueMax
    /\ BagCardinality(readq) + BagCardinality(actq) < MaxReqs
    /\ \E r \in Req : readq' = readq (+) SetToBag({r})
    /\ UNCHANGED <<phase, err, actq, open, openAge, trackVars, chipVars>>

\* Decrement of the cycles to departure of every pending response.
Advance(q) == [i \in DOMAIN q |->
                 [q[i] EXCEPT !.left = IF @ > 0 THEN @ - 1 ELSE 0]]

\* Step 1 of Controller::tick: clk++, then the head of pending is retired if
\* it is due.  For a REF_STATUS_QUERY every chip's refresher communicates the
\* locked subarray of the bank (and starts its cooldown), the tracker takes
\* the answer with last_update_clk = clk, and the in-flight mark is cleared.
ServePending ==
    /\ NoFault /\ phase = "Serve"
    /\ LET aged == [b \in Banks |-> IF trackerAge[b] > Timeout THEN Timeout + 1
                                    ELSE trackerAge[b] + 1]
           q == Advance(pending)
       IN IF q # <<>> /\ Head(q).left = 0 /\ Head(q).kind = "RSQ"
          THEN LET b == Head(q).bank IN
               /\ trackerBusy' = update(b)
               /\ cooldown' = [c \in Chips |-> [cooldown[c] EXCEPT ![b] = Timeout]]
               /\ err' = IF \E c \in Chips : cooldown[c][b] > 0
                         THEN "communicate_locked_SAs" ELSE err
               /\ trackerAge' = [aged EXCEPT ![b] = 0]
               /\ inflight' = [inflight EXCEPT ![b] = FALSE]
               /\ pending' = Tail(q)
          ELSE /\ trackerAge' = aged
               /\ pending' = IF q # <<>> /\ Head(q).left = 0 THEN Tail(q) ELSE q
               /\ UNCHANGED <<trackerBusy, cooldown, err, inflight>>
    /\ openAge' = [b \in Banks |-> IF open[b] = NoRow THEN 0
                                   ELSE IF openAge[b] < AgeCap THEN openAge[b] + 1
                                   ELSE AgeCap]
    /\ phase' = "Maint"
    /\ UNCHANGED <<readq, actq, open, locked, lockedSA, compLeft, lastLocked,
                   ctrIndex, saCounter, pendingMaint, ph>>

\* Step 2.5: every chip's SMDFixedRateRefresh::tick.  The policy clock
\* advances, every MaintenanceMachine::tick releases a finished lock, looks at
\* its next counter and, if process_ref_rsq succeeds, locks the counter's
\* subarray for maint_latency cycles and advances the counter; then every
\* counter gets a pending refresh if the refresh interval elapsed.
MaintTick ==
    /\ NoFault /\ phase = "Maint"
    /\ locked' = [c \in Chips |-> [b \in Banks |->
                    LocksBank(c, MachineOf(b), b) \/ LockedAfterRelease(c, b)]]
    /\ lockedSA' = [c \in Chips |-> [b \in Banks |->
                    IF LocksBank(c, MachineOf(b), b) THEN saCounter[c][b]
                    ELSE lockedSA[c][b]]]
    /\ cooldown' = [c \in Chips |-> [b \in Banks |-> CooldownNow(c, b)]]
    /\ compLeft' = [c \in Chips |-> [m \in Machines |->
                    IF Busy(c, m) THEN compLeft[c][m] - 1
                    ELSE IF process_ref_rsq(c, m) THEN MaintLatency ELSE 0]]
    /\ lastLocked' = [c \in Chips |-> [m \in Machines |->
                    IF process_ref_rsq(c, m)
                    THEN [bank |-> CurBank(c, m), sa |-> saCounter[c][CurBank(c, m)]]
                    ELSE lastLocked[c][m]]]
    /\ ctrIndex' = [c \in Chips |-> [m \in Machines |->
                    IF Busy(c, m) THEN ctrIndex[c][m]
                    ELSE (ctrIndex[c][m] + 1) % CountersPerMachine]]
    /\ saCounter' = [c \in Chips |-> [b \in Banks |->
                    IF LocksBank(c, MachineOf(b), b) THEN increment(saCounter[c][b])
                    ELSE saCounter[c][b]]]
    /\ pendingMaint' = [c \in Chips |-> [b \in Banks |-> NewPending(c, b)]]
    /\ ph' = (ph + 1) % RefInterval
    /\ err' = IF \E c \in Chips, m \in Machines :
                   Releases(c, m) /\ ~releaseSA_ok(c, m) THEN "releaseSA"
              ELSE IF \E c \in Chips, b \in Banks :
                   LocksBank(c, MachineOf(b), b) /\ ~lockSA_ok(c, b) THEN "lockSA"
              ELSE IF \E c \in Chips, b \in Banks : NewPending(c, b) > PendingLimit
                   THEN "pending_maint_limit"
              ELSE err
    /\ phase' = "Sched"
    /\ UNCHANGED <<ctrlVars, trackVars>>

\* Step 4: a request whose first command is ACT is ready when the timing
\* check passes (any outcome) and, in RSQ mode, the tracker allows the
\* subarray (is_ready).  Issuing it opens the row and moves the request from
\* its queue to actq.
IssueACT ==
    /\ NoFault /\ phase = "Sched"
    /\ \E r \in BagToSet(readq) \cup BagToSet(actq) :
          /\ get_first_cmd(r) = "ACT"
          /\ can_open(r.bank, r.sa) = 1
          /\ open' = Opened(r)
          /\ openAge' = [openAge EXCEPT ![r.bank] = 0]
          /\ \/ /\ r \in BagToSet(readq)
                /\ readq' = readq (-) SetToBag({r})
                /\ actq' = actq (+) SetToBag({r})
             \/ /\ r \in BagToSet(actq)
                /\ UNCHANGED <<readq, actq>>
    /\ phase' = "Serve"
    /\ UNCHANGED <<err, trackVars, chipVars>>

\* A request whose row is open is read.  If the row has been open longer
\* than smd_max_row_open_intervals * ref_tracker_timeout_period the RD
\* becomes RDA and the bank closes; either way the request leaves its queue
\* and its data departs through pending after read_latency.
IssueRD ==
    /\ NoFault /\ phase = "Sched"
    /\ \E r \in BagToSet(readq) \cup BagToSet(actq) :
          /\ get_first_cmd(r) = "RD"
          /\ IF openAge[r.bank] > ForceLimit
             THEN /\ open' = Closed(r.bank)
                  /\ openAge' = [openAge EXCEPT ![r.bank] = 0]
             ELSE UNCHANGED <<open, openAge>>
          /\ \/ /\ r \in BagToSet(readq)
                /\ readq' = readq (-) SetToBag({r})
                /\ UNCHANGED actq
             \/ /\ r \in BagToSet(actq)
                /\ actq' = actq (-) SetToBag({r})
                /\ UNCHANGED readq
          /\ pending' = Append(pending, [kind |-> "READ", bank |-> r.bank,
                                          left |-> ReadLatency])
    /\ phase' = "Serve"
    /\ UNCHANGED <<err, trackerBusy, trackerAge, inflight, chipVars>>

\* A request that needs another row of an open bank gets a PRE; the request
\* stays queued.  issue_cmd follows a PRE in RSQ mode with
\* smd_query_ref_status(rank, cmd).
IssuePRE ==
    /\ NoFault /\ phase = "Sched"
    /\ \E r \in BagToSet(readq) \cup BagToSet(actq) :
          /\ get_first_cmd(r) = "PRE"
          /\ open' = Closed(r.bank)
          /\ openAge' = [openAge EXCEPT ![r.bank] = 0]
    /\ smd_query_ref_status
    /\ phase' = "Serve"
    /\ UNCHANGED <<err, readq, actq, trackerBusy, trackerAge, chipVars>>

\* Banks get_victim may return: under the timeout row policy, a bank whose
\* row has been open longer than the threshold.  The threshold is far longer
\* than the PRE timing constraints of an idle bank, so the PRE is taken ready.
get_victim ==
    IF RowPolicy = "timeout"
    THEN {b \in Banks : open[b] # NoRow /\ openAge[b] > RowTimeout}
    ELSE {}

\* No request is ready: the row policy's victim is precharged, again
\* followed by a status query.
VictimPRE ==
    /\ NoFault /\ phase = "Sched"
    /\ \E b \in get_victim :
          /\ open' = Closed(b)
          /\ openAge' = [openAge EXCEPT ![b] = 0]
    /\ smd_query_ref_status
    /\ phase' = "Serve"
    /\ UNCHANGED <<err, readq, actq, trackerBusy, trackerAge, chipVars>>

\* No request is ready and there is no victim: an opportunistic
\* smd_query_ref_status() for the rank, which may also find nothing to do.
IdleQuery ==
    /\ NoFault /\ phase = "Sched"
    /\ get_victim = {}
    /\ smd_query_ref_status
    /\ phase' = "Serve"
    /\ UNCHANGED <<err, ctrlVars, trackerBusy, trackerAge, chipVars>>

-----------------------------------------------------------------------------

\* Controller state at construction: empty queues, all banks closed.
ControllerInit ==
    /\ phase = "Serve"
    /\ readq = EmptyBag
    /\ actq = EmptyBag
    /\ open = [b \in Banks |-> NoRow]
    /\ openAge = [b \in Banks |-> 0]
    /\ pending = <<>>

\* SMDTracker constructor: empty busy lists, nothing in flight, and
\* last_update_clk = -1, which is_bank_timed_out treats as timed out.
TrackerInit ==
    /\ trackerBusy = [c \in Chips |-> [b \in Banks |-> {}]]
    /\ trackerAge = [b \in Banks |-> Timeout + 1]
    /\ inflight = [b \in Banks |-> FALSE]

\* SALock defaults: unlocked, cooldown_exp = -1 (already expired).  sa_id is
\* left uninitialised by the code and is read only while locked.
LockInit ==
    /\ locked = [c \in Chips |-> [b \in Banks |-> FALSE]]
    /\ lockedSA = [c \in Chips |-> [b \in Banks |-> 0]]
    /\ cooldown = [c \in Chips |-> [b \in Banks |-> 0]]

\* SMDFixedRateRefresh constructor: machines idle (maint_completion_clk =
\* -1), counters at subarray 0, or chip % SAs in the worst-case distribution.
PolicyInit ==
    /\ compLeft = [c \in Chips |-> [m \in Machines |-> 0]]
    /\ lastLocked = [c \in Chips |-> [m \in Machines |-> [bank |-> 0, sa |-> 0]]]
    /\ ctrIndex = [c \in Chips |-> [m \in Machines |-> 0]]
    /\ saCounter = [c \in Chips |-> [b \in Banks |->
                      IF WorstCase THEN c % NumSAs ELSE 0]]
    /\ pendingMaint = [c \in Chips |-> [b \in Banks |-> 0]]
    /\ ph = 0

Init ==
    /\ ControllerInit
    /\ TrackerInit
    /\ LockInit
    /\ PolicyInit
    /\ err = "none"

Next ==
    \/ enqueue
    \/ ServePending
    \/ MaintTick
    \/ IssueACT
    \/ IssueRD
    \/ IssuePRE
    \/ VictimPRE
    \/ IdleQuery

Spec == Init /\ [][Next]_vars

-----------------------------------------------------------------------------
(* Properties                                                              *)

TypeOK ==
    /\ phase \in {"Serve", "Maint", "Sched"}
    /\ IsABag(readq) /\ BagToSet(readq) \subseteq Req
    /\ IsABag(actq) /\ BagToSet(actq) \subseteq Req
    /\ open \in [Banks -> {NoRow} \cup [sa : SAs, row : Rows]]
    /\ openAge \in [Banks -> 0 .. AgeCap]
    /\ pending \in Seq([kind : {"READ", "RSQ"}, bank : Banks, left : 0 .. ReadLatency])
    /\ trackerBusy \in [Chips -> [Banks -> SUBSET SAs]]
    /\ trackerAge \in [Banks -> 0 .. Timeout + 1]
    /\ inflight \in [Banks -> BOOLEAN]
    /\ locked \in [Chips -> [Banks -> BOOLEAN]]
    /\ lockedSA \in [Chips -> [Banks -> SAs]]
    /\ cooldown \in [Chips -> [Banks -> 0 .. Timeout]]
    /\ compLeft \in [Chips -> [Machines -> 0 .. MaintLatency]]
    /\ lastLocked \in [Chips -> [Machines -> [bank : Banks, sa : SAs]]]
    /\ ctrIndex \in [Chips -> [Machines -> 0 .. CountersPerMachine - 1]]
    /\ saCounter \in [Chips -> [Banks -> SAs]]
    /\ pendingMaint \in [Chips -> [Banks -> 0 .. PendingLimit + 1]]
    /\ ph \in 0 .. RefInterval - 1
    /\ err \in Asserts

\* Spec 4.3: a subarray that a chip has locked for maintenance is never open
\* in the controller's view of the bank.  The chip refuses to lock an open
\* subarray (is_SA_active); the controller may ACT only what a fresh tracker
\* entry reports free (can_access_SA).
NoActOverLock ==
    \A b \in Banks : open[b] # NoRow =>
        \A c \in Chips : ~(locked[c][b] /\ lockedSA[c][b] = open[b].sa)

\* The window of the race above: a lock that the bank's tracker entry does
\* not report exists only in the last two cycles of the entry's validity.
\* communicate_locked_SAs starts a cooldown of ref_tracker_timeout_period
\* that keeps the chip from locking again in the bank, and the tracker trusts
\* the answer for that same period, so the two must stay aligned to within
\* the one-cycle lag of the policy clock and the closed comparison of
\* is_bank_timed_out.
UnreportedLockOnlyNearTimeout ==
    \A c \in Chips, b \in Banks :
        (locked[c][b] /\ lockedSA[c][b] \notin trackerBusy[c][b])
            => trackerAge[b] >= Timeout - 1

\* The assertion in communicate_locked_SAs: a chip is never asked for the
\* status of a bank again before the cooldown of its last answer expired.
CommunicateAfterCooldown == err # "communicate_locked_SAs"

\* The assertion in add_pending_maint: no counter has more refreshes pending
\* than pending_maint_limit.
PendingMaintWithinLimit == err # "pending_maint_limit"
====
