---------------------------- MODULE ReadQueueClients ----------------------------
(***************************************************************************)
(* The two controller-side maintenance engines that issue their work as    *)
(* read-queue requests, and the read queue they share with the CPU:        *)
(*   RAIDR (RAIDR.h): every nREFI_internal cycles the next row of the      *)
(*     refresh counter is refreshed if its rank's Bloom filter reports it  *)
(*     weak, or on every fourth pass whatever the filter says;             *)
(*   MemoryScrubber (MemoryScrubber.h): every scrub_interval cycles one    *)
(*     more row scrub is pending; a row scrub enqueues a READ per column,  *)
(*     advancing only when the enqueue succeeds.                           *)
(* Controller::tick runs raidr.tick_ref (Controller.h:1174) and then       *)
(* scrubber->tick (1250) before it schedules, and the memory system        *)
(* enqueues CPU reads between controller ticks.  Controller::enqueue       *)
(* refuses a request when the queue is full.  Which request the scheduler  *)
(* serves, and when, depends on timings and is a free choice here.         *)
(*                                                                         *)
(* Besides the engines' state the model records, for each RAIDR row, the   *)
(* refresh slots since RAIDR last decided to refresh it.                   *)
(***************************************************************************)
EXTENDS Integers, FiniteSets, Bags, H3

CONSTANTS
    NumRanks, NumBankGroups, NumBanks,  \* the organisation: banks per group
    NumSAs, RowsPerSA, NumCols,         \* NumCols: columns / 8 (64-byte chunks)
    NREFI,              \* nREFI_internal
    ScrubbingPeriod,    \* scrubbing_period
    QSize,              \* readq.max
    RBFSize, RNumHashes \* raidr_variable_refresh_bloom_filter_{size,hashes}

IsPow2(n) == \E e \in 0 .. 8 : n = 2^e

\* addr_vec_from_refresh_counter slices the counter with log2 widths, which
\* is exact for power-of-two counts only.
ASSUME /\ IsPow2(NumRanks) /\ IsPow2(NumBankGroups) /\ IsPow2(NumBanks)
       /\ IsPow2(NumSAs) /\ IsPow2(RowsPerSA)
       /\ NumCols \in Nat \ {0}
       /\ NREFI \in Nat \ {0}
       /\ QSize \in Nat \ {0}
       /\ IsPow2(RBFSize) /\ RNumHashes \in Nat \ {0}

BanksPerRank == NumBankGroups * NumBanks
NumRows == NumSAs * RowsPerSA

\* refreshes_per_period.
RefreshesPerPeriod == NumRanks * BanksPerRank * NumRows

\* The rows RAIDR refreshes: rank, bank of the rank, row of the bank.
RAddrs == [rank : 0 .. NumRanks - 1, bank : 0 .. BanksPerRank - 1, row : 0 .. NumRows - 1]

\* RAIDR::get_bloom_filter_address: (row_id << 4) + bank_id.
get_bloom_filter_address(bank, row) == row * 16 + bank

RKeys == {get_bloom_filter_address(b, r) : b \in 0 .. BanksPerRank - 1, r \in 0 .. NumRows - 1}
RHashes == 0 .. RNumHashes - 1

\* addr_vec_from_refresh_counter, with the fields combined as tick_ref
\* combines them for is_weak_row: bank group bits first, then bank, rank
\* (when there is more than one), subarray and row bits.
Decode(c) ==
    LET bg   == c % NumBankGroups
        c1   == c \div NumBankGroups
        bank == c1 % NumBanks
        c2   == c1 \div NumBanks
        rank == IF NumRanks > 1 THEN c2 % NumRanks ELSE 0
        c3   == IF NumRanks > 1 THEN c2 \div NumRanks ELSE c2
        sa   == c3 % NumSAs
        row  == (c3 \div NumSAs) % RowsPerSA
    IN [rank |-> rank, bank |-> bg * NumBanks + bank, row |-> sa * RowsPerSA + row]

\* The MemoryScrubber's addresses, and its counter's order: column first,
\* then rank, bank, row and subarray.
SAddrs == [rank : 0 .. NumRanks - 1, bank : 0 .. BanksPerRank - 1,
           sa : 0 .. NumSAs - 1, row : 0 .. RowsPerSA - 1, col : 0 .. NumCols - 1]

\* MemoryScrubber::reload_options: one row scrub per scrub_interval cycles.
scrub_interval == ScrubbingPeriod \div (RowsPerSA * NumSAs * NumRanks * BanksPerRank)

ASSUME scrub_interval >= 1

\* The read queue's requests, by their issuer: the properties do not depend
\* on a request's address, and the scheduler may serve any of them.
Requests == {"cpu", "raidr", "scrub"}

\* Saturation of the RAIDR observer; every bound a property states is below.
SinceCap == 4 * RefreshesPerPeriod + 2

VARIABLES
    rq, rentries,       \* RAIDR's Q matrix and each rank's set filter positions
    weak,               \* the rows the constructor sampled as weak
    refresh_row_counter, period_counter,
    elapsed,            \* RAIDR's clk - ticked_refresh, capped at nREFI_internal
    sc,                 \* the ScrubCounter's position
    scrub_in_progress, pending_row_scrubs,
    err,                \* the scrubber's pending assertion has failed
    sclk,               \* the controller clock modulo scrub_interval
    readq,              \* the read queue, as a bag of request issuers
    phase,              \* "maint", "sched" or "cpu"
    rsince              \* refresh slots since RAIDR last chose each row

vars == <<rq, rentries, weak, refresh_row_counter, period_counter, elapsed,
          sc, scrub_in_progress, pending_row_scrubs, err, sclk, readq, phase,
          rsince>>

QMatrix == [RHashes -> QVectors(RKeys, RBFSize)]

\* BloomFilter::insert and ::test, the positions a key maps to under q.
Positions(q, key) == {HashBits(key, q[i], 0) : i \in RHashes}

\* RAIDR::is_weak_row: the rank's filter has every position of the row.
is_weak_row(a) == Positions(rq, get_bloom_filter_address(a.bank, a.row)) \subseteq rentries[a.rank]

\* Variant of enqueue that does not check the queue's capacity.
enqueue_ignoring_capacity(q, r) == [ok |-> TRUE, q |-> q (+) SetToBag({r})]

\* Controller::enqueue: refused when the queue is full.
enqueue(q, r) ==
    IF BagCardinality(q) = QSize THEN [ok |-> FALSE, q |-> q]
    ELSE [ok |-> TRUE, q |-> q (+) SetToBag({r})]

\* The relaxed pass: strong rows are refreshed too.
Relaxed == period_counter % 4 = 3

\* Variant of PassEnd that ends a pass one row early.
PassEnd_early == refresh_row_counter = RefreshesPerPeriod - 1

\* The refresh counter's wrap test.
PassEnd == refresh_row_counter = RefreshesPerPeriod

\* ScrubCounter::advance: the next column; past the last column the next
\* rank, and so on, each field carrying into the next when it wraps.
advance(c) ==
    LET col  == (c.col + 1) % NumCols
        rank == IF col = 0 THEN (c.rank + 1) % NumRanks ELSE c.rank
        bank == IF col = 0 /\ rank = 0 THEN (c.bank + 1) % BanksPerRank ELSE c.bank
        row  == IF col = 0 /\ rank = 0 /\ bank = 0 THEN (c.row + 1) % RowsPerSA ELSE c.row
        sa   == IF col = 0 /\ rank = 0 /\ bank = 0 /\ row = 0
                THEN (c.sa + 1) % NumSAs ELSE c.sa
    IN [rank |-> rank, bank |-> bank, sa |-> sa, row |-> row, col |-> col]

\* The constructors: RAIDR samples the weak rows and inserts them into
\* their rank's filter (every rank's filter has the seed 0, so the same Q);
\* every counter starts at zero.
Init ==
    /\ rq \in QMatrix
    /\ weak \in SUBSET RAddrs
    /\ rentries = [k \in 0 .. NumRanks - 1 |->
                     UNION {Positions(rq, get_bloom_filter_address(a.bank, a.row)) :
                              a \in {w \in weak : w.rank = k}}]
    /\ refresh_row_counter = 0 /\ period_counter = 0 /\ elapsed = 0
    /\ sc = [rank |-> 0, bank |-> 0, sa |-> 0, row |-> 0, col |-> 0]
    /\ scrub_in_progress = FALSE /\ pending_row_scrubs = 0 /\ err = FALSE
    /\ sclk = 0
    /\ readq = EmptyBag
    /\ phase = "maint"
    /\ rsince = [a \in RAddrs |-> 0]

\* RAIDR::tick_ref on the queue q: the result's queue and RAIDR state.
tick_ref(q) ==
    IF elapsed + 1 < NREFI
    THEN [q |-> q, ctr |-> refresh_row_counter, per |-> period_counter,
          el |-> elapsed + 1, since |-> rsince]
    ELSE LET a      == Decode(refresh_row_counter)
             chosen == is_weak_row(a) \/ Relaxed
         IN [q |-> IF chosen THEN enqueue(q, "raidr").q ELSE q,
             ctr |-> (IF PassEnd THEN 0 ELSE refresh_row_counter) + 1,
             per |-> IF PassEnd THEN (period_counter + 1) % 4 ELSE period_counter,
             el |-> 0,
             since |-> [b \in RAddrs |->
                          IF chosen /\ b = a THEN 0
                          ELSE IF rsince[b] < SinceCap THEN rsince[b] + 1 ELSE SinceCap]]

\* ScrubCounter::is_row_scrub_in_progress and is_row_scrub_complete.
is_row_scrub_complete == ~scrub_in_progress

\* ScrubCounter::begin_row_scrub (when start): scrub_in_progress is set.
begin_row_scrub(start) == scrub_in_progress \/ start

\* The maintenance part of Controller::tick: clk++, raidr.tick_ref and then
\* scrubber->tick.  The scrubber adds a pending row scrub at the end of
\* each scrub_interval (aborting past 8), starts a pending row scrub when
\* none is in progress, and enqueues the current column, advancing when
\* the enqueue succeeds.
MaintTick ==
    /\ phase = "maint" /\ ~err
    /\ LET r   == tick_ref(readq)
           clk == (sclk + 1) % scrub_interval
           p1  == pending_row_scrubs + (IF clk = scrub_interval - 1 THEN 1 ELSE 0)
           start == p1 > 0 /\ is_row_scrub_complete
           inprog == begin_row_scrub(start)
           e   == IF inprog THEN enqueue(r.q, "scrub")
                  ELSE [ok |-> FALSE, q |-> r.q]
       IN /\ refresh_row_counter' = r.ctr /\ period_counter' = r.per
          /\ elapsed' = r.el /\ rsince' = r.since
          /\ sclk' = clk
          /\ IF p1 > 8
             THEN /\ err' = TRUE /\ pending_row_scrubs' = p1 /\ readq' = r.q
                  /\ UNCHANGED <<sc, scrub_in_progress>>
             ELSE /\ err' = FALSE
                  /\ pending_row_scrubs' = IF start THEN p1 - 1 ELSE p1
                  /\ readq' = e.q
                  /\ sc' = IF e.ok THEN advance(sc) ELSE sc
                  /\ scrub_in_progress' = (inprog /\ ~(e.ok /\ sc.col = NumCols - 1))
    /\ phase' = "sched"
    /\ UNCHANGED <<rq, rentries, weak>>

\* The scheduler serves one request of the read queue, or none this cycle.
Serve(r) ==
    /\ phase = "sched"
    /\ BagIn(r, readq)
    /\ readq' = readq (-) SetToBag({r})
    /\ phase' = "cpu"
    /\ UNCHANGED <<rq, rentries, weak, refresh_row_counter, period_counter, elapsed,
                   sc, scrub_in_progress, pending_row_scrubs, err, sclk, rsince>>

NoServe ==
    /\ phase = "sched"
    /\ phase' = "cpu"
    /\ UNCHANGED <<rq, rentries, weak, refresh_row_counter, period_counter, elapsed,
                   sc, scrub_in_progress, pending_row_scrubs, err, sclk, readq,
                   rsince>>

\* Between two controller ticks the memory system may enqueue a CPU read;
\* a refused one is retried later by the CPU and needs no state here.
CpuRead(issue) ==
    /\ phase = "cpu"
    /\ readq' = IF issue THEN enqueue(readq, "cpu").q ELSE readq
    /\ phase' = "maint"
    /\ UNCHANGED <<rq, rentries, weak, refresh_row_counter, period_counter, elapsed,
                   sc, scrub_in_progress, pending_row_scrubs, err, sclk, rsince>>

Next ==
    \/ MaintTick
    \/ \E r \in Requests : Serve(r)
    \/ NoServe
    \/ \E issue \in BOOLEAN : CpuRead(issue)

Spec == Init /\ [][Next]_vars

-----------------------------------------------------------------------------

TypeOK ==
    /\ rq \in QMatrix
    /\ rentries \in [0 .. NumRanks - 1 -> SUBSET (0 .. RBFSize - 1)]
    /\ weak \subseteq RAddrs
    /\ refresh_row_counter \in 0 .. RefreshesPerPeriod
    /\ period_counter \in 0 .. 3
    /\ elapsed \in 0 .. NREFI - 1
    /\ sc \in SAddrs
    /\ scrub_in_progress \in BOOLEAN
    /\ pending_row_scrubs \in 0 .. 9
    /\ err \in BOOLEAN
    /\ sclk \in 0 .. scrub_interval - 1
    /\ IsABag(readq) /\ BagToSet(readq) \subseteq Requests
    /\ BagCardinality(readq) <= QSize
    /\ phase \in {"maint", "sched", "cpu"}
    /\ rsince \in [RAddrs -> 0 .. SinceCap]

\* RAIDR's decisions keep every row within its retention: a weak row is
\* chosen for refresh within every pass of the refresh counter (one pass
\* of refreshes_per_period slots is about 64 ms), every row within four
\* passes.  The first pass has one slot more (the counter runs 0 .. N and
\* then 1 .. N), which the bound of the strong rows includes.
RaidrRetention ==
    \A a \in RAddrs :
        IF a \in weak THEN rsince[a] < RefreshesPerPeriod
        ELSE rsince[a] <= 4 * RefreshesPerPeriod

====
