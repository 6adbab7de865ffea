------------------------------ MODULE SMDRowHammer ------------------------------
(***************************************************************************)
(* The in-DRAM RowHammer protection of one chip, for the rows of one bank  *)
(* (SMD.h, SMDRowHammerProtection and its NeighborRowRefreshMachine), in   *)
(* its CBF and PARA modes; the GRAPHENE mode's table is the module         *)
(* GrapheneCounterTable.  The CBF mode keeps a DualCountingBloomFilter     *)
(* (BloomFilter.h): two CountingBloomFilters, active and passive, swapped  *)
(* every bf_epoch cycles.                                                  *)
(*                                                                         *)
(* Each controller cycle runs the policy's tick (the swap, then the        *)
(* neighbour-refresh machine) and then, when the controller issues an ACT, *)
(* process_row_activation.  Whether the machine starts a queued refresh    *)
(* depends on the subarray locks (modelled in SMDLocks) and is a free      *)
(* choice here, as is the outcome of the PRNG coin disc_dist.              *)
(*                                                                         *)
(* Besides the policy's state the model counts the ACTs of each row in the *)
(* current and in the previous epoch of the filters.                       *)
(***************************************************************************)
EXTENDS Integers, Sequences, SequencesExt, H3

CONSTANTS
    Rows,           \* row ids of the bank
    BankId,         \* its id in the chip
    BFSize,         \* smd_rh_protection_bloom_filter_size
    NumHashes,      \* smd_rh_protection_bloom_filter_hashes
    MAC,            \* smd_rh_protection_mac: the counters' saturation point
    Epoch,          \* smd_rh_protection_bloom_filter_epoch
    Limit           \* smd_rh_protection_neighbor_ref_queue_size

ASSUME /\ Rows \subseteq Nat /\ Rows # {}
       /\ BankId \in 0 .. 15
       /\ \E e \in 0 .. 8 : BFSize = 2^e
       /\ NumHashes \in Nat \ {0}
       /\ MAC \in Nat \ {0}
       /\ Epoch \in Nat \ {0}
       /\ Limit \in Nat

Modes == {"CBF", "PARA"}
Slots == 0 .. BFSize - 1
Hashes == 0 .. NumHashes - 1

\* SMDRowHammerProtection::get_bloom_filter_address: (row_id << 4) + bank_id.
get_bloom_filter_address(bank, row) == row * 16 + bank

Keys == {get_bloom_filter_address(BankId, r) : r \in Rows}
QMatrix == [Hashes -> QVectors(Keys, BFSize)]

\* A CountingBloomFilter: its Q matrix and its saturating counters.
Filters == [q : QMatrix, ent : [Slots -> 0 .. MAC]]
\* The constructor and clear(): every counter at 0.
Cleared(q) == [q |-> q, ent |-> [s \in Slots |-> 0]]

VARIABLES
    rh_mode,            \* smd_rh_protection_mode
    space_efficient,    \* smd_rh_protection_bloom_filter_type = "space_efficient"
    clk,                \* the policy clock modulo bf_epoch
    active, passive,    \* the DualCountingBloomFilter's two filters
    refs,               \* pending_neighbor_refs of the machine
    err,                \* add_pending_maint's limit assertion has failed
    phase,              \* "tick" or "act": the two steps of one cycle
    prevActs, curActs   \* ACTs of each row in the previous and this epoch

vars == <<rh_mode, space_efficient, clk, active, passive, refs, err, phase,
          prevActs, curActs>>

TypeOK ==
    /\ rh_mode \in Modes
    /\ space_efficient \in BOOLEAN
    /\ clk \in 0 .. Epoch - 1
    /\ active \in Filters /\ passive \in Filters
    /\ refs \in Seq(Rows) /\ Len(refs) <= Limit + 1
    /\ err \in BOOLEAN
    /\ phase \in {"tick", "act"}
    /\ prevActs \in [Rows -> 0 .. Epoch]
    /\ curActs \in [Rows -> 0 .. Epoch]

hash(f, key, i) == HashBits(key, f.q[i], 0)

\* Variant of CountingInsert without the saturation.
CountingInsert_unsaturated(f, key) ==
    [f EXCEPT !.ent = [s \in Slots |->
        @[s] + Cardinality({i \in Hashes : hash(f, key, i) = s})]]

\* CountingBloomFilter::insert: each of the key's counters goes up by one
\* (once per hash function mapping there), saturating at MAC.
CountingInsert(f, key) ==
    [f EXCEPT !.ent = [s \in Slots |->
        Min({MAC, @[s] + Cardinality({i \in Hashes : hash(f, key, i) = s})})]]

\* CountingBloomFilter::test: every counter of the key is at saturation.
CountingTest(f, key) == \A i \in Hashes : f.ent[hash(f, key, i)] = MAC

\* DualCountingBloomFilter::test over the active filter a and passive p.
DualTest(a, p, key) ==
    IF space_efficient THEN CountingTest(a, key) \/ CountingTest(p, key)
    ELSE CountingTest(a, key)

swap_filters(q) == [act |-> passive, pas |-> Cleared(q)]

\* NeighborRowRefreshMachine::add_pending_maint: a row already queued is
\* not queued again.
add_pending_maint(r) == IF r \in Range(refs) THEN refs ELSE Append(refs, r)

Init ==
    /\ rh_mode \in Modes
    /\ space_efficient \in BOOLEAN
    /\ clk = 0
    /\ \E qa, qp \in QMatrix : active = Cleared(qa) /\ passive = Cleared(qp)
    /\ refs = << >>
    /\ err = FALSE
    /\ phase = "tick"
    /\ prevActs = [r \in Rows |-> 0]
    /\ curActs = [r \in Rows |-> 0]

\* SMDRowHammerProtection::tick: clk++, the filter swap in CBF mode when
\* clk % bf_epoch = bf_epoch - 1, then the machine's tick, which starts
\* the refresh of the queue's head or not.
Tick ==
    /\ phase = "tick" /\ ~err
    /\ clk' = (clk + 1) % Epoch
    /\ IF rh_mode = "CBF" /\ clk' = Epoch - 1
       THEN \E q \in QMatrix :
              /\ active' = swap_filters(q).act
              /\ passive' = swap_filters(q).pas
              /\ prevActs' = curActs
              /\ curActs' = [r \in Rows |-> 0]
       ELSE UNCHANGED <<active, passive, prevActs, curActs>>
    /\ \/ refs' = refs
       \/ refs # << >> /\ refs' = Tail(refs)
    /\ phase' = "act"
    /\ UNCHANGED <<rh_mode, space_efficient, err>>

\* The queue after a neighbour refresh of r is requested or not (coin).
Enqueue(r, coin) == IF coin THEN add_pending_maint(r) ELSE refs

\* process_row_activation of row r.  CBF: insert the row (into the passive
\* filter only, or into both), and if it then tests positive, request a
\* neighbour refresh with probability smd_rh_neighbor_refresh_pct.
\* PARA: request it with that probability.
Activate(r) ==
    /\ phase = "act" /\ ~err
    /\ \E coin \in BOOLEAN :
         IF rh_mode = "CBF"
         THEN LET key == get_bloom_filter_address(BankId, r)
                  p == CountingInsert(passive, key)
                  a == IF space_efficient THEN active ELSE CountingInsert(active, key)
              IN /\ passive' = p
                 /\ active' = a
                 /\ curActs' = [curActs EXCEPT ![r] = @ + 1]
                 /\ refs' = IF DualTest(a, p, key) THEN Enqueue(r, coin) ELSE refs
         ELSE /\ refs' = Enqueue(r, coin)
              /\ UNCHANGED <<active, passive, curActs>>
    /\ err' = (Len(refs') > Limit)
    /\ phase' = "tick"
    /\ UNCHANGED <<rh_mode, space_efficient, clk, prevActs>>

NoAct ==
    /\ phase = "act" /\ ~err
    /\ phase' = "tick"
    /\ UNCHANGED <<rh_mode, space_efficient, clk, active, passive, refs, err,
                   prevActs, curActs>>

Next == Tick \/ NoAct \/ \E r \in Rows : Activate(r)

Spec == Init /\ [][Next]_vars

-----------------------------------------------------------------------------

\* The ACTs a test covers: in the space-efficient mode only this epoch's,
\* which go to the passive filter alone; otherwise this and the previous
\* epoch's, which the active filter has counted since its last clear.
Window(r) == IF space_efficient THEN curActs[r] ELSE prevActs[r] + curActs[r]

====
