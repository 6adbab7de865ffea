--------------------------- MODULE VariableRefresh ---------------------------
(***************************************************************************)
(* The retention-aware refresh of one bank of one chip (SMD.h,             *)
(* SMDVariableRefresh and VariableRefreshMachine) with the weak-row Bloom  *)
(* filter it consults (BloomFilter.h, BloomFilter).                        *)
(*                                                                         *)
(* The constructor samples which rows are weak and inserts them into an    *)
(* H3 Bloom filter.  Each maintenance operation of the bank's counter then *)
(* refreshes the weak rows of the next chunk of row_maint_granularity rows *)
(* of the current subarray, or every row of the chunk on one pass out of   *)
(* REFRESH_RELAXING_FACTOR, and advances the counter subarray-major.       *)
(*                                                                         *)
(* The locking of the subarray is modelled in SMDLocks; here every         *)
(* operation is one that process_maint_act_nack completed, and the model   *)
(* counts, for each row, the operations since the row was last refreshed. *)
(***************************************************************************)
EXTENDS Integers, FiniteSets, H3

CONSTANTS
    NumSAs,         \* _num_SAs_per_bank
    NumRows,        \* _num_rows: rows per subarray
    Granularity,    \* row_maint_granularity
    BankId,         \* the bank's id in the chip
    BFSize,         \* smd_variable_refresh_bloom_filter_size
    NumHashes       \* smd_variable_refresh_bloom_filter_hashes

ASSUME /\ NumSAs \in Nat \ {0} /\ NumRows \in Nat \ {0}
       /\ Granularity \in 1 .. NumRows
       /\ BankId \in 0 .. 15
       /\ \E e \in 0 .. 8 : BFSize = 2^e
       /\ NumHashes \in Nat \ {0}
       /\ (NumSAs * NumRows) * 16 <= 2^QBits

REFRESH_RELAXING_FACTOR == 4

RowIds == 0 .. NumSAs * NumRows - 1
Hashes == 0 .. NumHashes - 1

\* Maintenance operations in one refresh period: ref_interval is the
\* period divided by the rows of the bank, times row_maint_granularity.
OpsPerPeriod == (NumSAs * NumRows) \div Granularity

\* since[r] saturates here; every limit a property states is below it.
SinceCap == REFRESH_RELAXING_FACTOR * OpsPerPeriod + 1

VARIABLES
    Q,          \* the H3 matrices of the filter
    weak,       \* the rows sample_ret_time found weak
    entries,    \* the positions of the filter that are set
    row_counter, sa_counter,
    rollbacks,  \* rollbacks modulo REFRESH_RELAXING_FACTOR (the only use)
    since       \* operations since each row was last refreshed

vars == <<Q, weak, entries, row_counter, sa_counter, rollbacks, since>>

\* SMDVariableRefresh::get_bloom_filter_address: (row_id << 4) + bank_id.
get_bloom_filter_address(bank, row) == row * 16 + bank

\* The Q matrices of the filter (reset_hashes), over the bits its keys set.
QMatrix == [Hashes -> QVectors({get_bloom_filter_address(BankId, r) : r \in RowIds}, BFSize)]

hash(key, i) == HashBits(key, Q[i], 0)

\* BloomFilter::insert of a set of keys into the set entries E.
InsertAll(E, keys) == E \cup {hash(k, i) : k \in keys, i \in Hashes}

\* BloomFilter::test: every position of the key is set.
test(key) == \A i \in Hashes : hash(key, i) \in entries

is_weak_row(bank, row) == test(get_bloom_filter_address(bank, row))

\* The constructor: random Q matrices, a random set of weak rows inserted
\* into the cleared filter, and the counter at subarray 0, row 0.
Init ==
    /\ Q \in QMatrix
    /\ weak \in SUBSET RowIds
    /\ entries = InsertAll({}, {get_bloom_filter_address(BankId, r) : r \in weak})
    /\ row_counter = 0 /\ sa_counter = 0 /\ rollbacks = 0
    /\ since = [r \in RowIds |-> 0]

\* Variant of QueriedRows that numbers the rows of the bank row-major.
QueriedRows_row_major ==
    {c * NumSAs + sa_counter : c \in row_counter .. row_counter + Granularity - 1}

\* The rows process_maint_act_nack queries: row_counter .. row_counter +
\* granularity - 1, each taken as sa_counter * _num_rows + cur_row.
QueriedRows == {sa_counter * NumRows + c : c \in row_counter .. row_counter + Granularity - 1}

RelaxedPass == rollbacks % REFRESH_RELAXING_FACTOR = REFRESH_RELAXING_FACTOR - 1

\* rows_to_refresh.
RowsToRefresh ==
    IF RelaxedPass THEN Granularity
    ELSE Cardinality({r \in QueriedRows : is_weak_row(BankId, r)})

\* The rows the chip refreshes in the locked subarray: all of the chunk on
\* a relaxed pass, else the chunk's rows the filter reports weak.
RefreshedRows ==
    LET inSA == QueriedRows \cap (sa_counter * NumRows .. sa_counter * NumRows + NumRows - 1)
    IN IF RowsToRefresh = 0 THEN {}
       ELSE IF RelaxedPass THEN inSA ELSE {r \in inSA : is_weak_row(BankId, r)}

\* MaintenanceCounter::increment counts a rollback when the row counter
\* went down.
Rollback(old, new) == old > new

\* One completed maintenance operation of the bank's counter: the refresh
\* (or the skip when rows_to_refresh is 0) and MaintenanceCounter::increment.
MaintOp ==
    /\ since' = [r \in RowIds |->
                   IF r \in RefreshedRows THEN 0
                   ELSE IF since[r] < SinceCap THEN since[r] + 1 ELSE SinceCap]
    /\ IF sa_counter = NumSAs - 1
       THEN LET new == (row_counter + Granularity) % NumRows IN
              /\ sa_counter' = 0
              /\ row_counter' = new
              /\ rollbacks' = IF Rollback(row_counter, new)
                              THEN (rollbacks + 1) % REFRESH_RELAXING_FACTOR
                              ELSE rollbacks
       ELSE /\ sa_counter' = sa_counter + 1
            /\ UNCHANGED <<row_counter, rollbacks>>
    /\ UNCHANGED <<Q, weak, entries>>

Next == MaintOp

Spec == Init /\ [][Next]_vars

-----------------------------------------------------------------------------

TypeOK ==
    /\ Q \in QMatrix
    /\ weak \subseteq RowIds
    /\ entries \subseteq 0 .. BFSize - 1
    /\ row_counter \in 0 .. NumRows - 1
    /\ sa_counter \in 0 .. NumSAs - 1
    /\ rollbacks \in 0 .. REFRESH_RELAXING_FACTOR - 1
    /\ since \in [RowIds -> 0 .. SinceCap]

\* Every weak row is refreshed within one refresh period's operations, and
\* every row within REFRESH_RELAXING_FACTOR periods: the retention the
\* weak-row classification is for.
RetentionKept ==
    \A r \in RowIds :
        since[r] < IF r \in weak THEN OpsPerPeriod
                   ELSE REFRESH_RELAXING_FACTOR * OpsPerPeriod

====
