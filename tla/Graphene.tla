------------------------------- MODULE Graphene -------------------------------
(***************************************************************************)
(* The controller-side Graphene RowHammer defense (Graphene.h) for one     *)
(* bank, whose rows are those of one subarray.  Each controller cycle      *)
(* first runs Graphene::tick (which enqueues the two preventive refreshes  *)
(* of a row flagged in the previous cycle, and resets the tables at the    *)
(* start of a reset period) and then, when the scheduler issued an ACT,    *)
(* Graphene::update.  The table starts with no_table_entries dummy entries *)
(* whose keys no real row has.                                             *)
(*                                                                         *)
(* Besides the defense's own state the model records the ACTs of each row  *)
(* since the start of the period or since its neighbours' refresh was      *)
(* enqueued, and the rows of the last enqueued pair of refreshes.          *)
(***************************************************************************)
EXTENDS Integers, FiniteSets, Functions, TLC

CONSTANTS
    RowsPerSA,      \* no_rows_per_subarray
    NumEntries,     \* graphene_no_table_entries
    Threshold,      \* graphene_activation_threshold
    ResetPeriod     \* reset_period_clk

ASSUME /\ RowsPerSA \in Nat \ {0}
       /\ NumEntries \in Nat \ {0}
       /\ Threshold \in Nat \ {0}
       /\ ResetPeriod \in Nat \ {0}

Rows == 0 .. RowsPerSA - 1
\* The constructor's keys -150000 .. -150000 + no_table_entries - 1.
Dummies == -NumEntries .. -1

\* The C++ remainder: its sign is that of the dividend.
CRem(a, n) == IF a < 0 THEN -((-a) % n) ELSE a % n

VARIABLES
    table,      \* activation_count_table[index]: key -> count
    spillover,  \* spillover_counter[index]
    pending,    \* pending_preventive_refresh
    lastRow,    \* last_addr_vec, its row
    clk,        \* clk modulo ResetPeriod
    phase,      \* "tick" or "act": the two calls of one controller cycle
    sinceRef,   \* ACTs of each row since the period began or its refresh
    refreshed   \* rows of the preventive refreshes enqueued last

vars == <<table, spillover, pending, lastRow, clk, phase, sinceRef, refreshed>>

TypeOK ==
    /\ DOMAIN table \subseteq Rows \cup Dummies
    /\ Cardinality(DOMAIN table) = NumEntries
    /\ table \in [DOMAIN table -> Nat]
    /\ spillover \in Nat
    /\ pending \in BOOLEAN
    /\ lastRow \in Rows
    /\ clk \in 0 .. ResetPeriod - 1
    /\ phase \in {"tick", "act"}
    /\ sinceRef \in [Rows -> Nat]
    /\ refreshed \subseteq Int

FreshTable == [k \in Dummies |-> 0]

\* The constructor.  clk is never initialised: any phase of the reset
\* period is possible.
Init ==
    /\ table = FreshTable
    /\ spillover = 0
    /\ pending = FALSE
    /\ lastRow \in Rows
    /\ clk \in 0 .. ResetPeriod - 1
    /\ phase = "tick"
    /\ sinceRef = [r \in Rows |-> 0]
    /\ refreshed = {}

\* schedule_preventive_refresh: the rows of the two PARA_REFRESH requests.
schedule_preventive_refresh(r) == {CRem(r + 1, RowsPerSA), CRem(r - 1, RowsPerSA)}

\* Graphene::tick.  The reset restores every count and the spillover; the
\* periodic refresh of the period has restored every row.
tick ==
    /\ phase = "tick"
    /\ refreshed' = IF pending THEN schedule_preventive_refresh(lastRow) ELSE {}
    /\ pending' = FALSE
    /\ LET reset == clk = 0 IN
         /\ table' = IF reset THEN [k \in DOMAIN table |-> 0] ELSE table
         /\ spillover' = IF reset THEN 0 ELSE spillover
         /\ sinceRef' = IF reset THEN [r \in Rows |-> 0] ELSE sinceRef
    /\ clk' = (clk + 1) % ResetPeriod
    /\ phase' = "act"
    /\ UNCHANGED lastRow

\* Variant of Insert that leaves the replaced entry in the table.
Insert_keeping(r, k) == table @@ (r :> spillover)

\* A miss on row r that found entry k at the spillover: k leaves the table
\* and r enters with the spillover value.
Insert(r, k) ==
    Restrict(table, DOMAIN table \ {k}) @@ (r :> spillover)

\* The threshold test of a tracked row's new count.
Flags(c) == c >= Threshold

\* Variant of FlaggedCount that restarts a flagged row from zero.
FlaggedCount_zero == 0

\* The count a flagged row restarts from.
FlaggedCount == spillover

\* Graphene::update on an ACT of row r.  A tracked row counts the ACT and,
\* at the threshold, flags the row and drops its count to the spillover.
\* An untracked row replaces the first entry the iteration meets whose
\* count equals the spillover (the unordered_map's order is unspecified, so
\* any such entry), or else increments the spillover.
update(r) ==
    \/ /\ r \in DOMAIN table
       /\ LET c == table[r] + 1 IN
            IF Flags(c)
            THEN /\ table' = [table EXCEPT ![r] = FlaggedCount]
                 /\ pending' = TRUE
                 /\ lastRow' = r
            ELSE /\ table' = [table EXCEPT ![r] = c]
                 /\ UNCHANGED <<pending, lastRow>>
       /\ UNCHANGED spillover
    \/ /\ r \notin DOMAIN table
       /\ \E k \in DOMAIN table : table[k] = spillover /\ table' = Insert(r, k)
       /\ UNCHANGED <<spillover, pending, lastRow>>
    \/ /\ r \notin DOMAIN table
       /\ \A k \in DOMAIN table : table[k] # spillover
       /\ spillover' = spillover + 1
       /\ UNCHANGED <<table, pending, lastRow>>

\* The scheduling step of Controller::tick: an ACT to row r, or no ACT.
\* pending is always clear here (tick cleared it), so pending' says that
\* this ACT flagged r; its refresh is enqueued by the next tick, before any
\* other ACT.
Act(r) ==
    /\ phase = "act"
    /\ update(r)
    /\ sinceRef' = [sinceRef EXCEPT ![r] = IF pending' THEN 0 ELSE @ + 1]
    /\ phase' = "tick"
    /\ UNCHANGED <<clk, refreshed>>

NoAct ==
    /\ phase = "act"
    /\ phase' = "tick"
    /\ UNCHANGED <<table, spillover, pending, lastRow, clk, sinceRef, refreshed>>

Next == tick \/ NoAct \/ \E r \in Rows : Act(r)

Spec == Init /\ [][Next]_vars

-----------------------------------------------------------------------------

\* A row is flagged for a neighbour refresh no later than its Threshold-th
\* ACT since the period began or since it was last flagged: the guarantee
\* graphene_activation_threshold is configured for.
BelowThreshold == \A r \in Rows : sinceRef[r] < Threshold

\* The spillover never exceeds any count in the table.  update relies on it
\* twice: a miss raises the spillover only when no entry equals it, and a
\* flagged row restarts from it.
SpilloverIsMinimum == \A k \in DOMAIN table : spillover <= table[k]

\* The preventive refreshes go to the flagged row's physical neighbours:
\* rows r-1 and r+1 of its subarray that exist.
RefreshesNeighbours ==
    [][pending => refreshed' \subseteq
                  {lastRow - 1, lastRow + 1} \cap Rows]_vars

====
