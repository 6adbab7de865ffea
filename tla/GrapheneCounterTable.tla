------------------------- MODULE GrapheneCounterTable -------------------------
(***************************************************************************)
(* The Graphene counter table of one bank, as the SMD RowHammer protector  *)
(* uses it (SMD.h, GrapheneCounterTable and its use in                     *)
(* SMDRowHammerProtection).  Every ACT of a row of the bank calls          *)
(* increment(row); a true result queues a refresh of the row's neighbours. *)
(* The tables are reset every refresh window.                              *)
(*                                                                         *)
(* The constructor sizes the table from the refresh window: act_threshold  *)
(* is half the maximum activation count (MAC) a row tolerates, and         *)
(* num_counters = ACTs per window / act_threshold.  The model bounds the   *)
(* ACTs of a window by ActsPerWindow and derives num_counters the same     *)
(* way.  Besides the table, it records the true activations of each row    *)
(* since the window started and since its neighbours were last refreshed.  *)
(***************************************************************************)
EXTENDS Integers, FiniteSets, Functions, TLC

CONSTANTS
    Rows,           \* row ids of the bank
    MAC,            \* smd_rh_protection_mac
    ActsPerWindow   \* num_acts_per_ref_window

ASSUME /\ Rows \subseteq Nat /\ Rows # {}
       /\ MAC \in Nat /\ MAC >= 2
       /\ ActsPerWindow \in Nat

\* The constructor's act_threshold and num_counters.
act_threshold == MAC \div 2
num_counters == ActsPerWindow \div act_threshold

VARIABLES
    counters,   \* the std::map row -> count: a function on the tracked rows
    spillover,  \* spillover_counter
    acts,       \* true ACTs of each row in this window
    sinceRef    \* true ACTs of each row since its neighbours were refreshed

vars == <<counters, spillover, acts, sinceRef>>

TypeOK ==
    /\ DOMAIN counters \subseteq Rows
    /\ counters \in [DOMAIN counters -> Nat]
    /\ Cardinality(DOMAIN counters) <= num_counters
    /\ spillover \in Nat
    /\ acts \in [Rows -> 0 .. ActsPerWindow]
    /\ sinceRef \in [Rows -> 0 .. ActsPerWindow]

ActsInWindow == SumFunction(acts)

Init ==
    /\ counters = << >>
    /\ spillover = 0
    /\ acts = [r \in Rows |-> 0]
    /\ sinceRef = [r \in Rows |-> 0]

\* get_min_counter: std::min_element over the map's (row, count) pairs.
\* Pairs compare by their first member, so this is the entry with the
\* smallest row id, whatever its count.
get_min_counter == CHOOSE m \in DOMAIN counters : \A x \in DOMAIN counters : m <= x

\* Variant of HasFreeCounter that lets the table grow one entry too many.
HasFreeCounter_off_by_one == Cardinality(DOMAIN counters) <= num_counters

\* counters.size() < num_counters: an unused counter is left.
HasFreeCounter == Cardinality(DOMAIN counters) < num_counters

\* Variant of ReplacedCount that does not count the ACT that replaces.
ReplacedCount_at_spillover == spillover

\* The count a row starts with when it replaces the smallest entry.
ReplacedCount == spillover + 1

\* The table after increment(r) and whether it returns true.  The cases are
\* the branches of increment in their order: a tracked row; a free counter;
\* a smallest entry that differs from the spillover; a replacement.
Increment(r) ==
    LET m == get_min_counter
        new == ReplacedCount
    IN CASE r \in DOMAIN counters ->
              [ctr |-> [counters EXCEPT ![r] = @ + 1], sp |-> spillover,
               trig |-> (counters[r] + 1) % act_threshold = 0]
         [] HasFreeCounter ->
              [ctr |-> counters @@ (r :> 1), sp |-> spillover, trig |-> FALSE]
         [] counters[m] # spillover ->
              [ctr |-> counters, sp |-> spillover + 1, trig |-> FALSE]
         [] OTHER ->
              [ctr |-> Restrict(counters, DOMAIN counters \ {m}) @@ (r :> new),
               sp |-> spillover, trig |-> new % act_threshold = 0]

\* process_row_activation in GRAPHENE mode: the ACT is counted, and a true
\* result queues the neighbour refresh of r.  The refresh itself runs later
\* in the NeighborRowRefreshMachine; here the queued refresh ends the
\* row's exposure.
Activate(r) ==
    /\ ActsInWindow < ActsPerWindow
    /\ LET res == Increment(r) IN
         /\ counters' = res.ctr
         /\ spillover' = res.sp
         /\ acts' = [acts EXCEPT ![r] = @ + 1]
         /\ sinceRef' = [sinceRef EXCEPT ![r] = IF res.trig THEN 0 ELSE @ + 1]

\* SMDRowHammerProtection::tick resets every table at the end of a refresh
\* window; the window's periodic refresh has restored every row.
Reset ==
    /\ counters' = << >>
    /\ spillover' = 0
    /\ acts' = [r \in Rows |-> 0]
    /\ sinceRef' = [r \in Rows |-> 0]

Next == Reset \/ \E r \in Rows : Activate(r)

Spec == Init /\ [][Next]_vars

-----------------------------------------------------------------------------

\* The counter of a tracked row, and the spillover of an untracked one, is
\* never below the row's true activations in the window (the estimate the
\* threshold test relies on; increment's replacement branch must start the
\* new row above the spillover for this to hold).
EstimateSound ==
    \A r \in Rows :
        acts[r] <= IF r \in DOMAIN counters THEN counters[r] ELSE spillover

\* No row is activated MAC times without its neighbours being refreshed in
\* between: the guarantee act_threshold = MAC/2 is chosen for.
BelowMAC == \A r \in Rows : sinceRef[r] < MAC

====
