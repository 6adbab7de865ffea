------------------------------ MODULE MaintLock ------------------------------
(***************************************************************************)
(* What the locked_SAs table of one DRAM chip promises (spec, "Shared       *)
(* state"): it is a per-bank mutex shared by every maintenance policy of   *)
(* the chip.  A policy acquires a bank only when no policy holds it and    *)
(* the subarray it maintains has no open row; it locks either that         *)
(* subarray or the whole bank; only the holder releases it.  The open      *)
(* subarray of each bank belongs to the memory controller and changes      *)
(* freely.                                                                 *)
(***************************************************************************)
EXTENDS Integers, FiniteSets

CONSTANTS Banks, NumSAs, Policies

SAs == 0 .. NumSAs - 1
NoSA == -1

VARIABLES
    holders,    \* the policies holding each bank: empty or one
    heldSA,     \* the subarray locked in each bank
    wholeBank,  \* whether the lock covers the entire bank
    openSA      \* the subarray with an open row in each bank, or NoSA

vars == <<holders, heldSA, wholeBank, openSA>>

Init ==
    /\ holders = [b \in Banks |-> {}]
    /\ heldSA \in [Banks -> SAs]
    /\ wholeBank = [b \in Banks |-> FALSE]
    /\ openSA = [b \in Banks |-> NoSA]

Acquire(p, b, s, whole) ==
    /\ holders[b] = {}
    /\ openSA[b] # s
    /\ holders' = [holders EXCEPT ![b] = {p}]
    /\ heldSA' = [heldSA EXCEPT ![b] = s]
    /\ wholeBank' = [wholeBank EXCEPT ![b] = whole]
    /\ UNCHANGED openSA

Release(p, b) ==
    /\ holders[b] = {p}
    /\ holders' = [holders EXCEPT ![b] = {}]
    /\ wholeBank' = [wholeBank EXCEPT ![b] = FALSE]
    /\ UNCHANGED <<heldSA, openSA>>

\* The controller opens or closes rows as it likes.
SetOpen(b, s) ==
    /\ openSA' = [openSA EXCEPT ![b] = s]
    /\ UNCHANGED <<holders, heldSA, wholeBank>>

\* One maintenance step of policy p: it may release the bank it holds and
\* then acquire a bank, possibly the same one, within one controller cycle.
ReleaseAcquire(p, b, b2, s, whole) ==
    /\ holders[b] = {p}
    /\ b2 # b => holders[b2] = {}
    /\ openSA[b2] # s
    /\ holders' = [holders EXCEPT ![b] = {}, ![b2] = {p}]
    /\ heldSA' = [heldSA EXCEPT ![b2] = s]
    /\ wholeBank' = [wholeBank EXCEPT ![b] = FALSE, ![b2] = whole]
    /\ UNCHANGED openSA

Next ==
    \/ \E p \in Policies, b \in Banks, s \in SAs, w \in BOOLEAN : Acquire(p, b, s, w)
    \/ \E p \in Policies, b \in Banks : Release(p, b)
    \/ \E p \in Policies, b, b2 \in Banks, s \in SAs, w \in BOOLEAN :
          ReleaseAcquire(p, b, b2, s, w)
    \/ \E b \in Banks, s \in SAs \cup {NoSA} : SetOpen(b, s)

\* At most one policy holds a bank.
MutualExclusion == \A b \in Banks : Cardinality(holders[b]) <= 1

Spec == Init /\ [][Next]_vars

====
