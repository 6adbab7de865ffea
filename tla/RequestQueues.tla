----------------------------- MODULE RequestQueues -----------------------------
(***************************************************************************)
(* The controller's request queues for reads and writes (Controller.h) over *)
(* two banks of one rank with the DDR4 prereq and timing tables that decide *)
(* between them (DDR4.cpp).                                                 *)
(*                                                                         *)
(* enqueue puts a request in readq or writeq; a read to an address with a  *)
(* write still in writeq is answered at once (the "necessary for           *)
(* coherence" shortcut).  Each Controller::tick decides write_mode, then    *)
(* issues one command: for a ready request of actq if there is one, else   *)
(* for a ready request of readq (or of writeq in write mode).  A request    *)
(* whose first command is an ACT moves to actq.  A request is [t, b, r, n]: *)
(* its type, bank and row (the address: columns are abstracted), and n,    *)
(* the order of its arrival.                                                *)
(***************************************************************************)
EXTENDS Integers, FiniteSets

CONSTANTS
    Banks, Rows,     \* banks of the rank (in different bank groups) and rows
    RQMax, WQMax,    \* readq.max and writeq.max
    NRCD, NRP, NRAS, \* bank timings: ACT -> RD/WR, PRE -> ACT, ACT -> PRE
    NRTP, NWRP,      \* RD -> PRE and WR -> PRE (nCWL + nBL + nWR)
    NCCD,            \* RD -> RD and WR -> WR in the rank (nCCDS)
    NRTW,            \* RD -> WR in the rank (nCL + nCCDS + 2 - nCWL)
    NWTR,            \* WR -> RD in the rank (nCWL + nBL + nWTRS)
    NRRD,            \* ACT -> ACT in the rank (nRRDS)
    MaxArrivals      \* bound of the model: requests offered in a behaviour

NoRow == -1
Timings == {NRCD, NRP, NRAS, NRTP, NWRP, NCCD, NRTW, NWTR, NRRD}
\* The timers saturate at the longest constraint: beyond it nothing waits.
TCap == CHOOSE m \in Timings : \A x \in Timings : x <= m

ASSUME /\ Banks # {} /\ Rows # {} /\ Rows \subseteq Nat
       /\ RQMax \in Nat \ {0} /\ WQMax \in Nat \ {0}
       /\ Timings \subseteq Nat \ {0}
       /\ MaxArrivals \in Nat

Requests == [t : {"READ", "WRITE"}, b : Banks, r : Rows, n : 1 .. MaxArrivals]

VARIABLES
    readq, writeq, actq,  \* sets of requests (n tells them apart)
    write_mode,
    open,                 \* the row open in each bank, NoRow when closed
    sinceACT, sincePRE,   \* cycles since each bank's last ACT and PRE,
    sinceRD, sinceWR,     \* RD and WR (capped at TCap)
    rankRD, rankWR,       \* cycles since the rank's last RD, WR and ACT
    rankACT,
    arrivals,             \* requests offered so far
    rd,                   \* the request this tick's RD served, or none
    phase                 \* "tick" or "cpu"

bankVars == <<open, sinceACT, sincePRE, sinceRD, sinceWR>>
vars == <<readq, writeq, actq, write_mode, bankVars, rankRD, rankWR, rankACT,
          arrivals, rd, phase>>

None == [t |-> "NONE"]

Inc(x) == IF x < TCap THEN x + 1 ELSE TCap

-----------------------------------------------------------------------------
(* DDR4.cpp                                                                 *)

\* The prereq tables of a RD or WR (bank, then subarray level): a closed
\* bank needs an ACT, another open row a PRE; the open row takes the
\* column command itself.
get_first_cmd(q) ==
    IF open[q.b] = NoRow THEN "ACT"
    ELSE IF open[q.b] # q.r THEN "PRE"
    ELSE IF q.t = "READ" THEN "RD" ELSE "WR"

\* The rank level of the timing table, for banks of different bank groups:
\* CAS to CAS and the read/write turnarounds, ACT to ACT (nRRDS).
RankReady(cmd) ==
    CASE cmd = "ACT" -> rankACT >= NRRD
      [] cmd = "PRE" -> TRUE
      [] cmd = "RD"  -> rankRD >= NCCD /\ rankWR >= NWTR
      [] cmd = "WR"  -> rankWR >= NCCD /\ rankRD >= NRTW

\* The bank level of the timing table: nRCD, nRTP, write recovery, nRAS
\* and nRP.
BankReady(cmd, b) ==
    CASE cmd = "ACT" -> sincePRE[b] >= NRP
      [] cmd = "PRE" -> sinceACT[b] >= NRAS /\ sinceRD[b] >= NRTP /\ sinceWR[b] >= NWRP
      [] cmd \in {"RD", "WR"} -> sinceACT[b] >= NRCD

\* DRAM::check over the levels: a command is ready when every level's
\* constraints have elapsed.
is_ready(cmd, b) == RankReady(cmd) /\ BankReady(cmd, b)

Ready(q) == is_ready(get_first_cmd(q), q.b)

-----------------------------------------------------------------------------
(* Controller.h                                                             *)

\* Controller::enqueue: refused when the request's queue is at max; a read
\* to an address a write in writeq also targets is answered from the write
\* (pending, depart = clk + 1) and leaves readq again.  [ok, rq, wq].
enqueue(q) ==
    IF q.t = "READ"
    THEN IF Cardinality(readq) = RQMax THEN [ok |-> FALSE]
         ELSE [ok |-> TRUE, wq |-> writeq,
               rq |-> IF \E w \in writeq : w.b = q.b /\ w.r = q.r
                      THEN readq ELSE readq \cup {q}]
    ELSE IF Cardinality(writeq) = WQMax THEN [ok |-> FALSE]
         ELSE [ok |-> TRUE, rq |-> readq, wq |-> writeq \cup {q}]

\* Step 3 of Controller::tick: enter write mode at int(0.8 * writeq.max)
\* writes, leave it at int(0.2 * writeq.max) when a read waits.
WriteModeAfter ==
    IF ~write_mode THEN Cardinality(writeq) >= (8 * WQMax) \div 10
    ELSE ~(Cardinality(writeq) <= (2 * WQMax) \div 10 /\ readq # {})

\* The DDR4 timers as the next tick will read them (clk - the clk of the
\* last such command) after command cmd (or "NONE") is issued to bank b.
Timers(cmd, b) ==
    /\ sinceACT' = [x \in Banks |-> IF cmd = "ACT" /\ x = b THEN 1 ELSE Inc(sinceACT[x])]
    /\ sincePRE' = [x \in Banks |-> IF cmd = "PRE" /\ x = b THEN 1 ELSE Inc(sincePRE[x])]
    /\ sinceRD' = [x \in Banks |-> IF cmd = "RD" /\ x = b THEN 1 ELSE Inc(sinceRD[x])]
    /\ sinceWR' = [x \in Banks |-> IF cmd = "WR" /\ x = b THEN 1 ELSE Inc(sinceWR[x])]
    /\ rankRD' = IF cmd = "RD" THEN 1 ELSE Inc(rankRD)
    /\ rankWR' = IF cmd = "WR" THEN 1 ELSE Inc(rankWR)
    /\ rankACT' = IF cmd = "ACT" THEN 1 ELSE Inc(rankACT)

\* issue_cmd for request q of queue from (readq, writeq or actq) and the
\* queue bookkeeping after it: an ACT opens the row and promotes q to
\* actq, a PRE closes the bank, a RD or WR serves q and removes it.
Issue(q, from) ==
    LET cmd == get_first_cmd(q)
    IN /\ open' = CASE cmd = "ACT" -> [open EXCEPT ![q.b] = q.r]
                    [] cmd = "PRE" -> [open EXCEPT ![q.b] = NoRow]
                    [] OTHER       -> open
       /\ Timers(cmd, q.b)
       /\ IF cmd = "PRE"
          THEN UNCHANGED <<readq, writeq, actq>>
          ELSE /\ readq' = IF from = "readq" THEN readq \ {q} ELSE readq
               /\ writeq' = IF from = "writeq" THEN writeq \ {q} ELSE writeq
               /\ actq' = IF cmd = "ACT" THEN (actq \ {q}) \cup {q} ELSE actq \ {q}
       /\ rd' = IF cmd = "RD" THEN q ELSE None

\* Scheduler::get_head: the oldest request of Q that is ready (first ready,
\* first come); empty when none is.
get_head(Q) ==
    LET R == {r \in Q : Ready(r)}
    IN {r \in R : \A o \in R : r.n <= o.n}

\* Steps 3 and 4 of Controller::tick: clk++, write_mode, then one command
\* for the head of actq, else for the head of readq (writeq in write mode).
Tick ==
    /\ phase = "tick"
    /\ write_mode' = WriteModeAfter
    /\ LET q == IF write_mode' THEN writeq ELSE readq
           from == IF write_mode' THEN "writeq" ELSE "readq"
       IN \/ \E r \in get_head(actq) : Issue(r, "actq")
          \/ /\ get_head(actq) = {}
             /\ \E r \in get_head(q) : Issue(r, from)
          \/ /\ get_head(actq) = {} /\ get_head(q) = {}
             /\ Timers("NONE", CHOOSE b \in Banks : TRUE)
             /\ rd' = None
             /\ UNCHANGED <<readq, writeq, actq, open>>
    /\ phase' = "cpu"
    /\ UNCHANGED arrivals

\* Between two ticks the CPU side may offer one request to enqueue.
Arrive ==
    /\ phase = "cpu"
    /\ \/ /\ arrivals < MaxArrivals
          /\ \E t \in {"READ", "WRITE"}, b \in Banks, r \in Rows :
               LET e == enqueue([t |-> t, b |-> b, r |-> r, n |-> arrivals + 1])
               IN /\ arrivals' = arrivals + 1
                  /\ IF e.ok THEN readq' = e.rq /\ writeq' = e.wq
                     ELSE UNCHANGED <<readq, writeq>>
       \/ UNCHANGED <<arrivals, readq, writeq>>
    /\ phase' = "tick"
    /\ UNCHANGED <<actq, write_mode, bankVars, rankRD, rankWR, rankACT, rd>>

Init ==
    /\ readq = {} /\ writeq = {} /\ actq = {}
    /\ write_mode = FALSE
    /\ open = [b \in Banks |-> NoRow]
    /\ sinceACT = [b \in Banks |-> TCap] /\ sincePRE = [b \in Banks |-> TCap]
    /\ sinceRD = [b \in Banks |-> TCap] /\ sinceWR = [b \in Banks |-> TCap]
    /\ rankRD = TCap /\ rankWR = TCap /\ rankACT = TCap
    /\ arrivals = 0
    /\ rd = None
    /\ phase = "tick"

Next == Tick \/ Arrive

Spec == Init /\ [][Next]_vars

-----------------------------------------------------------------------------

TypeOK ==
    /\ readq \subseteq Requests /\ writeq \subseteq Requests /\ actq \subseteq Requests
    /\ Cardinality(readq) <= RQMax /\ Cardinality(writeq) <= WQMax
    /\ write_mode \in BOOLEAN
    /\ open \in [Banks -> Rows \cup {NoRow}]
    /\ \A f \in {sinceACT, sincePRE, sinceRD, sinceWR} : f \in [Banks -> 0 .. TCap]
    /\ {rankRD, rankWR, rankACT} \subseteq 0 .. TCap
    /\ arrivals \in 0 .. MaxArrivals
    /\ rd \in Requests \cup {None}
    /\ phase \in {"tick", "cpu"}

\* Writes that have not been issued yet, wherever they wait.
QueuedWrites == {w \in writeq \cup actq : w.t = "WRITE"}

\* A read served from DRAM never overtakes an older write to its address
\* (the coherence enqueue's shortcut is there for): when a RD serves a
\* read, no write that arrived before it to the same bank and row is still
\* waiting in writeq or actq.
ReadAfterWrite ==
    rd # None => ~\E w \in QueuedWrites : w.b = rd.b /\ w.r = rd.r /\ w.n < rd.n

====
