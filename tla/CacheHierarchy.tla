---------------------------- MODULE CacheHierarchy ----------------------------
(***************************************************************************)
(* The CPU-side cache hierarchy (Cache.cpp): a private first-level cache   *)
(* per core over one shared, inclusive last-level cache (LLC), with their  *)
(* MSHRs, the CacheSystem's hit and wait lists, and the memory behind it.  *)
(*                                                                         *)
(* Every address of the model falls into the same set of every cache, so   *)
(* each cache is one LRU-ordered list of lines (head: least recently       *)
(* used).  A line is locked from its allocation on a miss until the        *)
(* callback of that miss.  A request completes through                     *)
(* Processor::receive, which runs the LLC's callback, and the LLC passes   *)
(* it to every first-level cache.  The latencies of the hit and wait lists *)
(* are abstracted into the order in which their entries are taken.         *)
(***************************************************************************)
EXTENDS Naturals, FiniteSets, Sequences, SequencesExt, Bags

CONSTANTS
    Cores,          \* one first-level cache each
    Addrs,          \* cache-line addresses, all of one set
    L1Assoc,        \* assoc of the first-level caches
    LLCAssoc,       \* assoc of the LLC
    L1Mshr,         \* mshr_entry_num of the first-level caches
    LLCMshr,        \* mshr_entry_num of the LLC
    MaxInflight     \* bound of the model: requests in the lists and memory

LLC == "LLC"
Caches == Cores \cup {LLC}

ASSUME /\ LLC \notin Cores
       /\ {L1Assoc, LLCAssoc, L1Mshr, LLCMshr} \subseteq Nat \ {0}
       /\ MaxInflight \in Nat

Assoc(k) == IF k = LLC THEN LLCAssoc ELSE L1Assoc
MshrNum(k) == IF k = LLC THEN LLCMshr ELSE L1Mshr

Line == [addr : Addrs, lock : BOOLEAN, dirty : BOOLEAN]

VARIABLES
    lines,      \* lines[k]: the set's lines of cache k, LRU first
    mshr,       \* mshr[k]: the addresses of cache k's MSHR entries
    hitList,    \* CacheSystem::hit_list: bag of addresses whose hit completes
    waitList,   \* CacheSystem::wait_list: bag of [addr, type] for memory
    mem,        \* bag of addresses of the reads memory has accepted
    err         \* the first assertion that failed, or "none"

vars == <<lines, mshr, hitList, waitList, mem, err>>

-----------------------------------------------------------------------------
(* One step of the hierarchy is a function of the state record            *)
(* [lines, mshr, hit, wait, err]: a call of Cache::send runs the lower     *)
(* cache's send and the evictions inside the same step.                    *)

Pos(ls, a) == SelectInSeq(ls, LAMBDA l : l.addr = a)

\* Cache::is_hit: the line is present and not locked.
is_hit(ls, a) == Pos(ls, a) # 0 /\ ~ls[Pos(ls, a)].lock

\* Cache::all_sets_locked (Cache.h): the set is full and every line locked.
all_sets_locked(ls, k) == Len(ls) >= Assoc(k) /\ \A i \in 1 .. Len(ls) : ls[i].lock

\* Cache::check_unlock (Cache.h) of a first-level cache: the line is
\* absent or unlocked.
check_unlock(s, c, a) == Pos(s.lines[c], a) = 0 \/ ~s.lines[c][Pos(s.lines[c], a)].lock

\* The miss path's check of Cache::send: no MSHR entry is free.
mshr_full(s, k) == Cardinality(s.mshr[k]) = MshrNum(k)

Fail(s, what) == IF s.err = "none" THEN [s EXCEPT !.err = what] ELSE s

\* Variant of invalidate that reports the erased line as clean (a build in
\* which the freed node no longer holds the dirty bit).
invalidate_clean(s, c, a) ==
    LET i == Pos(s.lines[c], a) IN
    IF i = 0 THEN [st |-> s, dirty |-> FALSE]
    ELSE LET s1 == IF s.lines[c][i].lock THEN Fail(s, "invalidate") ELSE s
         IN [st |-> [s1 EXCEPT !.lines[c] = RemoveAt(@, i)], dirty |-> FALSE]

\* Cache::invalidate of a first-level cache c: erase the line, and report
\* its dirty bit.  (The code reads line->dirty after the erase; with glibc
\* the freed node keeps the value, which is what the model returns.)
invalidate(s, c, a) ==
    LET i == Pos(s.lines[c], a) IN
    IF i = 0 THEN [st |-> s, dirty |-> FALSE]
    ELSE LET s1 == IF s.lines[c][i].lock THEN Fail(s, "invalidate") ELSE s
         IN [st |-> [s1 EXCEPT !.lines[c] = RemoveAt(@, i)],
             dirty |-> s.lines[c][i].dirty]

\* Cache::evictline at the LLC, for a line a first-level cache evicts: the
\* LLC's line goes to the MRU end, unlocked, taking the dirty bit.  The
\* code asserts the line is there (inclusion); a locked line it replaces
\* leaves the LLC's MSHR entry pointing at an erased node.
evictline(s, a, dirty) ==
    LET i == Pos(s.lines[LLC], a) IN
    IF i = 0 THEN Fail(s, "evictline")
    ELSE LET l == s.lines[LLC][i]
             s1 == IF l.lock THEN Fail(s, "evictline_locked") ELSE s
         IN [s1 EXCEPT !.lines[LLC] =
                Append(RemoveAt(@, i), [addr |-> a, lock |-> FALSE,
                                        dirty |-> dirty \/ l.dirty])]

\* Cache::evict of the line at position i of cache k.  The LLC first
\* invalidates it in every first-level cache and, being the last level,
\* queues a write to memory when any copy was dirty; a first-level cache
\* hands it to the LLC's evictline.  Then the line is erased.
RECURSIVE InvalidateAll(_, _, _, _)
InvalidateAll(s, cs, a, d) ==
    IF cs = {} THEN [st |-> s, dirty |-> d]
    ELSE LET c == CHOOSE x \in cs : TRUE
             r == invalidate(s, c, a)
         IN InvalidateAll(r.st, cs \ {c}, a, d \/ r.dirty)

\* Variant of evict whose LLC eviction skips the higher levels.
evict_no_invalidate(s, k, i) ==
    LET v == s.lines[k][i] IN
    IF k = LLC
    THEN LET s1 == [s EXCEPT !.lines[LLC] = RemoveAt(@, i)]
         IN IF v.dirty THEN [s1 EXCEPT !.wait = @ (+) SetToBag({[addr |-> v.addr, type |-> "WRITE"]})]
            ELSE s1
    ELSE LET s1 == evictline(s, v.addr, v.dirty)
         IN [s1 EXCEPT !.lines[k] = RemoveAt(@, i)]

evict(s, k, i) ==
    LET v == s.lines[k][i] IN
    IF k = LLC
    THEN LET r == InvalidateAll(s, Cores, v.addr, v.dirty)
             s1 == [r.st EXCEPT !.lines[LLC] = RemoveAt(@, i)]
         IN IF r.dirty THEN [s1 EXCEPT !.wait = @ (+) SetToBag({[addr |-> v.addr, type |-> "WRITE"]})]
            ELSE s1
    ELSE LET s1 == evictline(s, v.addr, v.dirty)
         IN [s1 EXCEPT !.lines[k] = RemoveAt(@, i)]

\* The victim allocate_line picks: the first line that is unlocked here
\* and, below the first level, in every higher cache (check_unlock); 0
\* when there is none.
\* Variant of Victim that does not ask the higher levels (check_unlock).
Victim_local(s, k) == SelectInSeq(s.lines[k], LAMBDA l : ~l.lock)

Victim(s, k) ==
    SelectInSeq(s.lines[k], LAMBDA l : ~l.lock /\
                   (k = LLC => \A c \in Cores : check_unlock(s, c, l.addr)))

\* Cache::need_eviction: the set is full.  (A line already present trips
\* its assert(false); allocate_line below reports that as an error.)
\* Variant of need_eviction that lets a set grow one line past assoc.
need_eviction_late(ls, k) == Len(ls) > Assoc(k)

need_eviction(ls, k) == Len(ls) >= Assoc(k)

\* Cache::allocate_line: a full set evicts its victim (none: failure),
\* then the new line is appended locked and clean.  [ok, st].
allocate_line(s, k, a) ==
    LET new(st) == [st EXCEPT !.lines[k] = Append(@, [addr |-> a, lock |-> TRUE, dirty |-> FALSE])]
    IN IF Pos(s.lines[k], a) # 0
       THEN [ok |-> FALSE, st |-> Fail(s, "need_eviction")]
       ELSE IF ~need_eviction(s.lines[k], k) THEN [ok |-> TRUE, st |-> new(s)]
       ELSE IF Victim(s, k) = 0 THEN [ok |-> FALSE, st |-> s]
       ELSE [ok |-> TRUE, st |-> new(evict(s, k, Victim(s, k)))]

\* Cache::send of a request for line a with type t ("READ" or "WRITE") to
\* cache k.  A hit moves the line to the MRU end and queues its callback.
\* A miss becomes a READ: an MSHR hit only marks the line dirty; otherwise
\* with a free MSHR entry and an allocated line, the line takes the dirty
\* bit, the MSHR entry is added, and the request goes to the LLC (whose
\* answer is ignored) or, from the LLC, to the wait list.  [ok, st].
SendLLC(s, a) ==
    LET ls == s.lines[LLC] IN
    IF is_hit(ls, a)
    THEN [ok |-> TRUE, st |-> [s EXCEPT !.lines[LLC] = Append(RemoveAt(@, Pos(ls, a)), ls[Pos(ls, a)]),
                                        !.hit = @ (+) SetToBag({a})]]
    ELSE IF a \in s.mshr[LLC] THEN [ok |-> TRUE, st |-> s]
    ELSE IF mshr_full(s, LLC) \/ all_sets_locked(ls, LLC)
    THEN [ok |-> FALSE, st |-> s]
    ELSE LET r == allocate_line(s, LLC, a) IN
         IF ~r.ok THEN r
         ELSE [ok |-> TRUE,
               st |-> [r.st EXCEPT !.mshr[LLC] = @ \cup {a},
                                   !.wait = @ (+) SetToBag({[addr |-> a, type |-> "READ"]})]]

SendL1(s, c, a, t) ==
    LET ls == s.lines[c]
        i  == Pos(ls, a)
        dirty == t = "WRITE"
    IN
    IF is_hit(ls, a)
    THEN [ok |-> TRUE,
          st |-> [s EXCEPT !.lines[c] = Append(RemoveAt(@, i), [ls[i] EXCEPT !.dirty = @ \/ dirty]),
                           !.hit = @ (+) SetToBag({a})]]
    ELSE IF a \in s.mshr[c]
    THEN [ok |-> TRUE, st |-> [s EXCEPT !.lines[c][i].dirty = @ \/ dirty]]
    ELSE IF mshr_full(s, c) \/ all_sets_locked(ls, c)
    THEN [ok |-> FALSE, st |-> s]
    ELSE LET r == allocate_line(s, c, a) IN
         IF ~r.ok THEN r
         ELSE LET s1 == [r.st EXCEPT !.lines[c][Len(r.st.lines[c])].dirty = dirty,
                                     !.mshr[c] = @ \cup {a}]
              IN [ok |-> TRUE, st |-> SendLLC(s1, a).st]

\* Cache::callback through Processor::receive: the LLC's MSHR entry for a,
\* if any, unlocks its line and is erased, and so in every first-level
\* cache.
\* Variant of Callback that does not pass the answer to the higher levels.
Callback_llc_only(s, a) ==
    [s EXCEPT !.lines[LLC] = IF a \in s.mshr[LLC]
                             THEN [j \in 1 .. Len(s.lines[LLC]) |->
                                     IF s.lines[LLC][j].addr = a THEN [s.lines[LLC][j] EXCEPT !.lock = FALSE]
                                     ELSE s.lines[LLC][j]]
                             ELSE s.lines[LLC],
              !.mshr[LLC] = s.mshr[LLC] \ {a}]

Callback(s, a) ==
    [s EXCEPT !.lines = [k \in Caches |->
                IF a \in s.mshr[k]
                THEN [j \in 1 .. Len(s.lines[k]) |->
                        IF s.lines[k][j].addr = a THEN [s.lines[k][j] EXCEPT !.lock = FALSE]
                        ELSE s.lines[k][j]]
                ELSE s.lines[k]],
              !.mshr = [k \in Caches |-> s.mshr[k] \ {a}]]

-----------------------------------------------------------------------------

State == [lines |-> lines, mshr |-> mshr, hit |-> hitList, wait |-> waitList, err |-> err]

Apply(s) ==
    /\ lines' = s.lines /\ mshr' = s.mshr /\ hitList' = s.hit
    /\ waitList' = s.wait /\ err' = s.err

Inflight == BagCardinality(hitList) + BagCardinality(waitList) + BagCardinality(mem)

\* A core's request accepted by its first-level cache (a refused send
\* changes nothing, and the core retries it).
Send(c, a, t) ==
    /\ err = "none" /\ Inflight < MaxInflight
    /\ LET r == SendL1(State, c, a, t) IN r.ok /\ Apply(r.st)
    /\ UNCHANGED mem

\* CacheSystem::tick: a due hit completes (callback of its request).
HitDone(a) ==
    /\ err = "none" /\ BagIn(a, hitList)
    /\ Apply(Callback([State EXCEPT !.hit = @ (-) SetToBag({a})], a))
    /\ UNCHANGED mem

\* CacheSystem::tick: a due wait-list entry accepted by memory (send_memory
\* returned true).  A write is done; a read stays until memory answers.
SendMemory(e) ==
    /\ err = "none" /\ BagIn(e, waitList)
    /\ waitList' = waitList (-) SetToBag({e})
    /\ mem' = IF e.type = "READ" THEN mem (+) SetToBag({e.addr}) ELSE mem
    /\ UNCHANGED <<lines, mshr, hitList, err>>

\* Memory answers a read: Processor::receive runs the callback.
MemDone(a) ==
    /\ err = "none" /\ BagIn(a, mem)
    /\ mem' = mem (-) SetToBag({a})
    /\ Apply(Callback(State, a))

Init ==
    /\ lines = [k \in Caches |-> << >>]
    /\ mshr = [k \in Caches |-> {}]
    /\ hitList = EmptyBag /\ waitList = EmptyBag /\ mem = EmptyBag
    /\ err = "none"

Next ==
    \/ \E c \in Cores, a \in Addrs, t \in {"READ", "WRITE"} : Send(c, a, t)
    \/ \E a \in BagToSet(hitList) : HitDone(a)
    \/ \E e \in BagToSet(waitList) : SendMemory(e)
    \/ \E a \in BagToSet(mem) : MemDone(a)

Spec == Init /\ [][Next]_vars

\* CacheSystem::tick runs every cycle and completes every hit whose latency
\* has passed and sends every due wait-list entry memory accepts; memory
\* answers every read it accepted.  Nothing forces a core to send.
FairSpec ==
    /\ Spec
    /\ \A a \in Addrs : WF_vars(HitDone(a)) /\ WF_vars(MemDone(a))
    /\ \A a \in Addrs, t \in {"READ", "WRITE"} : WF_vars(SendMemory([addr |-> a, type |-> t]))

-----------------------------------------------------------------------------

TypeOK ==
    /\ \A k \in Caches : lines[k] \in Seq(Line) /\ Len(lines[k]) <= Assoc(k)
    /\ \A k \in Caches : mshr[k] \subseteq Addrs /\ Cardinality(mshr[k]) <= MshrNum(k)
    /\ IsABag(hitList) /\ BagToSet(hitList) \subseteq Addrs
    /\ IsABag(waitList) /\ BagToSet(waitList) \subseteq [addr : Addrs, type : {"READ", "WRITE"}]
    /\ IsABag(mem) /\ BagToSet(mem) \subseteq Addrs

\* No assertion of Cache.cpp fails: evictline finds the line in the LLC,
\* invalidate never erases a locked line, need_eviction never meets the
\* line it allocates, and evictline never replaces a line an MSHR entry
\* points at.
NoAbort == err = "none"

\* The LLC is inclusive: every line a first-level cache holds unlocked is
\* in the LLC, through LLC evictions (which invalidate the higher copies),
\* first-level evictions (evictline), misses the LLC answers from its own
\* MSHR and callbacks that arrive after the line was evicted.
Inclusion ==
    \A c \in Cores : \A i \in 1 .. Len(lines[c]) :
        ~lines[c][i].lock => Pos(lines[LLC], lines[c][i].addr) # 0

\* Data newer than memory for line a: a dirty copy in some cache, or a
\* WRITE for a waiting in the wait list.
WriteOf(a) == [addr |-> a, type |-> "WRITE"]
Dirty(a) ==
    \/ \E k \in Caches : \E i \in 1 .. Len(lines[k]) : lines[k][i].addr = a /\ lines[k][i].dirty
    \/ BagIn(WriteOf(a), waitList)

\* No written data is lost: data newer than memory disappears from the
\* hierarchy only in a step that hands a WRITE of it to memory.  Dirty bits
\* travel from a first-level cache to the LLC through evictline, and from
\* the first-level copies to the LLC's memory write through invalidate,
\* which reads the bit of the line it has just erased (Cache.cpp:312).
NoLostWrite ==
    [][\A a \in Addrs : Dirty(a) /\ ~Dirty(a)' =>
          BagIn(WriteOf(a), waitList) /\ ~BagIn(WriteOf(a), waitList')]_vars

\* Every miss of a first-level cache completes: its MSHR entry is
\* eventually released by a callback, whether the LLC hit, joined an LLC
\* MSHR entry or went to memory.
MissesComplete ==
    \A c \in Cores, a \in Addrs : (a \in mshr[c]) ~> (a \notin mshr[c])

====
