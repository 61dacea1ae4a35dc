----------------------------- MODULE RateLimiter -----------------------------
(***************************************************************************)
(* createRateLimiter for one key, prefix:ip.  Keys do not touch each       *)
(* other.  A hit is counted by Redis with a pipeline of four commands,     *)
(* which Redis may interleave with the pipelines of other hits; when Redis *)
(* fails, the hit is counted again in the memory of the process.           *)
(***************************************************************************)
EXTENDS Naturals, FiniteSets

CONSTANTS
  Hit,           \* requests that reach the limiter, each once
  Windows,       \* values windowMs may have
  Limit,         \* values max may have: what parseInt makes of RATE_LIMIT_MAX, if not negative
  NaN,           \* one of them, where there was no number
  Second,        \* the clock's ticks in a second, the unit of EXPIRE
  Retention,     \* 15 * 60 * 1000, the age at which the collector drops a record
  GcPeriod,      \* 60000, the interval of the collector
  MaxDelay,      \* bound on the time from a hit's timestamp to its last command
  MaxTime,       \* bound on the clock
  EnableCache,   \* config.features.enableCache
  RedisMayFail   \* exec may reject, the pipeline having run or not

ASSUME LimiterAssumption ==
  /\ Windows \subseteq Nat \ {0} /\ Limit \subseteq Nat \cup {NaN} /\ NaN \notin Nat
  /\ Second \in Nat \ {0}
  /\ Retention \in Nat \ {0} /\ GcPeriod \in Nat \ {0}
  /\ MaxDelay \in Nat /\ MaxTime \in Nat
  /\ EnableCache \in BOOLEAN /\ RedisMayFail \in BOOLEAN

VARIABLES
  windowMs,  \* windowMs and max, for the life of the process
  max,
  now,       \* the clock
  zset,      \* the sorted set of the key: [by, at], at being the score
  zsetExp,   \* when the key expires, 0 for a key without expiry
  memory,    \* memoryStore of the key, {} when the map has no such key
  nextGc,    \* when the collector runs next
  hit,       \* where each hit stands
  decided,   \* history: the hits decided, [by, at, via, ok]
  cut        \* history: the hits whose key expired before their own EXPIRE

limiter == <<windowMs, max, now, zset, zsetExp, memory, nextGc, hit, decided, cut>>

At(h, pc) == hit[h].pc = pc
Goes(h, k) == hit' = [hit EXCEPT ![h] = k]
Entry(h) == [by |-> h, at |-> hit[h].stamp]

\* Hits stamped later than a window before t.
Recent(S, t) == {e \in S : e.at + windowMs > t}

\* Comparisons with NaN are false, so that one store refuses no hit then and the
\* other lets none through.
Exceeds(count) == max # NaN /\ count > max
AtMost(count) == max # NaN /\ count <= max

\* Decided by the store named via: let through if ok, answered 429 otherwise.
Decide(h, via, at, ok) ==
  decided' = decided \cup {[by |-> h, at |-> at, via |-> via, ok |-> ok]}
Done(h, stamp) == Goes(h, [pc |-> "done", stamp |-> stamp])

\* memoryRateLimit: the first hit of a key the map does not have is let through
\* without a look at max; the rest count themselves, refused or not.
MemoryLimit(h) ==
  LET timestamps == Recent(memory, now) \cup {[by |-> h, at |-> now]} IN
  /\ memory' = timestamps
  /\ Decide(h, "memory", now, memory = {} \/ AtMost(Cardinality(timestamps)))

Arrive(h) ==
  /\ At(h, "idle")
  /\ IF EnableCache
     THEN Goes(h, [pc |-> "prune", stamp |-> now]) /\ UNCHANGED <<memory, decided>>
     ELSE MemoryLimit(h) /\ Done(h, now)
  /\ UNCHANGED <<windowMs, max, now, zset, zsetExp, nextGc, cut>>

PruneNothing(h) ==
  /\ At(h, "prune")
  /\ Goes(h, [hit[h] EXCEPT !.pc = "add"])
  /\ UNCHANGED <<windowMs, max, now, zset, zsetExp, memory, nextGc, decided, cut>>

\* ZREMRANGEBYSCORE.  Redis drops a key, expiry and all, with its last member.
Prune(h) ==
  /\ At(h, "prune")
  /\ zset' = Recent(zset, hit[h].stamp)
  /\ zsetExp' = IF zset' = {} THEN 0 ELSE zsetExp
  /\ Goes(h, [hit[h] EXCEPT !.pc = "add"])
  /\ UNCHANGED <<windowMs, max, now, memory, nextGc, decided, cut>>

CountThenAdd(h) ==
  /\ At(h, "add")
  /\ zset' = zset \cup {Entry(h)}
  /\ Goes(h, [pc |-> "expire", stamp |-> hit[h].stamp, count |-> Cardinality(zset)])
  /\ UNCHANGED <<windowMs, max, now, zsetExp, memory, nextGc, decided, cut>>

\* ZADD of a member of its own.
Add(h) ==
  /\ At(h, "add")
  /\ zset' = zset \cup {Entry(h)}
  /\ Goes(h, [hit[h] EXCEPT !.pc = "card"])
  /\ UNCHANGED <<windowMs, max, now, zsetExp, memory, nextGc, decided, cut>>

\* ZCARD.
Card(h) ==
  /\ At(h, "card")
  /\ Goes(h, [pc |-> "expire", stamp |-> hit[h].stamp, count |-> Cardinality(zset)])
  /\ UNCHANGED <<windowMs, max, now, zset, zsetExp, memory, nextGc, decided, cut>>

\* Math.ceil(windowMs / 1000) seconds.
Ttl == Second * ((windowMs + Second - 1) \div Second)

ExpireOnce(h) ==
  /\ At(h, "expire")
  /\ zsetExp' = IF zset = {} \/ Exceeds(Cardinality(zset)) THEN zsetExp ELSE now + Ttl
  /\ Goes(h, [hit[h] EXCEPT !.pc = "answer"])
  /\ UNCHANGED <<windowMs, max, now, zset, memory, nextGc, decided, cut>>

\* EXPIRE.
Expire(h) ==
  /\ At(h, "expire")
  /\ zsetExp' = IF zset = {} THEN 0 ELSE now + Ttl
  /\ Goes(h, [hit[h] EXCEPT !.pc = "answer"])
  /\ UNCHANGED <<windowMs, max, now, zset, memory, nextGc, decided, cut>>

AnswerOneMore(h) ==
  /\ At(h, "answer")
  /\ Decide(h, "redis", hit[h].stamp, ~Exceeds(hit[h].count - 1)) /\ Done(h, hit[h].stamp)
  /\ UNCHANGED <<windowMs, max, now, zset, zsetExp, memory, nextGc, cut>>

\* exec resolves.
Answer(h) ==
  /\ At(h, "answer")
  /\ Decide(h, "redis", hit[h].stamp, ~Exceeds(hit[h].count)) /\ Done(h, hit[h].stamp)
  /\ UNCHANGED <<windowMs, max, now, zset, zsetExp, memory, nextGc, cut>>

\* exec rejects, before the pipeline reached Redis or after it ran.
FallBack(h) ==
  /\ RedisMayFail
  /\ At(h, "prune") \/ At(h, "answer")
  /\ MemoryLimit(h) /\ Done(h, hit[h].stamp)
  /\ UNCHANGED <<windowMs, max, now, zset, zsetExp, nextGc, cut>>

CollectAllOrNothing ==
  /\ now = nextGc
  /\ memory' = IF \E e \in memory : e.at + Retention > now THEN memory ELSE {}
  /\ nextGc' = now + GcPeriod
  /\ UNCHANGED <<windowMs, max, now, zset, zsetExp, hit, decided, cut>>

CollectEarly ==
  /\ now = nextGc
  /\ memory' = {e \in memory : e.at + GcPeriod > now}
  /\ nextGc' = now + GcPeriod
  /\ UNCHANGED <<windowMs, max, now, zset, zsetExp, hit, decided, cut>>

\* The interval timer's callback.
Collect ==
  /\ now = nextGc
  /\ memory' = {e \in memory : e.at + Retention > now}
  /\ nextGc' = now + GcPeriod
  /\ UNCHANGED <<windowMs, max, now, zset, zsetExp, hit, decided, cut>>

InPipeline == {"prune", "add", "card", "expire"}

\* Time passes, no timer is overdue and no pipeline slower than MaxDelay; a key
\* whose time has come goes, with what a pipeline has just added to it.
Tick ==
  /\ now < MaxTime /\ now < nextGc
  /\ \A h \in Hit : hit[h].pc \in InPipeline => now < hit[h].stamp + MaxDelay
  /\ now' = now + 1
  /\ IF zsetExp # 0 /\ zsetExp <= now'
     THEN /\ zset' = {} /\ zsetExp' = 0
          /\ cut' = cut \cup {h \in Hit : hit[h].pc \in {"card", "expire"}}
     ELSE UNCHANGED <<zset, zsetExp, cut>>
  /\ UNCHANGED <<windowMs, max, memory, nextGc, hit, decided>>

Init ==
  /\ windowMs \in Windows /\ max \in Limit
  /\ now = 0 /\ zset = {} /\ zsetExp = 0 /\ memory = {} /\ nextGc = GcPeriod
  /\ hit = [h \in Hit |-> [pc |-> "idle"]] /\ decided = {} /\ cut = {}

Next ==
  \/ \E h \in Hit : \/ Arrive(h) \/ Prune(h) \/ Add(h) \/ Card(h) \/ Expire(h)
                    \/ Answer(h) \/ FallBack(h)
  \/ Collect
  \/ Tick

Spec == Init /\ [][Next]_limiter

-----------------------------------------------------------------------------

Stamped == [by : Hit, at : Nat]

\* Every variable has its type; the count a pipeline returns includes its own
\* hit, whatever other pipelines do between its commands, unless the key expired
\* between them or a pipeline is slow enough to find the hit a window old.
TypeOK ==
  /\ windowMs \in Windows /\ max \in Limit
  /\ now \in 0..MaxTime
  /\ zset \subseteq Stamped /\ zsetExp \in Nat
  /\ memory \subseteq Stamped /\ nextGc \in Nat
  /\ hit \in [Hit -> [pc : {"idle"}]
                     \cup [pc : {"prune", "add", "card", "done"}, stamp : Nat]
                     \cup [pc : {"expire", "answer"}, stamp : Nat, count : Nat]]
  /\ \A h \in Hit \ cut : At(h, "answer") /\ windowMs > MaxDelay => hit[h].count > 0
  /\ decided \subseteq [by : Hit, at : Nat, via : {"redis", "memory"}, ok : BOOLEAN]
  /\ cut \subseteq Hit

\* Hits let through by one store and stamped in the width ticks from a time on.
Through(via, from, width) ==
  {d \in decided : d.ok /\ d.via = via /\ d.at >= from /\ d.at < from + width}

\* Redis lets at most max hits through in any window less the delay of a pipeline,
\* none if max is 0, though the four commands of several pipelines interleave,
\* their timestamps reach Redis out of order, and the key expires by whole seconds.
\* Hits under whose pipeline the key expired come on top: they are not remembered.
RedisWindow ==
  max # NaN /\ windowMs > MaxDelay =>
    \A from \in 0..MaxTime :
      Cardinality({d \in Through("redis", from, windowMs - MaxDelay) : d.by \notin cut}) <= max

\* The memory fallback lets at most max hits through in any window, but one where
\* max is 0 or no number, the collector trimming its records meanwhile, if
\* Retention is at least a window.
MemoryWindow ==
  windowMs <= Retention =>
    \A from \in 0..MaxTime :
      Cardinality(Through("memory", from, windowMs)) <= IF max \in {0, NaN} THEN 1 ELSE max

\* A hit is refused only for max others about a window before it, refused ones and
\* those in delayed pipelines among them, and never for hits long past.  Memory
\* counts the hits it decided itself; Redis any that set out for it, also one whose
\* answer was lost after its pipeline ran, and that memory then counted again.
RefusalExplained ==
  \A d \in decided :
    ~d.ok /\ max # NaN =>
      IF d.via = "memory"
        THEN Cardinality({e \in decided : /\ e.via = "memory" /\ e.by # d.by
                                         /\ e.at <= d.at /\ e.at + windowMs > d.at}) >= max
        ELSE Cardinality({h \in Hit \ {d.by} :
                            /\ ~At(h, "idle") /\ hit[h].stamp <= d.at + MaxDelay
                            /\ hit[h].stamp + windowMs + MaxDelay > d.at}) >= max

\* The fallback cleans itself: no record outlives its retention by more than the
\* collector's interval, hits or no hits.
MemoryForgets == \A e \in memory : now < e.at + Retention + GcPeriod

\* So does Redis: outside a pipeline, a key with members has an expiry, at most a
\* whole-second window away.
RedisForgets ==
  (\A h \in Hit : hit[h].pc \notin {"card", "expire"}) /\ zset # {} =>
    zsetExp > now /\ zsetExp <= now + Ttl

=============================================================================
