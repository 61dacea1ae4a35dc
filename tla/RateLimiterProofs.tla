--------------------------- MODULE RateLimiterProofs ---------------------------
(* Both stores of the limiter keep their promises for any number of hits, any  *)
(* window and max, however pipelines interleave, fail and lose their key.      *)
EXTENDS RateLimiter, FiniteSetTheorems, TLAPS

-----------------------------------------------------------------------------
(* The inductive invariant. *)

Arrived(h) == ~At(h, "idle")

HitIdle == [pc : {"idle"}]
HitStamped == [pc : {"prune", "add", "card", "done"}, stamp : Nat]
HitCounted == [pc : {"expire", "answer"}, stamp : Nat, count : Nat]
Decision == [by : Hit, at : Nat, via : {"redis", "memory"}, ok : BOOLEAN]

\* However many hits there may be, finitely many have come.
Came == {h \in Hit : Arrived(h)}
FinitelyMany == IsFiniteSet(Came)

\* No timer is overdue, no timestamp is of the future, no pipeline late.
Clocked ==
  /\ now <= nextGc /\ nextGc <= now + GcPeriod
  /\ \A h \in Hit : /\ Arrived(h) => hit[h].stamp <= now
                    /\ hit[h].pc \in InPipeline => now <= hit[h].stamp + MaxDelay

\* A hit is decided once.
Decisions ==
  /\ \A d \in decided : /\ At(d.by, "done") /\ d.at <= now
                        /\ d.via = "redis" => d.at = hit[d.by].stamp
  /\ \A d, e \in decided : d.by = e.by => d = e

\* The memory holds hits it decided, and all of those a window keeps.
Remembered ==
  /\ \A e \in memory :
       /\ e.at + Retention + GcPeriod > nextGc
       /\ \E d \in decided : d.via = "memory" /\ d.by = e.by /\ d.at = e.at
  /\ windowMs <= Retention =>
       \A d \in decided :
         d.via = "memory" /\ d.at + windowMs > now => [by |-> d.by, at |-> d.at] \in memory

\* The sorted set holds hits under their own timestamps; it goes in time, or a
\* pipeline is about to say when.
Sorted ==
  /\ \A e \in zset : Arrived(e.by) /\ e.at = hit[e.by].stamp
  /\ zsetExp # 0 => zsetExp > now /\ zsetExp <= now + Ttl
  /\ zset # {} /\ zsetExp = 0 => \E h \in Hit : hit[h].pc \in {"card", "expire"}

\* Hits the sorted set was told of and has not lost with its key.
Told(h) ==
  /\ h \notin cut
  /\ \/ hit[h].pc \in {"card", "expire", "answer"}
     \/ \E d \in decided : d.by = h /\ d.via = "redis"

\* It holds every such hit for a window, and stays that long once the hit's own
\* pipeline has said so.
ToldKept ==
  \A h \in Hit :
    Told(h) /\ now < hit[h].stamp + windowMs =>
      /\ Entry(h) \in zset
      /\ hit[h].pc \notin {"card", "expire"} => zsetExp >= hit[h].stamp + windowMs

\* Hits that Redis has let through, or will.
Admitted(h) ==
  /\ h \notin cut
  /\ \/ hit[h].pc \in {"expire", "answer"} /\ ~Exceeds(hit[h].count)
     \/ \E d \in decided : d.by = h /\ d.via = "redis" /\ d.ok
AdmittedIn(from) ==
  {h \in Hit : Admitted(h) /\ hit[h].stamp >= from
                           /\ hit[h].stamp < from + (windowMs - MaxDelay)}

\* RedisWindow holds already of the hits whose count is known.
Admissions ==
  max # NaN /\ windowMs > MaxDelay =>
    \A from \in 0..MaxTime : Cardinality(AdmittedIn(from)) <= max

Crowd(h) ==
  {g \in Hit \ {h} : /\ Arrived(g) /\ hit[g].stamp <= hit[h].stamp + MaxDelay
                     /\ hit[g].stamp + windowMs + MaxDelay > hit[h].stamp}

\* What a pipeline counts are hits about a window before its own.
Crowded ==
  \A h \in Hit :
    /\ hit[h].pc \in {"add", "card"} =>
         \A e \in zset : e.at + windowMs + MaxDelay > hit[h].stamp
    /\ hit[h].pc \in {"expire", "answer"} =>
         /\ hit[h].count <= Cardinality(Crowd(h)) + 1
         /\ h \notin cut /\ windowMs > MaxDelay => hit[h].count > 0

\* TypeOK less what it says of counts, which Crowded repeats.
Types ==
  /\ windowMs \in Windows /\ max \in Limit
  /\ now \in 0..MaxTime
  /\ zset \subseteq Stamped /\ zsetExp \in Nat
  /\ memory \subseteq Stamped /\ nextGc \in Nat
  /\ hit \in [Hit -> HitIdle \cup HitStamped \cup HitCounted]
  /\ decided \subseteq Decision
  /\ cut \subseteq Hit

LimiterInv ==
  /\ Types /\ FinitelyMany /\ Clocked /\ Decisions /\ Remembered /\ Sorted /\ ToldKept
  /\ MemoryWindow /\ Admissions /\ Crowded /\ RefusalExplained

-----------------------------------------------------------------------------
(* Types, and what a step may do to a hit. *)

LEMMA HitTypes ==
  ASSUME Types, NEW h \in Hit
  PROVE  /\ hit \in [Hit -> HitIdle \cup HitStamped \cup HitCounted]
         /\ hit[h] \in HitIdle <=> At(h, "idle")
         /\ hit[h] \in HitStamped <=> hit[h].pc \in {"prune", "add", "card", "done"}
         /\ hit[h] \in HitCounted <=> hit[h].pc \in {"expire", "answer"}
         /\ Arrived(h) => hit[h].stamp \in Nat
         /\ hit[h].pc \in {"expire", "answer"} => hit[h].count \in Nat
<1>1. hit \in [Hit -> HitIdle \cup HitStamped \cup HitCounted]
  BY DEF Types
<1>2. hit[h] \in HitIdle \cup HitStamped \cup HitCounted
  BY <1>1
<1>3. PICK k \in HitIdle \cup HitStamped \cup HitCounted : k = hit[h]
  BY <1>2
<1>4. /\ k \in HitIdle <=> k.pc = "idle"
      /\ k \in HitStamped <=> k.pc \in {"prune", "add", "card", "done"}
      /\ k \in HitCounted <=> k.pc \in {"expire", "answer"}
      /\ k.pc # "idle" => k.stamp \in Nat
      /\ k.pc \in {"expire", "answer"} => k.count \in Nat
  BY DEF HitIdle, HitStamped, HitCounted
<1>5. QED BY <1>1, <1>3, <1>4 DEF Arrived, At

\* A pipeline moves from command to command under the timestamp it came with.
LEMMA HitMoves ==
  ASSUME Types, NEW h \in Hit, NEW pc \in {"add", "card"},
         At(h, "prune") \/ At(h, "add"),
         Goes(h, [hit[h] EXCEPT !.pc = pc])
  PROVE  hit' = [hit EXCEPT ![h] = [pc |-> pc, stamp |-> hit[h].stamp]]
<1>1. hit[h] \in HitStamped
  BY HitTypes DEF At
<1>2. PICK k \in HitStamped : k = hit[h]
  BY <1>1
<1>3. [k EXCEPT !.pc = pc] = [pc |-> pc, stamp |-> k.stamp]
  BY DEF HitStamped
<1>4. QED BY <1>2, <1>3 DEF Goes

LEMMA HitAnswers ==
  ASSUME Types, NEW h \in Hit, At(h, "expire"), Goes(h, [hit[h] EXCEPT !.pc = "answer"])
  PROVE  hit' = [hit EXCEPT ![h] = [pc |-> "answer", stamp |-> hit[h].stamp,
                                    count |-> hit[h].count]]
<1>1. hit[h] \in HitCounted
  BY HitTypes DEF At
<1>2. PICK k \in HitCounted : k = hit[h]
  BY <1>1
<1>3. [k EXCEPT !.pc = "answer"] = [pc |-> "answer", stamp |-> k.stamp, count |-> k.count]
  BY DEF HitCounted
<1>4. QED BY <1>2, <1>3 DEF Goes

\* At least a window, in whole seconds.
LEMMA TtlIsLong == Types => Ttl \in Nat /\ Ttl >= windowMs /\ windowMs \in Nat \ {0}
<1> SUFFICES ASSUME Types PROVE Ttl \in Nat /\ Ttl >= windowMs /\ windowMs \in Nat \ {0}
  OBVIOUS
<1>1. windowMs \in Nat \ {0} /\ Second \in Nat \ {0}
  BY LimiterAssumption DEF Types
<1>2. PICK w \in Nat \ {0} : w = windowMs
  BY <1>1
<1>3. PICK s \in Nat \ {0} : s = Second
  BY <1>1
<1>4. /\ (w + s - 1) \div s \in Int
      /\ (w + s - 1) = s * ((w + s - 1) \div s) + ((w + s - 1) % s)
      /\ (w + s - 1) % s \in 0..(s - 1)
  OBVIOUS
<1>5. s * ((w + s - 1) \div s) \in Int
  BY <1>4
<1>6. QED BY <1>2, <1>3, <1>4, <1>5 DEF Ttl

\* What each command makes of its hit.
LEMMA HitSteps ==
  ASSUME Types, NEW h \in Hit
  PROVE  /\ Arrive(h) => \E pc \in {"prune", "done"} :
                           hit' = [hit EXCEPT ![h] = [pc |-> pc, stamp |-> now]]
         /\ Prune(h) => hit' = [hit EXCEPT ![h] = [pc |-> "add", stamp |-> hit[h].stamp]]
         /\ Add(h) => hit' = [hit EXCEPT ![h] = [pc |-> "card", stamp |-> hit[h].stamp]]
         /\ Card(h) => hit' = [hit EXCEPT ![h] = [pc |-> "expire", stamp |-> hit[h].stamp,
                                                 count |-> Cardinality(zset)]]
         /\ Expire(h) => hit' = [hit EXCEPT ![h] = [pc |-> "answer", stamp |-> hit[h].stamp,
                                                   count |-> hit[h].count]]
         /\ Answer(h) \/ FallBack(h) =>
              hit' = [hit EXCEPT ![h] = [pc |-> "done", stamp |-> hit[h].stamp]]
<1>1. Arrive(h) => \E pc \in {"prune", "done"} :
                     hit' = [hit EXCEPT ![h] = [pc |-> pc, stamp |-> now]]
  BY DEF Arrive, Goes, Done
<1>2. Prune(h) => hit' = [hit EXCEPT ![h] = [pc |-> "add", stamp |-> hit[h].stamp]]
  BY HitMoves, Zenon DEF Prune
<1>3. Add(h) => hit' = [hit EXCEPT ![h] = [pc |-> "card", stamp |-> hit[h].stamp]]
  BY HitMoves, Zenon DEF Add
<1>4. Card(h) => hit' = [hit EXCEPT ![h] = [pc |-> "expire", stamp |-> hit[h].stamp,
                                           count |-> Cardinality(zset)]]
  BY DEF Card, Goes
<1>5. Expire(h) => hit' = [hit EXCEPT ![h] = [pc |-> "answer", stamp |-> hit[h].stamp,
                                             count |-> hit[h].count]]
  BY HitAnswers, Zenon DEF Expire
<1>6. Answer(h) \/ FallBack(h) =>
        hit' = [hit EXCEPT ![h] = [pc |-> "done", stamp |-> hit[h].stamp]]
  BY DEF Answer, FallBack, Goes, Done
<1>7. QED BY <1>1, <1>2, <1>3, <1>4, <1>5, <1>6

LEMMA InjectionBound ==
  ASSUME NEW f, NEW S, NEW T, IsFiniteSet(T), f \in [S -> T],
         \A x, y \in S : f[x] = f[y] => x = y
  PROVE  /\ IsFiniteSet(S) /\ Cardinality(S) \in Nat
         /\ Cardinality(S) <= Cardinality(T)
<1>1. f \in Injection(S, T)
  BY DEF Injection, IsInjective
<1>2. QED BY <1>1, FS_Injection, FS_CardinalityType

\* Stores hold finitely many hits, so their sizes are numbers.
LEMMA Sizes ==
  ASSUME Types, FinitelyMany
  PROVE  /\ Sorted => IsFiniteSet(zset) /\ Cardinality(zset) \in Nat
         /\ Decisions => IsFiniteSet(decided) /\ Cardinality(decided) \in Nat
         /\ \A S \in SUBSET Came : IsFiniteSet(S) /\ Cardinality(S) \in Nat
<1>1. ASSUME NEW S \in SUBSET Came PROVE IsFiniteSet(S) /\ Cardinality(S) \in Nat
  BY FS_Subset, FS_CardinalityType DEF FinitelyMany
<1>2. ASSUME Sorted PROVE IsFiniteSet(zset) /\ Cardinality(zset) \in Nat
  <2> DEFINE f == [e \in zset |-> e.by]
  <2>1. zset \subseteq Stamped
    BY DEF Types
  <2>2. f \in [zset -> Came]
    BY <1>2, <2>1 DEF Stamped, Sorted, Came
  <2>3. ASSUME NEW x \in zset, NEW y \in zset, f[x] = f[y] PROVE x = y
    <3>1. x.by = y.by /\ x.at = y.at
      BY <1>2, <2>3 DEF Sorted
    <3>2. QED BY <2>1, <3>1 DEF Stamped
  <2> HIDE DEF f
  <2>4. QED BY <2>2, <2>3, InjectionBound DEF FinitelyMany
<1>3. ASSUME Decisions PROVE IsFiniteSet(decided) /\ Cardinality(decided) \in Nat
  <2> DEFINE f == [d \in decided |-> d.by]
  <2>1. decided \subseteq Decision
    BY DEF Types
  <2>2. f \in [decided -> Came]
    BY <1>3, <2>1 DEF Decision, Decisions, Came, Arrived, At
  <2>3. ASSUME NEW x \in decided, NEW y \in decided, f[x] = f[y] PROVE x = y
    BY <1>3, <2>3 DEF Decisions
  <2> HIDE DEF f
  <2>4. QED BY <2>2, <2>3, InjectionBound DEF FinitelyMany
<1>4. QED BY <1>1, <1>2, <1>3

-----------------------------------------------------------------------------
(* Types and clocks. *)

LEMMA DecideTypes ==
  ASSUME NEW h \in Hit, NEW via \in {"redis", "memory"}, NEW t \in Nat,
         NEW ok \in BOOLEAN, Decide(h, via, t, ok), decided \subseteq Decision
  PROVE  decided' \subseteq Decision
<1>1. [by |-> h, at |-> t, via |-> via, ok |-> ok] \in Decision
  BY Zenon DEF Decision
<1>2. QED BY <1>1 DEF Decide

LEMMA TypesStep ==
  ASSUME Types, FinitelyMany, Sorted, [Next]_limiter
  PROVE  Types'
<1>t. windowMs \in Windows /\ max \in Limit /\ now \in 0..MaxTime /\ zset \subseteq Stamped
      /\ zsetExp \in Nat /\ memory \subseteq Stamped /\ nextGc \in Nat
      /\ decided \subseteq Decision /\ cut \subseteq Hit
      /\ MaxTime \in Nat /\ GcPeriod \in Nat /\ Ttl \in Nat
      /\ hit \in [Hit -> HitIdle \cup HitStamped \cup HitCounted]
  BY TtlIsLong, LimiterAssumption DEF Types
<1>a. ASSUME NEW h \in Hit, NEW k \in HitStamped \cup HitCounted, hit' = [hit EXCEPT ![h] = k]
      PROVE  hit' \in [Hit -> HitIdle \cup HitStamped \cup HitCounted]
  BY <1>t, <1>a
<1>b. ASSUME NEW h \in Hit PROVE Arrived(h) => Entry(h) \in Stamped
  BY HitTypes DEF Entry, Stamped
<1>c. ASSUME NEW h \in Hit, MemoryLimit(h)
      PROVE  memory' \subseteq Stamped /\ decided' \subseteq Decision
  <2> DEFINE timestamps == Recent(memory, now) \cup {[by |-> h, at |-> now]}
             ok == memory = {} \/ AtMost(Cardinality(timestamps))
  <2>1. memory' = timestamps /\ Decide(h, "memory", now, ok)
    BY <1>c DEF MemoryLimit
  <2>2. ok \in BOOLEAN
    BY Zenon DEF AtMost
  <2> HIDE DEF ok
  <2>3. now \in Nat
    BY <1>t
  <2>4. decided' \subseteq Decision
    BY <1>t, <2>1, <2>2, <2>3, DecideTypes
  <2>5. QED BY <1>t, <2>1, <2>3, <2>4 DEF Recent, Stamped
<1>d. ASSUME NEW h \in Hit, NEW pc \in {"prune", "add", "card", "done"}, NEW t \in Nat
      PROVE  [pc |-> pc, stamp |-> t] \in HitStamped
  BY DEF HitStamped
<1>1. ASSUME NEW h \in Hit, Arrive(h) PROVE Types'
  <2>1. hit' \in [Hit -> HitIdle \cup HitStamped \cup HitCounted]
    <3>1. PICK pc \in {"prune", "done"} : hit' = [hit EXCEPT ![h] = [pc |-> pc, stamp |-> now]]
      BY <1>1, HitSteps
    <3>2. [pc |-> pc, stamp |-> now] \in HitStamped
      BY <1>t DEF HitStamped
    <3>3. QED BY <3>1, <3>2, <1>a
  <2>2. memory' \subseteq Stamped /\ decided' \subseteq Decision
    BY <1>1, <1>t, <1>c DEF Arrive
  <2>3. UNCHANGED <<windowMs, max, now, zset, zsetExp, nextGc, cut>>
    BY <1>1 DEF Arrive
  <2>4. QED BY <1>t, <2>1, <2>2, <2>3 DEF Types
<1>2. ASSUME NEW h \in Hit, Prune(h) \/ Add(h) \/ Card(h) \/ Expire(h) PROVE Types'
  <2>0. Arrived(h)
    BY <1>2 DEF Prune, Add, Card, Expire, Arrived, At
  <2>s. hit[h].stamp \in Nat
    BY <2>0, HitTypes
  <2>1. hit' \in [Hit -> HitIdle \cup HitStamped \cup HitCounted]
    <3>1. CASE Prune(h)
      BY <3>1, <2>s, <1>a, <1>d, HitSteps
    <3>2. CASE Add(h)
      BY <3>2, <2>s, <1>a, <1>d, HitSteps
    <3>3. CASE Card(h)
      <4>1. [pc |-> "expire", stamp |-> hit[h].stamp, count |-> Cardinality(zset)] \in HitCounted
        BY <2>s, Sizes DEF HitCounted
      <4>2. QED BY <3>3, <4>1, <1>a, HitSteps
    <3>4. CASE Expire(h)
      <4>1. [pc |-> "answer", stamp |-> hit[h].stamp, count |-> hit[h].count] \in HitCounted
        BY <3>4, <2>s, HitTypes DEF HitCounted, Expire, At
      <4>2. QED BY <3>4, <4>1, <1>a, HitSteps
    <3>5. QED BY <1>2, <3>1, <3>2, <3>3, <3>4
  <2>2. zset' \subseteq Stamped /\ zsetExp' \in Nat
    BY <1>2, <1>t, <1>b, <2>0 DEF Prune, Add, Card, Expire, Recent
  <2>3. UNCHANGED <<windowMs, max, now, memory, nextGc, decided, cut>>
    BY <1>2 DEF Prune, Add, Card, Expire
  <2>4. QED BY <1>t, <2>1, <2>2, <2>3 DEF Types
<1>3. ASSUME NEW h \in Hit, Answer(h) \/ FallBack(h) PROVE Types'
  <2>s. hit[h].stamp \in Nat
    BY <1>3, HitTypes DEF Answer, FallBack, Arrived, At
  <2>1. hit' \in [Hit -> HitIdle \cup HitStamped \cup HitCounted]
    BY <1>3, <2>s, <1>a, <1>d, HitSteps
  <2>2. memory' \subseteq Stamped /\ decided' \subseteq Decision
    <3>1. CASE Answer(h)
      <4> DEFINE ok == ~Exceeds(hit[h].count)
      <4>1. ok \in BOOLEAN
        BY Zenon DEF Exceeds
      <4>2. Decide(h, "redis", hit[h].stamp, ok) /\ UNCHANGED memory
        BY <3>1 DEF Answer
      <4> HIDE DEF ok
      <4>3. QED BY <4>1, <4>2, <1>t, <2>s, DecideTypes
    <3>2. CASE FallBack(h)
      BY <3>2, <1>c DEF FallBack
    <3>3. QED BY <1>3, <3>1, <3>2
  <2>3. UNCHANGED <<windowMs, max, now, zset, zsetExp, nextGc, cut>>
    BY <1>3 DEF Answer, FallBack
  <2>4. QED BY <1>t, <2>1, <2>2, <2>3 DEF Types
<1>4. CASE Collect
  BY <1>4, <1>t DEF Collect, Types
<1>5. CASE Tick
  BY <1>5, <1>t DEF Tick, Types
<1>6. CASE UNCHANGED limiter
  BY <1>6, <1>t DEF limiter, Types
<1>7. QED BY <1>1, <1>2, <1>3, <1>4, <1>5, <1>6 DEF Next

HitStep(h) == Arrive(h) \/ Prune(h) \/ Add(h) \/ Card(h) \/ Expire(h) \/ Answer(h) \/ FallBack(h)

\* A step is of one hit, or leaves all of them where they stand.
LEMMA NextSteps ==
  ASSUME Types, [Next]_limiter
  PROVE  /\ UNCHANGED <<windowMs, max>>
         /\ \/ \E h \in Hit : HitStep(h) /\ (\A g \in Hit \ {h} : hit'[g] = hit[g])
                              /\ UNCHANGED <<now, nextGc, cut>>
            \/ (Collect \/ Tick \/ UNCHANGED limiter) /\ UNCHANGED hit
<1>1. UNCHANGED <<windowMs, max>>
  BY DEF Next, limiter, Arrive, Prune, Add, Card, Expire, Answer, FallBack, Collect, Tick
<1>2. ASSUME NEW h \in Hit, HitStep(h)
      PROVE  (\A g \in Hit \ {h} : hit'[g] = hit[g]) /\ UNCHANGED <<now, nextGc, cut>>
  <2>1. \E k : hit' = [hit EXCEPT ![h] = k]
    BY <1>2 DEF HitStep, Arrive, Prune, Add, Card, Expire, Answer, FallBack, Goes, Done
  <2>2. hit \in [Hit -> HitIdle \cup HitStamped \cup HitCounted]
    BY DEF Types
  <2>3. UNCHANGED <<now, nextGc, cut>>
    BY <1>2 DEF HitStep, Arrive, Prune, Add, Card, Expire, Answer, FallBack
  <2>4. QED BY <2>1, <2>2, <2>3
<1>3. Collect \/ Tick \/ UNCHANGED limiter => UNCHANGED hit
  BY DEF Collect, Tick, limiter
<1>4. QED BY <1>1, <1>2, <1>3 DEF Next, HitStep

Moves == {<<"prune", "add">>, <<"add", "card">>, <<"card", "expire">>,
          <<"expire", "answer">>, <<"answer", "done">>, <<"prune", "done">>}

\* Where a hit stands after a step of its own.
LEMMA OwnStep ==
  ASSUME Types, NEW h \in Hit, HitStep(h)
  PROVE  \/ At(h, "idle") /\ hit'[h].pc \in {"prune", "done"} /\ hit'[h].stamp = now
         \/ /\ Arrived(h) /\ hit'[h].stamp = hit[h].stamp
            /\ <<hit[h].pc, hit'[h].pc>> \in Moves
<1> USE DEF Arrived, At, Moves
<1>0. hit \in [Hit -> HitIdle \cup HitStamped \cup HitCounted]
  BY DEF Types
<1>1. CASE Arrive(h)
  <2>1. PICK pc \in {"prune", "done"} : hit' = [hit EXCEPT ![h] = [pc |-> pc, stamp |-> now]]
    BY <1>1, HitSteps
  <2>2. QED BY <1>0, <1>1, <2>1 DEF Arrive
<1>2. CASE Prune(h)
  <2>1. hit[h].pc = "prune"
    BY <1>2 DEF Prune
  <2>2. hit'[h].pc = "add" /\ hit'[h].stamp = hit[h].stamp
    BY <1>0, <1>2, HitSteps
  <2>3. QED BY <2>1, <2>2
<1>3. CASE Add(h)
  <2>1. hit[h].pc = "add"
    BY <1>3 DEF Add
  <2>2. hit'[h].pc = "card" /\ hit'[h].stamp = hit[h].stamp
    BY <1>0, <1>3, HitSteps
  <2>3. QED BY <2>1, <2>2
<1>4. CASE Card(h)
  <2>1. hit[h].pc = "card"
    BY <1>4 DEF Card
  <2>2. hit'[h].pc = "expire" /\ hit'[h].stamp = hit[h].stamp
    BY <1>0, <1>4, HitSteps
  <2>3. QED BY <2>1, <2>2
<1>5. CASE Expire(h)
  <2>1. hit[h].pc = "expire"
    BY <1>5 DEF Expire
  <2>2. hit'[h].pc = "answer" /\ hit'[h].stamp = hit[h].stamp
    BY <1>0, <1>5, HitSteps
  <2>3. QED BY <2>1, <2>2
<1>6. CASE Answer(h)
  BY <1>0, <1>6, HitSteps DEF Answer
<1>7. CASE FallBack(h)
  BY <1>0, <1>7, HitSteps DEF FallBack
<1>8. QED BY <1>1, <1>2, <1>3, <1>4, <1>5, <1>6, <1>7 DEF HitStep

\* A hit keeps its timestamp, which is the time it came.
LEMMA Stamps ==
  ASSUME Types, [Next]_limiter, NEW g \in Hit
  PROVE  /\ Arrived(g) => Arrived(g)' /\ hit'[g].stamp = hit[g].stamp
         /\ ~Arrived(g) /\ Arrived(g)' => hit'[g].stamp = now /\ now' = now
<1>1. CASE hit'[g] = hit[g]
  BY <1>1 DEF Arrived, At
<1>2. CASE HitStep(g) /\ now' = now
  <2>1. CASE At(g, "idle") /\ hit'[g].pc \in {"prune", "done"} /\ hit'[g].stamp = now
    BY <1>2, <2>1 DEF Arrived, At
  <2>2. CASE Arrived(g) /\ hit'[g].stamp = hit[g].stamp /\ hit'[g].pc # "idle"
    BY <2>2 DEF Arrived, At
  <2>3. QED BY <1>2, <2>1, <2>2, OwnStep DEF At, Moves
<1>3. QED BY <1>1, <1>2, NextSteps

LEMMA FinitelyManyStep ==
  ASSUME Types, FinitelyMany, [Next]_limiter
  PROVE  FinitelyMany'
<1>1. PICK h : Came' \subseteq Came \cup {h}
  BY NextSteps DEF Came, Arrived, At
<1>2. IsFiniteSet(Came \cup {h})
  BY FS_AddElement DEF FinitelyMany
<1>3. QED BY <1>1, <1>2, FS_Subset DEF FinitelyMany

LEMMA ClockedStep ==
  ASSUME Types, Clocked, [Next]_limiter
  PROVE  Clocked'
<1>t. /\ now \in Nat /\ nextGc \in Nat /\ GcPeriod \in Nat \ {0} /\ MaxDelay \in Nat
      /\ \A g \in Hit : Arrived(g) => hit[g].stamp \in Nat
  BY HitTypes, LimiterAssumption DEF Types
<1>1. now <= nextGc /\ nextGc <= now + GcPeriod
  BY DEF Clocked
<1>2. now' \in Nat /\ now <= now' /\ now' <= nextGc' /\ nextGc' <= now' + GcPeriod
  <2>1. CASE UNCHANGED <<now, nextGc>>
    BY <2>1, <1>t, <1>1
  <2>2. CASE Collect
    BY <2>2, <1>t, <1>1 DEF Collect
  <2>3. CASE Tick
    BY <2>3, <1>t, <1>1 DEF Tick
  <2>4. QED BY <2>1, <2>2, <2>3, NextSteps DEF limiter
<1>3. ASSUME NEW g \in Hit, Arrived(g)' PROVE hit'[g].stamp <= now'
  BY <1>2, <1>3, <1>t, Stamps DEF Clocked
<1>4. ASSUME NEW g \in Hit, hit'[g].pc \in InPipeline PROVE now' <= hit'[g].stamp + MaxDelay
  <2>1. CASE HitStep(g) /\ now' = now
    BY <2>1, <1>4, <1>t, OwnStep DEF Moves, InPipeline, At, Arrived, Clocked
  <2>2. CASE hit'[g] = hit[g] /\ now' = now
    BY <2>2, <1>4 DEF Clocked
  <2>3. CASE Tick /\ hit' = hit
    <3>1. now' = now + 1 /\ now < hit[g].stamp + MaxDelay /\ Arrived(g)
      BY <2>3, <1>4 DEF Tick, Arrived, At, InPipeline
    <3>2. QED BY <2>3, <3>1, <1>t
  <2>4. QED BY <2>1, <2>2, <2>3, NextSteps DEF Collect, limiter
<1>5. QED BY <1>2, <1>3, <1>4 DEF Clocked

-----------------------------------------------------------------------------
(* Decisions and the memory store. *)

\* Who decides, and what.
LEMMA DecideSteps ==
  ASSUME Types, [Next]_limiter
  PROVE  \/ /\ UNCHANGED decided /\ (\A h \in Hit : At(h, "done") <=> At(h, "done")')
            /\ Collect \/ UNCHANGED <<memory, nextGc>>
         \/ \E h \in Hit : /\ HitStep(h) /\ ~At(h, "done") /\ At(h, "done")'
                           /\ \A g \in Hit \ {h} : hit'[g] = hit[g]
                           /\ UNCHANGED <<now, nextGc, zset, zsetExp, cut>>
                           /\ \/ MemoryLimit(h)
                              \/ /\ Answer(h) /\ UNCHANGED memory
                                 /\ Decide(h, "redis", hit'[h].stamp, ~Exceeds(hit[h].count))
<1> USE DEF At
<1>0. hit \in [Hit -> HitIdle \cup HitStamped \cup HitCounted]
  BY DEF Types
<1>1. ASSUME NEW h \in Hit, Arrive(h), \A g \in Hit \ {h} : hit'[g] = hit[g]
      PROVE  \/ UNCHANGED <<memory, decided>> /\ At(h, "prune")'
             \/ MemoryLimit(h) /\ At(h, "done")'
  BY <1>0, <1>1 DEF Arrive, Goes, Done
<1>2. ASSUME NEW h \in Hit, Answer(h) \/ FallBack(h)
      PROVE  At(h, "done")' /\ hit'[h].stamp = hit[h].stamp
  BY <1>0, <1>2, HitSteps
<1>3. ASSUME NEW h \in Hit, HitStep(h), \A g \in Hit \ {h} : hit'[g] = hit[g],
             UNCHANGED <<now, nextGc, cut>>
      PROVE  \/ UNCHANGED <<memory, decided>> /\ (\A g \in Hit : At(g, "done") <=> At(g, "done")')
             \/ /\ HitStep(h) /\ ~At(h, "done") /\ At(h, "done")'
                /\ UNCHANGED <<zset, zsetExp>>
                /\ \/ MemoryLimit(h)
                   \/ /\ Answer(h) /\ UNCHANGED memory
                      /\ Decide(h, "redis", hit'[h].stamp, ~Exceeds(hit[h].count))
  <2>1. CASE Arrive(h)
    BY <1>1, <1>3, <2>1 DEF Arrive
  <2>2. CASE Prune(h) \/ Add(h) \/ Card(h) \/ Expire(h)
    <3>1. UNCHANGED <<memory, decided>> /\ ~At(h, "done")
      BY <2>2 DEF Prune, Add, Card, Expire
    <3>2. ~At(h, "done")'
      BY <2>2, <1>0, HitSteps
    <3>3. QED BY <3>1, <3>2, <1>3
  <2>3. CASE Answer(h)
    BY <1>2, <1>3, <2>3 DEF Answer
  <2>4. CASE FallBack(h)
    BY <1>2, <1>3, <2>4 DEF FallBack
  <2>5. QED BY <1>3, <2>1, <2>2, <2>3, <2>4 DEF HitStep
<1>4. Collect \/ Tick \/ UNCHANGED limiter =>
        UNCHANGED <<decided, hit>> /\ (Collect \/ UNCHANGED <<memory, nextGc>>)
  BY DEF Collect, Tick, limiter
<1>5. QED BY <1>3, <1>4, NextSteps

LEMMA TimePasses ==
  ASSUME Types, [Next]_limiter
  PROVE  now \in Nat /\ now' \in Nat /\ now <= now'
<1>1. now \in Nat
  BY LimiterAssumption DEF Types
<1>2. now' \in {now, now + 1}
  BY NextSteps DEF Collect, Tick, limiter
<1>3. QED BY <1>1, <1>2

\* What the hit decided leaves in the history, and in the memory if that decided.
MemoryDecision(h, d) ==
  /\ d.via = "memory" /\ d.at = now
  /\ memory' = Recent(memory, now) \cup {[by |-> h, at |-> now]}
  /\ d.ok = (memory = {} \/ AtMost(Cardinality(memory')))
RedisDecision(h, d) ==
  /\ d.via = "redis" /\ d.at = hit'[h].stamp
  /\ Answer(h) /\ UNCHANGED memory /\ d.ok = ~Exceeds(hit[h].count)

LEMMA NewDecision ==
  ASSUME Types, FinitelyMany, Sorted, [Next]_limiter, NEW h \in Hit,
         \/ MemoryLimit(h)
         \/ /\ Answer(h) /\ UNCHANGED memory
            /\ Decide(h, "redis", hit'[h].stamp, ~Exceeds(hit[h].count))
  PROVE  \E d \in Decision : /\ decided' = decided \cup {d} /\ d.by = h
                             /\ MemoryDecision(h, d) \/ RedisDecision(h, d)
<1>t. decided' \subseteq Decision
  BY TypesStep DEF Types
<1>1. CASE MemoryLimit(h)
  <2> DEFINE d == [by |-> h, at |-> now, via |-> "memory",
                   ok |-> (memory = {} \/ AtMost(Cardinality(memory')))]
  <2>1. decided' = decided \cup {d} /\ memory' = Recent(memory, now) \cup {[by |-> h, at |-> now]}
    BY <1>1 DEF MemoryLimit, Decide
  <2>2. d \in Decision
    BY <1>t, <2>1
  <2>3. d.by = h /\ d.via = "memory" /\ d.at = now /\ d.ok = (memory = {} \/ AtMost(Cardinality(memory')))
    OBVIOUS
  <2> HIDE DEF d
  <2>4. QED BY <2>1, <2>2, <2>3 DEF MemoryDecision
<1>2. CASE Answer(h) /\ UNCHANGED memory /\ Decide(h, "redis", hit'[h].stamp, ~Exceeds(hit[h].count))
  <2> DEFINE d == [by |-> h, at |-> hit'[h].stamp, via |-> "redis", ok |-> ~Exceeds(hit[h].count)]
  <2>1. decided' = decided \cup {d}
    BY <1>2 DEF Decide
  <2>2. d \in Decision
    BY <1>t, <2>1
  <2>3. d.by = h /\ d.via = "redis" /\ d.at = hit'[h].stamp /\ d.ok = ~Exceeds(hit[h].count)
    OBVIOUS
  <2> HIDE DEF d
  <2>4. QED BY <1>2, <2>1, <2>2, <2>3 DEF RedisDecision
<1>3. QED BY <1>1, <1>2

LEMMA DecisionsStep ==
  ASSUME Types, FinitelyMany, Sorted, Clocked, Decisions, [Next]_limiter
  PROVE  Decisions'
<1>1. \A d \in decided : d.by \in Hit /\ d.at \in Nat
  BY DEF Types, Decision
<1>2. \A d \in decided : d.at <= now' /\ (d.via = "redis" => d.at = hit'[d.by].stamp)
  <2>1. \A d \in decided : hit'[d.by].stamp = hit[d.by].stamp
    BY <1>1, Stamps DEF Decisions, Arrived, At
  <2>2. QED BY <1>1, <2>1, TimePasses DEF Decisions
<1>3. CASE UNCHANGED decided /\ (\A h \in Hit : At(h, "done") <=> At(h, "done")')
  <2>1. \A d \in decided : At(d.by, "done")'
    BY <1>1, <1>3 DEF Decisions
  <2>2. QED BY <1>2, <1>3, <2>1 DEF Decisions
<1>4. ASSUME NEW h \in Hit, HitStep(h), ~At(h, "done"), At(h, "done")',
             \A g \in Hit \ {h} : hit'[g] = hit[g], now' = now,
             \/ MemoryLimit(h)
             \/ /\ Answer(h) /\ UNCHANGED memory
                /\ Decide(h, "redis", hit'[h].stamp, ~Exceeds(hit[h].count))
      PROVE  Decisions'
  <2>1. PICK d \in Decision : /\ decided' = decided \cup {d} /\ d.by = h
                              /\ MemoryDecision(h, d) \/ RedisDecision(h, d)
    BY <1>4, NewDecision
  <2>2. \A e \in decided : e.by # h /\ At(e.by, "done")'
    BY <1>1, <1>4 DEF Decisions, At
  <2>3. d.at <= now' /\ (d.via = "redis" => d.at = hit'[h].stamp)
    <3>1. CASE MemoryDecision(h, d)
      BY <3>1, <1>4, TimePasses DEF MemoryDecision
    <3>2. CASE RedisDecision(h, d)
      <4>1. Arrived(h) /\ hit[h].stamp <= now
        BY <3>2 DEF RedisDecision, Answer, Arrived, At, Clocked
      <4>2. hit'[h].stamp = hit[h].stamp
        BY <4>1, Stamps
      <4>3. QED BY <3>2, <4>1, <4>2, <1>4 DEF RedisDecision
    <3>3. QED BY <2>1, <3>1, <3>2
  <2>4. QED BY <1>2, <1>4, <2>1, <2>2, <2>3 DEF Decisions
<1>5. QED BY <1>3, <1>4, DecideSteps

LEMMA RememberedStep ==
  ASSUME Types, FinitelyMany, Sorted, Clocked, Remembered, [Next]_limiter
  PROVE  Remembered'
<1>t. /\ now \in Nat /\ nextGc \in Nat /\ GcPeriod \in Nat \ {0} /\ Retention \in Nat \ {0}
      /\ windowMs \in Nat \ {0} /\ UNCHANGED windowMs
      /\ memory \subseteq Stamped /\ memory' \subseteq Stamped
      /\ decided \subseteq Decision /\ decided' \subseteq Decision
  BY TypesStep, NextSteps, LimiterAssumption DEF Types
<1>u. (\A d \in decided \cup decided' : d.at \in Nat) /\ (\A e \in memory \cup memory' : e.at \in Nat)
  BY <1>t DEF Decision, Stamped
<1>1. ASSUME UNCHANGED <<memory, decided, nextGc>>
      PROVE  Remembered'
  BY <1>1, <1>t, <1>u, TimePasses DEF Remembered
<1>2. CASE Collect
  <2>1. /\ memory' = {e \in memory : e.at + Retention > now}
        /\ now = nextGc /\ nextGc' = now + GcPeriod /\ UNCHANGED <<decided, now>>
    BY <1>2 DEF Collect
  <2>2. \A e \in memory' : e.at + Retention + GcPeriod > nextGc'
    BY <2>1, <1>t, <1>u
  <2>3. ASSUME windowMs <= Retention, NEW d \in decided, d.via = "memory", d.at + windowMs > now
        PROVE  [by |-> d.by, at |-> d.at] \in memory'
    <3>1. [by |-> d.by, at |-> d.at] \in memory
      BY <2>3 DEF Remembered
    <3>2. d.at + Retention > now
      BY <2>3, <1>t, <1>u
    <3>3. QED BY <3>1, <3>2, <2>1
  <2>4. QED BY <2>1, <2>2, <2>3, <1>t DEF Remembered
<1>4. ASSUME NEW h \in Hit, NEW d \in Decision, decided' = decided \cup {d}, d.by = h,
             MemoryDecision(h, d), UNCHANGED <<now, nextGc>>
      PROVE  Remembered'
  <2>1. d.via = "memory" /\ d.at = now /\ memory' = Recent(memory, now) \cup {[by |-> h, at |-> now]}
    BY <1>4 DEF MemoryDecision
  <2>2. \A e \in memory' : e.at + Retention + GcPeriod > nextGc'
    BY <2>1, <1>4, <1>t, <1>u DEF Remembered, Recent, Clocked
  <2>3. \A e \in memory' : \E x \in decided' : x.via = "memory" /\ x.by = e.by /\ x.at = e.at
    BY <2>1, <1>4 DEF Remembered, Recent
  <2>4. ASSUME windowMs <= Retention, NEW x \in decided', x.via = "memory", x.at + windowMs > now
        PROVE  [by |-> x.by, at |-> x.at] \in memory'
    <3>1. CASE x = d
      BY <3>1, <2>1, <1>4
    <3>2. CASE x \in decided
      <4>1. [by |-> x.by, at |-> x.at] \in memory
        BY <3>2, <2>4 DEF Remembered
      <4>2. QED BY <4>1, <2>1, <2>4 DEF Recent
    <3>3. QED BY <3>1, <3>2, <1>4
  <2>5. QED BY <2>2, <2>3, <2>4, <1>4, <1>t DEF Remembered
<1>5. ASSUME NEW h \in Hit, NEW d \in Decision, decided' = decided \cup {d},
             RedisDecision(h, d), UNCHANGED <<now, nextGc>>
      PROVE  Remembered'
  <2>1. d.via = "redis" /\ UNCHANGED memory
    BY <1>5 DEF RedisDecision
  <2>2. \A e \in memory' : \E x \in decided' : x.via = "memory" /\ x.by = e.by /\ x.at = e.at
    BY <2>1, <1>5 DEF Remembered
  <2>3. QED BY <2>1, <2>2, <1>5, <1>t DEF Remembered
<1>6. CASE UNCHANGED decided /\ (Collect \/ UNCHANGED <<memory, nextGc>>)
  BY <1>1, <1>2, <1>6
<1>7. ASSUME NEW h \in Hit, HitStep(h), UNCHANGED <<now, nextGc>>,
             \/ MemoryLimit(h)
             \/ /\ Answer(h) /\ UNCHANGED memory
                /\ Decide(h, "redis", hit'[h].stamp, ~Exceeds(hit[h].count))
      PROVE  Remembered'
  BY <1>4, <1>5, <1>7, NewDecision
<1>8. QED BY <1>6, <1>7, DecideSteps

-----------------------------------------------------------------------------
(* The sorted set. *)

LEMMA ZsetSteps ==
  ASSUME Types, [Next]_limiter
  PROVE  \/ UNCHANGED <<zset, zsetExp>>
         \/ \E h \in Hit : (Prune(h) \/ Add(h) \/ Expire(h)) /\ \A g \in Hit \ {h} : hit'[g] = hit[g]
         \/ Tick
<1>1. ASSUME NEW h \in Hit, Arrive(h) \/ Card(h) \/ Answer(h) \/ FallBack(h)
      PROVE  UNCHANGED <<zset, zsetExp>>
  BY <1>1 DEF Arrive, Card, Answer, FallBack
<1>2. Collect \/ UNCHANGED limiter => UNCHANGED <<zset, zsetExp>>
  BY DEF Collect, limiter
<1>3. QED BY <1>1, <1>2, NextSteps DEF HitStep

LEMMA SortedStep ==
  ASSUME Types, Sorted, [Next]_limiter
  PROVE  Sorted'
<1>t. /\ zset \subseteq Stamped /\ zsetExp \in Nat /\ now \in Nat
      /\ Ttl \in Nat \ {0} /\ Ttl' = Ttl
      /\ hit \in [Hit -> HitIdle \cup HitStamped \cup HitCounted]
  BY TtlIsLong, NextSteps, LimiterAssumption DEF Types, Ttl
<1>1. ASSUME NEW e \in zset' PROVE Arrived(e.by)' /\ e.at = hit'[e.by].stamp
  <2>1. CASE e \in zset
    <3>1. e.by \in Hit /\ Arrived(e.by) /\ e.at = hit[e.by].stamp
      BY <1>t, <2>1 DEF Sorted, Stamped
    <3>2. QED BY <3>1, Stamps
  <2>2. CASE e \notin zset
    <3>1. PICK h \in Hit : Add(h) /\ e = Entry(h)
      BY <1>1, <2>2, ZsetSteps DEF Prune, Add, Expire, Tick, Recent
    <3>2. e.by = h /\ e.at = hit[h].stamp /\ Arrived(h)
      BY <3>1 DEF Entry, Add, Arrived, At
    <3>3. QED BY <3>2, Stamps
  <2>3. QED BY <2>1, <2>2
<1>2. zsetExp' # 0 => zsetExp' > now' /\ zsetExp' <= now' + Ttl'
  <2>1. CASE UNCHANGED zsetExp /\ UNCHANGED now
    BY <2>1, <1>t DEF Sorted
  <2>2. ASSUME NEW h \in Hit, Prune(h)
        PROVE  zsetExp' # 0 => zsetExp' > now' /\ zsetExp' <= now' + Ttl'
    BY <2>2, <1>t DEF Prune, Sorted
  <2>3. ASSUME NEW h \in Hit, Expire(h)
        PROVE  zsetExp' # 0 => zsetExp' > now' /\ zsetExp' <= now' + Ttl'
    BY <2>3, <1>t DEF Expire
  <2>4. CASE Tick
    BY <2>4, <1>t DEF Tick, Sorted
  <2>5. ASSUME NEW h \in Hit, Add(h) PROVE UNCHANGED zsetExp /\ UNCHANGED now
    BY <2>5 DEF Add
  <2>6. Tick \/ UNCHANGED now
    BY NextSteps DEF Collect, limiter
  <2>7. QED BY <2>1, <2>2, <2>3, <2>4, <2>5, <2>6, ZsetSteps
<1>3. ASSUME zset' # {}, zsetExp' = 0
      PROVE  \E h \in Hit : hit'[h].pc \in {"card", "expire"}
  <2>1. ASSUME NEW h \in Hit, Add(h)
        PROVE  hit'[h].pc \in {"card", "expire"}
    <3>1. hit' = [hit EXCEPT ![h] = [pc |-> "card", stamp |-> hit[h].stamp]]
      BY <2>1, HitSteps
    <3>2. QED BY <3>1, <1>t
  <2>2. ASSUME NEW h \in Hit, Expire(h) PROVE FALSE
    BY <2>2, <1>3, <1>t DEF Expire
  <2>3. CASE zset # {} /\ zsetExp = 0 /\ \A h \in Hit : ~Expire(h)
    <3>1. PICK g \in Hit : hit[g].pc \in {"card", "expire"}
      BY <2>3 DEF Sorted
    <3>2. CASE hit'[g] = hit[g]
      BY <3>1, <3>2
    <3>3. CASE HitStep(g)
      <4>1. ~(hit[g].pc = "expire")
        BY <2>3, <3>3 DEF HitStep, Arrive, Prune, Add, Card, Answer, FallBack, At
      <4>2. QED BY <3>1, <3>3, <4>1, OwnStep DEF At, Moves
    <3>4. QED BY <3>2, <3>3, NextSteps
  <2>4. ASSUME NEW h \in Hit, Prune(h) PROVE zset # {} /\ zsetExp = 0
    BY <2>4, <1>3 DEF Prune, Recent
  <2>5. Tick => zset # {} /\ zsetExp = 0
    BY <1>3 DEF Tick
  <2>6. QED BY <1>3, <2>1, <2>2, <2>3, <2>4, <2>5, ZsetSteps
<1>4. QED BY <1>1, <1>2, <1>3 DEF Sorted

\* The sorted set is told of a hit by its ZADD.
LEMMA TellSteps ==
  ASSUME Types, FinitelyMany, Sorted, [Next]_limiter, NEW g \in Hit, Told(g)'
  PROVE  Told(g) \/ Add(g)
<1>1. g \notin cut
  BY NextSteps DEF Told, Collect, Tick, limiter
<1>2. ASSUME hit'[g].pc \in {"card", "expire", "answer"}
      PROVE  Told(g) \/ Add(g)
  <2>1. CASE hit'[g] = hit[g]
    BY <1>1, <1>2, <2>1 DEF Told
  <2>2. CASE HitStep(g)
    <3>1. hit[g].pc \in {"add", "card", "expire"}
      BY <1>2, <2>2, OwnStep DEF Moves, At
    <3>2. CASE hit[g].pc = "add"
      BY <2>2, <3>2 DEF HitStep, Arrive, Prune, Card, Expire, Answer, FallBack, At
    <3>3. QED BY <1>1, <3>1, <3>2 DEF Told
  <2>3. QED BY <2>1, <2>2, NextSteps
<1>3. ASSUME NEW d \in decided', d.by = g, d.via = "redis"
      PROVE  Told(g)
  <2>1. CASE d \in decided
    BY <1>1, <1>3, <2>1 DEF Told
  <2>2. CASE d \notin decided
    <3>1. PICK h \in Hit : \/ MemoryLimit(h)
                           \/ /\ Answer(h) /\ UNCHANGED memory
                              /\ Decide(h, "redis", hit'[h].stamp, ~Exceeds(hit[h].count))
      BY <1>3, <2>2, DecideSteps
    <3>2. PICK e \in Decision : /\ decided' = decided \cup {e} /\ e.by = h
                                /\ MemoryDecision(h, e) \/ RedisDecision(h, e)
      BY <3>1, NewDecision
    <3>3. e = d /\ h = g /\ RedisDecision(h, e)
      BY <1>3, <2>2, <3>2 DEF MemoryDecision
    <3>4. hit[g].pc = "answer"
      BY <3>3 DEF RedisDecision, Answer, At
    <3>5. QED BY <1>1, <3>4 DEF Told
  <2>3. QED BY <2>1, <2>2
<1>4. QED BY <1>2, <1>3 DEF Told

LEMMA ToldKeptStep ==
  ASSUME Types, FinitelyMany, Clocked, Decisions, Sorted, ToldKept, [Next]_limiter
  PROVE  ToldKept'
<1>t. /\ zset \subseteq Stamped /\ zsetExp \in Nat /\ now \in Nat /\ now' \in Nat /\ now <= now'
      /\ Ttl \in Nat /\ Ttl >= windowMs /\ windowMs \in Nat \ {0} /\ windowMs' = windowMs
      /\ hit \in [Hit -> HitIdle \cup HitStamped \cup HitCounted]
  BY TtlIsLong, NextSteps, TimePasses DEF Types
<1> SUFFICES ASSUME NEW g \in Hit, Told(g)', now' < hit'[g].stamp + windowMs
             PROVE  /\ Entry(g)' \in zset'
                    /\ hit'[g].pc \notin {"card", "expire"} => zsetExp' >= hit'[g].stamp + windowMs
  BY <1>t DEF ToldKept
<1>1. CASE Add(g)
  <2>1. hit' = [hit EXCEPT ![g] = [pc |-> "card", stamp |-> hit[g].stamp]]
    BY <1>1, HitSteps
  <2>2. hit'[g].pc = "card" /\ hit'[g].stamp = hit[g].stamp
    BY <2>1, <1>t
  <2>3. Entry(g) \in zset'
    BY <1>1 DEF Add
  <2>4. QED BY <2>2, <2>3 DEF Entry
<1>2. CASE Told(g) /\ ~Add(g)
  <2>0. Arrived(g) /\ ~At(g, "prune")
    BY <1>2 DEF Told, Decisions, Arrived, At
  <2>1. hit[g].stamp \in Nat /\ hit[g].stamp <= now /\ hit'[g].stamp = hit[g].stamp
    BY <2>0, HitTypes, Stamps DEF Clocked
  <2>2. now < hit[g].stamp + windowMs
    BY <1>t, <2>1
  <2>3. Entry(g) \in zset /\ Entry(g)' = Entry(g)
    BY <1>2, <2>1, <2>2 DEF ToldKept, Entry
  <2>4. hit[g].pc \notin {"card", "expire"} => zsetExp >= hit[g].stamp + windowMs
    BY <1>2, <2>2 DEF ToldKept
  <2>5. CASE UNCHANGED <<zset, zsetExp>> /\ ~Expire(g)
    <3>1. hit'[g].pc \notin {"card", "expire"} => hit[g].pc \notin {"card", "expire"}
      <4>1. CASE hit'[g] = hit[g]
        BY <4>1
      <4>2. CASE HitStep(g)
        <5>1. ~(hit[g].pc = "expire")
          BY <2>5, <4>2 DEF HitStep, Arrive, Prune, Add, Card, Answer, FallBack, At
        <5>2. QED BY <4>2, <5>1, OwnStep DEF Moves, At
      <4>3. QED BY <4>1, <4>2, NextSteps
    <3>2. QED BY <2>1, <2>3, <2>4, <2>5, <3>1
  <2>6. ASSUME NEW h \in Hit, Prune(h), \A x \in Hit \ {h} : hit'[x] = hit[x]
        PROVE  /\ Entry(g)' \in zset'
               /\ hit'[g].pc \notin {"card", "expire"} => zsetExp' >= hit'[g].stamp + windowMs
    <3>1. At(h, "prune") /\ zset' = Recent(zset, hit[h].stamp)
          /\ zsetExp' = IF zset' = {} THEN 0 ELSE zsetExp
      BY <2>6 DEF Prune
    <3>2. hit'[g] = hit[g]
      BY <2>0, <2>6, <3>1
    <3>3. hit[h].stamp \in Nat /\ hit[h].stamp <= now
      BY <3>1, HitTypes DEF Clocked, Arrived, At
    <3>4. Entry(g).at = hit[g].stamp
      BY DEF Entry
    <3>5. Entry(g) \in zset'
      BY <1>t, <2>1, <2>2, <2>3, <3>1, <3>3, <3>4 DEF Recent
    <3>6. QED BY <2>1, <2>3, <2>4, <3>1, <3>2, <3>5
  <2>7. ASSUME NEW h \in Hit, Add(h), \A x \in Hit \ {h} : hit'[x] = hit[x]
        PROVE  /\ Entry(g)' \in zset'
               /\ hit'[g].pc \notin {"card", "expire"} => zsetExp' >= hit'[g].stamp + windowMs
    <3>1. g # h
      BY <1>2, <2>7
    <3>2. zset \subseteq zset' /\ UNCHANGED zsetExp
      BY <2>7 DEF Add
    <3>3. QED BY <2>3, <2>4, <2>7, <3>1, <3>2
  <2>8. ASSUME NEW h \in Hit, Expire(h)
        PROVE  /\ Entry(g)' \in zset'
               /\ hit'[g].pc \notin {"card", "expire"} => zsetExp' >= hit'[g].stamp + windowMs
    <3>1. UNCHANGED zset /\ zsetExp' = now + Ttl
      BY <2>3, <2>8 DEF Expire
    <3>2. QED BY <1>t, <2>1, <2>3, <3>1
  <2>9. CASE Tick
    <3>1. CASE zsetExp # 0 /\ zsetExp <= now'
      <4>1. hit[g].pc \notin {"card", "expire"}
        BY <2>9, <3>1 DEF Tick, Told
      <4>2. zsetExp >= hit[g].stamp + windowMs
        BY <2>4, <4>1
      <4>3. QED BY <1>t, <2>1, <3>1, <4>2
    <3>2. CASE ~(zsetExp # 0 /\ zsetExp <= now')
      <4>1. UNCHANGED <<zset, zsetExp, hit>>
        BY <2>9, <3>2 DEF Tick
      <4>2. QED BY <2>3, <2>4, <4>1
    <3>3. QED BY <3>1, <3>2
  <2>10. QED BY <2>5, <2>6, <2>7, <2>8, <2>9, ZsetSteps
<1>3. QED BY <1>1, <1>2, TellSteps

-----------------------------------------------------------------------------
(* What the memory promises. *)

\* Records of finitely many decisions are finitely many.
LEMMA RecordsFinite ==
  ASSUME NEW S, S \subseteq Stamped, NEW D, IsFiniteSet(D),
         \A e \in S : \E d \in D : d.by = e.by /\ d.at = e.at
  PROVE  IsFiniteSet(S) /\ Cardinality(S) \in Nat
<1> DEFINE f == [e \in S |-> CHOOSE d \in D : d.by = e.by /\ d.at = e.at]
<1>1. \A e \in S : f[e] \in D /\ f[e].by = e.by /\ f[e].at = e.at
  OBVIOUS
<1>2. f \in [S -> D]
  BY <1>1
<1>3. ASSUME NEW x \in S, NEW y \in S, f[x] = f[y] PROVE x = y
  <2>1. x.by = y.by /\ x.at = y.at
    BY <1>1, <1>3
  <2>2. QED BY <2>1 DEF Stamped
<1> HIDE DEF f
<1>4. QED BY <1>2, <1>3, InjectionBound

\* A decision leaves a finite history and a finite memory.
LEMMA SizesAfter ==
  ASSUME Types, FinitelyMany, Clocked, Decisions, Remembered, Sorted, [Next]_limiter
  PROVE  /\ IsFiniteSet(decided') /\ IsFiniteSet(memory') /\ Cardinality(memory') \in Nat
         /\ IsFiniteSet(memory) /\ Cardinality(memory) \in Nat
<1>1. IsFiniteSet(decided)
  BY Sizes
<1>2. \E d : decided' = decided \/ decided' = decided \cup {d}
  BY DecideSteps, NewDecision
<1>3. IsFiniteSet(decided')
  BY <1>1, <1>2, FS_AddElement
<1>4. memory \subseteq Stamped /\ memory' \subseteq Stamped
  BY TypesStep DEF Types
<1>5. \A e \in memory : \E d \in decided : d.by = e.by /\ d.at = e.at
  BY DEF Remembered
<1>6. \A e \in memory' : \E d \in decided' : d.by = e.by /\ d.at = e.at
  BY RememberedStep DEF Remembered
<1>7. QED BY <1>1, <1>3, <1>4, <1>5, <1>6, RecordsFinite

LEMMA MemoryWindowStep ==
  ASSUME Types, FinitelyMany, Clocked, Decisions, Remembered, Sorted, MemoryWindow,
         [Next]_limiter
  PROVE  MemoryWindow'
<1>t. /\ now \in Nat /\ windowMs \in Nat \ {0} /\ max \in Nat \cup {NaN} /\ NaN \notin Nat
      /\ windowMs' = windowMs /\ max' = max
      /\ decided \subseteq Decision /\ decided' \subseteq Decision
      /\ memory' \subseteq Stamped
  BY TypesStep, TtlIsLong, TimePasses, NextSteps, LimiterAssumption DEF Types
<1> DEFINE Some(D, from) == {d \in D : d.ok /\ d.via = "memory" /\ d.at >= from /\ d.at < from + windowMs}
           Bound == IF max \in {0, NaN} THEN 1 ELSE max
<1> SUFFICES ASSUME windowMs <= Retention, NEW from \in 0..MaxTime
             PROVE  Cardinality(Some(decided', from)) <= Bound
  BY <1>t DEF MemoryWindow, Through
<1>b. 1 <= Bound
  <2>1. max \notin {0, NaN} => max \in Nat \ {0} /\ 1 <= max
    BY <1>t
  <2>2. QED BY <2>1
<1>0. from \in Nat /\ Cardinality(Some(decided, from)) <= Bound
  BY LimiterAssumption DEF MemoryWindow, Through
<1>1. CASE Some(decided', from) = Some(decided, from)
  BY <1>0, <1>1
<1>2. ASSUME NEW h \in Hit, NEW d \in Decision, decided' = decided \cup {d}, d.by = h,
             MemoryDecision(h, d), d \in Some(decided', from), UNCHANGED now
      PROVE  Cardinality(Some(decided', from)) <= Bound
  <2>1. d.via = "memory" /\ d.at = now /\ d.ok /\ now >= from /\ now < from + windowMs
        /\ [by |-> h, at |-> now] \in memory'
    BY <1>2 DEF MemoryDecision
  <2>2. ASSUME NEW x \in Some(decided', from) PROVE x.via = "memory" /\ x.at \in Nat /\ x.at + windowMs > now
    BY <1>0, <1>t, <2>1, <2>2 DEF Decision
  <2>3. CASE memory = {}
    <3>1. ASSUME NEW x \in Some(decided', from), x # d PROVE FALSE
      <4>1. x \in decided
        BY <1>2, <3>1
      <4>2. QED BY <2>2, <2>3, <3>1, <4>1 DEF Remembered
    <3>2. Some(decided', from) = {d}
      BY <1>2, <3>1
    <3>3. Cardinality({d}) = 1
      BY FS_Singleton
    <3>4. QED BY <1>b, <3>2, <3>3
  <2>4. CASE AtMost(Cardinality(memory'))
    <3>1. max \in Nat /\ Cardinality(memory') \in Nat /\ Cardinality(memory') <= max
          /\ IsFiniteSet(memory')
      BY <1>t, <2>4, SizesAfter DEF AtMost
    <3>2. Cardinality(memory') # 0
      BY <2>1, <3>1, FS_EmptySet
    <3> DEFINE f == [x \in Some(decided', from) |-> [by |-> x.by, at |-> x.at]]
    <3>3. ASSUME NEW x \in Some(decided', from) PROVE f[x] \in memory' /\ f[x].by = x.by
      BY <1>2, <1>t, <2>2, RememberedStep DEF Remembered
    <3>4. f \in [Some(decided', from) -> memory']
      BY <3>3
    <3>5. ASSUME NEW x \in Some(decided', from), NEW y \in Some(decided', from), f[x] = f[y]
          PROVE  x = y
      <4>1. x.by = y.by
        BY <3>3, <3>5
      <4>2. QED BY <4>1, DecisionsStep DEF Decisions
    <3> HIDE DEF f
    <3>6. Cardinality(Some(decided', from)) \in Nat
          /\ Cardinality(Some(decided', from)) <= Cardinality(memory')
      <4> HIDE DEF Some
      <4>1. QED BY <3>1, <3>4, <3>5, InjectionBound
    <3>7. QED BY <1>t, <3>1, <3>2, <3>6
  <2>5. QED BY <1>2, <2>1, <2>3, <2>4 DEF MemoryDecision
<1>3. ASSUME NEW h \in Hit, NEW d \in Decision, decided' = decided \cup {d}, d.by = h,
             MemoryDecision(h, d) \/ RedisDecision(h, d), UNCHANGED now
      PROVE  Cardinality(Some(decided', from)) <= Bound
  <2>1. CASE d \in Some(decided', from)
    <3>1. MemoryDecision(h, d)
      BY <1>3, <2>1 DEF RedisDecision
    <3>2. QED BY <1>2, <1>3, <2>1, <3>1
  <2>2. CASE d \notin Some(decided', from)
    BY <1>1, <1>3, <2>2
  <2>3. QED BY <2>1, <2>2
<1>4. UNCHANGED decided \/ \E h \in Hit : \E d \in Decision :
        /\ decided' = decided \cup {d} /\ d.by = h
        /\ MemoryDecision(h, d) \/ RedisDecision(h, d)
        /\ UNCHANGED now
  BY DecideSteps, NewDecision
<1>5. QED BY <1>1, <1>3, <1>4

-----------------------------------------------------------------------------
(* What a pipeline counts. *)

\* A crowd only grows.
LEMMA CrowdGrows ==
  ASSUME Types, FinitelyMany, [Next]_limiter, NEW h \in Hit, Arrived(h)
  PROVE  /\ Cardinality(Crowd(h)) \in Nat /\ Cardinality(Crowd(h)') \in Nat
         /\ Cardinality(Crowd(h)) <= Cardinality(Crowd(h)')
<1>1. Crowd(h) \subseteq Crowd(h)'
  BY Stamps, NextSteps DEF Crowd
<1>2. Crowd(h)' \subseteq Came'
  BY DEF Crowd, Came
<1>3. IsFiniteSet(Crowd(h)')
  BY <1>2, FinitelyManyStep, FS_Subset DEF FinitelyMany
<1>4. QED BY <1>1, <1>3, FS_Subset, FS_CardinalityType

\* At its ZCARD a pipeline finds its own hit, if the set stands, and no other than
\* its crowd.
LEMMA Counts ==
  ASSUME Types, FinitelyMany, Clocked, Sorted, ToldKept, Crowded,
         NEW h \in Hit, At(h, "card")
  PROVE  /\ Cardinality(zset) \in Nat
         /\ Cardinality(zset) <= Cardinality(Crowd(h)) + 1
         /\ h \notin cut /\ windowMs > MaxDelay => Cardinality(zset) > 0
<1>t. /\ now \in Nat /\ windowMs \in Nat /\ MaxDelay \in Nat /\ zset \subseteq Stamped
      /\ hit[h].stamp \in Nat
  BY HitTypes, TtlIsLong, LimiterAssumption DEF Types, Arrived, At
<1>s. IsFiniteSet(zset) /\ Cardinality(zset) \in Nat
  BY Sizes
<1>c. hit[h].pc \in InPipeline /\ now <= hit[h].stamp + MaxDelay
  BY DEF Clocked, InPipeline, At
<1> DEFINE others == zset \ {Entry(h)}
           f == [e \in others |-> e.by]
<1>1. ASSUME NEW e \in others PROVE e.by \in Crowd(h) /\ e.at = hit[e.by].stamp
  <2>1. e.by \in Hit /\ e.at \in Nat /\ e = [by |-> e.by, at |-> e.at]
    BY <1>t DEF Stamped
  <2>2. Arrived(e.by) /\ e.at = hit[e.by].stamp
    BY DEF Sorted
  <2>3. e.by # h
    BY <2>1, <2>2 DEF Entry
  <2>4. hit[e.by].stamp <= hit[h].stamp + MaxDelay
    BY <1>t, <1>c, <2>1, <2>2 DEF Clocked
  <2>5. hit[e.by].stamp + windowMs + MaxDelay > hit[h].stamp
    BY <2>1, <2>2 DEF Crowded, At
  <2>6. QED BY <2>1, <2>2, <2>3, <2>4, <2>5 DEF Crowd
<1>2. f \in [others -> Crowd(h)]
  BY <1>1
<1>3. ASSUME NEW x \in others, NEW y \in others, f[x] = f[y] PROVE x = y
  <2>1. x.by = y.by /\ x.at = y.at
    BY <1>1, <1>3
  <2>2. QED BY <1>t, <2>1 DEF Stamped
<1>4. Crowd(h) \in SUBSET Came
  BY DEF Crowd, Came
<1>5. IsFiniteSet(Crowd(h)) /\ Cardinality(Crowd(h)) \in Nat
  BY <1>4, Sizes
<1>6. Cardinality(others) \in Nat /\ Cardinality(others) <= Cardinality(Crowd(h))
  <2> HIDE DEF f, others
  <2>1. QED BY <1>2, <1>3, <1>5, InjectionBound
<1>7. Cardinality(others) >= Cardinality(zset) - 1
  BY <1>s, FS_RemoveElement
<1>8. Cardinality(zset) <= Cardinality(Crowd(h)) + 1
  <2> HIDE DEF others
  <2>1. QED BY <1>s, <1>5, <1>6, <1>7
<1>9. ASSUME h \notin cut, windowMs > MaxDelay PROVE Cardinality(zset) > 0
  <2>1. Told(h) /\ now < hit[h].stamp + windowMs
    BY <1>t, <1>c, <1>9 DEF Told, At
  <2>2. Entry(h) \in zset
    BY <2>1 DEF ToldKept
  <2>3. QED BY <1>s, <2>2, FS_EmptySet
<1>10. QED BY <1>s, <1>8, <1>9

LEMMA CrowdedStep ==
  ASSUME Types, FinitelyMany, Clocked, Sorted, ToldKept, Crowded, [Next]_limiter
  PROVE  Crowded'
<1>t. /\ now \in Nat /\ windowMs \in Nat \ {0} /\ MaxDelay \in Nat /\ zset \subseteq Stamped
      /\ windowMs' = windowMs
      /\ hit \in [Hit -> HitIdle \cup HitStamped \cup HitCounted]
  BY TtlIsLong, NextSteps, LimiterAssumption DEF Types
<1>u. \A e \in zset : e.at \in Nat
  BY <1>t DEF Stamped
<1>c. cut \subseteq cut'
  BY NextSteps DEF Collect, Tick, limiter
<1>1. ASSUME NEW h \in Hit, hit'[h].pc \in {"add", "card"}, NEW e \in zset'
      PROVE  e.at + windowMs + MaxDelay > hit'[h].stamp
  <2>0. Arrived(h) /\ hit[h].stamp \in Nat /\ hit[h].stamp <= now /\ hit'[h].stamp = hit[h].stamp
    <3>1. Arrived(h)
      BY <1>1, OwnStep, NextSteps DEF Arrived, At, Moves
    <3>2. QED BY <3>1, HitTypes, Stamps DEF Clocked
  <2>1. CASE e \notin zset
    <3>1. PICK g \in Hit : Add(g) /\ e = Entry(g)
      BY <1>1, <2>1, ZsetSteps DEF Prune, Add, Expire, Tick, Recent
    <3>2. e.at = hit[g].stamp /\ Arrived(g) /\ hit[g].pc \in InPipeline
      BY <3>1 DEF Entry, Add, Arrived, At, InPipeline
    <3>3. now <= hit[g].stamp + MaxDelay /\ hit[g].stamp \in Nat
      BY <3>2, HitTypes DEF Clocked
    <3>4. QED BY <1>t, <2>0, <3>2, <3>3
  <2>2. CASE e \in zset /\ hit[h].pc \in {"add", "card"}
    BY <2>0, <2>2 DEF Crowded
  <2>3. CASE e \in zset /\ Prune(h)
    <3>1. e.at + windowMs > hit[h].stamp
      BY <1>1, <2>3 DEF Prune, Recent
    <3>2. QED BY <1>t, <1>u, <2>0, <2>3, <3>1
  <2>4. hit[h].pc \in {"add", "card"} \/ Prune(h)
    <3>1. CASE hit'[h] = hit[h]
      BY <1>1, <3>1
    <3>2. CASE HitStep(h)
      <4>1. hit[h].pc \in {"prune", "add"}
        BY <1>1, <2>0, <3>2, OwnStep DEF Moves, At, Arrived
      <4>2. hit[h].pc = "prune" => Prune(h)
        <5>1. FallBack(h) => hit'[h].pc = "done"
          BY <1>t, HitSteps
        <5>2. QED BY <1>1, <3>2, <5>1 DEF HitStep, Arrive, Add, Card, Expire, Answer, At
      <4>3. QED BY <4>1, <4>2
    <3>3. QED BY <3>1, <3>2, NextSteps
  <2>5. QED BY <2>1, <2>2, <2>3, <2>4
<1>2. ASSUME NEW h \in Hit, hit'[h].pc \in {"expire", "answer"}
      PROVE  /\ hit'[h].count <= Cardinality(Crowd(h)') + 1
             /\ h \notin cut' /\ windowMs > MaxDelay => hit'[h].count > 0
  <2>1. CASE hit[h].pc \in {"expire", "answer"} /\ hit'[h].count = hit[h].count
    <3>1. hit[h].count \in Nat /\ hit[h].count <= Cardinality(Crowd(h)) + 1
          /\ (h \notin cut /\ windowMs > MaxDelay => hit[h].count > 0)
      BY <2>1, HitTypes DEF Crowded
    <3>2. /\ Cardinality(Crowd(h)) \in Nat /\ Cardinality(Crowd(h)') \in Nat
          /\ Cardinality(Crowd(h)) <= Cardinality(Crowd(h)')
      BY <2>1, CrowdGrows DEF Arrived, At
    <3>3. hit'[h].count <= Cardinality(Crowd(h)') + 1
      BY <2>1, <3>1, <3>2
    <3>4. QED BY <1>c, <2>1, <3>1, <3>3
  <2>2. CASE Card(h)
    <3>1. At(h, "card") /\ Arrived(h)
      BY <2>2 DEF Card, At, Arrived
    <3>2. hit'[h].count = Cardinality(zset)
      BY <1>t, <2>2, HitSteps
    <3>3. /\ Cardinality(zset) \in Nat
          /\ Cardinality(zset) <= Cardinality(Crowd(h)) + 1
          /\ h \notin cut /\ windowMs > MaxDelay => Cardinality(zset) > 0
      BY <3>1, Counts
    <3>4. /\ Cardinality(Crowd(h)) \in Nat /\ Cardinality(Crowd(h)') \in Nat
          /\ Cardinality(Crowd(h)) <= Cardinality(Crowd(h)')
      BY <3>1, CrowdGrows
    <3>5. hit'[h].count <= Cardinality(Crowd(h)') + 1
      BY <3>2, <3>3, <3>4
    <3>6. QED BY <1>c, <3>2, <3>3, <3>5
  <2>3. CASE hit'[h] = hit[h]
    BY <1>2, <2>1, <2>3
  <2>4. CASE HitStep(h)
    <3>1. hit[h].pc \in {"card", "expire"}
      BY <1>2, <2>4, OwnStep DEF Moves, At
    <3>2. CASE Expire(h)
      <4>1. hit'[h].count = hit[h].count /\ hit[h].pc = "expire"
        BY <1>t, <3>2, HitSteps DEF Expire, At
      <4>2. QED BY <2>1, <4>1
    <3>3. QED BY <2>2, <2>4, <3>1, <3>2 DEF HitStep, Arrive, Prune, Add, Answer, FallBack, At
  <2>5. QED BY <2>3, <2>4, NextSteps
<1>3. QED BY <1>1, <1>2, <1>t DEF Crowded

-----------------------------------------------------------------------------
(* Whom Redis lets through. *)

\* ZCARD admits a hit, and nothing else does.
LEMMA AdmitSteps ==
  ASSUME Types, FinitelyMany, Sorted, [Next]_limiter, NEW g \in Hit, Admitted(g)'
  PROVE  /\ g \notin cut
         /\ Admitted(g) \/ (Card(g) /\ ~Exceeds(Cardinality(zset)))
<1>1. g \notin cut /\ max' = max
  BY NextSteps DEF Admitted, Collect, Tick, limiter
<1>h. hit \in [Hit -> HitIdle \cup HitStamped \cup HitCounted]
  BY DEF Types
<1>2. ASSUME hit'[g].pc \in {"expire", "answer"}, max' = NaN \/ ~(hit'[g].count > max')
      PROVE  Admitted(g) \/ (Card(g) /\ ~Exceeds(Cardinality(zset)))
  <2>1. CASE hit'[g] = hit[g]
    BY <1>1, <1>2, <2>1 DEF Admitted, Exceeds
  <2>2. CASE HitStep(g)
    <3>1. hit[g].pc \in {"card", "expire"}
      BY <1>2, <2>2, OwnStep DEF Moves, At
    <3>2. CASE Card(g)
      <4>1. hit'[g].count = Cardinality(zset)
        BY <1>h, <3>2, HitSteps
      <4>2. QED BY <1>1, <1>2, <3>2, <4>1 DEF Exceeds
    <3>3. CASE Expire(g)
      <4>1. hit'[g].count = hit[g].count /\ hit[g].pc = "expire"
        BY <1>h, <3>3, HitSteps DEF Expire, At
      <4>2. QED BY <1>1, <1>2, <4>1 DEF Admitted, Exceeds
    <3>4. QED BY <2>2, <3>1, <3>2, <3>3 DEF HitStep, Arrive, Prune, Add, Answer, FallBack, At
  <2>3. QED BY <2>1, <2>2, NextSteps
<1>3. ASSUME NEW d \in decided', d.by = g, d.via = "redis", d.ok
      PROVE  Admitted(g)
  <2>1. CASE d \in decided
    BY <1>1, <1>3, <2>1 DEF Admitted
  <2>2. CASE d \notin decided
    <3>1. PICK h \in Hit : \/ MemoryLimit(h)
                           \/ /\ Answer(h) /\ UNCHANGED memory
                              /\ Decide(h, "redis", hit'[h].stamp, ~Exceeds(hit[h].count))
      BY <1>3, <2>2, DecideSteps
    <3>2. PICK e \in Decision : /\ decided' = decided \cup {e} /\ e.by = h
                                /\ MemoryDecision(h, e) \/ RedisDecision(h, e)
      BY <3>1, NewDecision
    <3>3. e = d /\ h = g /\ RedisDecision(h, e)
      BY <1>3, <2>2, <3>2 DEF MemoryDecision
    <3>4. hit[g].pc = "answer" /\ ~Exceeds(hit[g].count)
      BY <1>3, <3>3 DEF RedisDecision, Answer, At
    <3>5. QED BY <1>1, <3>4 DEF Admitted
  <2>3. QED BY <2>1, <2>2
<1>4. QED BY <1>1, <1>2, <1>3 DEF Admitted, Exceeds

LEMMA AdmissionsStep ==
  ASSUME Types, FinitelyMany, Clocked, Decisions, Sorted, ToldKept, Admissions,
         [Next]_limiter
  PROVE  Admissions'
<1>t. /\ now \in Nat /\ windowMs \in Nat \ {0} /\ MaxDelay \in Nat
      /\ max \in Nat \cup {NaN} /\ NaN \notin Nat
      /\ windowMs' = windowMs /\ max' = max
      /\ hit \in [Hit -> HitIdle \cup HitStamped \cup HitCounted]
  BY TtlIsLong, NextSteps, LimiterAssumption DEF Types
<1> SUFFICES ASSUME max # NaN, windowMs > MaxDelay, NEW from \in 0..MaxTime
             PROVE  Cardinality(AdmittedIn(from)') <= max
  BY <1>t DEF Admissions
<1>0. from \in Nat /\ max \in Nat /\ Cardinality(AdmittedIn(from)) <= max
  BY <1>t, LimiterAssumption DEF Admissions
<1>1. \A g \in Hit : Admitted(g) => Arrived(g) /\ Told(g)
  BY DEF Admitted, Told, Decisions, Arrived, At
<1>2. IsFiniteSet(AdmittedIn(from)) /\ Cardinality(AdmittedIn(from)) \in Nat
  <2>1. AdmittedIn(from) \in SUBSET Came
    BY <1>1 DEF AdmittedIn, Came
  <2>2. QED BY <2>1, Sizes
<1>3. ASSUME NEW g \in AdmittedIn(from)'
      PROVE  /\ g \in Hit /\ g \notin cut /\ hit[g].stamp \in Nat /\ hit'[g].stamp = hit[g].stamp
             /\ hit[g].stamp >= from /\ hit[g].stamp < from + (windowMs - MaxDelay)
             /\ Admitted(g) \/ (Card(g) /\ ~Exceeds(Cardinality(zset)))
  <2>1. g \in Hit /\ Admitted(g)' /\ hit'[g].stamp >= from
        /\ hit'[g].stamp < from + (windowMs - MaxDelay)
    BY <1>t DEF AdmittedIn
  <2>2. g \notin cut /\ (Admitted(g) \/ (Card(g) /\ ~Exceeds(Cardinality(zset))))
    BY <2>1, AdmitSteps
  <2>3. Arrived(g)
    BY <1>1, <2>1, <2>2 DEF Card, Arrived, At
  <2>4. hit[g].stamp \in Nat /\ hit'[g].stamp = hit[g].stamp
    BY <2>1, <2>3, HitTypes, Stamps
  <2>5. QED BY <2>1, <2>2, <2>4
<1>4. CASE \A g \in AdmittedIn(from)' : Admitted(g)
  <2>1. AdmittedIn(from)' \in SUBSET AdmittedIn(from)
    BY <1>3, <1>4 DEF AdmittedIn
  <2>2. Cardinality(AdmittedIn(from)') <= Cardinality(AdmittedIn(from))
        /\ Cardinality(AdmittedIn(from)') \in Nat
    BY <1>2, <2>1, FS_Subset, FS_CardinalityType
  <2>3. QED BY <1>0, <1>2, <2>2
<1>5. ASSUME NEW h \in AdmittedIn(from)', Card(h), ~Exceeds(Cardinality(zset))
      PROVE  Cardinality(AdmittedIn(from)') <= max
  <2>1. IsFiniteSet(zset) /\ Cardinality(zset) \in Nat /\ Cardinality(zset) <= max
    BY <1>0, <1>5, Sizes DEF Exceeds
  <2>2. /\ h \in Hit /\ hit[h].stamp \in Nat /\ hit[h].stamp < from + (windowMs - MaxDelay)
        /\ h \notin cut /\ hit[h].pc = "card"
    BY <1>3, <1>5 DEF Card, At
  <2>3. now <= hit[h].stamp + MaxDelay
    BY <2>2 DEF Clocked, InPipeline
  <2>4. now < from + windowMs
    BY <1>0, <1>t, <2>2, <2>3
  <2> DEFINE f == [g \in AdmittedIn(from)' |-> Entry(g)]
  <2>5. ASSUME NEW g \in AdmittedIn(from)' PROVE Entry(g) \in zset
    <3>1. g \in Hit /\ g \notin cut /\ hit[g].stamp \in Nat /\ hit[g].stamp >= from
          /\ (Admitted(g) \/ Card(g))
      BY <1>3
    <3>2. Told(g)
      BY <1>1, <3>1 DEF Told, Card, At
    <3>3. now < hit[g].stamp + windowMs
      BY <1>0, <1>t, <2>4, <3>1
    <3>4. QED BY <3>1, <3>2, <3>3 DEF ToldKept
  <2>6. f \in [AdmittedIn(from)' -> zset]
    BY <2>5
  <2>7. ASSUME NEW x \in AdmittedIn(from)', NEW y \in AdmittedIn(from)', f[x] = f[y] PROVE x = y
    BY <2>7 DEF Entry
  <2> HIDE DEF f
  <2>8. /\ Cardinality(AdmittedIn(from)') \in Nat
        /\ Cardinality(AdmittedIn(from)') <= Cardinality(zset)
    BY <2>1, <2>6, <2>7, InjectionBound
  <2>9. QED BY <1>0, <2>1, <2>8
<1>6. QED BY <1>3, <1>4, <1>5

-----------------------------------------------------------------------------
(* Why a hit is refused. *)

\* Hits that explain the refusal d by the memory, by the sorted set.
MemoryReasons(d) ==
  {e \in decided : e.via = "memory" /\ e.by # d.by /\ e.at <= d.at /\ e.at + windowMs > d.at}
RedisReasons(d) ==
  {h \in Hit \ {d.by} : /\ ~At(h, "idle") /\ hit[h].stamp <= d.at + MaxDelay
                        /\ hit[h].stamp + windowMs + MaxDelay > d.at}

\* Reasons do not go away.
LEMMA ReasonsGrow ==
  ASSUME Types, FinitelyMany, Clocked, Decisions, Remembered, Sorted, [Next]_limiter, NEW d
  PROVE  /\ IsFiniteSet(MemoryReasons(d)') /\ Cardinality(MemoryReasons(d)') \in Nat
         /\ IsFiniteSet(RedisReasons(d)') /\ Cardinality(RedisReasons(d)') \in Nat
         /\ Cardinality(MemoryReasons(d)) \in Nat /\ Cardinality(RedisReasons(d)) \in Nat
         /\ Cardinality(MemoryReasons(d)) <= Cardinality(MemoryReasons(d)')
         /\ Cardinality(RedisReasons(d)) <= Cardinality(RedisReasons(d)')
<1>1. windowMs' = windowMs /\ decided \subseteq decided'
  BY NextSteps, DecideSteps DEF MemoryLimit, Decide
<1>2. MemoryReasons(d) \in SUBSET MemoryReasons(d)' /\ MemoryReasons(d)' \in SUBSET decided'
  BY <1>1 DEF MemoryReasons
<1>3. RedisReasons(d) \in SUBSET RedisReasons(d)'
  BY <1>1, Stamps DEF RedisReasons, Arrived
<1>4. RedisReasons(d)' \in SUBSET Came'
  BY DEF RedisReasons, Came, Arrived
<1>5. IsFiniteSet(MemoryReasons(d)') /\ IsFiniteSet(RedisReasons(d)')
  BY <1>2, <1>4, SizesAfter, FinitelyManyStep, FS_Subset DEF FinitelyMany
<1>6. QED BY <1>2, <1>3, <1>5, FS_Subset, FS_CardinalityType

LEMMA RefusalExplainedStep ==
  ASSUME Types, FinitelyMany, Clocked, Decisions, Remembered, Sorted, Crowded,
         RefusalExplained, [Next]_limiter
  PROVE  RefusalExplained'
<1> DEFINE Explained(d) ==
             IF d.via = "memory" THEN Cardinality(MemoryReasons(d)) >= max
                                 ELSE Cardinality(RedisReasons(d)) >= max
<1>t. /\ now \in Nat /\ windowMs \in Nat \ {0} /\ MaxDelay \in Nat
      /\ max \in Nat \cup {NaN} /\ NaN \notin Nat
      /\ windowMs' = windowMs /\ max' = max
      /\ decided \subseteq Decision /\ memory \subseteq Stamped
      /\ hit \in [Hit -> HitIdle \cup HitStamped \cup HitCounted]
  BY TtlIsLong, NextSteps, LimiterAssumption DEF Types
<1> SUFFICES ASSUME NEW d \in decided', ~d.ok, max # NaN PROVE Explained(d)'
  BY <1>t DEF RefusalExplained, MemoryReasons, RedisReasons
<1>0. max \in Nat
  BY <1>t
<1>1. CASE d \in decided
  <2>1. Explained(d)
    BY <1>1 DEF RefusalExplained, MemoryReasons, RedisReasons
  <2>2. QED BY <1>0, <1>t, <2>1, ReasonsGrow
<1>2. ASSUME NEW h \in Hit, d.by = h, MemoryDecision(h, d), ~At(h, "done"),
             decided' = decided \cup {d}, d \in Decision
      PROVE  Explained(d)'
  <2> DEFINE old == Recent(memory, now)
             new == [by |-> h, at |-> now]
  <2>1. d.via = "memory" /\ d.at = now /\ memory' = old \cup {new}
        /\ memory # {} /\ ~AtMost(Cardinality(memory'))
    BY <1>2 DEF MemoryDecision
  <2>2. Cardinality(memory') \in Nat /\ Cardinality(memory') > max
    BY <1>0, <2>1, SizesAfter DEF AtMost
  <2>3. IsFiniteSet(old) /\ Cardinality(old) \in Nat
    BY SizesAfter, FS_Subset, FS_CardinalityType DEF Recent
  <2>4. Cardinality(old) >= max
    <3>1. Cardinality(memory') \in {Cardinality(old), Cardinality(old) + 1}
      BY <2>1, <2>3, FS_AddElement
    <3>2. QED BY <1>0, <2>2, <2>3, <3>1
  <2> DEFINE f == [e \in old |-> CHOOSE x \in decided : x.via = "memory" /\ x.by = e.by /\ x.at = e.at]
  <2>5. ASSUME NEW e \in old
        PROVE  f[e] \in decided /\ f[e].via = "memory" /\ f[e].by = e.by /\ f[e].at = e.at
               /\ e.at + windowMs > now
    BY DEF Remembered, Recent
  <2>6. ASSUME NEW e \in old PROVE f[e] \in MemoryReasons(d)'
    <3>1. f[e] \in decided' /\ f[e].via = "memory" /\ f[e].at + windowMs > now
      BY <1>2, <2>5
    <3>2. f[e].at <= now /\ f[e].by # h
      BY <1>2, <2>5 DEF Decisions
    <3> HIDE DEF f
    <3>3. QED BY <1>2, <1>t, <2>1, <3>1, <3>2 DEF MemoryReasons
  <2>7. f \in [old -> MemoryReasons(d)']
    BY <2>6
  <2>8. ASSUME NEW x \in old, NEW y \in old, f[x] = f[y] PROVE x = y
    <3>1. x.by = y.by /\ x.at = y.at
      BY <2>5, <2>8
    <3>2. x \in Stamped /\ y \in Stamped
      BY <1>t DEF Recent
    <3>3. QED BY <3>1, <3>2 DEF Stamped
  <2>9. Cardinality(old) <= Cardinality(MemoryReasons(d)')
        /\ Cardinality(MemoryReasons(d)') \in Nat
    <3>1. IsFiniteSet(MemoryReasons(d)') /\ Cardinality(MemoryReasons(d)') \in Nat
      BY ReasonsGrow
    <3> HIDE DEF f, old
    <3>2. QED BY <2>7, <2>8, <3>1, InjectionBound
  <2>10. QED BY <1>0, <1>t, <2>1, <2>3, <2>4, <2>9
<1>3. ASSUME NEW h \in Hit, d.by = h, RedisDecision(h, d)
      PROVE  Explained(d)'
  <2>1. d.via = "redis" /\ hit[h].pc = "answer" /\ Exceeds(hit[h].count) /\ d.at = hit'[h].stamp
    BY <1>3 DEF RedisDecision, Answer, At
  <2>2. Arrived(h) /\ hit[h].count \in Nat
    BY <2>1, HitTypes DEF Arrived, At
  <2>3. hit'[h].stamp = hit[h].stamp
    BY <2>2, Stamps
  <2>4. hit[h].count <= Cardinality(Crowd(h)) + 1 /\ hit[h].count > max
    BY <2>1 DEF Crowded, Exceeds
  <2>5. Crowd(h)' = RedisReasons(d)'
    BY <1>3, <2>1 DEF Crowd, RedisReasons, Arrived
  <2>6. /\ Cardinality(Crowd(h)) \in Nat /\ Cardinality(Crowd(h)') \in Nat
        /\ Cardinality(Crowd(h)) <= Cardinality(Crowd(h)')
    BY <2>2, CrowdGrows
  <2>7. Cardinality(Crowd(h)') >= max
    BY <1>0, <2>2, <2>4, <2>6
  <2>8. QED BY <1>t, <2>1, <2>5, <2>7
<1>4. CASE d \notin decided
  <2>1. PICK h \in Hit : /\ ~At(h, "done")
                         /\ \/ MemoryLimit(h)
                            \/ /\ Answer(h) /\ UNCHANGED memory
                               /\ Decide(h, "redis", hit'[h].stamp, ~Exceeds(hit[h].count))
    BY <1>4, DecideSteps
  <2>2. PICK e \in Decision : /\ decided' = decided \cup {e} /\ e.by = h
                              /\ MemoryDecision(h, e) \/ RedisDecision(h, e)
    BY <2>1, NewDecision
  <2>3. e = d
    BY <1>4, <2>2
  <2> HIDE DEF Explained
  <2>4. QED BY <1>2, <1>3, <2>1, <2>2, <2>3
<1>5. QED BY <1>1, <1>4

-----------------------------------------------------------------------------
(* The invariant holds, and with it what both stores promise. *)

LEMMA LimiterInit == Init => LimiterInv
<1> SUFFICES ASSUME Init PROVE LimiterInv
  OBVIOUS
<1>1. /\ windowMs \in Windows /\ max \in Limit /\ now = 0 /\ zset = {} /\ zsetExp = 0
      /\ memory = {} /\ nextGc = GcPeriod /\ decided = {} /\ cut = {}
      /\ MaxTime \in Nat /\ GcPeriod \in Nat \ {0} /\ max \in Nat \cup {NaN}
  BY LimiterAssumption DEF Init
<1>2. \A h \in Hit : hit[h].pc = "idle"
  BY DEF Init
<1>3. hit \in [Hit -> HitIdle \cup HitStamped \cup HitCounted]
  BY DEF Init, HitIdle
<1>4. Types
  BY <1>1, <1>3 DEF Types
<1>5. Came = {} /\ FinitelyMany
  BY <1>2, FS_EmptySet DEF FinitelyMany, Came, Arrived, At
<1>6. Clocked
  BY <1>1, <1>2 DEF Clocked, Arrived, At, InPipeline
<1>7. Decisions /\ Remembered /\ Sorted /\ ToldKept /\ RefusalExplained
  BY <1>1, <1>2 DEF Decisions, Remembered, Sorted, ToldKept, Told, RefusalExplained
<1>8. MemoryWindow
  <2>1. \A from : Through("memory", from, windowMs) = {}
    BY <1>1 DEF Through
  <2>2. 0 <= IF max \in {0, NaN} THEN 1 ELSE max
    <3>1. max \notin {0, NaN} => 0 <= max
      BY <1>1
    <3>2. QED BY <3>1
  <2>3. QED BY <2>1, <2>2, FS_EmptySet DEF MemoryWindow
<1>9. Admissions
  <2>1. \A from : AdmittedIn(from) = {}
    BY <1>1, <1>2 DEF AdmittedIn, Admitted
  <2>2. max # NaN => 0 <= max
    BY <1>1
  <2>3. QED BY <2>1, <2>2, FS_EmptySet DEF Admissions
<1>10. Crowded
  BY <1>2 DEF Crowded
<1>11. QED BY <1>4, <1>5, <1>6, <1>7, <1>8, <1>9, <1>10 DEF LimiterInv

\* However the pipelines of any number of hits interleave, fail, fall back and lose
\* their key to its expiry, whatever the window and the limit, the stores of
\* createRateLimiter hold what the hits left there and their promises with it.
THEOREM LimiterInductive == Spec => []LimiterInv
<1>1. LimiterInv /\ [Next]_limiter => LimiterInv'
  <2> SUFFICES ASSUME LimiterInv, [Next]_limiter PROVE LimiterInv'
    OBVIOUS
  <2>0. /\ Types /\ FinitelyMany /\ Clocked /\ Decisions /\ Remembered /\ Sorted /\ ToldKept
        /\ MemoryWindow /\ Admissions /\ Crowded /\ RefusalExplained
    BY DEF LimiterInv
  <2>1. Types' /\ FinitelyMany'
    BY <2>0, TypesStep, FinitelyManyStep
  <2>2. Clocked' /\ Decisions' /\ Remembered' /\ Sorted' /\ ToldKept'
    BY <2>0, ClockedStep, DecisionsStep, RememberedStep, SortedStep, ToldKeptStep
  <2>3. MemoryWindow' /\ Admissions' /\ Crowded' /\ RefusalExplained'
    BY <2>0, MemoryWindowStep, AdmissionsStep, CrowdedStep, RefusalExplainedStep
  <2>4. QED BY <2>1, <2>2, <2>3 DEF LimiterInv
<1>2. QED BY LimiterInit, <1>1, PTL DEF Spec

\* Every variable of the limiter has its type, and the count a pipeline returns
\* includes its own hit, unless the key expired under the pipeline or the pipeline
\* is slower than a window.
THEOREM LimiterTyped == Spec => []TypeOK
<1>1. LimiterInv => TypeOK
  <2> SUFFICES ASSUME LimiterInv PROVE TypeOK
    OBVIOUS
  <2>1. Types /\ Crowded
    BY DEF LimiterInv
  <2>2. \A h \in Hit \ cut : At(h, "answer") /\ windowMs > MaxDelay => hit[h].count > 0
    BY <2>1 DEF Crowded, At
  <2>3. QED BY <2>1, <2>2 DEF Types, TypeOK, HitIdle, HitStamped, HitCounted, Decision
<1>2. QED BY LimiterInductive, <1>1, PTL

\* Redis lets at most max hits through in any window less the delay of a pipeline,
\* but for hits whose key expired under their pipeline, however ZREMRANGEBYSCORE,
\* ZADD, ZCARD and EXPIRE of any number of pipelines interleave.
THEOREM RedisKeepsWindow == Spec => []RedisWindow
<1>1. LimiterInv => RedisWindow
  <2> SUFFICES ASSUME LimiterInv, max # NaN, windowMs > MaxDelay, NEW from \in 0..MaxTime
               PROVE  Cardinality({d \in Through("redis", from, windowMs - MaxDelay) :
                                     d.by \notin cut}) <= max
    BY DEF RedisWindow
  <2>0. Types /\ FinitelyMany /\ Decisions /\ Admissions
    BY DEF LimiterInv
  <2>1. Cardinality(AdmittedIn(from)) <= max /\ max \in Nat
    BY <2>0, LimiterAssumption DEF Admissions, Types
  <2>2. AdmittedIn(from) \in SUBSET Came
    BY <2>0 DEF AdmittedIn, Admitted, Decisions, Came, Arrived, At
  <2>3. IsFiniteSet(AdmittedIn(from)) /\ Cardinality(AdmittedIn(from)) \in Nat
    BY <2>0, <2>2, Sizes
  <2> DEFINE S == {d \in Through("redis", from, windowMs - MaxDelay) : d.by \notin cut}
             f == [d \in S |-> d.by]
  <2>4. ASSUME NEW d \in S PROVE d.by \in AdmittedIn(from) /\ d \in decided
    <3>1. d \in decided /\ d.ok /\ d.via = "redis" /\ d.by \notin cut
          /\ d.at >= from /\ d.at < from + (windowMs - MaxDelay)
      BY DEF Through
    <3>2. d.by \in Hit /\ d.at = hit[d.by].stamp
      BY <2>0, <3>1 DEF Decisions, Types, Decision
    <3>3. Admitted(d.by)
      BY <3>1 DEF Admitted
    <3>4. QED BY <3>1, <3>2, <3>3 DEF AdmittedIn
  <2>5. f \in [S -> AdmittedIn(from)]
    BY <2>4
  <2>6. ASSUME NEW x \in S, NEW y \in S, f[x] = f[y] PROVE x = y
    BY <2>0, <2>4, <2>6 DEF Decisions
  <2>7. Cardinality(S) \in Nat /\ Cardinality(S) <= Cardinality(AdmittedIn(from))
    <3> HIDE DEF S, f
    <3>1. QED BY <2>3, <2>5, <2>6, InjectionBound
  <2> HIDE DEF S
  <2>8. Cardinality(S) <= max
    BY <2>1, <2>3, <2>7
  <2>9. QED BY <2>8 DEF S
<1>2. QED BY LimiterInductive, <1>1, PTL

\* The memory fallback lets at most max hits through in any window, but one where
\* max is 0 or no number, whatever the collector drops, if a record is kept for at
\* least a window.
THEOREM MemoryKeepsWindow == Spec => []MemoryWindow
<1>1. LimiterInv => MemoryWindow
  BY DEF LimiterInv
<1>2. QED BY LimiterInductive, <1>1, PTL

\* A hit answered 429 has max others about a window before it.
THEOREM RefusalsExplained == Spec => []RefusalExplained
<1>1. LimiterInv => RefusalExplained
  BY DEF LimiterInv
<1>2. QED BY LimiterInductive, <1>1, PTL

\* No record of the memory outlives its retention by more than the interval of the
\* collector.
THEOREM MemoryIsCollected == Spec => []MemoryForgets
<1>1. LimiterInv => MemoryForgets
  <2> SUFFICES ASSUME LimiterInv, NEW e \in memory PROVE now < e.at + Retention + GcPeriod
    BY DEF MemoryForgets
  <2>1. now \in Nat /\ nextGc \in Nat /\ e.at \in Nat /\ now <= nextGc
        /\ e.at + Retention + GcPeriod > nextGc
    BY LimiterAssumption DEF LimiterInv, Types, Stamped, Clocked, Remembered
  <2>2. QED BY <2>1, LimiterAssumption
<1>2. QED BY LimiterInductive, <1>1, PTL

\* A sorted set that no pipeline is busy with has an expiry, at most a window of
\* whole seconds away.
THEOREM KeyExpires == Spec => []RedisForgets
<1>1. LimiterInv => RedisForgets
  BY DEF LimiterInv, Sorted, RedisForgets
<1>2. QED BY LimiterInductive, <1>1, PTL

=============================================================================
