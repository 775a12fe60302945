--------------------------- MODULE SchedulerProofs ---------------------------
(***************************************************************************)
(* Proofs about Scheduler, for any threads, of which any block or exit.    *)
(***************************************************************************)
EXTENDS Scheduler, TLAPS

\* A thread joins a queue it was not in.
LEMMA AppendFacts ==
    ASSUME NEW S, NEW s \in Seq(S), NEW t \in S
    PROVE  /\ Append(s, t) \in Seq(S)
           /\ ToSet(Append(s, t)) = ToSet(s) \cup {t}
           /\ IsInjective(s) /\ t \notin ToSet(s) => IsInjective(Append(s, t))
<1> DEFINE a == Append(s, t)
<1>1. /\ a \in Seq(S) /\ Len(a) = Len(s) + 1 /\ a[Len(s) + 1] = t
      /\ \A i \in 1 .. Len(s) : a[i] = s[i]
      /\ DOMAIN s = 1 .. Len(s) /\ DOMAIN a = 1 .. Len(s) + 1
  OBVIOUS
<1> HIDE DEF a
<1>2. ToSet(a) = ToSet(s) \cup {t}
  <2>1. \A i \in 1 .. Len(s) + 1 : i \in 1 .. Len(s) \/ i = Len(s) + 1
    OBVIOUS
  <2> QED
    BY <1>1, <2>1 DEF ToSet
<1>3. ASSUME IsInjective(s), t \notin ToSet(s) PROVE IsInjective(a)
  BY <1>1, <1>3 DEF IsInjective, ToSet
<1> QED
  BY <1>1, <1>2, <1>3 DEF a

\* The head of a queue leaves it.
LEMMA TailFacts ==
    ASSUME NEW S, NEW s \in Seq(S), s # << >>
    PROVE  /\ Head(s) \in S /\ Head(s) \in ToSet(s)
           /\ Tail(s) \in Seq(S)
           /\ ToSet(s) = ToSet(Tail(s)) \cup {Head(s)}
           /\ IsInjective(s) => IsInjective(Tail(s)) /\ Head(s) \notin ToSet(Tail(s))
<1> DEFINE a == Tail(s)
<1>1. /\ a \in Seq(S) /\ Len(a) = Len(s) - 1 /\ Len(s) \in Nat /\ Len(s) > 0 /\ Head(s) = s[1]
      /\ \A i \in 1 .. Len(s) - 1 : a[i] = s[i + 1]
      /\ DOMAIN s = 1 .. Len(s) /\ DOMAIN a = 1 .. Len(s) - 1
  OBVIOUS
<1> HIDE DEF a
<1>2. Head(s) \in S /\ Head(s) \in ToSet(s)
  BY <1>1 DEF ToSet
<1>3. ToSet(s) = ToSet(a) \cup {Head(s)}
  <2>1. ASSUME NEW i \in 1 .. Len(s) PROVE s[i] = Head(s) \/ s[i] \in ToSet(a)
    <3>1. CASE i = 1
      BY <3>1, <1>1
    <3>2. CASE i # 1
      <4>1. i - 1 \in 1 .. Len(s) - 1 /\ a[i - 1] = s[i]
        BY <3>2, <1>1
      <4> QED
        BY <4>1, <1>1 DEF ToSet
    <3> QED
      BY <3>1, <3>2
  <2>2. \A i \in 1 .. Len(s) - 1 : a[i] \in ToSet(s)
    BY <1>1 DEF ToSet
  <2> QED
    BY <2>1, <2>2, <1>1, <1>2 DEF ToSet
<1>4. ASSUME IsInjective(s) PROVE IsInjective(a) /\ Head(s) \notin ToSet(a)
  <2>1. \A i \in 1 .. Len(s) - 1 : i + 1 \in 1 .. Len(s) /\ i + 1 # 1 /\ 1 \in 1 .. Len(s)
    BY <1>1
  <2>2. \A i, j \in 1 .. Len(s) : s[i] = s[j] => i = j
    BY <1>1, <1>4 DEF IsInjective
  <2>3. \A i, j \in 1 .. Len(s) - 1 : a[i] = a[j] => i = j
    <3> SUFFICES ASSUME NEW i \in 1 .. Len(s) - 1, NEW j \in 1 .. Len(s) - 1, a[i] = a[j] PROVE i = j
      OBVIOUS
    <3>1. s[i + 1] = s[j + 1]
      BY <1>1
    <3>2. i + 1 = j + 1
      BY <3>1, <2>1, <2>2
    <3> QED
      BY <3>2, <1>1
  <2>4. \A i \in 1 .. Len(s) - 1 : a[i] # Head(s)
    BY <2>1, <2>2, <1>1
  <2> QED
    BY <2>3, <2>4, <1>1 DEF IsInjective, ToSet
<1> QED
  BY <1>1, <1>2, <1>3, <1>4 DEF a
-----------------------------------------------------------------------------
(***************************************************************************)
(* The search of multilevel_queue_dequeue fails only if every level is     *)
(* empty: it goes round, so that no level is left out.                     *)
(***************************************************************************)
LEMMA FoundFacts ==
    ASSUME NEW queues, NEW p \in Level
    PROVE  \/ FoundLevel(queues, p) = -1 /\ \A l \in Level : queues[l] = << >>
           \/ FoundLevel(queues, p) \in Level /\ queues[FoundLevel(queues, p)] # << >>
<1> USE DEF Level, MAX_SCHED_PRIORITY
<1> DEFINE found == {i \in Level : queues[(p + i) % 4] # << >>}
<1>1. \A l \in Level : \E i \in Level : (p + i) % 4 = l
  <2> SUFFICES ASSUME NEW l \in Level PROVE \E i \in Level : (p + i) % 4 = l
    OBVIOUS
  <2>1. CASE p <= l
    <3>1. l - p \in Level /\ (p + (l - p)) % 4 = l
      BY <2>1
    <3> QED
      BY <3>1
  <2>2. CASE p > l
    <3>1. l - p + 4 \in Level /\ (p + (l - p + 4)) % 4 = l
      BY <2>2
    <3> QED
      BY <3>1
  <2> QED
    BY <2>1, <2>2
<1>2. CASE found = {}
  <2>1. \A l \in Level : queues[l] = << >>
    BY <1>1, <1>2
  <2> QED
    BY <1>2, <2>1 DEF FoundLevel
<1>3. CASE found # {}
  <2>1. \E i \in found : \A j \in found : i <= j
    <3>1. \A i \in found : i = 0 \/ i = 1 \/ i = 2 \/ i = 3
      OBVIOUS
    <3> HIDE DEF found
    <3> QED
      BY <1>3, <3>1
  <2> DEFINE i == CHOOSE i \in found : \A j \in found : i <= j
  <2>2. i \in found
    BY <2>1
  <2>3. FoundLevel(queues, p) = (p + i) % 4
    BY <1>3 DEF FoundLevel
  <2> HIDE DEF i
  <2>4. (p + i) % 4 \in Level
    BY <2>2
  <2> QED
    BY <2>2, <2>3, <2>4
<1> QED
  BY <1>2, <1>3

(***************************************************************************)
(* Placed: what TypeOK says of where threads are, when nobody runs.        *)
(***************************************************************************)
InQueue(queues, t) == \E l \in Level : t \in ToSet(queues[l])

LevelsOk(queues, prio) ==
    /\ queues \in [Level -> Seq(Thread)]
    /\ \A l \in Level : IsInjective(queues[l]) /\ \A t \in ToSet(queues[l]) : prio[t] = l

Placed(queues, st, prio) ==
    /\ LevelsOk(queues, prio)
    /\ st \in [Thread -> Status]
    /\ \A t \in Thread : st[t] = "READY" <=> InQueue(queues, t)
    /\ \A t \in Thread : st[t] # "RUNNING"

(***************************************************************************)
(* IInv: with TypeOK, that the queues have threads in them and that the    *)
(* idle thread never has more than one tick.                               *)
(***************************************************************************)
IInv == /\ TypeOK
        /\ ready \in [Level -> Seq(Thread)]
        /\ context = Idle => left <= IdleQuantum

(***************************************************************************)
(* minithread_schedule takes threads that are all in their places to a     *)
(* state in which one runs, the idle thread only if none was ready.        *)
(***************************************************************************)
LEMMA ScheduleFacts ==
    ASSUME NEW queues, NEW st, NEW prio, NEW now \in Nat, Placed(queues, st, prio),
           Schedule(queues, st, now)
    PROVE  /\ LevelsOk(ready', prio)
           /\ status' \in [Thread -> Status]
           /\ context' \in Thread \cup {Idle}
           /\ left' \in 1 .. quanta_lim[MAX_SCHED_PRIORITY]
           /\ \A t \in Thread : status'[t] = "READY" <=> InQueue(ready', t)
           /\ \A t \in Thread : status'[t] = "RUNNING" <=> context' = t
           /\ context' = Idle => left' = IdleQuantum /\ ready' = queues
           /\ context' = Idle <=> \A l \in Level : queues[l] = << >>
<1> DEFINE p == StartLevel(now)
           l == FoundLevel(queues, p)
<1>1. p \in Level /\ quanta_lim[p] \in 1 .. 8 /\ quanta_lim[MAX_SCHED_PRIORITY] = 8
  <2>1. p \in Level
    BY DEF StartLevel, Level, MAX_SCHED_PRIORITY
  <2>2. 2 ^ 0 = 1 /\ 2 ^ 1 = 2 /\ 2 ^ 2 = 4 /\ 2 ^ 3 = 8
    OBVIOUS
  <2> HIDE DEF p
  <2>3. p = 0 \/ p = 1 \/ p = 2 \/ p = 3
    BY <2>1 DEF Level, MAX_SCHED_PRIORITY
  <2>4. quanta_lim[p] = 2 ^ p /\ quanta_lim[MAX_SCHED_PRIORITY] = 2 ^ 3
    <3>1. \A m \in Level : quanta_lim[m] = 2 ^ m
      BY DEF quanta_lim
    <3>2. 3 \in Level
      BY DEF Level, MAX_SCHED_PRIORITY
    <3> QED
      BY <2>1, <3>1, <3>2 DEF MAX_SCHED_PRIORITY
  <2>5. 2 ^ p = 2 ^ 0 \/ 2 ^ p = 2 ^ 1 \/ 2 ^ p = 2 ^ 2 \/ 2 ^ p = 2 ^ 3
    BY <2>3, Zenon
  <2> QED
    BY <2>1, <2>2, <2>4, <2>5
<1>2. \/ l = -1 /\ \A m \in Level : queues[m] = << >>
      \/ l \in Level /\ queues[l] # << >>
  BY <1>1, FoundFacts
<1>3. /\ l = -1 => /\ context' = Idle /\ left' = IdleQuantum
                   /\ ready' = queues /\ status' = st
      /\ l # -1 => /\ context' = Head(queues[l]) /\ left' = quanta_lim[p]
                   /\ ready' = [queues EXCEPT ![l] = Tail(@)]
                   /\ status' = [st EXCEPT ![context'] = "RUNNING"]
  BY DEF Schedule
<1> HIDE DEF p, l
<1>4. CASE l = -1
  <2>1. \A m \in Level : queues[m] = << >>
    BY <1>2, <1>4 DEF Level
  <2>2. \A t \in Thread : status'[t] # "RUNNING" /\ context' # t
    BY <1>3, <1>4, SchedulerAssumption DEF Placed
  <2> QED
    BY <1>1, <1>3, <1>4, <2>1, <2>2 DEF Placed, IdleQuantum
<1>5. CASE l # -1
  <2>1. PICK c, q : c = Head(queues[l]) /\ q = Tail(queues[l])
    OBVIOUS
  <2>2. l \in Level /\ queues[l] # << >> /\ queues[l] \in Seq(Thread) /\ IsInjective(queues[l])
    BY <1>2, <1>5 DEF Placed, LevelsOk
  <2>3. /\ c \in Thread /\ q \in Seq(Thread) /\ ToSet(queues[l]) = ToSet(q) \cup {c}
        /\ IsInjective(q) /\ c \notin ToSet(q)
    BY <2>1, <2>2, TailFacts
  <2>4. /\ context' = c /\ left' = quanta_lim[p]
        /\ ready' = [queues EXCEPT ![l] = q]
        /\ status' = [st EXCEPT ![c] = "RUNNING"]
    BY <1>3, <1>5, <2>1
  <2>5. c # Idle
    BY <2>3, SchedulerAssumption
  <2>6. /\ ready' \in [Level -> Seq(Thread)] /\ ready'[l] = q
        /\ \A m \in Level : m # l => ready'[m] = queues[m]
    BY <2>2, <2>3, <2>4 DEF Placed, LevelsOk
  <2>7. \A m \in Level : m # l => c \notin ToSet(queues[m])
    BY <2>2, <2>3 DEF Placed, LevelsOk
  <2>8. LevelsOk(ready', prio)
    BY <2>2, <2>3, <2>6 DEF Placed, LevelsOk
  <2>9. \A t \in Thread : InQueue(ready', t) <=> InQueue(queues, t) /\ t # c
    BY <2>2, <2>3, <2>6, <2>7 DEF InQueue
  <2>10. /\ status' \in [Thread -> Status] /\ status'[c] = "RUNNING"
         /\ \A t \in Thread : t # c => status'[t] = st[t]
    BY <2>3, <2>4 DEF Placed, Status
  <2> QED
    BY <1>1, <2>2, <2>3, <2>4, <2>5, <2>8, <2>9, <2>10 DEF Placed
<1> QED
  BY <1>4, <1>5
-----------------------------------------------------------------------------
LEMMA InitInv == Init => IInv
<1> SUFFICES ASSUME Init PROVE IInv
  OBVIOUS
<1>1. \A l \in Level : ready[l] = << >> /\ IsInjective(ready[l]) /\ ToSet(ready[l]) = {}
  BY DEF Init, IsInjective, ToSet
<1>2. \A t \in Thread : ~Queued(t) /\ status[t] = "FREE" /\ context # t
  BY <1>1, SchedulerAssumption DEF Init, Queued
<1>3. 0 \in Level /\ 0 \in 0 .. quanta_lim[MAX_SCHED_PRIORITY]
  <2>1. MAX_SCHED_PRIORITY \in Level /\ 0 \in Level /\ 2 ^ MAX_SCHED_PRIORITY = 8
    BY DEF Level, MAX_SCHED_PRIORITY
  <2> QED
    BY <2>1 DEF quanta_lim
<1> QED
  BY <1>1, <1>2, <1>3 DEF Init, IInv, TypeOK, Round, Status, IdleQuantum

(***************************************************************************)
(* minithread_yield, from its own call or from the clock handler.          *)
(***************************************************************************)
LEMMA YieldFacts ==
    ASSUME IInv, NEW expired \in BOOLEAN, NEW now \in 0 .. Round - 1, ticks' = now,
           Yielding(expired, now)
    PROVE  /\ IInv'
           /\ context' = Idle => \A l \in Level : ready'[l] = << >>
           /\ context = Idle /\ (\E t \in Thread : Queued(t)) => context' # Idle
<1>1. now \in Nat
  BY DEF Round
<1>2. CASE context = Idle
  <2>1. Schedule(ready, status, now) /\ priority' = priority
    BY <1>2 DEF Yielding
  <2>2. Placed(ready, status, priority)
    BY <1>2, SchedulerAssumption DEF IInv, TypeOK, Placed, LevelsOk, InQueue, Queued
  <2>3. /\ LevelsOk(ready', priority)
        /\ status' \in [Thread -> Status]
        /\ context' \in Thread \cup {Idle}
        /\ left' \in 1 .. quanta_lim[MAX_SCHED_PRIORITY]
        /\ \A t \in Thread : status'[t] = "READY" <=> InQueue(ready', t)
        /\ \A t \in Thread : status'[t] = "RUNNING" <=> context' = t
        /\ context' = Idle => left' = IdleQuantum /\ ready' = ready
        /\ context' = Idle <=> \A l \in Level : ready[l] = << >>
    BY <1>1, <2>1, <2>2, ScheduleFacts
  <2>4. IInv'
    BY <2>1, <2>3 DEF IInv, TypeOK, LevelsOk, InQueue, Queued, IdleQuantum
  <2>5. (\E t \in Thread : Queued(t)) => ~(\A l \in Level : ready[l] = << >>)
    BY DEF Queued, ToSet
  <2> QED
    BY <2>3, <2>4, <2>5
<1>3. CASE context # Idle
  <2>1. PICK c, p : /\ c = context
                    /\ p = IF expired /\ priority[c] < MAX_SCHED_PRIORITY
                           THEN priority[c] + 1 ELSE priority[c]
    OBVIOUS
  <2>2. c \in Thread /\ p \in Level /\ status[c] = "RUNNING" /\ ~InQueue(ready, c)
    BY <1>3, <2>1 DEF IInv, TypeOK, InQueue, Queued, Level, MAX_SCHED_PRIORITY
  <2>3. PICK queues, st, prio : /\ queues = [ready EXCEPT ![p] = Append(@, c)]
                                /\ st = [status EXCEPT ![c] = "READY"]
                                /\ prio = [priority EXCEPT ![c] = p]
    OBVIOUS
  <2>4. Schedule(queues, st, now) /\ priority' = prio
    BY <1>3, <2>1, <2>3 DEF Yielding
  <2>5. Placed(queues, st, prio) /\ prio \in [Thread -> Level] /\ queues[p] # << >>
    <3>1. PICK q : q = Append(ready[p], c)
      OBVIOUS
    <3>2. q \in Seq(Thread) /\ ToSet(q) = ToSet(ready[p]) \cup {c} /\ IsInjective(q) /\ q # << >>
      <4>1. ready[p] \in Seq(Thread) /\ IsInjective(ready[p]) /\ c \notin ToSet(ready[p])
        BY <2>2 DEF IInv, TypeOK, InQueue
      <4>2. q \in Seq(Thread) /\ ToSet(q) = ToSet(ready[p]) \cup {c} /\ IsInjective(q)
        BY <2>2, <3>1, <4>1, AppendFacts
      <4>3. Len(q) = Len(ready[p]) + 1 /\ Len(ready[p]) \in Nat /\ Len(<< >>) = 0
        BY <2>2, <3>1, <4>1
      <4> QED
        BY <4>2, <4>3
    <3>3. /\ queues \in [Level -> Seq(Thread)] /\ queues[p] = q
          /\ \A l \in Level : l # p => queues[l] = ready[l]
      BY <2>2, <2>3, <3>1, <3>2 DEF IInv
    <3>4. prio \in [Thread -> Level] /\ prio[c] = p /\ \A t \in Thread : t # c => prio[t] = priority[t]
      BY <2>2, <2>3 DEF IInv, TypeOK
    <3>5. \A l \in Level : \A t \in ToSet(ready[l]) : t \in Thread /\ t # c
      <4>1. \A l \in Level : \A t \in ToSet(ready[l]) : t \in Thread
        BY DEF IInv, ToSet
      <4> QED
        BY <4>1, <2>2 DEF InQueue
    <3>6. LevelsOk(queues, prio)
      <4>1. \A l \in Level : IsInjective(ready[l]) /\ \A t \in ToSet(ready[l]) : priority[t] = l
        BY DEF IInv, TypeOK
      <4>2. \A l \in Level : IsInjective(queues[l])
        BY <3>2, <3>3, <4>1
      <4>3. \A l \in Level : \A t \in ToSet(ready[l]) : prio[t] = l
        BY <3>4, <3>5, <4>1
      <4>4. \A l \in Level : \A t \in ToSet(queues[l]) : prio[t] = l
        BY <3>2, <3>3, <3>4, <4>3
      <4> QED
        BY <3>3, <4>2, <4>4 DEF LevelsOk
    <3>7. \A t \in Thread : InQueue(queues, t) <=> InQueue(ready, t) \/ t = c
      BY <2>2, <3>2, <3>3 DEF InQueue
    <3>8. /\ st \in [Thread -> Status] /\ st[c] = "READY"
          /\ \A t \in Thread : t # c => st[t] = status[t]
      BY <2>2, <2>3 DEF IInv, TypeOK, Status
    <3>9. \A t \in Thread : (st[t] = "READY" <=> InQueue(queues, t)) /\ st[t] # "RUNNING"
      BY <2>1, <3>7, <3>8 DEF IInv, TypeOK, InQueue, Queued
    <3> QED
      BY <3>2, <3>3, <3>4, <3>6, <3>8, <3>9 DEF Placed
  <2>6. /\ LevelsOk(ready', prio)
        /\ status' \in [Thread -> Status]
        /\ context' \in Thread \cup {Idle}
        /\ left' \in 1 .. quanta_lim[MAX_SCHED_PRIORITY]
        /\ \A t \in Thread : status'[t] = "READY" <=> InQueue(ready', t)
        /\ \A t \in Thread : status'[t] = "RUNNING" <=> context' = t
        /\ context' = Idle => left' = IdleQuantum /\ ready' = queues
        /\ context' = Idle <=> \A l \in Level : queues[l] = << >>
    BY <1>1, <2>4, <2>5, ScheduleFacts
  <2>7. context' # Idle
    BY <2>2, <2>5, <2>6
  <2>8. IInv'
    <3>1. /\ ticks' \in 0 .. Round - 1 /\ priority' \in [Thread -> Level]
          /\ left' \in 0 .. quanta_lim[MAX_SCHED_PRIORITY]
      BY <2>4, <2>5, <2>6
    <3>2. /\ ready' \in [Level -> Seq(Thread)]
          /\ \A l \in Level : IsInjective(ready'[l]) /\ \A t \in ToSet(ready'[l]) : priority'[t] = l
      BY <2>4, <2>6 DEF LevelsOk
    <3>3. \A t \in Thread : (status'[t] = "READY" <=> Queued(t)') /\ (status'[t] = "RUNNING" <=> context' = t)
      BY <2>6 DEF InQueue, Queued
    <3> QED
      BY <2>6, <2>7, <3>1, <3>2, <3>3 DEF IInv, TypeOK
  <2> QED
    BY <1>3, <2>7, <2>8
<1> QED
  BY <1>2, <1>3

(***************************************************************************)
(* What each step does: to the invariant, and to the idle thread.          *)
(***************************************************************************)
Steps == /\ IInv'
         /\ context' = Idle /\ context # Idle => \A l \in Level : ready'[l] = << >>
         /\ ticks' # ticks /\ context = Idle /\ (\E t \in Thread : Queued(t)) => context' # Idle

LEMMA NextSteps == ASSUME IInv, [Next]_vars PROVE Steps
<1>1. ASSUME Tick PROVE Steps
  <2>1. PICK now : now = (ticks + 1) % Round
    OBVIOUS
  <2>2. now \in 0 .. Round - 1 /\ ticks' = now
    BY <1>1, <2>1 DEF Tick, IInv, TypeOK, Round
  <2>3. CASE left <= 1
    <3>1. Yielding(TRUE, now)
      BY <1>1, <2>1, <2>3 DEF Tick
    <3> QED
      BY <2>2, <3>1, YieldFacts DEF Steps
  <2>4. CASE ~(left <= 1)
    <3>1. left' = left - 1 /\ UNCHANGED <<context, ready, priority, status>>
      BY <1>1, <2>4 DEF Tick
    <3>2. left \in Int /\ context # Idle
      BY <2>4 DEF IInv, TypeOK, IdleQuantum
    <3>3. left' \in 0 .. quanta_lim[MAX_SCHED_PRIORITY]
      <4>1. quanta_lim[MAX_SCHED_PRIORITY] = 8
        <5>1. MAX_SCHED_PRIORITY \in Level /\ 2 ^ MAX_SCHED_PRIORITY = 8
          BY DEF Level, MAX_SCHED_PRIORITY
        <5> QED
          BY <5>1 DEF quanta_lim
      <4> QED
        BY <2>4, <3>1, <4>1 DEF IInv, TypeOK
    <3> QED
      BY <2>2, <3>1, <3>2, <3>3 DEF Steps, IInv, TypeOK, Queued
  <2> QED
    BY <2>3, <2>4
<1>2. ASSUME Yield PROVE Steps
  <2>1. Yielding(left <= 0, ticks) /\ ticks' = ticks /\ ticks \in 0 .. Round - 1
    BY <1>2 DEF Yield, IInv, TypeOK
  <2>2. (left <= 0) \in BOOLEAN
    BY DEF IInv, TypeOK
  <2> QED
    BY <2>1, <2>2, YieldFacts DEF Steps
<1>3. ASSUME Stop \/ Exit PROVE Steps
  <2>1. PICK c : c = context
    OBVIOUS
  <2>2. c \in Thread /\ c # Idle /\ status[c] = "RUNNING" /\ ticks \in Nat /\ ticks' = ticks
    BY <1>3, <2>1, SchedulerAssumption DEF Stop, Exit, IInv, TypeOK, Round
  <2>2a. PICK to \in {"BLOCKED", "FREE"} : \E st, prio :
            /\ st = [status EXCEPT ![c] = to] /\ Schedule(ready, st, ticks)
            /\ priority' = prio /\ (prio = priority \/ prio = [priority EXCEPT ![c] = 0])
    BY <1>3, <2>1 DEF Stop, Exit
  <2>3. PICK st, prio :
            /\ st = [status EXCEPT ![c] = to] /\ Schedule(ready, st, ticks)
            /\ priority' = prio /\ (prio = priority \/ prio = [priority EXCEPT ![c] = 0])
    BY <2>2a
  <2>4. st \in [Thread -> Status] /\ st[c] = to /\ \A t \in Thread : t # c => st[t] = status[t]
    BY <2>2, <2>3 DEF IInv, TypeOK, Status
  <2>5. prio \in [Thread -> Level] /\ \A t \in Thread : t # c => prio[t] = priority[t]
    BY <2>2, <2>3 DEF IInv, TypeOK, Level, MAX_SCHED_PRIORITY
  <2>6. ~InQueue(ready, c)
    BY <2>2 DEF IInv, TypeOK, InQueue, Queued
  <2>7. LevelsOk(ready, prio)
    <3>1. \A l \in Level : \A t \in ToSet(ready[l]) : t \in Thread /\ t # c
      <4>1. \A l \in Level : \A t \in ToSet(ready[l]) : t \in Thread
        BY DEF IInv, ToSet
      <4> QED
        BY <4>1, <2>6 DEF InQueue
    <3> QED
      BY <2>5, <3>1 DEF LevelsOk, IInv, TypeOK
  <2>8. Placed(ready, st, prio)
    BY <2>1, <2>2, <2>3, <2>4, <2>6, <2>7 DEF Placed, IInv, TypeOK, InQueue, Queued
  <2>9. /\ LevelsOk(ready', prio)
        /\ status' \in [Thread -> Status]
        /\ context' \in Thread \cup {Idle}
        /\ left' \in 1 .. quanta_lim[MAX_SCHED_PRIORITY]
        /\ \A t \in Thread : status'[t] = "READY" <=> InQueue(ready', t)
        /\ \A t \in Thread : status'[t] = "RUNNING" <=> context' = t
        /\ context' = Idle => left' = IdleQuantum /\ ready' = ready
        /\ context' = Idle <=> \A l \in Level : ready[l] = << >>
    BY <2>2, <2>3, <2>8, ScheduleFacts
  <2>10. IInv'
    <3>1. /\ ticks' \in 0 .. Round - 1 /\ priority' \in [Thread -> Level]
          /\ left' \in 0 .. quanta_lim[MAX_SCHED_PRIORITY]
      <4>1. ticks' \in 0 .. Round - 1
        BY <2>2 DEF IInv, TypeOK
      <4>2. priority' \in [Thread -> Level]
        BY <2>3, <2>5
      <4> QED
        BY <2>9, <4>1, <4>2
    <3>2. /\ ready' \in [Level -> Seq(Thread)]
          /\ \A l \in Level : IsInjective(ready'[l]) /\ \A t \in ToSet(ready'[l]) : priority'[t] = l
      BY <2>3, <2>9 DEF LevelsOk
    <3>3. \A t \in Thread : (status'[t] = "READY" <=> Queued(t)') /\ (status'[t] = "RUNNING" <=> context' = t)
      BY <2>9 DEF InQueue, Queued
    <3>4. context' = Idle => left' <= IdleQuantum
      BY <2>9 DEF IdleQuantum
    <3> QED
      BY <2>9, <3>1, <3>2, <3>3, <3>4 DEF IInv, TypeOK
  <2> QED
    BY <2>2, <2>9, <2>10 DEF Steps
<1>4. ASSUME NEW t \in Thread, Start(t) PROVE Steps
  <2>1. PICK l : l = priority[t]
    OBVIOUS
  <2>2. l \in Level /\ ~Queued(t) /\ context # t
    BY <1>4, <2>1 DEF Start, IInv, TypeOK
  <2>3. /\ status' = [status EXCEPT ![t] = "READY"]
        /\ ready' = [ready EXCEPT ![l] = Append(@, t)]
        /\ UNCHANGED <<ticks, left, context, priority>>
    BY <1>4, <2>1 DEF Start
  <2>4. PICK q : q = Append(ready[l], t)
    OBVIOUS
  <2>5. q \in Seq(Thread) /\ ToSet(q) = ToSet(ready[l]) \cup {t} /\ IsInjective(q)
    BY <2>2, <2>4, AppendFacts DEF IInv, TypeOK, Queued
  <2>6. /\ ready' \in [Level -> Seq(Thread)] /\ ready'[l] = q
        /\ \A m \in Level : m # l => ready'[m] = ready[m]
    BY <2>2, <2>3, <2>4, <2>5 DEF IInv
  <2>7. \A m \in Level : IsInjective(ready'[m]) /\ \A u \in ToSet(ready'[m]) : priority[u] = m
    BY <2>1, <2>5, <2>6 DEF IInv, TypeOK
  <2>8. \A u \in Thread : Queued(u)' <=> Queued(u) \/ u = t
    BY <2>2, <2>5, <2>6 DEF Queued
  <2>9. /\ status' \in [Thread -> Status] /\ status'[t] = "READY"
        /\ \A u \in Thread : u # t => status'[u] = status[u]
    BY <2>3 DEF IInv, TypeOK, Status
  <2>10. IInv'
    BY <2>2, <2>3, <2>6, <2>7, <2>8, <2>9 DEF IInv, TypeOK
  <2> QED
    BY <2>3, <2>10 DEF Steps
<1>5. CASE UNCHANGED vars
  BY <1>5 DEF vars, Steps, IInv, TypeOK, Queued
<1> QED
  BY <1>1, <1>2, <1>3, <1>4, <1>5 DEF Next
-----------------------------------------------------------------------------
(***************************************************************************)
(* A thread is in one place: READY in the queue of its own level, once;    *)
(* RUNNING on the processor; or FREE or BLOCKED and in no queue.           *)
(***************************************************************************)
THEOREM InOnePlace == Spec => []TypeOK
<1>1. IInv /\ [Next]_vars => IInv'
  BY NextSteps DEF Steps
<1>2. IInv => TypeOK
  BY DEF IInv
<1> QED
  BY InitInv, <1>1, <1>2, PTL DEF Spec

(***************************************************************************)
(* The idle thread gets the processor only if no thread is ready, at any   *)
(* level, whichever the round asks for first.                              *)
(***************************************************************************)
THEOREM IdleLast == Spec => WorkConserving
<1>1. IInv /\ [Next]_vars => IInv'
  BY NextSteps DEF Steps
<1>2. IInv /\ [Next]_vars => [context' = Idle /\ context # Idle => \A l \in Level : ready'[l] = << >>]_vars
  BY NextSteps DEF Steps
<1> QED
  BY InitInv, <1>1, <1>2, PTL DEF Spec, WorkConserving

(***************************************************************************)
(* A thread that becomes ready while the idle thread runs waits for one    *)
(* tick at most: the idle thread never has more than one left.             *)
(***************************************************************************)
THEOREM IdleYields == Spec => IdleGivesWay
<1>1. IInv /\ [Next]_vars => IInv'
  BY NextSteps DEF Steps
<1>2. IInv /\ [Next]_vars =>
          [ticks' # ticks /\ context = Idle /\ (\E t \in Thread : Queued(t)) => context' # Idle]_vars
  BY NextSteps DEF Steps
<1> QED
  BY InitInv, <1>1, <1>2, PTL DEF Spec, IdleGivesWay
=============================================================================
