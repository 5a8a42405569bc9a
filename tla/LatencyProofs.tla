---------------------------- MODULE LatencyProofs ----------------------------
(***************************************************************************)
(* Theorems about Latency, for every set of sources, every clock and every *)
(* SECOND.  The arithmetic is in lemmas about integers.                    *)
(***************************************************************************)
EXTENDS Latency, TLAPS


\* Quotient and remainder of a time by a second.
LEMMA Divide ==
  ASSUME NEW t \in Nat, NEW d \in Nat \ {0}
  PROVE  /\ t \div d \in Nat /\ t % d \in Nat /\ t % d < d
         /\ t = d * (t \div d) + (t % d)
BY SMT

\* Multiplying by a second makes no number smaller.
LEMMA Quotient ==
  ASSUME NEW q \in Nat, NEW d \in Nat \ {0}
  PROVE  q <= d * q
BY SMT

\* Multiplication by a natural number keeps an order.
LEMMA Scale ==
  ASSUME NEW a \in Int, NEW b \in Int, NEW c \in Nat, a <= b
  PROVE  a * c <= b * c
BY SMT

\* One more addend.
LEMMA OneMore ==
  ASSUME NEW a \in Int, NEW c \in Int
  PROVE  a * (c + 1) = a * c + a
BY SMT

\* A difference, multiplied out.
LEMMA Minus ==
  ASSUME NEW a \in Int, NEW b \in Int, NEW d \in Int
  PROVE  (a - b) * d = a * d - b * d
BY SMT

\* ts_now stores a stamp: words within the clock, the second one a fraction.
LEMMA StampType ==
  ASSUME NEW t \in Times
  PROVE  /\ Stamp(t) \in Stamps
         /\ Stamp(t)["tv_sec"] * SECOND + Stamp(t)["tv_nsec"] = t
<1> DEFINE q == t \div SECOND
           r == t % SECOND
<1>1. t \in Nat /\ t <= MaxTime /\ SECOND \in Nat \ {0} /\ MaxTime \in Nat
  BY LatencyAssumption DEF Times
<1>2. q \in Nat /\ r \in Nat /\ r < SECOND /\ t = SECOND * q + r
  BY <1>1, Divide
<1>3. q <= SECOND * q
  BY <1>1, <1>2, Quotient
<1>4. Stamp(t)["tv_sec"] = q /\ Stamp(t)["tv_nsec"] = r
  BY DEF Stamp, Words
<1> HIDE DEF q, r
<1>5. SECOND * q \in Nat /\ SECOND * q = q * SECOND
  BY <1>1, <1>2
<1>6. q \in Times /\ r \in Times
  <2> DEFINE m == SECOND * q
  <2> HIDE DEF m
  <2>1. m \in Nat /\ q <= m /\ t = m + r
    BY <1>2, <1>3, <1>5 DEF m
  <2> QED  BY <2>1, <1>1, <1>2 DEF Times
<1>7. Stamp(t) \in [Words -> Times]
  <2>1. Stamp(t) = [w \in Words |-> IF w = "tv_sec" THEN q ELSE r]
    BY DEF Stamp, q, r
  <2> QED  BY <2>1, <1>6
<1>8. Stamp(t) \in Stamps
  BY <1>7, <1>4, <1>2 DEF Stamps
<1> QED  BY <1>8, <1>4, <1>2, <1>5

\* Both words of a stamp are natural numbers.
LEMMA StampWords ==
  ASSUME NEW a \in Stamps
  PROVE  a["tv_sec"] \in Nat /\ a["tv_nsec"] \in Nat
BY LatencyAssumption DEF Stamps, Words, Times

Sec(stamp) == stamp["tv_sec"]

\* The difference of any stamp, however torn, and a moment ...
LEMMA Diff ==
  ASSUME NEW a \in Stamps, NEW t \in Times
  PROVE  ts_diff(a, Stamp(t)) = t - a["tv_sec"] * SECOND - a["tv_nsec"]
<1> DEFINE b == Stamp(t)
<1>1. SECOND \in Nat /\ t \in Nat
  BY LatencyAssumption DEF Times
<1>2. b \in Stamps /\ b["tv_sec"] * SECOND + b["tv_nsec"] = t
  BY StampType
<1>3. /\ a["tv_sec"] \in Nat /\ a["tv_nsec"] \in Nat
      /\ b["tv_sec"] \in Nat /\ b["tv_nsec"] \in Nat
  BY <1>2, StampWords
<1> HIDE DEF b
<1> DEFINE m == b["tv_sec"] * SECOND
           n == a["tv_sec"] * SECOND
<1>4. (b["tv_sec"] - a["tv_sec"]) * SECOND = m - n
  BY <1>1, <1>3, Minus
<1>5. m \in Nat /\ n \in Nat /\ m + b["tv_nsec"] = t
  BY <1>1, <1>2, <1>3
<1>6. ts_diff(a, b) = (m - n) + (b["tv_nsec"] - a["tv_nsec"])
  BY <1>4 DEF ts_diff
<1> HIDE DEF m, n
<1>7. ts_diff(a, b) = t - n - a["tv_nsec"]
  BY <1>1, <1>3, <1>5, <1>6
<1> QED  BY <1>7 DEF b, n

\* ... is an integer within the clock,
LEMMA DiffBound ==
  ASSUME NEW a \in Stamps, NEW t \in Times
  PROVE  /\ ts_diff(a, Stamp(t)) \in Int
         /\ ts_diff(a, Stamp(t)) <= MaxTime
<1> DEFINE n == a["tv_sec"] * SECOND
<1>1. n \in Nat /\ a["tv_nsec"] \in Nat /\ t \in Nat /\ t <= MaxTime /\ MaxTime \in Nat
  BY StampWords, LatencyAssumption DEF Times
<1>2. ts_diff(a, Stamp(t)) = t - n - a["tv_nsec"]
  BY Diff
<1> HIDE DEF n
<1> QED  BY <1>1, <1>2

\* the time between two moments where the stamp is of one,
LEMMA DiffExact ==
  ASSUME NEW t \in Times, NEW u \in Times
  PROVE  ts_diff(Stamp(t), Stamp(u)) = u - t
<1> DEFINE n == Stamp(t)["tv_sec"] * SECOND
           r == Stamp(t)["tv_nsec"]
<1>1. n \in Nat /\ r \in Nat /\ n + r = t /\ t \in Nat /\ u \in Nat
  BY StampType, StampWords, LatencyAssumption DEF Times
<1>2. ts_diff(Stamp(t), Stamp(u)) = u - n - r
  BY StampType, Diff
<1> HIDE DEF n, r
<1> QED  BY <1>1, <1>2

\* and too long by less than a second where its second is not an earlier one.
LEMMA DiffTorn ==
  ASSUME NEW a \in Stamps, NEW t \in Times, NEW u \in Times,
         Sec(Stamp(t)) <= Sec(a)
  PROVE  ts_diff(a, Stamp(u)) < (u - t) + SECOND
<1> DEFINE m == Stamp(t)["tv_sec"] * SECOND
           r == Stamp(t)["tv_nsec"]
           n == a["tv_sec"] * SECOND
<1>1. /\ m \in Nat /\ r \in Nat /\ r < SECOND /\ m + r = t
      /\ n \in Nat /\ a["tv_nsec"] \in Nat
      /\ t \in Nat /\ u \in Nat /\ SECOND \in Nat
  BY StampType, StampWords, LatencyAssumption DEF Times, Stamps
<1>2. m <= n
  BY StampType, StampWords, Scale, LatencyAssumption DEF Sec
<1>3. ts_diff(a, Stamp(u)) = u - n - a["tv_nsec"]
  BY Diff
<1> HIDE DEF m, n, r
<1> QED  BY <1>1, <1>2, <1>3

-----------------------------------------------------------------------------
(* The inductive invariant *)

\* A source stores only inside source_event_activate, and what it has stored
\* is there.
SrcInv ==
  \A s \in Sources :
    /\ src[s].at = "rest" => src[s].todo = {}
    /\ src[s].at = "activate" =>
         \A w \in Words \ src[s].todo : start_ts[s][w] = Stamp(src[s].t)[w]

\* An event whose start was not written again has the stamp of its activation.
EventInv ==
  \A s \in Sources : event[s] = "ACTIVE" /\ ~begun[s].rewritten =>
    \A w \in Words : start_ts[s][w] = Stamp(begun[s].t)[w]

\* The processor works on an active event until its reset.
EpPlace ==
  /\ ep.at = "scan" <=> ep.source = NoSource
  /\ ep.at # "reset" => ep.todo = {}
  /\ ep.at = "work" \/ "reset" \in ep.todo => event[ep.source] = "ACTIVE"

\* Only a handled event is counted, and that once.
CountInv ==
  \A s \in Sources : /\ stats[s].count <= events
                     /\ ep.source = s => stats[s].count < events

\* The words still to be loaded, and those loaded, are of the activation.
EpExact ==
  ~serves.rewritten =>
    /\ ep.at = "work" =>
         \A w \in Words : start_ts[ep.source][w] = Stamp(serves.t)[w]
    /\ ep.at = "reset" =>
         /\ \A w \in Words \cap ep.todo :
              start_ts[ep.source][w] = Stamp(serves.t)[w]
         /\ \A w \in Words \ ep.todo : ep.read[w] = Stamp(serves.t)[w]

\* Seconds only grow: from an activation to what is in start_ts, to what is
\* about to be stored there, to the clock.
SecInv ==
  /\ \A s \in Sources :
       /\ Sec(start_ts[s]) <= Sec(Stamp(now))
       /\ src[s].at = "activate" => /\ src[s].t <= now
                                    /\ Sec(start_ts[s]) <= Sec(Stamp(src[s].t))
       /\ event[s] = "ACTIVE" => Sec(Stamp(begun[s].t)) <= Sec(start_ts[s])
  /\ ep.at = "work" => Sec(Stamp(serves.t)) <= Sec(start_ts[ep.source])
  /\ ep.at = "reset" =>
       IF "tv_sec" \in ep.todo THEN Sec(Stamp(serves.t)) <= Sec(start_ts[ep.source])
       ELSE Sec(Stamp(serves.t)) <= Sec(ep.read)

IInv == TypeOK /\ EpPlace /\ CountInv /\ SrcInv /\ EventInv /\ EpExact /\ SecInv

-----------------------------------------------------------------------------
(* Types *)

\* The memory of a source before its first event.
LEMMA StampZero == Stamp(0) \in Stamps
BY LatencyAssumption, StampType DEF Times

\* The processor between two events.
LEMMA IdleType ==
  EpIdle \in [source : Sources \cup {NoSource}, at : {"scan", "work", "reset"},
              end : Times, todo : SUBSET (Words \cup {"reset"}), read : Stamps]
BY StampZero, LatencyAssumption DEF EpIdle, Times

\* The initial states are well typed.
LEMMA InitType == Init => TypeOK
<1>1. 0 \in Times /\ 0 \in 0 .. MaxEvents
  BY LatencyAssumption DEF Times
<1>2. NoStats \in [totalns : Nat, count : 0 .. MaxEvents,
                   minns : 0 .. UINT64_MAX, maxns : 0 .. UINT64_MAX]
  BY LatencyAssumption DEF NoStats
<1>3. AtRest \in [at : {"rest", "activate"}, t : Times, todo : SUBSET Words]
  BY <1>1 DEF AtRest
<1>4. Untold \in [t : Times, rewritten : BOOLEAN]
  BY <1>1 DEF Untold
<1> QED  BY <1>1, <1>2, <1>3, <1>4, IdleType, StampZero DEF Init, TypeOK

\* The difference that is accounted for is an integer within the clock.
LEMMA NsType ==
  ASSUME TypeOK
  PROVE  ns \in Int /\ ns <= MaxTime
BY DiffBound DEF TypeOK, ns

\* Storing or loading a word of a stamp.
LEMMA WordType ==
  ASSUME NEW a \in Stamps, NEW b \in Stamps, NEW w \in Words
  PROVE  [a EXCEPT ![w] = b[w]] \in Stamps
<1>1. a \in [Words -> Times] /\ b \in [Words -> Times]
  BY DEF Stamps
<1>2. [a EXCEPT ![w] = b[w]] \in [Words -> Times]
  BY <1>1
<1>3. [a EXCEPT ![w] = b[w]]["tv_nsec"] < SECOND
  BY <1>1 DEF Stamps, Words
<1> QED  BY <1>2, <1>3 DEF Stamps

\* Accounting for a latency keeps the counters in their ranges.
LEMMA AddType ==
  ASSUME NEW st \in [totalns : Nat, count : 0 .. MaxEvents,
                     minns : 0 .. UINT64_MAX, maxns : 0 .. UINT64_MAX],
         st.count < MaxEvents, NEW n \in 1 .. MaxTime
  PROVE  Add(st, n) \in [totalns : Nat, count : 0 .. MaxEvents,
                         minns : 0 .. UINT64_MAX, maxns : 0 .. UINT64_MAX]
BY LatencyAssumption DEF Add

\* A source with other words to store.
LEMMA TodoType ==
  ASSUME NEW T, NEW W, NEW r \in [at : {"rest", "activate"}, t : T, todo : SUBSET W],
         NEW todo \in SUBSET W
  PROVE  [r EXCEPT !.todo = todo] \in [at : {"rest", "activate"}, t : T, todo : SUBSET W]
OBVIOUS

\* Every step keeps the types; the source of a processor that loads or
\* accounts is one, by EpPlace, and its counter below the bound, by CountInv.
LEMMA NextType == TypeOK /\ EpPlace /\ CountInv /\ [Next]_vars => TypeOK'
<1> SUFFICES ASSUME TypeOK, EpPlace, CountInv, [Next]_vars PROVE TypeOK'
  OBVIOUS
<1> USE DEF TypeOK
<1>1. CASE Tick
  BY <1>1, LatencyAssumption DEF Tick, Times
<1>2. ASSUME NEW s \in Sources, SrcClock(s) PROVE TypeOK'
  BY <1>2 DEF SrcClock
<1>3. ASSUME NEW s \in Sources, NEW w \in Words, SrcStoreWord(s, w) PROVE TypeOK'
  <2>1. Stamp(src[s].t) \in Stamps
    BY StampType
  <2>2. start_ts' \in [Sources -> Stamps]
    <3>1. start_ts' = [start_ts EXCEPT ![s] = [start_ts[s] EXCEPT ![w] = Stamp(src[s].t)[w]]]
      BY <1>3 DEF SrcStoreWord, Rewrite
    <3>2. [start_ts[s] EXCEPT ![w] = Stamp(src[s].t)[w]] \in Stamps
      BY <2>1, WordType
    <3> QED  BY <3>1, <3>2
  <2>3. src' \in [Sources -> [at : {"rest", "activate"}, t : Times, todo : SUBSET Words]]
    <3> DEFINE new == [src[s] EXCEPT !.todo = src[s].todo \ {w}]
    <3>1. src[s] \in [at : {"rest", "activate"}, t : Times, todo : SUBSET Words]
      OBVIOUS
    <3>2. src[s].todo \ {w} \in SUBSET Words
      BY <3>1
    <3>3. new \in [at : {"rest", "activate"}, t : Times, todo : SUBSET Words]
      BY <3>1, <3>2, TodoType
    <3>4. src' = [src EXCEPT ![s] = new]
      BY <1>3 DEF SrcStoreWord
    <3> HIDE DEF new
    <3> QED  BY <3>3, <3>4
  <2>4. begun' \in [Sources -> [t : Times, rewritten : BOOLEAN]]
    BY <1>3 DEF SrcStoreWord, Rewrite
  <2>5. serves' \in [t : Times, rewritten : BOOLEAN]
    BY <1>3 DEF SrcStoreWord, Rewrite
  <2> QED  BY <1>3, <2>2, <2>3, <2>4, <2>5 DEF SrcStoreWord
<1>4. ASSUME NEW s \in Sources, SrcActivate(s) PROVE TypeOK'
  <2>1. AtRest \in [at : {"rest", "activate"}, t : Times, todo : SUBSET Words]
    BY LatencyAssumption DEF AtRest, Times
  <2> QED  BY <1>4, <2>1 DEF SrcActivate, Activate
<1>5. ASSUME NEW s \in Sources, EpTake(s) PROVE TypeOK'
  <2>1. ep' \in [source : Sources \cup {NoSource}, at : {"scan", "work", "reset"},
                 end : Times, todo : SUBSET (Words \cup {"reset"}), read : Stamps]
    BY <1>5, IdleType DEF EpTake
  <2>2. events' \in 0 .. MaxEvents
    BY <1>5, LatencyAssumption DEF EpTake
  <2> QED  BY <1>5, <2>1, <2>2 DEF EpTake
<1>6. CASE EpClock
  BY <1>6 DEF EpClock
<1>7. CASE EpReset
  <2>1. Untold \in [t : Times, rewritten : BOOLEAN]
    BY LatencyAssumption DEF Untold, Times
  <2> QED  BY <1>7, <2>1 DEF EpReset
<1>8. ASSUME NEW w \in Words, EpLoadWord(w) PROVE TypeOK'
  <2>1. ep.source \in Sources
    BY <1>8 DEF EpLoadWord, EpPlace
  <2>2. [ep.read EXCEPT ![w] = start_ts[ep.source][w]] \in Stamps
    BY <2>1, WordType
  <2>3. ep.todo \ {w} \in SUBSET (Words \cup {"reset"})
    OBVIOUS
  <2>4. ep' = [source |-> ep.source, at |-> ep.at, end |-> ep.end,
               todo |-> ep.todo \ {w},
               read |-> [ep.read EXCEPT ![w] = start_ts[ep.source][w]]]
    BY <1>8 DEF EpLoadWord
  <2> QED  BY <1>8, <2>2, <2>3, <2>4 DEF EpLoadWord
<1>9. CASE EpAccount
  <2>1. Untold \in [t : Times, rewritten : BOOLEAN]
    BY LatencyAssumption DEF Untold, Times
  <2>2. stats' \in [Sources -> [totalns : Nat, count : 0 .. MaxEvents,
                                minns : 0 .. UINT64_MAX, maxns : 0 .. UINT64_MAX]]
    <3>1. CASE ns <= 0
      BY <1>9, <3>1 DEF EpAccount
    <3>2. CASE ~(ns <= 0)
      <4>1. stats' = [stats EXCEPT ![ep.source] = Add(stats[ep.source], ns)]
        BY <1>9, <3>2 DEF EpAccount
      <4>2. ep.source \in Sources
        BY <1>9 DEF EpAccount, EpPlace
      <4>3. stats[ep.source].count < events
        BY <4>2 DEF CountInv
      <4>4. ns \in 1 .. MaxTime
        BY NsType, <3>2, LatencyAssumption
      <4>5. Add(stats[ep.source], ns) \in [totalns : Nat, count : 0 .. MaxEvents,
                                minns : 0 .. UINT64_MAX, maxns : 0 .. UINT64_MAX]
        BY <4>2, <4>3, <4>4, AddType, LatencyAssumption
      <4> QED  BY <4>1, <4>5
    <3> QED  BY <3>1, <3>2
  <2> QED  BY <1>9, <2>1, <2>2, IdleType DEF EpAccount
<1>10. CASE UNCHANGED vars
  BY <1>10 DEF vars
<1> QED  BY <1>1, <1>2, <1>3, <1>4, <1>5, <1>6, <1>7, <1>8, <1>9, <1>10 DEF Next

\* Every step keeps the processor at an active event until its reset.
LEMMA NextPlace == TypeOK /\ EpPlace /\ [Next]_vars => EpPlace'
<1> SUFFICES ASSUME TypeOK, EpPlace, [Next]_vars PROVE EpPlace'
  OBVIOUS
<1> USE DEF EpPlace
<1>1. CASE Tick
  BY <1>1 DEF Tick
<1>2. ASSUME NEW s \in Sources, SrcClock(s) PROVE EpPlace'
  BY <1>2 DEF SrcClock
<1>3. ASSUME NEW s \in Sources, NEW w \in Words, SrcStoreWord(s, w) PROVE EpPlace'
  BY <1>3 DEF SrcStoreWord
<1>4. ASSUME NEW s \in Sources, SrcActivate(s) PROVE EpPlace'
  BY <1>4 DEF SrcActivate, Activate, TypeOK
<1>5. ASSUME NEW s \in Sources, EpTake(s) PROVE EpPlace'
  BY <1>5, LatencyAssumption DEF EpTake, EpIdle, TypeOK
<1>6. CASE EpClock
  BY <1>6 DEF EpClock, TypeOK
<1>7. CASE EpReset
  BY <1>7 DEF EpReset, TypeOK
<1>8. ASSUME NEW w \in Words, EpLoadWord(w) PROVE EpPlace'
  BY <1>8 DEF EpLoadWord, TypeOK
<1>9. CASE EpAccount
  BY <1>9 DEF EpAccount, EpIdle
<1>10. CASE UNCHANGED vars
  BY <1>10 DEF vars
<1> QED  BY <1>1, <1>2, <1>3, <1>4, <1>5, <1>6, <1>7, <1>8, <1>9, <1>10 DEF Next

\* Every step keeps the counters behind the handled events.
LEMMA NextCount == TypeOK /\ EpPlace /\ CountInv /\ [Next]_vars => CountInv'
<1> SUFFICES ASSUME TypeOK, EpPlace, CountInv, [Next]_vars PROVE CountInv'
  OBVIOUS
<1> USE DEF CountInv
<1>1. CASE Tick
  BY <1>1 DEF Tick
<1>2. ASSUME NEW s \in Sources, SrcClock(s) PROVE CountInv'
  BY <1>2 DEF SrcClock
<1>3. ASSUME NEW s \in Sources, NEW w \in Words, SrcStoreWord(s, w) PROVE CountInv'
  BY <1>3 DEF SrcStoreWord
<1>4. ASSUME NEW s \in Sources, SrcActivate(s) PROVE CountInv'
  BY <1>4 DEF SrcActivate, Activate
<1>5. ASSUME NEW s \in Sources, EpTake(s) PROVE CountInv'
  BY <1>5, LatencyAssumption DEF EpTake, EpIdle, TypeOK
<1>6. CASE EpClock
  BY <1>6 DEF EpClock, TypeOK
<1>7. CASE EpReset
  BY <1>7 DEF EpReset, TypeOK
<1>8. ASSUME NEW w \in Words, EpLoadWord(w) PROVE CountInv'
  BY <1>8 DEF EpLoadWord, TypeOK
<1>9. CASE EpAccount
  <2>1. ep'.source = NoSource /\ events' = events /\ ep.source \in Sources
    BY <1>9 DEF EpAccount, EpIdle, EpPlace, TypeOK
  <2>2. ASSUME NEW s \in Sources PROVE stats'[s].count <= events
    <3>1. CASE s = ep.source /\ ~(ns <= 0)
      <4>1. stats'[s].count = stats[s].count + 1
        BY <1>9, <3>1 DEF EpAccount, Add, TypeOK
      <4> QED  BY <4>1, <3>1 DEF TypeOK
    <3>2. CASE ~(s = ep.source /\ ~(ns <= 0))
      <4>1. stats'[s] = stats[s]
        BY <1>9, <3>2 DEF EpAccount, TypeOK
      <4> QED  BY <4>1
    <3> QED  BY <3>1, <3>2
  <2> QED  BY <2>1, <2>2, LatencyAssumption
<1>10. CASE UNCHANGED vars
  BY <1>10 DEF vars
<1> QED  BY <1>1, <1>2, <1>3, <1>4, <1>5, <1>6, <1>7, <1>8, <1>9, <1>10 DEF Next

-----------------------------------------------------------------------------
(* The statistics *)

\* A latency more leaves minimum, mean and maximum in order: the minimum
\* times the count grows by the new minimum, which is at most the latency.
LEMMA AddConsistent ==
  ASSUME NEW st \in [totalns : Nat, count : 0 .. MaxEvents,
                     minns : 0 .. UINT64_MAX, maxns : 0 .. UINT64_MAX],
         NEW n \in 1 .. MaxTime, Consistent(st)
  PROVE  Consistent(Add(st, n))
<1> DEFINE new == Add(st, n)
           c   == st.count
           min == IF n < st.minns THEN n ELSE st.minns
           max == IF n > st.maxns THEN n ELSE st.maxns
<1>1. /\ new.count = c + 1 /\ new.totalns = st.totalns + n
      /\ new.minns = min /\ new.maxns = max
  BY DEF Add
<1>2. /\ n \in Nat /\ 0 < n /\ n <= MaxTime /\ MaxTime < UINT64_MAX
      /\ MaxTime \in Nat /\ UINT64_MAX \in Nat
      /\ c \in Nat /\ st.totalns \in Nat /\ st.minns \in Nat /\ st.maxns \in Nat
  BY LatencyAssumption
<1>3. CASE c = 0
  <2>1. st.minns = UINT64_MAX /\ st.maxns = 0 /\ st.totalns = 0
    BY <1>3 DEF Consistent, NoStats
  <2>2. min = n /\ max = n
    BY <2>1, <1>2
  <2>3. new.minns = n /\ new.maxns = n /\ new.totalns = n /\ new.count = 1
    BY <1>1, <1>2, <1>3, <2>1, <2>2
  <2> QED  BY <2>3, <1>2 DEF Consistent
<1>4. CASE c # 0
  <2>1. /\ 0 < st.minns /\ st.minns <= st.maxns
        /\ st.minns * c <= st.totalns /\ st.totalns <= st.maxns * c
    BY <1>4 DEF Consistent
  <2>2. /\ min \in Nat /\ 0 < min /\ min <= st.minns /\ min <= n
        /\ max \in Nat /\ st.maxns <= max /\ n <= max
    BY <2>1, <1>2
  <2> HIDE DEF min, max, c
  <2>3. min * c <= st.minns * c /\ st.maxns * c <= max * c
    BY <2>2, <1>2, Scale
  <2>4. min * (c + 1) = min * c + min /\ max * (c + 1) = max * c + max
    BY <2>2, <1>2, OneMore
  <2>5. /\ min * c \in Nat /\ st.minns * c \in Nat
        /\ max * c \in Nat /\ st.maxns * c \in Nat
    BY <2>2, <1>2
  <2>6. min * (c + 1) <= st.totalns + n
    <3> DEFINE x == min * c  y == st.minns * c
    <3> HIDE DEF x, y
    <3>1. x \in Nat /\ y \in Nat /\ x <= y /\ y <= st.totalns
      BY <2>1, <2>3, <2>5 DEF x, y
    <3>2. x + min <= st.totalns + n
      BY <3>1, <2>2, <1>2
    <3> QED  BY <3>2, <2>4 DEF x
  <2>7. st.totalns + n <= max * (c + 1)
    <3> DEFINE x == max * c  y == st.maxns * c
    <3> HIDE DEF x, y
    <3>1. x \in Nat /\ y \in Nat /\ y <= x /\ st.totalns <= y
      BY <2>1, <2>3, <2>5 DEF x, y
    <3>2. st.totalns + n <= x + max
      BY <3>1, <2>2, <1>2
    <3> QED  BY <3>2, <2>4 DEF x
  <2>8. min <= max /\ c + 1 # 0
    BY <2>2, <1>2
  <2> HIDE DEF new
  <2> QED  BY <2>2, <2>6, <2>7, <2>8, <1>1 DEF Consistent, new
<1> QED  BY <1>3, <1>4

\* A source without a latency has the counters main gave it.
LEMMA InitConsistent == Init => StatsConsistent
<1>1. NoStats.count = 0
  BY DEF NoStats
<1>2. Consistent(NoStats)
  BY <1>1 DEF Consistent
<1> QED  BY <1>2 DEF Init, StatsConsistent

\* Only EpAccount changes the counters, by Add.
LEMMA NextConsistent ==
  TypeOK /\ EpPlace /\ StatsConsistent /\ [Next]_vars => StatsConsistent'
<1> SUFFICES ASSUME TypeOK, EpPlace, StatsConsistent, [Next]_vars
             PROVE  StatsConsistent'
  OBVIOUS
<1>1. CASE EpAccount /\ ~(ns <= 0)
  <2>1. ep.source \in Sources
    BY <1>1 DEF EpAccount, EpPlace, TypeOK
  <2>2. ns \in 1 .. MaxTime
    BY <1>1, NsType, LatencyAssumption
  <2>3. Consistent(Add(stats[ep.source], ns))
    BY <2>1, <2>2, AddConsistent DEF TypeOK, StatsConsistent
  <2>4. stats' = [stats EXCEPT ![ep.source] = Add(stats[ep.source], ns)]
    BY <1>1 DEF EpAccount
  <2> QED  BY <2>1, <2>3, <2>4 DEF StatsConsistent, TypeOK
<1>2. CASE ~(EpAccount /\ ~(ns <= 0))
  <2>1. stats' = stats
    BY <1>2 DEF Next, vars, Tick, SrcClock, SrcStoreWord, SrcActivate, EpTake,
                EpClock, EpReset, EpLoadWord, EpAccount
  <2> QED  BY <2>1 DEF StatsConsistent
<1> QED  BY <1>1, <1>2

-----------------------------------------------------------------------------
(* Whose latency it is *)

\* What a source has stored stays until its event is raised.
LEMMA NextSrc == TypeOK /\ EpPlace /\ SrcInv /\ [Next]_vars => SrcInv'
<1> SUFFICES ASSUME TypeOK, EpPlace, SrcInv, [Next]_vars PROVE SrcInv'
  OBVIOUS
<1> USE DEF SrcInv
<1>1. ASSUME NEW s \in Sources, SrcClock(s) PROVE SrcInv'
  BY <1>1 DEF SrcClock, TypeOK
<1>2. ASSUME NEW s \in Sources, NEW w \in Words, SrcStoreWord(s, w) PROVE SrcInv'
  <2>1. src[s].at = "activate" /\ src[s].todo \subseteq Words
    BY <1>2 DEF SrcStoreWord, TypeOK
  <2>2. /\ src'[s].at = "activate" /\ src'[s].t = src[s].t
        /\ src'[s].todo = src[s].todo \ {w}
        /\ \A r \in Sources \ {s} : src'[r] = src[r] /\ start_ts'[r] = start_ts[r]
    BY <1>2, <2>1 DEF SrcStoreWord, Rewrite, TypeOK
  <2>3. \A v \in Words : start_ts'[s][v] = IF v = w THEN Stamp(src[s].t)[w]
                                           ELSE start_ts[s][v]
    BY <1>2 DEF SrcStoreWord, Rewrite, TypeOK, Stamps
  <2> QED  BY <2>1, <2>2, <2>3
<1>3. ASSUME NEW s \in Sources, SrcActivate(s) PROVE SrcInv'
  BY <1>3 DEF SrcActivate, Activate, AtRest, TypeOK
<1>4. CASE UNCHANGED <<src, start_ts>>
  BY <1>4
<1> QED  BY <1>1, <1>2, <1>3, <1>4
         DEF Next, vars, Tick, EpTake, EpClock, EpReset, EpLoadWord, EpAccount

\* A source that stores over an active event is told of by begun.
LEMMA NextEvent ==
  TypeOK /\ EpPlace /\ SrcInv /\ EventInv /\ [Next]_vars => EventInv'
<1> SUFFICES ASSUME TypeOK, EpPlace, SrcInv, EventInv, [Next]_vars
             PROVE  EventInv'
  OBVIOUS
<1> USE DEF EventInv
<1>1. ASSUME NEW s \in Sources, NEW w \in Words, SrcStoreWord(s, w) PROVE EventInv'
  <2>1. /\ event' = event
        /\ \A r \in Sources \ {s} : begun'[r] = begun[r] /\ start_ts'[r] = start_ts[r]
    BY <1>1 DEF SrcStoreWord, Rewrite, TypeOK
  <2>2. event[s] = "ACTIVE" => begun'[s].rewritten
    BY <1>1 DEF SrcStoreWord, Rewrite, TypeOK
  <2> QED  BY <2>1, <2>2
<1>2. ASSUME NEW s \in Sources, SrcActivate(s) PROVE EventInv'
  <2>1. \A w \in Words : start_ts[s][w] = Stamp(src[s].t)[w]
    BY <1>2 DEF SrcActivate, SrcInv
  <2> QED  BY <1>2, <2>1 DEF SrcActivate, Activate, TypeOK
<1>3. CASE EpReset
  BY <1>3 DEF EpReset, TypeOK
<1>4. CASE UNCHANGED <<event, begun, start_ts>>
  BY <1>4
<1> QED  BY <1>1, <1>2, <1>3, <1>4
         DEF Next, vars, Tick, SrcClock, EpTake, EpClock, EpLoadWord, EpAccount

\* A source that stores over a word still to be loaded is told of by serves.
LEMMA NextExact ==
  TypeOK /\ EpPlace /\ EventInv /\ EpExact /\ [Next]_vars => EpExact'
<1> SUFFICES ASSUME TypeOK, EpPlace, EventInv, EpExact, [Next]_vars
             PROVE  EpExact'
  OBVIOUS
<1> USE DEF EpExact
<1>1. ASSUME NEW s \in Sources, NEW w \in Words, SrcStoreWord(s, w) PROVE EpExact'
  <2>1. /\ ep' = ep /\ serves'.t = serves.t
        /\ serves'.rewritten <=> \/ serves.rewritten
                                 \/ ep.source = s /\ (ep.at = "work" \/ w \in ep.todo)
    BY <1>1 DEF SrcStoreWord, Rewrite, TypeOK
  <2>2. \A r \in Sources, v \in Words :
          ~(r = s /\ v = w) => start_ts'[r][v] = start_ts[r][v]
    BY <1>1 DEF SrcStoreWord, Rewrite, TypeOK, Stamps
  <2>3. ep.at # "scan" => ep.source \in Sources
    BY DEF EpPlace, TypeOK
  <2>4. ep.at # "reset" => ep.todo = {}
    BY DEF EpPlace
  <2> SUFFICES ASSUME ~serves'.rewritten
               PROVE  /\ ep.at = "work" =>
                           \A v \in Words : start_ts'[ep.source][v] = Stamp(serves.t)[v]
                      /\ ep.at = "reset" =>
                           /\ \A v \in Words \cap ep.todo :
                                start_ts'[ep.source][v] = Stamp(serves.t)[v]
                           /\ \A v \in Words \ ep.todo : ep.read[v] = Stamp(serves.t)[v]
    BY <2>1
  <2>5. ~serves.rewritten
    BY <2>1
  <2>6. CASE ep.source = s
    BY <2>1, <2>2, <2>3, <2>5, <2>6
  <2>7. CASE ep.source # s
    BY <2>1, <2>2, <2>3, <2>5, <2>7
  <2> QED  BY <2>6, <2>7
<1>2. ASSUME NEW s \in Sources, EpTake(s) PROVE EpExact'
  <2>1. ep'.source = s /\ ep'.at = "work" /\ serves' = begun[s] /\ start_ts' = start_ts
    BY <1>2 DEF EpTake, EpIdle
  <2> QED  BY <1>2, <2>1 DEF EpTake, EventInv
<1>3. CASE EpClock
  BY <1>3 DEF EpClock, TypeOK
<1>4. CASE EpReset
  BY <1>4 DEF EpReset, TypeOK, Words
<1>5. ASSUME NEW w \in Words, EpLoadWord(w) PROVE EpExact'
  <2>1. /\ ep'.at = ep.at /\ ep.at = "reset" /\ ep'.source = ep.source
        /\ ep'.todo = ep.todo \ {w} /\ w \in ep.todo
        /\ \A v \in Words : ep'.read[v] = IF v = w THEN start_ts[ep.source][w]
                                          ELSE ep.read[v]
    BY <1>5 DEF EpLoadWord, TypeOK, EpPlace, Stamps
  <2> QED  BY <1>5, <2>1 DEF EpLoadWord
<1>6. CASE EpAccount
  BY <1>6 DEF EpAccount, EpIdle
<1>7. CASE UNCHANGED <<ep, serves, start_ts>>
  BY <1>7
<1> QED  BY <1>1, <1>2, <1>3, <1>4, <1>5, <1>6, <1>7
         DEF Next, vars, Tick, SrcClock, SrcActivate

-----------------------------------------------------------------------------
(* Seconds only grow *)

\* The seconds of a stamp.
LEMMA SecType ==
  ASSUME NEW a \in Stamps
  PROVE  Sec(a) \in Nat
BY StampWords DEF Sec

\* A later moment has no earlier second.
LEMMA SecMonotone ==
  ASSUME NEW t \in Times, NEW u \in Times, t <= u
  PROVE  Sec(Stamp(t)) <= Sec(Stamp(u))
<1> DEFINE p == Sec(Stamp(t))
           q == Sec(Stamp(u))
           f == Stamp(t)["tv_nsec"]
           g == Stamp(u)["tv_nsec"]
<1>1. /\ p \in Nat /\ q \in Nat /\ f \in Nat /\ g \in Nat /\ g < SECOND
      /\ p * SECOND + f = t /\ q * SECOND + g = u
  <2>1. Stamp(t) \in Stamps /\ Stamp(u) \in Stamps
    BY StampType
  <2>2. g < SECOND
    BY <2>1 DEF Stamps
  <2> QED  BY <2>1, <2>2, SecType, StampWords, StampType DEF Sec
<1>2. t \in Nat /\ u \in Nat /\ SECOND \in Nat
  BY LatencyAssumption DEF Times
<1> HIDE DEF p, q, f, g
<1>3. CASE ~(p <= q)
  <2>1. (q + 1) * SECOND <= p * SECOND
    BY <1>1, <1>2, <1>3, Scale
  <2>2. (q + 1) * SECOND = q * SECOND + SECOND
    BY <1>1, <1>2
  <2> DEFINE x == p * SECOND
             y == q * SECOND
  <2>3. /\ x \in Nat /\ y \in Nat /\ y + SECOND <= x
        /\ x + f = t /\ y + g = u
    BY <2>1, <2>2, <1>1, <1>2
  <2> HIDE DEF x, y
  <2>4. u < t
    BY <2>3, <1>1, <1>2
  <2> QED  BY <2>4, <1>2
<1>4. CASE p <= q
  BY <1>4 DEF p, q
<1> QED  BY <1>3, <1>4

\* Storing or loading a word of another stamp that is not earlier.
LEMMA SecWord ==
  ASSUME NEW a \in Stamps, NEW b \in Stamps, NEW w \in Words
  PROVE  Sec([a EXCEPT ![w] = b[w]]) = IF w = "tv_sec" THEN Sec(b) ELSE Sec(a)
BY DEF Sec, Stamps, Words

\* Every step keeps the order of the seconds.
LEMMA NextSec ==
  TypeOK /\ EpPlace /\ SrcInv /\ SecInv /\ [Next]_vars => SecInv'
<1> SUFFICES ASSUME TypeOK, EpPlace, SrcInv, SecInv, [Next]_vars
             PROVE  SecInv'
  OBVIOUS
<1>0. /\ \A s \in Sources : /\ start_ts[s] \in Stamps /\ Sec(start_ts[s]) \in Nat
                            /\ Stamp(src[s].t) \in Stamps /\ Sec(Stamp(src[s].t)) \in Nat
                            /\ Sec(Stamp(begun[s].t)) \in Nat
      /\ Sec(Stamp(now)) \in Nat /\ Sec(Stamp(serves.t)) \in Nat /\ Sec(ep.read) \in Nat
      /\ now \in Times /\ Times \subseteq Nat
  BY StampType, SecType, LatencyAssumption DEF TypeOK, Times
<1> USE DEF SecInv
<1>1. CASE Tick
  <2>1. now + 1 \in Times /\ now <= now + 1
    BY <1>1, LatencyAssumption DEF Tick, TypeOK, Times
  <2>2. Sec(Stamp(now)) <= Sec(Stamp(now + 1)) /\ Sec(Stamp(now + 1)) \in Nat
    BY <2>1, <1>0, SecMonotone, StampType, SecType
  <2>3. \A s \in Sources : Sec(start_ts[s]) <= Sec(Stamp(now'))
    BY <1>0, <1>1, <2>2 DEF Tick
  <2>4. \A s \in Sources : src[s].at = "activate" => src[s].t <= now'
    <3>1. now \in Nat /\ now' = now + 1 /\ \A s \in Sources : src[s].t \in Nat
      BY <1>0, <1>1 DEF Tick, TypeOK
    <3> QED  BY <3>1
  <2> QED  BY <1>1, <2>3, <2>4 DEF Tick
<1>2. ASSUME NEW s \in Sources, SrcClock(s) PROVE SecInv'
  <2>1. src'[s].t = now /\ \A r \in Sources \ {s} : src'[r] = src[r]
    BY <1>2 DEF SrcClock, TypeOK
  <2>2. \A r \in Sources : src'[r].at = "activate" =>
          src'[r].t <= now /\ Sec(start_ts[r]) <= Sec(Stamp(src'[r].t))
    BY <1>0, <2>1
  <2> QED  BY <1>2, <2>2 DEF SrcClock
<1>3. ASSUME NEW s \in Sources, NEW w \in Words, SrcStoreWord(s, w) PROVE SecInv'
  <2>1. src[s].at = "activate" /\ src[s].t \in Times /\ src[s].t <= now
    BY <1>3 DEF SrcInv, SrcStoreWord, TypeOK
  <2>2. Sec(Stamp(src[s].t)) <= Sec(Stamp(now))
    BY <2>1, <1>0, SecMonotone
  <2>3. start_ts'[s] = [start_ts[s] EXCEPT ![w] = Stamp(src[s].t)[w]]
    BY <1>3 DEF SrcStoreWord, Rewrite, TypeOK
  <2>4. Sec(start_ts'[s]) = Sec(start_ts[s]) \/ Sec(start_ts'[s]) = Sec(Stamp(src[s].t))
    BY <2>3, <1>0, SecWord
  <2>5. \A r \in Sources : /\ Sec(start_ts[r]) <= Sec(start_ts'[r])
                           /\ Sec(start_ts'[r]) \in Nat
                           /\ Sec(start_ts'[r]) <= Sec(Stamp(now))
                           /\ src[r].at = "activate" =>
                                Sec(start_ts'[r]) <= Sec(Stamp(src[r].t))
    <3>1. \A r \in Sources \ {s} : start_ts'[r] = start_ts[r]
      BY <1>3 DEF SrcStoreWord, Rewrite, TypeOK
    <3> QED  BY <3>1, <2>1, <2>2, <2>4, <1>0
  <2>6. /\ now' = now /\ event' = event /\ ep' = ep /\ serves'.t = serves.t
        /\ \A r \in Sources : /\ src'[r].at = src[r].at /\ src'[r].t = src[r].t
                              /\ begun'[r].t = begun[r].t
    BY <1>3 DEF SrcStoreWord, Rewrite, TypeOK
  <2>7. ep.at # "scan" => ep.source \in Sources
    BY DEF EpPlace, TypeOK
  <2>8. \A r \in Sources :
          /\ Sec(start_ts'[r]) <= Sec(Stamp(now'))
          /\ src'[r].at = "activate" =>
               src'[r].t <= now' /\ Sec(start_ts'[r]) <= Sec(Stamp(src'[r].t))
          /\ event'[r] = "ACTIVE" => Sec(Stamp(begun'[r].t)) <= Sec(start_ts'[r])
    BY <2>5, <2>6, <1>0
  <2>9. ep.at # "scan" /\ Sec(Stamp(serves.t)) <= Sec(start_ts[ep.source])
          => Sec(Stamp(serves.t)) <= Sec(start_ts'[ep.source])
    BY <2>5, <2>7, <1>0
  <2> QED  BY <2>6, <2>8, <2>9
<1>4. ASSUME NEW s \in Sources, SrcActivate(s) PROVE SecInv'
  <2>1. Sec(start_ts[s]) = Sec(Stamp(src[s].t))
    BY <1>4 DEF SrcActivate, SrcInv, Sec, Words
  <2>2. src'[s].at = "rest" /\ \A r \in Sources \ {s} : src'[r] = src[r]
    BY <1>4 DEF SrcActivate, AtRest, TypeOK
  <2>3. \A r \in Sources : event'[r] = "ACTIVE" =>
          Sec(Stamp(begun'[r].t)) <= Sec(start_ts[r])
    BY <1>0, <1>4, <2>1 DEF SrcActivate, Activate, TypeOK
  <2> QED  BY <1>4, <2>2, <2>3 DEF SrcActivate
<1>5. ASSUME NEW s \in Sources, EpTake(s) PROVE SecInv'
  BY <1>5 DEF EpTake, EpIdle
<1>6. CASE EpClock
  BY <1>6 DEF EpClock, TypeOK, Words
<1>7. CASE EpReset
  <2>1. ep.at = "reset" /\ ep'.at = "reset" /\ ep'.source = ep.source /\ ep'.read = ep.read
        /\ ep'.todo = ep.todo \ {"reset"}
    BY <1>7 DEF EpReset, EpPlace, TypeOK
  <2>2. \A r \in Sources : event'[r] = "ACTIVE" => event[r] = "ACTIVE" /\ begun'[r] = begun[r]
    BY <1>7 DEF EpReset, TypeOK
  <2> QED  BY <1>7, <2>1, <2>2 DEF EpReset
<1>8. ASSUME NEW w \in Words, EpLoadWord(w) PROVE SecInv'
  <2>1. /\ ep.at = "reset" /\ ep'.at = "reset" /\ ep'.source = ep.source
        /\ ep'.todo = ep.todo \ {w} /\ w \in ep.todo /\ ep.source \in Sources
        /\ ep'.read = [ep.read EXCEPT ![w] = start_ts[ep.source][w]]
    BY <1>8 DEF EpLoadWord, EpPlace, TypeOK
  <2>2. Sec(ep'.read) = IF w = "tv_sec" THEN Sec(start_ts[ep.source]) ELSE Sec(ep.read)
    <3>1. ep.read \in Stamps /\ start_ts[ep.source] \in Stamps
      BY <2>1, <1>0 DEF TypeOK
    <3>2. Sec([ep.read EXCEPT ![w] = start_ts[ep.source][w]])
            = IF w = "tv_sec" THEN Sec(start_ts[ep.source]) ELSE Sec(ep.read)
      BY <3>1, SecWord
    <3> QED  BY <3>2, <2>1
  <2> QED  BY <1>8, <2>1, <2>2 DEF EpLoadWord
<1>9. CASE EpAccount
  BY <1>9 DEF EpAccount, EpIdle
<1>10. CASE UNCHANGED vars
  BY <1>10 DEF vars
<1> QED  BY <1>1, <1>2, <1>3, <1>4, <1>5, <1>6, <1>7, <1>8, <1>9, <1>10 DEF Next

-----------------------------------------------------------------------------
(* The theorems *)

\* The initial states satisfy the invariant ...
LEMMA InitInv == Init => IInv /\ StatsConsistent
<1> SUFFICES ASSUME Init PROVE IInv /\ StatsConsistent
  OBVIOUS
<1>1. TypeOK /\ StatsConsistent
  BY InitType, InitConsistent
<1>2. EpPlace /\ EpExact
  BY DEF Init, EpPlace, EpExact, EpIdle
<1>3. CountInv
  <2>1. ep.source = NoSource /\ events = 0
    BY DEF Init, EpIdle
  <2>2. NoStats.count = 0
    BY DEF NoStats
  <2>3. \A s \in Sources : stats[s].count = 0
    BY <2>2 DEF Init
  <2>4. \A s \in Sources : ep.source # s
    BY <2>1, LatencyAssumption
  <2>5. \A s \in Sources : stats[s].count <= events
    <3>1. 0 <= 0
      OBVIOUS
    <3> QED  BY <3>1, <2>1, <2>3, Zenon
  <2> QED  BY <2>4, <2>5 DEF CountInv
<1>4. SrcInv /\ EventInv
  BY DEF Init, SrcInv, EventInv, AtRest
<1>5. SecInv
  <2>1. Sec(Stamp(0)) \in Nat
    BY StampZero, SecType
  <2> QED  BY <2>1 DEF Init, SecInv, EpIdle, AtRest
<1> QED  BY <1>1, <1>2, <1>3, <1>4, <1>5 DEF IInv

\* ... and every step keeps it,
LEMMA NextInv ==
  IInv /\ StatsConsistent /\ [Next]_vars => IInv' /\ StatsConsistent'
BY NextType, NextPlace, NextCount, NextSrc, NextEvent, NextExact, NextSec,
   NextConsistent DEF IInv

\* so that it holds throughout.
LEMMA InvAlways == Spec => [](IInv /\ StatsConsistent)
BY InitInv, NextInv, PTL DEF Spec

\* Types: words of stamps within the clock, never more latencies of a source
\* than handled events, minimum and maximum within uint64_t.
THEOREM TypeCorrect == Spec => []TypeOK
<1>1. IInv => TypeOK
  BY DEF IInv
<1> QED  BY <1>1, InvAlways, PTL

\* What the report divides is consistent: the mean is between the minimum and
\* the maximum, whatever the races on start_ts did to the differences.
THEOREM StatsSound == Spec => []StatsConsistent
BY InvAlways, PTL

\* In the step that accounts, the words loaded are those of the activation.
LEMMA ExactStep ==
  IInv /\ [Next]_vars =>
    [ep.at = "reset" /\ ep'.at = "scan" /\ ~serves.rewritten /\ serves.t < ep.end
       => stats' = [stats EXCEPT ![ep.source] = Add(@, ep.end - serves.t)]]_vars
<1> SUFFICES ASSUME IInv, [Next]_vars, ep.at = "reset", ep'.at = "scan",
                    ~serves.rewritten, serves.t < ep.end
             PROVE  stats' = [stats EXCEPT ![ep.source] = Add(@, ep.end - serves.t)]
  OBVIOUS
<1>1. EpAccount
  BY DEF IInv, TypeOK, Next, vars, Tick, SrcClock, SrcStoreWord, SrcActivate,
         EpTake, EpClock, EpReset, EpLoadWord, EpIdle
<1>2. \A w \in Words : ep.read[w] = Stamp(serves.t)[w]
  BY <1>1 DEF EpAccount, IInv, EpExact
<1>3. serves.t \in Times /\ ep.end \in Times
  BY DEF IInv, TypeOK
<1>4. ns = ep.end - serves.t
  <2>1. ns = ts_diff(Stamp(serves.t), Stamp(ep.end))
    BY <1>2 DEF ns, ts_diff, Words
  <2>2. ts_diff(Stamp(serves.t), Stamp(ep.end)) = ep.end - serves.t
    BY <1>3, DiffExact
  <2> QED  BY <2>1, <2>2
<1>5. ~(ns <= 0)
  BY <1>3, <1>4, LatencyAssumption DEF Times
<1> QED  BY <1>1, <1>4, <1>5 DEF EpAccount

\* A latency is that of the event it is counted for, unless its source wrote
\* start_ts again between the activation and the load of it.
THEOREM LatencyOfItsEvent == Spec => LatencyExact
BY InvAlways, ExactStep, PTL DEF Spec, LatencyExact

\* In the step that accounts, the second loaded is not before the activation.
LEMMA BoundStep ==
  IInv /\ [Next]_vars =>
    [\A s \in Sources :
       stats'[s].totalns - stats[s].totalns < (ep.end - serves.t) + SECOND
       \/ stats'[s] = stats[s]]_vars
<1> SUFFICES ASSUME IInv, [Next]_vars, NEW s \in Sources
             PROVE  \/ stats'[s].totalns - stats[s].totalns
                         < (ep.end - serves.t) + SECOND
                    \/ stats'[s] = stats[s]
  OBVIOUS
<1>1. CASE EpAccount /\ s = ep.source /\ ~(ns <= 0)
  <2>1. Sec(Stamp(serves.t)) <= Sec(ep.read)
    BY <1>1 DEF EpAccount, IInv, SecInv
  <2>2. /\ serves.t \in Times /\ ep.end \in Times /\ ep.read \in Stamps
        /\ stats[s].totalns \in Nat
    BY DEF IInv, TypeOK
  <2>3. ns < (ep.end - serves.t) + SECOND
    BY <2>1, <2>2, DiffTorn DEF ns
  <2>4. stats'[s].totalns = stats[s].totalns + ns
    BY <1>1 DEF EpAccount, Add, IInv, TypeOK
  <2>5. ns \in Int
    BY NsType DEF IInv
  <2>6. serves.t \in Nat /\ ep.end \in Nat /\ SECOND \in Nat
    BY <2>2, LatencyAssumption DEF Times
  <2> QED  BY <2>2, <2>3, <2>4, <2>5, <2>6
<1>2. CASE ~(EpAccount /\ s = ep.source /\ ~(ns <= 0))
  <2>1. stats'[s] = stats[s]
    BY <1>2 DEF Next, vars, Tick, SrcClock, SrcStoreWord, SrcActivate, EpTake,
                EpClock, EpReset, EpLoadWord, EpAccount, IInv, TypeOK
  <2> QED  BY <2>1
<1> QED  BY <1>1, <1>2

\* Whatever the race on start_ts, a latency is too long by less than a second.
THEOREM RaceIsBounded == Spec => LatencyBounded
BY InvAlways, BoundStep, PTL DEF Spec, LatencyBounded

\* Every step of the accounting is a step of EventNotify or none.
LEMMA NotifyStep == IInv /\ [Next]_vars => [Notify!Next]_Notify!nvars
<1> SUFFICES ASSUME IInv, [Next]_vars PROVE [Notify!Next]_Notify!nvars
  OBVIOUS
<1> DEFINE Up == {s \in Sources : event[s] = "ACTIVE"}
           Serving == [e \in {"ep"} |->
                         IF ep.at = "work" \/ "reset" \in ep.todo
                         THEN ep.source ELSE NoSource]
<1>0. /\ Notify!nvars = <<Up, Serving, {}>>
      /\ Notify!nvars' = <<Up', Serving', {}>>
  BY DEF Notify!nvars
<1>1. ASSUME NEW s \in Sources, SrcActivate(s) PROVE Notify!Raise(s)
  <2>1. Up' = Up \cup {s} /\ Serving' = Serving
    BY <1>1 DEF SrcActivate, Activate, IInv, TypeOK
  <2> QED  BY <2>1 DEF Notify!Raise
<1>2. ASSUME NEW s \in Sources, EpTake(s) PROVE Notify!Take("ep", s)
  <2>1. Up' = Up /\ s \in Up
    BY <1>2 DEF EpTake
  <2>2. Serving["ep"] = NoSource /\ Serving' = [Serving EXCEPT !["ep"] = s]
    BY <1>2 DEF EpTake, EpIdle, IInv, EpPlace
  <2> QED  BY <2>1, <2>2 DEF Notify!Take
<1>3. CASE EpReset
  <2>1. Serving["ep"] = ep.source /\ ep.source \in Up
    BY <1>3 DEF EpReset, IInv, EpPlace, TypeOK
  <2>2. Up' = Up \ {ep.source} /\ Serving' = [Serving EXCEPT !["ep"] = NoSource]
    BY <1>3 DEF EpReset, IInv, EpPlace, TypeOK
  <2>3. Notify!Finish("ep")
    BY <2>1, <2>2 DEF Notify!Finish
  <2> QED  BY <2>3 DEF Notify!Next
<1>4. CASE EpClock
  <2>1. Up' = Up /\ Serving' = Serving
    BY <1>4 DEF EpClock, IInv, TypeOK
  <2> QED  BY <2>1, <1>0
<1>5. ASSUME NEW w \in Words, EpLoadWord(w) PROVE UNCHANGED Notify!nvars
  <2>1. Up' = Up /\ Serving' = Serving
    BY <1>5 DEF EpLoadWord, IInv, TypeOK, Words
  <2> QED  BY <2>1, <1>0
<1>6. CASE EpAccount
  <2>1. Up' = Up /\ Serving' = Serving
    BY <1>6 DEF EpAccount, EpIdle
  <2> QED  BY <2>1, <1>0
<1>7. CASE UNCHANGED <<event, ep>>
  BY <1>7, <1>0
<1> QED
  BY <1>1, <1>2, <1>3, <1>4, <1>5, <1>6, <1>7
  DEF Next, vars, Tick, SrcClock, SrcStoreWord, Notify!Next

\* With its stamps and its accounting the processor implements EventNotify.
THEOREM AccountingImplementsNotify == Spec => ImplementsNotify
<1>1. Init => Notify!Init
  BY DEF Init, Notify!Init, EpIdle
<1>2. IInv /\ [Next]_vars => [Notify!Next]_Notify!nvars
  BY NotifyStep
<1> QED
  BY <1>1, <1>2, InvAlways, PTL DEF Spec, ImplementsNotify, Notify!Spec
=============================================================================
