------------------------------- MODULE Latency -------------------------------
(***************************************************************************)
(* The latencies wfey.c reports: a source stamps the start of its event in *)
(* source_event_activate, the processor its end in source_event_reset,     *)
(* which accounts for the difference.  Both touch start_ts without a lock, *)
(* word by word, and nothing orders the words of a core among themselves.  *)
(* How the processor finds the event is EventLoop's matter; here it takes  *)
(* any that is active, as in EventNotify.                                  *)
(***************************************************************************)
EXTENDS Integers

CONSTANTS Sources,
          NoSource,
          SECOND,      \* NSEC_IN_SECOND
          UINT64_MAX,  \* what minns starts from
          MaxTime,     \* bound: the clock stops here
          MaxEvents    \* bound: events one processor handles

ASSUME LatencyAssumption ==
  /\ NoSource \notin Sources
  /\ SECOND \in Nat \ {0} /\ MaxTime \in Nat /\ MaxEvents \in Nat
  /\ UINT64_MAX \in Nat /\ MaxTime < UINT64_MAX

\* A struct timespec, within the clock.
Words  == {"tv_sec", "tv_nsec"}
Times  == 0 .. MaxTime
Stamps == {r \in [Words -> Times] : r["tv_nsec"] < SECOND}

\* What ts_now stores at a moment, and ts_diff of two.
Stamp(t) == [w \in Words |-> IF w = "tv_sec" THEN t \div SECOND ELSE t % SECOND]
ts_diff(start, end) ==
  (end["tv_sec"] - start["tv_sec"]) * SECOND + (end["tv_nsec"] - start["tv_nsec"])

VARIABLES
  now,       \* CLOCK_MONOTONIC
  event,     \* Source.event.state
  start_ts,  \* Source.start_ts
  stats,     \* Source.totalns, count, minns and maxns
  src,       \* each source: its clock reading, the words still to be stored
             \* and whether it is inside source_event_activate
  ep,        \* the processor: its source, end_ts, what of the reset is still
             \* to be done, and the words of start_ts it has read
  events,    \* the processor's count of handled events
  begun,     \* (history) when the raised event was stamped, and whether its
             \* start_ts was written again since
  serves     \* (history) the same of the event the processor works on

vars == <<now, event, start_ts, stats, src, ep, events, begun, serves>>

NoStats == [totalns |-> 0, count |-> 0, minns |-> UINT64_MAX, maxns |-> 0]
AtRest  == [at |-> "rest", t |-> 0, todo |-> {}]
EpIdle  == [source |-> NoSource, at |-> "scan", end |-> 0, todo |-> {},
            read |-> Stamp(0)]
Untold  == [t |-> 0, rewritten |-> FALSE]

TypeOK ==
  /\ now \in Times
  /\ event \in [Sources -> {"RESET", "ACTIVE"}]
  /\ start_ts \in [Sources -> Stamps]
  /\ stats \in [Sources -> [totalns : Nat, count : 0 .. MaxEvents,
                            minns : 0 .. UINT64_MAX, maxns : 0 .. UINT64_MAX]]
  /\ src \in [Sources -> [at : {"rest", "activate"}, t : Times, todo : SUBSET Words]]
  /\ ep \in [source : Sources \cup {NoSource}, at : {"scan", "work", "reset"},
             end : Times, todo : SUBSET (Words \cup {"reset"}), read : Stamps]
  /\ events \in 0 .. MaxEvents
  /\ begun \in [Sources -> [t : Times, rewritten : BOOLEAN]]
  /\ serves \in [t : Times, rewritten : BOOLEAN]

\* main resets the event of each source, and only then its statistics.
Init ==
  /\ now = 0
  /\ event = [s \in Sources |-> "RESET"]
  /\ start_ts = [s \in Sources |-> Stamp(0)]
  /\ stats = [s \in Sources |-> NoStats]
  /\ src = [s \in Sources |-> AtRest]
  /\ ep = EpIdle
  /\ events = 0
  /\ begun = [s \in Sources |-> Untold]
  /\ serves = Untold

Tick ==
  /\ now < MaxTime
  /\ now' = now + 1
  /\ UNCHANGED <<event, start_ts, stats, src, ep, events, begun, serves>>

------------------------------------------------------------------------------
(* source_event_activate *)

\* ts_now reads the clock ...
SrcClock(s) ==
  /\ src[s].at = "rest"
  /\ src' = [src EXCEPT ![s] = [at |-> "activate", t |-> now, todo |-> Words]]
  /\ UNCHANGED <<now, event, start_ts, stats, ep, events, begun, serves>>

\* ... and stores it, one word after the other.
Rewrite(s, w) ==
  /\ start_ts' = [start_ts EXCEPT ![s][w] = Stamp(src[s].t)[w]]
  /\ begun' = [begun EXCEPT ![s].rewritten = @ \/ event[s] = "ACTIVE"]
  /\ serves' = [serves EXCEPT !.rewritten =
                   @ \/ (ep.source = s /\ (ep.at = "work" \/ w \in ep.todo))]

SrcStoreWord(s, w) ==
  /\ w \in src[s].todo
  /\ src' = [src EXCEPT ![s].todo = @ \ {w}]
  /\ Rewrite(s, w)
  /\ UNCHANGED <<now, event, stats, ep, events>>

\* The release store of the state, which the words cannot pass.  An event
\* that is still active keeps its history.
Activate(s) ==
  /\ event' = [event EXCEPT ![s] = "ACTIVE"]
  /\ begun' = IF event[s] = "ACTIVE" THEN begun
              ELSE [begun EXCEPT ![s] = [t |-> src[s].t, rewritten |-> FALSE]]

\* Mutant of SrcActivate: the event is activated before it is stamped.
SrcActivateEarly(s) ==
  /\ src[s].at = "activate" /\ src[s].todo = Words
  /\ Activate(s)
  /\ src' = [src EXCEPT ![s].at = "rest"]
  /\ UNCHANGED <<now, start_ts, stats, ep, events, serves>>

SrcActivate(s) ==
  /\ src[s].at = "activate" /\ src[s].todo = {}
  /\ src' = [src EXCEPT ![s] = AtRest]
  /\ Activate(s)
  /\ UNCHANGED <<now, start_ts, stats, ep, events, serves>>

------------------------------------------------------------------------------
(* EP_handle_event and source_event_reset *)

\* Mutant of EpTake: the state of the event is not looked at.
EpTakeAny(s) ==
  /\ ep.source = NoSource /\ events < MaxEvents
  /\ ep' = [EpIdle EXCEPT !.source = s, !.at = "work"]
  /\ events' = events + 1
  /\ serves' = begun[s]
  /\ UNCHANGED <<now, event, start_ts, stats, src, begun>>

\* source_event_isActive, events++ and the work.
EpTake(s) ==
  /\ ep.source = NoSource /\ events < MaxEvents
  /\ event[s] = "ACTIVE"
  /\ ep' = [EpIdle EXCEPT !.source = s, !.at = "work"]
  /\ events' = events + 1
  /\ serves' = begun[s]
  /\ UNCHANGED <<now, event, start_ts, stats, src, begun>>

\* ts_now(&(this->end_ts))
EpClock ==
  /\ ep.at = "work"
  /\ ep' = [ep EXCEPT !.at = "reset", !.end = now, !.todo = Words \cup {"reset"}]
  /\ UNCHANGED <<now, event, start_ts, stats, src, events, begun, serves>>

\* The release store of the state: the loads after it may come before.
EpReset ==
  /\ "reset" \in ep.todo
  /\ ep' = [ep EXCEPT !.todo = @ \ {"reset"}]
  /\ event' = [event EXCEPT ![ep.source] = "RESET"]
  /\ begun' = [begun EXCEPT ![ep.source] = Untold]
  /\ UNCHANGED <<now, start_ts, stats, src, events, serves>>

EpLoadWord(w) ==
  /\ w \in ep.todo
  /\ ep' = [ep EXCEPT !.todo = @ \ {w}, !.read[w] = start_ts[ep.source][w]]
  /\ UNCHANGED <<now, event, start_ts, stats, src, events, begun, serves>>

ns == ts_diff(ep.read, Stamp(ep.end))

\* Mutant of Add: "else if" for the second "if".
AddElse(st, n) ==
  [totalns |-> st.totalns + n, count |-> st.count + 1,
   minns |-> IF n < st.minns THEN n ELSE st.minns,
   maxns |-> IF n >= st.minns /\ n > st.maxns THEN n ELSE st.maxns]

Add(st, n) ==
  [totalns |-> st.totalns + n, count |-> st.count + 1,
   minns |-> IF n < st.minns THEN n ELSE st.minns,
   maxns |-> IF n > st.maxns THEN n ELSE st.maxns]

\* Mutant of EpAccount: the difference taken as it is.
EpAccountAll ==
  /\ ep.at = "reset" /\ ep.todo = {}
  /\ stats' = [stats EXCEPT ![ep.source] = Add(@, ns)]
  /\ ep' = EpIdle
  /\ serves' = Untold
  /\ UNCHANGED <<now, event, start_ts, src, events, begun>>

\* "shenanigans occured": a difference that is not positive is dropped.
EpAccount ==
  /\ ep.at = "reset" /\ ep.todo = {}
  /\ stats' = IF ns <= 0 THEN stats
              ELSE [stats EXCEPT ![ep.source] = Add(@, ns)]
  /\ ep' = EpIdle
  /\ serves' = Untold
  /\ UNCHANGED <<now, event, start_ts, src, events, begun>>

Next == \/ Tick
        \/ \E s \in Sources :
             \/ SrcClock(s) \/ SrcActivate(s) \/ EpTake(s)
             \/ \E w \in Words : SrcStoreWord(s, w)
        \/ EpClock \/ EpReset \/ EpAccount
        \/ \E w \in Words : EpLoadWord(w)

Spec == Init /\ [][Next]_vars

------------------------------------------------------------------------------
\* What the report divides and prints is consistent: a mean between the least
\* and the greatest latency, and nothing at all for a source without one.
\* Whatever the races on start_ts do to a difference, they do to all three.
Consistent(st) ==
  IF st.count = 0 THEN st = NoStats
  ELSE /\ 0 < st.minns /\ st.minns <= st.maxns
       /\ st.minns * st.count <= st.totalns
       /\ st.totalns <= st.maxns * st.count

StatsConsistent == \A s \in Sources : Consistent(stats[s])

\* A latency is that of the event it is counted for, from its activation to
\* the end of its work, unless its source wrote start_ts again meanwhile
\* ("there should probably~ be a lock involved here", wfey.c:42).
LatencyExact ==
  [][ep.at = "reset" /\ ep'.at = "scan" /\ ~serves.rewritten /\ serves.t < ep.end
       => stats' = [stats EXCEPT ![ep.source] = Add(@, ep.end - serves.t)]]_vars

\* The race bounds its own damage: a latency is too long by less than a
\* second, the most that two words of different moments can be apart.
LatencyBounded ==
  [][\A s \in Sources :
       stats'[s].totalns - stats[s].totalns < (ep.end - serves.t) + SECOND
       \/ stats'[s] = stats[s]]_vars

\* With its stamps and its accounting the processor still implements
\* EventNotify: the event is lowered once per handling, by the reset.
Notify == INSTANCE EventNotify WITH
            Procs   <- {"ep"},
            raised  <- {s \in Sources : event[s] = "ACTIVE"},
            serving <- [e \in {"ep"} |->
                          IF ep.at = "work" \/ "reset" \in ep.todo
                          THEN ep.source ELSE NoSource],
            quit    <- {}

ImplementsNotify == Notify!Spec
==============================================================================
