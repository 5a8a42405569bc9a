------------------------------- MODULE Barrier -------------------------------
(***************************************************************************)
(* pthread_barrier_t as wfey.c uses it (external: the C library's).  Each  *)
(* arrival takes a number; the one that completes a round of "count"       *)
(* arrivals publishes it and leaves without another look, every other one  *)
(* waits until it sees a published round that contains its number.  A      *)
(* barrier may be used again at once: rounds are never confused, unless    *)
(* the barrier is initialised anew while a thread is still inside.         *)
(***************************************************************************)
EXTENDS Naturals

VARIABLES bar,     \* of each barrier: count, arrivals so far, last round
          ticket   \* of each thread: its number, 0 once it may leave

barVars == <<bar, ticket>>

\* Storage nobody has initialised, all zero: no round of it ever completes.
NoBarrier == [count |-> 0, arrived |-> 0, round |-> 0]

\* pthread_barrier_init(b, NULL, n)
BarrierInit(b, n) ==
  /\ bar' = [bar EXCEPT ![b] = [count |-> n, arrived |-> 0, round |-> 0]]
  /\ UNCHANGED ticket

\* pthread_barrier_wait(b), its first half: thread t enters.
Arrive(t, b) ==
  LET i    == bar[b].arrived + 1
      last == bar[b].count # 0 /\ bar[b].round + bar[b].count <= i
  IN /\ bar' = [bar EXCEPT ![b].arrived = i, ![b].round = IF last THEN i ELSE @]
     /\ ticket' = [ticket EXCEPT ![t] = IF last THEN 0 ELSE i]

\* ... and its second half: the round of thread t is seen to be complete.
Leave(t, b) ==
  /\ ticket[t] <= bar[b].round
  /\ ticket' = [ticket EXCEPT ![t] = 0]
  /\ UNCHANGED bar
==============================================================================
