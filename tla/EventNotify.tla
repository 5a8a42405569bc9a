----------------------------- MODULE EventNotify -----------------------------
(***************************************************************************)
(* What wfey promises of its events, whatever the way the event processor  *)
(* waits for them (polling or WFE, with or without a doorbell): a source   *)
(* raises its event, an event processor takes an event that is raised,     *)
(* works on it, and only the end of that work lowers it.  A raise that     *)
(* meets an event still raised is absorbed.                                *)
(***************************************************************************)
CONSTANTS Sources,   \* the event sources
          Procs,     \* the event processors
          NoSource   \* what an idle processor works on

VARIABLES raised,    \* the sources whose event is raised
          serving,   \* the source each processor works for
          quit       \* the processors that stopped

nvars == <<raised, serving, quit>>

Init == /\ raised = {}
        /\ serving = [e \in Procs |-> NoSource]
        /\ quit = {}

Raise(s) == /\ raised' = raised \cup {s}
            /\ UNCHANGED <<serving, quit>>

Take(e, s) == /\ e \notin quit
              /\ serving[e] = NoSource
              /\ s \in raised
              /\ serving' = [serving EXCEPT ![e] = s]
              /\ UNCHANGED <<raised, quit>>

Finish(e) == /\ serving[e] \in raised
             /\ raised' = raised \ {serving[e]}
             /\ serving' = [serving EXCEPT ![e] = NoSource]
             /\ UNCHANGED quit

Quit(e) == /\ serving[e] = NoSource
           /\ quit' = quit \cup {e}
           /\ UNCHANGED <<raised, serving>>

Next == \/ \E s \in Sources : Raise(s)
        \/ \E e \in Procs : Finish(e) \/ Quit(e)
        \/ \E e \in Procs, s \in Sources : Take(e, s)

Spec == Init /\ [][Next]_nvars
==============================================================================
