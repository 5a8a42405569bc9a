----------------------------- MODULE Experiment -----------------------------
(* A sweep of src/scripts/full_run.sh: run after run, src/scripts/run_wfey  *)
(* starts a task in the background that samples the energy, runs wfey, and  *)
(* samples once more.  Nobody waits for the task.                           *)
EXTENDS Config

CONSTANTS Runs          \* the runs of the sweep are 1 .. Runs

ASSUME RunsAssumption == Runs \in Nat \ {0}

VARIABLES
  energytype,   \* "WMOD" or "NOMOD", and "none" without BG_TASK
  script,       \* place of the scripts, and the run they are at
  task,         \* what powerLog of each run is about to do
  log           \* the file hwmon-LOGDATE.out of each run

scriptVars == <<energytype, script, task, log>>
expVars    == <<configVars, scriptVars>>

ExpInit ==
  /\ ConfigInit
  /\ energytype \in {"WMOD", "NOMOD", "none"}
  /\ script = [at |-> "begin", run |-> 1]
  /\ task = [r \in 1 .. Runs |-> "none"]
  /\ log = [r \in 1 .. Runs |-> <<>>]

\* Where run r and its scripts are when a sample goes to its file: before wfey has
\* begun, while it runs, after its end, or past the whole run.
When(r) == IF script.run > r \/ script.at \in {"reset", "finished"} THEN "past"
           ELSE IF script.at \in {"begin", "sourcing", "spawn", "exec"} THEN "before"
           ELSE IF Over THEN "after" ELSE "during"

Sample(r, kind) == [kind |-> kind, when |-> When(r)]

ScriptGoto(place) == script' = [script EXCEPT !.at = place]

------------------------------------------------------------------------------
(* run_wfey.sh.  The energy scripts of NOMOD call powerLog, which does not  *)
(* return, when they are sourced.                                           *)

SourceScript ==
  /\ script.at = "begin" /\ energytype # "none"
  /\ ScriptGoto(IF energytype = "NOMOD" THEN "sourcing" ELSE "spawn")
  /\ UNCHANGED <<configVars, energytype, task, log>>

SpawnTask ==
  /\ script.at = "spawn"
  /\ task' = [task EXCEPT ![script.run] = "header"]
  /\ ScriptGoto("exec")
  /\ UNCHANGED <<configVars, energytype, log>>

\* wfey begins with new memory.
ExecWfey ==
  /\ script.at = "exec" \/ (script.at = "begin" /\ energytype = "none")
  /\ ScriptGoto("wfey")
  /\ main' = Begun /\ threads' = <<>>
  /\ UNCHANGED <<total_cpu, energytype, task, log>>

\* Mutant of WfeyReturns: wfey is put into the background.
WfeyReturnsEarly ==
  /\ script.at = "wfey"
  /\ ScriptGoto(IF energytype = "none" THEN "reset" ELSE "cleanup")
  /\ UNCHANGED <<configVars, energytype, task, log>>

\* Its status is not looked at.
WfeyReturns ==
  /\ script.at = "wfey" /\ Over
  /\ ScriptGoto(IF energytype = "none" THEN "reset" ELSE "cleanup")
  /\ UNCHANGED <<configVars, energytype, task, log>>

Cleanup ==
  /\ script.at = "cleanup"
  /\ log' = [log EXCEPT ![script.run] = Append(@, Sample(script.run, "last"))]
  /\ ScriptGoto("reset")
  /\ UNCHANGED <<configVars, energytype, task>>

\* Mutant of NextRun: one run too many.
NextRunTooFar ==
  /\ script.at = "reset"
  /\ script' = IF script.run > Runs THEN [script EXCEPT !.at = "finished"]
               ELSE [at |-> "begin", run |-> script.run + 1]
  /\ UNCHANGED <<configVars, energytype, task, log>>

\* full_run.sh: on to the next run.
NextRun ==
  /\ script.at = "reset"
  /\ script' = IF script.run = Runs THEN [script EXCEPT !.at = "finished"]
               ELSE [at |-> "begin", run |-> script.run + 1]
  /\ UNCHANGED <<configVars, energytype, task, log>>

------------------------------------------------------------------------------
(* powerLog: the file is made anew with its header, and sampled into.       *)

TaskHeader(r) ==
  /\ task[r] = "header"
  /\ log' = [log EXCEPT ![r] = <<Sample(r, "header")>>]
  /\ task' = [task EXCEPT ![r] = "sample"]
  /\ UNCHANGED <<configVars, energytype, script>>

TaskSample(r) ==
  /\ task[r] = "sample"
  /\ log' = [log EXCEPT ![r] = Append(@, Sample(r, "first"))]
  /\ task' = [task EXCEPT ![r] = "done"]
  /\ UNCHANGED <<configVars, energytype, script>>

Wfey(step) == script.at = "wfey" /\ step /\ UNCHANGED scriptVars

Scripts   == SourceScript \/ SpawnTask \/ ExecWfey \/ WfeyReturns \/ Cleanup \/ NextRun
PowerLog(r) == TaskHeader(r) \/ TaskSample(r)

ExpNext == \/ Scripts
           \/ \E r \in 1 .. Runs : PowerLog(r)
           \/ Wfey(ConfigNext)
\* Each thread, the scripts and the task run on, and end what they do.
Fairness == /\ WF_expVars(Scripts)
            /\ \A r \in 1 .. Runs : WF_expVars(PowerLog(r))
            /\ WF_expVars(Wfey(Main))
            /\ \A n \in 1 .. W64 : WF_expVars(Wfey(n \in DOMAIN threads /\ Thread(n)))

ExpSpec == ExpInit /\ [][ExpNext]_expVars /\ Fairness

------------------------------------------------------------------------------
(* Properties                                                               *)

ScriptTypeOK ==
  /\ energytype \in {"WMOD", "NOMOD", "none"}
  /\ script \in [at : {"begin", "sourcing", "spawn", "exec", "wfey", "cleanup", "reset",
                        "finished"}, run : 1 .. Runs]
  /\ task \in [1 .. Runs -> {"none", "header", "sample", "done"}]
  /\ log \in [1 .. Runs -> Seq([kind : {"header", "first", "last"},
                                when : {"before", "during", "after", "past"}])]

\* Once a run and its task are done, a file in which the header, the first and the
\* last sample are in this order has its last from after the end of wfey, and is
\* what the task made before the script went on; a file that was made later shows
\* it, by its order or by the want of a last sample.  If the first sample was taken
\* before wfey began, the two bracket the run.  (run_wfey.sh, powerLog and cleanup.
\* That it is, nobody sees to: in a file in order, too, it may be from mid-run.)
LogBrackets ==
  \A r \in 1 .. Runs : task[r] = "done" /\ (script.run > r \/ script.at \in {"reset", "finished"}) =>
    LET Line(n)    == log[r][n]
        first      == CHOOSE n \in DOMAIN log[r] : Line(n).kind = "first"
        inOrder    == [n \in DOMAIN log[r] |-> Line(n).kind] = <<"header", "first", "last">>
    IN /\ inOrder <=> Line(first).when # "past"
       /\ inOrder => Line(3).when = "after"
       /\ ~(\E n \in DOMAIN log[r] : Line(n).kind = "last") => Line(1).when = "past"
       /\ Line(first).when = "before" =>
            log[r] = <<[kind |-> "header", when |-> "before"], [kind |-> "first", when |-> "before"],
                       [kind |-> "last", when |-> "after"]>>

\* Where main waits for ever: at a barrier on the stack that was refused its count;
\* for a processor caught in the barrier that was initialised around it; for a
\* source that sleeps through its end; at an end barrier that was told too many, as
\* there is no processor, or that was not initialised, with every core in use.
Hangs ==
  \/ main.at \in {"processor", "stop", "end"} /\ main.Num_Processors < 0
  \/ main.at = "start" /\ main.Num_Sources < 0
  \/ main.at = "stop" /\ main.lost # {}
  \/ main.at = "end" /\ (main.lost # {} \/ main.num_idle = 0)

\* The sweep ends whatever its arguments, unless main is stuck for good in one of
\* those waits, or the energy script is one of NOMOD, which is never done being
\* sourced.  (Each exit of main and of the threads, and each wait of main.)
SweepEnds == <>(script.at \in {"finished", "sourcing"}) \/ <>[]Hangs
==============================================================================
