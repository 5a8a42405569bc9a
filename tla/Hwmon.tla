-------------------------------- MODULE Hwmon --------------------------------
(* How wfey reads the energy of a core: the path of the core's energy file  *)
(* is looked up once, by its label, and cached; src/wfey_hwmon.c and        *)
(* src/include/wfey_hwmon.h.  main reads it before it creates the event     *)
(* processor, which reads it before and after its loop.                     *)
EXTENDS AltraHwmon

CONSTANTS
  Cores,    \* the core to be read is one of them
  NoArray,  \* wfey_hwmon_joules_paths is null
  NoPath    \* its entry for the core is

Reads == 3                     \* main's, and the processor's two

ASSUME CoreAssumption ==
  Cores \subseteq Nat /\ NoArray \notin Nat /\ NoPath \notin Nat /\ NoArray # NoPath

VARIABLES
  core,     \* the argument of wfey_hwmon_joules_read
  paths,    \* what is cached for the core: nothing, or its path, of which we
            \* keep the load of the module it was looked up in
  call,     \* place and locals of the call, and (history) when it began
  readings  \* (history) what the calls returned

hwmonVars == <<driverVars, core, paths, call, readings>>

\* The load of the module the files in sysfs are of, if it is there.
Load == IF walk.at = "on" THEN loads ELSE 0

AtRest == [at |-> "rest", back |-> "load", path |-> NoPath, file |-> 0, began |-> 0]

HwmonInit ==
  /\ DriverInit
  /\ core \in Cores
  /\ paths = NoArray
  /\ call = AtRest
  /\ readings = <<>>

NoReg == <<0, 0>>

Return(kind, reg, value) ==
  /\ readings' = Append(readings, [kind |-> kind, reg |-> reg, value |-> value,
                                   began |-> call.began, load |-> Load, path |-> call.path])
  /\ call' = AtRest
  /\ UNCHANGED paths

\* Mutant of CallRead: an array that was never allocated is not noticed.
CallReadUnchecked ==
  /\ call.at = "rest" /\ Len(readings) < Reads
  /\ call' = [call EXCEPT !.at = "load", !.began = Load]
  /\ UNCHANGED <<driverVars, core, paths, readings>>

\* wfey_hwmon_joules_read: without an array, the first look-up; then the path
\* is read from it, and if it is null, looked up for the calls to come.
CallRead ==
  /\ call.at = "rest" /\ Len(readings) < Reads
  /\ call' = [call EXCEPT !.at = IF paths = NoArray THEN "find" ELSE "load", !.began = Load]
  /\ UNCHANGED <<driverVars, core, paths, readings>>

LoadPath ==
  /\ call.at = "load"
  /\ call' = [call EXCEPT !.at = IF paths = NoPath THEN "find" ELSE "open",
                          !.path = paths, !.back = "open"]
  /\ UNCHANGED <<driverVars, core, paths, readings>>

\* wfey_hwmon_joules_cache_path: the device is looked for by its name ...
FindDevice ==
  /\ call.at = "find"
  /\ call' = [call EXCEPT !.at = IF walk.at = "on" THEN "label" ELSE call.back]
  /\ paths' = IF paths = NoArray THEN NoPath ELSE paths
  /\ UNCHANGED <<driverVars, core, readings>>

\* Mutant of IsLabelled: the label is not compared.
IsLabelledAny == HasSensor("energy", core)

\* Mutant of IsLabelled: the file of the label only has to exist.
IsLabelledFile == HasFiles("energy", core)

\* ... and the path kept if the label of the channel has the core's number.
IsLabelled == HasSensor("energy", core) /\ Sensor("energy", core).label = <<"core", core>>

\* Mutant of ReadLabel: the path is not kept.
ReadLabelForgets ==
  /\ call.at = "label"
  /\ call' = [call EXCEPT !.at = call.back]
  /\ UNCHANGED <<driverVars, core, paths, readings>>

ReadLabel ==
  /\ call.at = "label"
  /\ paths' = IF IsLabelled THEN loads ELSE paths
  /\ call' = [call EXCEPT !.at = call.back]
  /\ UNCHANGED <<driverVars, core, readings>>

OpenFile ==
  /\ call.at = "open" /\ call.path # NoPath /\ HasFiles("energy", core)
  /\ call' = [call EXCEPT !.at = "scan", !.file = loads]
  /\ UNCHANGED <<driverVars, core, paths, readings>>

OpenFails ==
  /\ call.at = "open" /\ (call.path = NoPath \/ ~HasFiles("energy", core))
  /\ Return("failed", NoReg, 0)
  /\ UNCHANGED <<driverVars, core>>

ScanEnergy ==
  LET r == Sensor("energy", core).reg IN
  /\ call.at = "scan" /\ call.file = Load /\ HasSensor("energy", core)
  /\ Return("energy", r, Value(r))
  /\ UNCHANGED <<driverVars, core>>

\* fscanf reads no number from a file whose read fails: joules stays as it was
\* found on the stack.
ScanFails ==
  /\ call.at = "scan" /\ ~(call.file = Load /\ HasSensor("energy", core))
  /\ Return("garbage", NoReg, 0)
  /\ UNCHANGED <<driverVars, core>>

Reader == CallRead \/ LoadPath \/ FindDevice \/ ReadLabel \/ OpenFile \/ OpenFails
          \/ ScanEnergy \/ ScanFails

HwmonNext == Reader \/ (Driver /\ UNCHANGED <<core, paths, call, readings>>)
HwmonSpec == HwmonInit /\ [][HwmonNext]_hwmonVars
------------------------------------------------------------------------------
(* Properties                                                               *)

HwTypeOK ==
  /\ table \in Tables /\ data \in [Regs(table) -> 0 .. MaxData] /\ loads \in 0 .. MaxLoads
  /\ walk \in [at : {"off", "metric", "count", "store", "register", "on", "oops"},
               m : Nat, hw_reg : Nat, i : Nat, j : Nat, total : Nat]
  /\ ctx.list \in [Types -> Seq([reg : Regs(table), hw_reg : Nat, label : Labels \X Nat])]
  /\ ctx.room \in [Types -> Nat \cup {NoList}]
  /\ ctx.info \in Seq([type : Types, total : Nat, channels : Nat])
  /\ counted \subseteq Regs(table)
  /\ core \in Cores /\ paths \in {NoArray, NoPath} \cup 1 .. MaxLoads
  /\ call \in [at : {"rest", "find", "label", "load", "open", "scan"},
               back : {"load", "open"}, path : {NoPath} \cup 1 .. MaxLoads,
               file : 0 .. MaxLoads, began : 0 .. MaxLoads]
  /\ readings \in Seq([kind : {"energy", "failed", "garbage"},
                       reg : Regs(table) \cup {NoReg}, value : Nat, began : 0 .. MaxLoads,
                       load : 0 .. MaxLoads, path : {NoPath} \cup 1 .. MaxLoads])
  /\ Len(readings) <= Reads

\* What is read through a path that was looked up in the same load is a register
\* of the cores' metric, and the one of the core but for the registers below it
\* that the probe left out: each moves the reading one core up, unseen by the
\* test of the label.  (label numbers in altra_create_sensor against the label
\* test of wfey_hwmon_joules_cache_path.)
ReadsItsCore ==
  \A n \in DOMAIN readings :
    LET r       == readings[n].reg
        skipped == {i \in 0 .. r[2] - 1 : <<r[1], i>> \notin {item.reg : item \in Items}}
    IN readings[n].kind = "energy" /\ readings[n].load = Load
         /\ readings[n].path = readings[n].load
       => table.metrics[r[1]].label = "core" /\ r[2] = core + Cardinality(skipped)

\* The uninitialised joules are returned only if the module was removed or
\* loaded anew since the path was looked up.  (wfey_hwmon_joules_read does not
\* test fscanf; the label, read when the path is cached, stands for the test.)
NoGarbage ==
  \A n \in DOMAIN readings :
    readings[n].kind = "garbage" => readings[n].load # readings[n].path

\* After one call that found the core's sensor in place from beginning to end,
\* failed or not, each further call in this load reads its energy, and energies
\* of a register of 8 bytes or more never decrease.  (The first call with an array
\* fails even if its look-up succeeds, as path is not read again; what the
\* processor subtracts is right because main reads before.)
WarmReads ==
  \A m, n \in DOMAIN readings :
    m < n /\ Load # 0 /\ IsLabelled
      /\ Load = readings[m].began /\ Load = readings[m].load /\ Load = readings[n].load
    => /\ readings[n].kind = "energy"
       /\ readings[m].kind = "energy" =>
            /\ readings[m].reg = readings[n].reg
            /\ table.metrics[readings[m].reg[1]].size >= 8
               => readings[m].value <= readings[n].value
==============================================================================
