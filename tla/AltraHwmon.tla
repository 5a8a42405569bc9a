----------------------------- MODULE AltraHwmon -----------------------------
(* The kernel module of src/module/altra-hwmon.c.  Its probe walks a table  *)
(* the firmware keeps in memory, metric by metric, and goes twice over the  *)
(* data registers of each: to count the valid ones, and to store them as    *)
(* sensors.  The registers live: energy accumulates in them meanwhile.      *)
EXTENDS Integers, Sequences, FiniteSets

CONSTANTS
  Tables,     \* the firmware tables: a size in bytes and metrics
  WORD,       \* 2^32
  MaxData,    \* bound: the energy a register accumulates
  MaxLoads,   \* bound: how often the module is loaded
  MaxBeyond,  \* bound: channels found behind the end of a config array
  NoList      \* a null sensor_list

Types  == {"energy", "temp"}
Labels == {"core", "other", "none"}   \* "core": Core Energy, "none": an empty one
HW_METRICS_HDRSIZE == 8
HW_METRIC_HDRSIZE  == 24

\* Nobody tests the size of a register, which is 4 or 8 by a comment only.
Metrics == [type : Types \cup {"unknown"}, label : Labels, cnt : Nat, size : 0 .. 255]

ASSUME TableAssumption ==
  /\ \A t \in Tables : t.base_size \in Nat /\ t.metrics \in Seq(Metrics)
  /\ WORD \in Nat \ {0} /\ MaxData \in Nat \ {0} /\ MaxLoads \in Nat
  /\ MaxBeyond \in Nat /\ NoList \notin Nat

VARIABLES
  table,    \* the table of this machine
  data,     \* the energy behind each register <<metric, index>>
  loads,    \* how often the module was loaded
  walk,     \* place and locals of the probe
  ctx,      \* altra_hwmon_context: the lists of sensors, the items there is
            \* room for, and the infos of the metrics stored
  counted   \* (history) the registers the first pass found valid

driverVars == <<table, data, loads, walk, ctx, counted>>

Metric == table.metrics[walk.m]
Regs(t) == UNION {{m} \X (0 .. t.metrics[m].cnt - 1) : m \in DOMAIN t.metrics}

\* The bytes that are read of a register, whatever its size.
Width(size) == IF size = 4 THEN 4 ELSE 8
IsCut(size) == size < Width(size)

\* altra_sensor_is_valid: a value of either width passes through an int.
IsValid(r) == data[r] % WORD # 0

\* What a read of the register gives: of a 4 byte one, the low word.  The 8 bytes of
\* another narrow one are partly of what is behind it.
Value(r) == IF table.metrics[r[1]].size = 4 THEN data[r] % WORD ELSE data[r]

Off       == [at |-> "off", m |-> 1, hw_reg |-> 0, i |-> 0, j |-> 0, total |-> 0]
NoContext == [list |-> [t \in Types |-> <<>>], room |-> [t \in Types |-> NoList],
              info |-> <<>>]

DriverInit ==
  /\ table \in Tables
  /\ data \in [Regs(table) -> {0, 1}]
  /\ loads = 0
  /\ walk = Off
  /\ ctx = NoContext
  /\ counted = {}

\* A core uses energy.  What is behind a narrow register changes as it likes.
Charge(r) ==
  /\ r \in DOMAIN data
  /\ \E value \in 0 .. MaxData :
       /\ value = data[r] + 1 \/ IsCut(table.metrics[r[1]].size)
       /\ data' = [data EXCEPT ![r] = value]
  /\ UNCHANGED <<table, loads, walk, ctx, counted>>

------------------------------------------------------------------------------
(* altra_hwmon_create_sensors: the walk over the metrics.  An allocation    *)
(* that fails, or a table of another version, ends the probe, and devm      *)
(* frees what it had allocated.                                             *)

Probe ==
  /\ walk.at = "off" /\ loads < MaxLoads
  /\ loads' = loads + 1
  /\ walk' = [Off EXCEPT !.at = "metric", !.hw_reg = HW_METRICS_HDRSIZE]
  /\ counted' = {}
  /\ UNCHANGED <<table, data, ctx>>

Unload ==
  /\ walk' = Off
  /\ ctx' = NoContext
  /\ UNCHANGED <<table, data, loads, counted>>

hw_end_reg == walk.hw_reg + HW_METRIC_HDRSIZE + Metric.size * Metric.cnt
Align8(x)  == ((x + 7) \div 8) * 8

\* Mutant of InRange: only the header of a metric is checked.
HeaderInRange == /\ walk.m \in DOMAIN table.metrics
                 /\ walk.hw_reg + HW_METRIC_HDRSIZE <= table.base_size

InRange == /\ walk.m \in DOMAIN table.metrics
           /\ walk.hw_reg + HW_METRIC_HDRSIZE <= table.base_size
           /\ hw_end_reg <= table.base_size

\* Mutant of NextMetric: the count of stored sensors is not reset.
NextMetricKeepsJ == [Off EXCEPT !.at = "metric", !.m = walk.m + 1,
                                !.hw_reg = Align8(hw_end_reg), !.j = walk.j]

NextMetric == [Off EXCEPT !.at = "metric", !.m = walk.m + 1, !.hw_reg = Align8(hw_end_reg)]

\* The first metric beyond the range ends the walk.
WalkEnds ==
  /\ walk.at = "metric" /\ ~InRange
  /\ walk' = [walk EXCEPT !.at = "register"]
  /\ UNCHANGED <<table, data, loads, ctx, counted>>

\* A malformed metric is skipped.
SkipMetric ==
  /\ walk.at = "metric" /\ InRange
  /\ Metric.type = "unknown" \/ Metric.label = "none"
  /\ walk' = NextMetric
  /\ UNCHANGED <<table, data, loads, ctx, counted>>

StartMetric ==
  /\ walk.at = "metric" /\ InRange
  /\ Metric.type # "unknown" /\ Metric.label # "none"
  /\ walk' = [walk EXCEPT !.at = "count"]
  /\ UNCHANGED <<table, data, loads, ctx, counted>>

------------------------------------------------------------------------------
(* altra_create_sensor: both passes, one register at a time.                *)

CountRegister ==
  LET r == <<walk.m, walk.i>> IN
  /\ walk.at = "count" /\ walk.i < Metric.cnt
  /\ walk' = [walk EXCEPT !.i = @ + 1, !.total = IF IsValid(r) THEN @ + 1 ELSE @]
  /\ counted' = IF IsValid(r) THEN counted \cup {r} ELSE counted
  /\ UNCHANGED <<table, data, loads, ctx>>

\* Mutant of Allocate: the new list has room for the new sensors only.
AllocateNew ==
  LET t == Metric.type IN
  /\ walk.at = "count" /\ walk.i = Metric.cnt
  /\ \E room \in IF ctx.room[t] = NoList THEN {NoList, walk.total}
                 ELSE {walk.total} :
       ctx' = [ctx EXCEPT !.room[t] = room]
  /\ walk' = [walk EXCEPT !.at = "store", !.i = 0]
  /\ UNCHANGED <<table, data, loads, counted>>

\* The first list of a type may be null, which nobody tests; one that is grown
\* is tested.
Allocate ==
  LET t == Metric.type IN
  /\ walk.at = "count" /\ walk.i = Metric.cnt
  /\ \E room \in IF ctx.room[t] = NoList THEN {NoList, walk.total}
                 ELSE {Len(ctx.list[t]) + walk.total} :
       ctx' = [ctx EXCEPT !.room[t] = room]
  /\ walk' = [walk EXCEPT !.at = "store", !.i = 0]
  /\ UNCHANGED <<table, data, loads, counted>>

ProbeFails ==
  /\ (walk.at = "metric" /\ walk.m = 1) \/ (walk.at = "count" /\ walk.i = Metric.cnt)
  /\ Unload

\* Its label is that of the metric and the number of the sensors before it.
Item == [reg |-> <<walk.m, walk.i>>,
         hw_reg |-> walk.hw_reg + HW_METRIC_HDRSIZE + walk.i * Metric.size,
         label |-> <<Metric.label, walk.j>>]

Room == ctx.room[Metric.type]

SkipRegister ==
  /\ walk.at = "store" /\ walk.i < Metric.cnt
  /\ ~IsValid(<<walk.m, walk.i>>)
  /\ walk' = [walk EXCEPT !.i = @ + 1]
  /\ UNCHANGED <<table, data, loads, ctx, counted>>

Stores == walk.at = "store" /\ walk.i < Metric.cnt /\ IsValid(<<walk.m, walk.i>>)

StoreRegister ==
  /\ Stores
  /\ Room # NoList /\ walk.total > 0
  /\ ctx' = [ctx EXCEPT !.list[Metric.type] = Append(@, Item)]
  /\ walk' = [walk EXCEPT !.i = @ + 1, !.j = @ + 1]
  /\ UNCHANGED <<table, data, loads, counted>>

\* A store to no list at all, or to a config array of no word (kcalloc gives it
\* an address that faults), is an oops.  One past the end of either array may
\* be one, or go unnoticed.
Oops ==
  /\ walk' = [walk EXCEPT !.at = "oops"]
  /\ UNCHANGED <<table, data, loads, ctx, counted>>

HasSpace == Room # NoList /\ Len(ctx.list[Metric.type]) < Room /\ walk.j < walk.total

StoreFaults ==
  /\ Stores /\ ~HasSpace
  /\ Oops

\* The config array ends with its first word that is 0: nobody writes one behind
\* the last.
FinishMetric ==
  /\ walk.at = "store" /\ walk.i = Metric.cnt
  /\ \E channels \in IF walk.j < walk.total THEN {walk.j} ELSE walk.j .. walk.j + MaxBeyond :
       ctx' = [ctx EXCEPT !.info = Append(@, [type |-> Metric.type, total |-> walk.total,
                                              channels |-> channels])]
  /\ walk' = NextMetric
  /\ UNCHANGED <<table, data, loads, counted>>

------------------------------------------------------------------------------
(* altra_hwmon_probe, the file operations, and the removal of the module.   *)

\* The hwmon core looks for the end of each config array, also of no word.
Hollow == \E n \in DOMAIN ctx.info : ctx.info[n].total = 0

Register ==
  /\ walk.at = "register" /\ ~Hollow
  /\ walk' = [walk EXCEPT !.at = "on"]
  /\ UNCHANGED <<table, data, loads, ctx, counted>>

RegisterFaults ==
  /\ walk.at = "register" /\ Hollow
  /\ Oops

RegisterFails ==
  /\ walk.at = "register" /\ ~Hollow
  /\ Unload

Remove ==
  /\ walk.at = "on"
  /\ Unload

Driver == \/ Probe \/ WalkEnds \/ SkipMetric \/ StartMetric \/ CountRegister \/ Allocate
          \/ ProbeFails \/ SkipRegister \/ StoreRegister \/ StoreFaults \/ FinishMetric
          \/ Register \/ RegisterFaults \/ RegisterFails \/ Remove
          \/ \E r \in DOMAIN data : Charge(r)

\* The files of a channel, and its sensor: altra_hwmon_read and _read_labels
\* refuse a channel behind the list.
HasFiles(t, channel)  == walk.at = "on" /\ \E n \in DOMAIN ctx.info :
                           ctx.info[n].type = t /\ channel < ctx.info[n].channels
HasSensor(t, channel) == HasFiles(t, channel) /\ channel < Len(ctx.list[t])
Sensor(t, channel)    == ctx.list[t][channel + 1]

------------------------------------------------------------------------------
(* Properties                                                               *)

Items == UNION {{ctx.list[t][n] : n \in DOMAIN ctx.list[t]} : t \in Types}

\* The registers that turned valid between the two passes.
Late == {item.reg : item \in Items} \ counted

\* A list outgrows its allocation only by registers that were not valid when
\* they were counted and were when they were stored.  (Both passes of
\* altra_create_sensor, and the copy into a longer list.)
StoresInBounds ==
  \A t \in Types : ctx.room[t] = NoList
                   \/ Len(ctx.list[t]) <= ctx.room[t] + Cardinality(Late)

\* The probe faults in three ways only: a metric has no valid register, the first
\* list of a type is not allocated, or a register turned valid behind the count.
\* (What altra_create_sensor leaves to be tested, and the rest it gets right.)
FaultsExplained ==
  walk.at = "oops" => \/ Hollow \/ Room = NoList
                      \/ ~(Late \cup {<<walk.m, walk.i>>} \subseteq counted)

\* The registers that are read: those of the sensors, and the next one of the probe.
Reached == Items \cup (IF walk.at \in {"count", "store"} /\ walk.i < Metric.cnt THEN {Item} ELSE {})

\* Whatever the registers do meanwhile, what is read of them is in the part of the
\* table that is mapped, but for those narrower than a read, which may go beyond it
\* by what they are narrower.  (The range checks of the walk, which count the bytes
\* of a register, against altra_sensor_is_valid and altra_hwmon_read.)
SensorsInRange ==
  \A item \in Reached :
    LET size == table.metrics[item.reg[1]].size IN
    item.hw_reg + Width(size)
      <= table.base_size + IF IsCut(size) THEN Width(size) - size ELSE 0
=============================================================================
