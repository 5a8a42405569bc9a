------------------------------ MODULE HwmonProofs ------------------------------
(***************************************************************************)
(* What holds of AltraHwmon and Hwmon for every firmware table, every core *)
(* and any number of loads of the kernel module.                           *)
(***************************************************************************)
EXTENDS Hwmon, FiniteSetTheorems, TLAPS

------------------------------------------------------------------------------
(* Types of the driver *)

Places      == {"off", "metric", "count", "store", "register", "on", "oops"}
WalkRecords == [at : Places, m : Nat, hw_reg : Nat, i : Nat, j : Nat, total : Nat]
ItemRecords == [reg : Regs(table), hw_reg : Nat, label : Labels \X Nat]
InfoRecords == [type : Types, total : Nat, channels : Nat]
Contexts    == [list : [Types -> Seq(ItemRecords)], room : [Types -> Nat \cup {NoList}],
                info : Seq(InfoRecords)]

DTypeOK ==
  /\ table \in Tables /\ data \in [Regs(table) -> 0 .. MaxData] /\ loads \in 0 .. MaxLoads
  /\ walk \in WalkRecords
  /\ ctx \in Contexts
  /\ counted \subseteq Regs(table)

\* The walk is at a metric the table has, and in its range; a loaded module was
\* loaded at least once.
WalkInv ==
  /\ walk.at \in {"count", "store"} =>
       walk.m \in DOMAIN table.metrics /\ Metric.type \in Types /\ hw_end_reg <= table.base_size
  /\ walk.at # "off" => loads >= 1

Here == <<walk.m, walk.i>>

\* Products of natural numbers, and what one more factor adds.
LEMMA Products ==
  /\ \A a, b \in Nat : a * b \in Nat
  /\ \A a, b, c \in Nat : b < c => b * a + a <= a * c
<1>1. \A a, b \in Nat : a * b \in Nat
  OBVIOUS
<1>2. \A a, b, c \in Nat : b <= c => a * b <= a * c
  BY SMTT(30)
<1>3. \A a, b \in Nat : a * (b + 1) = b * a + a
  OBVIOUS
<1>4. ASSUME NEW a \in Nat, NEW b \in Nat, NEW c \in Nat, b < c
      PROVE  b * a + a <= a * c
  <2>1. a * (b + 1) <= a * c
    BY <1>2, <1>4
  <2> QED
    BY <1>3, <2>1
<1> QED
  BY <1>1, <1>4

LEMMA TableType ==
  ASSUME DTypeOK
  PROVE  /\ table.base_size \in Nat /\ table.metrics \in Seq(Metrics)
         /\ \A m \in DOMAIN table.metrics : table.metrics[m] \in Metrics
  BY TableAssumption DEF DTypeOK

LEMMA WalkType ==
  ASSUME DTypeOK
  PROVE  /\ walk.at \in Places /\ walk.m \in Nat /\ walk.hw_reg \in Nat
         /\ walk.i \in Nat /\ walk.j \in Nat /\ walk.total \in Nat
  BY DEF DTypeOK, WalkRecords

LEMMA MetricType ==
  ASSUME DTypeOK, walk.m \in DOMAIN table.metrics
  PROVE  /\ Metric \in Metrics /\ Metric.cnt \in Nat /\ Metric.size \in Nat
         /\ Metric.label \in Labels /\ Metric.type \in Types \cup {"unknown"}
         /\ hw_end_reg \in Nat
<1>1. Metric \in Metrics
  BY TableType DEF Metric
<1>2. /\ Metric.cnt \in Nat /\ Metric.size \in Nat
      /\ Metric.label \in Labels /\ Metric.type \in Types \cup {"unknown"}
  BY <1>1 DEF Metrics
<1>3. Metric.size * Metric.cnt \in Nat
  BY <1>2, Products
<1>4. hw_end_reg \in Nat
  BY <1>3, WalkType DEF hw_end_reg, HW_METRIC_HDRSIZE
<1> QED
  BY <1>1, <1>2, <1>4

LEMMA HereType ==
  ASSUME DTypeOK, walk.m \in DOMAIN table.metrics, walk.i < Metric.cnt
  PROVE  Here \in Regs(table)
<1>1. walk.i \in 0 .. table.metrics[walk.m].cnt - 1
  BY MetricType, WalkType DEF Metric
<1> DEFINE columns == {{m} \X (0 .. table.metrics[m].cnt - 1) : m \in DOMAIN table.metrics}
<1>2. {walk.m} \X (0 .. table.metrics[walk.m].cnt - 1) \in columns
  OBVIOUS
<1>3. Here \in {walk.m} \X (0 .. table.metrics[walk.m].cnt - 1)
  BY <1>1 DEF Here
<1>4. Here \in UNION columns
  BY <1>2, <1>3
<1> QED
  BY <1>4 DEF Regs

LEMMA SizeType ==
  ASSUME DTypeOK, NEW r \in Regs(table)
  PROVE  r[1] \in DOMAIN table.metrics /\ table.metrics[r[1]].size \in Nat
<1>1. PICK m \in DOMAIN table.metrics : r \in {m} \X (0 .. table.metrics[m].cnt - 1)
  BY DEF Regs
<1>2. table.metrics[m] \in Metrics
  BY TableType
<1> QED
  BY <1>1, <1>2 DEF Metrics

LEMMA NextType ==
  ASSUME DTypeOK, walk.m \in DOMAIN table.metrics
  PROVE  NextMetric \in WalkRecords /\ NextMetric.at = "metric"
<1>1. Align8(hw_end_reg) \in Nat
  BY MetricType DEF Align8
<1>2. walk.m + 1 \in Nat
  BY WalkType
<1>3. PICK a \in Nat, m \in Nat : a = Align8(hw_end_reg) /\ m = walk.m + 1
  BY <1>1, <1>2
<1>4. Off \in WalkRecords
  BY DEF Off, WalkRecords, Places
<1>5. [Off EXCEPT !.at = "metric", !.m = m, !.hw_reg = a] \in WalkRecords
  BY <1>4 DEF WalkRecords, Places
<1>6. [Off EXCEPT !.at = "metric", !.m = m, !.hw_reg = a].at = "metric"
  BY <1>4 DEF WalkRecords
<1> QED
  BY <1>3, <1>5, <1>6 DEF NextMetric

LEMMA InitDriverType == DriverInit => DTypeOK /\ WalkInv
<1> SUFFICES ASSUME DriverInit PROVE DTypeOK /\ WalkInv
  OBVIOUS
<1>1. data \in [Regs(table) -> 0 .. MaxData]
  BY TableAssumption DEF DriverInit
<1>2. ctx \in Contexts
  BY DEF DriverInit, NoContext, Contexts
<1>3. walk \in WalkRecords /\ walk.at = "off"
  BY DEF DriverInit, Off, WalkRecords, Places
<1>4. loads \in 0 .. MaxLoads
  BY TableAssumption DEF DriverInit
<1> QED
  BY <1>1, <1>2, <1>3, <1>4 DEF DriverInit, DTypeOK, WalkInv

------------------------------------------------------------------------------
(* The driver keeps its types *)

LEMMA TypesNext ==
  ASSUME DTypeOK, table' = table, walk' \in WalkRecords, ctx' \in Contexts,
         data' \in [Regs(table) -> 0 .. MaxData], loads' \in 0 .. MaxLoads,
         counted' \subseteq Regs(table)
  PROVE  DTypeOK'
<1>1. Contexts' = Contexts
  BY DEF Contexts, ItemRecords, InfoRecords, Regs
<1>2. Regs(table)' = Regs(table)
  BY DEF Regs
<1>3. WalkRecords' = WalkRecords
  BY DEF WalkRecords, Places
<1>4. table' \in Tables
  BY DEF DTypeOK
<1> QED
  BY <1>1, <1>2, <1>3, <1>4 DEF DTypeOK

LEMMA SameMetric ==
  ASSUME table' = table, walk'.m = walk.m, walk'.hw_reg = walk.hw_reg
  PROVE  Metric' = Metric /\ hw_end_reg' = hw_end_reg
  BY DEF Metric, hw_end_reg

\* What a step inside a metric leaves of the walk.
LEMMA WalkWithin ==
  ASSUME DTypeOK, WalkInv, table' = table, loads' = loads, walk.at \in {"count", "store"},
         walk'.m = walk.m, walk'.hw_reg = walk.hw_reg, walk.at # "off"
  PROVE  WalkInv'
  BY SameMetric DEF WalkInv

LEMMA OffType == Off \in WalkRecords /\ Off.at = "off"
  BY DEF Off, WalkRecords, Places

LEMMA NoContextType == NoContext \in Contexts
  BY DEF NoContext, Contexts

LEMMA ContextType ==
  ASSUME DTypeOK
  PROVE  /\ ctx.list \in [Types -> Seq(ItemRecords)]
         /\ ctx.room \in [Types -> Nat \cup {NoList}]
         /\ ctx.info \in Seq(InfoRecords)
  BY DEF DTypeOK, Contexts

LEMMA ItemType ==
  ASSUME DTypeOK, WalkInv, walk.at \in {"count", "store"}, walk.i < Metric.cnt
  PROVE  Item \in ItemRecords
<1>1. walk.m \in DOMAIN table.metrics
  BY DEF WalkInv
<1>2. Here \in Regs(table)
  BY <1>1, HereType
<1>3. walk.hw_reg + HW_METRIC_HDRSIZE + walk.i * Metric.size \in Nat
  <2>1. walk.i * Metric.size \in Nat
    BY <1>1, WalkType, MetricType, Products
  <2> QED
    BY <2>1, WalkType DEF HW_METRIC_HDRSIZE
<1>4. <<Metric.label, walk.j>> \in Labels \X Nat
  BY <1>1, MetricType, WalkType
<1> QED
  BY <1>2, <1>3, <1>4 DEF Item, ItemRecords, Here

LEMMA UnloadTyped == DTypeOK /\ WalkInv /\ Unload => DTypeOK' /\ WalkInv'
<1> SUFFICES ASSUME DTypeOK, WalkInv, Unload PROVE DTypeOK' /\ WalkInv'
  OBVIOUS
<1>1. /\ walk' = Off /\ ctx' = NoContext
      /\ table' = table /\ data' = data /\ loads' = loads /\ counted' = counted
  BY DEF Unload
<1>2. DTypeOK'
  BY <1>1, OffType, NoContextType, TypesNext DEF DTypeOK
<1>3. WalkInv'
  BY <1>1, OffType DEF WalkInv
<1> QED
  BY <1>2, <1>3

LEMMA OopsTyped ==
  ASSUME DTypeOK, WalkInv, Oops, walk.at # "off"
  PROVE  DTypeOK' /\ WalkInv'
<1>1. /\ walk' = [walk EXCEPT !.at = "oops"] /\ ctx' = ctx
      /\ table' = table /\ data' = data /\ loads' = loads /\ counted' = counted
  BY DEF Oops
<1>2. walk' \in WalkRecords /\ walk'.at = "oops"
  BY <1>1 DEF DTypeOK, WalkRecords, Places
<1>3. DTypeOK'
  BY <1>1, <1>2, TypesNext DEF DTypeOK
<1>4. WalkInv'
  BY <1>1, <1>2 DEF WalkInv
<1> QED
  BY <1>3, <1>4

LEMMA ProbeTyped == DTypeOK /\ WalkInv /\ Probe => DTypeOK' /\ WalkInv'
<1> SUFFICES ASSUME DTypeOK, WalkInv, Probe PROVE DTypeOK' /\ WalkInv'
  OBVIOUS
<1>1. walk' \in WalkRecords /\ walk'.at = "metric"
  BY OffType DEF Probe, WalkRecords, Places, HW_METRICS_HDRSIZE
<1>2. loads' \in 0 .. MaxLoads /\ loads' >= 1
  BY TableAssumption DEF Probe, DTypeOK
<1>3. /\ ctx' = ctx /\ table' = table /\ data' = data /\ counted' = {}
  BY DEF Probe
<1>4. DTypeOK'
  BY <1>1, <1>2, <1>3, TypesNext DEF DTypeOK
<1>5. WalkInv'
  BY <1>1, <1>2 DEF WalkInv
<1> QED
  BY <1>4, <1>5

\* The steps of the walk from metric to metric.
LEMMA StrideTyped ==
  DTypeOK /\ WalkInv /\ (WalkEnds \/ SkipMetric \/ StartMetric) => DTypeOK' /\ WalkInv'
<1> SUFFICES ASSUME DTypeOK, WalkInv, WalkEnds \/ SkipMetric \/ StartMetric
             PROVE  DTypeOK' /\ WalkInv'
  OBVIOUS
<1>1. /\ ctx' = ctx /\ table' = table /\ data' = data /\ loads' = loads
      /\ counted' = counted /\ walk.at = "metric"
  BY DEF WalkEnds, SkipMetric, StartMetric
<1>2. CASE WalkEnds
  <2>1. walk' \in WalkRecords /\ walk'.at = "register"
    BY <1>2 DEF WalkEnds, DTypeOK, WalkRecords, Places
  <2> QED
    BY <1>1, <2>1, TypesNext DEF DTypeOK, WalkInv
<1>3. CASE SkipMetric
  <2>1. walk' = NextMetric /\ walk.m \in DOMAIN table.metrics
    BY <1>3 DEF SkipMetric, InRange
  <2>2. walk' \in WalkRecords /\ walk'.at = "metric"
    BY <2>1, NextType
  <2> QED
    BY <1>1, <2>2, TypesNext DEF DTypeOK, WalkInv
<1>4. CASE StartMetric
  <2>1. /\ walk' = [walk EXCEPT !.at = "count"] /\ InRange /\ Metric.type # "unknown"
    BY <1>4 DEF StartMetric
  <2>2. /\ walk' \in WalkRecords /\ walk'.at = "count"
        /\ walk'.m = walk.m /\ walk'.hw_reg = walk.hw_reg
    BY <2>1 DEF DTypeOK, WalkRecords, Places
  <2>3. Metric' = Metric /\ hw_end_reg' = hw_end_reg
    BY <1>1, <2>2, SameMetric
  <2>4. walk.m \in DOMAIN table.metrics /\ hw_end_reg <= table.base_size
    BY <2>1 DEF InRange
  <2>5. Metric.type \in Types
    BY <2>1, <2>4, MetricType
  <2> QED
    BY <1>1, <2>2, <2>3, <2>4, <2>5, TypesNext DEF DTypeOK, WalkInv
<1> QED
  BY <1>2, <1>3, <1>4

\* The steps of the two passes over a metric, but for the last.
LEMMA PassTyped ==
  DTypeOK /\ WalkInv /\ (CountRegister \/ Allocate \/ SkipRegister \/ StoreRegister)
    => DTypeOK' /\ WalkInv'
<1> SUFFICES ASSUME DTypeOK, WalkInv, CountRegister \/ Allocate \/ SkipRegister \/ StoreRegister
             PROVE  DTypeOK' /\ WalkInv'
  OBVIOUS
<1>1. /\ walk.at \in {"count", "store"} /\ table' = table /\ data' = data /\ loads' = loads
  BY DEF CountRegister, Allocate, SkipRegister, StoreRegister, Stores
<1>2. walk.m \in DOMAIN table.metrics /\ Metric.type \in Types
  BY <1>1 DEF WalkInv
<1>3. /\ walk' \in WalkRecords /\ walk'.m = walk.m /\ walk'.hw_reg = walk.hw_reg
  <2>1. /\ walk.i + 1 \in Nat /\ walk.j + 1 \in Nat /\ walk.total + 1 \in Nat
    BY WalkType
  <2>2. CASE CountRegister
    <3>1. PICK n \in Nat, total \in Nat : walk' = [walk EXCEPT !.i = n, !.total = total]
      BY <2>1, <2>2, WalkType DEF CountRegister
    <3> QED
      BY <3>1 DEF DTypeOK, WalkRecords
  <2>3. CASE Allocate
    BY <2>3 DEF Allocate, DTypeOK, WalkRecords, Places
  <2>4. CASE SkipRegister
    BY <2>1, <2>4 DEF SkipRegister, DTypeOK, WalkRecords
  <2>5. CASE StoreRegister
    BY <2>1, <2>5 DEF StoreRegister, DTypeOK, WalkRecords
  <2> QED
    BY <2>2, <2>3, <2>4, <2>5
<1>4. ctx' \in Contexts
  <2>1. CASE CountRegister \/ SkipRegister
    BY <2>1 DEF CountRegister, SkipRegister, DTypeOK
  <2>2. CASE Allocate
    <3>1. Len(ctx.list[Metric.type]) \in Nat
      BY <1>2, ContextType
    <3>2. PICK room \in IF ctx.room[Metric.type] = NoList THEN {NoList, walk.total}
                        ELSE {Len(ctx.list[Metric.type]) + walk.total} :
            ctx' = [ctx EXCEPT !.room[Metric.type] = room]
      BY <2>2 DEF Allocate
    <3>3. room \in Nat \cup {NoList}
      BY <3>1, <3>2, WalkType
    <3> QED
      BY <1>2, <3>2, <3>3 DEF DTypeOK, Contexts
  <2>3. CASE StoreRegister
    <3>1. Item \in ItemRecords
      BY <2>3, ItemType DEF StoreRegister, Stores
    <3>2. ctx.list[Metric.type] \in Seq(ItemRecords)
      BY <1>2, ContextType
    <3> DEFINE list == Append(ctx.list[Metric.type], Item)
    <3>3. list \in Seq(ItemRecords)
      BY <3>1, <3>2
    <3>4. ctx' = [ctx EXCEPT !.list[Metric.type] = list]
      BY <2>3 DEF StoreRegister
    <3> HIDE DEF list
    <3> QED
      BY <1>2, <3>3, <3>4 DEF DTypeOK, Contexts
  <2> QED
    BY <2>1, <2>2, <2>3
<1>5. counted' \subseteq Regs(table)
  <2>1. CASE CountRegister
    <3>1. Here \in Regs(table)
      BY <1>2, <2>1, HereType DEF CountRegister
    <3> QED
      BY <2>1, <3>1 DEF CountRegister, Here, DTypeOK
  <2> QED
    BY <2>1 DEF Allocate, SkipRegister, StoreRegister, DTypeOK
<1>6. DTypeOK'
  BY <1>1, <1>3, <1>4, <1>5, TypesNext DEF DTypeOK
<1>7. WalkInv'
  BY <1>1, <1>3, WalkWithin
<1> QED
  BY <1>6, <1>7

LEMMA FinishTyped == DTypeOK /\ WalkInv /\ FinishMetric => DTypeOK' /\ WalkInv'
<1> SUFFICES ASSUME DTypeOK, WalkInv, FinishMetric PROVE DTypeOK' /\ WalkInv'
  OBVIOUS
<1>1. /\ table' = table /\ data' = data /\ loads' = loads /\ counted' = counted
      /\ walk.at = "store" /\ walk' = NextMetric
  BY DEF FinishMetric
<1>2. walk.m \in DOMAIN table.metrics /\ Metric.type \in Types
  BY <1>1 DEF WalkInv
<1>3. walk' \in WalkRecords /\ walk'.at = "metric"
  BY <1>1, <1>2, NextType
<1>4. PICK channels \in IF walk.j < walk.total THEN {walk.j} ELSE walk.j .. walk.j + MaxBeyond :
        ctx' = [ctx EXCEPT !.info = Append(@,
              [type |-> Metric.type, total |-> walk.total, channels |-> channels])]
  BY DEF FinishMetric
<1> channels \in Nat
  BY <1>4, WalkType, TableAssumption
<1>5. PICK info \in InfoRecords :
        info = [type |-> Metric.type, total |-> walk.total, channels |-> channels]
  BY <1>2, WalkType DEF InfoRecords
<1> DEFINE infos == Append(ctx.info, info)
<1>6. infos \in Seq(InfoRecords)
  BY <1>5, ContextType
<1>7. ctx' = [ctx EXCEPT !.info = infos]
  BY <1>4, <1>5
<1> HIDE DEF infos
<1>8. ctx' \in Contexts
  BY <1>6, <1>7 DEF DTypeOK, Contexts
<1> QED
  BY <1>1, <1>3, <1>8, TypesNext DEF DTypeOK, WalkInv

LEMMA DriverTyped == DTypeOK /\ WalkInv /\ Driver => DTypeOK' /\ WalkInv'
<1> SUFFICES ASSUME DTypeOK, WalkInv, Driver PROVE DTypeOK' /\ WalkInv'
  OBVIOUS
<1>1. CASE Probe
  BY <1>1, ProbeTyped
<1>2. CASE WalkEnds \/ SkipMetric \/ StartMetric
  BY <1>2, StrideTyped
<1>3. CASE CountRegister \/ Allocate \/ SkipRegister \/ StoreRegister
  BY <1>3, PassTyped
<1>4. CASE FinishMetric
  BY <1>4, FinishTyped
<1>5. CASE ProbeFails \/ RegisterFails \/ Remove
  BY <1>5, UnloadTyped DEF ProbeFails, RegisterFails, Remove
<1>6. CASE StoreFaults \/ RegisterFaults
  BY <1>6, OopsTyped DEF StoreFaults, RegisterFaults, Stores
<1>7. CASE Register
  <2>1. walk' \in WalkRecords /\ walk'.at = "on"
    BY <1>7 DEF Register, DTypeOK, WalkRecords, Places
  <2> QED
    BY <1>7, <2>1, TypesNext DEF Register, DTypeOK, WalkInv
<1>8. CASE \E r \in DOMAIN data : Charge(r)
  <2>1. PICK r \in Regs(table) : Charge(r)
    BY <1>8 DEF DTypeOK
  <2>2. data' \in [Regs(table) -> 0 .. MaxData]
    <3>1. PICK value \in 0 .. MaxData : data' = [data EXCEPT ![r] = value]
      BY <2>1 DEF Charge
    <3> QED
      BY <3>1 DEF DTypeOK
  <2>3. /\ table' = table /\ loads' = loads /\ walk' = walk /\ ctx' = ctx /\ counted' = counted
    BY <2>1 DEF Charge
  <2>4. WalkInv'
    BY <2>3 DEF WalkInv, Metric, hw_end_reg
  <2> QED
    BY <2>2, <2>3, <2>4, TypesNext DEF DTypeOK
<1> QED
  BY <1>1, <1>2, <1>3, <1>4, <1>5, <1>6, <1>7, <1>8 DEF Driver

------------------------------------------------------------------------------
(* The sensors, and the range of the table *)

\* What a step of the driver leaves in the lists: sensors that were there, and
\* the one stored.
LEMMA ListsStep ==
  ASSUME DTypeOK, WalkInv, Driver, NEW t \in Types, NEW n \in DOMAIN ctx'.list[t]
  PROVE  /\ table' = table
         /\ \/ n \in DOMAIN ctx.list[t] /\ ctx'.list[t][n] = ctx.list[t][n]
            \/ StoreRegister /\ ctx'.list[t][n] = Item
<1>1. table' = table
  BY DEF Driver, Probe, WalkEnds, SkipMetric, StartMetric, CountRegister, Allocate, ProbeFails,
     SkipRegister, StoreRegister, StoreFaults, FinishMetric, Register, RegisterFaults,
     RegisterFails, Remove, Charge, Unload, Oops
<1>2. CASE ctx'.list = ctx.list
  BY <1>1, <1>2
<1>3. CASE Unload
  BY <1>1, <1>3 DEF Unload, NoContext
<1>4. CASE StoreRegister
  <2>1. Metric.type \in Types /\ Item \in ItemRecords
    BY <1>4, ItemType DEF StoreRegister, Stores, WalkInv
  <2>2. ctx.list \in [Types -> Seq(ItemRecords)]
    BY ContextType
  <2> DEFINE list == Append(ctx.list[Metric.type], Item)
  <2>3. ctx' = [ctx EXCEPT !.list[Metric.type] = list]
    BY <1>4 DEF StoreRegister
  <2>4. /\ list \in Seq(ItemRecords)
        /\ \A k \in DOMAIN list : \/ k \in DOMAIN ctx.list[Metric.type]
                                     /\ list[k] = ctx.list[Metric.type][k]
                                  \/ list[k] = Item
    BY <2>1, <2>2
  <2> HIDE DEF list
  <2>5. ctx'.list = [ctx.list EXCEPT ![Metric.type] = list]
    BY <2>3 DEF DTypeOK, Contexts
  <2>6. CASE t = Metric.type
    BY <1>1, <1>4, <2>1, <2>2, <2>4, <2>5, <2>6
  <2>7. CASE t # Metric.type
    BY <1>1, <2>2, <2>5, <2>7
  <2> QED
    BY <2>6, <2>7
<1>5. CASE Allocate
  <2>1. ctx'.list = ctx.list
    BY <1>5 DEF Allocate, DTypeOK, Contexts
  <2> QED
    BY <1>2, <2>1
<1>6. CASE FinishMetric
  <2>1. ctx'.list = ctx.list
    BY <1>6 DEF FinishMetric, DTypeOK, Contexts
  <2> QED
    BY <1>2, <2>1
<1>7. ctx'.list = ctx.list \/ Unload \/ StoreRegister \/ Allocate \/ FinishMetric
  BY DEF Driver, Probe, WalkEnds, SkipMetric, StartMetric, CountRegister, ProbeFails,
     SkipRegister, StoreFaults, Register, RegisterFaults, RegisterFails, Remove, Charge, Oops
<1> QED
  BY <1>2, <1>3, <1>4, <1>5, <1>6, <1>7

RangeInv ==
  \A t \in Types : \A n \in DOMAIN ctx.list[t] :
    ctx.list[t][n].hw_reg + table.metrics[ctx.list[t][n].reg[1]].size <= table.base_size

\* A register of a metric that passed the test of its range is in range itself.
LEMMA ItemInRange ==
  ASSUME DTypeOK, WalkInv, walk.at \in {"count", "store"}, walk.i < Metric.cnt
  PROVE  Item.hw_reg + table.metrics[Item.reg[1]].size <= table.base_size
<1>1. walk.m \in DOMAIN table.metrics /\ hw_end_reg <= table.base_size
  BY DEF WalkInv
<1>2. Item.hw_reg = walk.hw_reg + 24 + walk.i * Metric.size
  BY DEF Item, HW_METRIC_HDRSIZE
<1>3. table.metrics[Item.reg[1]].size = Metric.size
  BY DEF Item, Metric
<1>4. hw_end_reg = walk.hw_reg + 24 + Metric.size * Metric.cnt
  BY DEF hw_end_reg, HW_METRIC_HDRSIZE
<1>5. /\ walk.i \in Nat /\ walk.hw_reg \in Nat /\ table.base_size \in Nat
      /\ Metric.cnt \in Nat /\ Metric.size \in Nat
  BY <1>1, WalkType, MetricType, TableType
<1>6. PICK before \in Nat : before = walk.i * Metric.size
  BY <1>5, Products
<1>7. PICK all \in Nat : all = Metric.size * Metric.cnt
  BY <1>5, Products
<1>8. before + Metric.size <= all
  BY <1>5, <1>6, <1>7, Products
<1> QED
  BY <1>1, <1>2, <1>3, <1>4, <1>5, <1>6, <1>7, <1>8

LEMMA DriverRange == DTypeOK /\ WalkInv /\ RangeInv /\ Driver => RangeInv'
<1> SUFFICES ASSUME DTypeOK, WalkInv, RangeInv, Driver,
                    NEW t \in Types, NEW n \in DOMAIN ctx'.list[t]
             PROVE  ctx'.list[t][n].hw_reg + table'.metrics[ctx'.list[t][n].reg[1]].size
                      <= table'.base_size
  BY DEF RangeInv
<1>1. CASE n \in DOMAIN ctx.list[t] /\ ctx'.list[t][n] = ctx.list[t][n]
  BY <1>1, ListsStep DEF RangeInv
<1>2. CASE StoreRegister /\ ctx'.list[t][n] = Item
  BY <1>2, ListsStep, ItemInRange DEF StoreRegister, Stores
<1> QED
  BY <1>1, <1>2, ListsStep

------------------------------------------------------------------------------
(* Types of the reader *)

CallRecords == [at : {"rest", "find", "label", "load", "open", "scan"},
                back : {"load", "open"}, path : {NoPath} \cup 1 .. MaxLoads,
                file : 0 .. MaxLoads, began : 0 .. MaxLoads]
ReadingRecords == [kind : {"energy", "failed", "garbage"},
                   reg : Regs(table) \cup {NoReg}, value : Nat, began : 0 .. MaxLoads,
                   load : 0 .. MaxLoads, path : {NoPath} \cup 1 .. MaxLoads]

RTypeOK ==
  /\ core \in Cores /\ paths \in {NoArray, NoPath} \cup 1 .. MaxLoads
  /\ call \in CallRecords
  /\ readings \in Seq(ReadingRecords)
  /\ Len(readings) <= Reads

\* Behind the first look-up there is an array; in a call there is one to come.
CallInv ==
  /\ call.at \notin {"rest", "find"} => paths # NoArray
  /\ call.at # "rest" => Len(readings) < Reads

LEMMA LoadType ==
  ASSUME DTypeOK
  PROVE  Load \in 0 .. MaxLoads /\ loads \in 0 .. MaxLoads /\ MaxLoads \in Nat
  BY TableAssumption DEF Load, DTypeOK

LEMMA CallType ==
  ASSUME RTypeOK
  PROVE  /\ call.at \in {"rest", "find", "label", "load", "open", "scan"}
         /\ call.back \in {"load", "open"} /\ call.path \in {NoPath} \cup 1 .. MaxLoads
         /\ call.file \in 0 .. MaxLoads /\ call.began \in 0 .. MaxLoads
  BY DEF RTypeOK, CallRecords

LEMMA SensorType ==
  ASSUME DTypeOK, RTypeOK, HasSensor("energy", core)
  PROVE  /\ Sensor("energy", core) \in ItemRecords
         /\ Sensor("energy", core).reg \in Regs(table)
         /\ Value(Sensor("energy", core).reg) \in Nat
<1>1. core \in Nat /\ core < Len(ctx.list["energy"])
  BY CoreAssumption DEF RTypeOK, HasSensor
<1>2. ctx.list["energy"] \in Seq(ItemRecords)
  BY ContextType DEF Types
<1>3. core + 1 \in DOMAIN ctx.list["energy"]
  BY <1>1, <1>2
<1>4. Sensor("energy", core) \in ItemRecords
  BY <1>2, <1>3 DEF Sensor
<1>5. Sensor("energy", core).reg \in Regs(table)
  BY <1>4 DEF ItemRecords
<1>6. data[Sensor("energy", core).reg] \in Nat
  BY <1>5, TableAssumption DEF DTypeOK
<1>7. data[Sensor("energy", core).reg] % WORD \in Nat
  BY <1>6, TableAssumption
<1> QED
  BY <1>4, <1>5, <1>6, <1>7 DEF Value

LEMMA AtRestType ==
  ASSUME MaxLoads \in Nat
  PROVE  AtRest \in CallRecords /\ AtRest.at = "rest" /\ AtRest.path = NoPath
  BY DEF AtRest, CallRecords

\* What a return appends to the readings.
NewReading(kind, reg, value) ==
  [kind |-> kind, reg |-> reg, value |-> value,
   began |-> call.began, load |-> Load, path |-> call.path]

LEMMA ReturnTyped ==
  ASSUME DTypeOK, RTypeOK, CallInv, call.at # "rest", core' = core, UNCHANGED driverVars,
         NEW kind \in {"energy", "failed", "garbage"}, NEW reg \in Regs(table) \cup {NoReg},
         NEW value \in Nat, Return(kind, reg, value)
  PROVE  /\ NewReading(kind, reg, value) \in ReadingRecords
         /\ readings' = Append(readings, NewReading(kind, reg, value))
         /\ RTypeOK' /\ CallInv'
<1>1. NewReading(kind, reg, value) \in ReadingRecords
  BY LoadType, CallType DEF NewReading, ReadingRecords
<1>2. readings' = Append(readings, NewReading(kind, reg, value))
  BY DEF Return, NewReading
<1>3. readings' \in Seq(ReadingRecords) /\ Len(readings') <= Reads
  BY <1>1, <1>2 DEF RTypeOK, CallInv, Reads
<1>4. call' \in CallRecords /\ call'.at = "rest"
  BY AtRestType, LoadType DEF Return
<1>5. ReadingRecords' = ReadingRecords /\ CallRecords' = CallRecords
  BY DEF ReadingRecords, CallRecords, driverVars, Regs
<1>6. paths' = paths
  BY DEF Return
<1>7. RTypeOK'
  BY <1>3, <1>4, <1>5, <1>6 DEF RTypeOK
<1>8. CallInv'
  BY <1>4 DEF CallInv
<1> QED
  BY <1>1, <1>2, <1>7, <1>8

LEMMA InitReaderType == HwmonInit => RTypeOK /\ CallInv
<1> SUFFICES ASSUME HwmonInit PROVE RTypeOK /\ CallInv
  OBVIOUS
<1>1. call \in CallRecords /\ call.at = "rest"
  BY AtRestType, TableAssumption DEF HwmonInit
<1> QED
  BY <1>1 DEF HwmonInit, RTypeOK, CallInv, Reads

LEMMA ReaderTyped ==
  DTypeOK /\ WalkInv /\ RTypeOK /\ CallInv /\ Reader
    => RTypeOK' /\ CallInv' /\ UNCHANGED <<driverVars, core>>
<1> SUFFICES ASSUME DTypeOK, WalkInv, RTypeOK, CallInv, Reader
             PROVE  RTypeOK' /\ CallInv' /\ UNCHANGED <<driverVars, core>>
  OBVIOUS
<1>1. UNCHANGED <<driverVars, core>>
  BY DEF Reader, CallRead, LoadPath, FindDevice, ReadLabel, OpenFile, OpenFails, ScanEnergy,
     ScanFails
<1>2. ReadingRecords' = ReadingRecords /\ CallRecords' = CallRecords
  BY <1>1 DEF ReadingRecords, CallRecords, driverVars, Regs
<1>3. CASE OpenFails
  BY <1>1, <1>3, ReturnTyped DEF OpenFails
<1>4. CASE ScanEnergy
  BY <1>1, <1>4, SensorType, ReturnTyped DEF ScanEnergy
<1>5. CASE ScanFails
  BY <1>1, <1>5, ReturnTyped DEF ScanFails
<1>6. CASE CallRead
  <2>1. call' \in CallRecords /\ call'.at \in {"find", "load"}
        /\ (call'.at = "load" => paths # NoArray)
    BY <1>6, LoadType DEF CallRead, RTypeOK, CallRecords
  <2>2. paths' = paths /\ readings' = readings /\ Len(readings) < Reads
    BY <1>6 DEF CallRead
  <2> QED
    BY <1>1, <1>2, <2>1, <2>2 DEF RTypeOK, CallInv
<1>7. CASE LoadPath
  <2>1. paths # NoArray
    BY <1>7 DEF LoadPath, CallInv
  <2>2. call' \in CallRecords /\ call'.at \in {"find", "open"}
    BY <1>7, <2>1 DEF LoadPath, RTypeOK, CallRecords
  <2>3. paths' = paths /\ readings' = readings /\ Len(readings) < Reads
    BY <1>7 DEF LoadPath, CallInv
  <2> QED
    BY <1>1, <1>2, <2>1, <2>2, <2>3 DEF RTypeOK, CallInv
<1>8. CASE FindDevice
  <2>1. call' \in CallRecords /\ call'.at \in {"label", "load", "open"}
    BY <1>8, CallType DEF FindDevice, RTypeOK, CallRecords
  <2>2. /\ paths' \in {NoArray, NoPath} \cup 1 .. MaxLoads /\ paths' # NoArray
        /\ readings' = readings /\ Len(readings) < Reads
    BY <1>8, CoreAssumption DEF FindDevice, RTypeOK, CallInv
  <2> QED
    BY <1>1, <1>2, <2>1, <2>2 DEF RTypeOK, CallInv
<1>9. CASE ReadLabel
  <2>1. call' \in CallRecords /\ call'.at \in {"load", "open"}
    BY <1>9, CallType DEF ReadLabel, RTypeOK, CallRecords
  <2>2. readings' = readings /\ Len(readings) < Reads /\ paths # NoArray
    BY <1>9 DEF ReadLabel, CallInv
  <2>3. paths' \in {NoPath} \cup 1 .. MaxLoads /\ paths' # NoArray
    <3>1. CASE IsLabelled
      <4>1. paths' = loads /\ loads >= 1
        BY <1>9, <3>1 DEF ReadLabel, IsLabelled, HasSensor, HasFiles, WalkInv
      <4> QED
        BY <4>1, LoadType, CoreAssumption
    <3>2. CASE ~IsLabelled
      BY <1>9, <2>2, <3>2 DEF ReadLabel, RTypeOK
    <3> QED
      BY <3>1, <3>2
  <2> QED
    BY <1>1, <1>2, <2>1, <2>2, <2>3 DEF RTypeOK, CallInv
<1>10. CASE OpenFile
  <2>1. call' \in CallRecords /\ call'.at = "scan"
    BY <1>10, LoadType DEF OpenFile, RTypeOK, CallRecords
  <2>2. /\ paths' = paths /\ readings' = readings /\ Len(readings) < Reads
        /\ paths # NoArray
    BY <1>10 DEF OpenFile, CallInv
  <2> QED
    BY <1>1, <1>2, <2>1, <2>2 DEF RTypeOK, CallInv
<1> QED
  BY <1>1, <1>3, <1>4, <1>5, <1>6, <1>7, <1>8, <1>9, <1>10 DEF Reader

------------------------------------------------------------------------------
(* Loads of the module: what was noted of an earlier load, or of none, is    *)
(* never mistaken for the one a probe is at work for.                        *)

Rising == {"metric", "count", "store", "register"}

Fresh(p, load, place) == p \in Nat => p <= load /\ (place \in Rising => p # load)

LEMMA DriverLoads ==
  ASSUME DTypeOK, Driver
  PROVE  \/ walk'.at \in Rising /\ loads' = loads + 1
         \/ loads' = loads /\ (walk'.at \in Rising => walk.at \in Rising)
<1>1. CASE Probe
  BY <1>1, OffType DEF Probe, Rising, WalkRecords
<1>2. CASE WalkEnds \/ SkipMetric \/ StartMetric \/ CountRegister \/ Allocate
           \/ SkipRegister \/ StoreRegister \/ FinishMetric \/ Register
  BY <1>2 DEF WalkEnds, SkipMetric, StartMetric, CountRegister, Allocate, SkipRegister,
     StoreRegister, FinishMetric, Register, Stores, Rising
<1>3. CASE ProbeFails \/ RegisterFails \/ Remove
  BY <1>3, OffType DEF ProbeFails, RegisterFails, Remove, Unload, Rising
<1>4. CASE StoreFaults \/ RegisterFaults
  <2>1. walk'.at = "oops" /\ loads' = loads
    BY <1>4 DEF StoreFaults, RegisterFaults, Oops, DTypeOK, WalkRecords
  <2> QED
    BY <2>1 DEF Rising
<1>5. CASE \E r \in DOMAIN data : Charge(r)
  BY <1>5 DEF Charge
<1> QED
  BY <1>1, <1>2, <1>3, <1>4, <1>5 DEF Driver

LEMMA DriverFresh ==
  ASSUME DTypeOK, Driver, NEW p, Fresh(p, loads, walk.at)
  PROVE  Fresh(p, loads', walk'.at)
<1>1. loads \in Nat
  BY LoadType
<1> QED
  BY <1>1, DriverLoads DEF Fresh

\* A module that is there after a step of the driver was registered by it, or was
\* there before with the same sensors, and no register is below what it was.
LEMMA DriverOn ==
  ASSUME DTypeOK, Driver, walk'.at = "on"
  PROVE  /\ loads' = loads /\ ctx' = ctx /\ table' = table
         /\ \/ walk.at = "register"
            \/ walk' = walk /\ \A r \in Regs(table) :
                 ~IsCut(table.metrics[r[1]].size) => data'[r] >= data[r]
<1>1. CASE Probe
  BY <1>1, OffType DEF Probe, WalkRecords
<1>2. CASE WalkEnds \/ StartMetric \/ CountRegister \/ Allocate \/ SkipRegister \/ StoreRegister
           \/ StoreFaults \/ RegisterFaults
  BY <1>2 DEF WalkEnds, StartMetric, CountRegister, Allocate, SkipRegister, StoreRegister,
     StoreFaults, RegisterFaults, Oops, Stores, DTypeOK, WalkRecords
<1>3. CASE SkipMetric \/ FinishMetric
  <2>1. walk'.at = "metric"
    BY <1>3 DEF SkipMetric, FinishMetric, NextMetric, Off
  <2> QED
    BY <2>1
<1>4. CASE ProbeFails \/ RegisterFails \/ Remove
  BY <1>4, OffType DEF ProbeFails, RegisterFails, Remove, Unload
<1>5. CASE Register
  BY <1>5 DEF Register
<1>6. CASE \E r \in DOMAIN data : Charge(r)
  <2>1. PICK s \in Regs(table) : Charge(s)
    BY <1>6 DEF DTypeOK
  <2>2. \A r \in Regs(table) : data[r] \in Nat
    BY TableAssumption DEF DTypeOK
  <2>3. PICK value \in 0 .. MaxData :
          /\ value = data[s] + 1 \/ IsCut(table.metrics[s[1]].size)
          /\ data' = [data EXCEPT ![s] = value]
    BY <2>1 DEF Charge
  <2>4. \A r \in Regs(table) : ~IsCut(table.metrics[r[1]].size) => data'[r] >= data[r]
    BY <2>2, <2>3 DEF DTypeOK
  <2> QED
    BY <2>1, <2>4 DEF Charge
<1> QED
  BY <1>1, <1>2, <1>3, <1>4, <1>5, <1>6 DEF Driver

------------------------------------------------------------------------------
(* The paths *)

\* A path of the module that is there was kept because its label was right, and
\* the file a call reads through it was opened in this load.
PathInv ==
  /\ Fresh(paths, loads, walk.at) /\ Fresh(call.path, loads, walk.at)
  /\ Fresh(call.began, loads, walk.at)
  /\ walk.at = "on" /\ (paths = loads \/ call.path = loads) => IsLabelled
  /\ call.at = "scan" /\ walk.at = "on" /\ call.path = loads => call.file = loads

LEMMA LabelledOn == IsLabelled => walk.at = "on" /\ HasSensor("energy", core)
  BY DEF IsLabelled, HasSensor, HasFiles

\* Labels and files stay while the module does.
LEMMA SensorsStay ==
  ASSUME UNCHANGED <<walk, ctx, loads, core>>
  PROVE  /\ IsLabelled' = IsLabelled /\ Load' = Load
         /\ HasSensor("energy", core)' = HasSensor("energy", core)
         /\ Sensor("energy", core)' = Sensor("energy", core)
  BY DEF IsLabelled, HasSensor, HasFiles, Sensor, Load

LEMMA NotFresh ==
  ASSUME DTypeOK, walk.at = "register", NEW p, Fresh(p, loads, walk.at)
  PROVE  p # loads
  BY LoadType DEF Fresh, Rising

LEMMA InitPath == HwmonInit => PathInv
<1> SUFFICES ASSUME HwmonInit PROVE PathInv
  OBVIOUS
<1>1. walk.at = "off" /\ loads = 0
  BY OffType DEF HwmonInit, DriverInit
<1>2. paths = NoArray /\ call.path = NoPath /\ call.at = "rest" /\ call.began = 0
  BY DEF HwmonInit, AtRest
<1> QED
  BY <1>1, <1>2, CoreAssumption DEF PathInv, Fresh, Rising

LEMMA DriverPath ==
  DTypeOK /\ WalkInv /\ PathInv /\ Driver /\ UNCHANGED <<core, paths, call, readings>> => PathInv'
<1> SUFFICES ASSUME DTypeOK, WalkInv, PathInv, Driver, UNCHANGED <<core, paths, call, readings>>
             PROVE  PathInv'
  OBVIOUS
<1>1. /\ Fresh(paths, loads, walk.at)' /\ Fresh(call.path, loads, walk.at)'
      /\ Fresh(call.began, loads, walk.at)'
  <2>1. /\ Fresh(paths, loads', walk'.at) /\ Fresh(call.path, loads', walk'.at)
        /\ Fresh(call.began, loads', walk'.at)
    BY DriverFresh DEF PathInv
  <2> QED
    BY <2>1 DEF Fresh
<1>2. CASE walk'.at # "on"
  BY <1>1, <1>2 DEF PathInv
<1>3. CASE walk'.at = "on" /\ walk.at = "register"
  <2>1. loads' = loads /\ paths # loads /\ call.path # loads
    BY <1>3, DriverOn, NotFresh DEF PathInv
  <2> QED
    BY <1>1, <2>1 DEF PathInv
<1>4. CASE walk'.at = "on" /\ walk.at # "register"
  <2>1. UNCHANGED <<walk, ctx, loads, core>>
    BY <1>4, DriverOn
  <2> QED
    BY <1>1, <2>1, SensorsStay DEF PathInv
<1> QED
  BY <1>2, <1>3, <1>4

LEMMA ReaderPath ==
  ASSUME DTypeOK, WalkInv, RTypeOK, CallInv, PathInv, Reader, UNCHANGED <<driverVars, core>>
  PROVE  PathInv'
<1>1. UNCHANGED <<walk, ctx, loads, core>>
  BY DEF driverVars
<1>2. IsLabelled' = IsLabelled
  BY <1>1, SensorsStay
<1>3. Fresh(NoPath, loads, walk.at)
  BY CoreAssumption DEF Fresh
<1>4. Fresh(Load, loads, walk.at)
  BY LoadType DEF Fresh, Load, Rising, WalkInv
<1>5. CASE CallRead
  <2>1. /\ paths' = paths /\ call'.path = call.path /\ call'.began = Load
        /\ call'.at # "scan"
    BY <1>5 DEF CallRead, RTypeOK, CallRecords
  <2> QED
    BY <1>1, <1>2, <1>4, <2>1 DEF PathInv
<1>6. CASE LoadPath
  <2>1. /\ paths' = paths /\ call'.path = paths /\ call'.began = call.began
        /\ call'.at # "scan"
    BY <1>6 DEF LoadPath, RTypeOK, CallRecords
  <2> QED
    BY <1>1, <1>2, <2>1 DEF PathInv
<1>7. CASE FindDevice
  <2>1. /\ paths' = paths \/ paths' = NoPath
        /\ call'.path = call.path /\ call'.began = call.began /\ call'.at # "scan"
    BY <1>7, CallType DEF FindDevice, RTypeOK, CallRecords
  <2>2. NoPath # loads
    BY LoadType, CoreAssumption
  <2> QED
    BY <1>1, <1>2, <1>3, <2>1, <2>2 DEF PathInv
<1>8. CASE ReadLabel
  <2>1. /\ call'.path = call.path /\ call'.began = call.began /\ call'.at # "scan"
    BY <1>8, CallType DEF ReadLabel, RTypeOK, CallRecords
  <2>2. CASE IsLabelled
    <3>1. paths' = loads /\ walk.at = "on"
      BY <1>8, <2>2, LabelledOn DEF ReadLabel
    <3>2. Fresh(loads, loads, walk.at)
      BY <3>1, LoadType DEF Fresh, Rising
    <3> QED
      BY <1>1, <1>2, <2>1, <2>2, <3>1, <3>2 DEF PathInv
  <2>3. CASE ~IsLabelled
    BY <1>1, <1>2, <1>8, <2>1, <2>3 DEF PathInv, ReadLabel
  <2> QED
    BY <2>2, <2>3
<1>9. CASE OpenFile
  <2>1. /\ paths' = paths /\ call'.path = call.path /\ call'.began = call.began
        /\ call'.file = loads
    BY <1>9 DEF OpenFile, RTypeOK, CallRecords
  <2> QED
    BY <1>1, <1>2, <2>1 DEF PathInv
<1>10. CASE OpenFails \/ ScanEnergy \/ ScanFails
  <2>1. paths' = paths /\ call' = AtRest
    BY <1>10 DEF OpenFails, ScanEnergy, ScanFails, Return
  <2>2. /\ call'.path = NoPath /\ call'.began = 0 /\ call'.at # "scan"
    BY <2>1 DEF AtRest
  <2>3. Fresh(0, loads, walk.at)
    BY LoadType DEF Fresh, Rising, WalkInv
  <2>4. NoPath # loads
    BY LoadType, CoreAssumption
  <2> QED
    BY <1>1, <1>2, <1>3, <2>1, <2>2, <2>3, <2>4 DEF PathInv
<1> QED
  BY <1>5, <1>6, <1>7, <1>8, <1>9, <1>10 DEF Reader

\* A call whose file gives no number did not read through a path of this load.
LEMMA GarbageStale ==
  ASSUME DTypeOK, RTypeOK, WalkInv, PathInv, ScanFails
  PROVE  Load # call.path
<1> SUFFICES ASSUME Load = call.path PROVE FALSE
  OBVIOUS
<1>1. call.at = "scan" /\ ~(call.file = Load /\ HasSensor("energy", core))
  BY DEF ScanFails
<1>2. Load # 0
  BY CallType, CoreAssumption, LoadType
<1>3. walk.at = "on" /\ Load = loads
  BY <1>2 DEF Load
<1>4. IsLabelled /\ call.file = loads
  BY <1>1, <1>3 DEF PathInv
<1> QED
  BY <1>1, <1>3, <1>4, LabelledOn

LEMMA NoGarbageStep ==
  ASSUME DTypeOK, WalkInv, RTypeOK, CallInv, PathInv, NoGarbage, Reader,
         UNCHANGED <<driverVars, core>>
  PROVE  NoGarbage'
<1>1. CASE UNCHANGED readings
  BY <1>1 DEF NoGarbage
<1>2. ASSUME NEW kind \in {"energy", "failed", "garbage"}, NEW reg \in Regs(table) \cup {NoReg},
             NEW value \in Nat, Return(kind, reg, value), call.at # "rest",
             kind = "garbage" => Load # call.path
      PROVE  NoGarbage'
  <2> DEFINE new == NewReading(kind, reg, value)
  <2>1. new \in ReadingRecords /\ readings' = Append(readings, new)
    BY <1>2, ReturnTyped
  <2>2. new.kind = "garbage" => new.load # new.path
    BY <1>2 DEF NewReading
  <2> HIDE DEF new
  <2>3. \A n \in DOMAIN readings' : (n \in DOMAIN readings /\ readings'[n] = readings[n])
                                    \/ readings'[n] = new
    BY <2>1 DEF RTypeOK
  <2> QED
    BY <2>2, <2>3 DEF NoGarbage
<1>3. CASE OpenFails
  BY <1>2, <1>3 DEF OpenFails
<1>4. CASE ScanEnergy
  BY <1>2, <1>4, SensorType DEF ScanEnergy
<1>5. CASE ScanFails
  BY <1>2, <1>5, GarbageStale DEF ScanFails
<1> QED
  BY <1>1, <1>3, <1>4, <1>5 DEF Reader, CallRead, LoadPath, FindDevice, ReadLabel, OpenFile

------------------------------------------------------------------------------
(* The calls behind a warm one *)

\* A call that found the module in place, the same from beginning to end, while
\* the core has its label.
Warm(m) == /\ Load # 0 /\ IsLabelled
           /\ readings[m].began = Load /\ readings[m].load = Load

Gives(m) == Load # 0 /\ readings[m].kind = "energy" /\ readings[m].load = Load

WarmInv ==
  /\ \A m \in DOMAIN readings : Fresh(readings[m].load, loads, walk.at)
  /\ Load # 0 /\ IsLabelled /\ call.began = Load /\ call.at \in {"open", "scan"} => paths \in Nat
  /\ \A m \in DOMAIN readings : Warm(m) =>
       /\ paths \in Nat
       /\ call.at \in {"rest", "load", "open", "scan"}
       /\ call.at = "open" => call.path # NoPath
       /\ call.at = "scan" => call.file = Load
  /\ \A m \in DOMAIN readings : Gives(m) =>
       /\ HasSensor("energy", core) /\ readings[m].reg = Sensor("energy", core).reg
       /\ table.metrics[readings[m].reg[1]].size >= 8
          => readings[m].value <= data[readings[m].reg]

LEMMA ReadingType ==
  ASSUME RTypeOK, NEW m \in DOMAIN readings
  PROVE  /\ readings[m] \in ReadingRecords
         /\ readings[m].value \in Nat /\ readings[m].load \in 0 .. MaxLoads
         /\ readings[m].reg \in Regs(table) \cup {NoReg}
<1>1. readings[m] \in ReadingRecords
  BY DEF RTypeOK
<1> QED
  BY <1>1 DEF ReadingRecords

\* WarmReads, of two calls.
Follows(m, n) ==
  m < n /\ Warm(m) /\ Load = readings[n].load
    => /\ readings[n].kind = "energy"
       /\ readings[m].kind = "energy" =>
            /\ readings[m].reg = readings[n].reg
            /\ table.metrics[readings[m].reg[1]].size >= 8
               => readings[m].value <= readings[n].value

LEMMA WarmPairs == WarmReads <=> \A m, n \in DOMAIN readings : Follows(m, n)
  BY DEF WarmReads, Follows, Warm

LEMMA WarmPairsNext == WarmReads' <=> (\A m, n \in DOMAIN readings : Follows(m, n))'
  BY DEF WarmReads, Follows, Warm

LEMMA InitWarm == HwmonInit => WarmInv /\ WarmReads
  BY DEF HwmonInit, DriverInit, Off, WarmInv, WarmReads, Warm, Gives, Load

LEMMA DriverWarm ==
  ASSUME DTypeOK, WalkInv, RTypeOK, PathInv, WarmInv, WarmReads, Driver,
         UNCHANGED <<core, paths, call, readings>>
  PROVE  WarmInv' /\ WarmReads'
<1>1. \A m \in DOMAIN readings' : Fresh(readings[m].load, loads, walk.at)'
  <2>1. \A m \in DOMAIN readings : Fresh(readings[m].load, loads', walk'.at)
    <3>1. SUFFICES ASSUME NEW m \in DOMAIN readings
                   PROVE  Fresh(readings[m].load, loads', walk'.at)
      OBVIOUS
    <3>2. Fresh(readings[m].load, loads, walk.at)
      BY DEF WarmInv
    <3> QED
      BY <3>2, DriverFresh
  <2> QED
    BY <2>1 DEF Fresh
<1>2. CASE walk'.at # "on"
  <2>1. Load' = 0
    BY <1>2 DEF Load
  <2> QED
    BY <1>1, <2>1 DEF WarmInv, WarmReads, Warm, Gives
<1>3. CASE walk'.at = "on" /\ walk.at = "register"
  <2>1. loads' = loads /\ Load' = loads
    BY <1>3, DriverOn DEF Load
  <2>2. call.began # loads
    BY <1>3, NotFresh DEF PathInv
  <2>3. \A m \in DOMAIN readings : readings[m].load # loads
    BY <1>3, NotFresh DEF WarmInv
  <2> QED
    BY <1>1, <2>1, <2>2, <2>3 DEF WarmInv, WarmReads, Warm, Gives
<1>4. CASE walk'.at = "on" /\ walk.at # "register"
  <2>1. /\ UNCHANGED <<walk, ctx, loads, core>> /\ table' = table
        /\ \A r \in Regs(table) :
             ~IsCut(table.metrics[r[1]].size) => data'[r] >= data[r]
    BY <1>4, DriverOn
  <2>2. /\ IsLabelled' = IsLabelled /\ Load' = Load
        /\ HasSensor("energy", core)' = HasSensor("energy", core)
        /\ Sensor("energy", core)' = Sensor("energy", core)
    BY <2>1, SensorsStay
  <2>3. WarmReads'
    BY <2>1, <2>2, WarmPairs, WarmPairsNext DEF Follows, Warm
  <2>4. \A m \in DOMAIN readings' : Gives(m)' =>
          /\ HasSensor("energy", core)' /\ readings'[m].reg = Sensor("energy", core)'.reg
          /\ table'.metrics[readings'[m].reg[1]].size >= 8
             => readings'[m].value <= data'[readings'[m].reg]
    <3>1. SUFFICES ASSUME NEW m \in DOMAIN readings, Gives(m)
                   PROVE  /\ HasSensor("energy", core) /\ readings[m].reg = Sensor("energy", core).reg
                          /\ table.metrics[readings[m].reg[1]].size >= 8
                             => readings[m].value <= data'[readings[m].reg]
      BY <2>1, <2>2 DEF Gives
    <3>2. /\ HasSensor("energy", core) /\ readings[m].reg = Sensor("energy", core).reg
          /\ table.metrics[readings[m].reg[1]].size >= 8
             => readings[m].value <= data[readings[m].reg]
      BY <3>1 DEF WarmInv
    <3>3. readings[m].reg \in Regs(table)
      BY <3>2, SensorType
    <3>4. table.metrics[readings[m].reg[1]].size >= 8
            => data'[readings[m].reg] >= data[readings[m].reg]
      BY <2>1, <3>3, SizeType DEF IsCut, Width
    <3>5. readings[m].value \in Nat /\ data[readings[m].reg] \in Nat
      BY <3>3, ReadingType, TableAssumption DEF DTypeOK
    <3>6. data'[readings[m].reg] \in Nat
      BY <2>1, <3>3, DriverTyped, TableAssumption DEF DTypeOK
    <3> QED
      BY <3>2, <3>4, <3>5, <3>6
  <2> QED
    BY <1>1, <2>1, <2>2, <2>3, <2>4 DEF WarmInv, Warm
<1> QED
  BY <1>2, <1>3, <1>4

\* A step inside a call.
LEMMA CallWarm ==
  ASSUME DTypeOK, WalkInv, RTypeOK, CallInv, PathInv, WarmInv, WarmReads,
         CallRead \/ LoadPath \/ FindDevice \/ ReadLabel \/ OpenFile,
         UNCHANGED <<driverVars, core>>
  PROVE  WarmInv' /\ WarmReads'
<1>1. UNCHANGED <<walk, ctx, loads, core, table, data, readings>>
  BY DEF driverVars, CallRead, LoadPath, FindDevice, ReadLabel, OpenFile
<1>2. /\ IsLabelled' = IsLabelled /\ Load' = Load
      /\ HasSensor("energy", core)' = HasSensor("energy", core)
      /\ Sensor("energy", core)' = Sensor("energy", core)
  BY <1>1, SensorsStay
<1>3. WarmReads'
  BY <1>1, <1>2, WarmPairs, WarmPairsNext DEF Follows, Warm
<1>4. /\ \A m \in DOMAIN readings' : Fresh(readings'[m].load, loads', walk'.at)
      /\ \A m \in DOMAIN readings' : Gives(m)' =>
           /\ HasSensor("energy", core)' /\ readings'[m].reg = Sensor("energy", core)'.reg
           /\ table'.metrics[readings'[m].reg[1]].size >= 8
              => readings'[m].value <= data'[readings'[m].reg]
  BY <1>1, <1>2 DEF WarmInv, Gives
<1>5. /\ Load # 0 /\ IsLabelled /\ call'.began = Load /\ call'.at \in {"open", "scan"}
         => paths' \in Nat
      /\ \A m \in DOMAIN readings : Warm(m) =>
           /\ paths' \in Nat
           /\ call'.at \in {"rest", "load", "open", "scan"}
           /\ call'.at = "open" => call'.path # NoPath
           /\ call'.at = "scan" => call'.file = Load
  <2>1. paths \in Nat => paths # NoArray /\ paths # NoPath
    BY CoreAssumption
  <2>2. paths \in {NoArray, NoPath} \/ paths \in Nat
    BY DEF RTypeOK
  <2>3. Load # 0 => walk.at = "on" /\ Load = loads
    BY DEF Load
  <2>4. CASE CallRead
    <3>1. /\ paths' = paths /\ call'.at = IF paths = NoArray THEN "find" ELSE "load"
      BY <2>4 DEF CallRead, RTypeOK, CallRecords
    <3> QED
      BY <2>1, <3>1 DEF WarmInv
  <2>5. CASE LoadPath
    <3>1. /\ paths' = paths /\ call'.path = paths /\ paths # NoArray
          /\ call'.at = IF paths = NoPath THEN "find" ELSE "open"
      BY <2>5 DEF LoadPath, RTypeOK, CallRecords, CallInv
    <3> QED
      BY <2>1, <2>2, <3>1 DEF WarmInv
  <2>6. CASE FindDevice
    <3>1. /\ call'.at = IF walk.at = "on" THEN "label" ELSE call.back
          /\ call.at = "find"
      BY <2>6 DEF FindDevice, RTypeOK, CallRecords
    <3> QED
      BY <2>3, <3>1 DEF WarmInv
  <2>7. CASE ReadLabel
    <3>1. call.at = "label" /\ (IsLabelled => paths' = loads)
      BY <2>7 DEF ReadLabel
    <3> QED
      BY <3>1, LoadType DEF WarmInv
  <2>8. CASE OpenFile
    <3>1. /\ paths' = paths /\ call.at = "open" /\ call'.at = "scan"
          /\ call'.file = loads /\ call'.began = call.began
      BY <2>8 DEF OpenFile, RTypeOK, CallRecords
    <3> QED
      BY <2>3, <3>1 DEF WarmInv, Warm
  <2> QED
    BY <2>4, <2>5, <2>6, <2>7, <2>8
<1> QED
  BY <1>1, <1>2, <1>3, <1>4, <1>5 DEF WarmInv, Warm

\* The return of a call.
LEMMA ReturnWarm ==
  ASSUME DTypeOK, WalkInv, RTypeOK, CallInv, PathInv, WarmInv, WarmReads,
         UNCHANGED <<driverVars, core>>, call.at \in {"open", "scan"},
         NEW kind \in {"energy", "failed", "garbage"}, NEW reg \in Regs(table) \cup {NoReg},
         NEW value \in Nat, Return(kind, reg, value),
         kind = "energy" => /\ HasSensor("energy", core) /\ reg = Sensor("energy", core).reg
                            /\ value = Value(reg),
         \A m \in DOMAIN readings : Warm(m) => kind = "energy"
  PROVE  WarmInv' /\ WarmReads'
<1> DEFINE new == NewReading(kind, reg, value)
<1>1. new \in ReadingRecords /\ readings' = Append(readings, new)
  BY ReturnTyped
<1>2. /\ new.kind = kind /\ new.reg = reg /\ new.value = value
      /\ new.began = call.began /\ new.load = Load
  BY DEF NewReading
<1> HIDE DEF new
<1>3. /\ DOMAIN readings' = DOMAIN readings \cup {Len(readings) + 1}
      /\ \A m \in DOMAIN readings : readings'[m] = readings[m] /\ m < Len(readings) + 1
      /\ readings'[Len(readings) + 1] = new
      /\ \A m \in DOMAIN readings : ~(Len(readings) + 1 < m)
      /\ ~(Len(readings) + 1 < Len(readings) + 1)
  BY <1>1 DEF RTypeOK
<1> DEFINE last == Len(readings) + 1
<1> HIDE DEF last
<1>4. /\ DOMAIN readings' = DOMAIN readings \cup {last} /\ readings'[last] = new
      /\ \A m \in DOMAIN readings : readings'[m] = readings[m] /\ m < last /\ ~(last < m)
      /\ ~(last < last)
  BY <1>3 DEF last
<1>5. UNCHANGED <<walk, ctx, loads, core, table, data>>
  BY DEF driverVars
<1>6. /\ IsLabelled' = IsLabelled /\ Load' = Load
      /\ HasSensor("energy", core)' = HasSensor("energy", core)
      /\ Sensor("energy", core)' = Sensor("energy", core)
  BY <1>5, SensorsStay
<1>7. paths' = paths /\ call'.at = "rest"
  BY DEF Return, AtRest
<1>8. kind = "energy" => value = data[reg] \/ ~(table.metrics[reg[1]].size >= 8)
  BY DEF Value
<1>9. kind = "energy" => data[reg] \in Nat
  BY SensorType, TableAssumption DEF DTypeOK
<1>10. \A m \in DOMAIN readings' : Fresh(readings'[m].load, loads', walk'.at)
  <2>1. Fresh(Load, loads, walk.at)
    BY LoadType DEF Fresh, Load, Rising, WalkInv
  <2> QED
    BY <1>2, <1>4, <1>5, <2>1 DEF WarmInv
<1>11. \A m \in DOMAIN readings' : Warm(m)' => paths' \in Nat
  <2>1. SUFFICES ASSUME NEW m \in DOMAIN readings', Warm(m)'
                 PROVE  paths \in Nat
    BY <1>7
  <2>2. CASE m \in DOMAIN readings
    BY <1>4, <1>6, <2>1, <2>2 DEF WarmInv, Warm
  <2>3. CASE m = last
    BY <1>2, <1>4, <1>6, <2>1, <2>3 DEF WarmInv, Warm
  <2> QED
    BY <1>4, <2>2, <2>3
<1>12. \A m \in DOMAIN readings' : Gives(m)' =>
         /\ HasSensor("energy", core)' /\ readings'[m].reg = Sensor("energy", core)'.reg
         /\ table'.metrics[readings'[m].reg[1]].size >= 8
            => readings'[m].value <= data'[readings'[m].reg]
  <2>1. SUFFICES ASSUME NEW m \in DOMAIN readings', Gives(m)'
                 PROVE  /\ HasSensor("energy", core)
                        /\ readings'[m].reg = Sensor("energy", core).reg
                        /\ table.metrics[readings'[m].reg[1]].size >= 8
                           => readings'[m].value <= data[readings'[m].reg]
    BY <1>5, <1>6
  <2>2. CASE m \in DOMAIN readings
    BY <1>4, <1>6, <2>1, <2>2 DEF WarmInv, Gives
  <2>3. CASE m = last
    <3>1. kind = "energy"
      BY <1>2, <1>4, <2>1, <2>3 DEF Gives
    <3>2. /\ HasSensor("energy", core) /\ reg = Sensor("energy", core).reg
      BY <3>1
    <3>3. table.metrics[reg[1]].size >= 8 => value <= data[reg]
      BY <1>8, <1>9, <3>1
    <3> QED
      BY <1>2, <1>4, <2>3, <3>2, <3>3
  <2> QED
    BY <1>4, <2>2, <2>3
<1>13. WarmReads'
  <2>1. SUFFICES ASSUME NEW m \in DOMAIN readings', NEW n \in DOMAIN readings'
                 PROVE  Follows(m, n)'
    BY WarmPairsNext
  <2>2. CASE m \in DOMAIN readings /\ n \in DOMAIN readings
    BY <1>4, <1>5, <1>6, <2>2, WarmPairs DEF Follows, Warm
  <2>3. CASE m \in DOMAIN readings /\ n = last
    <3>1. SUFFICES ASSUME Warm(m)
                   PROVE  /\ kind = "energy"
                          /\ readings[m].kind = "energy" =>
                               /\ readings[m].reg = reg
                               /\ table.metrics[readings[m].reg[1]].size >= 8
                                  => readings[m].value <= value
      BY <1>2, <1>4, <1>5, <1>6, <2>3 DEF Follows, Warm
    <3>2. kind = "energy"
      BY <2>3, <3>1
    <3>3. ASSUME readings[m].kind = "energy"
          PROVE  /\ readings[m].reg = reg
                 /\ table.metrics[readings[m].reg[1]].size >= 8 => readings[m].value <= value
      <4>1. Gives(m)
        BY <3>1, <3>3 DEF Gives, Warm
      <4>2. /\ readings[m].reg = Sensor("energy", core).reg
            /\ table.metrics[readings[m].reg[1]].size >= 8
               => readings[m].value <= data[readings[m].reg]
        BY <2>3, <4>1 DEF WarmInv
      <4>3. readings[m].reg = reg
        BY <3>2, <4>2
      <4>4. table.metrics[reg[1]].size >= 8 => readings[m].value <= data[reg] /\ value = data[reg]
        BY <1>8, <3>2, <4>2, <4>3
      <4> QED
        BY <4>3, <4>4
    <3> QED
      BY <3>2, <3>3
  <2>4. CASE m = last
    BY <1>4, <2>4 DEF Follows
  <2> QED
    BY <1>4, <2>2, <2>3, <2>4
<1> QED
  BY <1>7, <1>10, <1>11, <1>12, <1>13 DEF WarmInv

LEMMA ReaderWarm ==
  ASSUME DTypeOK, WalkInv, RTypeOK, CallInv, PathInv, WarmInv, WarmReads, Reader,
         UNCHANGED <<driverVars, core>>
  PROVE  WarmInv' /\ WarmReads'
<1>1. CASE CallRead \/ LoadPath \/ FindDevice \/ ReadLabel \/ OpenFile
  BY <1>1, CallWarm
<1>2. CASE OpenFails
  <2>1. call.at = "open" /\ (call.path = NoPath \/ ~HasFiles("energy", core))
        /\ Return("failed", NoReg, 0)
    BY <1>2 DEF OpenFails
  <2>2. \A m \in DOMAIN readings : ~Warm(m)
    BY <2>1 DEF WarmInv, Warm, IsLabelled, HasSensor
  <2> QED
    BY <2>1, <2>2, ReturnWarm
<1>3. CASE ScanEnergy
  BY <1>3, SensorType, ReturnWarm DEF ScanEnergy
<1>4. CASE ScanFails
  <2>1. call.at = "scan" /\ ~(call.file = Load /\ HasSensor("energy", core))
        /\ Return("garbage", NoReg, 0)
    BY <1>4 DEF ScanFails
  <2>2. \A m \in DOMAIN readings : ~Warm(m)
    BY <2>1 DEF WarmInv, Warm, IsLabelled
  <2> QED
    BY <2>1, <2>2, ReturnWarm
<1> QED
  BY <1>1, <1>2, <1>3, <1>4 DEF Reader

------------------------------------------------------------------------------
(* The invariant of Hwmon, and the theorems *)

HwInv == /\ DTypeOK /\ WalkInv /\ RangeInv /\ RTypeOK /\ CallInv
         /\ PathInv /\ NoGarbage /\ WarmInv /\ WarmReads

LEMMA HwInvInit == HwmonInit => HwInv
<1> SUFFICES ASSUME HwmonInit PROVE HwInv
  OBVIOUS
<1>1. DriverInit
  BY DEF HwmonInit
<1>2. RangeInv
  BY <1>1 DEF DriverInit, NoContext, RangeInv
<1>3. NoGarbage
  BY DEF HwmonInit, NoGarbage
<1> QED
  BY <1>1, <1>2, <1>3, InitDriverType, InitReaderType, InitPath, InitWarm DEF HwInv

LEMMA HwInvNext == HwInv /\ [HwmonNext]_hwmonVars => HwInv'
<1> SUFFICES ASSUME HwInv, [HwmonNext]_hwmonVars PROVE HwInv'
  OBVIOUS
<1>1. CASE Driver /\ UNCHANGED <<core, paths, call, readings>>
  <2>1. DTypeOK' /\ WalkInv' /\ RangeInv' /\ PathInv'
    BY <1>1, DriverTyped, DriverRange, DriverPath DEF HwInv
  <2>2. RTypeOK' /\ CallInv'
    <3>1. table' = table
      BY <1>1 DEF Driver, Probe, WalkEnds, SkipMetric, StartMetric, CountRegister, Allocate,
         ProbeFails, SkipRegister, StoreRegister, StoreFaults, FinishMetric, Register,
         RegisterFaults, RegisterFails, Remove, Charge, Unload, Oops
    <3>2. ReadingRecords' = ReadingRecords /\ CallRecords' = CallRecords
      BY <3>1 DEF ReadingRecords, CallRecords, Regs
    <3> QED
      BY <1>1, <3>2 DEF HwInv, RTypeOK, CallInv
  <2>3. NoGarbage'
    BY <1>1 DEF HwInv, NoGarbage
  <2>4. WarmInv' /\ WarmReads'
    BY <1>1, DriverWarm DEF HwInv
  <2> QED
    BY <2>1, <2>2, <2>3, <2>4 DEF HwInv
<1>2. CASE Reader
  <2>1. RTypeOK' /\ CallInv' /\ UNCHANGED <<driverVars, core>>
    BY <1>2, ReaderTyped DEF HwInv
  <2>2. DTypeOK' /\ WalkInv' /\ RangeInv'
    BY <2>1 DEF HwInv, driverVars, DTypeOK, WalkRecords, Places, Contexts, ItemRecords,
       InfoRecords, Regs, WalkInv, Metric, hw_end_reg, RangeInv
  <2>3. PathInv' /\ NoGarbage' /\ WarmInv' /\ WarmReads'
    BY <1>2, <2>1, ReaderPath, NoGarbageStep, ReaderWarm DEF HwInv
  <2> QED
    BY <2>1, <2>2, <2>3 DEF HwInv
<1>3. CASE UNCHANGED hwmonVars
  <2>1. UNCHANGED <<table, data, loads, walk, ctx, counted, core, paths, call, readings>>
    BY <1>3 DEF hwmonVars, driverVars
  <2>2. DTypeOK' /\ WalkInv' /\ RangeInv' /\ RTypeOK' /\ CallInv'
    BY <2>1 DEF HwInv, DTypeOK, WalkRecords, Places, Contexts, ItemRecords, InfoRecords, Regs,
       WalkInv, Metric, hw_end_reg, RangeInv, RTypeOK, CallRecords, ReadingRecords, CallInv
  <2>3. /\ IsLabelled' = IsLabelled /\ Load' = Load
        /\ HasSensor("energy", core)' = HasSensor("energy", core)
        /\ Sensor("energy", core)' = Sensor("energy", core)
    BY <2>1, SensorsStay
  <2>4. PathInv' /\ NoGarbage'
    BY <2>1, <2>3 DEF HwInv, PathInv, Fresh, NoGarbage
  <2>5. WarmInv'
    BY <2>1, <2>3 DEF HwInv, WarmInv, Warm, Gives, Fresh
  <2>6. WarmReads'
    BY <2>1, <2>3, WarmPairs, WarmPairsNext DEF HwInv, Follows, Warm
  <2> QED
    BY <2>2, <2>4, <2>5, <2>6 DEF HwInv
<1> QED
  BY <1>1, <1>2, <1>3 DEF HwmonNext

LEMMA HwInvAlways == HwmonSpec => []HwInv
  BY HwInvInit, HwInvNext, PTL DEF HwmonSpec

\* Every variable of the driver and of the reader keeps its type: no channel or
\* register is looked up outside its list.
THEOREM HwmonTyped == HwmonSpec => []HwTypeOK
<1>1. HwInv => HwTypeOK
  BY DEF HwInv, DTypeOK, RTypeOK, HwTypeOK, WalkRecords, Places, Contexts, ItemRecords,
     InfoRecords, CallRecords, ReadingRecords
<1> QED
  BY <1>1, HwInvAlways, PTL

\* Whatever the table of the firmware says, of whatever size its registers are, nothing
\* beyond the mapped part of it is read but by the reads that are wider than their
\* register, and by those no more than they are wider.
THEOREM SensorsMapped == HwmonSpec => []SensorsInRange
<1>1. HwInv => SensorsInRange
  <2> SUFFICES ASSUME HwInv, NEW item \in Reached
               PROVE  LET size == table.metrics[item.reg[1]].size IN
                      item.hw_reg + Width(size)
                        <= table.base_size + IF IsCut(size) THEN Width(size) - size ELSE 0
    BY DEF SensorsInRange
  <2> DEFINE size == table.metrics[item.reg[1]].size
  <2>1. item.hw_reg + size <= table.base_size /\ item \in ItemRecords
    <3>1. CASE item \in Items
      <4>1. PICK t \in Types : \E n \in DOMAIN ctx.list[t] : item = ctx.list[t][n]
        BY <3>1 DEF Items
      <4> QED
        BY <4>1, ContextType DEF HwInv, RangeInv
    <3>2. CASE item = Item /\ walk.at \in {"count", "store"} /\ walk.i < Metric.cnt
      BY <3>2, ItemInRange, ItemType DEF HwInv
    <3> QED
      BY <3>1, <3>2 DEF Reached
  <2>2. item.reg \in Regs(table) /\ item.hw_reg \in Nat
    BY <2>1 DEF ItemRecords
  <2>3. size \in Nat
    BY <2>2, SizeType DEF HwInv
  <2>4. table.base_size \in Nat
    BY TableType DEF HwInv
  <2> HIDE DEF size
  <2>5. item.hw_reg + Width(size) <= table.base_size + IF IsCut(size) THEN Width(size) - size ELSE 0
    BY <2>1, <2>2, <2>3, <2>4 DEF Width, IsCut
  <2> QED
    BY <2>5 DEF size
<1> QED
  BY <1>1, HwInvAlways, PTL

\* A reading is the uninitialised joules only if the module the path was looked
\* up in is no longer there.
THEOREM GarbageExplained == HwmonSpec => []NoGarbage
<1>1. HwInv => NoGarbage
  BY DEF HwInv
<1> QED
  BY <1>1, HwInvAlways, PTL

\* Behind the first undisturbed call, each further one reads the same sensor, and
\* what the processor subtracts is not negative.
THEOREM WarmAlways == HwmonSpec => []WarmReads
<1>1. HwInv => WarmReads
  BY DEF HwInv
<1> QED
  BY <1>1, HwInvAlways, PTL
===============================================================================
