----------------------------- MODULE SensorProofs -----------------------------
(***************************************************************************)
(* The two passes of the probe over the live registers, for every firmware *)
(* table: where a list outgrows its room, what an oops comes from, and     *)
(* which core a label stands for.                                          *)
(***************************************************************************)
EXTENDS HwmonProofs

------------------------------------------------------------------------------
(* The invariant of the two passes *)

Stored       == {item.reg : item \in Items}
Of(S, m)     == {r \in S : r[1] = m}
Skipped(S, r) == {i \in 0 .. r[2] - 1 : <<r[1], i>> \notin S}

\* The second pass of the walk w is past the register, the first one is.
Passed(w, r)  == \/ r[1] < w.m
                 \/ w.at \in {"store", "oops"} /\ r[1] = w.m /\ r[2] < w.i
CountedBy(w, r) == \/ r[1] < w.m
                   \/ w.at = "count" /\ r[1] = w.m /\ r[2] < w.i
                   \/ w.at = "store" /\ r[1] = w.m

\* A list that was never allocated is empty.
RoomInv ==
  /\ walk.at = "off" => ctx = NoContext
  /\ \A t \in Types : ctx.room[t] = NoList => ctx.list[t] = <<>>

\* The walk goes over each register once in either pass ...
OnceInv ==
  /\ IsFiniteSet(Stored) /\ IsFiniteSet(counted)
  /\ walk.at # "off" => \A r \in Stored : Passed(walk, r)
  /\ walk.at \in {"metric", "count", "store"} => \A r \in counted : CountedBy(walk, r)

\* ... and total and j are the numbers of the registers it noted in each.
TotalInv ==
  /\ walk.at = "metric" => walk.i = 0 /\ walk.j = 0 /\ walk.total = 0
  /\ walk.at = "count" => walk.j = 0
  /\ walk.at \in {"count", "store"} => walk.total = Cardinality(Of(counted, walk.m))
  /\ walk.at = "store" =>
       /\ walk.j = Cardinality(Of(Stored, walk.m))
       /\ Room # NoList => Len(ctx.list[Metric.type]) + walk.total = Room + walk.j

\* A label is that of the metric, with the number of the sensors before it.
LabelInv ==
  \A item \in Items :
    /\ item.label[1] = table.metrics[item.reg[1]].label
    /\ item.reg[2] = item.label[2] + Cardinality(Skipped(Stored, item.reg))

PassInv == RoomInv /\ OnceInv /\ TotalInv

------------------------------------------------------------------------------
(* Registers and lists *)

LEMMA RegType ==
  ASSUME DTypeOK, NEW r \in Regs(table)
  PROVE  /\ r[1] \in DOMAIN table.metrics /\ r[1] \in Nat /\ r[2] \in Nat
         /\ r = <<r[1], r[2]>>
<1>1. PICK m \in DOMAIN table.metrics : r \in {m} \X (0 .. table.metrics[m].cnt - 1)
  BY DEF Regs
<1>2. m \in Nat
  BY <1>1, TableType
<1> QED
  BY <1>1, <1>2

LEMMA ItemsType ==
  ASSUME DTypeOK
  PROVE  /\ \A item \in Items : item \in ItemRecords
         /\ \A r \in Stored : r \in Regs(table)
         /\ \A r \in counted : r \in Regs(table)
         /\ \A t \in Types : Len(ctx.list[t]) \in Nat
<1>1. \A t \in Types : ctx.list[t] \in Seq(ItemRecords)
  BY ContextType
<1>2. \A item \in Items : item \in ItemRecords
  <2>1. SUFFICES ASSUME NEW t \in Types, NEW n \in DOMAIN ctx.list[t]
                 PROVE  ctx.list[t][n] \in ItemRecords
    BY DEF Items
  <2> QED
    BY <1>1
<1>3. \A r \in Stored : r \in Regs(table)
  BY <1>2 DEF Stored, ItemRecords
<1> QED
  BY <1>1, <1>2, <1>3 DEF DTypeOK

\* The register the walk is at is not stored, and in the first pass not counted.
LEMMA HereNew ==
  ASSUME DTypeOK, OnceInv
  PROVE  /\ walk.at = "store" => Here \notin Stored
         /\ walk.at = "count" => Here \notin counted
<1>1. walk.m \in Nat /\ walk.i \in Nat /\ Here[1] = walk.m /\ Here[2] = walk.i
  BY WalkType DEF Here
<1> QED
  BY <1>1 DEF OnceInv, Passed, CountedBy

\* Without a step of the second pass, the lists stay.
LEMMA SameItems ==
  ASSUME ctx'.list = ctx.list
  PROVE  Items' = Items /\ Stored' = Stored
<1>1. Items' = Items
  BY DEF Items
<1> QED
  BY <1>1 DEF Stored

LEMMA NoItems ==
  ASSUME ctx = NoContext
  PROVE  Items = {} /\ Stored = {}
<1>1. \A t \in Types : ctx.list[t] = <<>>
  BY DEF NoContext
<1>2. Items = {}
  BY <1>1 DEF Items
<1> QED
  BY <1>2 DEF Stored

LEMMA NoItemsNext ==
  ASSUME ctx' = NoContext
  PROVE  Items' = {} /\ Stored' = {}
<1>1. \A t \in Types : ctx'.list[t] = <<>>
  BY DEF NoContext
<1>2. Items' = {}
  BY <1>1 DEF Items
<1> QED
  BY <1>2 DEF Stored

\* A step of the second pass that stores adds one sensor to one list.
LEMMA StoreAdds ==
  ASSUME DTypeOK, WalkInv, StoreRegister
  PROVE  /\ Metric.type \in Types
         /\ Items' = Items \cup {Item} /\ Stored' = Stored \cup {Here}
         /\ Len(ctx'.list[Metric.type]) = Len(ctx.list[Metric.type]) + 1
         /\ \A t \in Types : t # Metric.type => ctx'.list[t] = ctx.list[t]
         /\ ctx'.room = ctx.room
<1>1. Metric.type \in Types /\ Item \in ItemRecords
  BY ItemType DEF StoreRegister, Stores, WalkInv
<1>2. \A t \in Types : ctx.list[t] \in Seq(ItemRecords)
  BY ContextType
<1> DEFINE list == Append(ctx.list[Metric.type], Item)
<1>3. ctx' = [ctx EXCEPT !.list[Metric.type] = list]
  BY DEF StoreRegister
<1>4. /\ list \in Seq(ItemRecords) /\ Len(list) = Len(ctx.list[Metric.type]) + 1
      /\ DOMAIN list = DOMAIN ctx.list[Metric.type] \cup {Len(ctx.list[Metric.type]) + 1}
      /\ \A k \in DOMAIN ctx.list[Metric.type] : list[k] = ctx.list[Metric.type][k]
      /\ list[Len(ctx.list[Metric.type]) + 1] = Item
  BY <1>1, <1>2
<1> HIDE DEF list
<1>5. /\ ctx'.list = [ctx.list EXCEPT ![Metric.type] = list] /\ ctx'.room = ctx.room
      /\ ctx.list \in [Types -> Seq(ItemRecords)]
  BY <1>3 DEF DTypeOK, Contexts
<1>6. \A t \in Types : ctx'.list[t] = IF t = Metric.type THEN list ELSE ctx.list[t]
  BY <1>1, <1>5
<1>7. \A item : (\E t \in Types : \E n \in DOMAIN ctx'.list[t] : item = ctx'.list[t][n])
         <=> \/ \E t \in Types : \E n \in DOMAIN ctx.list[t] : item = ctx.list[t][n]
             \/ item = Item
  <2>1. \A n \in DOMAIN ctx'.list[Metric.type] :
          \/ n \in DOMAIN ctx.list[Metric.type]
             /\ ctx'.list[Metric.type][n] = ctx.list[Metric.type][n]
          \/ ctx'.list[Metric.type][n] = Item
    BY <1>1, <1>4, <1>6
  <2>2. \A n \in DOMAIN ctx.list[Metric.type] :
          /\ n \in DOMAIN ctx'.list[Metric.type]
          /\ ctx'.list[Metric.type][n] = ctx.list[Metric.type][n]
    BY <1>1, <1>4, <1>6
  <2>3. \E n \in DOMAIN ctx'.list[Metric.type] : ctx'.list[Metric.type][n] = Item
    BY <1>1, <1>4, <1>6
  <2>4. \A t \in Types : t # Metric.type => ctx'.list[t] = ctx.list[t]
    BY <1>6
  <2> QED
    BY <1>1, <2>1, <2>2, <2>3, <2>4
<1>8. Items' = Items \cup {Item}
  <2>1. \A item : item \in Items <=>
          \E t \in Types : \E n \in DOMAIN ctx.list[t] : item = ctx.list[t][n]
    BY DEF Items
  <2>2. \A item : item \in Items' <=>
          \E t \in Types : \E n \in DOMAIN ctx'.list[t] : item = ctx'.list[t][n]
    BY DEF Items
  <2> QED
    BY <1>7, <2>1, <2>2
<1>9. Stored' = Stored \cup {Here}
  <2>1. Item.reg = Here
    BY DEF Item, Here
  <2> QED
    BY <1>8, <2>1 DEF Stored
<1> QED
  BY <1>1, <1>4, <1>5, <1>6, <1>8, <1>9

LEMMA RegLess ==
  ASSUME DTypeOK, NEW r \in Stored \cup counted
  PROVE  r[1] \in Nat /\ r[2] \in Nat
  BY ItemsType, RegType

\* The count of a metric the walk has not come to.
LEMMA NoneOf ==
  ASSUME NEW S, NEW m \in Nat, \A r \in S : r[1] \in Nat /\ r[1] < m
  PROVE  Of(S, m) = {} /\ Cardinality(Of(S, m)) = 0
<1>1. Of(S, m) = {}
  BY DEF Of
<1> QED
  BY <1>1, FS_EmptySet

LEMMA OneMore ==
  ASSUME NEW S, IsFiniteSet(S), NEW r, r \notin S
  PROVE  /\ IsFiniteSet(S \cup {r})
         /\ IsFiniteSet(Of(S, r[1])) /\ Cardinality(Of(S, r[1])) \in Nat
         /\ Cardinality(Of(S \cup {r}, r[1])) = Cardinality(Of(S, r[1])) + 1
<1>1. IsFiniteSet(Of(S, r[1]))
  BY FS_Subset DEF Of
<1>2. Of(S \cup {r}, r[1]) = Of(S, r[1]) \cup {r} /\ r \notin Of(S, r[1])
  BY DEF Of
<1> QED
  BY <1>1, <1>2, FS_AddElement, FS_CardinalityType

------------------------------------------------------------------------------
(* The driver keeps the invariant of the passes *)

LEMMA InitPass == DriverInit => PassInv /\ LabelInv
<1> SUFFICES ASSUME DriverInit PROVE PassInv /\ LabelInv
  OBVIOUS
<1>1. /\ ctx = NoContext /\ counted = {} /\ walk.at = "off"
  BY OffType DEF DriverInit
<1>2. Items = {} /\ Stored = {}
  BY <1>1, NoItems
<1>3. RoomInv
  BY <1>1 DEF RoomInv, NoContext
<1>4. OnceInv
  BY <1>1, <1>2, FS_EmptySet DEF OnceInv
<1>5. TotalInv
  BY <1>1 DEF TotalInv
<1> QED
  BY <1>2, <1>3, <1>4, <1>5 DEF PassInv, LabelInv

LEMMA UnloadPass ==
  ASSUME DTypeOK, PassInv, Unload
  PROVE  PassInv'
<1>1. ctx' = NoContext /\ walk'.at = "off" /\ counted' = counted
  BY OffType DEF Unload
<1>2. Stored' = {}
  BY <1>1, NoItemsNext
<1>3. RoomInv'
  BY <1>1 DEF RoomInv, NoContext
<1>4. OnceInv'
  BY <1>1, <1>2, FS_EmptySet DEF OnceInv, PassInv
<1>5. TotalInv'
  BY <1>1 DEF TotalInv
<1> QED
  BY <1>3, <1>4, <1>5 DEF PassInv

\* Steps between the metrics, and of energy.
LEMMA StridePass ==
  ASSUME DTypeOK, WalkInv, PassInv, ctx' = ctx,
         Probe \/ WalkEnds \/ SkipMetric \/ StartMetric \/ Register
           \/ \E r \in DOMAIN data : Charge(r)
  PROVE  PassInv'
<1>1. Stored' = Stored
  BY SameItems
<1>2. table' = table
  BY DEF Probe, WalkEnds, SkipMetric, StartMetric, Register, Charge
<1>3. walk.m \in Nat
  BY WalkType
<1>4. CASE Probe
  <2>1. walk.at = "off" /\ Stored = {} /\ counted' = {}
    BY <1>4, NoItems DEF Probe, PassInv, RoomInv
  <2>2. walk'.at = "metric" /\ walk'.i = 0 /\ walk'.j = 0 /\ walk'.total = 0
    BY <1>4 DEF Probe, Off
  <2>3. OnceInv' /\ TotalInv'
    BY <1>1, <2>1, <2>2, FS_EmptySet DEF OnceInv, TotalInv
  <2> QED
    BY <2>2, <2>3 DEF PassInv, RoomInv
<1>5. CASE WalkEnds \/ Register
  <2>1. /\ walk.at \in {"metric", "register"} /\ walk'.at \in {"register", "on"}
        /\ walk'.m = walk.m /\ counted' = counted
    BY <1>5 DEF WalkEnds, Register, DTypeOK, WalkRecords, Places
  <2>2. OnceInv' /\ TotalInv'
    BY <1>1, <2>1 DEF OnceInv, TotalInv, PassInv, Passed
  <2> QED
    BY <2>1, <2>2 DEF PassInv, RoomInv
<1>6. CASE SkipMetric
  <2>1. /\ walk.at = "metric" /\ walk'.at = "metric" /\ walk'.m = walk.m + 1
        /\ walk'.i = 0 /\ walk'.j = 0 /\ walk'.total = 0 /\ counted' = counted
    BY <1>6 DEF SkipMetric, NextMetric, Off
  <2>2. OnceInv' /\ TotalInv'
    BY <1>1, <1>3, <2>1, RegLess DEF OnceInv, TotalInv, PassInv, Passed, CountedBy
  <2> QED
    BY <2>1, <2>2 DEF PassInv, RoomInv
<1>7. CASE StartMetric
  <2>1. /\ walk.at = "metric" /\ walk'.at = "count" /\ walk'.m = walk.m
        /\ walk'.i = 0 /\ walk'.j = 0 /\ walk'.total = 0 /\ counted' = counted
    BY <1>7 DEF StartMetric, DTypeOK, WalkRecords, Places, PassInv, TotalInv
  <2>2. \A r \in counted : r[1] \in Nat /\ r[1] < walk.m
    BY <2>1, RegLess DEF OnceInv, PassInv, CountedBy
  <2>3. Cardinality(Of(counted, walk.m)) = 0
    BY <1>3, <2>2, NoneOf
  <2>4. OnceInv' /\ TotalInv'
    BY <1>1, <2>1, <2>3 DEF OnceInv, TotalInv, PassInv, Passed, CountedBy
  <2> QED
    BY <2>1, <2>4 DEF PassInv, RoomInv
<1>8. CASE \E r \in DOMAIN data : Charge(r)
  <2>1. walk' = walk /\ counted' = counted
    BY <1>8 DEF Charge
  <2> QED
    BY <1>1, <1>2, <2>1 DEF PassInv, RoomInv, OnceInv, TotalInv, Passed, CountedBy, Of, Room,
       Metric
<1> QED
  BY <1>4, <1>5, <1>6, <1>7, <1>8

LEMMA OopsPass ==
  ASSUME DTypeOK, PassInv, Oops, walk.at \in {"store", "register"}
  PROVE  PassInv'
<1>1. /\ walk'.at = "oops" /\ walk'.m = walk.m /\ walk'.i = walk.i
      /\ ctx' = ctx /\ counted' = counted
  BY DEF Oops, DTypeOK, WalkRecords, Places
<1>2. Stored' = Stored
  BY <1>1, SameItems
<1>3. OnceInv' /\ TotalInv'
  BY <1>1, <1>2 DEF PassInv, OnceInv, TotalInv, Passed
<1> QED
  BY <1>1, <1>3 DEF PassInv, RoomInv

LEMMA CountPass ==
  ASSUME DTypeOK, WalkInv, PassInv, CountRegister
  PROVE  PassInv'
<1>1. /\ walk.at = "count" /\ ctx' = ctx /\ table' = table
      /\ walk'.at = "count" /\ walk'.m = walk.m /\ walk'.i = walk.i + 1 /\ walk'.j = walk.j
      /\ walk'.total = IF IsValid(Here) THEN walk.total + 1 ELSE walk.total
      /\ counted' = IF IsValid(Here) THEN counted \cup {Here} ELSE counted
  BY DEF CountRegister, DTypeOK, WalkRecords, Here
<1>2. Stored' = Stored
  BY <1>1, SameItems
<1>3. walk.m \in Nat /\ walk.i \in Nat /\ Here[1] = walk.m /\ Here[2] = walk.i
  BY WalkType DEF Here
<1>4. Here \notin counted /\ IsFiniteSet(counted)
  BY <1>1, HereNew DEF PassInv, OnceInv
<1>5. IsFiniteSet(counted')
  BY <1>1, <1>4, OneMore
<1>6. walk'.total = Cardinality(Of(counted', walk'.m))
  <2>1. walk.total = Cardinality(Of(counted, walk.m))
    BY <1>1 DEF PassInv, TotalInv
  <2>2. Cardinality(Of(counted \cup {Here}, walk.m)) = Cardinality(Of(counted, walk.m)) + 1
    BY <1>3, <1>4, OneMore
  <2> QED
    BY <1>1, <2>1, <2>2
<1>7. \A r \in counted' : CountedBy(walk', r)
  <2>1. \A r \in counted : CountedBy(walk', r)
    <3>1. \A r \in counted : CountedBy(walk, r) /\ r[2] \in Nat
      BY <1>1, RegLess DEF PassInv, OnceInv
    <3> QED
      BY <1>1, <1>3, <3>1 DEF CountedBy
  <2>2. CountedBy(walk', Here)
    BY <1>1, <1>3 DEF CountedBy
  <2> QED
    BY <1>1, <2>1, <2>2
<1>8. \A r \in Stored' : Passed(walk', r)
  BY <1>1, <1>2 DEF PassInv, OnceInv, Passed
<1>9. OnceInv'
  BY <1>1, <1>2, <1>5, <1>7, <1>8 DEF PassInv, OnceInv, CountedBy, Passed
<1>10. TotalInv'
  BY <1>1, <1>6 DEF PassInv, TotalInv, Of
<1> QED
  BY <1>1, <1>9, <1>10 DEF PassInv, RoomInv

LEMMA AllocatePass ==
  ASSUME DTypeOK, WalkInv, PassInv, Allocate
  PROVE  PassInv'
<1>1. /\ walk.at = "count" /\ table' = table /\ counted' = counted
      /\ walk'.at = "store" /\ walk'.m = walk.m /\ walk'.i = 0 /\ walk'.j = walk.j
      /\ walk'.total = walk.total /\ walk.j = 0
  BY DEF Allocate, DTypeOK, WalkRecords, Places, PassInv, TotalInv
<1>2. Metric.type \in Types /\ Metric' = Metric
  BY <1>1 DEF WalkInv, Metric
<1> DEFINE t == Metric.type
<1>3. PICK room \in IF ctx.room[t] = NoList THEN {NoList, walk.total}
                    ELSE {Len(ctx.list[t]) + walk.total} :
        ctx' = [ctx EXCEPT !.room[t] = room]
  BY DEF Allocate
<1>4. /\ ctx'.list = ctx.list /\ ctx'.room[t] = room
      /\ \A u \in Types : u # t => ctx'.room[u] = ctx.room[u]
  BY <1>2, <1>3 DEF DTypeOK, Contexts
<1>5. Stored' = Stored
  BY <1>4, SameItems
<1>6. Len(ctx.list[t]) \in Nat /\ walk.total \in Nat /\ NoList \notin Nat
  BY <1>2, ItemsType, WalkType, TableAssumption
<1>7. ctx.room[t] = NoList => ctx.list[t] = <<>> /\ Len(ctx.list[t]) = 0
  BY <1>2 DEF PassInv, RoomInv
<1>8. RoomInv'
  <2>1. room = NoList => ctx.list[t] = <<>>
    BY <1>3, <1>6, <1>7
  <2> QED
    BY <1>1, <1>4, <2>1 DEF PassInv, RoomInv
<1>9. room # NoList => Len(ctx.list[t]) + walk.total = room + 0
  BY <1>3, <1>6, <1>7
<1>10. \A r \in Stored : r[1] \in Nat /\ r[1] < walk.m
  BY <1>1, RegLess DEF PassInv, OnceInv, Passed
<1>11. Cardinality(Of(Stored, walk.m)) = 0
  BY <1>10, NoneOf, WalkType
<1>12. OnceInv'
  BY <1>1, <1>5, <1>10 DEF PassInv, OnceInv, Passed, CountedBy
<1>13. TotalInv'
  <2>1. walk'.j = Cardinality(Of(Stored', walk'.m))
    BY <1>1, <1>5, <1>11
  <2>2. walk'.total = Cardinality(Of(counted', walk'.m))
    BY <1>1 DEF PassInv, TotalInv
  <2>3. Room' # NoList => Len(ctx'.list[Metric'.type]) + walk'.total = Room' + walk'.j
    BY <1>1, <1>2, <1>4, <1>9 DEF Room
  <2> QED
    BY <1>1, <2>1, <2>2, <2>3 DEF TotalInv, Of
<1> QED
  BY <1>8, <1>12, <1>13 DEF PassInv

LEMMA SkipPass ==
  ASSUME DTypeOK, WalkInv, PassInv, SkipRegister
  PROVE  PassInv'
<1>1. /\ walk.at = "store" /\ ctx' = ctx /\ table' = table /\ counted' = counted
      /\ walk'.at = "store" /\ walk'.m = walk.m /\ walk'.i = walk.i + 1 /\ walk'.j = walk.j
      /\ walk'.total = walk.total
  BY DEF SkipRegister, DTypeOK, WalkRecords
<1>2. Stored' = Stored
  BY <1>1, SameItems
<1>3. walk.i \in Nat /\ Metric' = Metric
  BY <1>1, WalkType DEF Metric
<1>4. \A r \in Stored : Passed(walk', r)
  <2>1. \A r \in Stored : Passed(walk, r) /\ r[2] \in Nat
    BY <1>1, RegLess DEF PassInv, OnceInv
  <2> QED
    BY <1>1, <1>3, <2>1 DEF Passed
<1>5. OnceInv'
  BY <1>1, <1>2, <1>4 DEF PassInv, OnceInv, CountedBy, Passed
<1>6. TotalInv'
  BY <1>1, <1>2, <1>3 DEF PassInv, TotalInv, Of, Room
<1> QED
  BY <1>1, <1>5, <1>6 DEF PassInv, RoomInv

LEMMA StorePass ==
  ASSUME DTypeOK, WalkInv, PassInv, StoreRegister
  PROVE  PassInv'
<1>1. /\ walk.at = "store" /\ table' = table /\ counted' = counted /\ Room # NoList
      /\ walk'.at = "store" /\ walk'.m = walk.m /\ walk'.i = walk.i + 1
      /\ walk'.j = walk.j + 1 /\ walk'.total = walk.total
  BY DEF StoreRegister, Stores, DTypeOK, WalkRecords
<1>2. /\ walk.m \in Nat /\ walk.i \in Nat /\ walk.j \in Nat /\ walk.total \in Nat
      /\ Metric' = Metric /\ Here[1] = walk.m /\ Here[2] = walk.i
  BY <1>1, WalkType DEF Metric, Here
<1>3. /\ Metric.type \in Types /\ Stored' = Stored \cup {Here}
      /\ Len(ctx'.list[Metric.type]) = Len(ctx.list[Metric.type]) + 1
      /\ \A t \in Types : t # Metric.type => ctx'.list[t] = ctx.list[t]
      /\ ctx'.room = ctx.room
  BY StoreAdds
<1>4. Here \notin Stored /\ IsFiniteSet(Stored)
  BY <1>1, HereNew DEF PassInv, OnceInv
<1>5. /\ IsFiniteSet(Stored')
      /\ Cardinality(Of(Stored', walk.m)) = Cardinality(Of(Stored, walk.m)) + 1
  BY <1>2, <1>3, <1>4, OneMore
<1>6. \A r \in Stored' : Passed(walk', r)
  <2>1. \A r \in Stored : Passed(walk, r) /\ r[2] \in Nat
    BY <1>1, RegLess DEF PassInv, OnceInv
  <2>2. \A r \in Stored : Passed(walk', r)
    BY <1>1, <1>2, <2>1 DEF Passed
  <2>3. Passed(walk', Here)
    BY <1>1, <1>2 DEF Passed
  <2> QED
    BY <1>3, <2>2, <2>3
<1>7. OnceInv'
  BY <1>1, <1>5, <1>6 DEF PassInv, OnceInv, CountedBy, Passed
<1>8. Room' = Room
  BY <1>2, <1>3 DEF Room
<1>9. TotalInv'
  <2>1. walk'.total = Cardinality(Of(counted', walk'.m))
    BY <1>1 DEF PassInv, TotalInv
  <2>2. walk'.j = Cardinality(Of(Stored', walk'.m))
    BY <1>1, <1>5 DEF PassInv, TotalInv
  <2>3. Len(ctx.list[Metric.type]) + walk.total = Room + walk.j
    BY <1>1 DEF PassInv, TotalInv
  <2>4. Len(ctx.list[Metric.type]) \in Nat /\ Room \in Nat
    BY <1>1, <1>3, ItemsType, ContextType DEF Room
  <2>5. Len(ctx'.list[Metric'.type]) + walk'.total = Room' + walk'.j
    <3>1. Len(ctx'.list[Metric'.type]) = Len(ctx.list[Metric.type]) + 1
      BY <1>2, <1>3
    <3>2. walk'.total = walk.total /\ walk'.j = walk.j + 1 /\ Room' = Room
      BY <1>1, <1>8
    <3>3. PICK length \in Nat, room \in Nat, total \in Nat, j \in Nat :
            /\ length = Len(ctx.list[Metric.type]) /\ room = Room
            /\ total = walk.total /\ j = walk.j
      BY <1>2, <2>4
    <3>4. length + total = room + j
      BY <2>3, <3>3
    <3>5. (length + 1) + total = room + (j + 1)
      BY <3>4
    <3> QED
      BY <3>1, <3>2, <3>3, <3>5
  <2> QED
    BY <1>1, <2>1, <2>2, <2>5 DEF TotalInv, Of
<1>10. RoomInv'
  BY <1>1, <1>3 DEF PassInv, RoomInv, Room
<1> QED
  BY <1>7, <1>9, <1>10 DEF PassInv

LEMMA FinishPass ==
  ASSUME DTypeOK, WalkInv, PassInv, FinishMetric
  PROVE  PassInv'
<1>1. /\ walk.at = "store" /\ counted' = counted /\ ctx'.list = ctx.list /\ ctx'.room = ctx.room
      /\ walk'.at = "metric" /\ walk'.m = walk.m + 1
      /\ walk'.i = 0 /\ walk'.j = 0 /\ walk'.total = 0
  BY DEF FinishMetric, NextMetric, Off, DTypeOK, Contexts
<1>2. Stored' = Stored
  BY <1>1, SameItems
<1>3. \A r \in Stored \cup counted : r[1] \in Nat
  BY RegLess
<1>4. walk.m \in Nat
  BY WalkType
<1>5. \A r \in Stored : r[1] < walk.m + 1
  BY <1>1, <1>3, <1>4 DEF PassInv, OnceInv, Passed
<1>6. \A r \in counted : r[1] < walk.m + 1
  BY <1>1, <1>3, <1>4 DEF PassInv, OnceInv, CountedBy
<1>7. OnceInv'
  BY <1>1, <1>2, <1>5, <1>6 DEF PassInv, OnceInv, Passed, CountedBy
<1>8. TotalInv'
  BY <1>1 DEF TotalInv
<1> QED
  BY <1>1, <1>7, <1>8 DEF PassInv, RoomInv

LEMMA DriverPass ==
  ASSUME DTypeOK, WalkInv, PassInv, Driver
  PROVE  PassInv'
<1>1. CASE Probe \/ WalkEnds \/ SkipMetric \/ StartMetric \/ Register
             \/ \E r \in DOMAIN data : Charge(r)
  <2>1. ctx' = ctx
    BY <1>1 DEF Probe, WalkEnds, SkipMetric, StartMetric, Register, Charge
  <2> QED
    BY <1>1, <2>1, StridePass
<1>2. CASE ProbeFails \/ RegisterFails \/ Remove
  BY <1>2, UnloadPass DEF ProbeFails, RegisterFails, Remove
<1>3. CASE StoreFaults \/ RegisterFaults
  BY <1>3, OopsPass DEF StoreFaults, RegisterFaults, Stores
<1> QED
  BY <1>1, <1>2, <1>3, CountPass, AllocatePass, SkipPass, StorePass, FinishPass DEF Driver

------------------------------------------------------------------------------
(* Where a list outgrows its room *)

\* More of a metric are stored than were counted only by those not counted.
LEMMA StoredOfCounted ==
  ASSUME NEW S, NEW C, IsFiniteSet(S), IsFiniteSet(C), NEW m
  PROVE  /\ Cardinality(Of(S, m)) \in Nat /\ Cardinality(Of(C, m)) \in Nat
         /\ Cardinality(S \ C) \in Nat
         /\ Cardinality(Of(S, m)) <= Cardinality(Of(C, m)) + Cardinality(S \ C)
<1>1. IsFiniteSet(Of(S, m)) /\ IsFiniteSet(Of(C, m)) /\ IsFiniteSet(S \ C)
  BY FS_Subset DEF Of
<1>2. /\ Cardinality(Of(S, m)) \in Nat /\ Cardinality(Of(C, m)) \in Nat
      /\ Cardinality(S \ C) \in Nat
  BY <1>1, FS_CardinalityType
<1> DEFINE both == Of(S, m) \cap Of(C, m)
           only == Of(S, m) \ Of(C, m)
<1>3. Cardinality(only) = Cardinality(Of(S, m)) - Cardinality(both)
  BY <1>1, FS_Difference
<1>4. IsFiniteSet(both) /\ Cardinality(both) <= Cardinality(Of(C, m))
  BY <1>1, FS_Subset
<1>5. only \in SUBSET (S \ C)
  BY DEF Of
<1>6. IsFiniteSet(only) /\ Cardinality(only) <= Cardinality(S \ C)
  BY <1>1, <1>5, FS_Subset
<1>7. Cardinality(both) \in Nat /\ Cardinality(only) \in Nat
  BY <1>4, <1>6, FS_CardinalityType
<1> HIDE DEF both, only
<1> QED
  BY <1>2, <1>3, <1>4, <1>6, <1>7

LEMMA LateStored == Late = Stored \ counted
  BY DEF Late, Stored

LEMMA LateStoredNext == Late' = Stored' \ counted'
  BY DEF Late, Stored

\* The registers that turned valid behind the count are no fewer after a step,
\* unless all is freed.
LEMMA LateGrows ==
  ASSUME DTypeOK, WalkInv, PassInv, Driver, ctx' # NoContext
  PROVE  Late \subseteq Late'
<1>1. CASE CountRegister
  <2>1. walk.at = "count" /\ ctx' = ctx /\ counted' \subseteq counted \cup {Here}
    BY <1>1 DEF CountRegister, Here
  <2>2. Here \notin Stored
    BY <2>1, WalkType DEF PassInv, OnceInv, Passed, Here
  <2>3. Stored' = Stored
    BY <2>1, SameItems
  <2> QED
    BY <2>1, <2>2, <2>3, LateStored, LateStoredNext
<1>2. CASE StoreRegister
  <2>1. Stored' = Stored \cup {Here} /\ counted' = counted
    BY <1>2, StoreAdds DEF StoreRegister
  <2> QED
    BY <2>1, LateStored, LateStoredNext
<1>3. CASE Allocate \/ FinishMetric
  <2>1. ctx'.list = ctx.list /\ counted' = counted
    BY <1>3 DEF Allocate, FinishMetric, DTypeOK, Contexts
  <2>2. Stored' = Stored
    BY <2>1, SameItems
  <2> QED
    BY <2>1, <2>2, LateStored, LateStoredNext
<1>4. CASE ProbeFails \/ RegisterFails \/ Remove
  BY <1>4 DEF ProbeFails, RegisterFails, Remove, Unload
<1>5. CASE Probe
  BY <1>5 DEF Probe, PassInv, RoomInv
<1>6. CASE WalkEnds \/ SkipMetric \/ StartMetric \/ SkipRegister \/ StoreFaults \/ Register
           \/ RegisterFaults \/ \E r \in DOMAIN data : Charge(r)
  <2>1. ctx' = ctx /\ counted' = counted
    BY <1>6 DEF WalkEnds, SkipMetric, StartMetric, SkipRegister, StoreFaults, Register,
       RegisterFaults, Charge, Oops
  <2>2. Stored' = Stored
    BY <2>1, SameItems
  <2> QED
    BY <2>1, <2>2, LateStored, LateStoredNext
<1> QED
  BY <1>1, <1>2, <1>3, <1>4, <1>5, <1>6 DEF Driver

LEMMA FiniteLate ==
  ASSUME PassInv
  PROVE  IsFiniteSet(Late) /\ Cardinality(Late) \in Nat
<1>1. IsFiniteSet(Stored) /\ IsFiniteSet(counted)
  BY DEF PassInv, OnceInv
<1>2. IsFiniteSet(Stored \ counted)
  BY <1>1, FS_Difference
<1> QED
  BY <1>2, LateStored, FS_CardinalityType

LEMMA FiniteLateNext ==
  ASSUME PassInv'
  PROVE  IsFiniteSet(Late') /\ Cardinality(Late') \in Nat
<1>1. IsFiniteSet(Stored') /\ IsFiniteSet(counted')
  BY DEF PassInv, OnceInv
<1>2. IsFiniteSet(Stored' \ counted')
  BY <1>1, FS_Difference
<1> QED
  BY <1>2, LateStoredNext, FS_CardinalityType

LEMMA DriverBounds ==
  ASSUME DTypeOK, WalkInv, PassInv, StoresInBounds, Driver
  PROVE  StoresInBounds'
<1>1. PassInv' /\ DTypeOK'
  BY DriverPass, DriverTyped
<1>2. CASE ctx' = NoContext
  BY <1>2 DEF StoresInBounds, NoContext
<1>3. ASSUME ctx' # NoContext, NEW t \in Types, ctx'.list[t] = ctx.list[t],
             ctx'.room[t] = ctx.room[t]
      PROVE  ctx'.room[t] = NoList \/ Len(ctx'.list[t]) <= ctx'.room[t] + Cardinality(Late')
  <2>1. Late \in SUBSET Late'
    BY <1>3, LateGrows
  <2>2. Cardinality(Late) <= Cardinality(Late')
    BY <1>1, <2>1, FiniteLateNext, FS_Subset
  <2>3. ctx.room[t] = NoList \/ Len(ctx.list[t]) <= ctx.room[t] + Cardinality(Late)
    BY DEF StoresInBounds
  <2>4. /\ Cardinality(Late) \in Nat /\ Cardinality(Late') \in Nat /\ Len(ctx.list[t]) \in Nat
        /\ ctx.room[t] \in Nat \cup {NoList}
    BY <1>1, FiniteLate, FiniteLateNext, ItemsType, ContextType
  <2>5. CASE ctx.room[t] = NoList
    BY <1>3, <2>5
  <2>6. CASE ctx.room[t] \in Nat
    <3>1. Len(ctx.list[t]) <= ctx.room[t] + Cardinality(Late)
      BY <2>3, <2>6, TableAssumption
    <3> HIDE DEF Late
    <3>2. Len(ctx.list[t]) <= ctx.room[t] + Cardinality(Late')
      BY <2>2, <2>4, <2>6, <3>1
    <3> QED
      BY <1>3, <3>2
  <2> QED
    BY <2>4, <2>5, <2>6
<1>4. CASE StoreRegister
  <2>1. /\ walk'.at = "store" /\ Metric' = Metric /\ Metric.type \in Types
        /\ \A t \in Types : t # Metric.type => ctx'.list[t] = ctx.list[t]
        /\ ctx'.room = ctx.room
    BY <1>4, StoreAdds DEF StoreRegister, Stores, DTypeOK, WalkRecords, Metric
  <2> DEFINE m == walk'.m
  <2>2. /\ walk'.total = Cardinality(Of(counted', m)) /\ walk'.j = Cardinality(Of(Stored', m))
        /\ Room' # NoList => Len(ctx'.list[Metric'.type]) + walk'.total = Room' + walk'.j
    BY <1>1, <2>1 DEF PassInv, TotalInv, Of
  <2>3. /\ Cardinality(Of(Stored', m)) \in Nat /\ Cardinality(Of(counted', m)) \in Nat
        /\ Cardinality(Late') \in Nat
        /\ Cardinality(Of(Stored', m)) <= Cardinality(Of(counted', m)) + Cardinality(Late')
    BY <1>1, StoredOfCounted, LateStoredNext DEF PassInv, OnceInv
  <2>4. Room' \in Nat \cup {NoList} /\ Len(ctx'.list[Metric'.type]) \in Nat
    <3>1. ctx'.room \in [Types -> Nat \cup {NoList}]
      BY <1>1 DEF DTypeOK, Contexts
    <3>2. Len(ctx'.list[Metric.type]) = Len(ctx.list[Metric.type]) + 1
      BY <1>4, StoreAdds
    <3> QED
      BY <2>1, <3>1, <3>2, ItemsType DEF Room
  <2>5. Room' = NoList \/ Len(ctx'.list[Metric'.type]) <= Room' + Cardinality(Late')
    <3>1. CASE Room' # NoList
      <4>1. Len(ctx'.list[Metric'.type]) + walk'.total = Room' + walk'.j
        BY <2>2, <3>1
      <4>2. walk'.j <= walk'.total + Cardinality(Late') /\ walk'.j \in Nat /\ walk'.total \in Nat
        BY <2>2, <2>3
      <4>3. PICK length \in Nat, room \in Nat, late \in Nat, total \in Nat, j \in Nat :
              /\ length = Len(ctx'.list[Metric'.type]) /\ room = Room'
              /\ late = Cardinality(Late') /\ total = walk'.total /\ j = walk'.j
        BY <2>3, <2>4, <3>1, <4>2
      <4>4. length + total = room + j /\ j <= total + late
        BY <4>1, <4>2, <4>3
      <4>5. length <= room + late
        BY <4>4
      <4> QED
        BY <4>3, <4>5
    <3> QED
      BY <3>1
  <2>6. \A t \in Types : ctx'.room[t] = NoList
                         \/ Len(ctx'.list[t]) <= ctx'.room[t] + Cardinality(Late')
    BY <1>2, <1>3, <2>1, <2>5 DEF Room, StoresInBounds
  <2> QED
    BY <2>6 DEF StoresInBounds
<1>5. CASE Allocate /\ ctx' # NoContext
  <2> DEFINE t == Metric.type
  <2>1. t \in Types
    BY <1>5 DEF Allocate, WalkInv
  <2>2. PICK room \in IF ctx.room[t] = NoList THEN {NoList, walk.total}
                      ELSE {Len(ctx.list[t]) + walk.total} :
          ctx' = [ctx EXCEPT !.room[t] = room]
    BY <1>5 DEF Allocate
  <2>3. /\ ctx'.list = ctx.list /\ ctx'.room[t] = room
        /\ \A u \in Types : u # t => ctx'.room[u] = ctx.room[u]
    BY <2>1, <2>2 DEF DTypeOK, Contexts
  <2>4. /\ Len(ctx.list[t]) \in Nat /\ walk.total \in Nat /\ Cardinality(Late') \in Nat
        /\ ctx.room[t] = NoList => Len(ctx.list[t]) = 0
    BY <1>1, <2>1, ItemsType, WalkType, FiniteLateNext DEF PassInv, RoomInv
  <2>5. room = NoList \/ (room \in Nat /\ Len(ctx.list[t]) <= room)
    BY <2>2, <2>4
  <2>6. ctx'.room[t] = NoList \/ Len(ctx'.list[t]) <= ctx'.room[t] + Cardinality(Late')
    BY <2>3, <2>4, <2>5
  <2>7. \A u \in Types : ctx'.room[u] = NoList
                         \/ Len(ctx'.list[u]) <= ctx'.room[u] + Cardinality(Late')
    BY <1>3, <1>5, <2>3, <2>6
  <2> QED
    BY <2>7 DEF StoresInBounds
<1>6. CASE ctx'.list = ctx.list /\ ctx'.room = ctx.room
  <2>1. CASE ctx' # NoContext
    <3>1. \A t \in Types : ctx'.room[t] = NoList
                           \/ Len(ctx'.list[t]) <= ctx'.room[t] + Cardinality(Late')
      BY <1>3, <1>6, <2>1
    <3> QED
      BY <3>1 DEF StoresInBounds
  <2> QED
    BY <1>2, <2>1
<1>7. \/ ctx' = NoContext \/ StoreRegister \/ Allocate
      \/ ctx'.list = ctx.list /\ ctx'.room = ctx.room
  <2>1. CASE FinishMetric
    BY <2>1 DEF FinishMetric, DTypeOK, Contexts
  <2> QED
    BY <2>1 DEF Driver, Probe, WalkEnds, SkipMetric, StartMetric, CountRegister, ProbeFails,
       SkipRegister, StoreFaults, Register, RegisterFaults, RegisterFails, Remove, Charge,
       Unload, Oops
<1> QED
  BY <1>2, <1>4, <1>5, <1>6, <1>7

------------------------------------------------------------------------------
(* What an oops comes from *)

\* As long as the registers stored are the ones counted, there is space.
LEMMA FaultExplained ==
  ASSUME DTypeOK, WalkInv, PassInv, StoreFaults
  PROVE  Room = NoList \/ ~(Late \cup {Here} \subseteq counted)
<1> SUFFICES ASSUME Room # NoList, Late \cup {Here} \subseteq counted
             PROVE  FALSE
  OBVIOUS
<1>1. walk.at = "store" /\ ~HasSpace
  BY DEF StoreFaults, Stores
<1>2. /\ walk.total = Cardinality(Of(counted, walk.m)) /\ walk.j = Cardinality(Of(Stored, walk.m))
      /\ Len(ctx.list[Metric.type]) + walk.total = Room + walk.j
      /\ IsFiniteSet(Stored) /\ IsFiniteSet(counted)
  BY <1>1 DEF PassInv, TotalInv, OnceInv
<1>3. Stored \cup {Here} \subseteq counted /\ Here \notin Stored /\ Here[1] = walk.m
  BY <1>1, LateStored, HereNew DEF PassInv, Here
<1>4. Of(Stored \cup {Here}, walk.m) \in SUBSET Of(counted, walk.m)
  BY <1>3 DEF Of
<1>5. /\ Cardinality(Of(Stored \cup {Here}, walk.m)) = Cardinality(Of(Stored, walk.m)) + 1
      /\ Cardinality(Of(Stored, walk.m)) \in Nat
  BY <1>2, <1>3, OneMore
<1>6. IsFiniteSet(Of(counted, walk.m))
  BY <1>2, FS_Subset DEF Of
<1>7. Cardinality(Of(Stored \cup {Here}, walk.m)) <= Cardinality(Of(counted, walk.m))
  BY <1>4, <1>6, FS_Subset
<1>8. walk.j + 1 <= walk.total
  BY <1>2, <1>5, <1>7
<1>9. Metric.type \in Types
  BY <1>1 DEF WalkInv
<1>10. Len(ctx.list[Metric.type]) \in Nat /\ Room \in Nat
  BY <1>9, ItemsType, ContextType DEF Room
<1>11. Len(ctx.list[Metric.type]) < Room /\ walk.j < walk.total
  BY <1>2, <1>8, <1>10, WalkType
<1> QED
  BY <1>1, <1>11 DEF HasSpace

LEMMA DriverFaults ==
  ASSUME DTypeOK, WalkInv, PassInv, FaultsExplained, Driver
  PROVE  FaultsExplained'
<1>1. ASSUME walk'.m = walk.m, walk'.i = walk.i, UNCHANGED <<table, ctx, counted>>,
             Hollow \/ Room = NoList \/ ~(Late \cup {Here} \subseteq counted)
      PROVE  FaultsExplained'
  <2>1. Hollow' = Hollow /\ Room' = Room
    BY <1>1 DEF Hollow, Room, Metric
  <2>2. Late' = Late
    BY <1>1, SameItems, LateStored, LateStoredNext
  <2>3. Hollow' \/ Room' = NoList \/ ~(Late' \cup {<<walk'.m, walk'.i>>} \subseteq counted')
    BY <1>1, <2>1, <2>2 DEF Here
  <2> QED
    BY <2>3 DEF FaultsExplained
<1>2. CASE StoreFaults
  <2>1. walk'.m = walk.m /\ walk'.i = walk.i /\ UNCHANGED <<table, ctx, counted>>
    BY <1>2 DEF StoreFaults, Oops, DTypeOK, WalkRecords
  <2> QED
    BY <1>1, <1>2, <2>1, FaultExplained
<1>3. CASE RegisterFaults
  <2>1. walk'.m = walk.m /\ walk'.i = walk.i /\ UNCHANGED <<table, ctx, counted>> /\ Hollow
    BY <1>3 DEF RegisterFaults, Oops, DTypeOK, WalkRecords
  <2> QED
    BY <1>1, <2>1
<1>4. CASE \E r \in DOMAIN data : Charge(r)
  <2>1. walk' = walk /\ UNCHANGED <<table, ctx, counted>>
    BY <1>4 DEF Charge
  <2>2. CASE walk.at = "oops"
    <3>1. Hollow \/ Room = NoList \/ ~(Late \cup {Here} \subseteq counted)
      BY <2>2 DEF FaultsExplained, Here
    <3> QED
      BY <1>1, <2>1, <3>1
  <2>3. CASE walk.at # "oops"
    BY <2>1, <2>3 DEF FaultsExplained
  <2> QED
    BY <2>2, <2>3
<1>5. CASE walk'.at # "oops"
  BY <1>5 DEF FaultsExplained
<1>6. \/ StoreFaults \/ RegisterFaults \/ walk'.at # "oops"
      \/ \E r \in DOMAIN data : Charge(r)
  <2>1. CASE Probe \/ SkipMetric \/ FinishMetric
    <3>1. walk'.at = "metric"
      BY <2>1 DEF Probe, SkipMetric, FinishMetric, NextMetric, Off
    <3> QED
      BY <3>1
  <2>2. CASE WalkEnds \/ StartMetric \/ CountRegister \/ Allocate \/ SkipRegister
             \/ StoreRegister \/ Register
    BY <2>2 DEF WalkEnds, StartMetric, CountRegister, Allocate, SkipRegister, StoreRegister,
       Register, Stores, DTypeOK, WalkRecords
  <2>3. CASE ProbeFails \/ RegisterFails \/ Remove
    BY <2>3, OffType DEF ProbeFails, RegisterFails, Remove, Unload
  <2> QED
    BY <2>1, <2>2, <2>3 DEF Driver
<1> QED
  BY <1>2, <1>3, <1>4, <1>5, <1>6

------------------------------------------------------------------------------
(* Which register a label stands for *)

LEMMA NumbersCount ==
  ASSUME NEW i \in Nat
  PROVE  IsFiniteSet(0 .. i - 1) /\ Cardinality(0 .. i - 1) = i
<1>1. 0 \in Int /\ i - 1 \in Int
  OBVIOUS
<1>2. /\ IsFiniteSet(0 .. i - 1)
      /\ Cardinality(0 .. i - 1) = IF 0 > i - 1 THEN 0 ELSE (i - 1) - 0 + 1
  BY <1>1, FS_Interval
<1> QED
  BY <1>2

LEMMA SplitCount ==
  ASSUME NEW U, IsFiniteSet(U), NEW P \in SUBSET U
  PROVE  IsFiniteSet(P) /\ Cardinality(U) = Cardinality(P) + Cardinality(U \ P)
<1>1. IsFiniteSet(P) /\ IsFiniteSet(U \ P) /\ U \cap P = P
  BY FS_Subset, FS_Difference
<1>2. Cardinality(U \ P) = Cardinality(U) - Cardinality(U \cap P)
  BY FS_Difference
<1>3. Cardinality(U) \in Nat /\ Cardinality(P) \in Nat
  BY <1>1, FS_CardinalityType
<1> QED
  BY <1>1, <1>2, <1>3

LEMMA SameCount ==
  ASSUME NEW P, IsFiniteSet(P), NEW Q, NEW f \in [P -> Q],
         \A a, b \in P : f[a] = f[b] => a = b,
         \A q \in Q : \E p \in P : f[p] = q
  PROVE  Cardinality(Q) = Cardinality(P)
<1>1. f \in Surjection(P, Q)
  BY DEF Surjection
<1>2. f \in Injection(P, Q)
  BY DEF Injection, IsInjective
<1> QED
  BY <1>1, <1>2, FS_Surjection

\* Of the first i numbers, those that are stored are as many as their registers.
LEMMA SkippedCount ==
  ASSUME NEW S, NEW m, NEW i \in Nat,
         \A r \in Of(S, m) : r = <<r[1], r[2]>> /\ r[2] \in 0 .. i - 1
  PROVE  i = Cardinality(Of(S, m)) + Cardinality(Skipped(S, <<m, i>>))
<1> DEFINE numbers == 0 .. i - 1
           present == {k \in numbers : <<m, k>> \in S}
           pair    == [k \in present |-> <<m, k>>]
<1>1. IsFiniteSet(numbers) /\ Cardinality(numbers) = i
  BY NumbersCount
<1>2. present \in SUBSET numbers
  OBVIOUS
<1>3. \A k \in present : <<m, k>> \in Of(S, m)
  BY DEF Of
<1>4. pair \in [present -> Of(S, m)]
  BY <1>3
<1>5. \A a, b \in present : pair[a] = pair[b] => a = b
  OBVIOUS
<1>6. \A r \in Of(S, m) : \E k \in present : pair[k] = r
  <2>1. SUFFICES ASSUME NEW r \in Of(S, m) PROVE \E k \in present : pair[k] = r
    OBVIOUS
  <2>2. r = <<m, r[2]>> /\ r[2] \in numbers /\ r \in S
    BY <2>1 DEF Of
  <2>3. r[2] \in present
    BY <2>2
  <2> QED
    BY <2>2, <2>3
<1>7. Skipped(S, <<m, i>>) = numbers \ present
  BY DEF Skipped
<1> HIDE DEF pair, present, numbers
<1>8. IsFiniteSet(present) /\ Cardinality(numbers) = Cardinality(present) + Cardinality(numbers \ present)
  BY <1>1, <1>2, SplitCount
<1>9. Cardinality(Of(S, m)) = Cardinality(present)
  BY <1>4, <1>5, <1>6, <1>8, SameCount
<1> QED
  BY <1>1, <1>7, <1>8, <1>9

\* A sensor gets a label with the number of the sensors of its metric so far, and
\* those before it stay what they were.
LEMMA StoreLabels ==
  ASSUME DTypeOK, WalkInv, PassInv, LabelInv, StoreRegister
  PROVE  LabelInv'
<1>1. /\ walk.at = "store" /\ table' = table
      /\ Items' = Items \cup {Item} /\ Stored' = Stored \cup {Here}
  BY StoreAdds DEF StoreRegister, Stores
<1>2. /\ walk.m \in Nat /\ walk.i \in Nat /\ Here = <<walk.m, walk.i>>
      /\ Here[1] = walk.m /\ Here[2] = walk.i
  BY WalkType DEF Here
<1>3. \A r \in Stored : /\ Passed(walk, r) /\ r[1] \in Nat /\ r[2] \in Nat
                        /\ r = <<r[1], r[2]>>
  BY <1>1, ItemsType, RegType DEF PassInv, OnceInv
<1>4. \A r \in Stored \cup {Here} : Skipped(Stored', r) = Skipped(Stored, r)
  <2>1. SUFFICES ASSUME NEW r \in Stored \cup {Here}, NEW k \in 0 .. r[2] - 1
                 PROVE  <<r[1], k>> # Here
    BY <1>1 DEF Skipped
  <2>2. r[1] = walk.m => r[2] \in Nat /\ r[2] <= walk.i
    BY <1>1, <1>2, <1>3 DEF Passed
  <2>3. r[1] = walk.m => k < walk.i
    BY <1>2, <2>2
  <2> QED
    BY <1>2, <2>3
<1>5. ASSUME NEW item \in Items
      PROVE  /\ item.label[1] = table.metrics[item.reg[1]].label
             /\ item.reg[2] = item.label[2] + Cardinality(Skipped(Stored', item.reg))
  <2>1. item.reg \in Stored
    BY DEF Stored
  <2> QED
    BY <1>4, <2>1 DEF LabelInv
<1>6. /\ Item.label[1] = table.metrics[Item.reg[1]].label
      /\ Item.reg[2] = Item.label[2] + Cardinality(Skipped(Stored', Item.reg))
  <2>1. Item.reg = Here /\ Item.label[1] = Metric.label /\ Item.label[2] = walk.j
    BY DEF Item, Here
  <2>2. Metric.label = table.metrics[Here[1]].label
    BY <1>2 DEF Metric
  <2>3. \A r \in Of(Stored, walk.m) : r = <<r[1], r[2]>> /\ r[2] \in 0 .. walk.i - 1
    BY <1>1, <1>2, <1>3 DEF Of, Passed
  <2>4. walk.i = Cardinality(Of(Stored, walk.m)) + Cardinality(Skipped(Stored, <<walk.m, walk.i>>))
    BY <1>2, <2>3, SkippedCount DEF PassInv, OnceInv
  <2>5. walk.j = Cardinality(Of(Stored, walk.m))
    BY <1>1 DEF PassInv, TotalInv
  <2>6. Skipped(Stored', Here) = Skipped(Stored, <<walk.m, walk.i>>)
    BY <1>2, <1>4
  <2>7. Here[2] = walk.j + Cardinality(Skipped(Stored', Here))
    BY <1>2, <2>4, <2>5, <2>6
  <2> QED
    BY <2>1, <2>2, <2>7
<1>7. \A item \in Items' :
        /\ item.label[1] = table'.metrics[item.reg[1]].label
        /\ item.reg[2] = item.label[2] + Cardinality(Skipped(Stored', item.reg))
  BY <1>1, <1>5, <1>6
<1> QED
  BY <1>7 DEF LabelInv, Skipped

LEMMA DriverLabels ==
  ASSUME DTypeOK, WalkInv, PassInv, LabelInv, Driver
  PROVE  LabelInv'
<1>1. CASE ctx'.list = ctx.list
  <2>1. table' = table
    BY DEF Driver, Probe, WalkEnds, SkipMetric, StartMetric, CountRegister, Allocate,
       ProbeFails, SkipRegister, StoreRegister, StoreFaults, FinishMetric, Register,
       RegisterFaults, RegisterFails, Remove, Charge, Unload, Oops
  <2>2. Items' = Items /\ Stored' = Stored
    BY <1>1, SameItems
  <2> QED
    BY <2>1, <2>2 DEF LabelInv, Skipped
<1>2. CASE ctx' = NoContext
  BY <1>2, NoItemsNext DEF LabelInv
<1>3. ctx'.list = ctx.list \/ ctx' = NoContext \/ StoreRegister
  <2>1. CASE Allocate \/ FinishMetric
    BY <2>1 DEF Allocate, FinishMetric, DTypeOK, Contexts
  <2> QED
    BY <2>1 DEF Driver, Probe, WalkEnds, SkipMetric, StartMetric, CountRegister, ProbeFails,
       SkipRegister, StoreFaults, Register, RegisterFaults, RegisterFails, Remove, Charge,
       Unload, Oops
<1> QED
  BY <1>1, <1>2, <1>3, StoreLabels

------------------------------------------------------------------------------
(* What the reader reads *)

\* What was read in this load through a path of this load was read while the label
\* was right, and it still is.
ReadInv ==
  \A n \in DOMAIN readings :
    readings[n].load = Load /\ readings[n].path = Load => IsLabelled

LEMMA NotZero ==
  ASSUME DTypeOK, RTypeOK, NEW p \in {NoPath} \cup 1 .. MaxLoads, p = Load
  PROVE  walk.at = "on" /\ Load = loads
<1>1. Load # 0
  BY LoadType, CoreAssumption
<1> QED
  BY <1>1 DEF Load

LEMMA DriverReads ==
  ASSUME HwInv, ReadInv, Driver, UNCHANGED <<core, paths, call, readings>>
  PROVE  ReadInv'
<1>1. \A n \in DOMAIN readings : /\ readings[n].path \in {NoPath} \cup 1 .. MaxLoads
                                 /\ Fresh(readings[n].load, loads, walk.at)
  BY ReadingType DEF HwInv, WarmInv, ReadingRecords
<1>2. CASE walk'.at # "on"
  <2>1. Load' = 0
    BY <1>2 DEF Load
  <2> QED
    BY <1>1, <2>1, CoreAssumption DEF ReadInv
<1>3. CASE walk'.at = "on" /\ walk.at = "register"
  <2>1. Load' = loads
    BY <1>3, DriverOn DEF Load, HwInv
  <2>2. \A n \in DOMAIN readings : readings[n].load # loads
    BY <1>1, <1>3, NotFresh DEF HwInv
  <2> QED
    BY <2>1, <2>2 DEF ReadInv
<1>4. CASE walk'.at = "on" /\ walk.at # "register"
  <2>1. UNCHANGED <<walk, ctx, loads, core>>
    BY <1>4, DriverOn DEF HwInv
  <2>2. IsLabelled' = IsLabelled /\ Load' = Load
    BY <2>1, SensorsStay
  <2> QED
    BY <2>2 DEF ReadInv
<1> QED
  BY <1>2, <1>3, <1>4

LEMMA ReaderReads ==
  ASSUME HwInv, ReadInv, Reader, UNCHANGED <<driverVars, core>>
  PROVE  ReadInv'
<1>1. IsLabelled' = IsLabelled /\ Load' = Load
  <2>1. UNCHANGED <<walk, ctx, loads, core>>
    BY DEF driverVars
  <2> QED
    BY <2>1, SensorsStay
<1>2. CASE UNCHANGED readings
  BY <1>1, <1>2 DEF ReadInv
<1>3. ASSUME NEW kind, NEW reg, NEW value, Return(kind, reg, value)
      PROVE  ReadInv'
  <2>1. PICK new : /\ readings' = Append(readings, new)
                   /\ new.load = Load /\ new.path = call.path
    BY <1>3 DEF Return
  <2>2. new.path = Load => IsLabelled
    BY <2>1, CallType, NotZero DEF HwInv, PathInv
  <2>3. \A n \in DOMAIN readings' : (n \in DOMAIN readings /\ readings'[n] = readings[n])
                                    \/ readings'[n] = new
    BY <2>1 DEF HwInv, RTypeOK
  <2> QED
    BY <1>1, <2>1, <2>2, <2>3 DEF ReadInv
<1> QED
  BY <1>2, <1>3 DEF Reader, CallRead, LoadPath, FindDevice, ReadLabel, OpenFile, OpenFails,
     ScanEnergy, ScanFails

LEMMA CoreFromLabel ==
  ASSUME HwInv, LabelInv, ReadInv
  PROVE  ReadsItsCore
<1> SUFFICES ASSUME NEW n \in DOMAIN readings, readings[n].kind = "energy",
                    readings[n].load = Load, readings[n].path = readings[n].load
             PROVE  /\ table.metrics[readings[n].reg[1]].label = "core"
                    /\ readings[n].reg[2] = core + Cardinality(Skipped(Stored, readings[n].reg))
  BY DEF ReadsItsCore, Skipped, Stored
<1>1. readings[n].path \in {NoPath} \cup 1 .. MaxLoads
  BY ReadingType DEF HwInv, ReadingRecords
<1>2. Load # 0 /\ IsLabelled
  BY <1>1, LoadType, CoreAssumption DEF ReadInv, HwInv
<1>3. HasSensor("energy", core) /\ readings[n].reg = Sensor("energy", core).reg
  BY <1>2 DEF HwInv, WarmInv, Gives
<1>4. Sensor("energy", core) \in Items
  <2>1. core \in Nat /\ core < Len(ctx.list["energy"])
    BY <1>3, CoreAssumption DEF HwInv, RTypeOK, HasSensor
  <2>2. ctx.list["energy"] \in Seq(ItemRecords)
    BY ContextType DEF HwInv, Types
  <2>3. core + 1 \in DOMAIN ctx.list["energy"]
    BY <2>1, <2>2
  <2> QED
    BY <2>3 DEF Items, Sensor, Types
<1>5. Sensor("energy", core).label = <<"core", core>>
  BY <1>2 DEF IsLabelled
<1> QED
  BY <1>3, <1>4, <1>5 DEF LabelInv

------------------------------------------------------------------------------
(* The invariant, and the theorems *)

SensorInv == PassInv /\ StoresInBounds /\ FaultsExplained /\ LabelInv /\ ReadInv

LEMMA SensorInit == HwmonInit => SensorInv
<1> SUFFICES ASSUME HwmonInit PROVE SensorInv
  OBVIOUS
<1>1. DriverInit /\ readings = <<>>
  BY DEF HwmonInit
<1>2. StoresInBounds
  BY <1>1 DEF DriverInit, NoContext, StoresInBounds
<1>3. FaultsExplained
  BY <1>1, OffType DEF DriverInit, FaultsExplained
<1>4. ReadInv
  BY <1>1 DEF ReadInv
<1> QED
  BY <1>1, <1>2, <1>3, <1>4, InitPass DEF SensorInv

LEMMA SensorSame ==
  ASSUME SensorInv, UNCHANGED driverVars
  PROVE  PassInv' /\ StoresInBounds' /\ FaultsExplained' /\ LabelInv'
<1>1. UNCHANGED <<table, data, loads, walk, ctx, counted>>
  BY DEF driverVars
<1>2. Items' = Items /\ Stored' = Stored /\ Late' = Late
  BY <1>1, SameItems, LateStored, LateStoredNext
<1>3. Room' = Room /\ Hollow' = Hollow /\ Metric' = Metric
  BY <1>1 DEF Room, Hollow, Metric
<1>4. PassInv'
  BY <1>1, <1>2, <1>3 DEF SensorInv, PassInv, RoomInv, OnceInv, TotalInv, Passed, CountedBy, Of
<1>5. StoresInBounds' /\ FaultsExplained'
  BY <1>1, <1>2, <1>3 DEF SensorInv, StoresInBounds, FaultsExplained
<1>6. LabelInv'
  BY <1>1, <1>2 DEF SensorInv, LabelInv, Skipped
<1> QED
  BY <1>4, <1>5, <1>6

LEMMA SensorNext == HwInv /\ SensorInv /\ [HwmonNext]_hwmonVars => SensorInv'
<1> SUFFICES ASSUME HwInv, SensorInv, [HwmonNext]_hwmonVars PROVE SensorInv'
  OBVIOUS
<1>1. CASE Driver /\ UNCHANGED <<core, paths, call, readings>>
  BY <1>1, DriverPass, DriverBounds, DriverFaults, DriverLabels, DriverReads DEF HwInv, SensorInv
<1>2. CASE Reader
  <2>1. UNCHANGED <<driverVars, core>>
    BY <1>2, ReaderTyped DEF HwInv
  <2> QED
    BY <1>2, <2>1, SensorSame, ReaderReads DEF SensorInv
<1>3. CASE UNCHANGED hwmonVars
  <2>1. UNCHANGED driverVars /\ UNCHANGED <<walk, ctx, loads, core, readings>>
    BY <1>3 DEF hwmonVars, driverVars
  <2>2. ReadInv'
    BY <2>1, SensorsStay DEF SensorInv, ReadInv
  <2> QED
    BY <2>1, <2>2, SensorSame DEF SensorInv
<1> QED
  BY <1>1, <1>2, <1>3 DEF HwmonNext

LEMMA SensorAlways == HwmonSpec => [](HwInv /\ SensorInv)
  BY HwInvInit, HwInvNext, SensorInit, SensorNext, PTL DEF HwmonSpec

\* However the registers change between the two passes of altra_create_sensor, a
\* list of sensors is longer than its allocation by no more than the registers
\* that turned valid behind the count.
THEOREM StoresBounded == HwmonSpec => []StoresInBounds
<1>1. SensorInv => StoresInBounds
  BY DEF SensorInv
<1> QED
  BY <1>1, SensorAlways, PTL

\* A probe faults only over a metric without a valid register, a first list that
\* was not allocated, or a register that turned valid behind the count.
THEOREM OopsExplained == HwmonSpec => []FaultsExplained
<1>1. SensorInv => FaultsExplained
  BY DEF SensorInv
<1> QED
  BY <1>1, SensorAlways, PTL

\* What the reader reads through a path of this load is a register of the cores'
\* metric, above the core's by the registers below it that the probe left out.
THEOREM CoreRead == HwmonSpec => []ReadsItsCore
<1>1. HwInv /\ SensorInv => ReadsItsCore
  BY CoreFromLabel DEF SensorInv
<1> QED
  BY <1>1, SensorAlways, PTL
===============================================================================
