------------------------ MODULE PluginLifecycle_proofs ------------------------
(***************************************************************************)
(* Theorems about PluginLifecycle for every set of operations, versions    *)
(* and types. IInv has four parts: the tasks, the database, the memory of  *)
(* the gateway, and the rest. On it rest RInv, what a start repairs, and   *)
(* SInv, what the registry serves, for which Moves says what the step of a *)
(* task changes.                                                           *)
(***************************************************************************)
EXTENDS PluginLifecycle, TLAPS

\* A task under way knows its version, and waits for a placeholder of some type.
GoodRow == {r \in TaskRow : /\ r.pc \notin {"idle", "done"} => r.version \in Versions
                            /\ r.pc = "undo" => r.todo # <<>>}

OpsOk == op \in [Tasks -> GoodRow]

DbOk ==
  /\ plugin \in PluginRow
  /\ status \in [Versions -> {"none", "installed", "active", "retired"}]
  /\ typeRow \in [Types -> {"none", "available", "unavailable"}]
  /\ ActiveIsCurrent

MemoryOk ==
  /\ kind \in [Types -> Kinds] /\ before \in [Types -> Kinds]
  /\ pools \in Tasks \cup {None}
  /\ pool \in [Tasks -> [version : Versions \cup {None}, open : BOOLEAN]]

RestOk ==
  /\ used \subseteq Types /\ files \subseteq Versions
  /\ last \in Tasks /\ history \subseteq Flags
  /\ faults \in 0..MaxFaults /\ crashes \in 0..MaxCrashes

IInv == OpsOk /\ DbOk /\ MemoryOk /\ RestOk

-----------------------------------------------------------------------------
(* Rows of op *)

LEMMA OpStep ==
  ASSUME OpsOk, NEW o \in Tasks, NEW r \in GoodRow, op' = [op EXCEPT ![o] = r]
  PROVE  OpsOk'
BY DEF OpsOk

LEMMA RowParts ==
  ASSUME OpsOk, NEW o \in Tasks
  PROVE  /\ op[o] \in GoodRow /\ op[o] \in TaskRow
         /\ op[o].act \in {"enable", "disable", "switch", "uninstall"}
         /\ op[o].todo \in Seq(Types)
         /\ op[o].old \in Tasks \cup {None}
         /\ op[o].displaced \in [Types -> Kinds]
         /\ op[o].revision \in Nat
         /\ Running(o) => op[o].version \in Versions
BY DEF OpsOk, GoodRow, TaskRow, Running

LEMMA TaskType ==
  ASSUME NEW act \in {"enable", "disable", "switch", "uninstall"}, NEW point \in Points,
         NEW v \in Versions \cup {None}, NEW n \in Nat, NEW result \in {"none", "ok", "failed"},
         point \notin {"idle", "done"} => v \in Versions, point # "undo"
  PROVE  Task(act, point, v, n, result) \in GoodRow
<1>1. [t \in Types |-> None] \in [Types -> Kinds]
  BY DEF Kinds
<1>2. <<>> \in Seq(Types)
  OBVIOUS
<1> QED
  BY <1>1, <1>2 DEF GoodRow, TaskRow, Task

LEMMA EndedRow ==
  ASSUME OpsOk, NEW o \in Tasks, NEW result \in {"ok", "failed"}
  PROVE  Ended(o, result) \in GoodRow
BY RowParts, TaskType DEF Ended, Points

LEMMA SucceedOk ==
  ASSUME OpsOk, NEW o \in Tasks, Succeed(o)
  PROVE  OpsOk'
BY EndedRow, OpStep DEF Succeed

LEMMA FailOk ==
  ASSUME OpsOk, RestOk, NEW o \in Tasks, NEW flags \in SUBSET Flags, Fail(o, flags)
  PROVE  OpsOk' /\ history' \subseteq Flags
BY EndedRow, OpStep DEF Fail, RestOk

LEMMA GotoOk ==
  ASSUME OpsOk, NEW o \in Tasks, Running(o), NEW point \in Points \ {"undo"}, Goto(o, point)
  PROVE  OpsOk'
<1>1. [op[o] EXCEPT !.pc = point] \in GoodRow
  BY RowParts DEF GoodRow, TaskRow
<1> QED
  BY <1>1, OpStep DEF Goto

-----------------------------------------------------------------------------
(* The transactions *)

LEMMA ActivatedType ==
  ASSUME DbOk, NEW v \in Versions
  PROVE  /\ Activated(v) \in [Versions -> {"none", "installed", "active", "retired"}]
         /\ Activated(v)[v] = "active"
         /\ \A w \in Versions : Activated(v)[w] = "active" => w = v
BY DEF DbOk, Activated

LEMMA DbSame ==
  ASSUME DbOk, UNCHANGED dbVars
  PROVE  DbOk'
BY DEF DbOk, dbVars, ActiveIsCurrent, Enabled

LEMMA MarkEnabledDb ==
  ASSUME OpsOk, DbOk, NEW o \in Tasks, Running(o), _mark_enabled(o)
  PROVE  DbOk'
<1>1. op[o].version \in Versions
  BY RowParts
<1>2. plugin.live \in BOOLEAN /\ plugin.revision \in Nat
  BY DEF DbOk, PluginRow
<1>3. plugin' = [live |-> plugin.live, expected |-> "enabled", current |-> op[o].version,
                 revision |-> plugin.revision + 1]
  BY DEF DbOk, PluginRow, _mark_enabled
<1>4. plugin' \in PluginRow
  BY <1>1, <1>2, <1>3 DEF PluginRow
<1>5. typeRow' \in [Types -> {"none", "available", "unavailable"}]
  BY DEF DbOk, _mark_enabled
<1>6. status' = Activated(op[o].version)
  BY DEF _mark_enabled
<1>7. ActiveIsCurrent'
  <2>1. plugin'.current = op[o].version
    BY <1>3
  <2>2. op[o].version # None
    BY <1>1, LifecycleAssumption
  <2> QED
    BY <1>1, <1>6, <2>1, <2>2, ActivatedType DEF ActiveIsCurrent
<1> QED
  BY <1>1, <1>4, <1>5, <1>6, <1>7, ActivatedType DEF DbOk

LEMMA SwitchVersionDb ==
  ASSUME OpsOk, DbOk, NEW o \in Tasks, Running(o), _switch_version(o)
  PROVE  DbOk' /\ plugin'.revision \in Nat
<1>1. op[o].version \in Versions
  BY RowParts
<1>2. plugin.live \in BOOLEAN /\ plugin.revision \in Nat /\ plugin.expected \in {"enabled", "disabled"}
  BY DEF DbOk, PluginRow
<1>3. plugin' = [live |-> plugin.live, expected |-> plugin.expected, current |-> op[o].version,
                 revision |-> plugin.revision + 1]
  BY DEF DbOk, PluginRow, _switch_version
<1>4. plugin' \in PluginRow
  BY <1>1, <1>2, <1>3 DEF PluginRow
<1>5. typeRow' = typeRow /\ status' = Activated(op[o].version)
  BY DEF _switch_version
<1>6. ActiveIsCurrent'
  <2>1. plugin'.current = op[o].version
    BY <1>3
  <2>2. op[o].version # None
    BY <1>1, LifecycleAssumption
  <2> QED
    BY <1>1, <1>5, <2>1, <2>2, ActivatedType DEF ActiveIsCurrent
<1> QED
  BY <1>1, <1>2, <1>3, <1>4, <1>5, <1>6, ActivatedType DEF DbOk

LEMMA MarkDisabledDb ==
  ASSUME DbOk, _mark_disabled
  PROVE  DbOk'
<1>1. plugin' = [live |-> plugin.live, expected |-> "disabled", current |-> plugin.current,
                 revision |-> plugin.revision + 1]
  BY DEF DbOk, PluginRow, _mark_disabled
<1>2. plugin.live \in BOOLEAN /\ plugin.revision \in Nat /\ plugin.current \in Versions \cup {None}
  BY DEF DbOk, PluginRow
<1>3. plugin' \in PluginRow
  BY <1>1, <1>2 DEF PluginRow
<1>4. /\ status' \in [Versions -> {"none", "installed", "active", "retired"}]
      /\ \A v \in Versions : status'[v] # "active"
  BY DEF DbOk, _mark_disabled
<1>5. typeRow' \in [Types -> {"none", "available", "unavailable"}]
  BY DEF DbOk, _mark_disabled
<1>6. ActiveIsCurrent'
  <2>1. plugin'.expected = "disabled"
    BY <1>1
  <2> QED
    BY <1>4, <2>1 DEF ActiveIsCurrent, Enabled
<1> QED
  BY <1>3, <1>4, <1>5, <1>6 DEF DbOk

LEMMA DeletePluginDb ==
  ASSUME DbOk, _delete_plugin
  PROVE  DbOk'
<1>1. plugin' = [live |-> FALSE, expected |-> "disabled", current |-> None,
                 revision |-> plugin.revision]
  BY DEF DbOk, PluginRow, _delete_plugin
<1>2. plugin.revision \in Nat
  BY DEF DbOk, PluginRow
<1>3. plugin' \in PluginRow
  BY <1>1, <1>2 DEF PluginRow
<1>4. /\ status' \in [Versions -> {"none", "installed", "active", "retired"}]
      /\ \A v \in Versions : status'[v] # "active"
  BY DEF _delete_plugin
<1>5. typeRow' \in [Types -> {"none", "available", "unavailable"}]
  BY DEF _delete_plugin
<1>6. ActiveIsCurrent'
  <2>1. plugin'.expected = "disabled"
    BY <1>1
  <2> QED
    BY <1>4, <2>1 DEF ActiveIsCurrent, Enabled
<1> QED
  BY <1>3, <1>4, <1>5, <1>6 DEF DbOk

-----------------------------------------------------------------------------
(* What a step leaves alone *)

LEMMA RestSame ==
  ASSUME RestOk, taskFrame, history' \subseteq Flags
  PROVE  RestOk'
BY DEF RestOk, taskFrame, worldVars

LEMMA MemorySame ==
  ASSUME MemoryOk, UNCHANGED <<kind, pools, pool, before>>
  PROVE  MemoryOk'
BY DEF MemoryOk

LEMMA MemoryStep ==
  ASSUME MemoryOk, before' = before, kind' \in [Types -> Kinds], pools' \in Tasks \cup {None},
         pool' \in [Tasks -> [version : Versions \cup {None}, open : BOOLEAN]]
  PROVE  MemoryOk'
BY DEF MemoryOk

LEMMA ClosedType ==
  ASSUME MemoryOk, NEW p
  PROVE  Closed(p) \in [Tasks -> [version : Versions \cup {None}, open : BOOLEAN]]
BY DEF MemoryOk, Closed

LEMMA BehindType ==
  ASSUME NEW o \in Tasks
  PROVE  Behind(o) \in SUBSET Flags
BY DEF Behind, Flags

-----------------------------------------------------------------------------
(* The actions *)

LEMMA BeginStep ==
  ASSUME IInv, NEW o \in Ops, NEW act \in {"enable", "disable", "switch", "uninstall"},
         NEW point \in Points \ {"undo"}, NEW v \in Versions, Begin(o, act, point, v)
  PROVE  IInv'
<1> USE DEF IInv
<1>1. o \in Tasks
  BY DEF Tasks
<1>2. plugin.revision \in Nat
  BY DEF DbOk, PluginRow
<1>3. OpsOk'
  <2>1. Task(act, point, v, plugin.revision, "none") \in GoodRow
    BY <1>2, TaskType
  <2>2. Task(act, "done", None, 0, "failed") \in GoodRow
    BY TaskType DEF Points
  <2> QED
    BY <1>1, <2>1, <2>2, OpStep DEF Begin
<1>4. DbOk'
  BY DbSame DEF Begin
<1>5. MemoryOk'
  BY DEF Begin, MemoryOk
<1>6. RestOk'
  BY <1>1 DEF Begin, RestOk, worldVars, Flags
<1> QED
  BY <1>3, <1>4, <1>5, <1>6

LEMMA RegisterStep ==
  ASSUME IInv, NEW o \in Tasks, Register(o)
  PROVE  IInv'
<1> USE DEF IInv
<1>1. op[o].version \in Versions
  BY RowParts DEF Register, Running
<1>2. OpsOk'
  <2>1. pools \in Tasks \cup {None}
    BY DEF MemoryOk
  <2>2. [[op[o] EXCEPT !.pc = "mark"] EXCEPT !.old = pools] \in GoodRow
    BY <1>1, <2>1, RowParts DEF GoodRow, TaskRow, Points
  <2>3. op' = [op EXCEPT ![o] = [[op[o] EXCEPT !.pc = "mark"] EXCEPT !.old = pools]]
    BY DEF Register, OpsOk
  <2> QED
    BY <2>2, <2>3, OpStep
<1>3. DbOk'
  BY DbSame DEF Register
<1>4. MemoryOk'
  <2>1. kind' \in [Types -> Kinds]
    BY DEF Register, MemoryOk, Kinds
  <2>2. pool' \in [Tasks -> [version : Versions \cup {None}, open : BOOLEAN]]
    BY <1>1 DEF Register, MemoryOk
  <2> QED
    BY <2>1, <2>2, MemoryStep DEF Register, taskFrame
<1>5. RestOk'
  BY RestSame DEF Register, RestOk
<1> QED
  BY <1>2, <1>3, <1>4, <1>5

LEMMA RefusedStep ==
  ASSUME IInv, NEW o \in Tasks, Refused(o)
  PROVE  IInv'
<1> USE DEF IInv
<1>1. op[o].version \in Versions
  BY RowParts DEF Refused, Running
<1> DEFINE order == TypesOf[op[o].version]
           taken(n) == {order[i] : i \in 1..n}
           gone(n) == [t \in Types |-> IF t \in taken(n) THEN kind[t] ELSE None]
           row(n) == [[[op[o] EXCEPT !.pc = "restore"] EXCEPT !.todo = SubSeq(order, 1, n)]
                         EXCEPT !.displaced = gone(n)]
<1>2. order \in Seq(Types)
  BY <1>1, LifecycleAssumption
<1>3. PICK n \in 0..(Len(order) - 1) :
        /\ kind' = [t \in Types |-> IF t \in taken(n) THEN o ELSE kind[t]]
        /\ op' = [op EXCEPT ![o] = row(n)]
  BY DEF Refused, OpsOk
<1>4. OpsOk'
  <2>1. SubSeq(order, 1, n) \in Seq(Types)
    BY <1>2
  <2>2. gone(n) \in [Types -> Kinds]
    BY DEF MemoryOk, Kinds
  <2> HIDE DEF gone, order
  <2>3. row(n) \in GoodRow
    BY <1>1, <2>1, <2>2, RowParts DEF GoodRow, TaskRow, Points
  <2> HIDE DEF row
  <2> QED
    BY <1>3, <2>3, OpStep
<1>5. DbOk'
  BY DbSame DEF Refused
<1>6. MemoryOk'
  <2>1. kind' \in [Types -> Kinds]
    BY <1>3 DEF MemoryOk, Kinds
  <2>2. pool' \in [Tasks -> [version : Versions \cup {None}, open : BOOLEAN]]
    BY <1>1 DEF Refused, MemoryOk
  <2> QED
    BY <2>1, <2>2, MemoryStep DEF Refused, taskFrame, MemoryOk
<1>7. RestOk'
  BY RestSame DEF Refused, RestOk
<1> QED
  BY <1>4, <1>5, <1>6, <1>7

LEMMA StartFailsStep ==
  ASSUME IInv, NEW o \in Tasks, StartFails(o)
  PROVE  IInv'
<1> USE DEF IInv
<1>1. OpsOk' /\ history' \subseteq Flags
  BY FailOk, BehindType DEF StartFails
<1> QED
  BY <1>1, DbSame, MemorySame, RestSame DEF StartFails, taskFrame

\* The task only drops the type it has dealt with.
LEMMA NextType ==
  ASSUME OpsOk, NEW o \in Tasks, op[o].pc = "restore", op[o].todo # <<>>,
         op' = [op EXCEPT ![o].todo = Tail(@)]
  PROVE  OpsOk'
<1>1. Tail(op[o].todo) \in Seq(Types)
  BY RowParts
<1>2. [op[o] EXCEPT !.todo = Tail(op[o].todo)] \in GoodRow
  BY <1>1, RowParts DEF GoodRow, TaskRow
<1> QED
  BY <1>2, OpStep

LEMMA RestoreStep ==
  ASSUME IInv, NEW o \in Tasks, Restore(o)
  PROVE  IInv'
<1> USE DEF IInv
<1>1. DbOk'
  BY DbSame DEF Restore
<1>2. OpsOk' /\ history' \subseteq Flags
  <2>1. CASE Fail(o, {"halfway", "unwound"})
    BY <2>1, FailOk DEF Flags
  <2>2. CASE op' = [op EXCEPT ![o].todo = Tail(@)] /\ UNCHANGED history
    BY <2>2, NextType DEF Restore, RestOk
  <2> QED
    BY <2>1, <2>2 DEF Restore
<1>3. MemoryOk'
  <2>1. kind' \in [Types -> Kinds]
    BY DEF Restore, MemoryOk, Kinds
  <2> QED
    BY <2>1 DEF Restore, taskFrame, MemoryOk
<1> QED
  BY <1>1, <1>2, <1>3, RestSame DEF Restore

LEMMA ReinstateStep ==
  ASSUME IInv, NEW o \in Tasks, Reinstate(o)
  PROVE  IInv'
<1> USE DEF IInv
<1>1. PICK flags \in SUBSET Flags : Fail(o, flags)
  BY BehindType DEF Reinstate, Flags
<1>2. OpsOk' /\ history' \subseteq Flags
  BY <1>1, FailOk
<1>3. kind' \in [Types -> Kinds]
  <2>1. PICK back : kind' = [t \in Types |-> IF t \in back THEN op[o].displaced[t] ELSE kind[t]]
    BY DEF Reinstate
  <2>2. op[o].displaced \in [Types -> Kinds]
    BY RowParts
  <2> QED
    BY <2>1, <2>2 DEF MemoryOk
<1>4. MemoryOk'
  BY <1>3 DEF Reinstate, taskFrame, MemoryOk
<1> QED
  BY <1>2, <1>4, DbSame, RestSame DEF Reinstate

LEMMA MarkEnabledStep ==
  ASSUME IInv, NEW o \in Tasks, MarkEnabled(o)
  PROVE  IInv'
<1> USE DEF IInv
<1>1. Running(o)
  BY DEF MarkEnabled, Running
<1>2. CASE RowCurrent(o)
  <2>1. DbOk'
    BY <1>1, <1>2, MarkEnabledDb DEF MarkEnabled
  <2>2. OpsOk' /\ history' \subseteq Flags
    BY <1>1, <1>2, SucceedOk, GotoOk DEF MarkEnabled, Points, RestOk
  <2> QED
    BY <2>1, <2>2, MemorySame, RestSame DEF MarkEnabled, taskFrame
<1>3. CASE ~RowCurrent(o)
  <2>1. OpsOk' /\ history' \subseteq Flags
    BY <1>3, FailOk DEF MarkEnabled, Flags
  <2> QED
    BY <1>3, <2>1, DbSame, MemorySame, RestSame DEF MarkEnabled, taskFrame
<1> QED
  BY <1>2, <1>3

LEMMA DrainOldStep ==
  ASSUME IInv, NEW o \in Tasks, DrainOld(o)
  PROVE  IInv'
<1> USE DEF IInv
<1>1. MemoryOk'
  BY ClosedType DEF DrainOld, Drained, MemoryOk, taskFrame
<1>2. OpsOk'
  BY SucceedOk DEF DrainOld
<1> QED
  BY <1>1, <1>2, DbSame, RestSame DEF DrainOld, RestOk

LEMMA UndoStep ==
  ASSUME OpsOk, NEW o \in Tasks, Running(o), NEW s \in Seq(Types), NEW k \in [Types -> Kinds],
         Undo(o, s, k)
  PROVE  OpsOk' /\ kind' \in [Types -> Kinds]
<1>1. CASE s = <<>>
  <2>1. [[op[o] EXCEPT !.pc = "unmark"] EXCEPT !.todo = <<>>] \in GoodRow
    <3>1. <<>> \in Seq(Types)
      OBVIOUS
    <3> QED
      BY <3>1, RowParts DEF GoodRow, TaskRow, Points
  <2>2. op' = [op EXCEPT ![o] = [[op[o] EXCEPT !.pc = "unmark"] EXCEPT !.todo = <<>>]]
    BY <1>1 DEF Undo, OpsOk
  <2> QED
    BY <1>1, <2>1, <2>2, OpStep DEF Undo
<1>2. CASE s # <<>>
  <2>1. [[op[o] EXCEPT !.pc = "undo"] EXCEPT !.todo = s] \in GoodRow
    BY <1>2, RowParts DEF GoodRow, TaskRow, Points
  <2>2. op' = [op EXCEPT ![o] = [[op[o] EXCEPT !.pc = "undo"] EXCEPT !.todo = s]]
    BY <1>2 DEF Undo, OpsOk
  <2>3. kind' \in [Types -> Kinds]
    BY <1>2 DEF Undo, Kinds
  <2> QED
    BY <2>1, <2>2, <2>3, OpStep
<1> QED
  BY <1>1, <1>2

LEMMA UnregisterStep ==
  ASSUME OpsOk, MemoryOk, NEW o \in Tasks, Running(o), Unregister(o)
  PROVE  OpsOk' /\ kind' \in [Types -> Kinds]
<1>1. kind \in [Types -> Kinds]
  BY DEF MemoryOk
<1>2. CASE op[o].act = "disable"
  <2>1. TypesOf[op[o].version] \in Seq(Types)
    BY RowParts, LifecycleAssumption
  <2> QED
    BY <1>1, <1>2, <2>1, UndoStep DEF Unregister
<1>3. CASE op[o].act # "disable"
  <2>1. OpsOk'
    BY <1>3, GotoOk DEF Unregister, Points
  <2>2. kind' \in [Types -> Kinds]
    BY <1>1, <1>3 DEF Unregister, Kinds
  <2> QED
    BY <2>1, <2>2
<1> QED
  BY <1>2, <1>3

LEMMA PopPoolStep ==
  ASSUME IInv, NEW o \in Tasks, PopPool(o)
  PROVE  IInv'
<1> USE DEF IInv
<1>1. Running(o)
  BY DEF PopPool, Running
<1>2. CASE pools # None
  <2>1. OpsOk'
    BY <1>1, <1>2, GotoOk DEF PopPool, Points
  <2>2. MemoryOk'
    BY <1>2, ClosedType DEF PopPool, MemoryOk, taskFrame
  <2> QED
    BY <2>1, <2>2, DbSame, RestSame DEF PopPool, RestOk
<1>3. CASE pools = None
  <2>1. OpsOk' /\ kind' \in [Types -> Kinds]
    BY <1>1, <1>3, UnregisterStep DEF PopPool
  <2>2. MemoryOk'
    BY <1>3, <2>1 DEF PopPool, MemoryOk, taskFrame
  <2> QED
    BY <2>1, <2>2, DbSame, RestSame DEF PopPool, RestOk
<1> QED
  BY <1>2, <1>3

LEMMA PoolClosedStep ==
  ASSUME IInv, NEW o \in Tasks, PoolClosed(o)
  PROVE  IInv'
<1> USE DEF IInv
<1>1. OpsOk' /\ kind' \in [Types -> Kinds]
  BY UnregisterStep DEF PoolClosed, Running
<1>2. MemoryOk'
  BY <1>1 DEF PoolClosed, MemoryOk, taskFrame
<1> QED
  BY <1>1, <1>2, DbSame, RestSame DEF PoolClosed, RestOk

LEMMA PlaceholderBackStep ==
  ASSUME IInv, NEW o \in Tasks, PlaceholderBack(o)
  PROVE  IInv'
<1> USE DEF IInv
<1> DEFINE t == Head(op[o].todo)
           k == IF typeRow[t] = "none" THEN kind ELSE [kind EXCEPT ![t] = Placeholder]
<1>1. CASE Fail(o, {"halfway"}) /\ UNCHANGED kind
  <2>1. OpsOk' /\ history' \subseteq Flags
    BY <1>1, FailOk DEF Flags
  <2> QED
    BY <1>1, <2>1, DbSame, MemorySame, RestSame DEF PlaceholderBack, taskFrame
<1>2. CASE Undo(o, Tail(op[o].todo), k) /\ UNCHANGED history
  <2>1. Running(o)
    BY DEF PlaceholderBack, Running
  <2>2. Tail(op[o].todo) \in Seq(Types)
    <3>1. op[o].todo # <<>>
      BY RowParts DEF PlaceholderBack, GoodRow
    <3> QED
      BY <3>1, RowParts
  <2>3. k \in [Types -> Kinds]
    BY DEF MemoryOk, Kinds
  <2> HIDE DEF k
  <2>4. OpsOk' /\ kind' \in [Types -> Kinds]
    BY <1>2, <2>1, <2>2, <2>3, UndoStep
  <2>5. MemoryOk'
    BY <2>4 DEF PlaceholderBack, MemoryOk, taskFrame
  <2> QED
    BY <1>2, <2>4, <2>5, DbSame, RestSame DEF PlaceholderBack, RestOk
<1> QED
  BY <1>1, <1>2 DEF PlaceholderBack

LEMMA MarkDisabledStep ==
  ASSUME IInv, NEW o \in Tasks, MarkDisabled(o)
  PROVE  IInv'
<1> USE DEF IInv
<1>1. CASE RowCurrent(o)
  <2>1. DbOk' /\ OpsOk'
    BY <1>1, MarkDisabledDb, SucceedOk DEF MarkDisabled
  <2> QED
    BY <1>1, <2>1, MemorySame, RestSame DEF MarkDisabled, taskFrame, RestOk
<1>2. CASE ~RowCurrent(o)
  <2>1. OpsOk' /\ history' \subseteq Flags
    BY <1>2, FailOk DEF MarkDisabled, Flags
  <2> QED
    BY <1>2, <2>1, DbSame, MemorySame, RestSame DEF MarkDisabled, taskFrame
<1> QED
  BY <1>1, <1>2

LEMMA DeletePluginStep ==
  ASSUME IInv, NEW o \in Tasks, DeletePlugin(o)
  PROVE  IInv'
<1> USE DEF IInv
<1>1. CASE Fail(o, {"halfway"}) /\ UNCHANGED dbVars
  <2>1. OpsOk' /\ history' \subseteq Flags
    BY <1>1, FailOk DEF Flags
  <2> QED
    BY <1>1, <2>1, DbSame, MemorySame, RestSame DEF DeletePlugin, taskFrame
<1>2. CASE _delete_plugin /\ Goto(o, "clean") /\ UNCHANGED history
  <2>1. OpsOk' /\ DbOk'
    BY <1>2, GotoOk, DeletePluginDb DEF DeletePlugin, Running, Points
  <2> QED
    BY <1>2, <2>1, MemorySame, RestSame DEF DeletePlugin, taskFrame, RestOk
<1> QED
  BY <1>1, <1>2 DEF DeletePlugin

LEMMA RemoveFilesStep ==
  ASSUME IInv, NEW o \in Tasks, RemoveFiles(o)
  PROVE  IInv'
<1> USE DEF IInv
<1>1. OpsOk'
  BY SucceedOk DEF RemoveFiles
<1>2. RestOk'
  BY DEF RemoveFiles, RestOk
<1> QED
  BY <1>1, <1>2, DbSame, MemorySame DEF RemoveFiles

\* The steps that only go on or fail.
LEMMA GoOnStep ==
  ASSUME IInv, NEW o \in Tasks,
         _assert_no_assets(o) \/ Check(o) \/ _precheck_accounts(o) \/ Resume(o)
  PROVE  IInv'
<1> USE DEF IInv
<1>1. UNCHANGED dbVars /\ UNCHANGED <<kind, pools, pool>> /\ taskFrame
  BY DEF _assert_no_assets, Check, _precheck_accounts, Resume, switchFrame
<1>2. DbOk' /\ MemoryOk'
  BY <1>1, DbSame, MemorySame DEF taskFrame
<1>3. OpsOk' /\ history' \subseteq Flags
  <2>1. CASE Fail(o, {})
    BY <2>1, FailOk
  <2>2. CASE Succeed(o) /\ UNCHANGED history
    BY <2>2, SucceedOk DEF RestOk
  <2>3. ASSUME NEW point \in Points \ {"undo"}, Goto(o, point), UNCHANGED history
        PROVE  OpsOk' /\ history' \subseteq Flags
    <3>1. Running(o)
      BY DEF _assert_no_assets, Check, _precheck_accounts, Resume, Running
    <3> QED
      BY <2>3, <3>1, GotoOk DEF RestOk
  <2>4. \/ Fail(o, {})
        \/ Succeed(o) /\ UNCHANGED history
        \/ Goto(o, "pop") /\ UNCHANGED history
        \/ Goto(o, "precheck") /\ UNCHANGED history
        \/ Goto(o, "record") /\ UNCHANGED history
        \/ Goto(o, "start") /\ UNCHANGED history
    BY DEF _assert_no_assets, Check, _precheck_accounts, Resume
  <2> QED
    BY <2>1, <2>2, <2>3, <2>4 DEF Points
<1> QED
  BY <1>1, <1>2, <1>3, RestSame

LEMMA SwitchVersionStep ==
  ASSUME IInv, NEW o \in Tasks, SwitchVersion(o)
  PROVE  IInv'
<1> USE DEF IInv
<1>1. Running(o)
  BY DEF SwitchVersion, Running
<1>2. CASE RowCurrent(o)
  <2>1. DbOk' /\ plugin'.revision \in Nat
    BY <1>1, <1>2, SwitchVersionDb DEF SwitchVersion
  <2>2. [[op[o] EXCEPT !.pc = "resume"] EXCEPT !.revision = plugin'.revision] \in GoodRow
    BY <1>1, <2>1, RowParts DEF GoodRow, TaskRow, Points
  <2>3. op' = [op EXCEPT ![o] = [[op[o] EXCEPT !.pc = "resume"] EXCEPT !.revision = plugin'.revision]]
    BY <1>2 DEF SwitchVersion, OpsOk
  <2>4. OpsOk'
    BY <2>2, <2>3, OpStep
  <2> QED
    BY <1>2, <2>1, <2>4, MemorySame, RestSame DEF SwitchVersion, switchFrame, taskFrame, RestOk
<1>3. CASE ~RowCurrent(o)
  <2>1. OpsOk' /\ history' \subseteq Flags
    BY <1>3, FailOk DEF SwitchVersion
  <2> QED
    BY <1>3, <2>1, DbSame, MemorySame, RestSame DEF SwitchVersion, switchFrame, taskFrame
<1> QED
  BY <1>2, <1>3

LEMMA DbFailsStep ==
  ASSUME IInv, NEW o \in Tasks, DbFails(o)
  PROVE  IInv'
<1> USE DEF IInv
<1>1. PICK flags \in SUBSET Flags : Fail(o, flags)
  BY DEF DbFails, Flags
<1>2. OpsOk' /\ history' \subseteq Flags
  BY <1>1, FailOk
<1>3. faults' \in 0..MaxFaults
  BY LifecycleAssumption DEF DbFails, RestOk
<1>4. RestOk'
  BY <1>2, <1>3 DEF DbFails, RestOk, worldVars
<1> QED
  BY <1>2, <1>4, DbSame, MemorySame DEF DbFails

LEMMA WorldStep ==
  ASSUME IInv, worldFrame, used' \subseteq Types, files' \subseteq Versions
  PROVE  IInv'
<1> USE DEF IInv
<1>1. RestOk'
  BY DEF worldFrame, RestOk
<1>2. OpsOk'
  BY DEF worldFrame, OpsOk
<1> QED
  BY <1>1, <1>2, DbSame, MemorySame DEF worldFrame

LEMMA RecordInstalledStep ==
  ASSUME IInv, NEW v \in Versions, _record_installed(v)
  PROVE  IInv'
<1> USE DEF IInv
<1>1. DbOk'
  <2>1. status' \in [Versions -> {"none", "installed", "active", "retired"}]
    BY DEF _record_installed, DbOk
  <2>2. \A w \in Versions : status'[w] = IF w = v THEN "installed" ELSE status[w]
    BY DEF _record_installed, DbOk
  <2>3. plugin' = plugin /\ typeRow' = typeRow
    BY DEF _record_installed
  <2>4. Enabled => plugin.current \in Versions
    BY DEF DbOk, ActiveIsCurrent, PluginRow
  <2>5. ActiveIsCurrent'
    BY <2>2, <2>3, <2>4 DEF DbOk, ActiveIsCurrent, Enabled
  <2> QED
    BY <2>1, <2>3, <2>5 DEF DbOk
<1>2. OpsOk'
  BY DEF _record_installed, OpsOk
<1>3. RestOk'
  BY DEF _record_installed, RestOk, worldVars
<1> QED
  BY <1>1, <1>2, <1>3, MemorySame DEF _record_installed

LEMMA RestartStep ==
  ASSUME IInv, Restart
  PROVE  IInv'
<1> USE DEF IInv
<1>1. DbOk'
  BY DbSame DEF Restart
<1>2. Boot \in Tasks
  BY DEF Tasks
<1>3. OpsOk'
  <2>1. ASSUME Enabled, plugin.current # None
        PROVE  Task("enable", "start", plugin.current, plugin.revision, "none") \in GoodRow
    <3>1. plugin.current \in Versions /\ plugin.revision \in Nat
      BY <2>1 DEF DbOk, PluginRow
    <3> QED
      BY <3>1, TaskType DEF Points
  <2>2. \A o \in Tasks : Ended(o, "ok") \in GoodRow /\ Ended(o, "failed") \in GoodRow
    BY EndedRow
  <2>3. \A o \in Tasks : op[o] \in GoodRow
    BY RowParts
  <2> QED
    BY <2>1, <2>2, <2>3 DEF Restart, OpsOk
<1>4. MemoryOk'
  <2>1. kind' \in [Types -> Kinds]
    BY DEF Restart, Reconciled, Kinds
  <2>2. pool' \in [Tasks -> [version : Versions \cup {None}, open : BOOLEAN]]
    BY DEF Restart
  <2> QED
    BY <2>1, <2>2 DEF Restart, MemoryOk
<1>5. RestOk'
  <2>1. crashes' \in 0..MaxCrashes
    BY LifecycleAssumption DEF Restart, RestOk
  <2> QED
    BY <1>2, <2>1 DEF Restart, RestOk, worldVars
<1> QED
  BY <1>1, <1>3, <1>4, <1>5

-----------------------------------------------------------------------------
(* The theorems *)

LEMMA InitOk == Init => IInv
<1> SUFFICES ASSUME Init PROVE IInv
  OBVIOUS
<1>1. OpsOk
  <2>1. Task("enable", "done", None, 0, "ok") \in GoodRow /\ NoTask \in GoodRow
    BY TaskType DEF NoTask, Points
  <2> QED
    BY <2>1 DEF Init, OpsOk
<1>2. DbOk
  <2>1. plugin \in PluginRow
    BY DEF Init, PluginRow
  <2>2. ActiveIsCurrent
    BY DEF Init, ActiveIsCurrent, Enabled
  <2> QED
    BY <2>1, <2>2 DEF Init, DbOk
<1>3. MemoryOk
  BY DEF Init, MemoryOk, Kinds
<1>4. RestOk
  BY LifecycleAssumption DEF Init, RestOk, Tasks
<1> QED
  BY <1>1, <1>2, <1>3, <1>4 DEF IInv

LEMMA StepOk == IInv /\ [Next]_vars => IInv'
<1> SUFFICES ASSUME IInv, [Next]_vars PROVE IInv'
  OBVIOUS
<1>1. CASE \E o \in Ops : enable(o) \/ disable(o) \/ uninstall(o) \/ \E v \in Versions : switch(o, v)
  <2>1. _installable_row \in Versions
    BY LifecycleAssumption DEF IInv, DbOk, PluginRow, _installable_row
  <2> QED
    BY <1>1, <2>1, BeginStep DEF enable, disable, uninstall, switch, Points
<1>2. CASE \E o \in Tasks : _activate(o)
  BY <1>2, StartFailsStep, RegisterStep, RefusedStep, RestoreStep, ReinstateStep,
     MarkEnabledStep, DrainOldStep DEF _activate
<1>3. CASE \E o \in Tasks : _switch(o)
  BY <1>3, GoOnStep, SwitchVersionStep DEF _switch
<1>4. CASE \E o \in Tasks : TearDown(o)
  BY <1>4, PopPoolStep, PoolClosedStep, PlaceholderBackStep, MarkDisabledStep, GoOnStep,
     DeletePluginStep, RemoveFilesStep DEF TearDown
<1>5. CASE \E o \in Tasks : DbFails(o)
  BY <1>5, DbFailsStep
<1>6. CASE \/ \E t \in Types : AddAsset(t) \/ RemoveAsset(t)
           \/ \E v \in Versions : LoseFiles(v)
  <2>1. worldFrame /\ used' \subseteq Types /\ files' \subseteq Versions
    BY <1>6 DEF AddAsset, RemoveAsset, LoseFiles, IInv, RestOk
  <2> QED
    BY <2>1, WorldStep
<1>7. CASE Restart
  BY <1>7, RestartStep
<1>9. CASE \E v \in Versions : _record_installed(v)
  BY <1>9, RecordInstalledStep
<1>8. CASE UNCHANGED vars
  <2>1. OpsOk' /\ RestOk'
    BY <1>8 DEF IInv, vars, worldVars, OpsOk, RestOk
  <2> QED
    BY <1>8, <2>1, DbSame, MemorySame DEF IInv, vars
<1> QED
  BY <1>1, <1>2, <1>3, <1>4, <1>5, <1>6, <1>7, <1>8, <1>9 DEF Next

LEMMA InvariantHolds == Spec => []IInv
BY InitOk, StepOk, PTL DEF Spec

\* Every step keeps the shape of the rows, of the registry and of the tasks.
THEOREM TypeCorrect == Spec => []TypeOK
<1>1. IInv => TypeOK
  <2>1. OpsOk => op \in [Tasks -> TaskRow]
    BY DEF OpsOk, GoodRow
  <2> QED
    BY <2>1 DEF IInv, DbOk, MemoryOk, RestOk, TypeOK
<1> QED
  BY <1>1, InvariantHolds, PTL

\* However many operations overlap, fail or are cut off by a crash, only the current
\* version is active in plugin_versions, and it is while the plugin is enabled, unless a
\* job installed it once more and wrote "installed" into its row.
THEOREM CurrentIsActive == Spec => []ActiveIsCurrent
<1>1. IInv => ActiveIsCurrent
  BY DEF IInv, DbOk
<1> QED
  BY <1>1, InvariantHolds, PTL

-----------------------------------------------------------------------------
(* The step of a task: it is under way, its row changes and no other *)

Moves(o) ==
  /\ Running(o) /\ last' = last /\ history \subseteq history'
  /\ \A p \in Tasks : p # o => op'[p] = op[p]

LEMMA RowStep ==
  ASSUME OpsOk, NEW o \in Tasks, NEW r, op' = [op EXCEPT ![o] = r]
  PROVE  op'[o] = r /\ \A p \in Tasks : p # o => op'[p] = op[p]
BY DEF OpsOk

LEMMA EndedIsDone ==
  ASSUME OpsOk, NEW o \in Tasks, NEW result, op' = [op EXCEPT ![o] = Ended(o, result)]
  PROVE  op'[o].pc = "done" /\ \A p \in Tasks : p # o => op'[p] = op[p]
<1>1. op'[o] = Ended(o, result) /\ \A p \in Tasks : p # o => op'[p] = op[p]
  BY RowStep
<1>2. Ended(o, result).pc = "done"
  BY DEF Ended, Task
<1> QED
  BY <1>1, <1>2

LEMMA FailIsDone ==
  ASSUME OpsOk, NEW o \in Tasks, NEW flags, Fail(o, flags)
  PROVE  /\ op'[o].pc = "done" /\ \A p \in Tasks : p # o => op'[p] = op[p]
         /\ history \subseteq history' /\ flags \subseteq history'
BY EndedIsDone DEF Fail

LEMMA SucceedIsDone ==
  ASSUME OpsOk, NEW o \in Tasks, Succeed(o)
  PROVE  op'[o].pc = "done" /\ \A p \in Tasks : p # o => op'[p] = op[p]
BY EndedIsDone DEF Succeed

LEMMA GotoRow ==
  ASSUME OpsOk, NEW o \in Tasks, NEW point, Goto(o, point)
  PROVE  /\ op'[o].pc = point /\ op'[o].act = op[o].act /\ op'[o].version = op[o].version
         /\ op'[o].todo = op[o].todo /\ op'[o].displaced = op[o].displaced /\ op'[o].old = op[o].old
         /\ \A p \in Tasks : p # o => op'[p] = op[p]
<1>1. op'[o] = [op[o] EXCEPT !.pc = point] /\ \A p \in Tasks : p # o => op'[p] = op[p]
  BY RowStep DEF Goto
<1> QED
  BY <1>1, RowParts DEF TaskRow

LEMMA RegisterRow ==
  ASSUME OpsOk, NEW o \in Tasks, Register(o)
  PROVE  /\ op'[o].pc = "mark" /\ op'[o].act = op[o].act /\ op'[o].version = op[o].version
         /\ op'[o].old = pools
         /\ \A p \in Tasks : p # o => op'[p] = op[p]
<1>1. op' = [op EXCEPT ![o] = [[op[o] EXCEPT !.pc = "mark"] EXCEPT !.old = pools]]
  BY DEF Register, OpsOk
<1> DEFINE r == [op[o] EXCEPT !.pc = "mark"]
           q == [r EXCEPT !.old = pools]
<1>2. r.pc = "mark" /\ r.act = op[o].act /\ r.version = op[o].version /\ r \in TaskRow
  BY RowParts DEF TaskRow, Points
<1>3. op'[o] = q /\ \A p \in Tasks : p # o => op'[p] = op[p]
  BY <1>1, RowStep
<1> HIDE DEF r
<1>4. q.pc = r.pc /\ q.act = r.act /\ q.version = r.version /\ q.old = pools
  BY <1>2 DEF TaskRow
<1> QED
  BY <1>2, <1>3, <1>4

\* The types registered before the refusal, and what they displaced.
LEMMA RefusedRow ==
  ASSUME OpsOk, NEW o \in Tasks, Refused(o)
  PROVE  \E done \in SUBSET TypesIn(op[o].version) :
           /\ kind' = [t \in Types |-> IF t \in done THEN o ELSE kind[t]]
           /\ op'[o].pc = "restore" /\ op'[o].act = op[o].act /\ op'[o].version = op[o].version
           /\ op'[o].displaced = [t \in Types |-> IF t \in done THEN kind[t] ELSE None]
           /\ \A p \in Tasks : p # o => op'[p] = op[p]
<1> DEFINE order == TypesOf[op[o].version]
           taken(n) == {order[i] : i \in 1..n}
           gone(n) == [t \in Types |-> IF t \in taken(n) THEN kind[t] ELSE None]
           row(n) == [[[op[o] EXCEPT !.pc = "restore"] EXCEPT !.todo = SubSeq(order, 1, n)]
                         EXCEPT !.displaced = gone(n)]
<1>1. op[o].version \in Versions /\ order \in Seq(Types)
  BY RowParts, LifecycleAssumption DEF Refused, Running
<1>2. PICK n \in 0..(Len(order) - 1) :
        /\ kind' = [t \in Types |-> IF t \in taken(n) THEN o ELSE kind[t]]
        /\ op' = [op EXCEPT ![o] = row(n)]
  BY DEF Refused, OpsOk
<1>3. taken(n) \in SUBSET TypesIn(op[o].version)
  BY <1>1, <1>2 DEF TypesIn
<1>4. op'[o] = row(n) /\ \A p \in Tasks : p # o => op'[p] = op[p]
  BY <1>2, RowStep
<1>5. /\ row(n).pc = "restore" /\ row(n).act = op[o].act /\ row(n).version = op[o].version
      /\ row(n).displaced = gone(n)
  <2> HIDE DEF gone, order
  <2> QED
    BY RowParts DEF TaskRow
<1> HIDE DEF row, taken
<1> QED
  BY <1>2, <1>3, <1>4, <1>5

\* A rollback goes on: one type of those to restore less, and its placeholder if it has a
\* row and nothing else has taken its place.
LEMMA RestoreRow ==
  ASSUME OpsOk, NEW o \in Tasks, Restore(o)
  PROVE  \/ Fail(o, {"halfway", "unwound"}) /\ UNCHANGED kind
         \/ /\ op'[o].pc = "restore" /\ op'[o].act = op[o].act /\ op'[o].version = op[o].version
            /\ op'[o].displaced = op[o].displaced /\ UNCHANGED history
            /\ \A p \in Tasks : p # o => op'[p] = op[p]
            /\ \/ UNCHANGED kind
               \/ \E t : kind[t] = None /\ kind' = [kind EXCEPT ![t] = Placeholder]
<1>1. CASE Fail(o, {"halfway", "unwound"}) /\ UNCHANGED kind
  BY <1>1
<1>2. CASE op' = [op EXCEPT ![o].todo = Tail(@)] /\ UNCHANGED history
  <2>1. op' = [op EXCEPT ![o] = [op[o] EXCEPT !.todo = Tail(op[o].todo)]]
    BY <1>2 DEF OpsOk
  <2>2. op'[o] = [op[o] EXCEPT !.todo = Tail(op[o].todo)] /\ \A p \in Tasks : p # o => op'[p] = op[p]
    BY <2>1, RowStep
  <2>3. /\ op'[o].pc = "restore" /\ op'[o].act = op[o].act /\ op'[o].version = op[o].version
        /\ op'[o].displaced = op[o].displaced
    BY <2>2, RowParts DEF TaskRow, Restore
  <2>4. UNCHANGED kind \/ \E t : kind[t] = None /\ kind' = [kind EXCEPT ![t] = Placeholder]
    BY DEF Restore
  <2> QED
    BY <1>2, <2>2, <2>3, <2>4
<1> QED
  BY <1>1, <1>2 DEF Restore

\* The end of a rollback says whether everything displaced came back.
LEMMA ReinstateEnds ==
  ASSUME OpsOk, NEW o \in Tasks, Reinstate(o)
  PROVE  /\ op'[o].pc = "done" /\ \A p \in Tasks : p # o => op'[p] = op[p]
         /\ history \subseteq history' /\ Behind(o) \subseteq history'
         /\ \A t \in Types : kind[t] # None => kind'[t] = kind[t]
         /\ \/ "halfway" \in history' /\ "unwound" \in history'
            \/ \A t \in TypesIn(op[o].version) : op[o].displaced[t] # None => kind[t] = None
<1> DEFINE order  == TypesOf[op[o].version]
           gone   == {i \in DOMAIN order : op[o].displaced[order[i]] # None}
           fits(i) == kind[order[i]] = None /\ op[o].displaced[order[i]] # Placeholder
           back   == {order[i] : i \in {j \in gone : \A k \in gone : k >= j => fits(k)}}
           flags  == Behind(o) \cup (IF \A i \in gone : fits(i) THEN {} ELSE {"halfway", "unwound"})
<1>1. Fail(o, flags) /\ kind' = [t \in Types |-> IF t \in back THEN op[o].displaced[t] ELSE kind[t]]
  BY DEF Reinstate
<1>2. op[o].version \in Versions /\ order \in Seq(Types)
  BY RowParts, LifecycleAssumption DEF Reinstate, Running
<1>3. \A t \in back : kind[t] = None
  <2>1. \A i \in gone : i >= i
    BY <1>2
  <2> QED
    BY <2>1
<1>4. (\A i \in gone : fits(i)) =>
        \A t \in TypesIn(op[o].version) : op[o].displaced[t] # None => kind[t] = None
  BY DEF TypesIn
<1>5. (~ \A i \in gone : fits(i)) => {"halfway", "unwound"} \subseteq flags
  OBVIOUS
<1>6. Behind(o) \subseteq flags
  OBVIOUS
<1> HIDE DEF flags, back, gone, fits
<1>7. \A t \in Types : kind[t] # None => kind'[t] = kind[t]
  BY <1>1, <1>3
<1>8. flags \subseteq history' /\ history \subseteq history'
  BY <1>1, FailIsDone
<1> QED
  BY <1>1, <1>4, <1>5, <1>6, <1>7, <1>8, FailIsDone

LEMMA UndoRow ==
  ASSUME OpsOk, NEW o \in Tasks, NEW s, NEW k, Undo(o, s, k)
  PROVE  op'[o].pc \in {"undo", "unmark"} /\ \A p \in Tasks : p # o => op'[p] = op[p]
<1>1. PICK point \in {"undo", "unmark"} : \E todo :
        op' = [op EXCEPT ![o] = [[op[o] EXCEPT !.pc = point] EXCEPT !.todo = todo]]
  BY DEF Undo, OpsOk
<1>2. PICK todo : op' = [op EXCEPT ![o] = [[op[o] EXCEPT !.pc = point] EXCEPT !.todo = todo]]
  BY <1>1
<1> DEFINE r == [op[o] EXCEPT !.pc = point]
           q == [r EXCEPT !.todo = todo]
<1>3. r.pc = point /\ r \in TaskRow
  BY RowParts DEF TaskRow, Points
<1>4. op'[o] = q /\ \A p \in Tasks : p # o => op'[p] = op[p]
  BY <1>2, RowStep
<1> HIDE DEF r
<1>5. q.pc = r.pc
  BY <1>3 DEF TaskRow
<1> QED
  BY <1>3, <1>4, <1>5

LEMMA UnregisterRow ==
  ASSUME OpsOk, NEW o \in Tasks, Unregister(o)
  PROVE  op'[o].pc \in {"undo", "unmark", "delete"} /\ \A p \in Tasks : p # o => op'[p] = op[p]
BY UndoRow, GotoRow DEF Unregister

LEMMA SwitchRow ==
  ASSUME OpsOk, NEW o \in Tasks, SwitchVersion(o), RowCurrent(o)
  PROVE  /\ op'[o].pc = "resume" /\ op'[o].act = op[o].act /\ op'[o].version = op[o].version
         /\ \A p \in Tasks : p # o => op'[p] = op[p]
<1>1. op' = [op EXCEPT ![o] = [[op[o] EXCEPT !.pc = "resume"] EXCEPT !.revision = plugin'.revision]]
  BY DEF SwitchVersion, OpsOk
<1> DEFINE r == [op[o] EXCEPT !.pc = "resume"]
           q == [r EXCEPT !.revision = plugin'.revision]
<1>2. r.pc = "resume" /\ r.act = op[o].act /\ r.version = op[o].version /\ r \in TaskRow
  BY RowParts DEF TaskRow, Points
<1>3. op'[o] = q /\ \A p \in Tasks : p # o => op'[p] = op[p]
  BY <1>1, RowStep
<1> HIDE DEF r
<1>4. q.pc = r.pc /\ q.act = r.act /\ q.version = r.version
  BY <1>2 DEF TaskRow
<1> QED
  BY <1>2, <1>3, <1>4

\* The steps that only go on.
LEMMA GoOnRow ==
  ASSUME OpsOk, NEW o \in Tasks, op[o].pc \notin {"idle", "done"}, last' = last,
         \/ \E flags : Fail(o, flags)
         \/ Succeed(o) /\ UNCHANGED history
         \/ (\E point : Goto(o, point)) /\ UNCHANGED history
  PROVE  Moves(o)
BY FailIsDone, SucceedIsDone, GotoRow DEF Moves, Running

LEMMA TaskMoves ==
  ASSUME OpsOk, NEW o \in Tasks, _activate(o) \/ _switch(o) \/ TearDown(o) \/ DbFails(o)
  PROVE  Moves(o)
<1> USE DEF taskFrame
<1>1. CASE StartFails(o) \/ DrainOld(o)
  BY <1>1, FailIsDone, SucceedIsDone DEF StartFails, DrainOld, Moves, Running
<1>2. CASE Register(o)
  BY <1>2, RegisterRow DEF Register, Moves, Running
<1>3. CASE Refused(o)
  <2>1. \A p \in Tasks : p # o => op'[p] = op[p]
    BY <1>3, RefusedRow
  <2> QED
    BY <1>3, <2>1 DEF Refused, Moves, Running
<1>4. CASE Restore(o)
  <2>1. history \subseteq history' /\ \A p \in Tasks : p # o => op'[p] = op[p]
    BY <1>4, RestoreRow, FailIsDone
  <2> QED
    BY <1>4, <2>1 DEF Restore, Moves, Running
<1>5. CASE Reinstate(o)
  <2>1. history \subseteq history' /\ \A p \in Tasks : p # o => op'[p] = op[p]
    BY <1>5, ReinstateEnds
  <2> QED
    BY <1>5, <2>1 DEF Reinstate, Moves, Running
<1>6. CASE MarkEnabled(o)
  <2>1. \/ \E flags : Fail(o, flags)
        \/ Succeed(o) /\ UNCHANGED history
        \/ (\E point : Goto(o, point)) /\ UNCHANGED history
    BY <1>6 DEF MarkEnabled
  <2>2. last' = last /\ op[o].pc \notin {"idle", "done"}
    BY <1>6 DEF MarkEnabled
  <2> QED
    BY <2>1, <2>2, GoOnRow
<1>7. CASE Check(o) \/ _precheck_accounts(o) \/ Resume(o) \/ _assert_no_assets(o)
  <2>1. \/ \E flags : Fail(o, flags)
        \/ Succeed(o) /\ UNCHANGED history
        \/ (\E point : Goto(o, point)) /\ UNCHANGED history
    BY <1>7 DEF Check, _precheck_accounts, Resume, _assert_no_assets
  <2>2. last' = last /\ op[o].pc \in {"check", "precheck", "resume", "assert"}
    BY <1>7 DEF Check, _precheck_accounts, Resume, _assert_no_assets, switchFrame
  <2> QED
    BY <2>1, <2>2, GoOnRow
<1>8. CASE SwitchVersion(o)
  <2>1. CASE RowCurrent(o)
    BY <1>8, <2>1, SwitchRow DEF SwitchVersion, Moves, Running, switchFrame
  <2>2. CASE ~RowCurrent(o)
    BY <1>8, <2>2, FailIsDone DEF SwitchVersion, Moves, Running, switchFrame
  <2> QED
    BY <2>1, <2>2
<1>9. CASE PopPool(o)
  <2>1. \A p \in Tasks : p # o => op'[p] = op[p]
    BY <1>9, GotoRow, UnregisterRow DEF PopPool
  <2> QED
    BY <1>9, <2>1 DEF PopPool, Moves, Running
<1>10. CASE PoolClosed(o)
  <2>1. \A p \in Tasks : p # o => op'[p] = op[p]
    BY <1>10, UnregisterRow DEF PoolClosed
  <2> QED
    BY <1>10, <2>1 DEF PoolClosed, Moves, Running
<1>11. CASE PlaceholderBack(o)
  <2>1. CASE Fail(o, {"halfway"})
    BY <1>11, <2>1, FailIsDone DEF PlaceholderBack, Moves, Running
  <2>2. CASE (\E k : Undo(o, Tail(op[o].todo), k)) /\ UNCHANGED history
    <3>1. \A p \in Tasks : p # o => op'[p] = op[p]
      BY <2>2, UndoRow
    <3> QED
      BY <1>11, <2>2, <3>1 DEF PlaceholderBack, Moves, Running
  <2> QED
    BY <1>11, <2>1, <2>2 DEF PlaceholderBack
<1>12. CASE MarkDisabled(o) \/ DeletePlugin(o) \/ RemoveFiles(o)
  <2>1. \/ \E flags : Fail(o, flags)
        \/ Succeed(o) /\ UNCHANGED history
        \/ (\E point : Goto(o, point)) /\ UNCHANGED history
    BY <1>12 DEF MarkDisabled, DeletePlugin, RemoveFiles
  <2>2. last' = last /\ op[o].pc \in {"unmark", "delete", "clean"}
    BY <1>12 DEF MarkDisabled, DeletePlugin, RemoveFiles
  <2> QED
    BY <2>1, <2>2, GoOnRow
<1>13. CASE DbFails(o)
  <2>1. \E flags : Fail(o, flags)
    BY <1>13 DEF DbFails
  <2>2. last' = last /\ op[o].pc \notin {"idle", "done"}
    BY <1>13 DEF DbFails
  <2> QED
    BY <2>1, <2>2, GoOnRow
<1> QED
  BY <1>1, <1>2, <1>3, <1>4, <1>5, <1>6, <1>7, <1>8, <1>9, <1>10, <1>11, <1>12, <1>13
     DEF _activate, _switch, TearDown

-----------------------------------------------------------------------------
(* What a start repairs *)

RInv == BootAlone /\ RestartRepairs

LEMMA BootIsTask == Boot \in Tasks /\ None \notin Tasks /\ Placeholder \notin Tasks
BY LifecycleAssumption DEF Tasks

\* Nothing a start looks at has changed.
LEMMA RepairSame ==
  ASSUME RInv, UNCHANGED <<plugin, typeRow, kind, pools, pool, op, last, history>>
  PROVE  RInv'
<1>1. BootAlone'
  BY DEF RInv, BootAlone, Repairing, Running, Enabled, Reconciled
<1>2. RestartRepairs'
  BY DEF RInv, RestartRepairs, Enabled, Serves
<1> QED
  BY <1>1, <1>2 DEF RInv

\* A step of a request: the start is over, and its request was not the last task begun.
LEMMA RepairOther ==
  ASSUME RInv, NEW o \in Ops, Moves(o)
  PROVE  RInv'
<1>1. last # Boot /\ o # Boot
  BY LifecycleAssumption DEF RInv, BootAlone, Moves
<1>2. last' # Boot /\ op'[Boot] = op[Boot]
  BY <1>1, BootIsTask DEF Moves
<1> QED
  BY <1>1, <1>2 DEF RInv, BootAlone, RestartRepairs

LEMMA RepairBegin ==
  ASSUME IInv, RInv, NEW o \in Ops, NEW act, NEW point, NEW v, Begin(o, act, point, v)
  PROVE  RInv'
<1>1. o \in Tasks /\ o # Boot
  BY LifecycleAssumption DEF Tasks
<1>2. \E r : op' = [op EXCEPT ![o] = r]
  BY DEF Begin
<1>3. last' # Boot /\ op'[Boot] = op[Boot] /\ op[Boot].pc = "done"
  BY <1>1, <1>2, BootIsTask, RowStep DEF Begin, IInv
<1> QED
  BY <1>3 DEF RInv, BootAlone, RestartRepairs

LEMMA RepairRestart ==
  ASSUME IInv, Restart
  PROVE  RInv'
<1>1. Boot \in Tasks /\ UNCHANGED <<plugin, typeRow>> /\ last' = Boot /\ pools' = None
  BY BootIsTask DEF Restart, dbVars
<1>2. kind' = [t \in Types |-> Reconciled(t)]
  BY DEF Restart
<1>3. \A o \in Tasks : o # Boot => op'[o].pc \in {"idle", "done"}
  <2>1. \A o \in Tasks : o # Boot => op'[o] = IF Running(o) THEN Ended(o, "failed") ELSE op[o]
    BY DEF Restart
  <2>2. \A o \in Tasks : Ended(o, "failed").pc = "done"
    BY DEF Ended, Task
  <2> QED
    BY <2>1, <2>2 DEF Running
<1>4. \/ op'[Boot].pc = "start" /\ Enabled /\ op'[Boot].version = plugin.current
      \/ op'[Boot].pc = "done"
  <2>1. op'[Boot] = IF Enabled /\ plugin.current # None
                      THEN Task("enable", "start", plugin.current, plugin.revision, "none")
                      ELSE Ended(Boot, "ok")
    BY <1>1 DEF Restart
  <2> QED
    BY <2>1 DEF Ended, Task
<1>5. Enabled' = Enabled /\ \A t \in Types : Reconciled(t)' = Reconciled(t)
  BY <1>1 DEF Enabled, Reconciled
<1>6. Repairing'
  BY <1>1, <1>2, <1>4, <1>5 DEF Repairing
<1>7. BootAlone'
  <2>1. \A o \in Ops : ~Running(o)'
    BY <1>3, LifecycleAssumption DEF Running, Tasks
  <2> QED
    BY <1>1, <1>4, <1>6, <2>1 DEF BootAlone
<1>8. RestartRepairs'
  <2>1. \A t \in Types : typeRow[t] # "none" => kind'[t] = Placeholder
    BY <1>2 DEF Reconciled
  <2> QED
    BY <1>1, <2>1, BootIsTask, LifecycleAssumption DEF RestartRepairs
<1> QED
  BY <1>7, <1>8 DEF RInv

-----------------------------------------------------------------------------
(* The steps of the recovery itself *)

\* It stands alone at one of three points.
LEMMA BootMoves ==
  ASSUME IInv, RInv, Moves(Boot)
  PROVE  /\ last = Boot /\ last' = Boot /\ Repairing
         /\ op[Boot].pc \in {"start", "restore", "mark"}
         /\ \A o \in Ops : ~Running(o)'
         /\ op[Boot].version \in Versions
<1>1. last = Boot /\ op[Boot].pc \in {"start", "restore", "mark"}
  BY DEF RInv, BootAlone, Moves, Running
<1>2. \A o \in Ops : op'[o] = op[o] /\ ~Running(o)
  BY <1>1, LifecycleAssumption DEF RInv, BootAlone, Moves, Tasks
<1>3. op[Boot].version \in Versions
  BY BootIsTask, RowParts DEF IInv, Moves
<1> QED
  BY <1>1, <1>2, <1>3 DEF RInv, BootAlone, Moves, Running

\* It ends, and what has a row is a placeholder or served by the current version.
LEMMA BootEnds ==
  ASSUME IInv, RInv, Moves(Boot), op'[Boot].pc = "done", UNCHANGED plugin,
         "unwound" \in history' \/ \A t \in Types : typeRow'[t] # "none" =>
           /\ kind'[t] # None
           /\ kind'[t] \in Tasks =>
                Enabled /\ pool'[kind'[t]] = [version |-> plugin.current, open |-> TRUE]
  PROVE  RInv'
<1>1. BootAlone'
  BY BootMoves DEF BootAlone, Repairing
<1>2. Enabled' = Enabled
  BY DEF Enabled
<1>3. RestartRepairs'
  BY <1>2 DEF RestartRepairs, Serves
<1> QED
  BY <1>1, <1>3 DEF RInv

LEMMA BootStartFails ==
  ASSUME IInv, RInv, Moves(Boot), StartFails(Boot)
  PROVE  RInv'
<1>1. \A t \in Types : kind[t] = Reconciled(t)
  BY BootMoves DEF StartFails, Repairing
<1>2. UNCHANGED <<plugin, typeRow, kind>>
  BY DEF StartFails, dbVars
<1>3. \A t \in Types : typeRow'[t] # "none" => kind'[t] # None /\ kind'[t] \notin Tasks
  BY <1>1, <1>2, BootIsTask, LifecycleAssumption DEF Reconciled
<1>4. op'[Boot].pc = "done"
  BY FailIsDone, BootIsTask DEF StartFails, IInv
<1> QED
  BY <1>2, <1>3, <1>4, BootEnds

LEMMA BootRegister ==
  ASSUME IInv, RInv, Moves(Boot), Register(Boot)
  PROVE  RInv'
<1> DEFINE v == op[Boot].version
<1>1. /\ Enabled /\ v = plugin.current /\ pools = None
      /\ \A t \in Types : kind[t] = Reconciled(t)
  BY BootMoves DEF Register, Repairing
<1>2. /\ UNCHANGED <<plugin, typeRow>> /\ pool'[Boot] = [version |-> v, open |-> TRUE]
      /\ \A t \in Types : kind'[t] = IF t \in TypesIn(v) THEN Boot ELSE kind[t]
  BY BootIsTask DEF Register, dbVars, IInv, MemoryOk
<1>3. op'[Boot].pc = "mark" /\ op'[Boot].version = v /\ op'[Boot].old = None
  BY <1>1, BootIsTask, RegisterRow DEF IInv
<1>4. Enabled' = Enabled /\ \A t \in Types : Reconciled(t)' = Reconciled(t)
  BY <1>2 DEF Enabled, Reconciled
<1> HIDE DEF v
<1>5. Repairing'
  BY <1>1, <1>2, <1>3, <1>4 DEF Repairing
<1>6. BootAlone' /\ RestartRepairs'
  BY <1>3, <1>5, BootMoves DEF BootAlone, RestartRepairs
<1> QED
  BY <1>6 DEF RInv

LEMMA BootRefused ==
  ASSUME IInv, RInv, Moves(Boot), Refused(Boot)
  PROVE  RInv'
<1> DEFINE v == op[Boot].version
<1>1. \A t \in Types : kind[t] = Reconciled(t)
  BY BootMoves DEF Refused, Repairing
<1>2. PICK done \in SUBSET TypesIn(v) :
        /\ kind' = [t \in Types |-> IF t \in done THEN Boot ELSE kind[t]]
        /\ op'[Boot].pc = "restore" /\ op'[Boot].version = v
        /\ op'[Boot].displaced = [t \in Types |-> IF t \in done THEN kind[t] ELSE None]
  BY BootIsTask, RefusedRow DEF IInv
<1>3. UNCHANGED <<plugin, typeRow>>
  BY DEF Refused, dbVars
<1> HIDE DEF v
<1>4. ASSUME NEW t \in Types, typeRow[t] # "none"
      PROVE  \/ kind'[t] = Placeholder
             \/ t \in TypesIn(v) /\ kind'[t] # None /\ op'[Boot].displaced[t] = Placeholder
  BY <1>1, <1>2, <1>4, BootIsTask DEF Reconciled
<1>5. Repairing'
  BY <1>2, <1>3, <1>4 DEF Repairing
<1>6. BootAlone' /\ RestartRepairs'
  BY <1>2, <1>5, BootMoves DEF BootAlone, RestartRepairs
<1> QED
  BY <1>6 DEF RInv

LEMMA BootRestore ==
  ASSUME IInv, RInv, Moves(Boot), Restore(Boot)
  PROVE  RInv'
<1>1. UNCHANGED <<plugin, typeRow>>
  BY DEF Restore, dbVars
<1>2. \A t \in Types : typeRow[t] # "none" =>
        \/ kind[t] = Placeholder
        \/ /\ t \in TypesIn(op[Boot].version) /\ kind[t] # None
           /\ op[Boot].displaced[t] = Placeholder
  BY BootMoves DEF Restore, Repairing
<1>3. CASE Fail(Boot, {"halfway", "unwound"})
  <2>1. op'[Boot].pc = "done" /\ "unwound" \in history'
    BY <1>3, BootIsTask, FailIsDone DEF IInv
  <2> QED
    BY <1>1, <2>1, BootEnds
<1>4. CASE /\ op'[Boot].pc = "restore" /\ op'[Boot].version = op[Boot].version
           /\ op'[Boot].displaced = op[Boot].displaced
           /\ UNCHANGED kind \/ \E t : kind[t] = None /\ kind' = [kind EXCEPT ![t] = Placeholder]
  <2>1. \A t \in Types : kind'[t] = kind[t] \/ (kind[t] = None /\ kind'[t] = Placeholder)
    BY <1>4 DEF IInv, MemoryOk
  <2>2. Repairing'
    BY <1>1, <1>2, <1>4, <2>1 DEF Repairing
  <2>3. BootAlone' /\ RestartRepairs'
    BY <1>4, <2>2, BootMoves DEF BootAlone, RestartRepairs
  <2> QED
    BY <2>3 DEF RInv
<1> QED
  BY <1>3, <1>4, BootIsTask, RestoreRow DEF IInv

LEMMA BootReinstate ==
  ASSUME IInv, RInv, Moves(Boot), Reinstate(Boot)
  PROVE  RInv'
<1>1. UNCHANGED <<plugin, typeRow>>
  BY DEF Reinstate, dbVars
<1>2. \A t \in Types : typeRow[t] # "none" =>
        \/ kind[t] = Placeholder
        \/ /\ t \in TypesIn(op[Boot].version) /\ kind[t] # None
           /\ op[Boot].displaced[t] = Placeholder
  BY BootMoves DEF Reinstate, Repairing
<1>3. /\ op'[Boot].pc = "done"
      /\ \A t \in Types : kind[t] # None => kind'[t] = kind[t]
      /\ \/ "unwound" \in history'
         \/ \A t \in TypesIn(op[Boot].version) : op[Boot].displaced[t] # None => kind[t] = None
  BY BootIsTask, ReinstateEnds DEF IInv
<1>4. CASE "unwound" \in history'
  BY <1>1, <1>3, <1>4, BootEnds
<1>5. CASE \A t \in TypesIn(op[Boot].version) : op[Boot].displaced[t] # None => kind[t] = None
  <2>1. \A t \in Types : typeRow[t] # "none" => kind[t] = Placeholder
    BY <1>2, <1>5, LifecycleAssumption
  <2>2. \A t \in Types : typeRow'[t] # "none" => kind'[t] # None /\ kind'[t] \notin Tasks
    BY <1>1, <1>3, <2>1, BootIsTask, LifecycleAssumption
  <2> QED
    BY <1>1, <1>3, <2>2, BootEnds
<1> QED
  BY <1>3, <1>4, <1>5

\* Registered for the current version, whether or not the row says so in the end.
LEMMA BootMark ==
  ASSUME IInv, RInv, Moves(Boot), op[Boot].pc = "mark"
  PROVE  /\ Enabled /\ plugin.current = op[Boot].version /\ op[Boot].old = None
         /\ \A t \in Types : kind[t] \in Tasks =>
              kind[t] = Boot /\ pool[kind[t]] = [version |-> plugin.current, open |-> TRUE]
         /\ \A t \in TypesIn(op[Boot].version) \cap Types : kind[t] = Boot
         /\ \A t \in Types : typeRow[t] # "none" => kind[t] # None
<1>1. /\ Enabled /\ op[Boot].version = plugin.current /\ op[Boot].old = None
      /\ pool[Boot] = [version |-> op[Boot].version, open |-> TRUE]
      /\ \A t \in Types :
           kind[t] = Boot \/ (t \notin TypesIn(op[Boot].version) /\ kind[t] = Reconciled(t))
  BY BootMoves DEF Repairing
<1>2. \A t \in Types : Reconciled(t) \notin Tasks /\ (typeRow[t] # "none" => Reconciled(t) # None)
  BY BootIsTask, LifecycleAssumption DEF Reconciled
<1> QED
  BY <1>1, <1>2, BootIsTask

LEMMA BootMarkEnabled ==
  ASSUME IInv, RInv, Moves(Boot), MarkEnabled(Boot)
  PROVE  RInv'
<1>1. op[Boot].pc = "mark" /\ UNCHANGED <<kind, pool>>
  BY DEF MarkEnabled
<1>2. CASE RowCurrent(Boot)
  <2>1. op'[Boot].pc = "done"
    BY <1>1, <1>2, BootIsTask, BootMark, SucceedIsDone DEF MarkEnabled, IInv
  <2>2. plugin'.live = plugin.live /\ plugin'.expected = "enabled" /\ plugin'.current = op[Boot].version
    BY <1>2 DEF MarkEnabled, _mark_enabled, IInv, DbOk, PluginRow
  <2>3. Enabled' /\ plugin'.current = plugin.current
    BY <1>1, <2>2, BootMark DEF Enabled
  <2>4. \A t \in Types : typeRow'[t] # "none" => kind[t] # None
    <3>1. \A t \in Types : typeRow'[t] = IF t \in TypesIn(op[Boot].version) THEN "available" ELSE typeRow[t]
      BY <1>2 DEF MarkEnabled, _mark_enabled
    <3> QED
      BY <1>1, <3>1, BootMark, BootIsTask
  <2>5. RestartRepairs'
    BY <1>1, <2>3, <2>4, BootMark DEF RestartRepairs, Serves
  <2>6. BootAlone'
    BY <2>1, BootMoves DEF BootAlone, Repairing
  <2> QED
    BY <2>5, <2>6 DEF RInv
<1>3. CASE ~RowCurrent(Boot)
  <2>1. op'[Boot].pc = "done" /\ UNCHANGED <<plugin, typeRow>>
    BY <1>3, BootIsTask, FailIsDone DEF MarkEnabled, IInv, dbVars
  <2> QED
    BY <1>1, <2>1, BootMark, BootEnds
<1> QED
  BY <1>2, <1>3

LEMMA BootDbFails ==
  ASSUME IInv, RInv, Moves(Boot), DbFails(Boot)
  PROVE  RInv'
<1>1. UNCHANGED <<plugin, typeRow, kind, pool>>
  BY DEF DbFails, dbVars
<1>2. \E flags : Fail(Boot, flags) /\ (op[Boot].pc = "restore" => "unwound" \in flags)
  BY DEF DbFails
<1>3. op'[Boot].pc = "done" /\ (op[Boot].pc = "restore" => "unwound" \in history')
  BY <1>2, BootIsTask, FailIsDone DEF IInv
<1>4. op[Boot].pc \in {"restore", "mark"}
  BY BootMoves DEF DbFails
<1>5. CASE op[Boot].pc = "restore"
  BY <1>1, <1>3, <1>5, BootEnds
<1>6. CASE op[Boot].pc = "mark"
  BY <1>1, <1>3, <1>6, BootMark, BootEnds
<1> QED
  BY <1>4, <1>5, <1>6

LEMMA RepairTask ==
  ASSUME IInv, RInv, NEW o \in Tasks, _activate(o) \/ _switch(o) \/ TearDown(o) \/ DbFails(o)
  PROVE  RInv'
<1>1. Moves(o)
  BY TaskMoves DEF IInv
<1>2. CASE o \in Ops
  BY <1>1, <1>2, RepairOther
<1>3. CASE o = Boot
  <2>1. op[Boot].pc \in {"start", "restore", "mark"}
    BY <1>1, <1>3, BootMoves
  <2>2. ~(_switch(Boot) \/ TearDown(Boot) \/ DrainOld(Boot))
    BY <2>1 DEF _switch, Check, _precheck_accounts, SwitchVersion, Resume, TearDown, PopPool,
       PoolClosed, PlaceholderBack, MarkDisabled, _assert_no_assets, DeletePlugin, RemoveFiles, DrainOld
  <2> QED
    BY <1>1, <1>3, <2>2, BootStartFails, BootRegister, BootRefused, BootRestore, BootReinstate,
       BootMarkEnabled, BootDbFails DEF _activate
<1> QED
  BY <1>2, <1>3 DEF Tasks

LEMMA RepairInit == Init => RInv
<1> SUFFICES ASSUME Init PROVE RInv
  OBVIOUS
<1>1. op[Boot].pc = "done" /\ last = Boot /\ \A o \in Ops : ~Running(o)
  BY BootIsTask, LifecycleAssumption DEF Init, Task, NoTask, Running, Tasks
<1>2. \A t \in Types : typeRow[t] = "none"
  BY DEF Init
<1> QED
  BY <1>1, <1>2 DEF RInv, BootAlone, Repairing, RestartRepairs

LEMMA RepairStep == IInv /\ RInv /\ [Next]_vars => RInv'
<1> SUFFICES ASSUME IInv, RInv, [Next]_vars PROVE RInv'
  OBVIOUS
<1>1. CASE \E o \in Ops : enable(o) \/ disable(o) \/ uninstall(o) \/ \E v \in Versions : switch(o, v)
  BY <1>1, RepairBegin DEF enable, disable, uninstall, switch
<1>2. CASE \E o \in Tasks : _activate(o) \/ _switch(o) \/ TearDown(o) \/ DbFails(o)
  BY <1>2, RepairTask
<1>3. CASE Restart
  BY <1>3, RepairRestart
<1>4. CASE \/ \E t \in Types : AddAsset(t) \/ RemoveAsset(t)
           \/ \E v \in Versions : LoseFiles(v) \/ _record_installed(v)
           \/ UNCHANGED vars
  <2>1. UNCHANGED <<plugin, typeRow, kind, pools, pool, op, last, history>>
    BY <1>4 DEF AddAsset, RemoveAsset, LoseFiles, _record_installed, worldFrame, dbVars, vars
  <2> QED
    BY <2>1, RepairSame
<1> QED
  BY <1>1, <1>2, <1>3, <1>4 DEF Next

\* Whatever a crash or an overlap has left: after a start each type with a row is in the
\* registry, as a placeholder or served by the open pool of the current version of an
\* enabled plugin, unless the rollback of the activation failed itself (service.py:52).
THEOREM StartRepairs == Spec => []RestartRepairs
<1>1. RInv => RestartRepairs
  BY DEF RInv
<1> QED
  BY <1>1, InvariantHolds, RepairInit, RepairStep, PTL DEF Spec

-----------------------------------------------------------------------------
(* What the registry serves *)

SInv == Unserved /\ Alone /\ Orderly /\ ServedIsRecorded

LEMMA RecordedSame ==
  ASSUME UNCHANGED <<plugin, kind, pools, pool>>
  PROVE  Recorded' = Recorded /\ OnlyOpen' = OnlyOpen /\ Enabled' = Enabled
BY DEF Recorded, OnlyOpen, Enabled, Serves

LEMMA ServedSame ==
  ASSUME SInv, UNCHANGED <<plugin, kind, pools, pool, op, history>>
  PROVE  SInv'
<1>1. Recorded' = Recorded /\ OnlyOpen' = OnlyOpen /\ Enabled' = Enabled
  BY RecordedSame
<1>2. ASSUME NEW o \in Tasks
      PROVE  Running(o)' = Running(o) /\ (Standing(o) => Standing(o)')
  <2>1. Running(o)' = Running(o) /\ Enabling(o)' = Enabling(o)
    BY DEF Running, Enabling
  <2>2. Swapped(o) => Swapped(o)'
    BY DEF Swapped
  <2>3. Unwinding(o) => Unwinding(o)'
    BY <1>1 DEF Unwinding, Serves
  <2> QED
    BY <1>1, <2>1, <2>2, <2>3 DEF Standing
<1> QED
  BY <1>1, <1>2 DEF SInv, Unserved, Alone, Orderly, ServedIsRecorded, AtRest

\* What a step has to show: where the task stands after it, or, if it ends, that what is
\* served is recorded; in either case only if nothing has gone wrong.
LEMMA Advance ==
  ASSUME IInv, SInv, NEW o \in Tasks, Moves(o), pools' \in {pools, None, o},
         op'[o].pc \in {"idle", "start", "check", "precheck", "record", "resume"} => pools' # o,
         op'[o].pc \in {"check", "precheck", "record", "resume"} => op'[o].act = "switch",
         history = {} /\ history' = {} /\ Standing(o) =>
           /\ Running(o)' => Standing(o)'
           /\ ~Running(o)' => Recorded'
  PROVE  SInv'
<1>1. Unserved'
  <2>1. ASSUME NEW p \in Tasks, p # o
        PROVE  op'[p] = op[p] /\ (pools # p => pools' # p)
    BY <2>1, BootIsTask DEF Moves
  <2> QED
    BY <2>1 DEF SInv, Unserved
<1>2. \A p \in Tasks : "overlap" \notin history' /\ Running(p)' => p = o
  BY DEF SInv, Alone, Moves, Running
<1>3. Alone'
  BY <1>2 DEF Alone
<1>4. ASSUME history' = {}
      PROVE  history = {} /\ Standing(o)
  BY <1>4 DEF Moves, SInv, Orderly
<1>5. Orderly'
  BY <1>2, <1>4 DEF Orderly
<1>6. ServedIsRecorded'
  BY <1>4 DEF ServedIsRecorded, AtRest
<1> QED
  BY <1>1, <1>3, <1>5, <1>6 DEF SInv

LEMMA AdvanceEnds ==
  ASSUME IInv, SInv, NEW o \in Tasks, Moves(o), pools' = pools, op'[o].pc = "done",
         history = {} /\ history' = {} /\ Standing(o) => Recorded'
  PROVE  SInv'
BY Advance DEF Running

\* The end of a task that leaves what is served behind.
LEMMA AdvanceFails ==
  ASSUME IInv, SInv, NEW o \in Tasks, Moves(o), pools' = pools, NEW flags, Fail(o, flags),
         flags # {}
  PROVE  SInv'
<1>1. op'[o].pc = "done" /\ history' # {}
  BY FailIsDone DEF IInv
<1> QED
  BY <1>1, AdvanceEnds

\* The end of a task that has changed nothing.
LEMMA AdvanceRefused ==
  ASSUME IInv, SInv, NEW o \in Tasks, Moves(o), UNCHANGED <<plugin, kind, pools, pool>>,
         NEW flags, Fail(o, flags), Standing(o) /\ flags = {} => Recorded
  PROVE  SInv'
<1>1. op'[o].pc = "done" /\ flags \subseteq history'
  BY FailIsDone DEF IInv
<1>2. history' = {} /\ Standing(o) => Recorded'
  BY <1>1, RecordedSame
<1> QED
  BY <1>1, <1>2, AdvanceEnds

LEMMA TypesInVersion ==
  ASSUME NEW v \in Versions
  PROVE  TypesIn(v) \subseteq Types
<1>1. TypesOf[v] \in Seq(Types)
  BY LifecycleAssumption
<1> QED
  BY <1>1 DEF TypesIn

\* The current version of an enabled plugin is one.
LEMMA CurrentKnown ==
  ASSUME DbOk, Enabled
  PROVE  plugin.current \in Versions /\ plugin.current # None
BY DEF DbOk, ActiveIsCurrent, PluginRow

-----------------------------------------------------------------------------
(* An activation *)

LEMMA ServedStartFails ==
  ASSUME IInv, SInv, NEW o \in Tasks, Moves(o), StartFails(o)
  PROVE  SInv'
<1>1. Standing(o) /\ Behind(o) = {} => Recorded
  BY DEF Standing, Behind, Enabling, StartFails
<1> QED
  BY <1>1, AdvanceRefused DEF StartFails, dbVars

LEMMA ServedRegister ==
  ASSUME IInv, SInv, NEW o \in Tasks, Moves(o), Register(o)
  PROVE  SInv'
<1> DEFINE v == op[o].version
<1>1. /\ op'[o].pc = "mark" /\ op'[o].version = v /\ op'[o].old = pools
      /\ pools' = o /\ pools # o /\ v \in Versions
  BY RegisterRow, RowParts DEF Register, IInv, SInv, Unserved, Running
<1>2. /\ pool'[o] = [version |-> v, open |-> TRUE]
      /\ \A p \in Tasks : p # o => pool'[p] = pool[p]
      /\ \A t \in TypesIn(v) : kind'[t] = o
  BY <1>1, TypesInVersion DEF Register, IInv, MemoryOk
<1> HIDE DEF v
<1>3. OnlyOpen => Standing(o)'
  BY <1>1, <1>2 DEF Standing, Swapped, OnlyOpen
<1>4. Standing(o) => OnlyOpen
  BY DEF Standing, Register
<1> QED
  BY <1>1, <1>3, <1>4, Advance DEF Running

LEMMA ServedRefused ==
  ASSUME IInv, SInv, NEW o \in Tasks, Moves(o), Refused(o)
  PROVE  SInv'
<1> DEFINE v == op[o].version
<1>1. PICK done \in SUBSET TypesIn(v) :
        /\ kind' = [t \in Types |-> IF t \in done THEN o ELSE kind[t]]
        /\ op'[o].pc = "restore" /\ op'[o].act = op[o].act /\ op'[o].version = v
        /\ op'[o].displaced = [t \in Types |-> IF t \in done THEN kind[t] ELSE None]
  BY RefusedRow DEF IInv
<1>2. /\ op[o].pc = "start" /\ UNCHANGED <<plugin, pools>> /\ ~pool'[o].open
      /\ \A p \in Tasks : p # o => pool'[p] = pool[p]
  BY DEF Refused, dbVars, IInv, MemoryOk
<1>3. pools # o
  BY <1>2 DEF SInv, Unserved
<1> HIDE DEF v
<1>4. ASSUME Standing(o)
      PROVE  Standing(o)'
  <2>1. OnlyOpen'
    BY <1>2, <1>4 DEF Standing, OnlyOpen
  <2>2. ASSUME Enabling(o)
        PROVE  Unwinding(o)'
    <3>1. Recorded /\ (Enabled => v = plugin.current)
      BY <1>2, <1>4, <2>2 DEF Standing, v
    <3>2. Enabled' = Enabled
      BY <1>2 DEF Enabled
    <3>3. ASSUME Enabled, NEW t \in TypesIn(plugin.current)
          PROVE  \/ Serves(t, plugin.current)' /\ kind'[t] = pools
                 \/ kind'[t] = o /\ op'[o].displaced[t] # None
      <4>1. t \in Types /\ Serves(t, plugin.current) /\ kind[t] = pools /\ pools # None
        BY <3>1, <3>3, CurrentKnown, TypesInVersion DEF Recorded, IInv
      <4>2. CASE t \in done
        BY <1>1, <4>1, <4>2
      <4>3. CASE t \notin done
        <5>1. kind'[t] = kind[t]
          BY <1>1, <4>1, <4>3
        <5> QED
          BY <1>2, <1>3, <4>1, <5>1 DEF Serves
      <4> QED
        BY <4>2, <4>3
    <3> QED
      BY <1>1, <1>2, <3>1, <3>2, <3>3 DEF Unwinding, Recorded
  <2>3. Enabling(o)' => Enabling(o)
    BY <1>1 DEF Enabling
  <2> QED
    BY <1>1, <2>1, <2>2, <2>3 DEF Standing
<1> QED
  BY <1>1, <1>2, <1>3, <1>4, Advance DEF Running

LEMMA ServedRestore ==
  ASSUME IInv, SInv, NEW o \in Tasks, Moves(o), Restore(o)
  PROVE  SInv'
<1>1. UNCHANGED <<plugin, pools, pool>> /\ op[o].pc = "restore"
  BY DEF Restore, dbVars
<1>2. CASE Fail(o, {"halfway", "unwound"})
  BY <1>1, <1>2, AdvanceFails
<1>3. CASE /\ op'[o].pc = "restore" /\ op'[o].act = op[o].act /\ op'[o].version = op[o].version
           /\ op'[o].displaced = op[o].displaced
           /\ UNCHANGED kind \/ \E t : kind[t] = None /\ kind' = [kind EXCEPT ![t] = Placeholder]
  <2>1. \A t \in Types : kind[t] # None => kind'[t] = kind[t]
    BY <1>3 DEF IInv, MemoryOk
  <2>2. OnlyOpen' = OnlyOpen /\ Enabled' = Enabled /\ (Enabling(o)' => Enabling(o))
    BY <1>1, <1>3 DEF OnlyOpen, Enabled, Enabling
  <2>3. ASSUME Unwinding(o)
        PROVE  Unwinding(o)'
    <3>1. ASSUME Enabled, NEW t \in TypesIn(plugin.current)
          PROVE  \/ Serves(t, plugin.current)' /\ kind'[t] = pools
                 \/ kind'[t] = o /\ op'[o].displaced[t] # None
      <4>1. t \in Types /\ pools # None
        BY <2>3, <3>1, CurrentKnown, TypesInVersion DEF IInv, Unwinding
      <4>2. \/ Serves(t, plugin.current) /\ kind[t] = pools
            \/ kind[t] = o /\ op[o].displaced[t] # None
        BY <2>3, <3>1 DEF Unwinding
      <4>3. kind'[t] = kind[t]
        BY <2>1, <4>1, <4>2, BootIsTask
      <4> QED
        BY <1>1, <1>3, <4>2, <4>3 DEF Serves
    <3> QED
      BY <1>1, <1>3, <2>2, <2>3, <3>1 DEF Unwinding
  <2>4. Standing(o) => Standing(o)'
    BY <1>1, <1>3, <2>2, <2>3 DEF Standing
  <2> QED
    BY <1>1, <1>3, <2>4, Advance DEF Running
<1> QED
  BY <1>2, <1>3, RestoreRow DEF IInv

LEMMA ServedReinstate ==
  ASSUME IInv, SInv, NEW o \in Tasks, Moves(o), Reinstate(o)
  PROVE  SInv'
<1>1. UNCHANGED <<plugin, pools, pool>> /\ op[o].pc = "restore"
  BY DEF Reinstate, dbVars
<1>2. /\ op'[o].pc = "done" /\ Behind(o) \subseteq history'
      /\ \A t \in Types : kind[t] # None => kind'[t] = kind[t]
      /\ \/ "unwound" \in history'
         \/ \A t \in TypesIn(op[o].version) : op[o].displaced[t] # None => kind[t] = None
  BY ReinstateEnds DEF IInv
<1>3. ASSUME history' = {}, Standing(o)
      PROVE  Recorded'
  <2>1. Enabling(o)
    BY <1>2, <1>3 DEF Behind, Enabling
  <2>2. OnlyOpen /\ Unwinding(o)
    BY <1>1, <1>3, <2>1 DEF Standing
  <2>3. OnlyOpen' /\ Enabled' = Enabled
    BY <1>1, <2>2 DEF OnlyOpen, Enabled
  <2>4. ASSUME Enabled, NEW t \in TypesIn(plugin.current)
        PROVE  Serves(t, plugin.current)' /\ kind'[t] = pools
    <3>1. t \in Types /\ pools # None /\ op[o].version = plugin.current
      BY <2>2, <2>4, CurrentKnown, TypesInVersion DEF IInv, Unwinding
    <3>2. ~(kind[t] = o /\ op[o].displaced[t] # None)
      BY <1>2, <1>3, <3>1, <2>4, BootIsTask
    <3>3. Serves(t, plugin.current) /\ kind[t] = pools
      BY <2>2, <2>4, <3>2 DEF Unwinding
    <3>4. kind'[t] = kind[t]
      BY <1>2, <3>1, <3>3
    <3> QED
      BY <1>1, <3>3, <3>4 DEF Serves
  <2> QED
    BY <1>1, <2>2, <2>3, <2>4 DEF Recorded, Unwinding
<1> QED
  BY <1>1, <1>2, <1>3, AdvanceEnds

LEMMA ServedMarkEnabled ==
  ASSUME IInv, SInv, NEW o \in Tasks, Moves(o), MarkEnabled(o)
  PROVE  SInv'
<1>1. op[o].pc = "mark" /\ UNCHANGED <<kind, pools, pool>>
  BY DEF MarkEnabled
<1>2. CASE ~RowCurrent(o)
  BY <1>1, <1>2, AdvanceFails DEF MarkEnabled
<1>3. CASE RowCurrent(o)
  <2>1. plugin'.live = plugin.live /\ plugin'.expected = "enabled" /\ plugin'.current = op[o].version
    BY <1>3 DEF MarkEnabled, _mark_enabled, IInv, DbOk, PluginRow
  <2>2. Enabled'
    BY <1>3, <2>1 DEF Enabled, RowCurrent
  <2>3. CASE op[o].old \in {None, o}
    <3>1. op'[o].pc = "done"
      BY <1>3, <2>3, SucceedIsDone DEF MarkEnabled, IInv
    <3>2. ASSUME Standing(o)
          PROVE  Recorded'
      <4>1. Swapped(o)
        BY <1>1, <3>2 DEF Standing
      <4>2. OnlyOpen
        BY <2>3, <4>1, BootIsTask DEF Swapped, OnlyOpen
      <4>3. \A t \in TypesIn(plugin'.current) : Serves(t, plugin.current)' /\ kind[t] = pools
        BY <1>1, <2>1, <4>1 DEF Swapped, Serves
      <4>4. OnlyOpen'
        BY <1>1, <4>2 DEF OnlyOpen
      <4>5. pools # None
        BY <4>1, BootIsTask DEF Swapped
      <4> QED
        BY <1>1, <2>2, <4>3, <4>4, <4>5 DEF Recorded
    <3> QED
      BY <1>1, <3>1, <3>2, AdvanceEnds
  <2>4. CASE op[o].old \notin {None, o}
    <3>1. op'[o].pc = "drain" /\ op'[o].version = op[o].version /\ op'[o].old = op[o].old
      BY <1>3, <2>4, GotoRow DEF MarkEnabled, IInv
    <3>2. Standing(o) => Standing(o)'
      BY <1>1, <2>1, <2>2, <3>1 DEF Standing, Swapped
    <3> QED
      BY <1>1, <3>1, <3>2, Advance DEF Running
  <2> QED
    BY <2>3, <2>4
<1> QED
  BY <1>2, <1>3

LEMMA ServedDrainOld ==
  ASSUME IInv, SInv, NEW o \in Tasks, Moves(o), DrainOld(o)
  PROVE  SInv'
<1>1. op[o].pc = "drain" /\ UNCHANGED <<plugin, kind, pools>> /\ op'[o].pc = "done"
  BY SucceedIsDone DEF DrainOld, dbVars, IInv
<1>2. \A p \in Tasks : /\ p # op[o].old => pool'[p] = pool[p]
                       /\ p = op[o].old => ~pool'[p].open
  BY DEF DrainOld, Drained, Closed, IInv, MemoryOk
<1>3. ASSUME Standing(o)
      PROVE  Recorded'
  <2>1. Swapped(o) /\ Enabled /\ op[o].version = plugin.current
    BY <1>1, <1>3 DEF Standing
  <2>2. Enabled' /\ pools # None
    BY <1>1, <2>1, BootIsTask DEF Enabled, Swapped
  <2>3. \A t \in TypesIn(plugin.current) : Serves(t, plugin.current)' /\ kind[t] = pools
    BY <1>1, <1>2, <2>1 DEF Swapped, Serves
  <2>4. OnlyOpen'
    BY <1>1, <1>2, <2>1 DEF OnlyOpen, Swapped
  <2> QED
    BY <1>1, <2>2, <2>3, <2>4 DEF Recorded
<1> QED
  BY <1>1, <1>3, AdvanceEnds

-----------------------------------------------------------------------------
(* Switching, disabling, uninstalling *)

LEMMA ServedGoOn ==
  ASSUME IInv, SInv, NEW o \in Tasks, Moves(o),
         Check(o) \/ _precheck_accounts(o) \/ _assert_no_assets(o)
  PROVE  SInv'
<1>1. UNCHANGED <<plugin, kind, pools, pool>> /\ op[o].pc \in {"check", "precheck", "assert"}
  BY DEF Check, _precheck_accounts, _assert_no_assets, switchFrame, dbVars
<1>2. Standing(o) => Recorded
  BY <1>1 DEF Standing
<1>3. CASE Fail(o, {})
  BY <1>1, <1>2, <1>3, AdvanceRefused
<1>4. ASSUME NEW point \in {"precheck", "record", "pop"}, Goto(o, point),
             point # "pop" => op[o].pc \in {"check", "precheck"}
      PROVE  SInv'
  <2>1. op'[o].pc = point /\ op'[o].act = op[o].act
    BY <1>4, GotoRow DEF IInv
  <2>2. point # "pop" => pools # o /\ op[o].act = "switch"
    BY <1>4 DEF SInv, Unserved
  <2>3. Recorded' = Recorded
    BY <1>1, RecordedSame
  <2>4. Recorded' => Standing(o)'
    BY <2>1 DEF Standing
  <2> QED
    BY <1>1, <1>2, <2>1, <2>2, <2>3, <2>4, Advance DEF Running
<1>5. \/ Fail(o, {})
      \/ (Goto(o, "precheck") \/ Goto(o, "record")) /\ op[o].pc \in {"check", "precheck"}
      \/ Goto(o, "pop")
  BY DEF Check, _precheck_accounts, _assert_no_assets
<1> QED
  BY <1>3, <1>4, <1>5

LEMMA ServedSwitchVersion ==
  ASSUME IInv, SInv, NEW o \in Tasks, Moves(o), SwitchVersion(o)
  PROVE  SInv'
<1>1. op[o].pc = "record" /\ UNCHANGED <<kind, pools, pool>>
  BY DEF SwitchVersion, switchFrame
<1>2. pools # o /\ op[o].act = "switch"
  BY <1>1 DEF SInv, Unserved
<1>3. CASE RowCurrent(o)
  <2>1. op'[o].pc = "resume" /\ op'[o].act = op[o].act
    BY <1>3, SwitchRow DEF IInv
  <2>2. plugin'.live = plugin.live /\ plugin'.expected = plugin.expected
    BY <1>3 DEF SwitchVersion, _switch_version, IInv, DbOk, PluginRow
  <2>3. Enabled' = Enabled /\ OnlyOpen' = OnlyOpen
    BY <1>1, <2>2 DEF Enabled, OnlyOpen
  <2>4. Standing(o) => Standing(o)'
    BY <1>1, <2>1, <2>3 DEF Standing, Recorded
  <2> QED
    BY <1>1, <1>2, <2>1, <2>4, Advance DEF Running
<1>4. CASE ~RowCurrent(o)
  <2>1. UNCHANGED plugin /\ Fail(o, {})
    BY <1>4 DEF SwitchVersion, dbVars
  <2>2. Standing(o) => Recorded
    BY <1>1 DEF Standing
  <2> QED
    BY <1>1, <2>1, <2>2, AdvanceRefused
<1> QED
  BY <1>3, <1>4

LEMMA ServedResume ==
  ASSUME IInv, SInv, NEW o \in Tasks, Moves(o), Resume(o)
  PROVE  SInv'
<1>1. op[o].pc = "resume" /\ UNCHANGED <<plugin, kind, pools, pool>>
  BY DEF Resume, switchFrame, dbVars
<1>2. pools # o /\ op[o].act = "switch" /\ OnlyOpen' = OnlyOpen /\ Recorded' = Recorded
  BY <1>1, RecordedSame DEF SInv, Unserved
<1>3. Standing(o) => OnlyOpen /\ (~Enabled => Recorded)
  BY <1>1 DEF Standing, Recorded
<1>4. CASE Enabled
  <2>1. op'[o].pc = "start" /\ op'[o].act = "switch"
    BY <1>2, <1>4, GotoRow DEF Resume, IInv
  <2>2. OnlyOpen => Standing(o)'
    BY <1>2, <2>1 DEF Standing, Enabling
  <2> QED
    BY <1>1, <1>2, <1>3, <2>1, <2>2, Advance DEF Running
<1>5. CASE ~Enabled
  <2>1. op'[o].pc = "done"
    BY <1>5, SucceedIsDone DEF Resume, IInv
  <2> QED
    BY <1>1, <1>2, <1>3, <1>5, <2>1, AdvanceEnds
<1> QED
  BY <1>4, <1>5

\* No pool is left: what follows touches the registry and then the database.
LEMMA ServedTornDown ==
  ASSUME IInv, SInv, NEW o \in Tasks, Moves(o), pools' = None,
         op'[o].pc \in {"close", "undo", "unmark", "delete"}, Standing(o) => OnlyOpen'
  PROVE  SInv'
<1>1. OnlyOpen' => Standing(o)'
  BY DEF Standing
<1> QED
  BY <1>1, Advance DEF Running

LEMMA ServedPopPool ==
  ASSUME IInv, SInv, NEW o \in Tasks, Moves(o), PopPool(o)
  PROVE  SInv'
<1>1. Standing(o) => OnlyOpen
  BY DEF Standing, PopPool, Recorded
<1>2. CASE pools # None
  <2>1. op'[o].pc = "close" /\ pools' = None
    BY <1>2, GotoRow DEF PopPool, IInv
  <2>2. \A p \in Tasks : /\ p # pools => pool'[p] = pool[p]
                         /\ p = pools => ~pool'[p].open
    BY <1>2 DEF PopPool, Closed, IInv, MemoryOk
  <2>3. OnlyOpen => OnlyOpen'
    BY <2>2 DEF OnlyOpen
  <2> QED
    BY <1>1, <2>1, <2>3, ServedTornDown
<1>3. CASE pools = None
  <2>1. op'[o].pc \in {"undo", "unmark", "delete"} /\ UNCHANGED <<pools, pool>>
    BY <1>3, UnregisterRow DEF PopPool, IInv
  <2>2. OnlyOpen => OnlyOpen'
    BY <2>1 DEF OnlyOpen
  <2> QED
    BY <1>1, <1>3, <2>1, <2>2, ServedTornDown
<1> QED
  BY <1>2, <1>3

\* A task that tears down goes on or fails for good; pools may be anything if it met
\* another.
LEMMA ServedTearsOn ==
  ASSUME IInv, SInv, NEW o \in Tasks, Moves(o), UNCHANGED <<pools, pool>>,
         op[o].pc \in {"close", "undo", "unmark", "delete"},
         op'[o].pc \in {"close", "undo", "unmark", "delete"}
  PROVE  SInv'
<1>1. Standing(o) => OnlyOpen' /\ pools' = None
  BY DEF Standing, OnlyOpen
<1>2. OnlyOpen' /\ pools' = None => Standing(o)'
  BY DEF Standing
<1> QED
  BY <1>1, <1>2, Advance DEF Running

LEMMA ServedPoolClosed ==
  ASSUME IInv, SInv, NEW o \in Tasks, Moves(o), PoolClosed(o)
  PROVE  SInv'
<1>1. op'[o].pc \in {"undo", "unmark", "delete"}
  BY UnregisterRow DEF PoolClosed, IInv
<1> QED
  BY <1>1, ServedTearsOn DEF PoolClosed

LEMMA ServedPlaceholderBack ==
  ASSUME IInv, SInv, NEW o \in Tasks, Moves(o), PlaceholderBack(o)
  PROVE  SInv'
<1>1. op[o].pc = "undo" /\ UNCHANGED <<pools, pool>>
  BY DEF PlaceholderBack
<1>2. CASE Fail(o, {"halfway"})
  BY <1>1, <1>2, AdvanceFails
<1>3. CASE \E k : Undo(o, Tail(op[o].todo), k)
  <2>1. op'[o].pc \in {"undo", "unmark"}
    BY <1>3, UndoRow DEF IInv
  <2> QED
    BY <1>1, <2>1, ServedTearsOn
<1> QED
  BY <1>2, <1>3 DEF PlaceholderBack

LEMMA ServedMarkDisabled ==
  ASSUME IInv, SInv, NEW o \in Tasks, Moves(o), MarkDisabled(o)
  PROVE  SInv'
<1>1. op[o].pc = "unmark" /\ UNCHANGED <<kind, pools, pool>>
  BY DEF MarkDisabled
<1>2. CASE RowCurrent(o)
  <2>1. plugin'.expected = "disabled"
    BY <1>2 DEF MarkDisabled, _mark_disabled, IInv, DbOk, PluginRow
  <2>2. op'[o].pc = "done"
    BY <1>2, SucceedIsDone DEF MarkDisabled, IInv
  <2>3. Standing(o) => Recorded'
    BY <1>1, <2>1 DEF Standing, Recorded, OnlyOpen, Enabled
  <2> QED
    BY <1>1, <2>2, <2>3, AdvanceEnds
<1>3. CASE ~RowCurrent(o)
  BY <1>1, <1>3, AdvanceFails DEF MarkDisabled
<1> QED
  BY <1>2, <1>3

LEMMA ServedDeletePlugin ==
  ASSUME IInv, SInv, NEW o \in Tasks, Moves(o), DeletePlugin(o)
  PROVE  SInv'
<1>1. op[o].pc = "delete" /\ UNCHANGED <<kind, pools, pool>>
  BY DEF DeletePlugin
<1>2. CASE Fail(o, {"halfway"})
  BY <1>1, <1>2, AdvanceFails
<1>3. CASE _delete_plugin /\ Goto(o, "clean")
  <2>1. plugin'.expected = "disabled"
    BY <1>3 DEF _delete_plugin, IInv, DbOk, PluginRow
  <2>2. op'[o].pc = "clean"
    BY <1>3, GotoRow DEF IInv
  <2>3. Standing(o) => Standing(o)'
    BY <1>1, <2>1, <2>2 DEF Standing, OnlyOpen, Enabled
  <2> QED
    BY <1>1, <2>2, <2>3, Advance DEF Running
<1> QED
  BY <1>2, <1>3 DEF DeletePlugin

LEMMA ServedRemoveFiles ==
  ASSUME IInv, SInv, NEW o \in Tasks, Moves(o), RemoveFiles(o)
  PROVE  SInv'
<1>1. /\ op[o].pc = "clean" /\ UNCHANGED <<plugin, kind, pools, pool>>
      /\ op'[o].pc = "done"
  BY SucceedIsDone DEF RemoveFiles, dbVars, IInv
<1>2. Standing(o) => Recorded
  BY <1>1 DEF Standing, Recorded
<1>3. Recorded' = Recorded
  BY <1>1, RecordedSame
<1> QED
  BY <1>1, <1>2, <1>3, AdvanceEnds

LEMMA ServedDbFails ==
  ASSUME IInv, SInv, NEW o \in Tasks, Moves(o), DbFails(o)
  PROVE  SInv'
<1>1. UNCHANGED <<plugin, kind, pools, pool>>
  BY DEF DbFails, dbVars
<1>2. \/ op[o].pc \in {"check", "record", "assert"} /\ Fail(o, {})
      \/ Fail(o, {"halfway"}) \/ Fail(o, {"halfway", "unwound"})
  BY DEF DbFails
<1>3. op[o].pc \in {"check", "record", "assert"} /\ Standing(o) => Recorded
  BY DEF Standing
<1> QED
  BY <1>1, <1>2, <1>3, AdvanceFails, AdvanceRefused

LEMMA ServedTask ==
  ASSUME IInv, SInv, NEW o \in Tasks, _activate(o) \/ _switch(o) \/ TearDown(o) \/ DbFails(o)
  PROVE  SInv'
<1>1. Moves(o)
  BY TaskMoves DEF IInv
<1> QED
  BY <1>1, ServedStartFails, ServedRegister, ServedRefused, ServedRestore, ServedReinstate,
     ServedMarkEnabled, ServedDrainOld, ServedGoOn, ServedSwitchVersion, ServedResume,
     ServedPopPool, ServedPoolClosed, ServedPlaceholderBack, ServedMarkDisabled,
     ServedDeletePlugin, ServedRemoveFiles, ServedDbFails
     DEF _activate, _switch, TearDown

-----------------------------------------------------------------------------
(* The beginning of an operation, a start, and the theorem *)

LEMMA ServedBegin ==
  ASSUME IInv, SInv, NEW o \in Ops, NEW act, NEW point \in {"start", "pop", "assert", "check"},
         NEW v, Begin(o, act, point, v), point = "check" => act = "switch",
         point = "start" => v = _installable_row
  PROVE  SInv'
<1> DEFINE row == IF plugin.live THEN Task(act, point, v, plugin.revision, "none")
                                 ELSE Task(act, "done", None, 0, "failed")
<1>1. o \in Tasks /\ UNCHANGED <<plugin, kind, pools, pool>> /\ pools # o
  BY DEF Begin, Tasks, dbVars, SInv, Unserved
<1>2. op'[o] = row /\ \A p \in Tasks : p # o => op'[p] = op[p]
  BY <1>1, RowStep DEF Begin, IInv
<1>3. \/ op'[o].pc = point /\ op'[o].act = act /\ op'[o].version = v
      \/ op'[o].pc = "done"
  BY <1>2 DEF Task
<1> HIDE DEF row
<1>4. Recorded' = Recorded /\ OnlyOpen' = OnlyOpen /\ Enabled' = Enabled
  BY <1>1, RecordedSame
<1>5. "overlap" \notin history' => history' = history /\ \A p \in Tasks : ~Running(p)
  BY DEF Begin
<1>6. Unserved'
  BY <1>1, <1>2, <1>3 DEF SInv, Unserved
<1>7. Alone'
  BY <1>2, <1>5 DEF Alone, Running
<1>8. history' = {} => Recorded
  BY <1>5 DEF SInv, ServedIsRecorded, AtRest
<1>9. Recorded => ServedIsRecorded'
  BY <1>4 DEF ServedIsRecorded
<1>10. Recorded /\ op'[o].pc = point => Standing(o)'
  <2>1. Enabled /\ point = "start" => v = plugin.current
    BY CurrentKnown DEF _installable_row, IInv
  <2>2. Recorded => OnlyOpen
    BY DEF Recorded
  <2> QED
    BY <1>1, <1>3, <1>4, <2>1, <2>2 DEF Standing
<1>11. Orderly'
  <2>1. ASSUME history' = {}, NEW p \in Tasks, Running(p)'
        PROVE  p = o /\ op'[o].pc = point
    <3>1. p = o
      BY <1>2, <1>5, <2>1 DEF Running
    <3> QED
      BY <1>3, <2>1, <3>1 DEF Running
  <2> QED
    BY <1>8, <1>10, <2>1 DEF Orderly
<1> QED
  BY <1>6, <1>7, <1>8, <1>9, <1>11 DEF SInv, ServedIsRecorded

LEMMA ServedRestart ==
  ASSUME IInv, SInv, Restart
  PROVE  SInv'
<1>1. Boot \in Tasks /\ UNCHANGED plugin /\ pools' = None /\ \A o \in Tasks : ~pool'[o].open
  BY BootIsTask DEF Restart, dbVars
<1>2. \A o \in Tasks : o # Boot => op'[o].pc \in {"idle", "done"}
  <2>1. \A o \in Tasks : o # Boot => op'[o] = IF Running(o) THEN Ended(o, "failed") ELSE op[o]
    BY DEF Restart
  <2>2. \A o \in Tasks : Ended(o, "failed").pc = "done"
    BY DEF Ended, Task
  <2> QED
    BY <2>1, <2>2 DEF Running
<1>3. /\ op'[Boot].pc \in {"start", "done"}
      /\ Enabled => op'[Boot].pc = "start"
  <2>1. op'[Boot] = IF Enabled /\ plugin.current # None
                      THEN Task("enable", "start", plugin.current, plugin.revision, "none")
                      ELSE Ended(Boot, "ok")
    BY <1>1 DEF Restart
  <2>2. Enabled => plugin.current # None
    BY CurrentKnown DEF IInv
  <2> QED
    BY <2>1, <2>2 DEF Ended, Task
<1>4. \A o \in Tasks : Running(o)' => o = Boot /\ op'[o].pc = "start"
  BY <1>2, <1>3 DEF Running
<1>5. OnlyOpen' /\ Enabled' = Enabled
  BY <1>1 DEF OnlyOpen, Enabled
<1>6. Unserved'
  BY <1>1, <1>2, <1>3, BootIsTask DEF Unserved
<1>7. Alone'
  BY <1>4 DEF Alone
<1>8. Standing(Boot)' \/ ~Running(Boot)'
  BY <1>4, <1>5, <1>1 DEF Standing, Enabling
<1>9. Orderly'
  BY <1>4, <1>8 DEF Orderly
<1>10. ServedIsRecorded'
  <2>1. AtRest' => ~Enabled'
    BY <1>1, <1>3, <1>5 DEF AtRest, Running
  <2>2. ~Enabled' => Recorded'
    BY <1>1, <1>5 DEF Recorded
  <2> QED
    BY <2>1, <2>2 DEF ServedIsRecorded
<1> QED
  BY <1>6, <1>7, <1>9, <1>10 DEF SInv

LEMMA ServedInit == Init => SInv
<1> SUFFICES ASSUME Init PROVE SInv
  OBVIOUS
<1>1. \A o \in Tasks : op[o].pc \in {"idle", "done"} /\ ~pool[o].open
  BY DEF Init, NoTask, Task
<1>2. \A o \in Tasks : ~Running(o)
  BY <1>1 DEF Running
<1>3. pools = None /\ ~Enabled
  BY DEF Init, Enabled
<1>4. Unserved /\ Recorded
  BY <1>1, <1>3, BootIsTask DEF Unserved, Recorded, OnlyOpen
<1> QED
  BY <1>2, <1>4 DEF SInv, Alone, Orderly, ServedIsRecorded

LEMMA ServedStep == IInv /\ SInv /\ [Next]_vars => SInv'
<1> SUFFICES ASSUME IInv, SInv, [Next]_vars PROVE SInv'
  OBVIOUS
<1>1. CASE \E o \in Ops : enable(o) \/ disable(o) \/ uninstall(o) \/ \E v \in Versions : switch(o, v)
  BY <1>1, ServedBegin DEF enable, disable, uninstall, switch
<1>2. CASE \E o \in Tasks : _activate(o) \/ _switch(o) \/ TearDown(o) \/ DbFails(o)
  BY <1>2, ServedTask
<1>3. CASE Restart
  BY <1>3, ServedRestart
<1>4. CASE \/ \E t \in Types : AddAsset(t) \/ RemoveAsset(t)
           \/ \E v \in Versions : LoseFiles(v) \/ _record_installed(v)
           \/ UNCHANGED vars
  <2>1. UNCHANGED <<plugin, kind, pools, pool, op, history>>
    BY <1>4 DEF AddAsset, RemoveAsset, LoseFiles, _record_installed, worldFrame, dbVars, vars
  <2> QED
    BY <2>1, ServedSame
<1> QED
  BY <1>1, <1>2, <1>3, <1>4 DEF Next

\* On every path of operations that follow each other, with failures that change nothing
\* and crashes in between, the registry serves every type of the current version from the
\* only open pool once the gateway is at rest, and a disabled plugin has none
\* (service.py:415, 422, 606, 716).
THEOREM ServedAsRecorded == Spec => []ServedIsRecorded
<1>1. SInv => ServedIsRecorded
  BY DEF SInv
<1> QED
  BY <1>1, InvariantHolds, ServedInit, ServedStep, PTL DEF Spec

=============================================================================
