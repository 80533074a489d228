-------------------------- MODULE PluginLifecycle --------------------------
(***************************************************************************)
(* One plugin with several installed versions under PluginService          *)
(* (app/plugins/service.py): enable, disable, switch and uninstall, the    *)
(* recovery at the start of the gateway, and a crash at any time. An       *)
(* operation is a coroutine that changes the database, the type registry   *)
(* and the pools one after the other; nothing locks it against another.    *)
(***************************************************************************)
EXTENDS Integers, Sequences, FiniteSets

CONSTANTS
  Ops,         \* requests of administrators
  Boot,        \* the recovery of PluginService.start
  Versions,    \* the installed versions
  Types,       \* asset types
  TypesOf,     \* the types in the manifest of a version, in its order
  Latest,      \* the version installed last
  None,
  Placeholder, \* a PlaceholderAssetType in the registry
  AtOnce,      \* bound on operations under way
  MaxFaults,   \* bound on failing transactions
  MaxCrashes   \* bound on crashes

Tasks == Ops \cup {Boot}

ASSUME LifecycleAssumption ==
  /\ Boot \notin Ops
  /\ TypesOf \in [Versions -> Seq(Types)] /\ Latest \in Versions
  /\ None \notin Versions \cup Tasks
  /\ Placeholder \notin Tasks \cup {None}
  /\ AtOnce \in Nat /\ MaxFaults \in Nat /\ MaxCrashes \in Nat

VARIABLES
  plugin,   \* the row of plugins
  status,   \* plugin_versions.status
  typeRow,  \* asset_types.available of each type, "none" without a row
  used,     \* the types that have assets
  files,    \* the versions whose manifest.json exists
  kind,     \* the registry: the task whose pool serves a type, or Placeholder
  pools,    \* the entry of this plugin in PluginService.pools
  pool,     \* the PluginProcessPool each task makes
  op,       \* where each task stands and what it holds
  last,     \* history: the task begun last
  before,   \* history: the registry when it began
  history,  \* history: what went wrong since the last start, see Flags
  faults, crashes

dbVars    == <<plugin, status, typeRow>>
worldVars == <<used, files>>
vars == <<dbVars, worldVars, kind, pools, pool, op, last, before, history, faults, crashes>>

PluginRow == [live : BOOLEAN, expected : {"enabled", "disabled"},
              current : Versions \cup {None}, revision : Nat]

\* start: in pool.start, mark: in _mark_enabled, drain: in old_pool.drain; restore: in
\* the except branch of _activate; pop: about to take the pool out of pools, close: in
\* its drain or stop, undo: between unregister and the placeholder, unmark: in
\* _mark_disabled; check, precheck, record, resume: the steps of _switch; assert,
\* delete, clean: those of uninstall.
Points == {"idle", "start", "mark", "drain", "restore", "pop", "close", "undo", "unmark",
           "check", "precheck", "record", "resume", "assert", "delete", "clean", "done"}

Kinds == Tasks \cup {Placeholder, None}

\* version, revision: the row it has read; todo: types still to go through; displaced:
\* what it took out of the registry; old: the pool it replaced.
TaskRow == [pc : Points, act : {"enable", "disable", "switch", "uninstall"},
            version : Versions \cup {None}, revision : Nat, todo : Seq(Types),
            displaced : [Types -> Kinds], old : Tasks \cup {None},
            result : {"none", "ok", "failed"}]

\* overlap: two tasks were under way at once; halfway: one failed after it had changed
\* something; unwound: the rollback of an activation failed itself.
Flags == {"overlap", "halfway", "unwound"}

TypeOK ==
  /\ plugin \in PluginRow
  /\ status \in [Versions -> {"none", "installed", "active", "retired"}]
  /\ typeRow \in [Types -> {"none", "available", "unavailable"}]
  /\ used \subseteq Types /\ files \subseteq Versions
  /\ kind \in [Types -> Kinds]
  /\ before \in [Types -> Kinds]
  /\ pools \in Tasks \cup {None}
  /\ pool \in [Tasks -> [version : Versions \cup {None}, open : BOOLEAN]]
  /\ op \in [Tasks -> TaskRow]
  /\ last \in Tasks
  /\ history \subseteq Flags
  /\ faults \in 0..MaxFaults /\ crashes \in 0..MaxCrashes

-----------------------------------------------------------------------------
(* Helpers *)

TypesIn(v) == {TypesOf[v][i] : i \in DOMAIN TypesOf[v]}

Enabled == plugin.live /\ plugin.expected = "enabled"

\* The current version, or the one installed last before any was enabled.
_installable_row == IF plugin.current # None THEN plugin.current ELSE Latest

Task(act, point, v, n, result) ==
  [pc |-> point, act |-> act, version |-> v, revision |-> n, todo |-> <<>>,
   displaced |-> [t \in Types |-> None], old |-> None, result |-> result]

NoTask == Task("enable", "idle", None, 0, "none")

Running(o) == op[o].pc \notin {"idle", "done"}

-----------------------------------------------------------------------------
(* Faulty forms of definitions below: the mistakes the properties exclude. *)

NeverEnds(o, result) == Task(op[o].act, "done", None, 0, None)
OnlyLive(o)          == plugin.live               \* the revision is not compared
BothActive(v)        == [status EXCEPT ![v] = "active"]
OldStays(o)          == pool                      \* the old pool is not drained
NoPlaceholder(t)     == None                      \* a row without its type in memory

-----------------------------------------------------------------------------
(* How a task goes on *)

Goto(o, point) == op' = [op EXCEPT ![o].pc = point]

Ended(o, result) == Task(op[o].act, "done", None, 0, result)

Succeed(o) == op' = [op EXCEPT ![o] = Ended(o, "ok")]

Fail(o, flags) ==
  /\ op' = [op EXCEPT ![o] = Ended(o, "failed")]
  /\ history' = history \cup flags

\* An activation after _switch_version or at the start leaves the database ahead.
Behind(o) == IF op[o].act = "switch" \/ o = Boot THEN {"halfway"} ELSE {}

Closed(p) == [pool EXCEPT ![p].open = FALSE]

-----------------------------------------------------------------------------
(* The database transactions *)

\* Every transaction compares the revision its task has read.
RowCurrent(o) == plugin.live /\ plugin.revision = op[o].revision

Activated(v) ==
  [w \in Versions |-> IF w = v THEN "active"
                      ELSE IF status[w] = "active" THEN "retired" ELSE status[w]]

_mark_enabled(o) ==
  /\ plugin' = [plugin EXCEPT !.expected = "enabled", !.current = op[o].version, !.revision = @ + 1]
  /\ status' = Activated(op[o].version)
  /\ typeRow' = [t \in Types |-> IF t \in TypesIn(op[o].version) THEN "available" ELSE typeRow[t]]

_mark_disabled ==
  /\ plugin' = [plugin EXCEPT !.expected = "disabled", !.revision = @ + 1]
  /\ status' = [v \in Versions |-> IF status[v] = "active" THEN "installed" ELSE status[v]]
  /\ typeRow' = [t \in Types |-> IF typeRow[t] = "none" THEN "none" ELSE "unavailable"]

_switch_version(o) ==
  /\ plugin' = [plugin EXCEPT !.current = op[o].version, !.revision = @ + 1]
  /\ status' = Activated(op[o].version)
  /\ UNCHANGED typeRow

_delete_plugin ==
  /\ plugin' = [plugin EXCEPT !.live = FALSE, !.expected = "disabled", !.current = None]
  /\ status' = [v \in Versions |-> "none"]
  /\ typeRow' = [t \in Types |-> "none"]

-----------------------------------------------------------------------------
(* The first step of each operation: read the row *)

Begin(o, act, point, v) ==
  /\ op[o].pc = "idle" /\ op[Boot].pc = "done"
  /\ Cardinality({p \in Tasks : Running(p)}) < AtOnce
  /\ op' = [op EXCEPT ![o] =
              IF plugin.live
                THEN Task(act, point, v, plugin.revision, "none")
                ELSE Task(act, "done", None, 0, "failed")]
  /\ last' = o /\ before' = kind
  /\ history' = IF \E p \in Tasks : Running(p) THEN history \cup {"overlap"} ELSE history
  /\ UNCHANGED <<dbVars, worldVars, kind, pools, pool, faults, crashes>>

enable(o)    == Begin(o, "enable", "start", _installable_row)
disable(o)   == Begin(o, "disable", "pop", _installable_row)
uninstall(o) == Begin(o, "uninstall", "assert", _installable_row)
switch(o, v) == v \in files /\ Begin(o, "switch", "check", v)

taskFrame == UNCHANGED <<worldVars, last, before, faults, crashes>>

-----------------------------------------------------------------------------
(* PluginService._activate *)

StartFails(o) ==
  /\ op[o].pc = "start"
  /\ Fail(o, Behind(o))
  /\ UNCHANGED <<dbVars, kind, pools, pool>> /\ taskFrame

\* The loop over the types of the manifest and the swap of the pools, in one step.
Register(o) ==
  LET v == op[o].version IN
  /\ op[o].pc = "start" /\ v \in files
  /\ kind' = [t \in Types |-> IF t \in TypesIn(v) THEN o ELSE kind[t]]
  /\ pool' = [pool EXCEPT ![o] = [version |-> v, open |-> TRUE]]
  /\ pools' = o
  /\ op' = [op EXCEPT ![o].pc = "mark", ![o].old = pools]
  /\ UNCHANGED <<dbVars, history>> /\ taskFrame

\* The handshake lacks a type of the manifest, or it belongs to another plugin: the
\* types before it are registered, the new pool is stopped.
Refused(o) ==
  LET v == op[o].version IN
  /\ op[o].pc = "start" /\ v \in files
  /\ \E n \in 0..(Len(TypesOf[v]) - 1) :
       LET done == {TypesOf[v][i] : i \in 1..n} IN
       /\ kind' = [t \in Types |-> IF t \in done THEN o ELSE kind[t]]
       /\ op' = [op EXCEPT ![o].pc = "restore", ![o].todo = SubSeq(TypesOf[v], 1, n),
                   ![o].displaced = [t \in Types |-> IF t \in done THEN kind[t] ELSE None]]
  /\ pool' = [pool EXCEPT ![o] = [version |-> v, open |-> FALSE]]
  /\ UNCHANGED <<dbVars, pools, history>> /\ taskFrame

\* _restore_placeholder of a type just registered: register refuses to replace it, so
\* that the handler raises and forgets the types it has displaced.
Restore(o) ==
  LET t == Head(op[o].todo) IN
  /\ op[o].pc = "restore" /\ op[o].todo # <<>>
  /\ \/ /\ typeRow[t] = "none"
        /\ op' = [op EXCEPT ![o].todo = Tail(@)]
        /\ UNCHANGED <<kind, history>>
     \/ /\ typeRow[t] # "none" /\ kind[t] = None
        /\ kind' = [kind EXCEPT ![t] = Placeholder]
        /\ op' = [op EXCEPT ![o].todo = Tail(@)]
        /\ UNCHANGED history
     \/ /\ typeRow[t] # "none" /\ kind[t] # None
        /\ Fail(o, {"halfway", "unwound"})
        /\ UNCHANGED kind
  /\ UNCHANGED <<dbVars, pools, pool>> /\ taskFrame

\* The displaced types come back in reverse order up to the first that is taken, or is
\* a placeholder, which has no version_id.
Reinstate(o) ==
  LET order  == TypesOf[op[o].version]
      gone   == {i \in DOMAIN order : op[o].displaced[order[i]] # None}
      fits(i) == kind[order[i]] = None /\ op[o].displaced[order[i]] # Placeholder
      back   == {order[i] : i \in {j \in gone : \A k \in gone : k >= j => fits(k)}}
  IN
  /\ op[o].pc = "restore" /\ op[o].todo = <<>>
  /\ kind' = [t \in Types |-> IF t \in back THEN op[o].displaced[t] ELSE kind[t]]
  /\ Fail(o, Behind(o) \cup (IF \A i \in gone : fits(i) THEN {} ELSE {"halfway", "unwound"}))
  /\ UNCHANGED <<dbVars, pools, pool>> /\ taskFrame

MarkEnabled(o) ==
  /\ op[o].pc = "mark"
  /\ IF RowCurrent(o)
       THEN /\ _mark_enabled(o)
            /\ IF op[o].old \in {None, o} THEN Succeed(o) ELSE Goto(o, "drain")
            /\ UNCHANGED history
       ELSE Fail(o, {"halfway"}) /\ UNCHANGED dbVars
  /\ UNCHANGED <<kind, pools, pool>> /\ taskFrame

Drained(o) == Closed(op[o].old)

DrainOld(o) ==
  /\ op[o].pc = "drain"
  /\ pool' = Drained(o)
  /\ Succeed(o)
  /\ UNCHANGED <<dbVars, kind, pools, history>> /\ taskFrame

-----------------------------------------------------------------------------
(* PluginService.disable and the end of uninstall *)

\* Unregister the first type of s, then wait for the row of its placeholder.
Undo(o, s, k) ==
  IF s = <<>>
    THEN kind' = k /\ op' = [op EXCEPT ![o].pc = "unmark", ![o].todo = <<>>]
    ELSE /\ kind' = [k EXCEPT ![Head(s)] = None]
         /\ op' = [op EXCEPT ![o].pc = "undo", ![o].todo = s]

Unregister(o) ==
  IF op[o].act = "disable"
    THEN Undo(o, TypesOf[op[o].version], kind)
    ELSE /\ kind' = [t \in Types |-> IF t \in TypesIn(op[o].version) THEN None ELSE kind[t]]
         /\ Goto(o, "delete")

PopPool(o) ==
  /\ op[o].pc = "pop"
  /\ IF pools # None
       THEN /\ pool' = Closed(pools) /\ pools' = None
            /\ Goto(o, "close") /\ UNCHANGED kind
       ELSE Unregister(o) /\ UNCHANGED <<pool, pools>>
  /\ UNCHANGED <<dbVars, history>> /\ taskFrame

PoolClosed(o) ==
  /\ op[o].pc = "close"
  /\ Unregister(o)
  /\ UNCHANGED <<dbVars, pools, pool, history>> /\ taskFrame

PlaceholderBack(o) ==
  LET t == Head(op[o].todo) IN
  /\ op[o].pc = "undo"
  /\ IF typeRow[t] # "none" /\ kind[t] # None
       THEN Fail(o, {"halfway"}) /\ UNCHANGED kind
       ELSE /\ Undo(o, Tail(op[o].todo),
                    IF typeRow[t] = "none" THEN kind ELSE [kind EXCEPT ![t] = Placeholder])
            /\ UNCHANGED history
  /\ UNCHANGED <<dbVars, pools, pool>> /\ taskFrame

MarkDisabled(o) ==
  /\ op[o].pc = "unmark"
  /\ IF RowCurrent(o)
       THEN _mark_disabled /\ Succeed(o) /\ UNCHANGED history
       ELSE Fail(o, {"halfway"}) /\ UNCHANGED dbVars
  /\ UNCHANGED <<kind, pools, pool>> /\ taskFrame

_assert_no_assets(o) ==
  /\ op[o].pc = "assert"
  /\ IF \E t \in used : typeRow[t] # "none"
       THEN Fail(o, {})
       ELSE Goto(o, "pop") /\ UNCHANGED history
  /\ UNCHANGED <<dbVars, kind, pools, pool>> /\ taskFrame

\* The foreign key of assets refuses the deletion of a type in use.
DeletePlugin(o) ==
  /\ op[o].pc = "delete"
  /\ IF \E t \in used : typeRow[t] # "none"
       THEN Fail(o, {"halfway"}) /\ UNCHANGED dbVars
       ELSE _delete_plugin /\ Goto(o, "clean") /\ UNCHANGED history
  /\ UNCHANGED <<kind, pools, pool>> /\ taskFrame

RemoveFiles(o) ==
  /\ op[o].pc = "clean"
  /\ files' = {}
  /\ Succeed(o)
  /\ UNCHANGED <<dbVars, used, kind, pools, pool, last, before, history, faults, crashes>>

-----------------------------------------------------------------------------
(* PluginService._switch *)

switchFrame == UNCHANGED <<kind, pools, pool>> /\ taskFrame

Check(o) ==
  /\ op[o].pc = "check"
  /\ IF plugin.live /\ _installable_row = op[o].version
       THEN Fail(o, {})
       ELSE Goto(o, IF Enabled THEN "precheck" ELSE "record") /\ UNCHANGED history
  /\ UNCHANGED dbVars /\ switchFrame

\* A pool of its own asks the target version about the accounts there are.
_precheck_accounts(o) ==
  /\ op[o].pc = "precheck"
  /\ \/ Goto(o, "record") /\ UNCHANGED history
     \/ used \cap TypesIn(op[o].version) # {} /\ Fail(o, {})
  /\ UNCHANGED dbVars /\ switchFrame

SwitchVersion(o) ==
  /\ op[o].pc = "record"
  /\ IF RowCurrent(o)
       THEN /\ _switch_version(o)
            /\ op' = [op EXCEPT ![o].pc = "resume", ![o].revision = plugin'.revision]
            /\ UNCHANGED history
       ELSE Fail(o, {}) /\ UNCHANGED dbVars
  /\ switchFrame

Resume(o) ==
  /\ op[o].pc = "resume"
  /\ IF Enabled THEN Goto(o, "start") ELSE Succeed(o)
  /\ UNCHANGED <<dbVars, history>> /\ switchFrame

-----------------------------------------------------------------------------
(* Failures, the rest of the gateway, crashes *)

\* A busy or failing database, in the transaction the task waits for.
DbFails(o) ==
  /\ faults < MaxFaults
  /\ \/ op[o].pc \in {"check", "record", "assert"} /\ Fail(o, {})
     \/ op[o].pc \in {"resume", "mark", "undo", "unmark", "delete"} /\ Fail(o, {"halfway"})
     \/ op[o].pc = "restore" /\ op[o].todo # <<>> /\ Fail(o, {"halfway", "unwound"})
  /\ faults' = faults + 1
  /\ UNCHANGED <<dbVars, worldVars, kind, pools, pool, last, before, crashes>>

worldFrame == UNCHANGED <<dbVars, kind, pools, pool, op, last, before, history, faults, crashes>>

AddAsset(t) ==
  /\ kind[t] \in Tasks /\ typeRow[t] # "none" /\ op[Boot].pc = "done"
  /\ used' = used \cup {t} /\ UNCHANGED files /\ worldFrame

RemoveAsset(t) == used' = used \ {t} /\ UNCHANGED files /\ worldFrame

LoseFiles(v) == files' = files \ {v} /\ UNCHANGED used /\ worldFrame

\* A job that finds the version installed last still there writes its row anew.
_record_installed(v) ==
  /\ v = Latest /\ plugin.live /\ v \in files /\ op[Boot].pc = "done"
  /\ status' = [status EXCEPT ![v] = "installed"]
  /\ UNCHANGED <<plugin, typeRow, worldVars, kind, pools, pool, op, last, before, history,
                 faults, crashes>>

\* reconcile_types: a type with a row and no implementation gets its placeholder.
Reconciled(t) == IF typeRow[t] = "none" THEN None ELSE Placeholder

Restart ==
  /\ crashes < MaxCrashes
  /\ kind' = [t \in Types |-> Reconciled(t)]
  /\ pools' = None
  /\ pool' = [o \in Tasks |-> [version |-> None, open |-> FALSE]]
  /\ op' = [o \in Tasks |->
              IF o = Boot
                THEN IF Enabled /\ plugin.current # None
                       THEN Task("enable", "start", plugin.current, plugin.revision, "none")
                       ELSE Ended(o, "ok")
              ELSE IF Running(o) THEN Ended(o, "failed") ELSE op[o]]
  /\ last' = Boot /\ before' = kind' /\ history' = {}
  /\ crashes' = crashes + 1
  /\ UNCHANGED <<dbVars, worldVars, faults>>

-----------------------------------------------------------------------------
\* Every version is installed, none was enabled.
Init ==
  /\ plugin = [live |-> TRUE, expected |-> "disabled", current |-> None, revision |-> 1]
  /\ status = [v \in Versions |-> "installed"]
  /\ typeRow = [t \in Types |-> "none"]
  /\ used = {} /\ files = Versions
  /\ kind = [t \in Types |-> None] /\ before = kind
  /\ pools = None
  /\ pool = [o \in Tasks |-> [version |-> None, open |-> FALSE]]
  /\ op = [o \in Tasks |-> IF o = Boot THEN Task("enable", "done", None, 0, "ok")
                           ELSE NoTask]
  /\ last = Boot /\ history = {} /\ faults = 0 /\ crashes = 0

_activate(o) ==
  \/ StartFails(o) \/ Register(o) \/ Refused(o) \/ Restore(o) \/ Reinstate(o)
  \/ MarkEnabled(o) \/ DrainOld(o)

_switch(o) == Check(o) \/ _precheck_accounts(o) \/ SwitchVersion(o) \/ Resume(o)

TearDown(o) ==
  \/ PopPool(o) \/ PoolClosed(o) \/ PlaceholderBack(o) \/ MarkDisabled(o)
  \/ _assert_no_assets(o) \/ DeletePlugin(o) \/ RemoveFiles(o)

Next ==
  \/ \E o \in Ops : \/ enable(o) \/ disable(o) \/ uninstall(o)
                    \/ \E v \in Versions : switch(o, v)
  \/ \E o \in Tasks : _activate(o) \/ _switch(o) \/ TearDown(o) \/ DbFails(o)
  \/ \E t \in Types : AddAsset(t) \/ RemoveAsset(t)
  \/ \E v \in Versions : LoseFiles(v) \/ _record_installed(v)
  \/ Restart

Spec == Init /\ [][Next]_vars

-----------------------------------------------------------------------------
(* Properties *)

AtRest == \A o \in Tasks : ~Running(o)

Serves(t, v) == kind[t] \in Tasks /\ pool[kind[t]] = [version |-> v, open |-> TRUE]

\* However operations overlap, at most the current version is active in the database,
\* and the current version of an enabled plugin is, unless it was installed once more.
ActiveIsCurrent ==
  /\ \A v \in Versions : status[v] = "active" => plugin.current = v
  /\ Enabled => plugin.current # None /\ status[plugin.current] \in {"active", "installed"}

\* What the registry serves is what the database says: every type of the current
\* version from the one open pool, nothing when disabled.
OnlyOpen == \A o \in Tasks : pool[o].open => o = pools

Recorded ==
  /\ Enabled => /\ pools # None
                /\ \A t \in TypesIn(plugin.current) : Serves(t, plugin.current) /\ kind[t] = pools
  /\ ~Enabled => pools = None
  /\ OnlyOpen

\* As long as administrators act one at a time and no operation failed after it had
\* changed something, registry and database agree at rest.
ServedIsRecorded == AtRest /\ history = {} => Recorded

\* A start repairs what a crash or an overlap has left: each type that has a row is in
\* the registry, and is a placeholder or served by the current version of an enabled
\* plugin. Where the rollback of the activation fails this does not hold, and of a type
\* without a row it does not: the rollback leaves such a type with the stopped pool.
RestartRepairs ==
  last = Boot /\ op[Boot].pc = "done" /\ "unwound" \notin history =>
    \A t \in Types : typeRow[t] # "none" =>
      /\ kind[t] # None
      /\ kind[t] \in Tasks => Enabled /\ Serves(t, plugin.current)

\* service.py:515: an upgrade that fails comes back to the version that served before.
FailedSwitchRestores ==
  AtRest /\ "overlap" \notin history /\ op[last].act = "switch" /\ op[last].result = "failed" =>
    \A t \in Types : before[t] \in Tasks => kind[t] = before[t]

-----------------------------------------------------------------------------
(* What makes ServedIsRecorded and RestartRepairs inductive *)

\* A task that has not registered its pool does not serve, and each point belongs to
\* its operation.
Unserved == \A o \in Tasks :
  /\ op[o].pc \in {"idle", "start", "check", "precheck", "record", "resume"} => pools # o
  /\ op[o].pc \in {"check", "precheck", "record", "resume"} => op[o].act = "switch"

Alone == "overlap" \notin history => \A o, p \in Tasks : Running(o) /\ Running(p) => o = p

\* The new pool serves the version and only the one it replaced is open beside it.
Swapped(o) ==
  /\ pools = o /\ pool[o] = [version |-> op[o].version, open |-> TRUE]
  /\ \A t \in TypesIn(op[o].version) : kind[t] = o
  /\ op[o].old # o
  /\ \A p \in Tasks : pool[p].open => p \in {o, op[o].old}

\* While a rollback is under way, a type of the current version is served as before or
\* by the stopped pool, which has displaced the one that served it.
Unwinding(o) ==
  /\ Enabled => /\ pools # None /\ op[o].version = plugin.current
                /\ \A t \in TypesIn(plugin.current) :
                     \/ Serves(t, plugin.current) /\ kind[t] = pools
                     \/ kind[t] = o /\ op[o].displaced[t] # None
  /\ ~Enabled => pools = None

\* An activation that has changed nothing in the database yet.
Enabling(o) == op[o].act # "switch" /\ o # Boot

\* Where a task stands that no other has met and that has failed nowhere.
Standing(o) ==
  /\ op[o].pc \in {"check", "precheck", "record", "assert", "pop"} => Recorded
  /\ op[o].pc = "start" =>
       OnlyOpen /\ (Enabling(o) => Recorded /\ (Enabled => op[o].version = plugin.current))
  /\ op[o].pc = "restore" => OnlyOpen /\ (Enabling(o) => Unwinding(o))
  /\ op[o].pc = "mark" => Swapped(o)
  /\ op[o].pc = "drain" => Swapped(o) /\ Enabled /\ op[o].version = plugin.current
  /\ op[o].pc \in {"close", "undo", "unmark", "delete"} => OnlyOpen /\ pools = None
  /\ op[o].pc = "clean" => OnlyOpen /\ pools = None /\ ~Enabled
  /\ op[o].pc = "resume" => OnlyOpen /\ (~Enabled => pools = None)

Orderly == history = {} => \A o \in Tasks : Running(o) => Standing(o)

\* The recovery works alone, from the placeholders on.
Repairing ==
  LET v == op[Boot].version IN
  /\ op[Boot].pc = "start" =>
       Enabled /\ v = plugin.current /\ pools = None /\ \A t \in Types : kind[t] = Reconciled(t)
  /\ op[Boot].pc = "mark" =>
       /\ Enabled /\ v = plugin.current /\ op[Boot].old = None
       /\ pool[Boot] = [version |-> v, open |-> TRUE]
       /\ \A t \in Types : kind[t] = Boot \/ (t \notin TypesIn(v) /\ kind[t] = Reconciled(t))
  /\ op[Boot].pc = "restore" =>
       \A t \in Types : typeRow[t] # "none" =>
         \/ kind[t] = Placeholder
         \/ t \in TypesIn(v) /\ kind[t] # None /\ op[Boot].displaced[t] = Placeholder

BootAlone ==
  /\ op[Boot].pc \in {"start", "restore", "mark", "done"}
  /\ op[Boot].pc # "done" => last = Boot
  /\ last = Boot => Repairing /\ \A o \in Ops : ~Running(o)

Inv == Unserved /\ Alone /\ Orderly /\ BootAlone /\ ServedIsRecorded /\ RestartRepairs

=============================================================================
