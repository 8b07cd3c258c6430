---------------------------- MODULE RestoreFence ----------------------------
(***************************************************************************)
(* Backup and restore of a data directory (operations/backup.py) and the   *)
(* fence that a restore leaves in it (restore_fence.py, delivery/          *)
(* effects.py).  A backup copies the databases one at a time, from a       *)
(* service that may be running; a restore builds a directory beside its    *)
(* target and renames it.  Every directory can be served, the old ones     *)
(* again, too.                                                             *)
(***************************************************************************)
EXTENDS Naturals, Sequences

CONSTANTS Operations,     \* calls to the outside, each meant to happen once
          MaxTrees,       \* bound: data directories
          MaxArchives,    \* bound: backup archives
          MaxStops        \* bound: how often the service stops or is lost

ASSUME FenceAssumption == {MaxTrees, MaxArchives, MaxStops} \subseteq Nat

Databases == <<"effects", "tasks">>

VARIABLES
    trees,       \* data directories: the rows of the journal, the results in
                 \* the task database, and whether the fence is there
    archives,    \* complete archives: the copy of each database; an archive
                 \* that was damaged, or is of another release, is not sound
    tool,        \* the backup or restore at work
    serving,     \* the directory the service runs on, 0 when it is stopped
    flight,      \* where the running service is with each operation
    issued,      \* history: dispatches of each operation, from any directory
    stops

fenceVars == <<trees, archives, tool, serving, flight, issued, stops>>

NoTool == [job |-> "none", of |-> 0, tree |-> << >>]
Unused == [effects |-> [o \in Operations |-> "absent"], tasks |-> {}, fence |-> FALSE]
Landed == [o \in Operations |-> "off"]
Row(o) == trees[serving].effects[o]
Fly(o, where) == flight' = [flight EXCEPT ![o] = where]

FenceInit ==
    /\ trees = <<Unused>>
    /\ archives = << >>
    /\ tool = NoTool
    /\ serving = 1
    /\ flight = Landed
    /\ issued = [o \in Operations |-> 0]
    /\ stops = 0

-----------------------------------------------------------------------------
(* The service. A new intent needs a directory without a fence, and so does *)
(* the dispatch; a row that is there is replayed or refused.                *)
Fenced(t) == trees[t].fence

Intend(o) ==
    /\ serving # 0
    /\ Row(o) = "absent"
    /\ ~Fenced(serving)
    /\ trees' = [trees EXCEPT ![serving].effects[o] = "pending"]
    /\ Fly(o, "intent")
    /\ UNCHANGED <<archives, tool, serving, issued, stops>>

Dispatch(o) ==
    /\ flight[o] = "intent"
    /\ ~Fenced(serving)
    /\ issued' = [issued EXCEPT ![o] = @ + 1]
    /\ Fly(o, "sent")
    /\ UNCHANGED <<trees, archives, tool, serving, stops>>

SettleCall(o) ==
    /\ flight[o] = "sent"
    /\ \E row \in {"completed", "unknown"} :
          trees' = [trees EXCEPT ![serving].effects[o] = row]
    /\ Fly(o, "off")
    /\ UNCHANGED <<archives, tool, serving, issued, stops>>

Keep(o) ==
    /\ serving # 0
    /\ Row(o) = "completed"
    /\ o \notin trees[serving].tasks
    /\ trees' = [trees EXCEPT ![serving].tasks = @ \union {o}]
    /\ UNCHANGED <<archives, tool, serving, flight, issued, stops>>

Stop ==
    /\ serving # 0
    /\ stops < MaxStops
    /\ stops' = stops + 1
    /\ serving' = 0
    /\ flight' = Landed
    /\ UNCHANGED <<trees, archives, tool, issued>>

Serve ==
    /\ serving = 0
    /\ \E t \in 1 .. Len(trees) : serving' = t
    /\ UNCHANGED <<trees, archives, tool, flight, issued, stops>>

-----------------------------------------------------------------------------
(* The tools. Both give up on any error, and can be lost: nothing is        *)
(* published but what the last step publishes.                              *)
ToolIdle == tool.job = "none"
GiveUp ==
    /\ ~ToolIdle
    /\ tool' = NoTool
    /\ UNCHANGED <<trees, archives, serving, flight, issued, stops>>

StartBackup ==
    /\ ToolIdle
    /\ Len(archives) < MaxArchives
    /\ \E t \in 1 .. Len(trees) : tool' = [job |-> "backup", of |-> t, tree |-> << >>]
    /\ UNCHANGED <<trees, archives, serving, flight, issued, stops>>

(* Each database is consistent in itself; they are of different moments.    *)
Snapshot ==
    LET next == Databases[Len(tool.tree) + 1] IN
    /\ tool.job = "backup"
    /\ Len(tool.tree) < Len(Databases)
    /\ tool' = [tool EXCEPT !.tree = Append(@, trees[tool.of][next])]
    /\ UNCHANGED <<trees, archives, serving, flight, issued, stops>>

PublishArchive ==
    /\ tool.job = "backup"
    /\ Len(tool.tree) = Len(Databases)
    /\ archives' = Append(archives, [copies |-> tool.tree, sound |-> TRUE])
    /\ tool' = NoTool
    /\ UNCHANGED <<trees, serving, flight, issued, stops>>

Damage ==
    /\ \E a \in 1 .. Len(archives) :
          /\ archives[a].sound
          /\ archives' = [archives EXCEPT ![a].sound = FALSE]
    /\ UNCHANGED <<trees, tool, serving, flight, issued, stops>>

StartRestore ==
    /\ ToolIdle
    /\ Len(trees) < MaxTrees
    /\ \E a \in 1 .. Len(archives) :
          /\ archives[a].sound
          /\ tool' = [job |-> "restore", of |-> a, tree |-> << >>]
    /\ UNCHANGED <<trees, archives, serving, flight, issued, stops>>

(* Member after member is checked against the manifest.                     *)
Unpack ==
    /\ tool.job = "restore"
    /\ Len(tool.tree) < Len(Databases)
    /\ archives[tool.of].sound
    /\ tool' = [tool EXCEPT !.tree = Append(@, archives[tool.of].copies[Len(@) + 1])]
    /\ UNCHANGED <<trees, archives, serving, flight, issued, stops>>

StagedFenceAtFirst == Len(trees) = 1
StagedFence == TRUE
StageFence ==
    /\ tool.job = "restore"
    /\ Len(tool.tree) = Len(Databases)
    /\ tool' = [tool EXCEPT !.tree = Append(@, StagedFence)]
    /\ UNCHANGED <<trees, archives, serving, flight, issued, stops>>

(* The archive holds databases only: a fence comes from this restore.       *)
PublishTree ==
    /\ tool.job = "restore"
    /\ Len(tool.tree) = Len(Databases) + 1
    /\ trees' = Append(trees, [effects |-> tool.tree[1], tasks |-> tool.tree[2],
                               fence |-> tool.tree[3]])
    /\ tool' = NoTool
    /\ UNCHANGED <<archives, serving, flight, issued, stops>>

FenceNext ==
    \/ \E o \in Operations : Intend(o) \/ Dispatch(o) \/ SettleCall(o) \/ Keep(o)
    \/ Stop \/ Serve \/ GiveUp
    \/ StartBackup \/ Snapshot \/ PublishArchive \/ Damage
    \/ StartRestore \/ Unpack \/ StageFence \/ PublishTree

FenceSpec == FenceInit /\ [][FenceNext]_fenceVars

-----------------------------------------------------------------------------
(* No operation goes out twice, from whatever directory the service runs:   *)
(* a backup may miss calls made after it, or between its copies, and a      *)
(* restore of it, or of a backup of a restored directory, must not repeat   *)
(* them (RUNBOOK.md, 5.2; effects.py:92-102, 321, 441; backup.py:372-374).  *)
NothingIsRepeated == \A o \in Operations : issued[o] <= 1
=============================================================================
