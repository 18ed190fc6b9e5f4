----------------------------- MODULE ConfigReload -----------------------------
(***************************************************************************)
(* Hot reload of the proxy's configuration file (config/watcher.rs and      *)
(* config/manager.rs).  An edit of the file raises a notification; the      *)
(* notify thread turns it into a signal in a channel of one slot, or drops  *)
(* it when the slot is taken; the watcher task takes the signal, sleeps for *)
(* the debounce interval, loads the file and spawns a task that gives the   *)
(* configuration to the ConfigurationManager.  The manager's update is      *)
(* several steps with awaits between them, so two updates may interleave,   *)
(* and a rollback is an update too.                                         *)
(***************************************************************************)
EXTENDS Naturals, Sequences, SequencesExt

CONSTANTS
  Config,     \* what the file can be parsed as
  Valid,      \* those validate_engine_config accepts
  Broken,     \* a missing, truncated or unparsable file
  Updater,    \* tasks an update can run in; with one, updates never overlap
  MaxHistory, \* max_history_size, 10 in the code
  MaxEdits,   \* bound on the edits of the file
  MaxCalls    \* bound on the calls of trigger_reload and rollback_to_previous

ASSUME ConfigAssumption == Valid \subseteq Config /\ Broken \notin Config /\ Config # {}
ASSUME HistoryAssumption == MaxHistory \in Nat \ {0, 1}
ASSUME BoundAssumption == MaxEdits \in Nat /\ MaxCalls \in Nat

VARIABLES
  file,      \* what the file contains
  missed,    \* the last edit came before the watch was set up
  notices,   \* file system events not yet delivered
  signal,    \* the slot of the mpsc channel is taken
  watcher,   \* the watcher task: off, receiving, debouncing, loading
  read,      \* what the loader read of the file last
  loaded,    \* the configuration loaded last
  current,   \* ConfigurationManager.current_config
  history,   \* ConfigurationManager.config_history
  announced, \* the event broadcast last: [old, new]
  update,    \* update[u]: [pc, change] of the update_config u is in
  overlapped,\* history: an update began before another had ended
  edits,     \* edits so far
  calls      \* calls of trigger_reload and rollback_to_previous so far

reloadVars ==
  <<file, missed, notices, signal, watcher, read, loaded, current, history, announced,
    update, overlapped, edits, calls>>

managerVars == <<current, history, announced, overlapped>>

NoChange(c) == [old |-> c, new |-> c]
Free(u) == update[u].pc = "idle"

\* main() has loaded the file, with the validation level of the command line,
\* and given the result to a new manager.  The watch is set up later.
ReloadInit ==
  /\ file \in Config
  /\ missed = FALSE
  /\ notices = 0
  /\ signal = FALSE
  /\ watcher = "off"
  /\ read = file
  /\ loaded = file
  /\ current = file
  /\ history = <<file>>
  /\ announced = NoChange(file)
  /\ update = [u \in Updater |-> [pc |-> "idle", change |-> NoChange(file)]]
  /\ overlapped = FALSE
  /\ edits = 0
  /\ calls = 0

-----------------------------------------------------------------------------
(* The file and the notify thread.                                          *)

\* A save of an editor may be several edits: truncate, write, rename.
Edit(c) ==
  /\ edits < MaxEdits
  /\ edits' = edits + 1
  /\ file' = c
  /\ IF watcher = "off"
       THEN missed' = TRUE /\ UNCHANGED notices
       ELSE missed' = FALSE /\ notices' = notices + 1
  /\ UNCHANGED <<signal, watcher, read, loaded, managerVars, update, calls>>

\* try_send: a signal that finds the slot taken is dropped.
NoticeDelivered ==
  /\ notices > 0
  /\ notices' = notices - 1
  /\ signal' = TRUE
  /\ UNCHANGED <<file, missed, watcher, read, loaded, managerVars, update, edits, calls>>

TriggerReload ==
  /\ watcher # "off"
  /\ calls < MaxCalls
  /\ calls' = calls + 1
  /\ signal' = TRUE
  /\ UNCHANGED <<file, missed, notices, watcher, read, loaded, managerVars, update, edits>>

-----------------------------------------------------------------------------
(* The watcher task.                                                        *)

WatchStarts ==
  /\ watcher = "off"
  /\ watcher' = "receiving"
  /\ UNCHANGED <<file, missed, notices, signal, read, loaded, managerVars, update, edits, calls>>

\* recv() frees the slot before the sleep and the load, so that an edit during
\* the load leaves a signal behind.
WatcherWakes ==
  /\ watcher = "receiving"
  /\ signal
  /\ signal' = FALSE
  /\ watcher' = "debouncing"
  /\ UNCHANGED <<file, missed, notices, read, loaded, managerVars, update, edits, calls>>

\* The loader reads the file when the debounce interval is over.
WatcherReads ==
  /\ watcher = "debouncing"
  /\ watcher' = "loading"
  /\ read' = file
  /\ UNCHANGED <<file, missed, notices, signal, loaded, managerVars, update, edits, calls>>

\* A spawned update_config(c).
UpdateStarts(u, c) ==
  /\ Free(u)
  /\ update' = [update EXCEPT ![u] = [pc |-> "reading", change |-> NoChange(c)]]

\* A loop that empties the slot when it has loaded: one reload for all the
\* signals that came meanwhile.
WatcherLoadsDraining(u) ==
  /\ watcher = "loading"
  /\ watcher' = "receiving"
  /\ signal' = FALSE
  /\ IF read \in Valid
       THEN loaded' = read /\ UpdateStarts(u, read)
       ELSE UNCHANGED <<loaded, update>>
  /\ UNCHANGED <<file, missed, notices, read, managerVars, edits, calls>>

\* What the loader parses and accepts is loaded; a file it refuses is logged and
\* leaves the configuration alone.
WatcherLoads(u) ==
  /\ watcher = "loading"
  /\ watcher' = "receiving"
  /\ IF read \in Valid
       THEN loaded' = read /\ UpdateStarts(u, read)
       ELSE UNCHANGED <<loaded, update>>
  /\ UNCHANGED <<file, missed, notices, signal, read, managerVars, edits, calls>>

-----------------------------------------------------------------------------
(* The manager.                                                             *)

\* rollback_to_previous copies the last but one snapshot and then updates.
RollbackStarts(u) ==
  /\ calls < MaxCalls
  /\ calls' = calls + 1
  /\ Len(history) >= 2
  /\ UpdateStarts(u, history[Len(history) - 1])
  /\ UNCHANGED <<file, missed, notices, signal, watcher, read, loaded, managerVars, edits>>

Changed(u, pc, c) == update' = [update EXCEPT ![u] = [pc |-> pc, change |-> c]]

\* update_config takes its locks one at a time: another update may be between its
\* read and its event.
Overlaps(u) ==
  overlapped' = (overlapped \/ \E v \in Updater \ {u} :
                                 update[v].pc \in {"writing", "saving", "announcing"})

\* update_config reads the configuration it replaces, and validates the new
\* one: a rollback may meet an initial configuration that was never validated.
UpdateReads(u) ==
  /\ update[u].pc = "reading"
  /\ LET change == [update[u].change EXCEPT !.old = current]
     IN Changed(u, IF change.new \in Valid THEN "writing" ELSE "idle", change)
  /\ Overlaps(u)
  /\ UNCHANGED <<file, missed, notices, signal, watcher, read, loaded, current, history,
                 announced, edits, calls>>

UpdateWritesFirst(u) ==
  /\ update[u].pc = "writing"
  /\ current' = update[u].change.new
  /\ Changed(u, "saving", NoChange(update[u].change.new))
  /\ UNCHANGED <<file, missed, notices, signal, watcher, read, loaded, history, announced,
                 overlapped, edits, calls>>

UpdateWrites(u) ==
  /\ update[u].pc = "writing"
  /\ current' = update[u].change.new
  /\ Changed(u, "saving", update[u].change)
  /\ UNCHANGED <<file, missed, notices, signal, watcher, read, loaded, history, announced,
                 overlapped, edits, calls>>

\* save_snapshot: a full history loses its oldest snapshot.
SaveSnapshot(c) ==
  history' = IF Len(history) < MaxHistory THEN Append(history, c) ELSE Append(Tail(history), c)

UpdateSaves(u) ==
  /\ update[u].pc = "saving"
  /\ SaveSnapshot(update[u].change.new)
  /\ Changed(u, "announcing", update[u].change)
  /\ UNCHANGED <<file, missed, notices, signal, watcher, read, loaded, current, announced,
                 overlapped, edits, calls>>

UpdateAnnounces(u) ==
  /\ update[u].pc = "announcing"
  /\ announced' = update[u].change
  /\ Changed(u, "idle", update[u].change)
  /\ UNCHANGED <<file, missed, notices, signal, watcher, read, loaded, current, history,
                 overlapped, edits, calls>>

-----------------------------------------------------------------------------
UpdateStep(u) == UpdateReads(u) \/ UpdateWrites(u) \/ UpdateSaves(u) \/ UpdateAnnounces(u)
WatcherStep == WatcherWakes \/ WatcherReads \/ \E u \in Updater : WatcherLoads(u)

ReloadNext ==
  \/ \E c \in Config \cup {Broken} : Edit(c)
  \/ NoticeDelivered
  \/ TriggerReload
  \/ WatchStarts
  \/ WatcherStep
  \/ \E u \in Updater : RollbackStarts(u) \/ UpdateStep(u)

ReloadSpec == ReloadInit /\ [][ReloadNext]_reloadVars

\* The notify thread and the spawned tasks run; nobody has to edit or call.
ReloadFairness ==
  /\ WF_reloadVars(NoticeDelivered)
  /\ WF_reloadVars(WatchStarts)
  /\ WF_reloadVars(WatcherStep)
  /\ \A u \in Updater : WF_reloadVars(UpdateStep(u))

FairReloadSpec == ReloadSpec /\ ReloadFairness

-----------------------------------------------------------------------------
\* A subscriber that missed no event can follow the configuration: each event
\* starts from the configuration the event before it ended with, unless updates
\* overlapped.
ChangesChain ==
  [][announced' = announced \/ announced'.old = announced.new \/ overlapped]_reloadVars

\* What is dropped is a signal, never a change: when the file stops changing, its
\* content, if valid, is in the end what was loaded.  An edit between main()'s
\* load and the start of the watch is the exception.
LastEditIsLoaded == \A c \in Valid : <>[](file = c /\ ~missed) => <>[](loaded = c)
=============================================================================
