------------------------------- MODULE SohStore ------------------------------
(* The battery's health on disk: BatterySohCalculator of                      *)
(* battery_soh_calculator.py, its debounced save, the final save of an unload *)
(* or of the stop of Home Assistant, and the next instance that loads it.     *)
(* What is stored is the baseline (the highest capacity seen, in coarse       *)
(* steps) and the number of changes it was part of.                           *)
EXTENDS Naturals, Sequences

CONSTANTS
    Capacities,    \* plausible capacity readings, as levels
    Closers,       \* who shuts the calculator down: the unload, the stop event
    MaxChanges,    \* bound on the accepted changes of all instances
    MaxReloads,    \* bound on the reloads of the entry
    MaxIoErrors    \* bound on failed reads and writes of the store

ASSUME SohConstants == Capacities \subseteq Nat \ {0}

VARIABLES
    live,      \* what the instance holds
    disk,      \* what the store holds
    writes,    \* snapshots on their way to the disk, oldest first
    save_task, \* the debounced save: "none", "sleep" or "write"
    has_updates,
    load_failed, \* _storage_load_failed
    stopped,   \* _stopped
    closer,    \* per closer: "idle", "lock", "task", "flush", "done"
    ioErrors, sohReloads

sohVars == <<live, disk, writes, save_task, has_updates, load_failed, stopped, closer, ioErrors, sohReloads>>

NoHealth == [base |-> 0, n |-> 0]

SohInit ==
    /\ live = NoHealth /\ disk = NoHealth
    /\ writes = <<>>
    /\ save_task = "none"
    /\ has_updates = FALSE /\ load_failed = FALSE /\ stopped = FALSE
    /\ closer = [c \in Closers |-> "idle"]
    /\ ioErrors = 0 /\ sohReloads = 0

-----------------------------------------------------------------------------

\* A reading becomes the baseline when there is none or it is clearly higher.
NewBase(cap) == IF cap > live.base THEN cap ELSE live.base

\* schedule_save: one task at most.
Scheduled == IF save_task = "none" THEN "sleep" ELSE save_task

\* Mutant: readings are taken in until the object is gone.
AlwaysAccepts == TRUE
\* The stop freezes what was accepted.
Accepts == ~stopped

\* update_from_modbus with a reading that raises the baseline or is due as a sample.
UpdateHealth(cap) ==
    /\ Accepts /\ live.n < MaxChanges
    /\ live' = [base |-> NewBase(cap), n |-> live.n + 1]
    /\ has_updates' = TRUE
    /\ save_task' = IF stopped THEN save_task ELSE Scheduled
    /\ UNCHANGED <<disk, writes, load_failed, stopped, closer, ioErrors, sohReloads>>

\* Mutant: the file that could not be read is overwritten.
SaveAnyway == TRUE
\* async_save leaves an unreadable file alone.
MaySave == ~load_failed

\* The debounce is over: a snapshot is handed to the store.
SaveWakes ==
    /\ save_task = "sleep"
    /\ IF MaySave THEN save_task' = "write" /\ writes' = Append(writes, live)
                  ELSE save_task' = "none" /\ UNCHANGED writes
    /\ UNCHANGED <<live, disk, has_updates, load_failed, stopped, closer, ioErrors, sohReloads>>

\* The file operation ends, also when its waiter was cancelled; an error is
\* logged.  Who waited for it goes on.
WriteEnds(ok) ==
    /\ writes # <<>>
    /\ ok \/ ioErrors < MaxIoErrors
    /\ disk' = IF ok THEN Head(writes) ELSE disk
    /\ ioErrors' = IF ok THEN ioErrors ELSE ioErrors + 1
    /\ writes' = Tail(writes)
    /\ save_task' = IF save_task = "write" THEN "none" ELSE save_task
    /\ closer' = [c \in Closers |-> IF closer[c] = "flush" THEN "done" ELSE closer[c]]
    /\ UNCHANGED <<live, has_updates, load_failed, stopped, sohReloads>>

-----------------------------------------------------------------------------
(* async_shutdown.                                                         *)

LockHeld == \E c \in Closers : closer[c] \in {"task", "flush"}

\* Anything accepted is written once more: a save may have failed unnoticed,
\* and an older snapshot lacks the updates since.
FinalSave == has_updates

\* Under _shutdown_lock; the second closer finds it stopped.  A sleeping save
\* is cancelled, a writing one awaited.
ShutdownBegins(c) ==
    /\ closer[c] \in {"idle", "lock"}
    /\ IF LockHeld THEN closer' = [closer EXCEPT ![c] = "lock"] /\ UNCHANGED <<stopped, save_task>>
       ELSE IF stopped THEN closer' = [closer EXCEPT ![c] = "done"] /\ UNCHANGED <<stopped, save_task>>
       ELSE /\ stopped' = TRUE
            /\ save_task' = IF save_task = "sleep" THEN "none" ELSE save_task
            /\ closer' = [closer EXCEPT ![c] = "task"]
    /\ UNCHANGED <<live, disk, writes, has_updates, load_failed, ioErrors, sohReloads>>

ShutdownFlushes(c) ==
    /\ closer[c] = "task" /\ save_task # "write"
    /\ IF FinalSave /\ MaySave
       THEN writes' = Append(writes, live) /\ closer' = [closer EXCEPT ![c] = "flush"]
       ELSE closer' = [closer EXCEPT ![c] = "done"] /\ UNCHANGED writes
    /\ UNCHANGED <<live, disk, save_task, has_updates, load_failed, stopped, ioErrors, sohReloads>>

\* The time limit of the clean-up step: a closer that waits for the lock gives
\* up; one that waits for a write finishes it all the same before it is gone.
ShutdownExpires(c) ==
    /\ closer[c] = "lock"
    /\ closer' = [closer EXCEPT ![c] = "done"]
    /\ UNCHANGED <<live, disk, writes, save_task, has_updates, load_failed, stopped, ioErrors, sohReloads>>

\* The entry is set up again: async_load of a new instance.
ReloadHealth(ok) ==
    /\ stopped /\ \A c \in Closers : closer[c] \in {"idle", "done"}
    /\ sohReloads < MaxReloads /\ (ok \/ ioErrors < MaxIoErrors)
    /\ live' = IF ok THEN disk ELSE [NoHealth EXCEPT !.n = disk.n]
    /\ load_failed' = ~ok
    /\ ioErrors' = IF ok THEN ioErrors ELSE ioErrors + 1
    /\ has_updates' = FALSE /\ stopped' = FALSE
    /\ closer' = [c \in Closers |-> "idle"]
    /\ sohReloads' = sohReloads + 1
    /\ UNCHANGED <<disk, writes, save_task>>

SohNext ==
    \/ \E cap \in Capacities : UpdateHealth(cap)
    \/ SaveWakes \/ \E ok \in BOOLEAN : WriteEnds(ok) \/ ReloadHealth(ok)
    \/ \E c \in Closers : ShutdownBegins(c) \/ ShutdownFlushes(c) \/ ShutdownExpires(c)

SohSpec == SohInit /\ [][SohNext]_sohVars

-----------------------------------------------------------------------------

\* When the shutdown is over nothing is on its way to the disk any more, so
\* that the next instance loads what is there, and everything accepted is on
\* the disk, unless the store failed: neither a save that was asleep or in
\* the middle of writing, nor a second closer, nor the time limit loses it.
ShutdownIsDurable ==
    (stopped /\ \A c \in Closers : closer[c] \in {"idle", "done"}) =>
        /\ writes = <<>> /\ save_task = "none"
        /\ ioErrors = 0 => disk = live

\* What is accepted after a reload goes on from what was stored: the baseline
\* on disk is never replaced by a lower one, also not by an instance that
\* could not read it ("Preserve that file until a successful load").
BaselineKept == disk'.base >= disk.base

\* The history of the battery survives unloads, stops and errors of the disk
\* (async_save, async_shutdown, async_load).
SohKept == [][ShutdownIsDurable' /\ BaselineKept]_sohVars

=============================================================================
