-------------------------- MODULE ChargeBlockSwitch --------------------------
(***************************************************************************)
(* "Block Battery Charging": while the switch is on, register 1038 is held *)
(* at 0 W by a keepalive task that rewrites it every 15 s.                 *)
(***************************************************************************)
EXTENDS ChargeLimitBus

CONSTANTS BlockCalls,     \* service calls on the switch that can be under way
          BlockKeepalive  \* the keepalive task

ASSUME BlockIdentities == BlockKeepalive \notin BlockCalls

VARIABLES
    blkPc,    \* where each call, and the keepalive, is suspended
    blkOn,    \* _is_on
    blkSnap   \* _original_charge_limit

blkVars == <<blkPc, blkOn, blkSnap>>

BlockTasks == BlockCalls \cup {BlockKeepalive}

BlockInit ==
    /\ blkPc = [t \in BlockTasks |-> "idle"]
    /\ blkOn = FALSE
    /\ blkSnap = NoWatts

BlockTypeOK ==
    /\ blkPc \in [BlockTasks ->
                    {"idle", "snapshot", "block", "restore", "remove", "gone",
                     "sleep", "rewrite"}]
    /\ blkOn \in BOOLEAN
    /\ blkSnap \in Nat \cup {NoWatts}

\* A caller issues a call: without "overlap" it waits for the previous one,
\* without "redundant" it does not repeat what the state already says.
BlockMayCall(c, useful) ==
    /\ blkPc[c] = "idle"
    /\ "overlap" \in Habits \/ \A d \in BlockCalls : blkPc[d] = "idle"
    /\ "redundant" \in Habits \/ useful

\* async_turn_on after the snapshot: acquire 1038 and write 0, or raise and
\* keep the snapshot.
BlockEngage(c, snapshot) ==
    /\ blkSnap' = snapshot
    /\ \/ /\ CanAcquire(OWNER_CHARGE_BLOCK)
          /\ owner' = OWNER_CHARGE_BLOCK
          /\ Await(c, WriteOf(c, "1038", 0))
          /\ blkPc' = [blkPc EXCEPT ![c] = "block"]
       \/ /\ ~CanAcquire(OWNER_CHARGE_BLOCK)
          /\ GoOn(c)
          /\ blkPc' = [blkPc EXCEPT ![c] = "idle"]
          /\ UNCHANGED owner
    /\ UNCHANGED blkOn

\* async_turn_on: read the limit unless one is already snapshotted.
BlockTurnOn(c) ==
    /\ BlockMayCall(c, ~blkOn)
    /\ \/ /\ blkSnap # NoWatts
          /\ BlockEngage(c, blkSnap)
       \/ /\ blkSnap = NoWatts
          /\ Await(c, ReadOf(c, "1038"))
          /\ blkPc' = [blkPc EXCEPT ![c] = "snapshot"]
          /\ UNCHANGED <<owner, blkOn, blkSnap>>

\* _snapshot_charge_limit has its answer; a failed read leaves no snapshot.
BlockSnapshot(c) ==
    /\ blkPc[c] = "snapshot"
    /\ Replied(c)
    /\ BlockEngage(c, IF Succeeded(c) THEN resp[c].val ELSE blkSnap)

\* Mutant: the error path keeps register 1038.
BlockFailedOwning(c) ==
    /\ blkPc[c] = "block"
    /\ Replied(c) /\ ~Succeeded(c)
    /\ blkSnap' = NoWatts
    /\ GoOn(c)
    /\ blkPc' = [blkPc EXCEPT ![c] = "idle"]
    /\ UNCHANGED <<owner, blkOn>>

\* _write_block failed: give everything back and raise.
BlockFailed(c) ==
    /\ blkPc[c] = "block"
    /\ Replied(c) /\ ~Succeeded(c)
    /\ blkSnap' = NoWatts
    /\ owner' = AfterRelease(OWNER_CHARGE_BLOCK)
    /\ GoOn(c)
    /\ blkPc' = [blkPc EXCEPT ![c] = "idle"]
    /\ UNCHANGED blkOn

\* The limit is 0: the switch is on, and a new keepalive replaces the old.
BlockStarted(c) ==
    /\ blkPc[c] = "block"
    /\ Succeeded(c)
    /\ blkOn' = TRUE
    /\ blkPc' = [blkPc EXCEPT ![c] = "idle", ![BlockKeepalive] = "sleep"]
    /\ bus' = DropFrom(bus, {BlockKeepalive})
    /\ backoff' = BackoffWithout({BlockKeepalive})
    /\ resp' = [resp EXCEPT ![c] = Silence, ![BlockKeepalive] = Silence]
    /\ UNCHANGED <<owner, reg, closing, blkSnap>>

\* Cancel the keepalive, consume the snapshot and write the limit back.
BlockRestore(c, to) ==
    /\ blkPc' = [blkPc EXCEPT ![c] = to, ![BlockKeepalive] = "idle"]
    /\ bus' = Append(DropFrom(bus, {BlockKeepalive}),
                     WriteOf(c, "1038", LimitOr(blkSnap, DeviceLimit)))
    /\ backoff' = BackoffWithout({BlockKeepalive})
    /\ resp' = [resp EXCEPT ![c] = Silence, ![BlockKeepalive] = Silence]
    /\ blkSnap' = NoWatts
    /\ UNCHANGED <<owner, reg, closing>>

BlockTurnOff(c) ==
    /\ BlockMayCall(c, blkOn)
    /\ BlockRestore(c, "restore")
    /\ UNCHANGED blkOn

\* async_turn_off goes on whether or not the restoring write succeeded.
BlockTurnedOff(c) ==
    /\ blkPc[c] = "restore"
    /\ Replied(c)
    /\ blkOn' = FALSE
    /\ owner' = AfterRelease(OWNER_CHARGE_BLOCK)
    /\ GoOn(c)
    /\ blkPc' = [blkPc EXCEPT ![c] = "idle"]
    /\ UNCHANGED blkSnap

\* async_will_remove_from_hass: restore if the switch was on.
BlockRemove(c) ==
    /\ blkPc[c] = "idle"
    /\ \/ /\ blkOn
          /\ blkOn' = FALSE
          /\ BlockRestore(c, "remove")
       \/ /\ ~blkOn
          /\ blkPc' = [blkPc EXCEPT ![c] = "gone", ![BlockKeepalive] = "idle"]
          /\ bus' = DropFrom(bus, {BlockKeepalive})
          /\ backoff' = BackoffWithout({BlockKeepalive})
          /\ resp' = [resp EXCEPT ![BlockKeepalive] = Silence]
          /\ UNCHANGED <<owner, reg, closing, blkOn, blkSnap>>

BlockRemoved(c) ==
    /\ blkPc[c] = "remove"
    /\ Replied(c)
    /\ owner' = AfterRelease(OWNER_CHARGE_BLOCK)
    /\ GoOn(c)
    /\ blkPc' = [blkPc EXCEPT ![c] = "gone"]
    /\ UNCHANGED <<blkOn, blkSnap>>

\* _run_keepalive wakes up: rewrite the block, or stop if switched off.
BlockKeepaliveTick ==
    /\ blkPc[BlockKeepalive] = "sleep"
    /\ \/ /\ blkOn
          /\ Await(BlockKeepalive, WriteOf(BlockKeepalive, "1038", 0))
          /\ blkPc' = [blkPc EXCEPT ![BlockKeepalive] = "rewrite"]
       \/ /\ ~blkOn
          /\ GoOn(BlockKeepalive)
          /\ blkPc' = [blkPc EXCEPT ![BlockKeepalive] = "idle"]
    /\ UNCHANGED <<owner, blkOn, blkSnap>>

\* The rewrite is answered: sleep again, or end for good on an error.
BlockKeepaliveWritten ==
    /\ blkPc[BlockKeepalive] = "rewrite"
    /\ Replied(BlockKeepalive)
    /\ blkPc' = [blkPc EXCEPT ![BlockKeepalive] =
                    IF Succeeded(BlockKeepalive) /\ blkOn THEN "sleep" ELSE "idle"]
    /\ GoOn(BlockKeepalive)
    /\ UNCHANGED <<owner, blkOn, blkSnap>>

BlockGone == \E c \in BlockCalls : blkPc[c] \in {"remove", "gone"}

\* Somebody calls the switch.
BlockCall == \E c \in BlockCalls : ~BlockGone /\ (BlockTurnOn(c) \/ BlockTurnOff(c))

\* A coroutine of the switch goes on: it is answered, or its sleep is over.
BlockGoOn(t) ==
    \/ /\ t \in BlockCalls
       /\ \/ BlockSnapshot(t)
          \/ BlockFailed(t)
          \/ BlockStarted(t)
          \/ BlockTurnedOff(t)
          \/ BlockRemoved(t)
    \/ /\ t = BlockKeepalive
       /\ \/ BlockKeepaliveTick
          \/ BlockKeepaliveWritten

\* Home Assistant removes the entity, once.
BlockRemoval == \E c \in BlockCalls : ~BlockGone /\ BlockRemove(c)

\* No call is under way and the keepalive, if any, sleeps.
BlockQuiet ==
    /\ \A c \in BlockCalls : blkPc[c] \in {"idle", "gone"}
    /\ blkPc[BlockKeepalive] \in {"idle", "sleep"}
=============================================================================
