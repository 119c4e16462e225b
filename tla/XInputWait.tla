------------------------------ MODULE XInputWait ------------------------------
(***************************************************************************)
(* gbb_xinput_wait (xinput-wait.c): before the first event of a file is     *)
(* replayed, wait until the X server has taken up both devices of the       *)
(* player, which it does some time after the player has created them.  A    *)
(* thread asks for news of the devices, looks at the list, and looks again  *)
(* whenever the list has changed; the player's "ready" starts it.           *)
(*                                                                          *)
(* The cancellable is NULL in both callers and left out.                    *)
(***************************************************************************)
EXTENDS Integers

CONSTANT MaxChanges   \* bound on the changes of the server's device list

ASSUME MaxChangesAssumption == MaxChanges \in Nat

Nodes == {"keyboard", "mouse"}

VARIABLES
  player_ready,  \* GbbEventPlayer.ready: the device nodes are known
  wait,          \* where the wait is, from the call to its callback
  nodes,         \* the nodes in WaitData: the player's or still NULL
  selected,      \* the thread has asked for XI_HierarchyChanged
  listed,        \* the nodes in the list that XIQueryDevice has returned
  vanished,      \* a device of that list has gone since
  events,        \* hierarchy events the server has queued for the thread
  devices,       \* external: the nodes in the server's device list
  changes,       \* how often that list has changed
  both_seen      \* auxiliary: both nodes have been in the list at once

waitVars == <<player_ready, wait, nodes, selected, listed, vanished, events, devices,
              changes, both_seen>>

WaitStates ==
  {"none", "connected", "select", "check", "listed", "next", "found", "over", "error"}

WaitTypeOK ==
  /\ player_ready \in BOOLEAN
  /\ wait \in WaitStates
  /\ nodes \in {"NULL", "known"}
  /\ selected \in BOOLEAN
  /\ listed \subseteq Nodes
  /\ vanished \in BOOLEAN
  /\ events \in 0..MaxChanges
  /\ devices \subseteq Nodes
  /\ changes \in 0..MaxChanges
  /\ both_seen \in BOOLEAN

WaitInit ==
  /\ player_ready = FALSE
  /\ wait = "none"
  /\ nodes = "NULL"
  /\ selected = FALSE
  /\ listed = {}
  /\ vanished = FALSE
  /\ events = 0
  /\ devices \in SUBSET Nodes
  /\ changes = 0
  /\ both_seen = (devices = Nodes)

(* The server adds a device or loses it, and tells those who have asked.    *)
(* One that comes back is another device.                                   *)
DeviceListChanges ==
  /\ changes < MaxChanges
  /\ changes' = changes + 1
  /\ \E n \in Nodes :
       /\ devices' = IF n \in devices THEN devices \ {n} ELSE devices \cup {n}
       /\ vanished' = (vanished \/ n \in devices \cap listed)
  /\ events' = IF selected THEN events + 1 ELSE events
  /\ both_seen' = (both_seen \/ devices' = Nodes)
  /\ UNCHANGED <<player_ready, wait, nodes, selected, listed>>

-----------------------------------------------------------------------------
(* start_thread: the nodes are copied from the player, which has them by    *)
(* now (event-player.c:108-117).                                            *)
StartThread ==
  /\ wait' = "select"
  /\ nodes' = "known"

(* gbb_xinput_wait *)
Wait ==
  /\ wait = "none"
  /\ \/ player_ready /\ StartThread
     \/ ~player_ready /\ wait' = "connected" /\ UNCHANGED nodes
  /\ UNCHANGED <<player_ready, selected, listed, vanished, events, devices, changes,
                 both_seen>>

(* on_ready, if it is connected by now *)
PlayerBecomesReady ==
  /\ ~player_ready
  /\ player_ready' = TRUE
  /\ \/ wait = "connected" /\ StartThread
     \/ wait # "connected" /\ UNCHANGED <<wait, nodes>>
  /\ UNCHANGED <<selected, listed, vanished, events, devices, changes, both_seen>>

(* Mutants of SelectEvents and of CheckForDevices: the list is looked at    *)
(* before news of it are asked for; one of the devices will do.             *)
SelectEventsLate ==
  /\ \/ /\ wait = "select"
        /\ wait' = IF devices = Nodes THEN "found" ELSE "late"
        /\ UNCHANGED selected
     \/ wait = "late" /\ wait' = "next" /\ selected' = TRUE
  /\ UNCHANGED <<player_ready, nodes, listed, vanished, events, devices, changes, both_seen>>

CheckForDevicesEither ==
  /\ wait = "listed"
  /\ wait' = IF listed # {} THEN "found" ELSE "next"
  /\ listed' = {} /\ vanished' = FALSE
  /\ UNCHANGED <<player_ready, nodes, selected, events, devices, changes, both_seen>>

(* do_thread, from one call of the X server to the next *)
SelectEvents ==
  /\ wait = "select"
  /\ wait' = "check"
  /\ selected' = TRUE
  /\ UNCHANGED <<player_ready, nodes, listed, vanished, events, devices, changes, both_seen>>

(* check_for_devices: the list, and the property of each device in it, a    *)
(* call for each.  One that has vanished may be asked for before or after   *)
(* it did: after, the X error ends the process.                             *)
QueryDevices ==
  /\ wait = "check"
  /\ wait' = "listed"
  /\ listed' = devices
  /\ UNCHANGED <<player_ready, nodes, selected, vanished, events, devices, changes,
                 both_seen>>

CheckForDevices ==
  /\ wait = "listed"
  /\ \/ wait' = IF nodes = "known" /\ listed = Nodes THEN "found" ELSE "next"
     \/ vanished /\ wait' = "error"
  /\ listed' = {} /\ vanished' = FALSE
  /\ UNCHANGED <<player_ready, nodes, selected, events, devices, changes, both_seen>>

NextEvent ==
  /\ wait = "next" /\ events > 0
  /\ wait' = "check"
  /\ events' = events - 1
  /\ UNCHANGED <<player_ready, nodes, selected, listed, vanished, devices, changes,
                 both_seen>>

Thread == SelectEvents \/ QueryDevices \/ CheckForDevices \/ NextEvent

(* on_thread_done: the callback of the wait runs. *)
OnThreadDone ==
  /\ wait = "found"
  /\ wait' = "over"
  /\ UNCHANGED <<player_ready, nodes, selected, listed, vanished, events, devices,
                 changes, both_seen>>
==============================================================================
