----------------------------- MODULE SystemState -----------------------------
(***************************************************************************)
(* GbbSystemState (system-state.c): the brightness of the screen and of the *)
(* keyboard, set through two proxies of the settings daemon that are made   *)
(* asynchronously.  What is saved is what a proxy has cached, which lags    *)
(* behind the daemon's value; what is set is set by a synchronous call.     *)
(***************************************************************************)
EXTENDS Integers

CONSTANTS
  Levels,     \* the brightnesses
  Available,  \* the devices whose brightness the daemon controls
  Unknown     \* no property is cached

Devices == {"screen", "keyboard"}

ASSUME LevelsAssumption == Levels \subseteq Nat /\ 0 \in Levels /\ Unknown \notin Levels
ASSUME AvailableAssumption == Available \subseteq Devices

VARIABLES
  proxy,             \* has the device's proxy been made?
  cached,            \* the Brightness property each proxy has cached
  actual,            \* external: the brightness of each device
  saved_brightness,  \* saved_screen_brightness, saved_keyboard_brightness
  original,          \* auxiliary: the brightnesses, if known when they were saved
  refused            \* auxiliary: the devices of which the last restore failed

stateVars == <<proxy, cached, actual, saved_brightness, original, refused>>

SystemStateTypeOK ==
  /\ proxy \in [Devices -> BOOLEAN]
  /\ cached \in [Devices -> Levels \cup {Unknown}]
  /\ actual \in [Devices -> Levels]
  /\ saved_brightness \in [Devices -> Levels]
  /\ original \in [Devices -> Levels \cup {Unknown}]
  /\ refused \subseteq Devices

(* gbb_system_state_init: both proxies are on their way. *)
SystemStateInit ==
  /\ proxy = [d \in Devices |-> FALSE]
  /\ cached = [d \in Devices |-> Unknown]
  /\ actual \in [Devices -> Levels]
  /\ saved_brightness = [d \in Devices |-> 0]
  /\ original = [d \in Devices |-> Unknown]
  /\ refused = {}

(* on_screen_interface_ready_cb, on_keyboard_interface_ready_cb.  READY is  *)
(* emitted with the second one; nothing is connected to it.                 *)
InterfaceReady(d) ==
  /\ ~proxy[d]
  /\ proxy' = [proxy EXCEPT ![d] = TRUE]
  /\ cached' = [cached EXCEPT ![d] = IF d \in Available THEN actual[d] ELSE Unknown]
  /\ UNCHANGED <<actual, saved_brightness, original, refused>>

(* They die if there is no proxy to be had. *)
InterfaceFails(d) == ~proxy[d] /\ UNCHANGED stateVars

(* The daemon's signal reaches the proxy: until then it holds an old value. *)
PropertiesChanged(d) ==
  /\ proxy[d] /\ d \in Available /\ cached[d] # actual[d]
  /\ cached' = [cached EXCEPT ![d] = actual[d]]
  /\ UNCHANGED <<proxy, actual, saved_brightness, original, refused>>

(* The user, or the daemon that dims the screen, sets a brightness. *)
ChangeBrightness(d, level) ==
  /\ d \in Available /\ level # actual[d]
  /\ actual' = [actual EXCEPT ![d] = level]
  /\ UNCHANGED <<proxy, cached, saved_brightness, original, refused>>

-----------------------------------------------------------------------------
(* What a call does to the device, whatever else the callback does.         *)

(* gbb_system_state_save: a missing proxy or property is read as zero. *)
Save ==
  /\ saved_brightness' = [d \in Devices |-> IF cached[d] = Unknown THEN 0 ELSE cached[d]]
  /\ original' = [d \in Devices |-> IF cached[d] = actual[d] THEN actual[d] ELSE Unknown]

(* The devices a call reaches: it has a proxy, and the daemon controls it. *)
Controlled == {d \in Available : proxy[d]}

(* Mutant of SetBrightnesses: both values go to the other device. *)
SetBrightnessesSwapped(levels, failed) ==
  actual' = [d \in Devices |->
               IF d \in Controlled \ failed
               THEN IF d = "screen" THEN levels["keyboard"] ELSE levels["screen"]
               ELSE actual[d]]

(* gbb_system_state_set_brightnesses: the call of a missing proxy does      *)
(* nothing, and one that fails is only warned about: that of a device the   *)
(* daemon does not control, and any that is refused or timed out.  (What is *)
(* timed out and set later is a ChangeBrightness.)                          *)
SetBrightnesses(levels, failed) ==
  actual' = [d \in Devices |->
               IF d \in Controlled \ failed THEN levels[d] ELSE actual[d]]

(* gbb_system_state_restore *)
Restore ==
  \E failed \in SUBSET Controlled :
    SetBrightnesses(saved_brightness, failed) /\ refused' = failed
==============================================================================
