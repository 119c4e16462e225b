---------------------------- MODULE EventRecorder ----------------------------
(***************************************************************************)
(* GbbEventRecorder (event-recorder.c): writes the keys and buttons of the  *)
(* user as a log that can be replayed.  Super-Q ends it: whatever is held   *)
(* is released in the log and the context is disabled, which takes effect   *)
(* only some events later.  Times and positions are left out, and so is     *)
(* motion, which changes nothing that is held.                              *)
(***************************************************************************)
EXTENDS Integers, SequencesExt

CONSTANTS
  Super, Q,    \* the two keys of the shortcut
  OtherKeys,
  Buttons,     \* the buttons that are held down
  Wheel,       \* buttons 4 and 5
  MaxLog       \* bound on the length of the log

Keys == OtherKeys \cup {Super, Q}
Codes == Keys \cup Buttons \cup {Wheel}
NotStopped == -1

ASSUME KeysAssumption ==
  /\ Super # Q /\ {Super, Q} \cap OtherKeys = {}
  /\ Keys \cap (Buttons \cup {Wheel}) = {} /\ Wheel \notin Buttons
ASSUME MaxLogAssumption == MaxLog \in Nat

VARIABLES
  out,              \* where fprintf writes: stdout, or a file open for reading
  context,          \* the XRecord context
  pressed_keys,     \* the two GLists, the last pressed first
  pressed_buttons,
  log,              \* what has been written
  stop_at           \* auxiliary: the length of the log at the first Super-Q

recorderVars == <<out, context, pressed_keys, pressed_buttons, log, stop_at>>

Entry(type, code) == [type |-> type, code |-> code]
Entries == [type : {"Press", "Release", "Wheel"}, code : Codes]

RecorderTypeOK ==
  /\ out \in {"none", "stdout", "file"}
  /\ context \in {"none", "enabled", "disabling", "disabled"}
  /\ pressed_keys \in Seq(Keys) /\ IsInjective(pressed_keys)
  /\ pressed_buttons \in Seq(Buttons) /\ IsInjective(pressed_buttons)
  /\ log \in Seq(Entries)
  /\ stop_at \in {NotStopped} \cup 0..Len(log)

RecorderInit ==
  /\ out = "none"
  /\ context = "none"
  /\ pressed_keys = <<>>
  /\ pressed_buttons = <<>>
  /\ log = <<>>
  /\ stop_at = NotStopped

(* gbb_event_recorder_new and the start of gbb_event_recorder_record: the   *)
(* file of --output is opened with mode "r".                                *)
Enable(file) ==
  /\ context = "none"
  /\ context' = "enabled"
  /\ out' = file
  /\ UNCHANGED <<pressed_keys, pressed_buttons, log, stop_at>>

-----------------------------------------------------------------------------
Recording == context \in {"enabled", "disabling"} /\ Len(log) < MaxLog

(* dump_event, once for each of the entries: a stream that is open for      *)
(* reading refuses every one of them.                                       *)
DumpEvents(entries) == log' = IF out = "stdout" THEN log \o entries ELSE log

ReleasesOf(list) == [i \in 1..Len(list) |-> Entry("Release", list[i])]

(* What is written when Super-Q is pressed *)
ReleaseAll == ReleasesOf(pressed_keys) \o ReleasesOf(pressed_buttons)

(* The press of anything but Super-Q: what is held already is skipped. *)
Press(code, list) ==
  IF Contains(list, code) THEN DumpEvents(<<>>) ELSE DumpEvents(<<Entry("Press", code)>>)

(* Mutant of Pressed: a repeated press is listed again. *)
PressedAgain(list, code) == <<code>> \o list

Pressed(list, code) == IF Contains(list, code) THEN list ELSE <<code>> \o list
Released(list, code) ==
  RemoveAt(list, CHOOSE i \in 1..Len(list) :
                   list[i] = code /\ \A j \in 1..(i - 1) : list[j] # code)

(* The cases of xrecord_callback *)
KeyPress(key) ==
  /\ Recording
  /\ ~(key = Q /\ Contains(pressed_keys, Super))
  /\ Press(key, pressed_keys)
  /\ pressed_keys' = Pressed(pressed_keys, key)
  /\ UNCHANGED <<out, context, pressed_buttons, stop_at>>

(* The lists keep what is released here, and Q itself is written after it. *)
KeyPressStop ==
  /\ Recording
  /\ Contains(pressed_keys, Super)
  /\ DumpEvents(ReleaseAll \o
                IF Contains(pressed_keys, Q) THEN <<>> ELSE <<Entry("Press", Q)>>)
  /\ pressed_keys' = Pressed(pressed_keys, Q)
  /\ context' = "disabling"
  /\ stop_at' = IF stop_at # NotStopped THEN stop_at
                ELSE IF out = "stdout" THEN Len(log) + Len(ReleaseAll) ELSE 0
  /\ UNCHANGED <<out, pressed_buttons>>

(* Mutant of KeyRelease: the release of a key pressed before the recording. *)
KeyReleaseUnpressed(key) ==
  /\ Recording
  /\ DumpEvents(<<Entry("Release", key)>>)
  /\ pressed_keys' = IF Contains(pressed_keys, key) THEN Released(pressed_keys, key)
                     ELSE pressed_keys
  /\ UNCHANGED <<out, context, pressed_buttons, stop_at>>

KeyRelease(key) ==
  /\ Recording
  /\ Contains(pressed_keys, key)
  /\ DumpEvents(<<Entry("Release", key)>>)
  /\ pressed_keys' = Released(pressed_keys, key)
  /\ UNCHANGED <<out, context, pressed_buttons, stop_at>>

ButtonPress(button) ==
  /\ Recording
  /\ Press(button, pressed_buttons)
  /\ pressed_buttons' = Pressed(pressed_buttons, button)
  /\ UNCHANGED <<out, context, pressed_keys, stop_at>>

ButtonRelease(button) ==
  /\ Recording
  /\ Contains(pressed_buttons, button)
  /\ DumpEvents(<<Entry("Release", button)>>)
  /\ pressed_buttons' = Released(pressed_buttons, button)
  /\ UNCHANGED <<out, context, pressed_keys, stop_at>>

(* The release of a wheel button is skipped. *)
TurnWheel ==
  /\ Recording
  /\ DumpEvents(<<Entry("Wheel", Wheel)>>)
  /\ UNCHANGED <<out, context, pressed_keys, pressed_buttons, stop_at>>

XRecordCallback ==
  \/ \E key \in Keys : KeyPress(key) \/ KeyRelease(key)
  \/ KeyPressStop
  \/ \E button \in Buttons : ButtonPress(button) \/ ButtonRelease(button)
  \/ TurnWheel

(* The server has handled XRecordDisableContext: the recording is over. *)
ContextDisabled ==
  /\ context = "disabling"
  /\ context' = "disabled"
  /\ UNCHANGED <<out, pressed_keys, pressed_buttons, log, stop_at>>

-----------------------------------------------------------------------------
(* What is held down once the entries have been replayed *)
HeldBy(entries) ==
  {c \in Codes : \E i \in 1..Len(entries) :
      /\ entries[i] = Entry("Press", c)
      /\ \A j \in (i + 1)..Len(entries) : entries[j] # Entry("Release", c)}

(* Every entry does something: what is pressed is not held, what is         *)
(* released is.                                                             *)
Alternates(entries) ==
  \A i \in 1..Len(entries) :
    entries[i].type # "Wheel" =>
      (entries[i].type = "Release") = (entries[i].code \in HeldBy(SubSeq(entries, 1, i - 1)))

(* Until Super-Q the log holds down what the user does, though keys may     *)
(* have been down before the recording and servers repeat events.           *)
LogFollowsInput ==
  stop_at = NotStopped =>
    /\ Alternates(log)
    /\ out = "stdout" => HeldBy(log) = Range(pressed_keys) \cup Range(pressed_buttons)

(* Super-Q leaves nothing down that was down before it: the rest of the log *)
(* is "parts of the Super-Q shortcut" that README:68-69 asks to remove.     *)
StopReleasesAll ==
  stop_at # NotStopped =>
    LET kept == SubSeq(log, 1, stop_at)
    IN  Alternates(kept) /\ HeldBy(kept) = {}
==============================================================================
