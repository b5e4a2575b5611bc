------------------------------- MODULE Bulletin -------------------------------
(***************************************************************************)
(* MarkValueBulletin.java, the window with the values of the mark cursors. *)
(* It is shown again by the first property change that says a value is     *)
(* new; turning it off causes such changes too, and muteUpdate lets the    *)
(* next two of them pass.                                                  *)
(*                                                                         *)
(* Property changes are delivered by the thread that fires them, which is  *)
(* the user interface's.  MarkCursorControl is outside the repository: how *)
(* many changes turnOnMarkCursor fires is bounded by OwnUpdates.           *)
(***************************************************************************)
EXTENDS Integers

CONSTANT OwnUpdates   \* most changes turnOnMarkCursor fires

\* "mute next few events caused by next mcc call" is meant to be enough.
ASSUME OwnUpdatesAssumption == OwnUpdates \in 0..2

VARIABLES
  isVisible,    \* the bulletin is on the screen
  muteUpdate,
  ison,         \* mcc.ison: the mark cursor is on
  turning,      \* in turnOnMarkCursor: "on", "off"; else "no"
  fired         \* changes that call has fired

bulletinVars == <<isVisible, muteUpdate, ison, turning, fired>>

-----------------------------------------------------------------------------
(* propertyChange.                                                         *)

\* update_markbulletin.
Update ==
  \/ isVisible /\ UNCHANGED <<isVisible, muteUpdate>>
  \/ ~isVisible /\ muteUpdate = 0 /\ isVisible' = TRUE /\ UNCHANGED muteUpdate
  \/ ~isVisible /\ muteUpdate # 0 /\ muteUpdate' = muteUpdate - 1
       /\ UNCHANGED isVisible

\* Mutant: one change is muted.
TurnOnMutesOne(on) ==
  /\ turning = "no"
  /\ muteUpdate' = 1
  /\ isVisible' = on
  /\ turning' = (IF on THEN "on" ELSE "off")
  /\ fired' = 0
  /\ UNCHANGED ison

\* TURN_ON_MARKBULLETIN, up to the call of turnOnMarkCursor(on).
TurnOn(on) ==
  /\ turning = "no"
  /\ muteUpdate' = 2
  /\ isVisible' = on
  /\ turning' = (IF on THEN "on" ELSE "off")
  /\ fired' = 0
  /\ UNCHANGED ison

\* A click in a corner of the bulletin.
mouseClicked == isVisible /\ ison /\ TurnOn(FALSE)

\* A value changes.
ValueChanges == turning = "no" /\ Update /\ UNCHANGED <<ison, turning, fired>>

(* turnOnMarkCursor.                                                       *)

\* It fires a change: propertyChange, inside propertyChange.
OwnUpdate ==
  /\ turning # "no" /\ fired < OwnUpdates
  /\ Update
  /\ fired' = fired + 1
  /\ UNCHANGED <<ison, turning>>

TurnReturns ==
  /\ turning # "no"
  /\ ison' = (turning = "on")
  /\ turning' = "no" /\ fired' = 0
  /\ UNCHANGED <<isVisible, muteUpdate>>

\* The window is closed by other means; it is DISPOSE_ON_CLOSE.
WindowCloses ==
  /\ turning = "no"
  /\ isVisible' = FALSE
  /\ UNCHANGED <<muteUpdate, ison, turning, fired>>

-----------------------------------------------------------------------------
\* The bulletin is shown when it is made.
BulletinInit ==
  /\ isVisible = TRUE /\ muteUpdate = 0 /\ ison \in BOOLEAN
  /\ turning = "no" /\ fired = 0

BulletinNext ==
  \/ mouseClicked \/ \E on \in BOOLEAN : TurnOn(on)
  \/ ValueChanges \/ OwnUpdate \/ TurnReturns \/ WindowCloses

BulletinSpec == BulletinInit /\ [][BulletinNext]_bulletinVars

-----------------------------------------------------------------------------
\* Types.
BulletinTypeOK ==
  /\ isVisible \in BOOLEAN /\ ison \in BOOLEAN
  /\ muteUpdate \in 0..2 /\ fired \in 0..OwnUpdates
  /\ turning \in {"no", "on", "off"}

\* The bulletin the user turns off is not brought back by the changes that
\* turning it off causes, however many are left muted from before.
StaysOff == turning = "off" => ~isVisible
=============================================================================
