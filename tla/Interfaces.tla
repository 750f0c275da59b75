----------------------------- MODULE Interfaces -----------------------------
(***************************************************************************)
(* What a user sees and does from afar: messages (Notifications), commands  *)
(* over Telegram (TelegramBot), the timeline of the automation and its      *)
(* retries (Automation), the settings (SettingsForm).  Each keeps its own   *)
(* store; what one causes in another goes through the job queue.  An        *)
(* instance looks at one of them.                                           *)
(***************************************************************************)
EXTENDS Notifications, TelegramBot, Automation, SettingsForm

VARIABLE part   \* "messages", "commands", "timeline" or "settings"

ivars == <<part, nvars, bvars, avars, svars>>

Seen(p) ==
  /\ part = p
  /\ NotificationsInit /\ (p # "messages" => ~digest)
  /\ TelegramInit /\ (p # "commands" => ~webhook)
  /\ AutomationInit /\ (p # "timeline" => ~shared)
  /\ SettingsInit /\ (p # "settings" => conf.key = 0)
InterfacesInit == Seen("messages") \/ Seen("commands") \/ Seen("timeline") \/ Seen("settings")

InterfacesNext ==
  /\ part' = part
  /\ \/ part = "messages" /\ NotificationsNext /\ UNCHANGED <<bvars, avars, svars>>
     \/ part = "commands" /\ TelegramNext /\ UNCHANGED <<nvars, avars, svars>>
     \/ part = "timeline" /\ AutomationNext /\ UNCHANGED <<nvars, bvars, svars>>
     \/ part = "settings" /\ SettingsNext /\ UNCHANGED <<nvars, bvars, avars>>

InterfacesSpec == InterfacesInit /\ [][InterfacesNext]_ivars
=============================================================================
