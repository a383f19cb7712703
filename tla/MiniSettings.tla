----------------------------- MODULE MiniSettings -----------------------------
(***************************************************************************)
(* The settings file of the mini client and its backup                      *)
(* (desktop/mini_client.py).  Settings are loaded when the client starts,   *)
(* from the backup if the file cannot be read; changes are saved 400 ms     *)
(* after the last of them and when the window is closed, first to the file  *)
(* and then to the backup.  The process may die at any step, any access to  *)
(* a file may raise OSError, and either file may be damaged.  Settings that *)
(* neither file can give back any more do not count as saved.               *)
(*                                                                          *)
(* Settings are numbered in the order they were chosen; 0 are the defaults. *)
(***************************************************************************)
EXTENDS Naturals

CONSTANTS
    MaxChanges,         \* bound: settings chosen
    MaxAccidents        \* bound: deaths, OSErrors, damage and deletions

ASSUME SettingsBoundsAssumption == MaxChanges \in Nat /\ MaxAccidents \in Nat

VARIABLES
    primary,        \* SETTINGS_PATH
    backup,         \* _mini_settings_backup_path()
    phase,          \* what the process is doing
    settings,       \* self.settings
    wish,           \* what widgets and window show
    saveEnabled,    \* settings_save_enabled
    ready,          \* settings_save_ready
    saveTimer,      \* whether settings_after_id is set
    chosen,         \* settings chosen so far (history, bounded)
    saved,          \* the last settings written to both files, 0 if lost (history)
    unsaved,        \* why a change may wait without a timer (history)
    accidents       \* accidents so far (history, bounded)

fileVars == <<primary, backup>>

widgetVars == <<settings, wish, saveEnabled, ready, saveTimer>>

settingsHistory == <<chosen, saved, unsaved>>

settingsVars == <<fileVars, phase, widgetVars, settingsHistory, accidents>>

\* A file that cannot be parsed, or is none, holds no settings.
Files == [state : {"missing", "corrupt", "whole"}, holds : Nat]

Missing == [state |-> "missing", holds |-> 0]

Corrupt == [state |-> "corrupt", holds |-> 0]

Whole(s) == [state |-> "whole", holds |-> s]

\* "repair" and "repair backup" write what the backup held, "save" and "save
\* backup" what the widgets show, "closing" ones with nothing to follow.
Phases == {"off", "repair", "repair backup", "on", "save", "save backup",
           "closing", "closing backup"}

Writing == {"repair", "save", "closing"}

WritingBackup == {"repair backup", "save backup", "closing backup"}

Loading == {"repair", "repair backup"}

SettingsTypeOK ==
    /\ primary \in Files /\ backup \in Files
    /\ phase \in Phases
    /\ settings \in Nat /\ wish \in Nat /\ chosen \in Nat /\ saved \in Nat
    /\ saveEnabled \in BOOLEAN /\ ready \in BOOLEAN /\ saveTimer \in BOOLEAN
    /\ unsaved \in BOOLEAN
    /\ accidents \in Nat

SettingsInit ==
    /\ primary = Missing /\ backup = Missing
    /\ phase = "off"
    /\ settings = 0 /\ wish = 0
    /\ saveEnabled = FALSE /\ ready = FALSE /\ saveTimer = FALSE
    /\ chosen = 0 /\ saved = 0 /\ unsaved = FALSE
    /\ accidents = 0

Accident == accidents < MaxAccidents /\ accidents' = accidents + 1

-----------------------------------------------------------------------------
(* load_mini_settings_with_status.                                         *)

Start(s, enabled) ==
    /\ phase = "off"
    /\ settings' = s /\ wish' = s
    /\ saveEnabled' = enabled
    /\ ready' = FALSE /\ saveTimer' = FALSE
    /\ unsaved' = FALSE
    /\ UNCHANGED <<backup, chosen>>

LoadPrimary ==
    /\ primary.state = "whole"
    /\ Start(primary.holds, TRUE)
    /\ phase' = "on"
    /\ UNCHANGED <<primary, saved, accidents>>

LoadDefaults ==
    /\ primary.state = "missing"
    /\ Start(0, TRUE)
    /\ phase' = "on"
    /\ UNCHANGED <<primary, saved, accidents>>

\* The file cannot be opened: nothing is repaired, nor overwritten if the
\* backup is of no use either.
LoadUnopened ==
    /\ primary.state # "missing"
    /\ Accident
    /\ \/ backup.state = "whole" /\ Start(backup.holds, TRUE)
       \/ Start(0, FALSE)
    /\ phase' = "on"
    /\ UNCHANGED <<primary, saved>>

LoadBackup ==
    /\ primary.state = "corrupt"
    /\ backup.state = "whole"
    /\ Start(backup.holds, TRUE)
    /\ phase' = "repair"
    /\ UNCHANGED <<primary, saved, accidents>>

\* _preserve_corrupt_mini_settings moves the file away, if it can.
LoadNothing ==
    /\ primary.state = "corrupt"
    /\ backup.state # "whole"
    /\ Start(0, TRUE)
    /\ phase' = "on"
    /\ \/ primary' = Missing /\ UNCHANGED accidents
       \/ UNCHANGED primary /\ Accident
    /\ UNCHANGED saved

\* The backup cannot be opened either, and the defaults will replace it.
LoadNeither ==
    /\ primary.state = "corrupt"
    /\ backup.state = "whole"
    /\ Accident
    /\ Start(0, TRUE)
    /\ phase' = "on"
    /\ primary' = Missing
    /\ saved' = 0

Load ==
    \/ LoadPrimary \/ LoadDefaults \/ LoadUnopened
    \/ LoadBackup \/ LoadNothing \/ LoadNeither

-----------------------------------------------------------------------------
(* save_mini_settings.                                                     *)

\* What a death leaves of a file that was being written.  Mutant: written in
\* place, not to a temporary file that replaces it.
Torn_InPlace(file) == Corrupt

Torn(file) == file

Written == IF phase \in Loading THEN settings ELSE wish

WritePrimary ==
    /\ phase \in Writing
    /\ primary' = Whole(Written)
    /\ phase' = CASE phase = "repair"  -> "repair backup"
                  [] phase = "save"    -> "save backup"
                  [] phase = "closing" -> "closing backup"
    /\ UNCHANGED <<backup, widgetVars, settingsHistory, accidents>>

AfterSave == IF phase \in {"closing", "closing backup"} THEN "off" ELSE "on"

WriteBackup ==
    /\ phase \in WritingBackup
    /\ backup' = Whole(Written)
    /\ saved' = Written
    /\ settings' = Written
    /\ phase' = AfterSave
    /\ unsaved' = FALSE
    /\ UNCHANGED <<primary, wish, saveEnabled, ready, saveTimer, chosen, accidents>>

\* Swallowed, in a save and in a repair; nothing asks for the save again.
WriteFails ==
    /\ phase \in Writing \cup WritingBackup
    /\ Accident
    /\ phase' = AfterSave
    /\ unsaved' = TRUE
    /\ UNCHANGED <<fileVars, widgetVars, chosen, saved>>

-----------------------------------------------------------------------------
(* The window.                                                             *)

\* The event loop's first idle moment
EnableSettingsSave ==
    /\ phase = "on"
    /\ ~ready
    /\ ready' = TRUE
    /\ UNCHANGED <<fileVars, phase, settings, wish, saveEnabled, saveTimer, settingsHistory, accidents>>

MaySave == saveEnabled /\ ready

\* A widget's trace, or the window being moved: schedule_settings_save
Change ==
    /\ phase = "on"
    /\ chosen < MaxChanges
    /\ chosen' = chosen + 1
    /\ wish' = chosen'
    /\ saveTimer' = (saveTimer \/ MaySave)
    /\ unsaved' = (unsaved \/ ~MaySave)
    /\ UNCHANGED <<fileVars, phase, settings, saveEnabled, ready, saved, accidents>>

SaveSettingsNow ==
    /\ phase = "on"
    /\ saveTimer
    /\ saveTimer' = FALSE
    /\ phase' = IF MaySave THEN "save" ELSE "on"
    /\ UNCHANGED <<fileVars, settings, wish, saveEnabled, ready, settingsHistory, accidents>>

Close ==
    /\ phase = "on"
    /\ saveTimer' = FALSE
    /\ phase' = IF MaySave THEN "closing" ELSE "off"
    /\ UNCHANGED <<fileVars, settings, wish, saveEnabled, ready, settingsHistory, accidents>>

-----------------------------------------------------------------------------
(* Accidents.                                                              *)

Die ==
    /\ phase # "off"
    /\ Accident
    /\ phase' = "off"
    /\ primary' = IF phase \in Writing THEN Torn(primary) ELSE primary
    /\ backup' = IF phase \in WritingBackup THEN Torn(backup) ELSE backup
    /\ UNCHANGED <<widgetVars, settingsHistory>>

\* Not both files, once settings have been saved to both
Damage ==
    /\ Accident
    /\ \/ /\ primary.state = "whole"
          /\ backup.state = "whole" \/ saved = 0
          /\ primary' = Corrupt
          /\ UNCHANGED backup
       \/ /\ backup.state = "whole"
          /\ primary.state = "whole" \/ saved = 0
          /\ backup' = Corrupt
          /\ UNCHANGED primary
    /\ UNCHANGED <<phase, widgetVars, settingsHistory>>

\* The owner's way to reset the settings
DeleteSettings ==
    /\ phase = "off"
    /\ primary.state = "whole"
    /\ Accident
    /\ primary' = Missing
    /\ saved' = 0
    /\ UNCHANGED <<backup, phase, widgetVars, chosen, unsaved>>

SettingsNext ==
    \/ Load \/ EnableSettingsSave \/ Change \/ SaveSettingsNow \/ Close
    \/ WritePrimary \/ WriteBackup \/ WriteFails
    \/ Die \/ Damage \/ DeleteSettings

SettingsSpec == SettingsInit /\ [][SettingsNext]_settingsVars

-----------------------------------------------------------------------------
(* Properties.                                                             *)

\* The file, or the backup if the file is lost, is not behind the last save.
FilesKeepSettings ==
    \/ primary.state = "whole" /\ primary.holds >= saved
    \/ primary.state = "corrupt" /\ backup.state = "whole" /\ backup.holds >= saved
    \/ saved = 0

\* A client that may overwrite the files started from what they held.
ClientHasSettings == phase # "off" /\ saveEnabled => wish >= saved

\* A change waits for its timer, unless a save failed or was not allowed.
ChangesWaitForSave == phase = "on" /\ wish # settings => saveTimer \/ unsaved

(***************************************************************************)
(* Settings that were saved survive: deaths between and within the writes,  *)
(* accesses that fail and damage to one of the two files neither take them  *)
(* back nor let defaults be written over them, as long as one of the files  *)
(* can be read, and no change is forgotten while all goes well              *)
(* (architecture.md:146-151).                                               *)
(***************************************************************************)
SettingsSurvive == FilesKeepSettings /\ ClientHasSettings /\ ChangesWaitForSave
=============================================================================
