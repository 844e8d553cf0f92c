--------------------------- MODULE SettingsStore ---------------------------
(***************************************************************************)
(* What a program that keeps its settings in a file promises: it starts    *)
(* with what the file holds, a start may tidy the settings up, later only  *)
(* changes asked for touch them, and an orderly stop leaves the latest     *)
(* settings in the file.  The file is replaced in two steps, so a crash    *)
(* may leave it broken; then there is no further start until it is edited. *)
(***************************************************************************)
CONSTANTS
    Settings,    \* all settings
    Default,     \* those of a start without a file
    NoFile,      \* there is no file
    Broken,      \* the file is being replaced, or was when the program ended
    Tidied(_)    \* what tidying may make of some settings

VARIABLES
    phase,       \* "starting", "serving", "stopped" in order, or "down"
    live,        \* the settings in force
    saved        \* the settings in the file

vars == <<phase, live, saved>>

Ended == phase \in {"down", "stopped"}

Init ==
    /\ phase = "down"
    /\ live = Default
    /\ saved \in Settings \cup {NoFile}

Start ==
    /\ Ended /\ saved # Broken
    /\ phase' = "starting"
    /\ live' = IF saved = NoFile THEN Default ELSE saved
    /\ UNCHANGED saved

Tidy ==
    /\ phase = "starting"
    /\ live' \in Tidied(live)
    /\ phase' \in {"starting", "serving"}
    /\ UNCHANGED saved

Ready ==
    /\ phase = "starting"
    /\ phase' = "serving"
    /\ UNCHANGED <<live, saved>>

Change ==
    /\ phase = "serving"
    /\ live' \in Settings
    /\ UNCHANGED <<phase, saved>>

BeginSave ==
    /\ ~Ended
    /\ saved' = Broken
    /\ UNCHANGED <<phase, live>>

EndSave ==
    /\ saved = Broken
    /\ saved' = live
    /\ \/ phase = "starting" /\ UNCHANGED phase
       \/ phase = "serving" /\ phase' = "stopped"
    /\ UNCHANGED live

\* The program ends in any other way; what was not saved is lost.
Kill ==
    /\ phase' = "down"
    /\ UNCHANGED <<live, saved>>

Edit ==
    /\ Ended
    /\ saved' \in Settings \cup {NoFile}
    /\ phase' = "down"
    /\ UNCHANGED live

Next ==
    \/ Start \/ Tidy \/ Ready \/ Change
    \/ BeginSave \/ EndSave \/ Kill \/ Edit

Spec == Init /\ [][Next]_vars

==============================================================================
