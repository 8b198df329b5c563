------------------------------ MODULE Dashboard ------------------------------
(***************************************************************************)
(* A browser tab of the dashboard: the auto-response pages, the settings   *)
(* page and the audit log of a guild.  Their queries have different keys,  *)
(* their tables are different, and a tab is in one section at a time; they *)
(* share the client library (ClientState) and what goes wrong outside.     *)
(* The sections do not read each other's state, so that it is enough to    *)
(* explore behaviours in which the user stays in one.                      *)
(***************************************************************************)
EXTENDS ResponsesPages, SettingsPage, AuditLogPage

CONSTANT Sections  \* those a behaviour may be about

ASSUME SectionsAssumption == Sections \subseteq {"auto-responses", "settings", "audit-log"}

VARIABLE section

responses == <<server, list, tab, write, known>>
settingsPage == <<settingsApi, settings, settingsForm, save, settingsKnown>>
auditLog == <<log, pages, failed, explorer, shown, moves>>

vars == <<section, responses, settingsPage, auditLog, outside>>

Init ==
    /\ section \in Sections
    /\ ResponsesInit /\ SettingsInit /\ LogInit
    /\ outside = 0

Next ==
    /\ \/ section = "auto-responses" /\ ResponsesNext /\ UNCHANGED <<settingsPage, auditLog>>
       \/ section = "settings" /\ SettingsNext /\ UNCHANGED <<responses, auditLog>>
       \/ section = "audit-log" /\ LogNext /\ UNCHANGED <<responses, settingsPage>>
    /\ UNCHANGED section

Spec == Init /\ [][Next]_vars

\* Every variable of every section has its type.
TypeOK == section \in Sections /\ ResponsesTypeOK /\ SettingsTypeOK /\ LogTypeOK
==============================================================================
