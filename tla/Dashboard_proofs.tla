--------------------------- MODULE Dashboard_proofs ---------------------------
(***************************************************************************)
(* Proofs about Dashboard, for every set of responses, payloads, fields    *)
(* and values, and every number of requests, moves and outside changes.    *)
(***************************************************************************)
EXTENDS Dashboard, FiniteSetTheorems, SequenceTheorems, TLAPS

------------------------------------------------------------------------------
(***************************************************************************)
(* Lemmas about the client library.                                        *)
(***************************************************************************)

\* Whatever becomes of a query, it is one.
LEMMA QueryTypes ==
    ASSUME NEW D, NEW q \in Query(D)
    PROVE  /\ Asked(q) \in Query(D) /\ Watched(q) \in Query(D)
           /\ Expired(q) \in Query(D) /\ Failed(q) \in Query(D)
           /\ \A w \in BOOLEAN : Invalidated(q, w) \in Query(D)
           /\ \A d \in D : Answered(q, d) \in Query(D)
           /\ Arrived(q) \in Query(D)
BY DEF Query, Asked, Watched, Expired, Failed, Invalidated, Answered, Arrived

\* Whatever becomes of a form, it is one.
LEMMA FormTypes ==
    ASSUME NEW V, NEW v \in V
    PROVE  /\ Opened(v) \in Form(V)
           /\ \A f \in Form(V) : Changed(f, v) \in Form(V) /\ Rendered(f, v) \in Form(V)
BY DEF Form, Opened, Changed, Rendered

------------------------------------------------------------------------------
(***************************************************************************)
(* The settings page: its inductive invariant.                             *)
(***************************************************************************)

\* An answer on its way has what SettingsShowOwnSaves asks of fresh settings.
SettingsOnTheirWay ==
    settings.fetch = "answered" => succeeded \subseteq settings.answer.asOf \cup outrun

\* Once a save has succeeded, any settings that are read have seen it; the
\* ones read before it were thrown away when its form began to wait.
SavesInStep ==
    \A n \in Saves :
        /\ save[n].step \in {"applied", "refetching", "refetched", "synced"} => n \in landed
        /\ save[n].step \in {"refetching", "refetched", "synced"} /\ settings.fetch = "answered"
             => n \in settings.answer.asOf
        /\ save[n].step \in {"refetched", "synced"} => n \in settings.data.asOf

\* A form that has saved is there, and one that nobody has touched shows its
\* default values: those it was last rendered with or reset to.
FormInStep ==
    /\ mine # {} => PageOpen
    /\ PageOpen /\ ~draft.touched => draft.values = draft.defaults

SettingsInv ==
    /\ SettingsTypeOK
    /\ SettingsShowOwnSaves
    /\ SettingsOnTheirWay
    /\ SavesInStep
    /\ FormInStep
    /\ FormFollowsSettings

LEMMA SettingsStart ==
    ASSUME SettingsInit, outside = 0
    PROVE  SettingsInv
<1>1. SettingsTypeOK
  <2>1. settings \in Query(Snapshot)
    BY DEF SettingsInit, NoQuery, Query
  <2>2. save \in [Saves -> Save] /\ \A n \in Saves : save[n].step = "unsent" /\ save[n].payload = None
    BY DEF SettingsInit, Save
  <2>3. /\ stored \in Settings /\ outside \in 0..MaxOutside
        /\ place = "away" /\ initialSettings = None /\ draft = None /\ busy = FALSE
        /\ mine = {} /\ landed = {} /\ succeeded = {} /\ outrun = {}
    BY SettingsAssumption, OutsideAssumption DEF SettingsInit
  <2>4. ~settings.fresh /\ settings.fetch = "idle" /\ settings.answer = None
    BY DEF SettingsInit, NoQuery
  <2>. QED BY <2>1, <2>2, <2>3, <2>4 DEF SettingsTypeOK, PageOpen
<1>. QED BY <1>1 DEF SettingsInit, SettingsInv, SettingsShowOwnSaves, SettingsOnTheirWay,
                     SavesInStep, FormInStep, FormFollowsSettings, NoQuery, PageOpen

\* The types are kept.
LEMMA SettingsTypes ==
    ASSUME SettingsTypeOK, SavesInStep, FormInStep, SettingsNext
    PROVE  SettingsTypeOK'
<1> USE SettingsAssumption, NoSettingsAssumption
    DEF SettingsTypeOK, settingsApi, settingsForm, settingsKnown, PageOpen
<1>a. /\ Watched(settings) \in Query(Snapshot) /\ Asked(settings) \in Query(Snapshot)
      /\ Expired(settings) \in Query(Snapshot) /\ Failed(settings) \in Query(Snapshot)
      /\ Invalidated(settings, PageOpen) \in Query(Snapshot)
      /\ Arrived(settings) \in Query(Snapshot)
  BY QueryTypes
<1>b. settings.data # None => settings.data \in Snapshot /\ settings.data.value \in Settings
  BY DEF Query, Snapshot
<1>c. settings.answer # None => settings.answer \in Snapshot /\ settings.answer.value \in Settings
  BY DEF Query, Snapshot
<1>d. \A v \in Settings : Opened(v) \in Form(Settings) /\ Opened(v) # None
  BY FormTypes
<1>e. \A v \in Settings, f \in Form(Settings) :
        /\ Changed(f, v) \in Form(Settings) /\ Changed(f, v) # None
        /\ Rendered(f, v) \in Form(Settings) /\ Rendered(f, v) # None
  <2> SUFFICES ASSUME NEW v \in Settings, NEW f \in Form(Settings)
               PROVE  /\ Changed(f, v) \in Form(Settings) /\ Changed(f, v) # None
                      /\ Rendered(f, v) \in Form(Settings) /\ Rendered(f, v) # None
    OBVIOUS
  <2>1. Changed(f, v) \in Form(Settings) /\ Rendered(f, v) \in Form(Settings)
    BY FormTypes
  <2>. QED BY <2>1
<1>f. draft # None => draft \in Form(Settings) /\ draft.values \in Settings
  BY DEF Form
<1>1. ASSUME VisitSettings PROVE SettingsTypeOK'
  BY <1>1, <1>a, <1>b, <1>d DEF VisitSettings, Mounts, Watched, Asked, Query
<1>2. ASSUME LeaveSettings PROVE SettingsTypeOK'
  BY <1>2 DEF LeaveSettings
<1>3. ASSUME ResetForm PROVE SettingsTypeOK'
  BY <1>3, <1>d DEF ResetForm
<1>4. ASSUME RefocusSettings PROVE SettingsTypeOK'
  BY <1>4, <1>a, <1>b DEF RefocusSettings, Asked, Query
<1>5. ASSUME NEW f \in Fields, NEW v \in FieldValues, SetField(f, v) PROVE SettingsTypeOK'
  <2>1. [draft.values EXCEPT ![f] = v] \in Settings
    BY <1>f, <1>5 DEF SetField, Settings
  <2>. QED BY <1>e, <1>f, <1>5, <2>1 DEF SetField
<1>6. ASSUME NEW n \in Saves, SubmitSettings(n) PROVE SettingsTypeOK'
  <2>1. draft' \in Form(Settings) \cup {None} /\ draft' # None
    BY <1>6, <1>e, <1>f DEF SubmitSettings
  <2>2. save' \in [Saves -> Save] /\ \A m \in Saves : save'[m].step \in {"unsent", "over"} <=> save'[m].payload = None
    BY <1>6, <1>f DEF SubmitSettings, Save
  <2>. QED BY <1>6, <2>1, <2>2 DEF SubmitSettings
<1>7. ASSUME ReadSettings PROVE SettingsTypeOK'
  <2>1. [value |-> stored, asOf |-> landed] \in Snapshot
    BY DEF Snapshot
  <2>2. settings' \in Query(Snapshot)
    BY <1>7, <2>1, QueryTypes DEF ReadSettings
  <2>. QED BY <1>7, <2>1, <2>2 DEF ReadSettings, Answered, Query
<1>8. ASSUME SettingsArrive PROVE SettingsTypeOK'
  <2>1. settings.answer # None
    BY <1>8 DEF SettingsArrive
  <2>2. /\ draft' \in Form(Settings) \cup {None} /\ (place' = "open" <=> draft' # None)
        /\ initialSettings' \in Settings \cup {None}
        /\ place' = "open" <=> initialSettings' # None
    BY <1>8, <1>c, <1>d, <2>1 DEF SettingsArrive, Mounts
  <2>3. save' \in [Saves -> Save] /\ \A n \in Saves : save'[n].step \in {"unsent", "over"} <=> save'[n].payload = None
    BY <1>8 DEF SettingsArrive, WaitedFor, Save
  <2>4. settings' \in Query(Snapshot) /\ settings'.data # None /\ settings'.fetch = "idle"
        /\ settings'.answer = None
    BY <1>8, <1>a, <2>1 DEF SettingsArrive, Arrived
  <2>. QED BY <1>8, <2>2, <2>3, <2>4 DEF SettingsArrive
<1>9. ASSUME SettingsFail PROVE SettingsTypeOK'
  <2>1. save' \in [Saves -> Save] /\ \A n \in Saves : save'[n].step \in {"unsent", "over"} <=> save'[n].payload = None
    BY <1>9 DEF SettingsFail, WaitedFor, Save
  <2>2. /\ settings' \in Query(Snapshot) /\ settings'.data = settings.data
        /\ settings'.fresh = settings.fresh /\ settings'.fetch = "idle" /\ settings'.answer = None
    BY <1>9, <1>a DEF SettingsFail, Failed, Query
  <2>3. outside' \in 0..MaxOutside
    BY <1>9, OutsideAssumption DEF SettingsFail, Outside
  <2>. QED BY <1>9, <2>1, <2>2, <2>3 DEF SettingsFail
<1>10. ASSUME SettingsExpire PROVE SettingsTypeOK'
  BY <1>10, <1>a, <1>b DEF SettingsExpire, Expired, Query
<1>11. ASSUME NEW n \in Saves, ApplySave(n) PROVE SettingsTypeOK'
  BY <1>11 DEF ApplySave, Comes, Save
<1>12. ASSUME NEW n \in Saves, RefuseSave(n) PROVE SettingsTypeOK'
  <2>1. draft' \in Form(Settings) \cup {None} /\ (draft' = None <=> draft = None)
    <3>1. CASE Renders(n)
      <4>1. draft \in Form(Settings) /\ initialSettings \in Settings
        BY <3>1 DEF Renders, Observed, FormInStep
      <4>2. draft' = Rendered(draft, initialSettings)
        BY <1>12, <3>1 DEF RefuseSave
      <4>. QED BY <4>1, <4>2, <1>e, <1>f
    <3>2. CASE ~Renders(n)
      BY <1>12, <3>2 DEF RefuseSave
    <3>. QED BY <3>1, <3>2
  <2>2. save' \in [Saves -> Save] /\ \A m \in Saves : save'[m].step \in {"unsent", "over"} <=> save'[m].payload = None
    BY <1>12 DEF RefuseSave, Ends, Over, Save
  <2>. QED BY <1>12, <2>1, <2>2, OutsideAssumption DEF RefuseSave, Outside
<1>13. ASSUME NEW n \in Saves, SaveSucceeds(n) PROVE SettingsTypeOK'
  <2>1. save' \in [Saves -> Save] /\ \A m \in Saves : save'[m].step \in {"unsent", "over"} <=> save'[m].payload = None
    BY <1>13 DEF SaveSucceeds, Comes, Ends, Over, Save
  <2>2. /\ settings' \in Query(Snapshot) /\ settings'.data = settings.data /\ ~settings'.fresh
        /\ settings'.fetch = "answered" <=> settings'.answer # None
    BY <1>13, <1>a DEF SaveSucceeds, Invalidated, Expired, Query
  <2>. QED BY <1>13, <2>1, <2>2 DEF SaveSucceeds, SavesInStep
<1>14. ASSUME NEW n \in Saves, FinishSave(n) PROVE SettingsTypeOK'
  <2>1. save[n].payload \in Settings
    BY <1>14 DEF FinishSave, Save
  <2>2. n \in mine => draft' \in Form(Settings) /\ draft' # None
    BY <1>14, <1>d, <1>e, <2>1 DEF FinishSave, Finished, FormInStep
  <2>3. n \notin mine => draft' = draft
    BY <1>14 DEF FinishSave, Finished
  <2>4. save' \in [Saves -> Save] /\ \A m \in Saves : save'[m].step \in {"unsent", "over"} <=> save'[m].payload = None
    BY <1>14 DEF FinishSave, Comes, Save
  <2>. QED BY <1>14, <2>2, <2>3, <2>4 DEF FinishSave, FormInStep
<1>15. ASSUME NEW s \in Settings, OthersSave(s) PROVE SettingsTypeOK'
  BY <1>15, OutsideAssumption DEF OthersSave, Outside
<1>16. ASSUME RenderSettings PROVE SettingsTypeOK'
  <2>1. settings.data # None
    BY <1>16 DEF RenderSettings
  <2>. QED BY <1>16, <1>b, <1>e, <2>1 DEF RenderSettings
<1>. QED
  BY <1>1, <1>2, <1>3, <1>4, <1>5, <1>6, <1>7, <1>8, <1>9, <1>10, <1>11, <1>12, <1>13,
      <1>14, <1>15, <1>16
  DEF SettingsNext, SettingsUser, SettingsEnvironment

\* What the form shows is kept in step.  A render gives an untouched form what
\* the page has; a save that finishes without one is not the last of its form.
LEMMA SettingsForm ==
    ASSUME SettingsInv, SettingsNext, SettingsTypeOK'
    PROVE  FormInStep' /\ FormFollowsSettings'
<1> USE DEF SettingsInv, FormInStep, FormFollowsSettings, PageOpen, settingsApi,
            settingsForm, settingsKnown
<1>a. PageOpen => draft \in Form(Settings)
  BY DEF SettingsTypeOK
<1>b. \A n \in Saves : n \in mine => PageOpen
  OBVIOUS
<1>1. CASE VisitSettings \/ SettingsArrive
  <2>1. mine' = mine /\ (mine # {} => PageOpen')
    BY <1>1 DEF VisitSettings, SettingsArrive
  <2>2. CASE UNCHANGED <<initialSettings, draft>>
    <3>1. PageOpen' => PageOpen
      BY <2>2 DEF SettingsTypeOK
    <3>2. \A n \in Saves : save[n].step \in {"synced", "unsynced"} => save'[n] = save[n]
      BY <1>1 DEF VisitSettings, SettingsArrive, WaitedFor
    <3>. QED BY <2>1, <2>2, <3>1, <3>2 DEF Observed, SettingsTypeOK
  <2>3. ASSUME NEW s, Mounts(s) PROVE FormInStep' /\ FormFollowsSettings'
    BY <2>1, <2>3 DEF Mounts, Opened
  <2>. QED BY <1>1, <2>2, <2>3 DEF VisitSettings, SettingsArrive
<1>2. CASE LeaveSettings
  BY <1>2 DEF LeaveSettings
<1>3. CASE ResetForm
  BY <1>3 DEF ResetForm, Opened
<1>4. CASE RenderSettings
  BY <1>4, <1>a DEF RenderSettings, Rendered, Form
<1>5. ASSUME NEW f \in Fields, NEW v \in FieldValues, SetField(f, v)
      PROVE  FormInStep' /\ FormFollowsSettings'
  BY <1>5, <1>a DEF SetField, Changed, Form
<1>6. ASSUME NEW n \in Saves, SubmitSettings(n) PROVE FormInStep' /\ FormFollowsSettings'
  BY <1>6, <1>a DEF SubmitSettings, Changed, Rendered, Form
<1>7. ASSUME NEW n \in Saves, RefuseSave(n) PROVE FormInStep' /\ FormFollowsSettings'
  <2>1. /\ UNCHANGED <<place, initialSettings, mine>>
        /\ \A m \in Saves : save[m].step \in {"synced", "unsynced"} => save'[m] = save[m]
    BY <1>7 DEF RefuseSave, Ends, SettingsTypeOK
  <2>2. CASE draft' = draft
    BY <2>1, <2>2 DEF Observed, SettingsTypeOK
  <2>3. CASE draft' = Rendered(draft, initialSettings)
    BY <1>a, <2>1, <2>3 DEF Rendered, Form
  <2>. QED BY <1>7, <2>2, <2>3 DEF RefuseSave
<1>8. ASSUME NEW n \in Saves, FinishSave(n) PROVE FormInStep' /\ FormFollowsSettings'
  <2>1. /\ UNCHANGED <<place, initialSettings, mine>>
        /\ save'[n].step \in {"synced", "unsynced"} /\ save'[n].payload = save[n].payload
        /\ \A m \in Saves : m # n => save'[m] = save[m]
    BY <1>8 DEF FinishSave, Comes, SettingsTypeOK, Save
  <2>2. CASE n \notin mine
    BY <1>8, <2>1, <2>2 DEF FinishSave, Finished, Observed, SettingsTypeOK
  <2>3. CASE n \in mine /\ Renders(n)
    BY <1>8, <2>1, <2>3 DEF FinishSave, Finished, Rendered, Opened
  <2>4. CASE n \in mine /\ ~Renders(n)
    <3>1. draft' = Opened(save[n].payload) /\ ~Observed(n)' /\ n \in mine'
      BY <1>8, <2>1, <2>4 DEF FinishSave, Finished, Renders, Observed
    <3>. QED BY <2>1, <2>4, <3>1 DEF Opened
  <2>. QED BY <2>2, <2>3, <2>4
<1>9. ASSUME UNCHANGED <<place, initialSettings, draft, mine>>,
             \A n \in Saves : save[n].step \in {"synced", "unsynced"} => save'[n] = save[n]
      PROVE  FormInStep' /\ FormFollowsSettings'
  BY <1>9 DEF Observed, SettingsTypeOK
<1>10. ASSUME NEW n \in Saves, ApplySave(n) \/ SaveSucceeds(n)
       PROVE  FormInStep' /\ FormFollowsSettings'
  BY <1>9, <1>10 DEF ApplySave, SaveSucceeds, Comes, Ends, SettingsTypeOK
<1>11. CASE SettingsFail
  BY <1>11 DEF SettingsFail, WaitedFor, Observed, SettingsTypeOK
<1>12. UNCHANGED <<settingsForm, save>> => FormInStep' /\ FormFollowsSettings'
  BY <1>9
<1>. QED
  BY <1>1, <1>2, <1>3, <1>4, <1>5, <1>6, <1>7, <1>8, <1>10, <1>11, <1>12
  DEF SettingsNext, SettingsUser, SettingsEnvironment, ReadSettings, SettingsExpire,
      RefocusSettings, OthersSave

\* Every step of the page keeps the invariant.
LEMMA SettingsStep ==
    ASSUME SettingsInv, SettingsNext
    PROVE  SettingsInv'
<1> USE NoSettingsAssumption
    DEF SettingsInv, SettingsTypeOK, settingsApi, settingsForm, settingsKnown, Query,
        Snapshot
<1>1. SettingsTypeOK'
  BY SettingsTypes
<1>2. SettingsShowOwnSaves' /\ SettingsOnTheirWay'
  <2> USE DEF SettingsShowOwnSaves, SettingsOnTheirWay
  <2>1. ASSUME VisitSettings PROVE SettingsShowOwnSaves' /\ SettingsOnTheirWay'
    BY <2>1 DEF VisitSettings, Watched, Asked
  <2>2. ASSUME RefocusSettings PROVE SettingsShowOwnSaves' /\ SettingsOnTheirWay'
    BY <2>2 DEF RefocusSettings, Asked
  <2>3. ASSUME ReadSettings PROVE SettingsShowOwnSaves' /\ SettingsOnTheirWay'
    BY <2>3 DEF ReadSettings, Answered
  <2>4. ASSUME SettingsArrive PROVE SettingsShowOwnSaves' /\ SettingsOnTheirWay'
    BY <2>4 DEF SettingsArrive, Arrived, WaitedFor
  <2>5. ASSUME SettingsFail PROVE SettingsShowOwnSaves' /\ SettingsOnTheirWay'
    BY <2>5 DEF SettingsFail, Failed, WaitedFor
  <2>6. ASSUME SettingsExpire PROVE SettingsShowOwnSaves' /\ SettingsOnTheirWay'
    BY <2>6 DEF SettingsExpire, Expired
  <2>7. ASSUME NEW n \in Saves, SaveSucceeds(n)
        PROVE SettingsShowOwnSaves' /\ SettingsOnTheirWay'
    BY <2>7 DEF SaveSucceeds, Invalidated, Expired
  <2>8. UNCHANGED <<settings, succeeded, outrun>> => SettingsShowOwnSaves' /\ SettingsOnTheirWay'
    OBVIOUS
  <2>. QED
    BY <2>1, <2>2, <2>3, <2>4, <2>5, <2>6, <2>7, <2>8
    DEF SettingsNext, SettingsUser, SettingsEnvironment,
        LeaveSettings, ResetForm, SetField, SubmitSettings, ApplySave, RefuseSave,
        FinishSave, OthersSave, RenderSettings
<1>3. SavesInStep'
  <2> USE DEF SavesInStep, Save
  <2>1. ASSUME VisitSettings PROVE SavesInStep'
    BY <2>1 DEF VisitSettings, Watched, Asked, Opened
  <2>2. ASSUME RefocusSettings PROVE SavesInStep'
    BY <2>2 DEF RefocusSettings, Asked
  <2>3. ASSUME NEW n \in Saves, SubmitSettings(n) PROVE SavesInStep'
    BY <2>3 DEF SubmitSettings, Changed
  <2>4. ASSUME ReadSettings PROVE SavesInStep'
    BY <2>4 DEF ReadSettings, Answered
  <2>5. ASSUME SettingsArrive PROVE SavesInStep'
    BY <2>5 DEF SettingsArrive, Arrived, WaitedFor
  <2>6. ASSUME SettingsFail PROVE SavesInStep'
    BY <2>6 DEF SettingsFail, Failed, WaitedFor
  <2>7. ASSUME SettingsExpire PROVE SavesInStep'
    BY <2>7 DEF SettingsExpire, Expired
  <2>8. ASSUME NEW n \in Saves, ApplySave(n) PROVE SavesInStep'
    BY <2>8 DEF ApplySave, Comes
  <2>9. ASSUME NEW n \in Saves, RefuseSave(n) PROVE SavesInStep'
    BY <2>9 DEF RefuseSave, Ends, Over
  <2>10. ASSUME NEW n \in Saves, SaveSucceeds(n) PROVE SavesInStep'
    BY <2>10 DEF SaveSucceeds, Comes, Ends, Over, Invalidated, Expired
  <2>11. ASSUME NEW n \in Saves, FinishSave(n) PROVE SavesInStep'
    BY <2>11 DEF FinishSave, Comes
  <2>12. UNCHANGED <<settings, save, landed>> => SavesInStep'
    OBVIOUS
  <2>. QED
    BY <2>1, <2>2, <2>3, <2>4, <2>5, <2>6, <2>7, <2>8, <2>9, <2>10, <2>11, <2>12
    DEF SettingsNext, SettingsUser, SettingsEnvironment,
        LeaveSettings, ResetForm, SetField, OthersSave, RenderSettings
<1>4. FormInStep' /\ FormFollowsSettings'
  BY SettingsForm, <1>1
<1>. QED BY <1>1, <1>2, <1>3, <1>4

------------------------------------------------------------------------------
(***************************************************************************)
(* The auto-response pages: their inductive invariant.                     *)
(***************************************************************************)

\* An answer on its way has what ListShowsOwnChanges asks of a fresh list.
ListsOnTheirWay ==
    list.fetch = "answered" => completed \subseteq list.answer.asOf \cup overtaken

\* A request says what it is for, and one that was carried out is remembered.
WritesInStep ==
    \A n \in Writes :
        /\ write[n].step = "sent" /\ write[n].op # "create" => write[n].id \in Ids
        /\ write[n].step = "applied" => n \in applied

\* A form is open on the editor's routes only.  On the route of a response it
\* was last rendered with the row the list has, as long as it has one.
EditorInStep ==
    /\ page.at = "new" => form # None
    /\ page.at \notin {"new", "edit"} => form = None
    /\ page.at = "edit" =>
        /\ form = None <=> Rows[page.id] = None
        /\ form # None => /\ form.defaults = Rows[page.id]
                          /\ ~form.touched => form.values = form.defaults

\* The table starts at its top whenever it is shown.
TableInStep == page.at # "list" => view = TopOfTable

ResponsesInv ==
    /\ ResponsesTypeOK
    /\ ListShowsOwnChanges
    /\ ListsOnTheirWay
    /\ WritesInStep
    /\ WaitsForAFetch
    /\ EditorInStep
    /\ TableInStep
    /\ PageHasRows

LEMMA ResponsesStart ==
    ASSUME ResponsesInit, outside = 0
    PROVE  ResponsesInv
<1>1. list \in Query(List) /\ ~list.fresh /\ list.fetch = "idle" /\ list.answer = None
  BY DEF ResponsesInit, NoQuery, Query
<1>2. write \in [Writes -> Write] /\ \A n \in Writes : write[n].step = "unsent"
  BY DEF ResponsesInit, Unsent, Write
<1>3. /\ rows \in Table /\ born \subseteq Ids /\ outside \in 0..MaxOutside
      /\ page = Elsewhere /\ form = None /\ saving = None /\ view = TopOfTable
      /\ applied = {} /\ completed = {} /\ overtaken = {}
  BY StartAssumption, OutsideAssumption DEF ResponsesInit
<1>4. page \in [at : {"away", "loading", "list", "new", "edit"}, id : Ids \cup {None}]
      /\ page.at = "away" /\ page.id = None
  BY <1>3 DEF Elsewhere, At
<1>5. view \in [filter : Payloads \cup {All}, index : Nat]
  BY <1>3 DEF TopOfTable
<1>6. ResponsesTypeOK
  BY <1>1, <1>2, <1>3, <1>4, <1>5 DEF ResponsesTypeOK, ListWatched
<1>. QED
  BY <1>1, <1>2, <1>3, <1>4, <1>6
  DEF ResponsesInv, ListShowsOwnChanges, ListsOnTheirWay, WritesInStep, WaitsForAFetch,
      EditorInStep, TableInStep, PageHasRows

\* The editor's form is one whatever it shows, and never the lack of one.
LEMMA EditorForms ==
    ASSUME NEW v \in Values
    PROVE  /\ Opened(v) \in Form(Values) /\ Opened(v) # None
           /\ \A f \in Form(Values) : /\ Changed(f, v) \in Form(Values) /\ Changed(f, v) # None
                                      /\ Rendered(f, v) \in Form(Values) /\ Rendered(f, v) # None
<1>1. ASSUME NEW f \in Form(Values)
      PROVE  Changed(f, v) \in Form(Values) /\ Rendered(f, v) \in Form(Values)
  BY FormTypes
<1>2. Opened(v) \in Form(Values)
  BY FormTypes
<1>. QED BY <1>1, <1>2, NoListAssumption

\* What it shows is an empty form, a payload, or a row of the list.
LEMMA EditorValues == Invalid \in Values /\ Payloads \subseteq Values
BY DEF Values

LEMMA ListedPayloads ==
    ASSUME NEW l \in List, NEW id \in Ids, l.rows[id] # None
    PROVE  l.rows[id] \in Values
BY DEF List, Table, Values

\* A wait for the list ends.
LEMMA WaitEnds == \A op : AfterWait(op).step \in {"over", "refetched"}
BY DEF AfterWait, Unsent

\* The types are kept.
LEMMA ResponsesTypes ==
    ASSUME ResponsesInv, ResponsesNext
    PROVE  ResponsesTypeOK'
<1> USE NoListAssumption, PayloadsAssumption, IdsAssumption
    DEF ResponsesInv, ResponsesTypeOK, server, tab, known, ListWatched
<1> DEFINE ServerOK == rows \in Table /\ born \in SUBSET Ids /\ applied \in SUBSET Writes
           KnownOK == completed \in SUBSET applied /\ overtaken \in SUBSET completed
           FormOK == form \in Form(Values) \cup {None}
           SavingOK == saving \in Writes \cup {None}
           ViewOK == view \in [filter : Payloads \cup {All}, index : Nat]
           WriteOK == write \in [Writes -> Write]
           OutsideOK == outside \in 0..MaxOutside
           ListOK == /\ list \in Query(List)
                     /\ ListWatched \/ list.fresh => list.data # None
                     /\ list.fetch = "answered" <=> list.answer # None
           PageOK == /\ page \in [at : {"away", "loading", "list", "new", "edit"}, id : Ids \cup {None}]
                     /\ page.at = "edit" <=> page.id # None
<1>1. \A m \in Writes : AfterWait(write[m].op) \in Write
  BY DEF AfterWait, Unsent, Write
<1>2. ServerOK'
  <2> USE DEF Table, WritesInStep, Write
  <2>1. ASSUME NEW n \in Writes, ApplyWrite(n) PROVE ServerOK'
    BY <2>1 DEF ApplyWrite, Finding
  <2>2. ASSUME NEW id \in Ids, NEW payload \in Payloads \cup {None}, OthersWrite(id, payload)
        PROVE ServerOK'
    BY <2>2 DEF OthersWrite
  <2>3. UNCHANGED <<rows, born, applied>> => ServerOK'
    OBVIOUS
  <2>. QED
    BY <2>1, <2>2, <2>3
    DEF ResponsesNext, ResponsesUser, ResponsesEnvironment,
        GoToList, LeaveResponses, GoToNew, RefocusList, FilterList, Turn, GoToEditor,
        Delete, Type, SubmitResponse, ReadList, ListArrives, ListFails, ListExpires,
        RefuseWrite, WriteSucceeds, Saved
<1>3. KnownOK'
  <2> USE DEF WritesInStep
  <2>1. ASSUME NEW n \in Writes, ApplyWrite(n) PROVE KnownOK'
    BY <2>1 DEF ApplyWrite
  <2>2. ASSUME NEW n \in Writes, WriteSucceeds(n) PROVE KnownOK'
    BY <2>2 DEF WriteSucceeds
  <2>3. UNCHANGED <<applied, completed, overtaken>> => KnownOK'
    OBVIOUS
  <2>. QED
    BY <2>1, <2>2, <2>3
    DEF ResponsesNext, ResponsesUser, ResponsesEnvironment,
        GoToList, LeaveResponses, GoToNew, RefocusList, FilterList, Turn, GoToEditor,
        Delete, Type, SubmitResponse, ReadList, ListArrives, ListFails, ListExpires,
        RefuseWrite, Saved, OthersWrite
<1>4. ListOK'
  <2> USE DEF ListOK
  <2>1. ASSUME GoToList PROVE ListOK'
    <3>1. Watched(list) \in Query(List)
      BY QueryTypes
    <3>. QED BY <2>1, <3>1 DEF GoToList, Watched, ListOpens, Asked, At, Query
  <2>2. ASSUME LeaveResponses PROVE ListOK'
    BY <2>2 DEF LeaveResponses, GoTo, Elsewhere, At
  <2>3. ASSUME GoToNew PROVE ListOK'
    BY <2>3 DEF GoToNew, GoTo, At
  <2>4. ASSUME RefocusList PROVE ListOK'
    <3>1. Watched(list) \in Query(List)
      BY QueryTypes
    <3>. QED BY <2>4, <3>1 DEF RefocusList, Watched, Asked, Query
  <2>5. ASSUME NEW id \in Ids, GoToEditor(id) PROVE ListOK'
    <3>1. Watched(list) \in Query(List)
      BY QueryTypes
    <3>. QED BY <2>5, <3>1 DEF GoToEditor, Watched, GoTo, At, Asked, Query
  <2>6. ASSUME ReadList PROVE ListOK'
    <3>1. [rows |-> rows, asOf |-> applied] \in List
      BY DEF List
    <3>2. list' \in Query(List)
      BY <2>6, <3>1, QueryTypes DEF ReadList
    <3>. QED BY <2>6, <3>1, <3>2 DEF ReadList, Answered, Query
  <2>7. ASSUME ListArrives PROVE ListOK'
    <3>1. Arrived(list) \in Query(List)
      BY QueryTypes
    <3>. QED BY <2>7, <3>1 DEF ListArrives, Arrived, At, Query
  <2>8. ASSUME ListFails PROVE ListOK'
    <3>1. Failed(list) \in Query(List)
      BY QueryTypes
    <3>. QED BY <2>8, <3>1 DEF ListFails, Failed, Elsewhere, At, Query
  <2>9. ASSUME ListExpires PROVE ListOK'
    <3>1. Expired(list) \in Query(List)
      BY QueryTypes
    <3>. QED BY <2>9, <3>1 DEF ListExpires, Expired, Query
  <2>10. ASSUME NEW n \in Writes, WriteSucceeds(n) PROVE ListOK'
    <3>1. Invalidated(list, ListWatched) \in Query(List)
      BY DEF Invalidated, Expired, Query
    <3>. QED BY <2>10, <3>1 DEF WriteSucceeds, OnSuccess, Invalidated, Expired, Query
  <2>11. ASSUME NEW n \in Writes, Saved(n) PROVE ListOK'
    <3>1. Watched(list) \in Query(List)
      BY QueryTypes
    <3>. QED BY <2>11, <3>1 DEF Saved, Watched, ListOpens, Asked, At, Query
  <2>12. UNCHANGED <<list, page>> => ListOK'
    OBVIOUS
  <2>. QED
    BY <2>1, <2>2, <2>3, <2>4, <2>5, <2>6, <2>7, <2>8, <2>9, <2>10, <2>11, <2>12
    DEF ResponsesNext, ResponsesUser, ResponsesEnvironment,
        FilterList, Turn, Delete, Type, SubmitResponse, ApplyWrite, RefuseWrite, OthersWrite
<1>5. PageOK'
  <2> USE DEF PageOK
  <2>1. ASSUME GoToList PROVE PageOK'
    BY <2>1 DEF GoToList, ListOpens, At
  <2>2. ASSUME LeaveResponses PROVE PageOK'
    BY <2>2 DEF LeaveResponses, GoTo, Elsewhere, At
  <2>3. ASSUME GoToNew PROVE PageOK'
    BY <2>3 DEF GoToNew, GoTo, At
  <2>4. ASSUME NEW id \in Ids, GoToEditor(id) PROVE PageOK'
    BY <2>4 DEF GoToEditor, GoTo, At
  <2>5. ASSUME ListArrives PROVE PageOK'
    BY <2>5 DEF ListArrives, At
  <2>6. ASSUME ListFails PROVE PageOK'
    BY <2>6 DEF ListFails, Elsewhere, At
  <2>7. ASSUME NEW n \in Writes, Saved(n) PROVE PageOK'
    BY <2>7 DEF Saved, ListOpens, At
  <2>8. UNCHANGED <<page>> => PageOK'
    OBVIOUS
  <2>. QED
    BY <2>1, <2>2, <2>3, <2>4, <2>5, <2>6, <2>7, <2>8
    DEF ResponsesNext, ResponsesUser, ResponsesEnvironment,
        RefocusList, FilterList, Turn, Delete, Type, SubmitResponse, ReadList, ListExpires,
        ApplyWrite, RefuseWrite, WriteSucceeds, OthersWrite
<1>6. FormOK'
  <2>1. ASSUME GoToList PROVE FormOK'
    BY <2>1 DEF GoToList, ListOpens
  <2>2. ASSUME LeaveResponses PROVE FormOK'
    BY <2>2 DEF LeaveResponses, GoTo
  <2>3. ASSUME GoToNew PROVE FormOK'
    BY <2>3, EditorForms, EditorValues DEF GoToNew, GoTo
  <2>4. ASSUME NEW id \in Ids, GoToEditor(id) PROVE FormOK'
    <3>1. list.data \in List
      BY <2>4 DEF GoToEditor, Query
    <3>2. Rows[id] # None
      BY <2>4 DEF GoToEditor, Shown, Matches
    <3>3. Rows[id] \in Values
      BY <3>1, <3>2, ListedPayloads DEF Rows
    <3>. QED BY <2>4, <3>3, EditorForms DEF GoToEditor, GoTo
  <2>5. ASSUME NEW v \in Payloads, Type(v) PROVE FormOK'
    BY <2>5, EditorForms, EditorValues DEF Type
  <2>6. ASSUME NEW n \in Writes, SubmitResponse(n) PROVE FormOK'
    <3>1. form \in Form(Values) /\ form.values \in Values
      BY <2>6, EditorValues DEF SubmitResponse
    <3>. QED BY <2>6, <3>1, EditorForms DEF SubmitResponse
  <2>7. ASSUME ListArrives PROVE FormOK'
    <3>1. CASE page.at = "edit"
      <4>1. list.answer \in List /\ page.id \in Ids
        BY <2>7, <3>1 DEF ListArrives, Query
      <4>2. form' = Rerendered(list.answer.rows[page.id])
        BY <2>7, <3>1 DEF ListArrives
      <4>. QED BY <4>1, <4>2, EditorForms, ListedPayloads DEF Rerendered
    <3>2. CASE page.at # "edit"
      BY <2>7, <3>2 DEF ListArrives
    <3>. QED BY <3>1, <3>2
  <2>8. ASSUME NEW n \in Writes, Saved(n) PROVE FormOK'
    BY <2>8 DEF Saved, ListOpens
  <2>9. UNCHANGED <<form>> => FormOK'
    OBVIOUS
  <2>. QED
    BY <2>1, <2>2, <2>3, <2>4, <2>5, <2>6, <2>7, <2>8, <2>9
    DEF ResponsesNext, ResponsesUser, ResponsesEnvironment,
        RefocusList, FilterList, Turn, Delete, ReadList, ListFails, ListExpires,
        ApplyWrite, RefuseWrite, WriteSucceeds, OthersWrite
<1>7. SavingOK'
  <2>1. ASSUME GoToList PROVE SavingOK'
    BY <2>1 DEF GoToList, ListOpens
  <2>2. ASSUME LeaveResponses PROVE SavingOK'
    BY <2>2 DEF LeaveResponses, GoTo
  <2>3. ASSUME GoToNew PROVE SavingOK'
    BY <2>3 DEF GoToNew, GoTo
  <2>4. ASSUME NEW id \in Ids, GoToEditor(id) PROVE SavingOK'
    BY <2>4 DEF GoToEditor, GoTo
  <2>5. ASSUME NEW n \in Writes, SubmitResponse(n) PROVE SavingOK'
    BY <2>5 DEF SubmitResponse
  <2>6. ASSUME NEW n \in Writes, RefuseWrite(n) PROVE SavingOK'
    BY <2>6 DEF RefuseWrite
  <2>7. ASSUME ListArrives PROVE SavingOK'
    BY <2>7 DEF ListArrives
  <2>8. ASSUME NEW n \in Writes, Saved(n) PROVE SavingOK'
    BY <2>8 DEF Saved, ListOpens
  <2>9. UNCHANGED <<saving>> => SavingOK'
    OBVIOUS
  <2>. QED
    BY <2>1, <2>2, <2>3, <2>4, <2>5, <2>6, <2>7, <2>8, <2>9
    DEF ResponsesNext, ResponsesUser, ResponsesEnvironment,
        RefocusList, FilterList, Turn, Delete, Type, ReadList, ListFails, ListExpires,
        ApplyWrite, WriteSucceeds, OthersWrite
<1>8. ViewOK'
  <2>1. ASSUME GoToList PROVE ViewOK'
    BY <2>1 DEF GoToList, ListOpens, TopOfTable
  <2>2. ASSUME LeaveResponses PROVE ViewOK'
    BY <2>2 DEF LeaveResponses, GoTo, TopOfTable
  <2>3. ASSUME GoToNew PROVE ViewOK'
    BY <2>3 DEF GoToNew, GoTo, TopOfTable
  <2>4. ASSUME NEW id \in Ids, GoToEditor(id) PROVE ViewOK'
    BY <2>4 DEF GoToEditor, GoTo, TopOfTable
  <2>5. ASSUME NEW f \in Payloads \cup {All}, FilterList(f) PROVE ViewOK'
    BY <2>5 DEF FilterList
  <2>6. ASSUME NEW index \in 0..Cardinality(Ids), Turn(index) PROVE ViewOK'
    <3>1. Cardinality(Ids) \in Nat
      BY FS_CardinalityType
    <3>. QED BY <2>6, <3>1 DEF Turn
  <2>7. ASSUME ListArrives PROVE ViewOK'
    BY <2>7 DEF ListArrives, Refiltered
  <2>8. ASSUME NEW n \in Writes, Saved(n) PROVE ViewOK'
    BY <2>8 DEF Saved, ListOpens, TopOfTable
  <2>9. UNCHANGED <<view>> => ViewOK'
    OBVIOUS
  <2>. QED
    BY <2>1, <2>2, <2>3, <2>4, <2>5, <2>6, <2>7, <2>8, <2>9
    DEF ResponsesNext, ResponsesUser, ResponsesEnvironment,
        RefocusList, Delete, Type, SubmitResponse, ReadList, ListFails, ListExpires,
        ApplyWrite, RefuseWrite, WriteSucceeds, OthersWrite
<1>9. WriteOK'
  <2>1. ASSUME NEW id \in Ids, NEW n \in Writes, Delete(n, id) PROVE WriteOK'
    BY <2>1 DEF Delete, Send, Write
  <2>2. ASSUME NEW n \in Writes, SubmitResponse(n) PROVE WriteOK'
    <3>1. page.id \in Ids \cup {None} /\ form.values \in Payloads
      BY <2>2 DEF SubmitResponse
    <3>. QED BY <2>2, <3>1 DEF SubmitResponse, Send, Write
  <2>3. ASSUME ListArrives PROVE WriteOK'
    BY <2>3, <1>1 DEF ListArrives, Released, Write
  <2>4. ASSUME ListFails PROVE WriteOK'
    BY <2>4, <1>1 DEF ListFails, Released, Write
  <2>5. ASSUME NEW n \in Writes, ApplyWrite(n) PROVE WriteOK'
    BY <2>5 DEF ApplyWrite, Become, Write
  <2>6. ASSUME NEW n \in Writes, RefuseWrite(n) PROVE WriteOK'
    BY <2>6 DEF RefuseWrite, Become, Write
  <2>7. ASSUME NEW n \in Writes, WriteSucceeds(n) PROVE WriteOK'
    BY <2>7, <1>1 DEF WriteSucceeds, Become, Write
  <2>8. ASSUME NEW n \in Writes, Saved(n) PROVE WriteOK'
    BY <2>8 DEF Saved, Become, Write
  <2>9. UNCHANGED <<write>> => WriteOK'
    OBVIOUS
  <2>. QED
    BY <2>1, <2>2, <2>3, <2>4, <2>5, <2>6, <2>7, <2>8, <2>9
    DEF ResponsesNext, ResponsesUser, ResponsesEnvironment,
        GoToList, LeaveResponses, GoToNew, RefocusList, FilterList, Turn, GoToEditor, Type,
        ReadList, ListExpires, OthersWrite
<1>10. OutsideOK'
  <2> USE OutsideAssumption DEF Outside
  <2>1. ASSUME NEW n \in Writes, RefuseWrite(n) PROVE OutsideOK'
    BY <2>1 DEF RefuseWrite
  <2>2. ASSUME ListFails PROVE OutsideOK'
    BY <2>2 DEF ListFails
  <2>3. ASSUME NEW id \in Ids, NEW payload \in Payloads \cup {None}, OthersWrite(id, payload)
        PROVE OutsideOK'
    BY <2>3 DEF OthersWrite
  <2>4. UNCHANGED <<outside>> => OutsideOK'
    OBVIOUS
  <2>. QED
    BY <2>1, <2>2, <2>3, <2>4
    DEF ResponsesNext, ResponsesUser, ResponsesEnvironment,
        GoToList, LeaveResponses, GoToNew, RefocusList, FilterList, Turn, GoToEditor,
        Delete, Type, SubmitResponse, ReadList, ListArrives, ListExpires, ApplyWrite,
        WriteSucceeds, Saved
<1>. QED BY <1>2, <1>3, <1>4, <1>5, <1>6, <1>7, <1>8, <1>9, <1>10

\* The table is never turned beyond its rows.
LEMMA RowsOnThePage ==
    ASSUME ResponsesInv, ResponsesNext
    PROVE  PageHasRows'
<1> USE DEF ResponsesInv, ResponsesTypeOK, server, tab, known, PageHasRows, TableInStep
<1>1. Cardinality(Shown) \in Nat
  <2>1. Shown \subseteq Ids
    BY DEF Shown, Matches
  <2>. QED BY <2>1, IdsAssumption, FS_Subset, FS_CardinalityType
<1>2. view.index \in Nat /\ PageSize \in Nat
  BY BoundsAssumption
<1> DEFINE SameTable == page' = page /\ view' = view /\ list'.data = list.data
<1>3. SameTable => PageHasRows'
  BY DEF Shown, Matches, Rows
<1>4. view'.index = 0 \/ page'.at # "list" => PageHasRows'
  OBVIOUS
<1>5. ASSUME GoToList PROVE PageHasRows'
  BY <1>5, <1>4 DEF GoToList, ListOpens, TopOfTable
<1>6. ASSUME LeaveResponses PROVE PageHasRows'
  BY <1>6, <1>4 DEF LeaveResponses, GoTo, TopOfTable
<1>7. ASSUME GoToNew PROVE PageHasRows'
  BY <1>7, <1>4 DEF GoToNew, GoTo, TopOfTable
<1>8. ASSUME NEW f \in Payloads \cup {All}, FilterList(f) PROVE PageHasRows'
  BY <1>8, <1>4 DEF FilterList
<1>9. ASSUME NEW id \in Ids, GoToEditor(id) PROVE PageHasRows'
  BY <1>9, <1>4 DEF GoToEditor, GoTo, TopOfTable
<1>10. ASSUME NEW n \in Writes, Saved(n) PROVE PageHasRows'
  <2>1. CASE page.at \in {"list", "loading"}
    <3>1. SameTable
      BY <1>10, <2>1 DEF Saved
    <3>. QED BY <1>3, <3>1
  <2>2. CASE page.at \notin {"list", "loading"}
    BY <1>10, <1>4, <2>2 DEF Saved, ListOpens, TopOfTable
  <2>. QED BY <2>1, <2>2
<1>11. ASSUME ListFails PROVE PageHasRows'
  <2>1. page.at = "loading" => PageHasRows'
    BY <1>11, <1>4 DEF ListFails, Elsewhere, At
  <2>2. page.at # "loading" => SameTable
    BY <1>11 DEF ListFails, Failed, Query
  <2>. QED BY <1>3, <2>1, <2>2
<1>12. ASSUME RefocusList PROVE PageHasRows'
  <2>1. SameTable
    BY <1>12 DEF RefocusList, Watched, Asked, Query
  <2>. QED BY <1>3, <2>1
<1>13. ASSUME ReadList PROVE PageHasRows'
  <2>1. SameTable
    BY <1>13 DEF ReadList, Answered, Query
  <2>. QED BY <1>3, <2>1
<1>14. ASSUME ListExpires PROVE PageHasRows'
  <2>1. SameTable
    BY <1>14 DEF ListExpires, Expired, Query
  <2>. QED BY <1>3, <2>1
<1>15. ASSUME NEW n \in Writes, WriteSucceeds(n) PROVE PageHasRows'
  <2>1. SameTable
    BY <1>15 DEF WriteSucceeds, OnSuccess, Invalidated, Expired, Query
  <2>. QED BY <1>3, <2>1
<1>16. ASSUME NEW index \in 0..Cardinality(Ids), Turn(index) PROVE PageHasRows'
  <2>1. Shown' = Shown /\ page' = page /\ view' = [view EXCEPT !.index = index]
    BY <1>16 DEF Turn, Shown, Matches, Rows
  <2>2. view'.index = index /\ index \in Nat
    <3>1. Cardinality(Ids) \in Nat
      BY IdsAssumption, FS_CardinalityType
    <3>. QED BY <1>16, <2>1, <3>1 DEF Turn
  <2>3. CASE index * PageSize < Cardinality(Shown)
    BY <2>1, <2>2, <2>3
  <2>4. CASE index + 1 = view.index
    <3>1. view.index * PageSize < Cardinality(Shown)
      BY <1>16, <1>2, <2>2, <2>4 DEF Turn
    <3>2. view.index * PageSize = index * PageSize + PageSize /\ index * PageSize \in Nat
      BY <1>2, <2>2, <2>4
    <3>3. index * PageSize < Cardinality(Shown)
      <4> DEFINE i == index * PageSize  v == view.index * PageSize  c == Cardinality(Shown)
      <4>1. i \in Nat /\ v = i + PageSize /\ c \in Nat /\ v < c /\ PageSize \in Nat
        BY <1>1, <1>2, <3>1, <3>2
      <4> HIDE DEF i, v, c
      <4>2. i < c
        BY <4>1
      <4>. QED BY <4>2 DEF i, c
    <3>. QED BY <2>1, <2>2, <3>3
  <2>. QED BY <1>16, <2>3, <2>4 DEF Turn
<1>17. ASSUME ListArrives PROVE PageHasRows'
  <2>1. CASE page.at = "list"
    <3>1. page' = page /\ list'.data = list.answer
      BY <1>17, <2>1 DEF ListArrives, Arrived
    <3>2. CASE Rows = list.answer.rows
      <4>1. view' = view
        BY <1>17, <2>1, <3>2 DEF ListArrives, Refiltered
      <4>2. Shown' = Shown
        BY <3>1, <3>2, <4>1 DEF Shown, Matches, Rows
      <4>. QED BY <3>1, <4>1, <4>2
    <3>3. CASE Rows # list.answer.rows
      BY <1>17, <1>4, <2>1, <3>3 DEF ListArrives, Refiltered
    <3>. QED BY <3>2, <3>3
  <2>2. CASE page.at # "list"
    BY <1>17, <1>4, <2>2 DEF ListArrives, TopOfTable
  <2>. QED BY <2>1, <2>2
<1>18. UNCHANGED <<list, page, view>> => PageHasRows'
  BY <1>3
<1>. QED
  BY <1>5, <1>6, <1>7, <1>8, <1>9, <1>10, <1>11, <1>12, <1>13, <1>14, <1>15, <1>16, <1>17,
      <1>18
  DEF ResponsesNext, ResponsesUser, ResponsesEnvironment, Delete, Type, SubmitResponse,
      ApplyWrite, RefuseWrite, OthersWrite

\* Every step of the pages keeps the invariant.
LEMMA ResponsesStep ==
    ASSUME ResponsesInv, ResponsesNext
    PROVE  ResponsesInv'
<1> USE NoListAssumption, PayloadsAssumption, IdsAssumption
    DEF ResponsesInv, ResponsesTypeOK, server, tab, known, Query, List, ListWatched
<1>1. ResponsesTypeOK'
  BY ResponsesTypes
<1>2. ListShowsOwnChanges' /\ ListsOnTheirWay'
  <2> USE DEF ListShowsOwnChanges, ListsOnTheirWay
  <2>1. ASSUME GoToList PROVE ListShowsOwnChanges' /\ ListsOnTheirWay'
    BY <2>1 DEF GoToList, ListOpens, Watched, Asked, TopOfTable, At
  <2>2. ASSUME RefocusList PROVE ListShowsOwnChanges' /\ ListsOnTheirWay'
    BY <2>2 DEF RefocusList, Watched, Asked
  <2>3. ASSUME NEW id \in Ids, GoToEditor(id) PROVE ListShowsOwnChanges' /\ ListsOnTheirWay'
    BY <2>3 DEF GoToEditor, GoTo, At, Opened, Watched, Asked, TopOfTable
  <2>4. ASSUME ReadList PROVE ListShowsOwnChanges' /\ ListsOnTheirWay'
    BY <2>4 DEF ReadList, Answered
  <2>5. ASSUME ListArrives PROVE ListShowsOwnChanges' /\ ListsOnTheirWay'
    BY <2>5 DEF ListArrives, Arrived, Released, AfterWait, Unsent, Rerendered, Refiltered,
        Rendered, Opened, At, Rows
  <2>6. ASSUME ListFails PROVE ListShowsOwnChanges' /\ ListsOnTheirWay'
    BY <2>6 DEF ListFails, Failed, Released, AfterWait, Unsent, Elsewhere, At
  <2>7. ASSUME ListExpires PROVE ListShowsOwnChanges' /\ ListsOnTheirWay'
    BY <2>7 DEF ListExpires, Expired
  <2>8. ASSUME NEW n \in Writes, WriteSucceeds(n)
        PROVE ListShowsOwnChanges' /\ ListsOnTheirWay'
    <3>1. CASE ListWatched
      BY <2>8, <3>1 DEF WriteSucceeds, Become, OnSuccess, Invalidated
    <3>2. CASE ~ListWatched
      BY <2>8, <3>2, WaitEnds DEF WriteSucceeds, OnSuccess, Invalidated, Expired
    <3>. QED BY <3>1, <3>2
  <2>9. ASSUME NEW n \in Writes, Saved(n) PROVE ListShowsOwnChanges' /\ ListsOnTheirWay'
    BY <2>9 DEF Saved, Become, ListOpens, Watched, Asked, TopOfTable, At
  <2>10. UNCHANGED <<list, completed, overtaken>> => ListShowsOwnChanges' /\ ListsOnTheirWay'
    OBVIOUS
  <2>. QED
    BY <2>1, <2>2, <2>3, <2>4, <2>5, <2>6, <2>7, <2>8, <2>9, <2>10
    DEF ResponsesNext, ResponsesUser, ResponsesEnvironment,
        LeaveResponses, GoToNew, FilterList, Turn, Delete, Type, SubmitResponse,
        ApplyWrite, RefuseWrite, OthersWrite
<1>3. WritesInStep'
  <2> USE DEF WritesInStep, Write, EditorInStep
  <2>1. ASSUME NEW id \in Ids, NEW n \in Writes, Delete(n, id) PROVE WritesInStep'
    BY <2>1 DEF Delete, Send
  <2>2. ASSUME NEW n \in Writes, SubmitResponse(n) PROVE WritesInStep'
    BY <2>2 DEF SubmitResponse, Send, Changed
  <2>3. ASSUME ListArrives PROVE WritesInStep'
    BY <2>3 DEF ListArrives, Arrived, Released, AfterWait, Unsent, Rerendered, Refiltered,
        Rendered, Opened, At, Rows
  <2>4. ASSUME ListFails PROVE WritesInStep'
    BY <2>4 DEF ListFails, Failed, Released, AfterWait, Unsent, Elsewhere, At
  <2>5. ASSUME NEW n \in Writes, ApplyWrite(n) PROVE WritesInStep'
    BY <2>5 DEF ApplyWrite, Become
  <2>6. ASSUME NEW n \in Writes, RefuseWrite(n) PROVE WritesInStep'
    BY <2>6 DEF RefuseWrite, Become
  <2>7. ASSUME NEW n \in Writes, WriteSucceeds(n) PROVE WritesInStep'
    <3>1. CASE ListWatched
      BY <2>7, <3>1 DEF WriteSucceeds, Become, OnSuccess, Invalidated
    <3>2. CASE ~ListWatched
      BY <2>7, <3>2, WaitEnds DEF WriteSucceeds, OnSuccess, Invalidated, Expired
    <3>. QED BY <3>1, <3>2
  <2>8. ASSUME NEW n \in Writes, Saved(n) PROVE WritesInStep'
    BY <2>8 DEF Saved, Become, ListOpens, Watched, Asked, TopOfTable, At
  <2>9. UNCHANGED <<write, applied>> => WritesInStep'
    OBVIOUS
  <2>. QED
    BY <2>1, <2>2, <2>3, <2>4, <2>5, <2>6, <2>7, <2>8, <2>9
    DEF ResponsesNext, ResponsesUser, ResponsesEnvironment,
        GoToList, LeaveResponses, GoToNew, RefocusList, FilterList, Turn, GoToEditor, Type,
        ReadList, ListExpires, OthersWrite
<1>4. WaitsForAFetch'
  <2> USE DEF WaitsForAFetch, Write
  <2>1. ASSUME GoToList PROVE WaitsForAFetch'
    BY <2>1 DEF GoToList, ListOpens, Watched, Asked, TopOfTable, At
  <2>2. ASSUME RefocusList PROVE WaitsForAFetch'
    BY <2>2 DEF RefocusList, Watched, Asked
  <2>3. ASSUME NEW id \in Ids, GoToEditor(id) PROVE WaitsForAFetch'
    BY <2>3 DEF GoToEditor, GoTo, At, Opened, Watched, Asked, TopOfTable
  <2>4. ASSUME NEW id \in Ids, NEW n \in Writes, Delete(n, id) PROVE WaitsForAFetch'
    BY <2>4 DEF Delete, Send
  <2>5. ASSUME NEW n \in Writes, SubmitResponse(n) PROVE WaitsForAFetch'
    BY <2>5 DEF SubmitResponse, Send, Changed
  <2>6. ASSUME ReadList PROVE WaitsForAFetch'
    BY <2>6 DEF ReadList, Answered
  <2>7. ASSUME ListArrives PROVE WaitsForAFetch'
    BY <2>7 DEF ListArrives, Arrived, Released, AfterWait, Unsent, Rerendered, Refiltered,
        Rendered, Opened, At, Rows
  <2>8. ASSUME ListFails PROVE WaitsForAFetch'
    BY <2>8 DEF ListFails, Failed, Released, AfterWait, Unsent, Elsewhere, At
  <2>9. ASSUME ListExpires PROVE WaitsForAFetch'
    BY <2>9 DEF ListExpires, Expired
  <2>10. ASSUME NEW n \in Writes, ApplyWrite(n) PROVE WaitsForAFetch'
    BY <2>10 DEF ApplyWrite, Become
  <2>11. ASSUME NEW n \in Writes, RefuseWrite(n) PROVE WaitsForAFetch'
    BY <2>11 DEF RefuseWrite, Become
  <2>12. ASSUME NEW n \in Writes, WriteSucceeds(n) PROVE WaitsForAFetch'
    <3>1. CASE ListWatched
      BY <2>12, <3>1 DEF WriteSucceeds, Become, OnSuccess, Invalidated
    <3>2. CASE ~ListWatched
      BY <2>12, <3>2, WaitEnds DEF WriteSucceeds, OnSuccess, Invalidated, Expired
    <3>. QED BY <3>1, <3>2
  <2>13. ASSUME NEW n \in Writes, Saved(n) PROVE WaitsForAFetch'
    BY <2>13 DEF Saved, Become, ListOpens, Watched, Asked, TopOfTable, At
  <2>14. UNCHANGED <<list, write>> => WaitsForAFetch'
    OBVIOUS
  <2>. QED
    BY <2>1, <2>2, <2>3, <2>4, <2>5, <2>6, <2>7, <2>8, <2>9, <2>10, <2>11, <2>12, <2>13,
        <2>14
    DEF ResponsesNext, ResponsesUser, ResponsesEnvironment,
        LeaveResponses, GoToNew, FilterList, Turn, Type, OthersWrite
<1>5. EditorInStep'
  <2> USE DEF EditorInStep, Form, Rows
  <2>1. ASSUME GoToList PROVE EditorInStep'
    BY <2>1 DEF GoToList, ListOpens, Watched, Asked, TopOfTable, At
  <2>2. ASSUME LeaveResponses PROVE EditorInStep'
    BY <2>2 DEF LeaveResponses, GoTo, Elsewhere, At, TopOfTable
  <2>3. ASSUME GoToNew PROVE EditorInStep'
    BY <2>3, EditorForms, ListedPayloads, EditorValues DEF GoToNew, GoTo, At, Opened,
        TopOfTable
  <2>4. ASSUME RefocusList PROVE EditorInStep'
    BY <2>4 DEF RefocusList, Watched, Asked
  <2>5. ASSUME NEW id \in Ids, GoToEditor(id) PROVE EditorInStep'
    BY <2>5, EditorForms, ListedPayloads, EditorValues DEF GoToEditor, GoTo, At, Opened,
        Watched, Asked, TopOfTable, Shown, Matches
  <2>6. ASSUME NEW v \in Payloads, Type(v) PROVE EditorInStep'
    BY <2>6, EditorForms, ListedPayloads, EditorValues DEF Type, Changed
  <2>7. ASSUME NEW n \in Writes, SubmitResponse(n) PROVE EditorInStep'
    BY <2>7 DEF SubmitResponse, Send, Changed
  <2>8. ASSUME ReadList PROVE EditorInStep'
    BY <2>8 DEF ReadList, Answered
  <2>9. ASSUME ListArrives PROVE EditorInStep'
    <3>1. CASE page.at = "edit"
      <4>1. /\ list.answer \in List /\ page.id \in Ids
            /\ page' = page /\ list'.data = list.answer
            /\ form' = Rerendered(list.answer.rows[page.id])
        BY <2>9, <3>1 DEF ListArrives, Arrived
      <4>2. CASE list.answer.rows[page.id] = None
        BY <3>1, <4>1, <4>2 DEF Rerendered
      <4>3. CASE list.answer.rows[page.id] # None /\ form = None
        BY <3>1, <4>1, <4>3, EditorForms, ListedPayloads DEF Rerendered, Opened
      <4>4. CASE list.answer.rows[page.id] # None /\ form # None
        <5>1. form' = Rendered(form, list.answer.rows[page.id]) /\ form' # None
          BY <4>1, <4>4, EditorForms, ListedPayloads DEF Rerendered
        <5>2. /\ form'.defaults = list.answer.rows[page.id]
              /\ form'.touched = form.touched
              /\ ~form.touched => form'.values = form'.defaults
          BY <3>1, <4>4, <5>1 DEF Rendered
        <5>. QED BY <3>1, <4>1, <4>4, <5>1, <5>2
      <4>. QED BY <4>2, <4>3, <4>4
    <3>2. CASE page.at # "edit"
      BY <2>9, <3>2 DEF ListArrives, Arrived, Released, AfterWait, Unsent, Rerendered,
          Refiltered, Rendered, Opened, At, Rows
    <3>. QED BY <3>1, <3>2
  <2>10. ASSUME ListFails PROVE EditorInStep'
    BY <2>10 DEF ListFails, Failed, Released, AfterWait, Unsent, Elsewhere, At
  <2>11. ASSUME ListExpires PROVE EditorInStep'
    BY <2>11 DEF ListExpires, Expired
  <2>12. ASSUME NEW n \in Writes, WriteSucceeds(n) PROVE EditorInStep'
    BY <2>12 DEF WriteSucceeds, Become, AfterWait, Unsent, OnSuccess, Invalidated, Expired
  <2>13. ASSUME NEW n \in Writes, Saved(n) PROVE EditorInStep'
    BY <2>13 DEF Saved, Become, ListOpens, Watched, Asked, TopOfTable, At
  <2>14. UNCHANGED <<list, page, form>> => EditorInStep'
    OBVIOUS
  <2>. QED
    BY <2>1, <2>2, <2>3, <2>4, <2>5, <2>6, <2>7, <2>8, <2>9, <2>10, <2>11, <2>12, <2>13,
        <2>14
    DEF ResponsesNext, ResponsesUser, ResponsesEnvironment,
        FilterList, Turn, Delete, ApplyWrite, RefuseWrite, OthersWrite
<1>6. TableInStep'
  <2> USE DEF TableInStep
  <2>1. ASSUME GoToList PROVE TableInStep'
    BY <2>1 DEF GoToList, ListOpens, Watched, Asked, TopOfTable, At
  <2>2. ASSUME LeaveResponses PROVE TableInStep'
    BY <2>2 DEF LeaveResponses, GoTo, Elsewhere, At, TopOfTable
  <2>3. ASSUME GoToNew PROVE TableInStep'
    BY <2>3 DEF GoToNew, GoTo, At, Opened, TopOfTable
  <2>4. ASSUME NEW f \in Payloads \cup {All}, FilterList(f) PROVE TableInStep'
    BY <2>4 DEF FilterList
  <2>5. ASSUME NEW index \in 0..Cardinality(Ids), Turn(index) PROVE TableInStep'
    BY <2>5 DEF Turn
  <2>6. ASSUME NEW id \in Ids, GoToEditor(id) PROVE TableInStep'
    BY <2>6 DEF GoToEditor, GoTo, At, Opened, Watched, Asked, TopOfTable
  <2>7. ASSUME ListArrives PROVE TableInStep'
    BY <2>7 DEF ListArrives, Arrived, Released, AfterWait, Unsent, Rerendered, Refiltered,
        Rendered, Opened, At, Rows
  <2>8. ASSUME ListFails PROVE TableInStep'
    BY <2>8 DEF ListFails, Failed, Released, AfterWait, Unsent, Elsewhere, At
  <2>9. ASSUME NEW n \in Writes, Saved(n) PROVE TableInStep'
    BY <2>9 DEF Saved, Become, ListOpens, Watched, Asked, TopOfTable, At
  <2>10. UNCHANGED <<page, view>> => TableInStep'
    OBVIOUS
  <2>. QED
    BY <2>1, <2>2, <2>3, <2>4, <2>5, <2>6, <2>7, <2>8, <2>9, <2>10
    DEF ResponsesNext, ResponsesUser, ResponsesEnvironment,
        RefocusList, Delete, Type, SubmitResponse, ReadList, ListExpires, ApplyWrite,
        RefuseWrite, WriteSucceeds, OthersWrite
<1>7. PageHasRows'
  BY RowsOnThePage
<1>. QED BY <1>1, <1>2, <1>3, <1>4, <1>5, <1>6, <1>7

------------------------------------------------------------------------------
(***************************************************************************)
(* The audit log: its inductive invariant.                                 *)
(***************************************************************************)

\* What a page says of the totals was true of the log once: wherever a page
\* is, cached, on its way or on the screen, it counted no more than there is.
PagesAreOfTheLog ==
    /\ \A k \in Key :
        /\ pages[k].data # None => pages[k].data.counted <= Len(log)
        /\ pages[k].fetch \in {"counted", "answered"} =>
            pages[k].answer \in Page /\ pages[k].answer.counted <= Len(log)
    /\ shown # None => shown.data.counted <= Len(log)

\* Every page was counted before it was read.
CountedFirst ==
    \A k \in Key :
        /\ pages[k].data # None => pages[k].data.counted <= pages[k].data.read
        /\ pages[k].fetch = "answered" => pages[k].answer.counted <= pages[k].answer.read

LogInv ==
    /\ LogTypeOK
    /\ PagesAreOfTheLog
    /\ CountedFirst
    /\ PageWithinLog

\* Division rounds down.
LEMMA DivGrows ==
    ASSUME NEW s \in Nat \ {0}, NEW x \in Nat, NEW y \in Nat, x <= y
    PROVE  x \div s \in Nat /\ x \div s <= y \div s
<1> DEFINE a == x \div s  b == y \div s
<1>1. a \in Nat /\ b \in Nat
  OBVIOUS
<1>2. s * a <= x /\ y < s * b + s
  OBVIOUS
<1> HIDE DEF a, b
<1>3. ASSUME a >= b + 1 PROVE FALSE
  <2>1. s * a >= s * (b + 1)
    BY <1>1, <1>3
  <2>2. s * (b + 1) = s * b + s
    BY <1>1
  <2>3. s * a \in Nat /\ s * b \in Nat
    BY <1>1
  <2>. QED BY <1>2, <2>1, <2>2, <2>3
<1>4. a <= b
  BY <1>1, <1>3
<1>. QED BY <1>1, <1>4 DEF a, b

\* A log has at least one page, and the whole log has at least as many pages
\* as any selection of an earlier one.
LEMMA PagesGrow ==
    ASSUME LogTypeOK, NEW filter, NEW n \in Nat, NEW m \in Nat, n <= m
    PROVE  /\ TotalPages(filter, n) \in Nat
           /\ TotalPages(NoFilter, m) \in Nat /\ 1 <= TotalPages(NoFilter, m)
           /\ TotalPages(filter, n) <= TotalPages(NoFilter, m)
<1> DEFINE t == Total(filter, n)
<1>1. Selection(filter, n) \subseteq 1..m
  BY DEF Selection
<1>2. IsFiniteSet(1..m) /\ Cardinality(1..m) = m
  BY FS_Interval
<1>3. t \in Nat /\ t <= m
  BY <1>1, <1>2, FS_Subset, FS_CardinalityType DEF Total
<1>4. Total(NoFilter, m) = m
  <2>1. Selection(NoFilter, m) = 1..m
    BY DEF Selection, Selects, NoFilter
  <2>. QED BY <1>2, <2>1 DEF Total
<1> HIDE DEF t
<1>5. LogPageSize \in Nat \ {0}
  BY LogAssumption
<1>6. TotalPages(filter, n) = IF t = 0 THEN 1 ELSE (t + LogPageSize - 1) \div LogPageSize
  BY DEF TotalPages, t
<1>7. TotalPages(NoFilter, m) = IF m = 0 THEN 1 ELSE (m + LogPageSize - 1) \div LogPageSize
  BY <1>4 DEF TotalPages
<1>8. LogPageSize \div LogPageSize = 1
  BY <1>5
<1>9. m # 0 => /\ (m + LogPageSize - 1) \div LogPageSize \in Nat
              /\ 1 <= (m + LogPageSize - 1) \div LogPageSize
  <2>1. m # 0 => LogPageSize \in Nat /\ m + LogPageSize - 1 \in Nat /\ LogPageSize <= m + LogPageSize - 1
    BY <1>5
  <2>. QED BY <1>5, <1>8, <2>1, DivGrows
<1>10. t # 0 => /\ (t + LogPageSize - 1) \div LogPageSize \in Nat
               /\ (t + LogPageSize - 1) \div LogPageSize <= (m + LogPageSize - 1) \div LogPageSize
  <2>1. t # 0 => /\ t + LogPageSize - 1 \in Nat /\ m + LogPageSize - 1 \in Nat
                 /\ t + LogPageSize - 1 <= m + LogPageSize - 1
    BY <1>3, <1>5
  <2>. QED BY <1>5, <2>1, DivGrows
<1>11. t # 0 => m # 0
  BY <1>3
<1>. QED BY <1>6, <1>7, <1>9, <1>10, <1>11

\* The whole log's pages depend on its length only.
LEMMA PagesOfLength ==
    ASSUME NEW n \in Nat
    PROVE  TotalPages(NoFilter, n)' = TotalPages(NoFilter, n)
<1>1. Selection(NoFilter, n)' = Selection(NoFilter, n)
  BY DEF Selection, Selects, NoFilter
<1>. QED BY <1>1 DEF TotalPages, Total

\* The entries a filter selects, and those of them that come before an entry,
\* are finitely many, and a longer log has no fewer.
LEMMA SelectionsGrow ==
    ASSUME NEW filter, NEW n \in Nat, NEW m \in Nat, n <= m, NEW i
    PROVE  /\ Selection(filter, n) \subseteq Selection(filter, m)
           /\ Selection(filter, n) \in SUBSET Nat /\ IsFiniteSet(Selection(filter, n))
           /\ Total(filter, n) \in Nat /\ Total(filter, n) <= Total(filter, m)
           /\ Rank(filter, n, i) \in Nat /\ Rank(filter, n, i) <= Rank(filter, m, i)
<1>. DEFINE before(l) == {j \in Selection(filter, l) : j > i}
<1>1. /\ Selection(filter, n) \subseteq Selection(filter, m)
      /\ Selection(filter, m) \subseteq 1..m
      /\ Selection(filter, n) \in SUBSET Nat
  BY DEF Selection
<1>2. IsFiniteSet(Selection(filter, m))
  BY <1>1, FS_Interval, FS_Subset
<1>3. /\ IsFiniteSet(Selection(filter, n))
      /\ Total(filter, n) \in Nat /\ Total(filter, n) <= Total(filter, m)
  BY <1>1, <1>2, FS_Subset, FS_CardinalityType DEF Total
<1>4. before(n) \subseteq before(m) /\ before(m) \subseteq Selection(filter, m)
  BY <1>1
<1>5. Rank(filter, n, i) = Cardinality(before(n)) /\ Rank(filter, m, i) = Cardinality(before(m))
  BY DEF Rank
<1>. HIDE DEF before
<1>6. Rank(filter, n, i) \in Nat /\ Rank(filter, n, i) <= Rank(filter, m, i)
  BY <1>2, <1>4, <1>5, FS_Subset, FS_CardinalityType
<1>. QED  BY <1>1, <1>3, <1>6

\* Newer entries rank lower, and every rank below the total is some entry's:
\* ranks are an injection into as many numbers as there are entries.
LEMMA RanksCount ==
    ASSUME NEW filter, NEW n \in Nat
    PROVE  /\ \A i \in Selection(filter, n) : Rank(filter, n, i) < Total(filter, n)
           /\ \A i, j \in Selection(filter, n) : i < j => Rank(filter, n, j) < Rank(filter, n, i)
           /\ \A r \in 0..(Total(filter, n) - 1) :
                \E i \in Selection(filter, n) : Rank(filter, n, i) = r
<1>. DEFINE S == Selection(filter, n)
            T == 0..(Total(filter, n) - 1)
            before(i) == {j \in S : j > i}
<1>1. S \in SUBSET Nat /\ IsFiniteSet(S) /\ Cardinality(S) \in Nat /\ Cardinality(S) = Total(filter, n)
  <2>0. n <= n  OBVIOUS
  <2>1. S \in SUBSET Nat /\ IsFiniteSet(S) /\ Total(filter, n) \in Nat
    BY <2>0, SelectionsGrow
  <2>. QED  BY <2>1 DEF Total
<1>2. \A i : Rank(filter, n, i) = Cardinality(before(i))
  BY DEF Rank
<1>. HIDE DEF S
<1>3. ASSUME NEW i \in S, NEW B, i \notin B, B \cup {i} \subseteq S
      PROVE  IsFiniteSet(B) /\ Cardinality(B) \in Nat /\ Cardinality(B \cup {i}) = Cardinality(B) + 1
  <2>1. B \in SUBSET S  BY <1>3
  <2>2. IsFiniteSet(B) /\ Cardinality(B) \in Nat  BY <1>1, <2>1, FS_Subset, FS_CardinalityType
  <2>. QED  BY <1>3, <2>2, FS_AddElement
<1>4. ASSUME NEW i \in S PROVE Rank(filter, n, i) \in T
  <2>. DEFINE B == before(i)
  <2>1. i \notin B /\ B \cup {i} \subseteq S  BY <1>1
  <2>. HIDE DEF B
  <2>2. Cardinality(B) \in Nat /\ Cardinality(B \cup {i}) = Cardinality(B) + 1
    BY <1>3, <2>1
  <2>3. Cardinality(B \cup {i}) <= Cardinality(S)
    BY <1>1, <2>1, FS_Subset
  <2>. QED  BY <1>1, <1>2, <2>2, <2>3 DEF B
<1>5. ASSUME NEW i \in S, NEW j \in S, i < j PROVE Rank(filter, n, j) < Rank(filter, n, i)
  <2>. DEFINE B == before(j)  C == before(i)
  <2>1. j \notin B /\ B \cup {j} \subseteq C /\ C \subseteq S
    <3>1. i \in Nat /\ j \in Nat /\ i < j /\ S \subseteq Nat  BY <1>1, <1>5
    <3>2. \A k \in S : k > j => k > i  BY <3>1
    <3>3. B \subseteq C /\ j \in C /\ C \subseteq S  BY <3>1, <3>2
    <3>4. j \notin B  BY <3>1
    <3>. QED  BY <3>3, <3>4
  <2>2. Rank(filter, n, j) = Cardinality(B) /\ Rank(filter, n, i) = Cardinality(C)  BY <1>2
  <2>. HIDE DEF B, C
  <2>3. Cardinality(B) \in Nat /\ Cardinality(B \cup {j}) = Cardinality(B) + 1
    BY <1>3, <2>1
  <2>4. IsFiniteSet(C)  BY <1>1, <2>1, FS_Subset
  <2>5. Cardinality(C) \in Nat /\ Cardinality(B \cup {j}) <= Cardinality(C)
    BY <2>1, <2>4, FS_Subset, FS_CardinalityType
  <2>. QED  BY <2>2, <2>3, <2>5
<1>6. ASSUME NEW r \in T PROVE \E i \in S : Rank(filter, n, i) = r
  <2>. DEFINE rank == [i \in S |-> Rank(filter, n, i)]
  <2>1. rank \in Injection(S, T)
    <3>1. rank \in [S -> T]  BY <1>4
    <3>2. ASSUME NEW i \in S, NEW j \in S, rank[i] = rank[j] PROVE i = j
      <4>1. i \in Nat /\ j \in Nat  BY <1>1
      <4>2. Rank(filter, n, i) \in Int /\ Rank(filter, n, j) \in Int  BY <1>4
      <4>. QED  BY <1>5, <3>2, <4>1, <4>2
    <3>. QED  BY <3>1, <3>2 DEF Injection, IsInjective
  <2>2. IsFiniteSet(T) /\ Cardinality(T) = Cardinality(S)
    BY <1>1, FS_Interval, SMTT(30)
  <2>. HIDE DEF rank, T
  <2>3. rank \in Surjection(S, T)
    BY <2>1, <2>2, FS_Injection
  <2>4. \E i \in S : rank[i] = r
    BY <2>3, <1>6 DEF Surjection
  <2>. QED  BY <2>4 DEF rank
<1>. QED  BY <1>1, <1>4, <1>5, <1>6 DEF S

\* Pages are as long as LogPageSize, and begin where the one before ends.
LEMMA PagesAdjoin ==
    ASSUME NEW p \in Nat \ {0}
    PROVE  /\ (p - 1) * LogPageSize \in Nat /\ p * LogPageSize \in Nat
           /\ p * LogPageSize = (p - 1) * LogPageSize + LogPageSize
           /\ (p + 1 - 1) * LogPageSize = p * LogPageSize
           /\ (p + 1) * LogPageSize = p * LogPageSize + LogPageSize
           /\ LogPageSize \in Nat \ {0}
BY LogAssumption

\* The entry whose rank is the offset of a page is on it.
LEMMA OffsetOnPage ==
    ASSUME NEW key \in Key, NEW n \in Nat,
           (key.page - 1) * LogPageSize < Total(key.filter, n)
    PROVE  \E i \in Entries(key, n) : Rank(key.filter, n, i) = (key.page - 1) * LogPageSize
<1>. DEFINE offset == (key.page - 1) * LogPageSize
<1>1. key.page \in Nat \ {0}  BY LogAssumption DEF Key
<1>2. offset \in Nat /\ offset <= key.page * LogPageSize - 1 /\ key.page * LogPageSize \in Nat
  BY <1>1, PagesAdjoin
<1>3. Total(key.filter, n) \in Nat  BY SelectionsGrow
<1>4. PICK i \in Selection(key.filter, n) : Rank(key.filter, n, i) = offset
  <2>1. offset \in 0..(Total(key.filter, n) - 1)  BY <1>2, <1>3
  <2>. HIDE DEF offset
  <2>. QED  BY <2>1, RanksCount
<1>5. i \in Entries(key, n)  BY <1>2, <1>4 DEF Entries
<1>. QED  BY <1>4, <1>5

\* What divides to at least q is at least q times the divisor.
LEMMA DivBound ==
    ASSUME NEW s \in Nat \ {0}, NEW x \in Nat, NEW q \in Nat, q <= x \div s
    PROVE  q * s \in Nat /\ q * s <= x
<1>. DEFINE d == x \div s
<1>1. d \in Nat /\ s * d <= x  OBVIOUS
<1>. HIDE DEF d
<1>2. q <= d  BY DEF d
<1>3. s * q <= s * d /\ s * q \in Nat /\ s * d \in Nat /\ s * q = q * s
  BY <1>1, <1>2
<1>. QED  BY <1>1, <1>3

\* A page number the totals allow has a first entry, then and later.
LEMMA PromisedPage ==
    ASSUME NEW key \in Key, NEW n \in Nat, NEW m \in Nat, n <= m,
           key.page <= TotalPages(key.filter, n), Total(key.filter, n) > 0
    PROVE  Entries(key, m) # {}
<1>. DEFINE total == Total(key.filter, n)
<1>1. key.page \in Nat \ {0}  BY LogAssumption DEF Key
<1>2. total \in Nat /\ total <= Total(key.filter, m) /\ Total(key.filter, m) \in Nat
  BY SelectionsGrow
<1>3. key.page <= (total + LogPageSize - 1) \div LogPageSize
  BY <1>2 DEF TotalPages
<1>. HIDE DEF total
<1>4. LogPageSize \in Nat \ {0} /\ total + LogPageSize - 1 \in Nat
  BY <1>1, <1>2, PagesAdjoin
<1>5. key.page * LogPageSize <= total + LogPageSize - 1
  BY <1>1, <1>3, <1>4, DivBound
<1>6. (key.page - 1) * LogPageSize < Total(key.filter, m)
  BY <1>1, <1>2, <1>4, <1>5, PagesAdjoin
<1>. QED  BY <1>6, OffsetOnPage

\* An entry older than all of a page ranks after it.
LEMMA OlderThanPage ==
    ASSUME NEW key \in Key, NEW n \in Nat, NEW i \in Selection(key.filter, n),
           Entries(key, n) # {}, \A h \in Entries(key, n) : i < h
    PROVE  Rank(key.filter, n, i) >= key.page * LogPageSize
<1>. DEFINE end == key.page * LogPageSize
<1>1. end \in Nat /\ (key.page - 1) * LogPageSize \in Nat /\ i \in Nat
  BY PagesAdjoin, SelectionsGrow, LogAssumption DEF Key
<1>2. PICK h \in Entries(key, n) : i < h  OBVIOUS
<1>3. h \in Selection(key.filter, n) /\ Rank(key.filter, n, h) >= (key.page - 1) * LogPageSize
  BY <1>1 DEF Entries
<1>4. Rank(key.filter, n, h) < Rank(key.filter, n, i)
  BY <1>2, <1>3, RanksCount
<1>5. Rank(key.filter, n, i) \in Nat /\ Rank(key.filter, n, h) \in Nat
  BY SelectionsGrow
<1>6. i \notin Entries(key, n)  BY <1>1
<1>7. Rank(key.filter, n, i) \notin ((key.page - 1) * LogPageSize)..(end - 1)
  BY <1>6 DEF Entries
<1>. HIDE DEF end
<1>8. Rank(key.filter, n, i) >= end
  BY <1>1, <1>3, <1>4, <1>5, <1>7
<1>. QED  BY <1>8 DEF end

\* An entry that does not rank before a page is not newer than all of it.
LEMMA PageReaches ==
    ASSUME NEW key \in Key, NEW n \in Nat, NEW i \in Selection(key.filter, n),
           Rank(key.filter, n, i) >= (key.page - 1) * LogPageSize
    PROVE  \E t \in Entries(key, n) : i <= t
<1>. DEFINE offset == (key.page - 1) * LogPageSize
<1>1. offset \in Nat /\ i \in Nat
  BY PagesAdjoin, SelectionsGrow, LogAssumption DEF Key
<1>2. /\ Rank(key.filter, n, i) < Total(key.filter, n) /\ Total(key.filter, n) \in Nat
      /\ Rank(key.filter, n, i) \in Nat
  BY RanksCount, SelectionsGrow
<1>3. PICK t \in Entries(key, n) : Rank(key.filter, n, t) = offset
  <2>1. offset < Total(key.filter, n)  BY <1>1, <1>2
  <2>. QED  BY <2>1, OffsetOnPage
<1>4. t \in Selection(key.filter, n) /\ t \in Nat
  BY SelectionsGrow DEF Entries
<1>5. ~(t < i)
  BY <1>1, <1>2, <1>3, <1>4, RanksCount
<1>. QED  BY <1>1, <1>4, <1>5

\* A page that its answer counts among the pages has entries: the log has not
\* become shorter between the count and the page.
LEMMA PagesPromised ==
    ASSUME LogTypeOK, CountedFirst
    PROVE  PromisedPagesHaveEntries
<1>. SUFFICES ASSUME NEW k \in Key, Cached(k),
                     k.page <= TotalPages(k.filter, pages[k].data.counted),
                     Total(k.filter, pages[k].data.counted) > 0
              PROVE  Entries(k, pages[k].data.read) # {}
  BY DEF PromisedPagesHaveEntries
<1>1. /\ pages[k].data.counted \in Nat /\ pages[k].data.read \in Nat
      /\ pages[k].data.counted <= pages[k].data.read
  BY LogAssumption DEF LogTypeOK, PageQuery, Page, Lengths, Cached, CountedFirst
<1>. QED  BY <1>1, PromisedPage

\* An entry the page before left out for its age ranks no higher when the next
\* page is read: what was recorded meanwhile is newer.
LEMMA PagesWithoutGaps ==
    ASSUME LogTypeOK
    PROVE  NothingBetweenPages
<1>. SUFFICES ASSUME NEW k \in Key, NEW next \in Key,
                     next.filter = k.filter, next.page = k.page + 1,
                     Cached(k), Cached(next),
                     pages[k].data.read <= pages[next].data.read,
                     NEW i \in Selection(k.filter, pages[k].data.read),
                     Entries(k, pages[k].data.read) # {},
                     \A h \in Entries(k, pages[k].data.read) : i < h
              PROVE  \E t \in Entries(next, pages[next].data.read) : i <= t
  BY DEF NothingBetweenPages
<1>1. PICK n \in Nat, m \in Nat : n = pages[k].data.read /\ m = pages[next].data.read
  BY LogAssumption DEF LogTypeOK, PageQuery, Page, Lengths, Cached
<1>2. Rank(k.filter, n, i) >= k.page * LogPageSize
  BY <1>1, OlderThanPage
<1>3. i \in Selection(next.filter, m) /\ Rank(next.filter, m, i) >= Rank(k.filter, n, i)
  BY <1>1, SelectionsGrow
<1>4. Rank(next.filter, m, i) >= (next.page - 1) * LogPageSize
  <2>1. PICK p \in Nat : p = k.page  BY LogAssumption DEF Key
  <2>2. /\ (next.page - 1) * LogPageSize = p * LogPageSize
        /\ p * LogPageSize \in Nat
    BY <2>1, LogAssumption
  <2>3. Rank(k.filter, n, i) \in Nat /\ Rank(next.filter, m, i) \in Nat
    <3>1. n <= m /\ m <= m  BY <1>1
    <3>. QED  BY <3>1, SelectionsGrow
  <2>. QED  BY <1>2, <1>3, <2>1, <2>2, <2>3
<1>. QED  BY <1>1, <1>3, <1>4, PageReaches

LEMMA LogStart ==
    ASSUME LogInit, outside = 0
    PROVE  LogInv
<1>1. pages \in [Key -> PageQuery] /\ \A k \in Key : pages[k].data = None /\ pages[k].fetch = "idle"
  BY DEF LogInit, NoQuery, PageQuery
<1>2. log \in Seq(Entry) /\ Len(log) = 0
  BY DEF LogInit
<1>3. LogTypeOK
  BY <1>1, <1>2, LogAssumption, OutsideAssumption DEF LogInit, LogTypeOK
<1>. QED BY <1>1, <1>3 DEF LogInit, LogInv, PagesAreOfTheLog, CountedFirst, PageWithinLog

\* The types are kept.
LEMMA LogTypes ==
    ASSUME LogInv, LogNext
    PROVE  LogTypeOK'
<1> USE DEF LogInv, LogTypeOK
<1>1. MaxLog \in Nat /\ Len(log) \in Lengths
  <2>1. Len(log) \in Nat
    OBVIOUS
  <2>. QED BY <2>1, LogAssumption DEF Lengths
<1>2. \A q \in PageQuery : Watched(q) \in PageQuery /\ Expired(q) \in PageQuery /\ Failed(q) \in PageQuery
  BY DEF PageQuery, Watched, Asked, Expired, Failed
<1>3. \A keys : Use(keys) => pages' \in [Key -> PageQuery] /\ failed' \in SUBSET Key
  BY <1>2 DEF Use
<1>4. \A k \in Key : Turned(k) \in [key : Key, data : Page] \cup {None}
  BY DEF Turned, PageQuery
<1>5. 1 \in 1..(MaxLog + 1)
  BY <1>1
<1>6. \A filter \in Filters : At1(filter) \in Key
  BY <1>5 DEF At1, Key
<1>7. Move => moves' \in 0..MaxMoves
  BY LogAssumption DEF Move
<1>8. NoFilter \in Filters
  BY FiltersAssumption
<1>9. ASSUME OpenLog PROVE LogTypeOK'
  BY <1>9, <1>3, <1>4, <1>6, <1>7, <1>8 DEF OpenLog
<1>10. ASSUME CloseLog PROVE LogTypeOK'
  BY <1>10 DEF CloseLog
<1>11. ASSUME RefocusLog PROVE LogTypeOK'
  BY <1>11, <1>3, <1>7 DEF RefocusLog
<1>12. ASSUME NEW filter \in Filters, SetFilter(filter) PROVE LogTypeOK'
  BY <1>12, <1>3, <1>4, <1>6, <1>7 DEF SetFilter
<1>13. ASSUME NEW number \in 1..(MaxLog + 1), TurnPage(number) PROVE LogTypeOK'
  <2> DEFINE key == [explorer EXCEPT !.page = number]
  <2>1. key \in Key
    BY <1>13 DEF TurnPage, Usable, Key
  <2>2. Use({key}) /\ explorer' = key /\ shown' = Turned(key)
    BY <1>13 DEF TurnPage
  <2> HIDE DEF key
  <2>. QED BY <1>13, <1>3, <1>4, <1>7, <2>1, <2>2 DEF TurnPage
<1>14. ASSUME NEW entry \in Entry, Grow(entry) PROVE LogTypeOK'
  <2>1. log' \in Seq(Entry) /\ Len(log') = Len(log) + 1
    BY <1>14 DEF Grow
  <2>2. Len(log') <= MaxLog
    BY <1>1, <1>14, <2>1 DEF Grow, Lengths
  <2>. QED BY <1>14, <2>1, <2>2 DEF Grow
<1>15. ASSUME NEW k \in Key, CountLog(k) PROVE LogTypeOK'
  <2>1. [counted |-> Len(log), read |-> 0] \in Page
    BY <1>1 DEF Page, Lengths
  <2> DEFINE answer == [counted |-> Len(log), read |-> 0]
  <2>2. pages' = [pages EXCEPT ![k] = [@ EXCEPT !.fetch = "counted", !.answer = answer]]
    BY <1>15 DEF CountLog
  <2>3. answer \in Page
    BY <2>1
  <2> HIDE DEF answer
  <2>4. pages' \in [Key -> PageQuery]
    BY <2>2, <2>3 DEF PageQuery
  <2>. QED BY <1>15, <2>4 DEF CountLog
<1>16. ASSUME NEW k \in Key, ReadLog(k) PROVE LogTypeOK'
  <2>1. pages[k].answer \in Page
    BY <1>16 DEF ReadLog, PagesAreOfTheLog
  <2>2. ReadAt(pages[k].answer) \in Page
    BY <1>1, <2>1 DEF ReadAt, Page
  <2>3. pages' \in [Key -> PageQuery]
    BY <1>16, <2>2 DEF ReadLog, Answered, PageQuery
  <2>. QED BY <1>16, <2>3 DEF ReadLog
<1>17. ASSUME NEW k \in Key, PageArrives(k) PROVE LogTypeOK'
  <2>1. pages[k].answer \in Page
    BY <1>17 DEF PageArrives, PagesAreOfTheLog
  <2>2. pages' \in [Key -> PageQuery]
    BY <1>17, <2>1 DEF PageArrives, Arrived, PageQuery
  <2>. QED BY <1>17, <2>1, <2>2 DEF PageArrives
<1>18. ASSUME NEW k \in Key, PageFails(k) PROVE LogTypeOK'
  BY <1>18, <1>2, OutsideAssumption DEF PageFails, Outside
<1>19. ASSUME NEW k \in Key, PageExpires(k) PROVE LogTypeOK'
  BY <1>19, <1>2 DEF PageExpires
<1>. QED
  BY <1>9, <1>10, <1>11, <1>12, <1>13, <1>14, <1>15, <1>16, <1>17, <1>18, <1>19
  DEF LogNext, LogUser, LogEnvironment

\* A page is read after it was counted, and the log only grows.
LEMMA CountedFirstStep ==
    ASSUME LogTypeOK, CountedFirst, LogNext,
           \A k \in Key : pages[k].fetch = "counted" =>
                pages[k].answer \in Page /\ pages[k].answer.counted <= Len(log)
    PROVE  CountedFirst'
<1>. USE DEF LogTypeOK, CountedFirst
<1>1. ASSUME NEW keys, Use(keys) PROVE CountedFirst'
  BY <1>1 DEF Use, Watched, Asked, PageQuery
<1>2. ASSUME UNCHANGED pages PROVE CountedFirst'
  BY <1>2
<1>3. ASSUME NEW k \in Key, CountLog(k) PROVE CountedFirst'
  BY <1>3 DEF CountLog, PageQuery
<1>4. ASSUME NEW k \in Key, ReadLog(k) PROVE CountedFirst'
  <2>1. pages[k].answer \in Page /\ pages[k].answer.counted <= Len(log)
    BY <1>4 DEF ReadLog
  <2>2. ReadAt(pages[k].answer).counted <= ReadAt(pages[k].answer).read
    BY <2>1 DEF ReadAt, Page
  <2>. QED  BY <1>4, <2>2 DEF ReadLog, Answered, PageQuery
<1>5. ASSUME NEW k \in Key, PageArrives(k) PROVE CountedFirst'
  BY <1>5 DEF PageArrives, Arrived, PageQuery
<1>6. ASSUME NEW k \in Key, PageFails(k) PROVE CountedFirst'
  <2>1. /\ \A j \in Key : pages'[j].data = pages[j].data
        /\ \A j \in Key : pages'[j].fetch = "answered" => pages'[j] = pages[j]
    BY <1>6 DEF PageFails, Failed, PageQuery
  <2>. QED BY <2>1
<1>7. ASSUME NEW k \in Key, PageExpires(k) PROVE CountedFirst'
  <2>1. \A j \in Key : /\ pages'[j].data = pages[j].data
                       /\ pages'[j].fetch = pages[j].fetch
                       /\ pages'[j].answer = pages[j].answer
    BY <1>7 DEF PageExpires, Expired, PageQuery
  <2>. QED BY <2>1
<1>. QED
  BY <1>1, <1>2, <1>3, <1>4, <1>5, <1>6, <1>7
  DEF LogNext, LogUser, LogEnvironment, OpenLog, CloseLog, RefocusLog, SetFilter, TurnPage, Grow

\* Every step of the explorer, the API and the log keeps the invariant.
LEMMA LogStep ==
    ASSUME LogInv, LogNext
    PROVE  LogInv'
<1> USE DEF LogInv
<1>1. LogTypeOK'
  BY LogTypes
<1>2. PagesAreOfTheLog'
  <2> USE DEF PagesAreOfTheLog, LogTypeOK
  <2>1. ASSUME NEW keys, Use(keys), NEW k \in Key
        PROVE  /\ pages'[k].data = pages[k].data
               /\ pages'[k].answer = pages[k].answer
               /\ pages'[k].fetch \in {"counted", "answered"} => pages'[k].fetch = pages[k].fetch
    BY <2>1 DEF Use, Watched, Asked, PageQuery
  <2>2. ASSUME NEW keys, Use(keys), log' = log, shown' # None => shown'.data.counted <= Len(log)
        PROVE  PagesAreOfTheLog'
    <3>1. Len(log') = Len(log)
      BY <2>2
    <3>2. ASSUME NEW k \in Key
          PROVE  /\ pages'[k].data # None => pages'[k].data.counted <= Len(log')
                 /\ pages'[k].fetch \in {"counted", "answered"} =>
                      pages'[k].answer \in Page /\ pages'[k].answer.counted <= Len(log')
      BY <2>1, <2>2, <3>1
    <3>. QED BY <2>2, <3>1, <3>2
  <2>3. ASSUME NEW k \in Key, Turned(k) # None PROVE Turned(k).data.counted <= Len(log)
    BY <2>3 DEF Turned
  <2>3a. \A filter \in Filters : At1(filter) \in Key
    BY LogAssumption DEF At1, Key
  <2>4. ASSUME NEW filter \in Filters, NEW keys, Use(keys), shown' = Turned(At1(filter)), log' = log
        PROVE  PagesAreOfTheLog'
    <3>1. At1(filter) \in Key
      BY <2>3a
    <3>2. shown' # None => shown'.data.counted <= Len(log)
      BY <2>3, <2>4, <3>1
    <3>. QED BY <2>2, <2>4, <3>2
  <2>5. ASSUME OpenLog \/ CloseLog PROVE PagesAreOfTheLog'
    <3>1. CASE OpenLog
      <4>1. NoFilter \in Filters
        BY FiltersAssumption
      <4>2. Use({At1(NoFilter)}) /\ shown' = Turned(At1(NoFilter)) /\ log' = log
        BY <3>1 DEF OpenLog
      <4>. QED BY <2>4, <4>1, <4>2
    <3>2. CASE CloseLog
      BY <3>2 DEF CloseLog
    <3>. QED BY <2>5, <3>1, <3>2
  <2>6. ASSUME RefocusLog PROVE PagesAreOfTheLog'
    <3>1. Use({explorer}) /\ UNCHANGED <<log, shown>>
      BY <2>6 DEF RefocusLog
    <3>. QED BY <2>2, <3>1
  <2>7. ASSUME NEW filter \in Filters, SetFilter(filter) PROVE PagesAreOfTheLog'
    <3>1. /\ Use({[explorer EXCEPT !.filter = filter], At1(filter)})
          /\ shown' = Turned(At1(filter)) /\ log' = log
      BY <2>7 DEF SetFilter
    <3>. QED BY <2>4, <3>1
  <2>8. ASSUME NEW number \in 1..(MaxLog + 1), TurnPage(number) PROVE PagesAreOfTheLog'
    <3> DEFINE key == [explorer EXCEPT !.page = number]
    <3>1. key \in Key
      BY <2>8 DEF TurnPage, Usable, Key
    <3>2. Use({key}) /\ shown' = Turned(key) /\ log' = log
      BY <2>8 DEF TurnPage
    <3> HIDE DEF key
    <3>3. shown' # None => shown'.data.counted <= Len(log)
      BY <2>3, <3>1, <3>2
    <3>. QED BY <2>2, <3>2, <3>3
  <2>9. ASSUME NEW entry \in Entry, Grow(entry) PROVE PagesAreOfTheLog'
    <3>1. Len(log') = Len(log) + 1 /\ Len(log) \in Nat
      BY <2>9 DEF Grow
    <3>2. \A d \in Page : d.counted \in Nat
      BY LogAssumption DEF Page, Lengths
    <3>. QED BY <2>9, <3>1, <3>2 DEF Grow, PageQuery
  <2>10. ASSUME NEW k \in Key, CountLog(k) PROVE PagesAreOfTheLog'
    <3>1. Len(log) \in Lengths /\ 0 \in Lengths
      BY LogAssumption DEF Lengths
    <3>2. [counted |-> Len(log), read |-> 0] \in Page
      BY <3>1 DEF Page
    <3>3. Len(log) \in Nat
      OBVIOUS
    <3>. QED BY <2>10, <3>2, <3>3 DEF CountLog, PageQuery
  <2>11. ASSUME NEW k \in Key, ReadLog(k) PROVE PagesAreOfTheLog'
    <3>1. Len(log) \in Lengths
      BY LogAssumption DEF Lengths
    <3>2. pages[k].answer \in Page /\ pages[k].answer.counted <= Len(log)
      BY <2>11 DEF ReadLog
    <3>3. /\ ReadAt(pages[k].answer) \in Page
          /\ ReadAt(pages[k].answer).counted = pages[k].answer.counted
      BY <3>1, <3>2 DEF ReadAt, Page
    <3>. QED BY <2>11, <3>2, <3>3 DEF ReadLog, Answered, PageQuery
  <2>12. ASSUME NEW k \in Key, PageArrives(k) PROVE PagesAreOfTheLog'
    BY <2>12 DEF PageArrives, Arrived, PageQuery
  <2>13. ASSUME NEW k \in Key, PageFails(k) PROVE PagesAreOfTheLog'
    BY <2>13 DEF PageFails, Failed, PageQuery
  <2>14. ASSUME NEW k \in Key, PageExpires(k) PROVE PagesAreOfTheLog'
    BY <2>14 DEF PageExpires, Expired, PageQuery
  <2>. QED
    BY <2>5, <2>6, <2>7, <2>8, <2>9, <2>10, <2>11, <2>12, <2>13, <2>14
    DEF LogNext, LogUser, LogEnvironment
<1>3. PageWithinLog'
  <2> DEFINE last == TotalPages(NoFilter, Len(log))
  <2>1. Len(log) \in Nat /\ MaxLog \in Nat
    BY LogAssumption DEF LogTypeOK
  <2>2. last \in Nat /\ 1 <= last
    BY <2>1, PagesGrow
  <2>3. log' = log => TotalPages(NoFilter, Len(log))' = last
    BY <2>1, PagesOfLength
  <2>4. ASSUME log' = log, explorer' # None => explorer'.page <= last PROVE PageWithinLog'
    BY <2>3, <2>4 DEF PageWithinLog
  <2>5. ASSUME UNCHANGED <<log, explorer>> PROVE PageWithinLog'
    BY <2>4, <2>5 DEF PageWithinLog
  <2>6. ASSUME OpenLog \/ \E filter \in Filters : SetFilter(filter) PROVE PageWithinLog'
    <3>1. log' = log /\ \E filter : explorer' = At1(filter)
      BY <2>6 DEF OpenLog, SetFilter
    <3>2. \A filter : At1(filter).page = 1
      BY DEF At1
    <3>. QED BY <2>2, <2>4, <3>1, <3>2
  <2>7. ASSUME CloseLog PROVE PageWithinLog'
    BY <2>7 DEF CloseLog, PageWithinLog
  <2>8. ASSUME NEW number \in 1..(MaxLog + 1), TurnPage(number) PROVE PageWithinLog'
    <3>1. /\ explorer \in Key /\ explorer.page \in Nat /\ number \in Nat
          /\ explorer.page <= last
      BY <2>1, <2>8 DEF TurnPage, Usable, LogTypeOK, Key, PageWithinLog
    <3>2. explorer'.page = number /\ log' = log
      BY <2>8, <3>1 DEF TurnPage, Key
    <3>3. number <= last
      <4>1. CASE number + 1 = explorer.page
        BY <2>2, <3>1, <4>1
      <4>2. CASE number = explorer.page + 1 /\ CanNext
        <5>1. shown.data.counted \in Nat /\ shown.data.counted <= Len(log)
          BY <2>1, <2>8 DEF TurnPage, Usable, LogTypeOK, PagesAreOfTheLog, Page, Lengths
        <5>2. /\ TotalPages(shown.key.filter, shown.data.counted) \in Nat
              /\ TotalPages(shown.key.filter, shown.data.counted) <= last
          BY <2>1, <5>1, PagesGrow
        <5>. QED BY <2>2, <3>1, <4>2, <5>2 DEF CanNext
      <4>. QED BY <2>8, <4>1, <4>2 DEF TurnPage
    <3>. QED BY <2>4, <3>2, <3>3
  <2>9. ASSUME NEW entry \in Entry, Grow(entry) PROVE PageWithinLog'
    <3>1. Len(log') \in Nat /\ Len(log) <= Len(log') /\ explorer' = explorer
      BY <2>9 DEF Grow, LogTypeOK
    <3>2. /\ TotalPages(NoFilter, Len(log')) \in Nat
          /\ last <= TotalPages(NoFilter, Len(log'))
      BY <2>1, <3>1, PagesGrow
    <3>3. TotalPages(NoFilter, Len(log))' = TotalPages(NoFilter, Len(log'))
      <4> PICK n \in Nat : n = Len(log')
        BY <3>1
      <4>1. TotalPages(NoFilter, n)' = TotalPages(NoFilter, n)
        BY PagesOfLength
      <4>. QED BY <4>1
    <3>4. explorer # None => explorer.page \in Nat /\ explorer.page <= last
      BY <2>1 DEF LogTypeOK, Key, PageWithinLog
    <3>. QED BY <2>2, <3>1, <3>2, <3>3, <3>4 DEF PageWithinLog
  <2>. QED
    BY <2>5, <2>6, <2>7, <2>8, <2>9
    DEF LogNext, LogUser, LogEnvironment, RefocusLog, CountLog, ReadLog, PageArrives,
        PageFails,
        PageExpires
<1>4. CountedFirst'
  BY CountedFirstStep DEF PagesAreOfTheLog
<1>. QED BY <1>1, <1>2, <1>3, <1>4

------------------------------------------------------------------------------
(***************************************************************************)
(* The three sections together.                                            *)
(***************************************************************************)

DashboardInv ==
    /\ section \in Sections
    /\ ResponsesInv
    /\ SettingsInv
    /\ LogInv

\* A section another section's step leaves alone keeps its invariant, though
\* something may go wrong outside.
LEMMA ResponsesAlone ==
    ASSUME ResponsesInv, UNCHANGED responses, outside' \in 0..MaxOutside
    PROVE  ResponsesInv'
BY DEF ResponsesInv, ResponsesTypeOK, ListShowsOwnChanges, ListsOnTheirWay, WritesInStep,
       WaitsForAFetch, EditorInStep, TableInStep, PageHasRows, Shown, Matches, Rows,
       ListWatched, responses, server, tab, known

LEMMA SettingsAlone ==
    ASSUME SettingsInv, UNCHANGED settingsPage, outside' \in 0..MaxOutside
    PROVE  SettingsInv'
BY DEF SettingsInv, SettingsTypeOK, SettingsShowOwnSaves, SettingsOnTheirWay, SavesInStep,
       FormInStep, FormFollowsSettings, Observed, PageOpen, settingsPage, settingsApi, settingsForm, settingsKnown

LEMMA LogAlone ==
    ASSUME LogInv, UNCHANGED auditLog, outside' \in 0..MaxOutside
    PROVE  LogInv'
<1> USE DEF auditLog
<1>1. LogTypeOK'
  BY DEF LogInv, LogTypeOK
<1>2. PagesAreOfTheLog'
  BY DEF LogInv, PagesAreOfTheLog
<1>3. PageWithinLog'
  BY DEF LogInv, PageWithinLog, TotalPages, Total, Selection, Selects
<1>4. CountedFirst'
  BY DEF LogInv, CountedFirst
<1>. QED BY <1>1, <1>2, <1>3, <1>4 DEF LogInv

LEMMA DashboardStart == Init => DashboardInv
BY ResponsesStart, SettingsStart, LogStart DEF Init, DashboardInv

LEMMA DashboardStep == DashboardInv /\ [Next]_vars => DashboardInv'
<1> SUFFICES ASSUME DashboardInv, [Next]_vars PROVE DashboardInv'
  OBVIOUS
<1> USE DEF DashboardInv
<1>1. outside \in 0..MaxOutside
  BY DEF SettingsInv, SettingsTypeOK
<1>2. CASE section = "auto-responses" /\ ResponsesNext /\ UNCHANGED <<settingsPage, auditLog, section>>
  <2>1. ResponsesInv'
    BY <1>2, ResponsesStep
  <2>2. outside' \in 0..MaxOutside
    BY <2>1 DEF ResponsesInv, ResponsesTypeOK
  <2>. QED BY <1>2, <2>1, <2>2, SettingsAlone, LogAlone
<1>3. CASE section = "settings" /\ SettingsNext /\ UNCHANGED <<responses, auditLog, section>>
  <2>1. SettingsInv'
    BY <1>3, SettingsStep
  <2>2. outside' \in 0..MaxOutside
    BY <2>1 DEF SettingsInv, SettingsTypeOK
  <2>. QED BY <1>3, <2>1, <2>2, ResponsesAlone, LogAlone
<1>4. CASE section = "audit-log" /\ LogNext /\ UNCHANGED <<responses, settingsPage, section>>
  <2>1. LogInv'
    BY <1>4, LogStep
  <2>2. outside' \in 0..MaxOutside
    BY <2>1 DEF LogInv, LogTypeOK
  <2>. QED BY <1>4, <2>1, <2>2, ResponsesAlone, SettingsAlone
<1>5. CASE UNCHANGED vars
  BY <1>1, <1>5, ResponsesAlone, SettingsAlone, LogAlone DEF vars
<1>. QED BY <1>2, <1>3, <1>4, <1>5 DEF Next

LEMMA DashboardInvariant == Spec => []DashboardInv
BY DashboardStart, DashboardStep, PTL DEF Spec

------------------------------------------------------------------------------
(***************************************************************************)
(* The theorems.                                                           *)
(***************************************************************************)

\* Every variable of every section keeps its type: no route is rendered
\* without the data it reads with useSuspenseQuery, no form without values.
THEOREM TypeCorrect == Spec => []TypeOK
<1>1. DashboardInv => TypeOK
  BY DEF DashboardInv, TypeOK, ResponsesInv, SettingsInv, LogInv
<1>. QED BY <1>1, DashboardInvariant, PTL

\* invalidateAutoResponses: a fresh list shows every change of this tab that
\* was reported a success, but for those an older request outran unwatched.
THEOREM OwnChanges == Spec => []ListShowsOwnChanges
<1>1. DashboardInv => ListShowsOwnChanges
  BY DEF DashboardInv, ResponsesInv
<1>. QED BY <1>1, DashboardInvariant, PTL

\* AutoResponseTable never stands on a page beyond its last row.
THEOREM RowsOnPages == Spec => []PageHasRows
<1>1. DashboardInv => PageHasRows
  BY DEF DashboardInv, ResponsesInv
<1>. QED BY <1>1, DashboardInvariant, PTL

\* A save that waits for the list waits for a request that is on its way.
THEOREM Waits == Spec => []WaitsForAFetch
<1>1. DashboardInv => WaitsForAFetch
  BY DEF DashboardInv, ResponsesInv
<1>. QED BY <1>1, DashboardInvariant, PTL

\* EditAutoResponsePage shows the row the list has until the user types, and
\* is closed when the list no longer has it.
THEOREM EditorFollows == Spec => []EditorFollowsList
<1>1. DashboardInv => EditorFollowsList
  BY DEF DashboardInv, ResponsesInv, EditorInStep, EditorFollowsList
<1>. QED BY <1>1, DashboardInvariant, PTL

\* What is typed in AutoResponseEditor survives every refetch of the list.
THEOREM TypingSurvives == Spec => TypingSurvivesRefetch
<1>1. ASSUME DashboardInv, [Next]_vars
      PROVE  [ListArrives /\ form # None /\ form.touched =>
                IF form' = None THEN page.at = "edit" /\ list'.data.rows[page.id] = None
                                ELSE form'.values = form.values]_responsesVars
  <2> SUFFICES ASSUME ListArrives, form # None, form.touched
               PROVE  IF form' = None THEN page.at = "edit" /\ list'.data.rows[page.id] = None
                                      ELSE form'.values = form.values
    OBVIOUS
  <2>1. CASE page.at = "edit"
    <3>1. /\ form' = Rerendered(list.answer.rows[page.id])
          /\ list'.data = list.answer
      BY <2>1 DEF ListArrives, Arrived
    <3>2. CASE list.answer.rows[page.id] = None
      BY <2>1, <3>1, <3>2 DEF Rerendered
    <3>3. CASE list.answer.rows[page.id] # None
      <4>1. form \in Form(Values) /\ list.answer \in List /\ page.id \in Ids
        BY <1>1, <2>1 DEF DashboardInv, ResponsesInv, ResponsesTypeOK, ListArrives, Query
      <4>2. list.answer.rows[page.id] \in Values
        BY <3>3, <4>1 DEF List, Table, Values
      <4>3. form' = Rendered(form, list.answer.rows[page.id])
        BY <3>1, <3>3 DEF Rerendered
      <4>4. form' \in Form(Values)
        BY <4>1, <4>2, <4>3, FormTypes
      <4>5. form'.values = form.values
        BY <4>1, <4>3 DEF Rendered, Form
      <4>. QED BY <4>4, <4>5, NoListAssumption
    <3>. QED BY <3>2, <3>3
  <2>2. CASE page.at # "edit"
    BY <2>2 DEF ListArrives
  <2>. QED BY <2>1, <2>2
<1>. QED BY <1>1, DashboardInvariant, PTL DEF Spec, TypingSurvivesRefetch

\* "Settings synced successfully." is true of the form that says so.
THEOREM Synced == Spec => []SyncedFormHasSave
<1>1. DashboardInv => SyncedFormHasSave
  BY DEF DashboardInv, SettingsInv, SettingsTypeOK, SavesInStep, SyncedFormHasSave
<1>. QED BY <1>1, DashboardInvariant, PTL

\* Fresh settings include the saves of this tab, but for those an older
\* request outran while the page was not open.
THEOREM OwnSaves == Spec => []SettingsShowOwnSaves
<1>1. DashboardInv => SettingsShowOwnSaves
  BY DEF DashboardInv, SettingsInv
<1>. QED BY <1>1, DashboardInvariant, PTL

\* A settings form nobody has touched shows what its page was rendered with, or
\* the answer to a save of its own that was not its last.
THEOREM FormFollows == Spec => []FormFollowsSettings
<1>1. DashboardInv => FormFollowsSettings
  BY DEF DashboardInv, SettingsInv
<1>. QED BY <1>1, DashboardInvariant, PTL

\* A touched settings form with no save under way is changed by its user only.
THEOREM DraftKept == Spec => DraftIsTheUsers
<1> DEFINE Idle == PageOpen /\ draft.touched
                     /\ \A n \in mine : save[n].step \in {"synced", "unsynced", "over"}
           Kept == PageOpen' /\ draft'.values = draft.values /\ draft'.touched
<1>1. ASSUME DashboardInv, SettingsEnvironment, Idle PROVE Kept
  <2> USE DEF PageOpen
  <2>1. CASE RenderSettings
    BY <1>1, <2>1 DEF RenderSettings, Rendered, DashboardInv, SettingsInv, SettingsTypeOK,
        Form
  <2>2. CASE SettingsFail \/ SettingsArrive
    BY <1>1, <2>2 DEF SettingsFail, SettingsArrive
  <2>3. ASSUME NEW n \in Saves, FinishSave(n) PROVE Kept
    <3>1. n \notin mine
      BY <1>1, <2>3 DEF FinishSave
    <3>. QED BY <1>1, <2>3, <3>1 DEF FinishSave, Finished
  <2>4. ASSUME NEW n \in Saves, RefuseSave(n) PROVE Kept
    <3>1. n \notin mine
      BY <1>1, <2>4 DEF RefuseSave
    <3>. QED BY <1>1, <2>4, <3>1 DEF RefuseSave, Renders, Observed
  <2>5. ASSUME UNCHANGED <<place, draft>> PROVE Kept
    BY <1>1, <2>5
  <2>. QED
    BY <1>1, <2>1, <2>2, <2>3, <2>4, <2>5
    DEF SettingsEnvironment, ReadSettings, SettingsExpire, ApplySave, SaveSucceeds,
        OthersSave, settingsForm
<1>2. ASSUME DashboardInv PROVE [Idle /\ SettingsEnvironment => Kept]_settingsVars
  BY <1>1, <1>2
<1>. QED BY <1>2, DashboardInvariant, PTL DEF DraftIsTheUsers

\* AuditLogExplorer never pages beyond the end of the whole log.
THEOREM Within == Spec => []PageWithinLog
<1>1. DashboardInv => PageWithinLog
  BY DEF DashboardInv, LogInv
<1>. QED BY <1>1, DashboardInvariant, PTL

\* AuditLogsController#index answers no page it counts without entries, though
\* it counts first and reads then.
THEOREM Promised == Spec => []PromisedPagesHaveEntries
<1>1. DashboardInv => PromisedPagesHaveEntries
  BY PagesPromised DEF DashboardInv, LogInv
<1>. QED BY <1>1, DashboardInvariant, PTL

\* Paging on in the audit log skips no entry, though OFFSET counts from an end
\* that moves.
THEOREM NothingSkipped == Spec => []NothingBetweenPages
<1>1. DashboardInv => NothingBetweenPages
  BY PagesWithoutGaps DEF DashboardInv, LogInv
<1>. QED BY <1>1, DashboardInvariant, PTL
==============================================================================
