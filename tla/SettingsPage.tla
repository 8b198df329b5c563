----------------------------- MODULE SettingsPage -----------------------------
(***************************************************************************)
(* The dashboard's settings page in one browser tab: the form with a       *)
(* guild's prefix, ranking switch and audit log channel, and the query     *)
(* ["guild-settings", guildId] behind it.                                  *)
(*                                                                         *)
(* A save sends all fields.  When it succeeds the query is invalidated,    *)
(* and when that is fetched the form is reset to the answer of the save.   *)
(* Neither the fields nor the Reset button are disabled meanwhile, and     *)
(* Reset enables Save again: a form may wait for several saves at once.  A *)
(* save goes on when its form is gone.                                     *)
(*                                                                         *)
(* What the query has reaches the form with a render only.  One follows a  *)
(* change of the query's data, of the form's isSubmitting, and of the last *)
(* mutation of the form: useMutation no longer observes the older ones.    *)
(*                                                                         *)
(* A field is a value of a small set, an empty one (value.trim() || null)  *)
(* among them.  What the API does within a request is module               *)
(* GuildSettings'.                                                         *)
(***************************************************************************)
EXTENDS ClientState

CONSTANTS
    Fields,         \* prefix, isRankingEnabled, auditLogChannelId
    FieldValues,    \* what GuildSettingsSchema accepts for them
    StartSettings,  \* what the API has to begin with
    MaxSaves        \* requests this tab makes to save

Settings == [Fields -> FieldValues]
Saves    == 1..MaxSaves

ASSUME SettingsAssumption == StartSettings \in Settings /\ None \notin Settings
ASSUME SavesAssumption    == MaxSaves \in Nat

\* The settings as the API read them, and the saves it had seen by then.
Snapshot == [value : Settings, asOf : SUBSET Saves]

\* Neither a snapshot nor a form is the lack of one.
ASSUME NoSettingsAssumption == None \notin Snapshot \cup Form(Settings)

\* What a save sends is what its answer says: serialize_settings.
Save == [payload : Settings \cup {None},
         step : {"unsent", "sent", "applied", "refetching", "refetched", "unfetched",
                 "synced", "unsynced", "over"}]

VARIABLES
    stored,     \* the guild's settings, as the API has them
    settings,   \* the query
    place,      \* where the tab is
    initialSettings, \* what the open page was last rendered with
    draft,      \* the form, if the page is open
    busy,       \* the form's isSubmitting
    mine,       \* the saves the open form has sent
    save,       \* this tab's mutations
    landed,     \* ghost: the saves the API has carried out
    succeeded,  \* ghost: those whose success the tab knows of
    outrun      \* ghost: those of them that found an older request for the
                \*   settings on its way while the page was not open

settingsApi   == <<stored, landed>>
settingsForm  == <<place, initialSettings, draft, busy, mine>>
settingsKnown == <<succeeded, outrun>>
settingsVars  == <<settingsApi, settings, settingsForm, save, settingsKnown, outside>>

PageOpen == place = "open"

------------------------------------------------------------------------------
(***************************************************************************)
(* The user.                                                               *)
(***************************************************************************)

\* The page is rendered for the first time.
Mounts(s) == initialSettings' = s /\ draft' = Opened(s)

\* The route's loader, and the page when it mounts.
VisitSettings ==
    /\ place = "away"
    /\ IF settings.data = None
       THEN place' = "loading" /\ UNCHANGED <<initialSettings, draft>>
       ELSE place' = "open" /\ Mounts(settings.data.value)
    /\ settings' = Watched(settings)
    /\ UNCHANGED <<settingsApi, busy, mine, save, settingsKnown, outside>>

LeaveSettings ==
    /\ place # "away"
    /\ place' = "away"
    /\ initialSettings' = None /\ draft' = None
    /\ busy' = FALSE
    /\ mine' = {}
    /\ UNCHANGED <<settingsApi, settings, save, settingsKnown, outside>>

SetField(f, v) ==
    /\ PageOpen
    /\ draft' = Changed(draft, [draft.values EXCEPT ![f] = v])
    /\ UNCHANGED <<settingsApi, settings, place, initialSettings, busy, mine, save, settingsKnown,
                   outside>>

\* handleSubmit, which touches every field and renders the page; the button
\* is disabled meanwhile.
SubmitSettings(n) ==
    /\ PageOpen
    /\ ~busy
    /\ save[n].step = "unsent"
    /\ \A m \in Saves : m < n => save[m].step # "unsent"
    /\ save' = [save EXCEPT ![n] = [payload |-> draft.values, step |-> "sent"]]
    /\ draft' = Rendered(Changed(draft, draft.values), initialSettings)
    /\ busy' = TRUE
    /\ mine' = mine \cup {n}
    /\ UNCHANGED <<settingsApi, settings, place, initialSettings, settingsKnown, outside>>

\* form.reset(initialSettings): isSubmitting is reset too.
ResetForm ==
    /\ PageOpen
    /\ draft' = Opened(initialSettings)
    /\ busy' = FALSE
    /\ UNCHANGED <<settingsApi, settings, place, initialSettings, mine, save, settingsKnown,
                   outside>>

------------------------------------------------------------------------------
(***************************************************************************)
(* The API and the others who use it.                                      *)
(***************************************************************************)

\* What save n has come to; its answer matters to the form that waits for it.
Over == [payload |-> None, step |-> "over"]
Comes(n, step) == save' = [save EXCEPT ![n].step = step]
Ends(n)        == save' = [save EXCEPT ![n] = Over]

\* useMutation observes the last mutation of the open form.
Observed(n) == n \in mine /\ \A m \in mine : m <= n

\* What save n comes to renders the page.
Renders(n) == Observed(n) \/ (busy /\ n \in mine)

ApplySave(n) ==
    /\ save[n].step = "sent"
    /\ stored' = save[n].payload
    /\ landed' = landed \cup {n}
    /\ Comes(n, "applied")
    /\ UNCHANGED <<settings, settingsForm, settingsKnown, outside>>

\* A refusal, or an answer that never comes: mutation.error is shown.
RefuseSave(n) ==
    /\ save[n].step \in {"sent", "applied"}
    /\ Outside
    /\ Ends(n)
    /\ draft' = IF Renders(n) THEN Rendered(draft, initialSettings) ELSE draft
    /\ busy' = (busy /\ n \notin mine)
    /\ UNCHANGED <<settingsApi, settings, place, initialSettings, mine, settingsKnown>>

OthersSave(s) ==
    /\ Outside
    /\ s # stored
    /\ stored' = s
    /\ UNCHANGED <<landed, settings, settingsForm, save, settingsKnown>>

\* GuildSettingsController#show
ReadSettings ==
    /\ settings.fetch = "asked"
    /\ settings' = Answered(settings, [value |-> stored, asOf |-> landed])
    /\ UNCHANGED <<settingsApi, settingsForm, save, settingsKnown, outside>>

------------------------------------------------------------------------------
(***************************************************************************)
(* The tab when answers arrive.                                            *)
(***************************************************************************)

\* onSuccess: await invalidateGuildSettings(queryClient, guildId).  A form
\* that is gone has nothing to wait for.
SaveSucceeds(n) ==
    /\ save[n].step = "applied"
    /\ IF PageOpen THEN Comes(n, "refetching") ELSE Ends(n)
    /\ settings' = Invalidated(settings, PageOpen)
    /\ succeeded' = succeeded \cup {n}
    /\ outrun' = IF ~PageOpen /\ settings.fetch # "idle" THEN outrun \cup {n} ELSE outrun
    /\ UNCHANGED <<settingsApi, settingsForm, outside>>

\* A request for the settings is over, and so is the wait for it.
WaitedFor(step) == [n \in Saves |-> IF save[n].step = "refetching"
                                    THEN [save[n] EXCEPT !.step = step] ELSE save[n]]

SettingsArrive ==
    LET new == settings.answer.value IN
    /\ settings.fetch = "answered"
    /\ settings' = Arrived(settings)
    /\ save' = WaitedFor("refetched")
    /\ place' = IF place = "away" THEN "away" ELSE "open"
    /\ IF place = "loading" THEN Mounts(new) ELSE UNCHANGED <<initialSettings, draft>>
    /\ UNCHANGED <<settingsApi, busy, mine, settingsKnown, outside>>

\* useSuspenseQuery has other data than the page was rendered with, or the
\* page is rendered for a reason of its own.
RenderSettings ==
    /\ PageOpen
    /\ initialSettings' = settings.data.value
    /\ draft' = Rendered(draft, initialSettings')
    /\ UNCHANGED <<settingsApi, settings, place, busy, mine, save, settingsKnown, outside>>

\* retry: false.  invalidateQueries does not throw: the form goes on with the
\* settings it has cached.
SettingsFail ==
    /\ settings.fetch # "idle"
    /\ Outside
    /\ settings' = Failed(settings)
    /\ save' = WaitedFor("unfetched")
    /\ place' = IF place = "loading" THEN "away" ELSE place
    /\ UNCHANGED <<settingsApi, initialSettings, draft, busy, mine, settingsKnown>>

\* MUTANT of Finished: the tab's form is reset, whichever form saved.
FinishedAnyForm(n) == IF PageOpen THEN Opened(save[n].payload) ELSE draft
\* form.reset(settings): what was typed since the save was sent is gone.  The
\* render that follows, if there is one, puts what the page has in its place.
Finished(n) ==
    IF n \notin mine THEN draft
    ELSE IF Renders(n) THEN Rendered(Opened(save[n].payload), initialSettings)
                       ELSE Opened(save[n].payload)

FinishSave(n) ==
    /\ save[n].step \in {"refetched", "unfetched"}
    /\ Comes(n, IF save[n].step = "refetched" THEN "synced" ELSE "unsynced")
    /\ draft' = Finished(n)
    /\ busy' = (busy /\ n \notin mine)
    /\ UNCHANGED <<settingsApi, settings, place, initialSettings, mine, settingsKnown, outside>>

SettingsExpire ==
    /\ settings.fresh
    /\ settings' = Expired(settings)
    /\ UNCHANGED <<settingsApi, settingsForm, save, settingsKnown, outside>>

\* The window gets the focus.
RefocusSettings ==
    /\ PageOpen
    /\ ~settings.fresh
    /\ settings' = Asked(settings)
    /\ UNCHANGED <<settingsApi, settingsForm, save, settingsKnown, outside>>

------------------------------------------------------------------------------
SettingsInit ==
    /\ stored = StartSettings
    /\ settings = NoQuery
    /\ place = "away"
    /\ initialSettings = None
    /\ draft = None
    /\ busy = FALSE
    /\ mine = {}
    /\ save = [n \in Saves |-> [payload |-> None, step |-> "unsent"]]
    /\ landed = {} /\ succeeded = {} /\ outrun = {}

SettingsUser ==
    \/ VisitSettings \/ LeaveSettings \/ ResetForm \/ RefocusSettings
    \/ \E f \in Fields, v \in FieldValues : SetField(f, v)
    \/ \E n \in Saves : SubmitSettings(n)

SettingsEnvironment ==
    \/ ReadSettings \/ SettingsArrive \/ SettingsFail \/ SettingsExpire \/ RenderSettings
    \/ \E n \in Saves : ApplySave(n) \/ RefuseSave(n) \/ SaveSucceeds(n) \/ FinishSave(n)
    \/ \E s \in Settings : OthersSave(s)

SettingsNext == SettingsUser \/ SettingsEnvironment

SettingsSpec == SettingsInit /\ outside = 0 /\ [][SettingsNext]_settingsVars

------------------------------------------------------------------------------
(***************************************************************************)
(* Properties.                                                             *)
(***************************************************************************)

\* Every variable has its type, and an open page has its settings and a form.
SettingsTypeOK ==
    /\ stored \in Settings
    /\ settings \in Query(Snapshot)
    /\ place \in {"away", "loading", "open"}
    /\ draft \in Form(Settings) \cup {None}
    /\ initialSettings \in Settings \cup {None}
    /\ PageOpen <=> draft # None
    /\ PageOpen <=> initialSettings # None
    /\ PageOpen \/ settings.fresh => settings.data # None
    /\ settings.fetch = "answered" <=> settings.answer # None
    /\ busy \in BOOLEAN
    /\ mine \in SUBSET Saves
    /\ save \in [Saves -> Save]
    /\ \A n \in Saves : save[n].step \in {"unsent", "over"} <=> save[n].payload = None
    /\ landed \in SUBSET Saves
    /\ succeeded \in SUBSET landed
    /\ outrun \in SUBSET succeeded
    /\ outside \in 0..MaxOutside

\* Settings that count as fresh include every save of this tab that has been
\* reported a success, but for one that found an older request on its way
\* while the page was not open.
SettingsShowOwnSaves ==
    settings.fresh => succeeded \subseteq settings.data.asOf \cup outrun

\* "Settings synced successfully." is true of the form that says so: the
\* settings behind it include the save, however many saves of the form overlap
\* and whoever asks for the settings meanwhile, unless fetching them failed.
SyncedFormHasSave ==
    \A n \in mine : save[n].step \in {"refetched", "synced"} => n \in settings.data.asOf

\* A form nobody has touched since it was opened or reset shows the settings
\* its page was rendered with, so that it never saves a value nobody has seen;
\* or, after saves of it overlapped, the answer to one that was not the last.
FormFollowsSettings ==
    PageOpen /\ ~draft.touched =>
        \/ draft.values = initialSettings
        \/ \E n \in mine : /\ save[n].step \in {"synced", "unsynced"}
                           /\ ~Observed(n)
                           /\ draft.values = save[n].payload

\* A touched form with no save of its own under way is the user's: neither a
\* refetch, nor a save whose form is gone, changes it or closes the page.
DraftIsTheUsers ==
    [][PageOpen /\ draft.touched /\ (\A n \in mine : save[n].step \in {"synced", "unsynced", "over"})
            /\ SettingsEnvironment
        => PageOpen' /\ draft'.values = draft.values /\ draft'.touched]_settingsVars
==============================================================================
