--------------------------- MODULE DesktopSettings ---------------------------
(* The settings of the desktop application: the settings panel and its draft  *)
(* (SettingsPanel.svelte, settingsForm.ts, DesktopApp.svelte), the actions it  *)
(* asks of the backend (DesktopSettingsController.ts), the store and its file  *)
(* (DesktopSettingsStore.ts), the zoom shortcuts, and the import from VS Code. *)
EXTENDS Naturals, Sequences, SequencesExt, Functions

CONSTANTS
    MaxZooms,    \* bounds the zoom shortcuts
    MaxEdits,    \* bounds the fields the user edits
    MaxActions,  \* bounds the buttons of the panel and the shell
    MaxForeign   \* bounds the changes of the file by another program

ASSUME SettingsAssumption == {MaxZooms, MaxEdits, MaxActions, MaxForeign} \subseteq Nat

VARIABLES
    settingsFile,  \* settings.json
    settingsStore, \* the store, its queue and the zooms that wait for their turn
    settingsWire,  \* the messages between page and backend, and the action under way
    settingsPanel, \* the page: its view, and the panel with its draft
    settingsUsed   \* how much of the bounds is used, and two facts about the past

settingsVars == <<settingsFile, settingsStore, settingsWire, settingsPanel, settingsUsed>>

-----------------------------------------------------------------------------
(* Values: a setting is unset or has a value; the endpoint of the proxy may be *)
(* one that is refused ("bad"); the zoom is a level, or text that is no number.*)
SettingKeys == {"mode", "endpoint", "zoom", "theme"}
NoZoom == 0
UnfinishedZoom == 9
ZoomRange == 1..3
NoSettings == [mode |-> "unset", endpoint |-> "unset", zoom |-> NoZoom, theme |-> "unset"]
ZoomLevel(values) == IF values.zoom = NoZoom THEN 2 ELSE values.zoom

ProxyEndpointIssue(endpoint) == endpoint # "good"
SettingsIssue(values) ==
    \/ values.mode = "vscode"
    \/ (values.endpoint # "unset" \/ values.mode = "custom") /\ ProxyEndpointIssue(values.endpoint)

\* What a VS Code settings file gives: values of its own keys that are valid one
\* by one, an endpoint of an older version, and VS Code's own proxy in place of
\* the mode that only VS Code knows.
ImportedSettings(source) ==
    LET own == [NoSettings EXCEPT !.mode = IF source.mode = "wrong" THEN "unset" ELSE source.mode,
                                  !.endpoint = IF source.endpoint = "bad" THEN "unset" ELSE source.endpoint]
        older == IF own.endpoint = "unset" /\ source.legacy = "good" THEN [own EXCEPT !.endpoint = "good"] ELSE own
    IN  IF older.mode = "vscode" /\ source.http = "good" THEN [older EXCEPT !.mode = "custom", !.endpoint = "good"] ELSE older

ProxyTexts == {"unset", "good", "bad"}
ImportSources == [mode : {"unset", "custom", "vscode", "wrong"}, endpoint : ProxyTexts, legacy : ProxyTexts, http : ProxyTexts]

\* The draft of the form.
ChangedSettingKeys(saved, draft) == {key \in SettingKeys : saved[key] # draft[key]}
MergeSettingsDraft_Incoming(saved, draft, values) == values
MergeSettingsDraft(saved, draft, values) ==
    [key \in SettingKeys |-> IF key \in ChangedSettingKeys(saved, draft) THEN draft[key] ELSE values[key]]
DraftErrors(draft) ==
    {key \in SettingKeys : \/ key = "zoom" /\ draft.zoom = UnfinishedZoom
                           \/ key = "mode" /\ draft.mode = "vscode"
                           \/ key = "endpoint" /\ draft.mode = "custom" /\ draft.endpoint = "unset"}

-----------------------------------------------------------------------------
(* The store: one operation after the other.                                  *)
SettingsView == [values |-> settingsStore.values, firstRun |-> settingsStore.firstRun, error |-> settingsStore.error]
EventOf(state) == [kind |-> "event", values |-> state.values, firstRun |-> state.firstRun, error |-> state.error]
ReplyTo(type, ok, state) ==
    [kind |-> "reply", type |-> type, ok |-> ok, values |-> state.values, firstRun |-> state.firstRun, error |-> state.error]
\* A shortcut is not answered, a failed one shows a notice only.
AnswerTo(type, ok, state) == IF type = "zoom" THEN <<>> ELSE <<ReplyTo(type, ok, state)>>

EnqueueOperation(operation) == settingsStore' = [settingsStore EXCEPT !.queue = Append(@, operation)]
Working == settingsStore.stage # "idle"
Operation == Head(settingsStore.queue)

\* What an operation is going to write.
TargetOf(operation) ==
    IF operation.op = "update" THEN [settingsStore.values EXCEPT ![operation.key] = operation.value] ELSE operation.values

\* A reload forgets what it knows before it reads the file.
BeginReload ==
    /\ settingsStore.queue # <<>> /\ ~Working /\ Operation.op = "reload"
    /\ settingsStore' = [settingsStore EXCEPT !.values = NoSettings, !.firstRun = FALSE, !.error = FALSE, !.stage = "reading"]
    /\ UNCHANGED <<settingsFile, settingsWire, settingsPanel, settingsUsed>>

Loaded(readable) ==
    LET ok == readable /\ settingsFile.kind = "sound" IN
    [settingsStore EXCEPT !.values = IF ok THEN settingsFile.values ELSE NoSettings,
                          !.firstRun = readable /\ settingsFile.kind = "absent",
                          !.error = ~ok /\ ~(readable /\ settingsFile.kind = "absent"),
                          !.stage = "idle", !.queue = Tail(@)]
EndReload(readable) ==
    /\ settingsStore.stage = "reading"
    /\ settingsStore' = Loaded(readable)
    /\ settingsWire' = [settingsWire EXCEPT !.toPage = @ \o <<EventOf(Loaded(readable))>> \o AnswerTo(Operation.type, TRUE, Loaded(readable))]
    /\ settingsUsed' = [settingsUsed EXCEPT !.foreign = IF readable THEN FALSE ELSE @]
    /\ UNCHANGED <<settingsFile, settingsPanel>>

\* Nothing is written over a file that could not be loaded, nor what is not valid.
RefuseWrite ==
    LET done == [settingsStore EXCEPT !.queue = Tail(@)] IN
    /\ settingsStore.queue # <<>> /\ ~Working /\ Operation.op # "reload"
    /\ settingsStore.error \/ SettingsIssue(TargetOf(Operation))
    /\ settingsStore' = done
    /\ settingsWire' = [settingsWire EXCEPT !.toPage = @ \o AnswerTo(Operation.type, FALSE, done)]
    /\ UNCHANGED <<settingsFile, settingsPanel, settingsUsed>>

BeginWrite ==
    /\ settingsStore.queue # <<>> /\ ~Working /\ Operation.op # "reload"
    /\ ~settingsStore.error /\ ~SettingsIssue(TargetOf(Operation))
    /\ settingsStore' = [settingsStore EXCEPT !.stage = "writing", !.target = TargetOf(Operation)]
    /\ UNCHANGED <<settingsFile, settingsWire, settingsPanel, settingsUsed>>

\* The file is replaced whole, or not at all; only then the store has the values.
EndWrite(ok) ==
    LET target == settingsStore.target
        kept == [settingsStore EXCEPT !.stage = "idle", !.target = NoSettings, !.queue = Tail(@)]
        stored == [kept EXCEPT !.values = target, !.firstRun = FALSE]
    IN  /\ settingsStore.stage = "writing"
        /\ settingsFile' = IF ok THEN [kind |-> "sound", values |-> target] ELSE settingsFile
        /\ settingsStore' = IF ok THEN stored ELSE kept
        /\ settingsWire' = [settingsWire EXCEPT !.toPage =
               @ \o (IF ok THEN <<EventOf(stored)>> ELSE <<>>) \o AnswerTo(Operation.type, ok, IF ok THEN stored ELSE kept)]
        /\ settingsUsed' = [settingsUsed EXCEPT
               !.foreign = IF ok THEN FALSE ELSE @,
               !.spoiled = @ \/ (/\ ok /\ ~settingsUsed.foreign
                                  /\ \/ settingsFile.kind = "broken"
                                     \/ \E key \in Operation.leaves : target[key] # settingsStore.values[key])]
        /\ UNCHANGED settingsPanel

-----------------------------------------------------------------------------
(* The backend: the messages of the page in the order in which they were sent. *)
Received == Head(settingsWire.toHost)
TakenMessage == [settingsWire EXCEPT !.toHost = Tail(@)]
Answered(ok) == settingsWire' = [TakenMessage EXCEPT !.toPage = Append(@, ReplyTo(Received.type, ok, settingsStore))]

HandleRead ==
    /\ settingsWire.toHost # <<>> /\ Received.type = "read"
    /\ Answered(TRUE)
    /\ UNCHANGED <<settingsFile, settingsStore, settingsPanel, settingsUsed>>

\* save, setTheme, useDefaults and reload wait for the store's queue; defaults
\* are for a store that has no file.
HandleWrite ==
    LET operation == [op |-> IF Received.type = "reload" THEN "reload" ELSE IF Received.type = "setTheme" THEN "update" ELSE "replace",
                      type |-> Received.type, values |-> Received.values, leaves |-> Received.leaves,
                      key |-> "theme", value |-> Received.values.theme]
        refused == Received.type = "useDefaults" /\ (~settingsStore.firstRun \/ settingsStore.error)
    IN  /\ settingsWire.toHost # <<>> /\ Received.type \in {"save", "setTheme", "useDefaults", "reload"}
        /\ IF refused THEN Answered(FALSE) /\ UNCHANGED settingsStore ELSE EnqueueOperation(operation) /\ settingsWire' = TakenMessage
        /\ UNCHANGED <<settingsFile, settingsPanel, settingsUsed>>

\* Import needs a store that has no file, opening the file one that has.
HandleOutside ==
    LET refused == IF Received.type = "openFile" THEN settingsStore.firstRun ELSE ~settingsStore.firstRun \/ settingsStore.error IN
    /\ settingsWire.toHost # <<>> /\ Received.type \in {"importVscode", "openFile"}
    /\ IF refused THEN Answered(FALSE) ELSE settingsWire' = [TakenMessage EXCEPT !.outside = Received.type]
    /\ UNCHANGED <<settingsFile, settingsStore, settingsPanel, settingsUsed>>

\* The editor has opened the file, or VS Code's settings have been read.
EndOutside ==
    /\ settingsWire.outside # "none"
    /\ \/ settingsWire' = [settingsWire EXCEPT !.outside = "none", !.toPage = Append(@, ReplyTo(settingsWire.outside, FALSE, settingsStore))]
       \/ /\ settingsWire.outside = "openFile"
          /\ settingsWire' = [settingsWire EXCEPT !.outside = "none", !.toPage = Append(@, ReplyTo("openFile", TRUE, settingsStore))]
       \/ /\ settingsWire.outside = "importVscode"
          /\ \E source \in ImportSources :
                settingsWire' = [settingsWire EXCEPT !.outside = "none",
                    !.toPage = Append(@, [ReplyTo("importVscode", TRUE, settingsStore) EXCEPT !.values = ImportedSettings(source)])]
    /\ UNCHANGED <<settingsFile, settingsStore, settingsPanel, settingsUsed>>

\* A shortcut is for settings that are loaded; it waits for those before it and
\* then starts from the zoom the store has.
HandleZoom ==
    /\ settingsWire.toHost # <<>> /\ Received.type = "zoom"
    /\ settingsWire' = TakenMessage
    /\ settingsStore' = IF settingsStore.firstRun \/ settingsStore.error THEN settingsStore
                        ELSE [settingsStore EXCEPT !.zooms = Append(@, Received.zoom)]
    /\ UNCHANGED <<settingsFile, settingsPanel, settingsUsed>>

ZoomTo(zoom) ==
    IF zoom = "reset" THEN NoZoom
    ELSE LET level == IF zoom = "in" THEN ZoomLevel(settingsStore.values) + 1 ELSE ZoomLevel(settingsStore.values) - 1
         IN  IF level \in ZoomRange THEN level ELSE ZoomLevel(settingsStore.values)
ZoomsUnderWay == {i \in DOMAIN settingsStore.queue : settingsStore.queue[i].type = "zoom"}
ZoomTurn ==
    /\ settingsStore.zooms # <<>> /\ ZoomsUnderWay = {}
    /\ settingsStore' = [settingsStore EXCEPT !.zooms = Tail(@),
           !.queue = IF settingsStore.firstRun \/ settingsStore.error THEN @
                     ELSE Append(@, [op |-> "update", type |-> "zoom", values |-> NoSettings, leaves |-> {},
                                     key |-> "zoom", value |-> ZoomTo(Head(settingsStore.zooms))])]
    /\ UNCHANGED <<settingsFile, settingsWire, settingsPanel, settingsUsed>>

-----------------------------------------------------------------------------
(* The page.  `typed` is what the user has edited and neither saved nor thrown *)
(* away, `late` the fields edited while an action was under way; `missed` says *)
(* that the panel passed over a change of the store.                           *)
NothingTyped == [key \in {} |-> NoZoom]
ViewOf(message) == [values |-> message.values, firstRun |-> message.firstRun, error |-> message.error]
PanelIdle == ~settingsPanel.busy /\ settingsPanel.operation = "none" /\ settingsPanel.asking = "none"
HasChanges(panel) == ChangedSettingKeys(panel.saved, panel.draft) # {}

StillTyped(typed, saved) == [key \in {k \in DOMAIN typed : typed[k] # saved[k]} |-> typed[key]]
ReplaceDraft(panel, values) ==
    [panel EXCEPT !.saved = values, !.draft = values, !.missed = FALSE,
                  !.typed = StillTyped(Restrict(@, DOMAIN @ \intersect panel.late), values)]
UntouchedPanel(panel) == [panel EXCEPT !.typed = NothingTyped, !.late = {}, !.missed = FALSE]
MergeDraft(panel, values) ==
    [panel EXCEPT !.saved = values, !.draft = MergeSettingsDraft(panel.saved, panel.draft, values),
                  !.typed = StillTyped(@, values), !.missed = FALSE]

\* A new view reaches an open panel unless one of its own actions is under way.
AdoptView(panel, view) ==
    LET shown == [panel EXCEPT !.view = view] IN
    IF ~panel.open THEN shown
    ELSE IF panel.operation # "none" THEN [shown EXCEPT !.missed = @ \/ view.values # panel.saved]
    ELSE IF HasChanges(panel) THEN MergeDraft(shown, view.values)
    ELSE ReplaceDraft(shown, view.values)

ToPage == Head(settingsWire.toPage)
ReceiveView ==
    /\ settingsWire.toPage # <<>> /\ ToPage.kind = "event"
    /\ settingsPanel' = AdoptView(settingsPanel, ViewOf(ToPage))
    /\ settingsWire' = [settingsWire EXCEPT !.toPage = Tail(@)]
    /\ UNCHANGED <<settingsFile, settingsStore, settingsUsed>>

\* The answer to an action of the panel: an import becomes the draft, an opened
\* file leaves the draft, anything else replaces it; an error changes nothing.
ReceiveReply ==
    LET own == ToPage.type = settingsPanel.operation
        seen == AdoptView(settingsPanel, ViewOf(ToPage))
        taken == IF ~own \/ ~seen.open THEN seen
                 ELSE IF ToPage.type = "importVscode" THEN [UntouchedPanel(seen) EXCEPT !.draft = ToPage.values,
                                                                              !.missed = settingsPanel.missed]
                 ELSE IF ToPage.type = "openFile" THEN MergeDraft(seen, ToPage.values)
                 ELSE IF ToPage.type = "useDefaults" THEN [UntouchedPanel(seen) EXCEPT !.open = FALSE]
                 ELSE ReplaceDraft(seen, ToPage.values)
        panel == IF ToPage.ok THEN taken ELSE settingsPanel
    IN  /\ settingsWire.toPage # <<>> /\ ToPage.kind = "reply"
        /\ settingsPanel' = [panel EXCEPT !.busy = FALSE, !.operation = IF own THEN "none" ELSE @]
        /\ settingsWire' = [settingsWire EXCEPT !.toPage = Tail(@)]
        /\ UNCHANGED <<settingsFile, settingsStore, settingsUsed>>

Send(type, values, leaves) ==
    settingsWire' = [settingsWire EXCEPT !.toHost = Append(@, [type |-> type, values |-> values, leaves |-> leaves])]
Used(field) == settingsUsed' = [settingsUsed EXCEPT ![field] = @ + 1]

\* The panel is opened with the view of the page, and the settings are read.
ShowSettings ==
    LET opened == ReplaceDraft(UntouchedPanel(settingsPanel), settingsPanel.view.values) IN
    /\ settingsUsed.actions < MaxActions /\ Used("actions")
    /\ settingsPanel' = [IF settingsPanel.open THEN settingsPanel ELSE opened EXCEPT !.open = TRUE, !.busy = TRUE]
    /\ Send("read", NoSettings, {})
    /\ UNCHANGED <<settingsFile, settingsStore>>

\* The theme button of the shell, which the panel covers.
SwitchTheme ==
    /\ ~settingsPanel.open /\ ~settingsPanel.busy
    /\ settingsUsed.actions < MaxActions /\ Used("actions")
    /\ settingsPanel' = [settingsPanel EXCEPT !.busy = TRUE]
    /\ Send("setTheme", [NoSettings EXCEPT !.theme = IF settingsPanel.view.values.theme = "light" THEN "dark" ELSE "light"], {})
    /\ UNCHANGED <<settingsFile, settingsStore>>

ZoomShortcut ==
    /\ settingsUsed.zooms < MaxZooms /\ Used("zooms")
    /\ \E zoom \in {"in", "out", "reset"} :
          settingsWire' = [settingsWire EXCEPT !.toHost = Append(@, [type |-> "zoom", zoom |-> zoom])]
    /\ UNCHANGED <<settingsFile, settingsStore, settingsPanel>>

\* A field is edited or reset; the fields are disabled while the page is busy
\* and while the file could not be loaded.
EditField(key, text) ==
    /\ settingsPanel.open /\ ~settingsPanel.busy /\ ~settingsPanel.view.error /\ settingsPanel.asking = "none"
    /\ settingsPanel.draft[key] # text
    /\ settingsUsed.edits < MaxEdits /\ Used("edits")
    /\ settingsPanel' = [settingsPanel EXCEPT
           !.draft[key] = text,
           !.typed = StillTyped([k \in DOMAIN @ \union {key} |-> IF k = key THEN text ELSE @[k]], settingsPanel.saved),
           !.late = IF settingsPanel.operation = "none" THEN @ \ {key} ELSE @ \union {key}]
    /\ UNCHANGED <<settingsFile, settingsStore, settingsWire>>

\* Nothing else is on its way to or from the store.
StoreAtRest ==
    /\ settingsStore.queue = <<>> /\ settingsStore.stage = "idle" /\ settingsStore.zooms = <<>>
    /\ settingsWire.toHost = <<>> /\ settingsWire.toPage = <<>> /\ settingsWire.outside = "none"

Act(type, panel, values, leaves) ==
    /\ settingsUsed.actions < MaxActions /\ Used("actions")
    /\ settingsPanel' = [panel EXCEPT !.operation = type, !.busy = TRUE, !.asking = "none"]
    /\ Send(type, values, leaves)
    /\ UNCHANGED <<settingsFile, settingsStore>>

\* A draft with an error is not sent.
SaveSettings ==
    LET changed == ChangedSettingKeys(settingsPanel.saved, settingsPanel.draft) IN
    /\ settingsPanel.open /\ PanelIdle /\ ~settingsPanel.view.error
    /\ changed # {} \/ settingsPanel.view.firstRun
    /\ DraftErrors(settingsPanel.draft) = {}
    /\ Act("save", settingsPanel, settingsPanel.draft, IF StoreAtRest /\ ~settingsPanel.missed THEN SettingKeys \ changed ELSE {})

OpenSettingsFile ==
    /\ settingsPanel.open /\ PanelIdle /\ ~settingsPanel.view.firstRun
    /\ Act("openFile", settingsPanel, NoSettings, {})

\* Closing, reloading, importing and taking the defaults ask first when the
\* draft has changes.
ReplacingOperations == {"close", "reload"} \union (IF settingsPanel.view.firstRun THEN {"importVscode", "useDefaults"} ELSE {})
Perform(next, panel) ==
    IF next = "close"
    THEN /\ settingsPanel' = [UntouchedPanel(panel) EXCEPT !.open = FALSE, !.asking = "none"]
         /\ UNCHANGED <<settingsFile, settingsStore, settingsWire, settingsUsed>>
    ELSE Act(next, panel, NoSettings, {})
RequestOperation(next) ==
    /\ settingsPanel.open /\ PanelIdle /\ next \in ReplacingOperations
    /\ IF HasChanges(settingsPanel)
       THEN /\ settingsPanel' = [settingsPanel EXCEPT !.asking = next]
            /\ UNCHANGED <<settingsFile, settingsStore, settingsWire, settingsUsed>>
       ELSE Perform(next, settingsPanel)

DiscardChanges(panel) == [panel EXCEPT !.draft = panel.saved, !.typed = NothingTyped, !.late = {}]
ConfirmDiscard ==
    /\ settingsPanel.open /\ settingsPanel.asking # "none"
    /\ IF settingsPanel.asking # "close" /\ (settingsPanel.busy \/ settingsPanel.operation # "none")
       THEN /\ settingsPanel' = [DiscardChanges(settingsPanel) EXCEPT !.asking = "none"]
            /\ UNCHANGED <<settingsFile, settingsStore, settingsWire, settingsUsed>>
       ELSE Perform(settingsPanel.asking, DiscardChanges(settingsPanel))
CancelDiscard ==
    /\ settingsPanel.asking # "none"
    /\ settingsPanel' = [settingsPanel EXCEPT !.asking = "none"]
    /\ UNCHANGED <<settingsFile, settingsStore, settingsWire, settingsUsed>>
DiscardDraft ==
    /\ settingsPanel.open /\ ~settingsPanel.busy /\ HasChanges(settingsPanel) /\ settingsPanel.asking = "none"
    /\ settingsPanel' = DiscardChanges(settingsPanel)
    /\ UNCHANGED <<settingsFile, settingsStore, settingsWire, settingsUsed>>

\* Another program changes the file.
ForeignEdit ==
    /\ settingsUsed.changes < MaxForeign
    /\ \E file \in {[kind |-> "broken", values |-> NoSettings], [kind |-> "sound", values |-> [NoSettings EXCEPT !.zoom = 3]]} :
          settingsFile' = file /\ file # settingsFile
    /\ settingsUsed' = [settingsUsed EXCEPT !.changes = @ + 1, !.foreign = TRUE]
    /\ UNCHANGED <<settingsStore, settingsWire, settingsPanel>>

-----------------------------------------------------------------------------
FilesAtStart == {[kind |-> "absent", values |-> NoSettings], [kind |-> "broken", values |-> NoSettings],
                 [kind |-> "sound", values |-> [NoSettings EXCEPT !.zoom = 1]],
                 [kind |-> "sound", values |-> [NoSettings EXCEPT !.mode = "custom", !.endpoint = "good"]]}

\* The file has been loaded; the panel is open when there is something to set up.
SettingsStart ==
    /\ settingsFile \in FilesAtStart
    /\ settingsStore = [values |-> settingsFile.values, firstRun |-> settingsFile.kind = "absent", error |-> settingsFile.kind = "broken",
                        queue |-> <<>>, stage |-> "idle", target |-> NoSettings, zooms |-> <<>>]
    /\ settingsWire = [toHost |-> <<>>, toPage |-> <<>>, outside |-> "none"]
    /\ settingsPanel = [open |-> settingsFile.kind # "sound", view |-> SettingsView,
                        saved |-> settingsFile.values, draft |-> settingsFile.values, operation |-> "none", busy |-> FALSE,
                        asking |-> "none", typed |-> NothingTyped, late |-> {}, missed |-> FALSE]
    /\ settingsUsed = [zooms |-> 0, edits |-> 0, actions |-> 0, changes |-> 0, foreign |-> FALSE, spoiled |-> FALSE]

FieldTexts == {<<"mode", "custom">>, <<"mode", "unset">>, <<"endpoint", "good">>, <<"endpoint", "bad">>, <<"endpoint", "unset">>,
               <<"zoom", 3>>, <<"zoom", NoZoom>>, <<"zoom", UnfinishedZoom>>, <<"theme", "light">>}
SettingsSteps ==
    \/ BeginReload \/ \E readable \in BOOLEAN : EndReload(readable)
    \/ RefuseWrite \/ BeginWrite \/ \E ok \in BOOLEAN : EndWrite(ok)
    \/ HandleRead \/ HandleWrite \/ HandleOutside \/ EndOutside \/ HandleZoom \/ ZoomTurn
    \/ ReceiveView \/ ReceiveReply
    \/ ShowSettings \/ SwitchTheme \/ ZoomShortcut
    \/ \E field \in FieldTexts : EditField(field[1], field[2])
    \/ SaveSettings \/ OpenSettingsFile \/ \E next \in {"close", "reload", "importVscode", "useDefaults"} : RequestOperation(next)
    \/ ConfirmDiscard \/ CancelDiscard \/ DiscardDraft
    \/ ForeignEdit

-----------------------------------------------------------------------------
SettingsTypes ==
    /\ settingsFile.kind \in {"absent", "broken", "sound"}
    /\ settingsStore.stage \in {"idle", "reading", "writing"} /\ settingsStore.stage # "idle" => settingsStore.queue # <<>>
    /\ settingsWire.outside \in {"none", "openFile", "importVscode"}
    /\ DOMAIN settingsPanel.draft = SettingKeys /\ DOMAIN settingsPanel.saved = SettingKeys
    /\ settingsPanel.late \subseteq SettingKeys /\ DOMAIN settingsPanel.typed \subseteq SettingKeys
    /\ settingsPanel.operation \in {"none", "save", "openFile", "reload", "importVscode", "useDefaults"}

\* What the user has typed stays in its field, whatever zoom, theme or other
\* program changes meanwhile, until it is saved or thrown away on request
\* (settingsForm.ts:34, SettingsPanel.svelte:62-63).  An edit made while an
\* action is under way is not safe: settings opened by the host free the fields.
EditsKept == settingsPanel.open =>
    \A key \in DOMAIN settingsPanel.typed \ settingsPanel.late : settingsPanel.draft[key] = settingsPanel.typed[key]

\* With nothing on its way, an open panel compares its draft with what the store
\* holds, and the store with what the file holds.  A change that arrives while
\* an action is under way that then fails is passed over until the next one.
PanelCurrent ==
    /\ StoreAtRest /\ settingsPanel.open /\ ~settingsPanel.missed => settingsPanel.saved = settingsStore.values
    /\ settingsStore.stage = "idle" /\ ~settingsStore.error /\ ~settingsUsed.foreign
         => \/ settingsStore.firstRun /\ settingsFile.kind = "absent"
            \/ (settingsFile.kind = "sound" /\ settingsFile.values = settingsStore.values)

\* A write never replaces a file that could not be loaded (the SPEC of the
\* desktop application, :31), and a Save with nothing else on its way changes
\* no setting but those the user has changed.
WritesWhatWasMeant == ~settingsUsed.spoiled

\* An import never brings a proxy endpoint that is refused, and the mode that
\* only VS Code knows only when VS Code names no proxy (importVscodeSettings.ts:59).
ImportSound ==
    \A source \in ImportSources :
        LET values == ImportedSettings(source) IN
        /\ values.endpoint # "bad" /\ values.mode # "wrong"
        /\ values.mode = "vscode" => source.http # "good" /\ SettingsIssue(values)

\* The settings are as the user means them.
SettingsHonest == EditsKept /\ PanelCurrent /\ WritesWhatWasMeant /\ ImportSound
=============================================================================
