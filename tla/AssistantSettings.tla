------------------------- MODULE AssistantSettings -------------------------
(***************************************************************************)
(* The provider and model of the next message: worker/src/server.ts        *)
(* (initialize, updateAssistantSettings), worker/src/store.ts (the row     *)
(* assistant_settings) and the dialog of components/assistant.tsx.         *)
(*                                                                         *)
(* The models that the Pi runtime offers are the build's, and a worker is  *)
(* restarted with another build; a row that is not there reads as NoRow.   *)
(* Whether a provider is configured, and the search of the dialog, are     *)
(* left out.  A save has two steps: it takes effect, and the answer is     *)
(* read once the providers have been asked.                                *)
(***************************************************************************)
EXTENDS Naturals

CONSTANTS
    Model,
    CodexModel,            \* DEFAULT_CODEX_MODEL
    NoModel,               \* ""
    WorkerBuild,           \* what each build offers, by provider
    Dialog,                \* documents that show the Assistant
    Slot                   \* bound: requests at a time

Provider == {"openai-codex", "openrouter"}

Catalogue == [Provider -> SUBSET Model]

ASSUME SettingsAssumption ==
    /\ CodexModel \in Model
    /\ NoModel \notin Model
    /\ WorkerBuild \subseteq Catalogue
    /\ \A models \in WorkerBuild : CodexModel \in models["openai-codex"]

VARIABLES
    offered,               \* the build of the worker
    working,               \* is the worker up?
    selection,
    row,                   \* assistant_settings
    unsaved,               \* history: the selection could not be written to the row
    dialogs,
    asks                   \* GET and PUT /settings

settingsVars == <<offered, working, selection, row, unsaved, dialogs, asks>>

NoRow ==
    [provider |-> "openai-codex", model |-> CodexModel,
     lastModels |-> [p \in Provider |-> IF p = "openai-codex" THEN CodexModel ELSE NoModel]]

Chosen(provider, model) == [provider |-> provider, model |-> model]

Selection == [provider : Provider, model : Model \cup {NoModel}]

\* setAssistantSettings.
Written(old, choice) ==
    [provider |-> choice.provider, model |-> choice.model,
     lastModels |-> [old.lastModels EXCEPT ![choice.provider] = choice.model]]

Answer == [choice : Selection, lastModels : [Provider -> Model \cup {NoModel}], models : Catalogue]

NoAnswer == [choice |-> Chosen("openai-codex", NoModel), lastModels |-> NoRow.lastModels,
             models |-> [p \in Provider |-> {}]]

NoAsk(d) == [phase |-> "none", kind |-> "load", by |-> d, choice |-> Chosen("openai-codex", NoModel),
             ok |-> FALSE, answer |-> NoAnswer]

NewDialog(state) ==
    [open |-> FALSE, state |-> state, known |-> FALSE, settings |-> NoAnswer,
     draft |-> Chosen("openai-codex", CodexModel), saving |-> FALSE, error |-> FALSE]

\* validModel.
Offers(models, choice) == choice.model \in models[choice.provider]

RowState == [provider : Provider, model : Model, lastModels : [Provider -> Model \cup {NoModel}]]

DialogState ==
    [open : BOOLEAN, state : {"left", "loading", "ready", "unavailable"}, known : BOOLEAN,
     settings : Answer, draft : Selection, saving : BOOLEAN, error : BOOLEAN]

AskState ==
    [phase : {"none", "asked", "applied", "answered"}, kind : {"load", "save"}, by : Dialog,
     choice : Selection, ok : BOOLEAN, answer : Answer]

SettingsTypeOK ==
    /\ offered \in WorkerBuild
    /\ working \in BOOLEAN
    /\ selection \in Selection
    /\ row \in RowState
    /\ unsaved \in BOOLEAN
    /\ dialogs \in [Dialog -> DialogState]
    /\ asks \in [Slot -> AskState]

-----------------------------------------------------------------------------
(* The worker.                                                             *)

\* defaultModel: the one that Codex always has, or the first of OpenRouter.
DefaultModel(provider) ==
    IF provider = "openai-codex" THEN CodexModel ELSE CHOOSE model \in offered[provider] : TRUE

(* initialize: a saved model that the build does not offer is replaced,    *)
(* in the row too.  Without any model of the provider there is no worker.  *)
Starts ==
    LET choice == IF Offers(offered, row) THEN Chosen(row.provider, row.model)
                  ELSE Chosen(row.provider, DefaultModel(row.provider))
    IN  /\ ~working
        /\ offered[row.provider] # {}
        /\ working' = TRUE
        /\ selection' = choice
        /\ row' = IF row.model # choice.model THEN Written(row, choice) ELSE row
        /\ unsaved' = FALSE
        /\ UNCHANGED <<offered, dialogs, asks>>

\* The worker stops, or crashes, and is started again by another build.
Stops ==
    /\ working
    /\ working' = FALSE
    /\ offered' \in WorkerBuild
    /\ asks' = [r \in Slot |-> IF asks[r].phase \in {"asked", "applied"}
                                  THEN [asks[r] EXCEPT !.phase = "answered", !.ok = FALSE]
                                  ELSE asks[r]]
    /\ UNCHANGED <<selection, row, unsaved, dialogs>>

\* assistantSettings, once providerOptions is through.
Current == [choice |-> selection, lastModels |-> row.lastModels, models |-> offered]

Served(r, ok) ==
    asks' = [asks EXCEPT ![r] = [@ EXCEPT !.phase = "answered", !.ok = ok,
                                          !.answer = IF ok THEN Current ELSE asks[r].answer]]

ServeSettings(r) ==
    /\ working
    /\ asks[r].phase = (IF asks[r].kind = "load" THEN "asked" ELSE "applied")
    /\ Served(r, TRUE)
    /\ UNCHANGED <<offered, working, selection, row, unsaved, dialogs>>

\* The choice is made before it is written.
Takes(choice, written) ==
    /\ working
    /\ Offers(offered, choice)
    /\ selection' = choice
    /\ row' = IF written THEN Written(row, choice) ELSE row
    /\ unsaved' = ~written

\* updateAssistantSettings.
UpdateSettings(r) ==
    /\ asks[r].phase = "asked"
    /\ asks[r].kind = "save"
    /\ \/ Takes(asks[r].choice, TRUE) /\ asks' = [asks EXCEPT ![r].phase = "applied"]
       \/ Takes(asks[r].choice, FALSE) /\ Served(r, FALSE)
    /\ UNCHANGED <<offered, working, dialogs>>

\* "That provider/model selection is not supported.", and a lost answer.
Refuses(r) ==
    /\ asks[r].phase \in {"asked", "applied"}
    /\ Served(r, FALSE)
    /\ UNCHANGED <<offered, working, selection, row, unsaved, dialogs>>

(* Another device, or a save of this one whose answer was lost.            *)
OtherDeviceSaves ==
    /\ \E provider \in Provider, model \in Model, written \in BOOLEAN :
          Takes(Chosen(provider, model), written)
    /\ UNCHANGED <<offered, working, dialogs, asks>>

-----------------------------------------------------------------------------
(* The dialog.                                                             *)

Sends(d, kind, running) ==
    \E r \in Slot :
        /\ running[r].phase = "none"
        /\ asks' = [running EXCEPT ![r] = [NoAsk(d) EXCEPT
              !.phase = IF working THEN "asked" ELSE "answered", !.kind = kind,
              !.choice = IF kind = "save" THEN dialogs[d].draft ELSE NoAsk(d).choice]]

(* The page is opened, or loaded again: nobody waits for what it asked.    *)
MountDialog(d) ==
    /\ dialogs' = [dialogs EXCEPT ![d] = NewDialog("loading")]
    /\ Sends(d, "load", [r \in Slot |-> IF asks[r].by = d THEN NoAsk(d) ELSE asks[r]])
    /\ UNCHANGED <<offered, working, selection, row, unsaved>>

\* "Retry", which can be pressed again.
RetrySettings(d) ==
    /\ dialogs[d].open
    /\ dialogs[d].state = "unavailable"
    /\ Sends(d, "load", asks)
    /\ UNCHANGED <<offered, working, selection, row, unsaved, dialogs>>

\* What the page knows after an answer.
Known(dialog, answer) ==
    [dialog EXCEPT !.known = TRUE, !.settings = answer, !.draft = answer.choice, !.error = FALSE]

\* openSettings: what was chosen and not saved is forgotten.
OpenSettings(d) ==
    /\ dialogs[d].state # "left"
    /\ ~dialogs[d].open
    /\ dialogs' = [dialogs EXCEPT ![d] =
          IF @.known THEN [Known(@, dialogs[d].settings) EXCEPT !.open = TRUE]
          ELSE [@ EXCEPT !.open = TRUE]]
    /\ UNCHANGED <<offered, working, selection, row, unsaved, asks>>

CloseSettings(d) ==
    /\ dialogs[d].open
    /\ dialogs' = [dialogs EXCEPT ![d].open = FALSE]
    /\ UNCHANGED <<offered, working, selection, row, unsaved, asks>>

ShowsForm(d) == dialogs[d].open /\ dialogs[d].state = "ready"

\* The model that a provider was last used with, or the first that it has.
ProposedModel(settings, provider) ==
    LET remembered == settings.lastModels[provider]
        models == settings.models[provider]
    IN  IF remembered \in models THEN remembered
        ELSE IF models = {} THEN NoModel ELSE CHOOSE model \in models : TRUE

ChangeProvider(d, provider) ==
    /\ ShowsForm(d)
    /\ dialogs' = [dialogs EXCEPT
          ![d].draft = Chosen(provider, ProposedModel(dialogs[d].settings, provider))]
    /\ UNCHANGED <<offered, working, selection, row, unsaved, asks>>

ChangeModel(d, model) ==
    /\ ShowsForm(d)
    /\ model \in dialogs[d].settings.models[dialogs[d].draft.provider]
    /\ dialogs' = [dialogs EXCEPT ![d].draft.model = model]
    /\ UNCHANGED <<offered, working, selection, row, unsaved, asks>>

SaveSettings(d) ==
    /\ ShowsForm(d)
    /\ ~dialogs[d].saving
    /\ Offers(dialogs[d].settings.models, dialogs[d].draft)
    /\ Sends(d, "save", asks)
    /\ dialogs' = [dialogs EXCEPT ![d].saving = TRUE, ![d].error = FALSE]
    /\ UNCHANGED <<offered, working, selection, row, unsaved>>

\* loadSettings.
LoadAnswered(r) ==
    LET d == asks[r].by IN
    /\ asks[r].phase = "answered"
    /\ asks[r].kind = "load"
    /\ dialogs' = [dialogs EXCEPT ![d] =
          IF asks[r].ok THEN [Known(@, asks[r].answer) EXCEPT !.state = "ready"]
          ELSE [@ EXCEPT !.state = "unavailable", !.error = TRUE]]
    /\ asks' = [asks EXCEPT ![r] = NoAsk(d)]
    /\ UNCHANGED <<offered, working, selection, row, unsaved>>

\* saveSettings, answered.
SaveAnswered(r) ==
    LET d == asks[r].by IN
    /\ asks[r].phase = "answered"
    /\ asks[r].kind = "save"
    /\ dialogs' = [dialogs EXCEPT ![d] =
          IF asks[r].ok THEN [Known(@, asks[r].answer) EXCEPT !.saving = FALSE, !.open = FALSE]
          ELSE [@ EXCEPT !.saving = FALSE, !.error = TRUE]]
    /\ asks' = [asks EXCEPT ![r] = NoAsk(d)]
    /\ UNCHANGED <<offered, working, selection, row, unsaved>>

SettingsInit ==
    /\ offered \in WorkerBuild
    /\ working = FALSE
    /\ selection = Chosen("openai-codex", CodexModel)
    /\ row = NoRow
    /\ unsaved = FALSE
    /\ dialogs = [d \in Dialog |-> NewDialog("left")]
    /\ asks \in {[r \in Slot |-> NoAsk(d)] : d \in Dialog}

SettingsNext ==
    \/ Starts \/ Stops \/ OtherDeviceSaves
    \/ \E r \in Slot :
          ServeSettings(r) \/ UpdateSettings(r) \/ Refuses(r) \/ LoadAnswered(r) \/ SaveAnswered(r)
    \/ \E d \in Dialog :
          \/ MountDialog(d) \/ RetrySettings(d) \/ OpenSettings(d) \/ CloseSettings(d) \/ SaveSettings(d)
          \/ \E provider \in Provider : ChangeProvider(d, provider)
          \/ \E model \in Model : ChangeModel(d, model)

SettingsSpec == SettingsInit /\ [][SettingsNext]_settingsVars

-----------------------------------------------------------------------------
(* Properties.                                                             *)

\* Does a request of the page run?
Awaits(d, kind) ==
    \E r \in Slot : asks[r].phase # "none" /\ asks[r].kind = kind /\ asks[r].by = d

(* The worker never uses a model that its build does not offer, whatever   *)
(* build has written the row, and uses what is saved unless the row could  *)
(* not be written.  A form always shows a model that its page was told of, *)
(* so that it can be saved; it waits for an answer only while one comes.   *)
SettingsInv ==
    /\ SettingsTypeOK
    /\ working => Offers(offered, selection)
    /\ working /\ ~unsaved => row.provider = selection.provider /\ row.model = selection.model
    /\ row.lastModels[row.provider] = row.model
    /\ \A d \in Dialog : LET dialog == dialogs[d] IN
          /\ dialog.state = "ready" => dialog.known
          /\ dialog.known => Offers(dialog.settings.models, dialog.settings.choice)
          /\ dialog.known /\ dialog.settings.models[dialog.draft.provider] # {} =>
                Offers(dialog.settings.models, dialog.draft)
          /\ dialog.saving <=> Awaits(d, "save")
          /\ dialog.state = "loading" => Awaits(d, "load")
=============================================================================
