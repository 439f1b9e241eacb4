---------------------------- MODULE MCSurroundings ----------------------------
(* The parts around a session's process, side by side in one run. They share   *)
(* no state, so a behaviour picks one of them and the others stay switched     *)
(* off; what would be their product is not explored, and need not be.          *)
EXTENDS Composer, Dialogs, DesktopNavigation, DesktopLife, ProviderCredentials, ProviderUsage,
        SessionFiles, UsageAnswers, UsageRequests, FileSuggestions, ResumeFlow, SessionTree,
        TreeNavigation, Framing, DesktopSettings

CONSTANT Parts  \* the parts to run
VARIABLE part   \* the one this behaviour is about

Off == "off"

MCQueued == <<9>>
MCWishes == {[any |-> 3], [new |-> 2, select |-> 2]}
MCKinds == <<{"input", "timed", "forged"}, {"question"}>>

\* What the users of the composer do: nothing more than writing ...
Writing == [hasty |-> FALSE, overlap |-> FALSE, replaced |-> FALSE, words |-> 2, send |-> 0, recover |-> 0,
            tab |-> 0, fail |-> 0, insert |-> 0, replace |-> 0, hide |-> 0]
Hasty == [Writing EXCEPT !.hasty = TRUE, !.overlap = TRUE, !.tab = 1]

\* ... and what a scenario adds to it.
ComposerScenarios ==
    {[Writing EXCEPT !.send = 2, !.tab = 1, !.fail = 1],
     [Writing EXCEPT !.send = 1, !.tab = 1, !.fail = 1, !.overlap = TRUE],
     [Writing EXCEPT !.recover = 1, !.tab = 1, !.fail = 1],
     [Writing EXCEPT !.insert = 1, !.tab = 1, !.hide = 1],
     [Writing EXCEPT !.recover = 1, !.tab = 1, !.send = 1, !.words = 1],
     [Hasty EXCEPT !.insert = 1, !.words = 3],
     [Writing EXCEPT !.send = 1, !.replace = 1, !.tab = 1],
     [Hasty EXCEPT !.replace = 1],
     [Hasty EXCEPT !.send = 1, !.fail = 1, !.words = 1],
     [Hasty EXCEPT !.recover = 1, !.words = 0]}

Init ==
    /\ part \in Parts
    /\ IF part = "composer" THEN ComposerStarts /\ may \in ComposerScenarios
       ELSE host = Off /\ page = Off /\ toPage = Off /\ toHost = Off /\ work = Off
            /\ piQueue = Off /\ piHas = Off /\ fresh = Off /\ written = Off /\ may = Off
    /\ IF part = "dialogs" THEN DialogStarts
       ELSE dialog = Off /\ pending = Off /\ resolving = Off /\ cards = Off /\ forms = Off
            /\ posts = Off /\ run = Off /\ life = Off /\ child = Off
    /\ IF part = "navigation" THEN NavigationStarts
       ELSE desk = Off /\ calls = Off /\ echoes = Off
            /\ deskOrigin = Off /\ dropped = Off /\ asked = Off
    /\ IF part = "shell" THEN LifeStarts
       ELSE shell = Off /\ backend = Off /\ wire = Off
            /\ store = Off /\ cache = Off /\ launches = Off
    /\ IF part = "credentials" THEN CredentialStarts
       ELSE setup = Off
    /\ IF part = "usage" THEN UsageStarts
       ELSE usagePanel = Off /\ snapshots = Off /\ usageWire = Off
            /\ usageTask = Off /\ accounts = Off
    /\ IF part = "catalog" THEN FilesStart
       ELSE disk = Off /\ finder = Off /\ witnessed = Off
    /\ IF part = "reports" THEN ReportStarts
       ELSE answer = Off
    /\ IF part = "requests" THEN RequestStarts
       ELSE exchange = Off
    /\ IF part = "suggestions" THEN SuggestionStarts
       ELSE query = Off /\ asking = Off /\ answers = Off
            /\ search = Off /\ finderFd = Off
    /\ IF part = "resume" THEN ResumeStarts
       ELSE overlay = Off /\ flows = Off /\ dialogOpen = Off
            /\ savedSessions = Off /\ resumeShut = Off
    /\ IF part = "tree" THEN TreeStarts
       ELSE treeFile = Off /\ treeLeaf = Off /\ entryState = Off
    /\ IF part = "moves" THEN MovesStart
       ELSE piTree = Off /\ resultFile = Off /\ treeCall = Off
            /\ treeView = Off /\ treePage = Off
    /\ IF part = "framing" THEN FramingStarts
       ELSE textPipe = Off /\ chunkPipe = Off /\ desktopPipe = Off
    /\ IF part = "settings" THEN SettingsStart
       ELSE settingsFile = Off /\ settingsStore = Off /\ settingsWire = Off
            /\ settingsPanel = Off /\ settingsUsed = Off

\* Only the part at hand moves.
OthersRest ==
    /\ UNCHANGED part
    /\ part # "composer" => UNCHANGED composerVars
    /\ part # "dialogs" => UNCHANGED dialogVars
    /\ part # "navigation" => UNCHANGED deskVars
    /\ part # "shell" => UNCHANGED lifeVars
    /\ part # "credentials" => UNCHANGED setup
    /\ part # "usage" => UNCHANGED usageVars
    /\ part # "catalog" => UNCHANGED filesVars
    /\ part # "reports" => UNCHANGED answer
    /\ part # "requests" => UNCHANGED exchange
    /\ part # "suggestions" => UNCHANGED suggestionVars
    /\ part # "resume" => UNCHANGED resumeVars
    /\ part # "tree" => UNCHANGED treeVars
    /\ part # "moves" => UNCHANGED treeMoveVars
    /\ part # "framing" => UNCHANGED framingVars
    /\ part # "settings" => UNCHANGED settingsVars

Next ==
    \/ part = "composer" /\ ComposerSteps /\ OthersRest
    \/ part = "dialogs" /\ DialogSteps /\ OthersRest
    \/ part = "navigation" /\ NavigationSteps /\ OthersRest
    \/ part = "shell" /\ LifeSteps /\ OthersRest
    \/ part = "usage" /\ UsageSteps /\ OthersRest
    \/ part = "catalog" /\ FilesSteps /\ OthersRest
    \/ part = "suggestions" /\ SuggestionSteps /\ OthersRest
    \/ part = "resume" /\ ResumeSteps /\ OthersRest
    \/ part = "tree" /\ TreeSteps /\ OthersRest
    \/ part = "moves" /\ MoveSteps /\ OthersRest
    \/ part = "framing" /\ FramingSteps /\ OthersRest
    \/ part = "settings" /\ SettingsSteps /\ OthersRest

vars == <<part, composerVars, dialogVars, deskVars, lifeVars, setup, usageVars, filesVars, answer, exchange,
          suggestionVars, resumeVars, treeVars, treeMoveVars, framingVars, settingsVars>>
Spec == Init /\ [][Next]_vars

\* Every variable of the part at hand has its type.
Types ==
    CASE part = "composer" -> ComposerTypes
      [] part = "dialogs" -> DialogTypes
      [] part = "navigation" -> NavigationTypes
      [] part = "shell" -> LifeTypes
      [] part = "credentials" -> CredentialTypes
      [] part = "usage" -> UsageTypes
      [] part = "catalog" -> FilesTypes
      [] part = "reports" -> ReportTypes
      [] part = "requests" -> RequestTypes
      [] part = "suggestions" -> SuggestionTypes
      [] part = "resume" -> ResumeTypes
      [] part = "tree" -> TreeTypes
      [] part = "moves" -> MoveTypes
      [] part = "framing" -> FramingTypes
      [] part = "settings" -> SettingsTypes

\* Page and host come to show the same draft, and what is written is sent once: never twice,
\* never dropped (Composer).
DraftsKept == part = "composer" => DraftsAgree /\ NothingTwice /\ NothingLost

\* A request of Pi's for the user is answered at most once, none that a living Pi waits for is
\* forgotten, and until stop() is over the cards are the requests that can be answered.  After it
\* only cards of requests that came behind its cancellation are left: extension-ui.SPEC.md:19 wants
\* none, and that does not hold (Dialogs).
RequestsAnswered == part = "dialogs" => DialogsHandled

\* The desktop's selection is a session it has, and an opening belongs to who asked (DesktopNavigation).
DeskKeepsTrack == part = "navigation" => SelectionHonest /\ OpeningsAttributed

\* What the shell reports as saved is saved, and it installs what the user agreed to (DesktopLife).
ShellKeepsWord == part = "shell" => SavedWhenSaid /\ InstallsWhatWasShown

\* A provider's secret comes from where Pi would take it (ProviderCredentials), and the panel shows the
\* answers to its own question (ProviderUsage).
UsageTrue ==
    /\ part = "credentials" => CredentialPolicy
    /\ part = "usage" => UsageHonest

\* A completion lists the files of its own search (FileSuggestions), a resume flow is alone and never
\* stuck (ResumeFlow), and a move in the tree of entries is what it is called and replaces the draft
\* that was there only with leave, not twice in a row.  That every draft is asked about
\* (composer.SPEC.md:22) and a seed is applied once (webview-bridge.SPEC.md:41) does not hold
\* (TreeNavigation).
PickersTrue ==
    /\ part = "suggestions" => SuggestionsHonest
    /\ part = "resume" => ResumeHonest
    /\ part = "moves" => NavigationHonest

\* What is read is what is there: the catalog lists the sessions on disk with their names (SessionFiles),
\* the tree of entries is Pi's (SessionTree), a usage report is ready only when the provider answered
\* (UsageRequests) and says what the answer says (UsageAnswers).
ReadingTrue ==
    /\ part = "catalog" => CatalogHonest
    /\ part = "tree" => TreeHonest
    /\ part = "requests" => RequestsHonest
    /\ part = "reports" => ReportsHonest

\* A record leaves the pipes as it was written into them, or not at all (Framing).
RecordsArriveWhole == part = "framing" => FramingHonest

\* An edit of the settings is kept, and no save undoes another change (DesktopSettings).
SettingsKept == part = "settings" => SettingsHonest
=============================================================================
