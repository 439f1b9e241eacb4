# A formal model of FrostPi (pi-vscode-ui)

FrostPi is a graphical client for the Pi coding agent, as a VS Code extension and as a
desktop application. Each session owns a Pi (or Oh My Pi) child process and talks to it
with JSON lines over its pipes. This directory holds TLA+ modules of the parts where
processes, requests, timers and users interleave, the TLC configurations that check them
and the proofs that TLAPS checks. Paths below are relative to the root of the repository.

## Inventory of the system

| Component | State | Operations | How it interacts |
| --- | --- | --- | --- |
| RPC connection, `packages/pi-rpc/src/PiRpcConnection.ts` | child, `#stopping`, `#failure`, the id counter, the map of pending requests, the startup promise | `start`, `stop`, `request`, `sendNotification`, listeners of stdout, `error`, `close` | called by the session runtime; emits events, failures and exits to it |
| Framing, `packages/pi-rpc/src/protocol`, `apps/desktop/src/main/DesktopWire.ts` | buffer of the JSONL decoder, the chunk sequence under way, queued bytes | `push`, `end`, `reset`, `send` | between a pipe and the code that reads it |
| Session runtime, `apps/pi-client/src/core/sessions` | connection and api of this life, life cycle version, status and view, history buffer, queue recovery, entry state | `start`, `stop`, `dispose`, prompts, fork, tree navigation, model settings, refreshes after events | owned by the registry, owns the connection and the conversation |
| Session registry, `apps/pi-client/src/host/SessionRegistry.ts` | runtimes and records by id, active id, provisional ids, start/history/persistence queues, the fork operation | create, open, activate, close, restart, fork, branch, dispose | called by the bridge, calls the runtimes and the host |
| Conversation projection, `apps/pi-client/src/core/conversation` | items of the transcript, ownership of entries, turns, queued prompts | events and entries to view items | called by the runtime |
| Tree of entries, `core/sessions/tree`, `pi-extensions/session-tree.ts` | nodes, path and leaf; the result file of a move | read entries, list branches, move the leaf | host and Pi through a command and a file |
| Extension UI and question tool, `core/extension-ui`, `core/question-tool`, `pi-extensions/question-tool.ts` | pending requests with timers, cards, forms, marker files | add, answer, time out, cancel | called by the runtime, answers through the api |
| Composer, `host/bridge` and `ui/features/composer` | drafts with authority and revision at both ends, submissions, failed recoveries | edit, submit, recover, insert, open a tab, close it | two pages and a host over typed messages |
| Catalog and pickers, `host/catalog`, `host/file-search`, `apps/desktop/src/main/DesktopResume.ts` | the list under construction, the fd process, the resume overlay | discover, look at a file, search, choose | file system, `rg`, `fd`, dialogs |
| Desktop backend, `apps/desktop/src/main` | projects and owners of sessions, openings, `state.json`, `settings.json` | select, add, remove and move projects, New, Resume, settings | owns a registry, talks to shell and page |
| Desktop shell, `apps/desktop/src-tauri` | `closing`, update cache, the instance's lock | exit, drain, check, download and install updates | owns the backend's process |
| Provider usage, `packages/provider-usage`, `ui/features/provider-usage` | panel, snapshots, one request per page | list, query, cancel, normalise | page, host, HTTP |
| Configuration, models, network; VS Code host | caches, panels | reads of settings | adapt the host |

The behaviours that are hard to test, with their lines, are the list `hazards` of
`PROJECT.json`. In short: a request has four ways to settle that race each other; a
process has five ways to end and each is reported by several callbacks; every operation
of a runtime awaits, and a stop, a close, a failure or a second start may come in
between; a fork changes which object an id means while Pi still answers.

What makes each modelled component correct:

* connection: a response settles the request it answers and no other one; whoever waits
  can be reached; failures and stops settle everything and are reported once or not at
  all; `start` and `stop` end; a stopped child ends;
* runtime: at most one live child, never one out of reach, none after a close; an
  overtaken start is silent; no transitional status lasts;
* fork: ids and runtimes agree, a fork exists exactly if it was committed and not taken
  back, no process is left behind, the original comes back, the operation ends;
* collection: the stored index follows the collection, what is to be kept survives, what
  was closed never comes back, no process runs without an entry or after the shutdown, a
  new life begins with a selection that exists.
* conversation: nothing is shown twice, a turn shows the prompt that opened it, nothing is
  shown as running once all is quiet, and events and increments end where a reload would;
* the parts around it: both ends of a protocol come to agree when nothing is on its way,
  what the user wrote or asked for is neither lost nor done twice, an answer that comes
  late changes nothing it does not belong to, and what is reported as saved, installed,
  found or used is so.

## The modules

| Module | Models | Notes |
| --- | --- | --- |
| `Calls` | what `request()` promises to its callers | abstract specification, one variable |
| `PiRpcConnection` | one connection object and its child | shown to implement `Calls` |
| `PiRpcConnection_proofs` | the proofs about it | for every value of the constants |
| `SessionRuntime` | the process life cycle of one session | the connection seen from above |
| `SessionRuntime_proofs` | the proofs about it | for any number of callers and closes |
| `SessionFork` | forking a message of a session in the registry | the runtime seen from above |
| `SessionFork_proofs` | the proofs about it | for any number of forks |
| `SessionCollection` | the registry's sessions, their selection and the stored index | the runtime seen from above |
| `SessionCollection_proofs` | the proofs about it | for any number of calls, lives and failures |
| `ConversationItems` | the item store: live and persisted representations of a message | operators, no state |
| `ConversationProjection` | events and entries to turns | operators over a conversation |
| `Conversation` | a runtime's prompts, queues, commands, history and increments over one pipe | extends the two above |
| `Composer` | the draft of a session between host, sidebar and tab | |
| `Dialogs` | requests of extensions for the user | |
| `SessionTree`, `TreeNavigation` | the index of the entries; moving in it through Pi's extension | |
| `SessionFiles`, `FileSuggestions`, `ResumeFlow` | the session catalog, mentions of files, the resume flow of the desktop | |
| `DesktopNavigation` | projects and sessions of the desktop | the registry's calls, await by await |
| `DesktopLife` | shell, backend, state file and update cache across launches | |
| `DesktopSettings` | settings file, store, controller and panel | |
| `ProviderCredentials` | which secret a usage query takes | a function over enumerated files |
| `ProviderUsage`, `UsageRequests` | the panel's questions; the requests behind one answer | |
| `Panels_proofs` | the proofs about `Dialogs`, `TreeNavigation`, `FileSuggestions`, `ResumeFlow`, `DesktopLife` and `DesktopSettings` | for any number of requests, moves, searches, flows, launches, edits and changes from outside |
| `UsageReports`, `UsageSpend`, `UsageAnswers` | what an answer is made into; the answers and what a report promises | functions over enumerated answers |
| `Framing` | JSONL decoder, chunk assembler, desktop wire | three pipes side by side |
| `FoldRules`, `Framing_proofs` | laws of a fold with any operator; the proofs about `Framing` | for streams, frames and cuts of any length |
| `MC*` | the modules that are checked, with their `.cfg` files | |
| `Surroundings_proofs` | the proofs about `ProviderCredentials` and `ProviderUsage`; what is proved of a part as a property of `MCSurroundings` | for every set of providers and any number of requests and changes |

JavaScript runs one piece of code at a time. So an action is one uninterrupted piece: a
call up to its first `await`, the continuation of an `await`, a listener or a timer. An
async function is a program counter that names the `await` it is suspended at. The child
process and the operating system have actions of their own.

### PiRpcConnection

`child`, `stopping`, `failed`, `requestId`, `pending`, `chunksEnabled` and `ready` are the
private fields of the class. `child` distinguishes an exit with a code from a death by a
signal, because the code looks at `exitCode`, which stays null in the second case. `req`
records what became of each request (it stands for the promise that `request()`
returned), `inbox` what the child has read and `stdout` the frames under way. A frame
carries the id that the code sees and, as a history value, the request the child answers
with it.

`start` is `Start`, then one action per await (`StartIsReady`, `StartIsNegotiated`,
`StartSucceeds`), `StartFails` for everything that throws and `StartThrows` after the
`stop()` of the catch block. `stop` is `Stop` (or the part of `StartFails`), then
`StopEscalates` and `StopGivesUp` for its two grace periods; `Close` lets it return. The
two callers of `stop` may be in it at once. `request` is `Request` and its settlement
`HandleResponse`, `RequestTimeout`, `WriteFails`, or the rejection in `Fail` and
`StopBody`. The two dialects differ in the ready frame and the negotiation.

The child may write anything at any time: answers in any order and repeatedly, events,
ready frames, chunks, malformed records.

Left out: stderr, payloads, bytes of a frame, what listeners do.

### SessionRuntime

`version` is `#lifecycleVersion`; `current` is `#connection` together with `#api`; every
connection object has a phase of its own, so that a connection that was replaced or
abandoned still exists. `startPc` follows `#startInternal`, `stopPc` each concurrent
`stop()`, `queue`, `job` and `checking` follow `SessionRegistry.#startRuntime`, `refresh`
follows `#refreshAfterSettled`. `RequestStart` is `ensureRunning` or the activation of a
stopped session; a restart is a `stop()` followed by a queued start; a close is
`dispose()` followed by the removal of the session.

Left out: prompts, history, models, extension UI beyond its await in `stop()`, other
sessions in the start queue.

`SlowCleanup` states an assumption: `stop()` removes the directories of the bridges
before it clears `#connection`, while a new start may already prepare its launch. The
checked runs take it that removing two small directories does not outlast the many file
operations of that preparation (`SlowCleanup = FALSE`). The code guarantees nothing of the
kind: with `TRUE` the tail of a restart's `stop()` can drop the connection of the newer start.
This is a hazard that no run covers; the proofs, which assume nothing about it, show that it is
the only way in which a child gets out of reach (`ChildrenOwned`).

### SessionFork

The variables are the registry's maps (`runtimes`, `records`, `temporary`, `active`), its
guards (`operation`, `creating`) and the fields of `ForkOperation`. The way forward is
`Fork`, `ForkBegins`, `ForkCommits` (with `Rekey`, the whole of
`#replaceRuntimeWithFork`), `Reconciles`, `ForkSucceeds`; the way back is `ForkFails`,
`RestoreStops`, `RestoreRecovers`, `RestoreEnds`. `CancelFork`, the close of the original
and the creation of another session run next to it. Processes are reduced to the status
a caller of `stop()` and `start()` sees. `Kept` are the forks that were asked for in a
Session Tab: they keep the selection where it is (`selectNewSession: false`). Forks follow
one another; after one that was committed the original has a runtime of its own, opened
behind it (`OriginalStarts`), and can be forked again. `Overlap` lets the second be asked
for while the first still looks at the session file, which takes two pages.

Left out: titles and seeds, persistence, ephemeral sessions (they cannot fork) and the
question before a close.

### SessionCollection

`sessions` is the order of the keys of `#runtimes` and `#records`, which are always set
and removed together here; `temporary`, `retained`, `active` and `closed` are the fields
of the registry. Every call of an async method occupies a slot of `calls`: its operation,
the await it is suspended at, the session it is about and the provisional session it is
discarding. `saveQueue` holds the snapshots that `#persist` took, each with the call that
awaits it (or none, for the saves of `#handleRuntimeChange`), `stored` what the host's
storage holds. `startQueue` and `begun` are the serial queue of `#startRuntime`. `Only` keeps the entries of
a list that are in a set and `Without` all but one; they are recursive functions, so that
what they compute can be proved.

`BeginCreate`/`PickDirectory` are `createSession`, `BeginResume`/`PickFile` are
`resumeSession` and `#openSession`, `Activate` is `activateSession`. All three go through
`Enter` (the first half of `#discardActiveTemporarySession`), `Discarded` when there was
something to discard, and `Proceed`; then the save, `Launch` and `Launched`. `Clear`,
`BeginClose`/`Confirm`/`CloseEnds`, `Retain` and `BeginPrompt`/`Ensured`/`Promote` are the
other operations; a rename takes the same path as a prompt that is not polled. `Shutdown`
is `dispose()`; `Reopen` is a crash, or an exit, at any point and the constructor of the
next life. A continuation that is due runs before any other event (`Quiet`), as promise
callbacks do before the event loop hears of anything else.

Left out: forks (their module has them), restarts, titles and session files of new
sessions, the loss of a worktree, the guard against prompts while history is loading.

### ConversationItems, ConversationProjection, Conversation

A conversation is a record `conv`: the items, which keys have been shown live, which entry
owns which view, the turns by the roles the projection gives them (`active`, `pt`,
`failing`, `eligible`) and the queued prompts. `ConversationProjection` has one operator per
event and per kind of entry; `Conversation` puts them under `SessionRuntime`: `SendPrompt`,
`QueuePrompt`, `SendCommand`, `Abort`, `RestoreQueued`, `LoadHistory`, `NavigateTree`,
`Restart` are the calls, `Receive*` the continuations, in the order in which the answers
leave Pi's one pipe. Pi is external: its log of entries, its leaf, its queues and its run
(prompts, tools, retries, compactions, failures, aborts, a crash) are the part that is
needed to drive the host, and marked so in `map`.

Text is the number of the message it belongs to. Left out: deltas of a message, branch
summaries and controls, notices, cache-miss notices, images, the correlation by results of
Oh My Pi. The first two rounds of a refresh (state, statistics) are merged with the read of
the entries. Pi delivers custom messages at boundaries of a run only, and takes what is
queued when the bound on its messages ends a run.

`hasty` and `twins` are liberties of a scenario that the properties exclude where the code
makes no promise (below).

### Composer

`host.draft`, its authority and its links are `ComposerDraftCache`,
`SessionWebviewCoordinator` and the connections; `page[v]` is one page with its draft,
its submission and its recovery; `toPage` and `toHost` are the channels. A draft is a
sequence of words, each written once; the images are some of the words. `may` is the
scenario. `Calm` and `Moving` are the two restrictions on users the properties speak of.
Left out: the seed (it is in `TreeNavigation`), local commands, limits of images, focus.

### Dialogs

`dialog[d]` is Pi's side of a request with a count of the answers it got, `pending` the
coordinator's map, `resolving` the questions whose file is being read, `cards` and `forms`
the page. Restarts, crashes, timeouts of Pi and of the host and messages of the page that
were posted before a stop interleave with `respond` and `cancelAll`. Left out: decorations,
notifications, the title and the editor's text.

### SessionTree and TreeNavigation

`SessionTree` lets Pi (or another program: `OddFile`) write any tree of entries and
compares the index that is extended entry by entry with one that is built anew.
`TreeNavigation` is `branchHere`, `switchBranch`, the questions before them, the extension's
command with its result file, the host's wait for it and the seed of the draft.

### SessionFiles, FileSuggestions and ResumeFlow

`SessionFiles`: the walk of the directories, `rg`'s scan and the look at each file's head
and tail, while files grow, appear and vanish. `FileSuggestions`: one composer, one host
search with a version, fd's processes with their `error`, `close` and deadline.
`ResumeFlow`: flows, the overlay, the one dialog that is open and the registry's statuses.

### DesktopNavigation, DesktopLife, DesktopSettings

`DesktopNavigation`: `desk` is the synchronous state of projects, navigation and registry;
`calls` are operations suspended at an await, `echoes` the selections that `refresh()`
restores in the background. `DesktopLife`: shell, backend, the wire between them, the state
file, the update cache, over several launches of the program with a crash at any step.
`DesktopSettings`: file, store with its queue, wire, panel; an import and another program's
edits included.

### Provider usage

`ProviderUsage` is the panel, the bridge's requests and cancellations, the cache of
snapshots and the one task of the host. `ProviderCredentials`, `UsageRequests` and
`UsageReports`/`UsageSpend`/`UsageAnswers` are functions: their initial states enumerate the
files, exchanges and answers, and there is no step. A report is compared with what the
answer says, not with the code's way to it. Left out: timestamps, labels and their
redaction, the plan's renewal date, templates of keys.

### Framing

`textPipe` is a stream of bytes with characters of one and two bytes, cut anywhere by
reads; `TakeChar` is one turn of the loop that looks for line ends. `chunkPipe` holds two frames
of Oh My Pi, whole or chunked, with every mistake of an encoder that the limits, the index, the
count, the length or the order can show; one frame parses but is no JSON object (`OddFrame`) and
is refused when it is whole. `desktopPipe` is the wire between shell and backend with its queue
and its failures, of a write or of a stream (`StreamFails`).

## What is checked

| Run | Bounds | Shows |
| --- | --- | --- |
| `connection` | both dialects, one life, one command next to the two requests of the handshake, one unread frame; about 1.07 million states | all safety properties of the connection and the refinement of `Calls` |
| `connection_live` | the same without the command; 45,000 states | `start` and `stop` end, a stopped child ends |
| `connection_orphan` | Pi dialect, one command | violation: a request sent during `stop()` is never settled |
| `runtime` | two restarts, a close, one more start: three connections; one refresh; 320,000 states | one live child, none lost, none after a close (`ChildOwned`), if directories are removed quickly; an overtaken start is silent; statuses settle |
| `runtime_ready` | no restart, no close, one start, one refresh | violation: ready without a process |
| `fork` | two forks, one from the sidebar and one from a tab that keeps the selection, with a close and a creation; 25,266 states | ids and maps (`CollectionConsistent`), commit, processes and recovery (`ForkOutcomeTrue`), exclusion, termination |
| `collection` | two calls at a time and three in all, three sessions, one resumable file, one failed write, one crash or restart; 1.2 million states up to symmetry | index and collection agree; kept sessions survive, closed ones stay closed (`IndexRemembers`); no stray process; the restored selection exists |
| `collection_duplicate` | as `collection`, one life, no failed write | violation: two entries for one session file |
| `fork_cancel`, `fork_close` | as `fork` | violations: a lost cancellation, a fork operation that never ends |
| `conversation` | nine scenarios: two or three prompts, two or three messages of Pi, and each of failures, custom messages, compactions, navigation, loads, aborts, crashes, commands and recoveries once or twice; 960,000 states | nothing shown twice and in the end what a reload shows (`ViewTrue`), the right prompt of a turn, nothing running when all is quiet |
| `surroundings` | fifteen parts, one per behaviour, with the bounds in the `.cfg`; 2.32 million states | the promise of each part, below |

`surroundings` puts the modules that share no state into one run: the variable `part` says
which one a behaviour is about, and the variables of the others are switched off. Nothing
is lost by it, because these modules do not interact, and each is explored completely. Its
properties are the parts' own, joined where parts are close:

| Property | Says |
| --- | --- |
| `DraftsKept` | `DraftsAgree`, `NothingTwice`, `NothingLost` of `Composer`: when nothing is on its way page and host show one draft; each word is in the draft, in Pi's queue or with Pi, in one of them |
| `RequestsAnswered` | `Dialogs`: at most one answer per request, none forgotten while Pi lives, the cards are the requests that can be answered, except behind the cancellation of a `stop()` (below) |
| `DeskKeepsTrack` | `DesktopNavigation`: the active session belongs to the selected project, every session has an owner, New and Resume stay with the project they began in, no opening overlaps an update |
| `ShellKeepsWord` | `DesktopLife`: saved means on disk, and what is installed is what the user was shown |
| `UsageTrue` | credentials are those Pi would take; the panel shows answers to its own question, from the source that is configured, and never waits for nothing |
| `PickersTrue` | a completion lists the files of its own search, with one fd at a time; one resume flow at a time, which never waits for nothing; after a move in the tree host and Pi are at the same leaf, with the exceptions below; the draft that was there when it was asked for was replaced with leave; no seed twice in a row |
| `ReadingTrue` | the catalog lists what is on disk under its true names; the index that grows entry by entry is the index built anew, every branch can be reached; a usage query is ready only if answered and never goes around a proxy; a report says what the answer says |
| `RecordsArriveWhole` | records, chunked frames and desktop messages come out as they went in, or the pipe is closed |
| `SettingsKept` | a typed value stays, the panel's base is the store and the store is the file, a save changes only what was changed, an import yields valid settings |

Why the bounds are enough: in the connection every race is between two settlements of
one request, or between the handshake and one command; three requests and one frame in
flight contain each pair, and the proofs below lift the safety results to every bound.
In the runtime the races are between two life cycles and one that follows; three
connections and three concurrent stops contain overtaking twice in a row. A fork has no
counter: every combination of the awaits of two forks with one close, their cancellations and
one creation is explored; three forks (818,000 states) were explored once. In the collection
three calls contain a discard that is overtaken by a close or a second selection, with
saves of stopping runtimes in between; three calls at a time and four in all, in one life
without failures (5.1 million states), were explored once and show nothing else.
In the conversation the races are between a run's events, one read of the entries and one
thing that replaces or rewinds the conversation; two prompts and two messages give each of
them something before, between and after it. In the surroundings a protocol has two ends
and the bounds let each end act twice while something is on its way; the users' wishes are
bounded, never the order of what follows from them. For the settings larger bounds
(16 million states) were explored once. `Wishes` of `DesktopNavigation` and the ten
`ComposerScenarios` name combinations, since all wishes at once do not fit; the functions
(credentials, reports, requests) are evaluated on every combination of the values that
their branches tell apart.

`CHECK_DEADLOCK FALSE` is given everywhere, because a stopped connection, a closed session,
a finished fork and a user who is done may rest for ever.

### What the properties except

A property names an exception where the code makes no promise or keeps none; each was met
as a counterexample first.

* `Conversation`. A custom message that an extension delivers between the end of a run and
  its reconciliation is shown before that run's turn until a reload
  (`ConversationItemStore.ts:511` against `ConversationProjection.ts:397`), so `SameAsReload`
  compares turns in order and other messages as a set. With `hasty` (a second prompt before
  the answer to the first, both queues at once) a queued prompt can be shown with the wrong
  turn; an extension command during a run takes over the active turn. With `twins` (two
  messages under one correlation key) a live tool without its message and its persisted
  form are both shown. An increment that does not connect moves the cursor before the full
  read; if that fails, the view stays behind until something else is read. A history load
  that races a navigation or a prompt whose answer is missing is not claimed to be current.
* `Composer`. An image added while a submission is rejected is known to the page only
  (`ComposerDraftCache.ts:93`); opening a tab while the sidebar's submission is pending, or
  writing meanwhile, gives up the text of a submission that fails; of two edits with equal
  revision the one in flight is dropped; the result of a prompt is applied to the session
  shown now. The refusal of a send while a recovery is under way is never reached.
* `Dialogs`. A request that arrives, or a question whose file is read, after `cancelAll()`
  of `stop()` is never cancelled and its card stays, though no process is left to answer
  (`late`, `ExtensionUiCoordinator.ts:94`). extension-ui.SPEC.md:19-20 and 29 and
  session-lifecycle.SPEC.md:41 promise that none does. `CardsTrue` says what does hold: every
  pending request has its card, every card its pending request, and after a stop only cards of
  late requests are left. A crash leaves the cards until they are answered or the session
  restarts.
* `DesktopNavigation`. A fork committed while its project is being removed keeps a session
  without an owner (`strays`); a selection whose session was closed meanwhile fails and
  leaves the foreground empty (`failed`); a provisional session that has just come to the
  front may be discarded by another New or Resume.
* `DesktopLife`. An update that fails while Exit has set `closing` ends with
  `installation_error` and may exit before the state is saved; `prepareUpdate` closes the
  admission of sessions for good even if the installation fails; a second launch while the
  first drains ends without a word.
* `ProviderUsage`. The cache is cleared when two listings differ (`providerUsageSource.ts:20`).
  A source that is changed and changed back between two listings leaves a snapshot of the
  other source (`accounts.back`).
* `SessionFiles`. A file deleted between `stat` and `open` (`SessionCatalog.ts:83`) fails the
  whole search; a file read through the windows whose name lies in
  neither the head nor the tail (`Hidden`), and one whose name the scan found cleared and
  which grew before it was read again (`LookedAtTwice`), are excepted.
* `UsageAnswers`. Repeated labels of Z.AI, of Codex features and of MiniMax groups yield
  repeated keys (`RepeatsItself`), which a keyed list refuses. An `Authorization` header in
  `models.json` overrides a stored key while the source is still shown as `auth.json`.
* `TreeNavigation`. The leaf is taken before the extension waits for an idle Pi
  (`session-tree.ts:54`), so a run in between (`raced`), or a result that cannot be written,
  leaves host and Pi apart (`adrift`). Of the draft less holds than the documents promise. A
  draft written while the questions were open is replaced unasked ("meanwhile"), although
  composer.SPEC.md:22 wants every replacement of a draft that is not empty confirmed. A seed is
  known by the entry it came from, and a page remembers the id of the last one only
  (`composerSeedClient.ts:7-13`): after another seed it puts an earlier one there once more, over
  what was written since ("again"), although webview-bridge.SPEC.md:41 has it applied once per
  mount. What holds is that a draft which was there when the move was asked for is not replaced
  by the first appearance of its seed without leave (`OldDraftAskedAbout`), and that a page does
  not apply one seed twice in a row (`SeedNotRepeated`).
* `DesktopSettings`. A change that arrives while an action is under way that then fails is
  passed over (`missed`, `SettingsPanel.svelte:65`); a panel opened by the host during one
  frees the fields (`late`); a save with a zoom on its way takes the zoom back; what another
  program wrote and nobody reloaded is overwritten; `reload` empties the store before it
  reads, so that the page sees no settings for a moment.
* `Framing`. After a frame that closes the connection the records behind it are still
  handled until the process ends; an empty line closes the desktop wire but not the
  decoder; a failed write lets later writes go on.
* `SessionFork`. `Overlap = FALSE`: a page asks for one fork at a time
  (`forkMessageClient.ts:16`). Two pages can ask within one look at the session file; then the
  second begins under the first, and TLC finds an id whose runtime has another identity (a
  hazard in `PROJECT.json`).

### The five violations

They are disagreements between a document or a message and the code; `findings` in
`PROJECT.json` quotes both sides.

1. `NoRequestOutlivesProcess`: `request()` ignores `#stopping`, `#handleClose` rejects
   pending requests only if nobody called `stop()`.
2. `ReadyMeansProcess`: awaited states are applied after a failure.
3. `CancelRecovers`: `cancelRequested` is not looked at after `reconcileFork`.
4. `ForkEnds`: the recovery throws before it finishes the operation when the session was
   closed while `forkMessage` looked at the session file.
5. `OneEntryPerFile`: `#openSession` looks for the file before it awaits the discard of
   the provisional session and not after it.

Two more disagreements have no run of their own: the cards that a stop leaves open (`late`) and
the drafts that a seed replaces (`again`, `meanwhile`). The properties of `Dialogs` and
`TreeNavigation` name these states, so that they claim what holds and no more.

Every passing property also has a mutant in `PROJECT.json`: a definition changed as a
plausible mistake would change it, with which TLC finds the property violated. The mistakes
are operators named after the definition they spoil (`Refresh_Stays` for `Refresh`). A joined
property has one mutant in the list; the modules hold further mistakes for its other parts,
which the same run finds as well.

### Fairness

* Connection: continuations of `start()` run, timers of requests and of the grace periods
  fire, SIGKILL ends a process. Nothing is assumed of the child: it need not answer,
  react to SIGTERM or close its pipes.
* Runtime: continuations run and the start queue moves on; a handshake comes to an answer
  or a failure and a stopped child ends (that is what `connection_live` shows). Users and
  Pi's events are not fair.
* Collection, conversation and surroundings: none is assumed; their properties are about
  safety. What must happen in the end is stated there of the states in which nothing is on
  its way (`Quiet`, `ComposerQuiet`, `SettledDesk`, `StoreAtRest`).
* Fork: continuations run; processes start or stop in bounded time; Pi answers or
  rejects. The fork request itself has no deadline in the code, so `OperationEnds` rests
  on the assumption that Pi does answer, dies or is cancelled.

## What is proved

Proofs hold for every value of the constants that satisfies the assumptions the modules state
about them; two theorems have a hypothesis more, named below. Each invariant was checked by
TLC on the run of its component before it was proved, and each is stronger than the properties
it is for, because these are not inductive.

**Connection** (`PiRpcConnection_proofs`): all its safety properties and the refinement of
`Calls`, for every number of commands, starts and buffered records and every set of dialects.
The property that responses go to the right requests is not inductive: it depends on what
frames are under way and on what the map says. The inductive invariant `IInv` adds

* `TableInv`: the id counter equals the number of requests issued; a request carries its
  own number as id; an entry of the map is the waiting request of that number, and a
  waiting request has its entry;
* `WireInv`: the child has only read requests that were issued, and a response frame
  carries the id of the request it answers;
* `ReportInv`: how failure, its report, `stop()` and the death of the process relate.

Every step changes the table of requests in one of four ways (`TableStep`: unchanged,
issue, settle, reject all), so `NextTableStep` reduces the steps to these four once, and
`TableKept` proves each. `NextReportStep` and `NextWireStep` do the same for failures and
for frames. Two properties of `start()` need invariants of their own on top of `IInv`:
`EscalationInv` (the catch block leaves only after SIGKILL or an exit) and
`HandshakeInv` (what the handshake has reached so far). `Implementation` shows that the
four ways are steps of `Calls` or stutter.

**Runtime** (`SessionRuntime_proofs`): types, `OvertakenStartIsSilent` and what there is to say of
the children, for any number of callers, restarts and closes. `ReachedByStop` says that every
child nobody has asked to end is the current connection's. `ChildrenOwned`, which makes no
assumption about `SlowCleanup`, says that it holds at the start, that `ChildOwned` holds as long
as it does, and that one step alone ends it: the return of a restart's `stop()` from the removal
of the directories, when a start has spawned meanwhile (`ForgetsOvertaker`). So a close never
loses a child, nor does any earlier part of a stop. It rests on `QuietInv`: the current
connection has no live child while a start prepares its own, behind a stop that has asked it to
end and before it removes the directories, and from then on in a close. Where no start spawns
during that removal, as in the run, the step never comes and `ChildOwned` holds always
(`QuickCleanupOwns`). TLC checked both with `SlowCleanup = TRUE` on 405,000 states.

**Fork** (`SessionFork_proofs`): types, `CollectionConsistent`, `ForkOutcomeTrue` and
`ForkExcludesCreation`, for any number of forks one after the other. `ForkInv` says that one
fork at a time holds the operation (`TurnInv`), that before Pi's answer the runtime of a fork
is the original's and afterwards its own (`PhaseInv`), that the maps name each runtime once
and under its own id (`SessionsInv`) and that what left the maps has been stopped
(`ProcessInv`). `Consistent` and `OutcomesTrue` have the hypothesis `~Overlap` (above);
`ForkOrCreation` has none.

**Collection** (`SessionCollection_proofs`): types, `StoredMatches`, `IndexRemembers`,
`NoStrayProcess` and `RestoredSelectionExists`, for any number of calls, sessions, failed
writes, crashes and restarts. What is stored is the effect of a save that began many steps
ago, so the invariant is about the queue: an id drawn for a new entry belongs to one call
(`UnbornInv`) and cannot come back when the entry has left; a call waits for one snapshot
(`OwnerInv`), and what it will report is true of that snapshot and of all behind it
(`GoneInv`, `KeptInv`); the last snapshot is the present collection (`LatestInv`). What the
recursive functions `Only` and `Without` compute is proved by a least counterexample
(`LeastNumber`, `Counting`), since the library's induction over numbers takes an operator.

**Requests of extensions** (`Panels_proofs`): `DialogTypes` and `DialogsHandled`, for any number
of requests, questions and processes. `DialogInv` says of each request where it is (on its way,
being resolved or on a card, and in one place), that it has no answer until it leaves the last
of them, that it is pending exactly if it has a card until a stop is over, and that after
`cancelAll()` only late ones are left: those keep their cards, and the theorem does not say
otherwise.

**Shell of the desktop** (`Panels_proofs`): `LifeTypes`, `SavedWhenSaid` and
`InstallsWhatWasShown`, for any set of releases and any number of launches, changes and
messages. What the shell learns it learns from a message, so `LifeInv` speaks of the wire: a
preparation that the shell waits for is in it once (`OneAwaits`), a `closed` that reports a save
means the file is current and the backend gone (`StoreInv`), a grant means that admission is
closed for good (`AdmissionInv`), and what is held for installation is what was shown
(`UpdateInv`).

**Settings of the desktop** (`Panels_proofs`): `SettingsTypes`, `EditsKept`,
`PanelCurrent`, `WritesWhatWasMeant` and `ImportSound`, for any number of edits, shortcuts,
buttons and changes by other programs. `PanelCurrent` and `WritesWhatWasMeant` speak of moments
at which nothing is on its way, so `SettingsInv` says what is on its way: the last of the news
are the store's values, and without news or a read asked for the panel has them (`NewsInv`); an
import, which is no news, exists once and the panel waits for it (`ImportInv`); the store holds
what the file holds unless another program wrote it (`FileInv`); a Save sent at rest is the
first thing the backend and then the store come to, and carries the store's values in all fields
that the user left alone (`SaveInv`). TLC checked it on the 230,000 states of this part.

**Resume flow** (`Panels_proofs`): `ResumeTypes` and `ResumeHonest`, for any number of flows,
questions and sessions. `FlowInv` says that the work under way is the overlay's, which names no
session before that work is over, and what the overlay waits for; `PickInv` that a flow picks in
the dialog that is open for it and that the overlay shows this one or none. The two support each
other: a session that the overlay names is refreshed by the registry without a list in it,
because a flow that is over has none.

**Suggestions** (`Panels_proofs`): `SuggestionTypes` and `SuggestionsHonest`, for any number of
searches. That the composer never takes the answer of a superseded search for its own rests on
the order in which requests are asked and taken (`AskedInOrder`): the search it waits for is the
newest it asked for, so a version below the newest is not that search's (`VersionsRise`). One
fd at most runs, because a running one is the active one (`FdKnown`); what is shown is what a
finished search had found (`AnswersTrue`, `ShownTrue`). TLC checked both invariants first, on the
57,000 and 81,000 states of these parts.

**Moves in the tree** (`Panels_proofs`): `MoveTypes` and `NavigationHonest`, for every set of
entries and any number of moves and runs of Pi. Host and Pi learn of each other's leaf through a
command and a file, so `MoveInv` says that Pi's extension is at work exactly while the registry
waits for it (`CommandInv`), that a path which the extension has committed and the host has not
read yet is the only one in which they may differ (`PathInv`), and that a seed which waits to be
shown was agreed to or has been shown before, and that the seed last shown is the one the page
remembers (`SeedInv`, `PageOk`). The theorem keeps the exceptions of `NavigationHonest`.

**Credentials** (`Surroundings_proofs`): `CredentialPolicy`, for every provider, environment, `auth.json`
and `models.json` the module tells apart (`CredentialsFollowPolicy`). Nothing moves there, so the
proof follows the branches: `OutcomeOk` is what each source's own resolver promises, and the order
in which the sources are looked at, with the refusals before them, gives the rest.

**Provider usage** (`Surroundings_proofs`): `UsageTypes` and `UsageHonest`, for every set of providers and
any number of requests, cancellations and changes of the configuration. The panel recognises an
answer by the number of its request, so `UsageInv` says what is on the wire: numbers rise in the
order of posting and were all drawn by the panel (`WireOk`); what the panel waits for is its newest
request, which is not cancelled and is on its way, worked on or answered (`AwaitOk`); the task is
for the scope it was asked for and for one reading of the configuration (`TaskOk`); what the cache
holds is of the source that the listing names, and an answer under way fits it, unless a source was
changed and changed back (`SourcesOk`). That every finite set of providers has its order of the
catalog is proved by a least counterexample (`LeastOf`, `OrderExists`). TLC checked `UsageInv`
first, with one change of the configuration and with three (137,000 and 620,000 states).

**Framing** (`Framing_proofs`, `FoldRules`): `RecordsWhole`, `FramesWhole` and `WireHonest`, for
every length of a stream, every limit of a frame and every cut into reads and chunks; a third frame
is out of the model. The handlers read what has come so far, by folds, and the properties compare
with a reading of the whole, by places in the stream. `FoldRules` proves what a fold does with one
element more, with a cut and with a type, once for any operator; it is instantiated with the four
operators that are folded here. The induction it needs goes over a set of numbers
(`NatLessThanWellFounded`), not over an operator, so the provers can do it. With these laws and the
same for `FlattenSeq`, each reader stands where the reference does: `TextInv` and `WireInv` say so
of every prefix received, also when half a character is held back. Of the chunks, `FramesWhole`
says nothing of a sequence under way, so `ChunkInv` adds what is to come (`Onward`): as long as the
sequence begins one of the two frames, the records to come are genuine or one of them is wrong; and
once a wrong one was taken, no record to come continues it, so nothing is delivered. TLC checked
the invariant of each pipe on the states of this part before the proof.

`Surroundings_proofs` carries the last nine over to `MCSurroundings`, where a behaviour is about
one part: `RequestsAlwaysAnswered`, `ShellAlwaysKeepsWord`, `SettingsAlwaysKept`,
`PickersAlwaysTrue`, `UsageAlwaysTrue` and `RecordsAlwaysArriveWhole` are the properties of its run.

Only model-checked:

* liveness (`StartSettles`, `StopReturns`, `StoppedChildEnds`, `StatusSettles`,
  `OperationEnds`), which is out of the prover's reach;
* the conversation: its properties compare the outcome of a whole history with what a reload
  computes from the log, by folds over items and entries. `FoldRules` has the laws for it, but
  not the invariant that relates each live item to its entry; it is not written;
* the other parts of `MCSurroundings`: `ReadingTrue` is about functions of enumerated answers,
  files and entries; `Types` joins the types of all parts, of which those of `Composer`,
  `DesktopNavigation`, `Framing` and of the parts of `ReadingTrue` are not proved. `DraftsKept` and
  `DeskKeepsTrack` are about protocols and are next (Plan).

## Not modelled, and why

* Rendering, styling, labels, wording, dates and counts: layout, without state that another
  part depends on. The annotation review keeps a store of its own in one page.
* The typed API, the dialect tables, the environment of the child process, the scope of
  models and the arguments of `fd`: functions without state or interaction.
* Cache-miss notices, branch summaries, images in messages, the assembly of texts, and the
  correlation of prompts by results of Oh My Pi.
* Worktrees that disappear, temporary sessions on the desktop, failures of writes other
  than those of the index, `state.json` and `settings.json`.
* Products of parts that do interact only through the registry: forks next to restarts,
  prompts during a handshake. They are listed as hazards without a property.
* Windows, tray menus, packaging and the installer itself: the operating system.

## Plan

1. Theorems about the other parts: `DesktopNavigation` (an opening stays with its project),
   `Composer` (a draft is neither sent twice nor lost).
2. `SessionFork` next to restarts of the original.
3. Prompts during the handshake of Oh My Pi, with the correlation by its results.
4. Worktrees that disappear, temporary sessions of the desktop.
