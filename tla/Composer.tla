------------------------------ MODULE Composer ------------------------------
(***************************************************************************)
(* The draft of one session between the host of the VS Code extension and  *)
(* the two pages that may show it: the sidebar and an editor tab.          *)
(*                                                                         *)
(*   - ComposerDraftCache, SessionWebviewCoordinator, SessionPanelManager  *)
(*     and the connections' outbound queues are the record host;           *)
(*   - composerDraftSync, Composer.svelte, queuedPromptRecoveryStore and   *)
(*     applyHostMessage are the records page["side"] and page["tab"];      *)
(*   - toPage and toHost are the two message channels of each page, work   *)
(*     holds the calls of the registry under way.                          *)
(*                                                                         *)
(* A draft's text and images are one sequence of words; each word is       *)
(* written once.  The session is the active one and is never removed.      *)
(***************************************************************************)
EXTENDS Integers, Sequences, FiniteSets, SequencesExt

CONSTANTS Words,      \* what the user may write, each once
          Pictures,   \* the words that are images
          Waiting0    \* the prompts in Pi's queue at the beginning

ASSUME ComposerAssumption == Words \subseteq Nat /\ Pictures \subseteq Words /\ Waiting0 \in Seq(Nat \ Words)

VARIABLES host, page, toPage, toHost, work, piQueue, piHas, fresh, written, may

composerVars == <<host, page, toPage, toHost, work, piQueue, piHas, fresh, written, may>>

Views == {"side", "tab"}
NoRequest == 0
NoText == <<-1>>
NoDraft == [rev |-> -1, body |-> <<>>]
BlankDraft == [rev |-> 0, body |-> <<>>]
NoSubmission == [req |-> NoRequest, body |-> <<>>, cleared |-> -1]

(***************************************************************************)
(* ComposerDraftCache: what the host remembers of the draft.  Every change *)
(* is a function from the host to the host; changes that notify go through *)
(* DraftChanged, changes of ownership through OwnershipChanged.            *)
(***************************************************************************)
Submitting(h) == h.failed # NoSubmission
Recovering(h) == h.tokens # {}
HostOwnsDraft(h) == h.tab \/ Submitting(h) \/ Recovering(h)
CachedOrBlank(h) == IF h.draft = NoDraft THEN BlankDraft ELSE h.draft

Enqueue(h, v, job) ==
    IF h.link[v].alive THEN [h EXCEPT !.link[v].jobs = Append(@, job)] ELSE h

\* A second refresh behind a first would find nothing new: one is kept.
RefreshLink(h, v) ==
    LET l == h.link[v]
        queued == l.jobs # <<>> /\ Last(l.jobs).type = "refresh"
    IN CASE ~l.ready \/ ~l.alive -> h
         [] l.ready /\ l.alive /\ ~l.visible -> [h EXCEPT !.link[v].dirty = TRUE]
         [] OTHER -> IF queued THEN h ELSE Enqueue(h, v, [type |-> "refresh"])

RefreshLinks(h) == RefreshLink(RefreshLink(h, "side"), "tab")

DraftChanged(h) ==
    LET note == [type |-> "replacement", draft |-> h.draft]
        l == h.link["tab"]
    IN IF ~h.tab THEN Enqueue(h, "side", note)
       ELSE CASE ~l.ready -> h
              [] l.ready /\ ~l.visible -> [h EXCEPT !.link["tab"].dirty = TRUE]
              [] OTHER -> Enqueue(h, "tab", note)

OwnershipChanged(h) ==
    RefreshLinks([h EXCEPT !.link = [v \in Views |->
        [@[v] EXCEPT !.version = @ + 1, !.dirty = TRUE]]])

SetDraft(h, draft) == [h EXCEPT !.draft = draft]
SetAndNotify(h, draft) == DraftChanged(SetDraft(h, draft))

AddToken(h, r) ==
    LET held == [h EXCEPT !.tokens = @ \cup {r}]
    IN IF Recovering(h) THEN held ELSE OwnershipChanged(held)

DropToken(h, r) ==
    LET rest == [h EXCEPT !.tokens = @ \ {r}]
    IN IF r \notin h.tokens \/ Recovering(rest) THEN rest ELSE OwnershipChanged(rest)

PrependContent(h, body) ==
    LET current == CachedOrBlank(h)
    IN SetAndNotify(h, [rev |-> current.rev + 1, body |-> body \o current.body])

ReplaceText(h, body) ==
    SetAndNotify(h, [rev |-> CachedOrBlank(h).rev + 1,
                     body |-> body \o SelectSeq(CachedOrBlank(h).body,
                                                LAMBDA w : w \in Pictures)])

InsertText(h, word) ==
    SetAndNotify(h, [rev |-> CachedOrBlank(h).rev + 1,
                     body |-> Append(CachedOrBlank(h).body, word)])

\* A mutation names the images of the draft and carries the new ones only.
Images(body) == ToSet(body) \cap Pictures
Refused(h, m) == ~(Images(m.draft.body) \subseteq Images(h.draft.body) \cup m.added)

ApplyMutation(h, m) ==
    IF (h.draft # NoDraft /\ m.draft.rev <= h.draft.rev) \/ Refused(h, m)
      THEN h ELSE SetDraft(h, m.draft)

Outdated(h, draft) == draft.rev < h.draft.rev

BeginSubmission(h, r, draft) ==
    [h EXCEPT !.draft = [rev |-> draft.rev + 1, body |-> <<>>],
              !.failed = [req |-> r, body |-> draft.body, cleared |-> draft.rev + 1]]

\* The draft comes back only if nobody has written since it was cleared.
Untouched(h) == h.draft = [rev |-> h.failed.cleared, body |-> <<>>]

\* Bug: a failed submission comes back over what was written since.
ResolveSubmission_Always(h, r, succeeded) ==
    LET settled == [h EXCEPT !.failed = NoSubmission]
    IN IF h.failed.req # r THEN h
       ELSE OwnershipChanged(
              IF ~succeeded
                THEN SetAndNotify(settled, [rev |-> h.draft.rev + 1, body |-> h.failed.body])
                ELSE settled)

ResolveSubmission(h, r, succeeded) ==
    LET settled == [h EXCEPT !.failed = NoSubmission]
    IN IF h.failed.req # r THEN h
       ELSE OwnershipChanged(
              IF ~succeeded /\ Untouched(h)
                THEN SetAndNotify(settled, [rev |-> h.draft.rev + 1, body |-> h.failed.body])
                ELSE settled)

(***************************************************************************)
(* WebviewConnection: one job of the outbound queue after the other.       *)
(***************************************************************************)
RuntimeRecovers == \E w \in work : w.kind = "recover" /\ w.phase = "running"

Presentation(h, v) ==
    [authority    |-> IF HostOwnsDraft(h) THEN "host" ELSE "webview",
     externalized |-> v = "side" /\ h.tab,
     locked       |-> RuntimeRecovers \/ Recovering(h),
     pending      |-> piQueue # <<>>]

Snapshot(h, v) ==
    [type |-> "snapshot", view |-> Presentation(h, v),
     draft |-> IF v = "tab" THEN CachedOrBlank(h) ELSE h.draft]

\* Text that Pi or the external editor sets waits here until the sidebar is clean.
QueueComposerText(h, body) == RefreshLink([h EXCEPT !.text = body], "side")

SendPendingText(h, v, sent) ==
    IF v = "side" /\ h.text # NoText /\ ~h.link[v].dirty /\ h.link[v].visible
      THEN <<[h EXCEPT !.text = NoText], Append(sent, [type |-> "setText", body |-> h.text])>>
      ELSE <<h, sent>>

\* An in-flight snapshot must not consume a later change of ownership.
StillDirty(l) == l.busy # l.version

RunJob(v) ==
    LET l == host.link[v]
        job == Head(l.jobs)
        popped == [host EXCEPT !.link[v].jobs = Tail(@)]
        delta == SendPendingText(popped, v,
                     <<[type |-> "delta", view |-> Presentation(host, v)]>>)
    IN /\ l.alive /\ l.jobs # <<>> /\ l.busy = -1
       /\ \/ /\ job.type # "refresh"
             /\ host' = popped
             /\ toPage' = [toPage EXCEPT ![v] = Append(@, job)]
          \/ /\ job.type = "refresh" /\ l.dirty
             /\ host' = [popped EXCEPT !.link[v].busy = l.version]
             /\ toPage' = [toPage EXCEPT ![v] = Append(@, Snapshot(host, v))]
          \/ /\ job.type = "refresh" /\ ~l.dirty
             /\ host' = delta[1]
             /\ toPage' = [toPage EXCEPT ![v] = @ \o delta[2]]
       /\ UNCHANGED <<page, toHost, work, piQueue, piHas, fresh, written, may>>

SnapshotSent(v) ==
    LET clean == [host EXCEPT !.link[v].busy = -1,
                              !.link[v].dirty = StillDirty(host.link[v])]
        text == SendPendingText(clean, v, <<>>)
    IN /\ host.link[v].busy # -1
       /\ host' = text[1]
       /\ toPage' = [toPage EXCEPT ![v] = @ \o text[2]]
       /\ UNCHANGED <<page, toHost, work, piQueue, piHas, fresh, written, may>>

SetVisible(v) ==
    LET changed == [host EXCEPT !.link[v].dirty = TRUE, !.link[v].visible = ~@]
    IN /\ host.link[v].alive
       /\ host.link[v].visible => may.hide > 0
       /\ host' = IF host.link[v].visible THEN changed ELSE RefreshLink(changed, v)
       /\ may' = IF host.link[v].visible THEN [may EXCEPT !.hide = @ - 1] ELSE may
       /\ UNCHANGED <<page, toPage, toHost, work, piQueue, piHas, fresh, written>>

(***************************************************************************)
(* The page: what the user does in the Composer and beside it.             *)
(***************************************************************************)
BlankPage(open) ==
    [open |-> open, draft |-> BlankDraft, sending |-> NoSubmission, asked |-> NoRequest,
     view |-> [authority |-> "webview", externalized |-> FALSE, locked |-> TRUE,
               pending |-> FALSE]]

Busy(p) == p.asked # NoRequest \/ p.view.locked
\* The user does not write into the sidebar between the request for a tab and its
\* view, nor while the draft of a closed tab is on its way back.
Moving ==
    \/ host.tab
    \/ \E m \in ToSet(toHost["side"]) : m.type = "open"
    \/ \E m \in ToSet(toPage["side"] \o host.link["side"].jobs) : m.type = "replacement"

Editable(v) ==
    /\ page[v].open /\ host.link[v].visible /\ ~page[v].view.externalized /\ ~Busy(page[v])
    /\ v = "side" => ~Moving
Post(v, m) == toHost' = [toHost EXCEPT ![v] = Append(@, m)]

\* Unless the user is hasty nothing is edited while an answer is on its way.
Settled == /\ \A v \in Views : toPage[v] = <<>> /\ toHost[v] = <<>> /\ host.link[v].busy = -1
           /\ \A v \in Views : host.link[v].jobs = <<>>
Calm == may.hasty \/ Settled
\* Words that are not images are interchangeable: they are written in order.
MayAdd(word) ==
    /\ word \notin ToSet(written) /\ Len(written) < may.words
    /\ word \notin Pictures =>
         \A earlier \in Words \ Pictures : earlier < word => earlier \in ToSet(written)
Pending == Submitting(host) \/ \E v \in Views : page[v].sending # NoSubmission

Updated(p, body) == [p EXCEPT !.draft = [rev |-> @.rev + 1, body |-> body]]

Write(v, word) ==
    LET edited == Updated(page[v], Append(page[v].draft.body, word))
    IN /\ Editable(v) /\ Calm /\ MayAdd(word)
       /\ may.overlap \/ ~Pending
       /\ page' = [page EXCEPT ![v] = edited]
       /\ IF page[v].view.authority = "host"
            THEN Post(v, [type |-> "update", draft |-> edited.draft,
                          added |-> {word} \cap Pictures])
            ELSE UNCHANGED toHost
       /\ written' = Append(written, word)
       /\ UNCHANGED <<host, toPage, work, piQueue, piHas, fresh, may>>

Submit(v) ==
    LET p == page[v]
    IN /\ Editable(v) /\ Calm /\ p.draft.body # <<>> /\ p.sending = NoSubmission
       /\ may.send > 0
       /\ page' = [page EXCEPT ![v] = [Updated(p, <<>>) EXCEPT !.sending =
                     [req |-> fresh, body |-> p.draft.body, cleared |-> p.draft.rev + 1]]]
       /\ Post(v, [type |-> "send", req |-> fresh, draft |-> p.draft])
       /\ fresh' = fresh + 1
       /\ may' = [may EXCEPT !.send = @ - 1]
       /\ UNCHANGED <<host, toPage, work, piQueue, piHas, written>>

RequestRecovery(v) ==
    /\ Editable(v) /\ page[v].sending = NoSubmission /\ page[v].view.pending
    /\ may.recover > 0
    /\ page' = [page EXCEPT ![v].asked = fresh]
    /\ Post(v, [type |-> "restore", req |-> fresh])
    /\ fresh' = fresh + 1
    /\ may' = [may EXCEPT !.recover = @ - 1]
    /\ UNCHANGED <<host, toPage, work, piQueue, piHas, written>>

\* A submission whose answer is awaited does not keep the tab from opening.
OpenSessionPanel ==
    /\ host.link["side"].visible /\ page["side"].asked = NoRequest /\ may.tab > 0
    /\ Calm /\ (may.hasty \/ page["side"].sending = NoSubmission)
    /\ Post("side", [type |-> "open", draft |-> page["side"].draft])
    /\ may' = [may EXCEPT !.tab = @ - 1]
    /\ UNCHANGED <<host, page, toPage, work, piQueue, piHas, fresh, written>>

ClosePanel ==
    /\ page["tab"].open /\ Calm
    /\ page' = [page EXCEPT !["tab"] = BlankPage(FALSE)]
    /\ Post("tab", [type |-> "closed"])
    /\ toPage' = [toPage EXCEPT !["tab"] = <<>>]
    /\ UNCHANGED <<host, work, piQueue, piHas, fresh, written, may>>

\* Bug: of two drafts with one revision each side keeps its own.
ApplyHostDraft_Newer(p, draft) ==
    IF draft.rev <= p.draft.rev THEN p ELSE [p EXCEPT !.draft = draft]

ApplyHostDraft(p, draft) == IF draft.rev < p.draft.rev THEN p ELSE [p EXCEPT !.draft = draft]

\* Without its Composer the page forgets the submission it waits for.
Shows(p, view) ==
    [p EXCEPT !.view = view, !.sending = IF view.externalized THEN NoSubmission ELSE @]

RestoresLocally(v, m) ==
    LET p == page[v]
    IN /\ v = "side" /\ ~m.ok
       /\ p.draft = [rev |-> p.sending.cleared, body |-> <<>>]

ApplyHostMessage(v, m) ==
    LET p == page[v]
    IN CASE m.type = "snapshot" -> ApplyHostDraft(Shows(p, m.view), m.draft)
         [] m.type = "delta" -> Shows(p, m.view)
         [] m.type = "replacement" -> ApplyHostDraft(p, m.draft)
         [] m.type = "setText" ->
              Updated(p, m.body \o SelectSeq(p.draft.body, LAMBDA w : w \in Pictures))
         [] m.type = "insert" -> Updated(p, Append(p.draft.body, m.word))
         [] m.type = "promptResult" /\ p.sending.req = m.req ->
              LET rest == [p EXCEPT !.sending = NoSubmission]
              IN IF RestoresLocally(v, m) THEN Updated(rest, p.sending.body) ELSE rest
         [] m.type = "recovered" /\ p.asked = m.req ->
              LET rest == [p EXCEPT !.asked = NoRequest]
              IN IF m.merge = <<>> THEN rest ELSE Updated(rest, m.merge \o p.draft.body)
         [] OTHER -> p

PageReceives(v) ==
    /\ toPage[v] # <<>>
    /\ page' = [page EXCEPT ![v] = ApplyHostMessage(v, Head(toPage[v]))]
    /\ toPage' = [toPage EXCEPT ![v] = Tail(@)]
    /\ UNCHANGED <<host, toHost, work, piQueue, piHas, fresh, written, may>>

(***************************************************************************)
(* WebviewActionDispatcher: what the host does with a message of a page.   *)
(***************************************************************************)
NewLink(l) == [l EXCEPT !.ready = FALSE, !.dirty = TRUE, !.version = 0, !.busy = -1,
                        !.visible = TRUE, !.jobs = <<>>, !.alive = TRUE, !.gen = @ + 1]

Answer(h, v, gen, m) == IF h.link[v].gen = gen THEN Enqueue(h, v, m) ELSE h

Ready(h, v) == Enqueue([h EXCEPT !.link[v].ready = TRUE, !.link[v].dirty = TRUE],
                       v, [type |-> "refresh"])

MayUpdate(h, v) == v = "tab" \/ Submitting(h) \/ Recovering(h)

\* Text that waits for the sidebar goes with the draft that is handed over.
Handoff(h, draft) ==
    IF h.text = NoText THEN draft
    ELSE [rev |-> draft.rev + 1,
          body |-> h.text \o SelectSeq(draft.body, LAMBDA w : w \in Pictures)]

OpenPanel(h, draft) ==
    IF h.tab THEN h
    ELSE RefreshLinks([h EXCEPT !.draft = Handoff(h, draft), !.text = NoText,
                                !.tab = TRUE, !.link["tab"] = NewLink(@)])

PanelClosed(h) ==
    LET closed == [h EXCEPT !.tab = FALSE,
                            !.link["tab"] = [@ EXCEPT !.alive = FALSE, !.jobs = <<>>,
                                                      !.busy = -1]]
        told == IF h.draft = NoDraft THEN closed
                ELSE Enqueue(closed, "side", [type |-> "replacement", draft |-> h.draft])
    IN RefreshLinks(told)

\* What the catch block of sendPrompt does.
PromptRejected(h, v, gen, r, owned) ==
    LET settled == IF owned THEN ResolveSubmission(h, r, FALSE) ELSE h
        told == IF owned /\ Recovering(settled)
                  THEN Answer(settled, v, gen, [type |-> "replacement", draft |-> settled.draft])
                  ELSE settled
    IN Answer(told, v, gen, [type |-> "promptResult", req |-> r, ok |-> FALSE])

Call(kind, v, m, owned) ==
    [kind |-> kind, view |-> v, gen |-> host.link[v].gen, req |-> m.req, owned |-> owned,
     phase |-> "running", body |-> IF kind = "prompt" THEN m.draft.body ELSE <<>>]

DispatchSend(v, m) ==
    LET owned == MayUpdate(host, v)
        begun == IF owned THEN BeginSubmission(host, m.req, m.draft) ELSE host
        gen == host.link[v].gen
    IN \/ /\ owned /\ Outdated(host, m.draft)
          /\ host' = PromptRejected(host, v, gen, m.req, owned)
          /\ UNCHANGED work
       \/ /\ ~(owned /\ Outdated(host, m.draft)) /\ Recovering(begun)
          /\ host' = PromptRejected(begun, v, gen, m.req, owned)
          /\ UNCHANGED work
       \/ /\ ~(owned /\ Outdated(host, m.draft)) /\ ~Recovering(begun)
          /\ host' = begun
          /\ work' = work \cup {Call("prompt", v, m, owned)}

NoRecovery(h, v, gen, r) ==
    Answer(h, v, gen, [type |-> "recovered", req |-> r, ok |-> FALSE, merge |-> <<>>])

\* A recovery the runtime refuses takes its token and gives it back at once.
DispatchRestore(v, m) ==
    LET owned == v = "tab" \/ Recovering(host)
        held == IF owned THEN AddToken(host, m.req) ELSE host
        refused(h) == NoRecovery(h, v, host.link[v].gen, m.req)
    IN \/ /\ Submitting(host)
          /\ host' = refused(host) /\ UNCHANGED work
       \/ /\ ~Submitting(host) /\ RuntimeRecovers
          /\ host' = DropToken(refused(held), m.req) /\ UNCHANGED work
       \/ /\ ~Submitting(host) /\ ~RuntimeRecovers
          /\ host' = RefreshLinks(held)
          /\ work' = work \cup {Call("recover", v, m, owned)}

\* A new tab mounts its page, which says that it is ready.
MountsPage(m) == m.type = "open" /\ ~host.tab

Dispatch(v) ==
    LET m == Head(toHost[v])
        consumed == [toHost EXCEPT ![v] = Tail(@)]
    IN /\ toHost[v] # <<>>
       /\ \/ m.type = "ready" /\ host' = Ready(host, v) /\ UNCHANGED work
          \/ /\ m.type = "update" /\ UNCHANGED work
             /\ host' = IF MayUpdate(host, v) THEN ApplyMutation(host, m) ELSE host
          \/ m.type = "send" /\ DispatchSend(v, m)
          \/ m.type = "restore" /\ DispatchRestore(v, m)
          \/ m.type = "open" /\ host' = OpenPanel(host, m.draft) /\ UNCHANGED work
          \/ m.type = "closed" /\ host' = PanelClosed(host) /\ UNCHANGED work
       /\ toHost' = IF MountsPage(m)
                      THEN [consumed EXCEPT !["tab"] = Append(@, [type |-> "ready"])]
                      ELSE consumed
       /\ page' = IF MountsPage(m) THEN [page EXCEPT !["tab"] = BlankPage(TRUE)] ELSE page
       /\ UNCHANGED <<toPage, piQueue, piHas, fresh, written, may>>

(***************************************************************************)
(* The registry's answers, and what comes from outside the pages.          *)
(***************************************************************************)
\* While the session runs Pi queues an accepted prompt, otherwise it runs it.
PromptAccepted(w) ==
    /\ w.kind = "prompt"
    /\ \/ piQueue' = piQueue \o w.body /\ UNCHANGED piHas
       \/ piHas' = piHas \cup ToSet(w.body) /\ UNCHANGED piQueue
    /\ host' = RefreshLinks(Answer(IF w.owned THEN ResolveSubmission(host, w.req, TRUE) ELSE host,
                      w.view, w.gen, [type |-> "promptResult", req |-> w.req, ok |-> TRUE]))
    /\ work' = work \ {w}
    /\ UNCHANGED <<page, toPage, toHost, fresh, written, may>>

PromptFails(w) ==
    /\ w.kind = "prompt" /\ may.fail > 0 /\ Calm
    /\ host' = PromptRejected(host, w.view, w.gen, w.req, w.owned)
    /\ work' = work \ {w}
    /\ may' = [may EXCEPT !.fail = @ - 1]
    /\ UNCHANGED <<page, toPage, toHost, piQueue, piHas, fresh, written>>

\* The runtime is done with a recovery, and its views are refreshed.
RuntimeRecovered(w) ==
    /\ w.kind = "recover" /\ w.phase = "running"
    /\ work' = (work \ {w}) \cup {[w EXCEPT !.phase = "done", !.body = piQueue]}
    /\ piQueue' = <<>>
    /\ host' = RefreshLinks(host)
    /\ UNCHANGED <<page, toPage, toHost, piHas, fresh, written, may>>

RuntimeRefuses(w) ==
    /\ w.kind = "recover" /\ w.phase = "running" /\ may.fail > 0
    /\ host' = DropToken(RefreshLinks(NoRecovery(host, w.view, w.gen, w.req)), w.req)
    /\ work' = work \ {w}
    /\ may' = [may EXCEPT !.fail = @ - 1]
    /\ UNCHANGED <<page, toPage, toHost, piQueue, piHas, fresh, written>>

\* Bug: the page merges what the host has applied.
Merge_Both(applied, body) == body

\* What is left to the page: nothing if the host owns the draft by now.
Merge(applied, body) == IF applied THEN <<>> ELSE body

DeliverRecovery(w) ==
    LET applied == HostOwnsDraft(host)
        told == Answer(IF applied THEN PrependContent(host, w.body) ELSE host, w.view, w.gen,
                  [type |-> "recovered", req |-> w.req, ok |-> TRUE,
                   merge |-> Merge(applied, w.body)])
    IN /\ w.kind = "recover" /\ w.phase = "done"
       /\ host' = DropToken(told, w.req)
       /\ work' = work \ {w}
       /\ UNCHANGED <<page, toPage, toHost, piQueue, piHas, fresh, written, may>>

\* "Add selection" and the commands of the editor.
InsertPromptText(word) ==
    /\ may.insert > 0 /\ Calm /\ MayAdd(word)
    /\ host' = IF HostOwnsDraft(host) THEN InsertText(host, word)
               ELSE Enqueue(host, "side", [type |-> "insert", word |-> word])
    /\ written' = Append(written, word)
    /\ may' = [may EXCEPT !.insert = @ - 1]
    /\ UNCHANGED <<page, toPage, toHost, work, piQueue, piHas, fresh>>

\* Pi's set_editor_text, and the external editor when its tab is closed.
RouteComposerText(word) ==
    /\ may.replace > 0 /\ MayAdd(word)
    /\ host' = IF HostOwnsDraft(host) THEN ReplaceText(host, <<word>>)
               ELSE QueueComposerText(host, <<word>>)
    /\ written' = Append(written, word)
    /\ may' = [may EXCEPT !.replace = @ - 1, !.replaced = TRUE]
    /\ UNCHANGED <<page, toPage, toHost, work, piQueue, piHas, fresh>>

InitialLink(alive) ==
    [ready |-> FALSE, dirty |-> TRUE, version |-> 0, busy |-> -1, visible |-> TRUE,
     jobs |-> <<>>, alive |-> alive, gen |-> 0]

ComposerStarts ==
    /\ host = [draft |-> NoDraft, failed |-> NoSubmission, tokens |-> {}, tab |-> FALSE,
               text |-> NoText, link |-> [v \in Views |-> InitialLink(v = "side")]]
    /\ page = [v \in Views |-> BlankPage(v = "side")]
    /\ toPage = [v \in Views |-> <<>>]
    /\ toHost = [side |-> <<[type |-> "ready"]>>, tab |-> <<>>]
    /\ work = {} /\ piQueue = Waiting0 /\ piHas = {} /\ fresh = 1 /\ written = <<>>

ComposerSteps ==
    \/ \E v \in Views : RunJob(v)
    \/ \E v \in Views : SnapshotSent(v)
    \/ \E v \in Views : SetVisible(v)
    \/ \E v \in Views, word \in Words : Write(v, word)
    \/ \E v \in Views : Submit(v)
    \/ \E v \in Views : RequestRecovery(v)
    \/ OpenSessionPanel
    \/ ClosePanel
    \/ \E v \in Views : PageReceives(v)
    \/ \E v \in Views : Dispatch(v)
    \/ \E w \in work : PromptAccepted(w)
    \/ \E w \in work : PromptFails(w)
    \/ \E w \in work : RuntimeRecovered(w)
    \/ \E w \in work : RuntimeRefuses(w)
    \/ \E w \in work : DeliverRecovery(w)
    \/ \E word \in Words : InsertPromptText(word)
    \/ \E word \in Words : RouteComposerText(word)

-----------------------------------------------------------------------------
(***************************************************************************)
(* Properties.                                                             *)
(***************************************************************************)
ComposerTypes ==
    /\ host.draft.rev \in Int /\ ToSet(host.draft.body) \subseteq Words \cup ToSet(Waiting0)
    /\ \A v \in Views : page[v].asked < fresh /\ page[v].sending.req < fresh
    /\ \A w \in work : w.req < fresh
    /\ ToSet(written) \subseteq Words

Editor == IF host.tab THEN "tab" ELSE "side"
ComposerQuiet == Settled /\ work = {} /\ \A v \in Views : host.link[v].alive => host.link[v].visible

\* An image whose mutation came too late is known to the page only.
ImageLost == ~(Images(page[Editor].draft.body) \subseteq Images(host.draft.body))

\* When nothing is on its way the page that is edited shows who owns the draft,
\* waits for nothing and is not locked, and if the host owns the draft it shows
\* the host's draft: revisions make the two sides agree whatever overlapped
\* (composerDraftSync.ts:8, ComposerDraftCache.ts:88, WebviewConnection.ts:243).
DraftsAgree ==
    ComposerQuiet =>
        /\ ~host.tab => ~page["side"].view.externalized
        /\ page[Editor].view.authority = IF host.tab THEN "host" ELSE "webview"
        /\ page[Editor].asked = NoRequest /\ page[Editor].sending = NoSubmission
        /\ ~page[Editor].view.locked
        /\ host.tab => (page["tab"].draft = host.draft \/ ImageLost)

\* Each word is at one place only: with Pi, in Pi's queue or in the draft.  A
\* submission is not restored although it was accepted, and what a recovery
\* brought back is not merged by the page after the host has applied it
\* (ComposerDraftCache.ts:132, queuedPromptRecoveryStore.svelte.ts:88).
Places(word) ==
    Len(SelectSeq(page[Editor].draft.body \o piQueue, LAMBDA w : w = word))
      + (IF word \in piHas THEN 1 ELSE 0)

NothingTwice == ComposerQuiet => \A word \in Words \cup ToSet(Waiting0) : Places(word) <= 1

\* If pages and host are not edited while messages about the draft are on their
\* way, no word is lost unless the text was replaced: neither by a submission
\* that fails, nor by a tab that opens or closes while one is pending, nor by a
\* recovery.  Who writes while a submission is pending may lose the submission
\* that fails, never what is written (ComposerDraftCache.ts:138,
\* SessionWebviewCoordinator.ts:192).
NothingLost ==
    ComposerQuiet /\ ~may.hasty /\ ~may.replaced =>
        /\ written # <<>> => Places(Last(written)) >= 1
        /\ ~may.overlap =>
             \A word \in ToSet(written) \cup ToSet(Waiting0) : Places(word) >= 1
=============================================================================
