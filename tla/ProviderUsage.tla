--------------------------- MODULE ProviderUsage ---------------------------
(* The provider usage panel of the page, the snapshots it keeps, and the      *)
(* host's request handling (packages/provider-usage/src/query.ts): a page     *)
(* that changes its mind, a host that works on one request at a time, and     *)
(* accounts that are configured anew while a request is under way.            *)
EXTENDS Naturals, Sequences, FiniteSets, SequencesExt

CONSTANTS UsageIds,      \* the providers, in the order of the catalog
          Uncertain,     \* bound: those that fail and whose configuration changes
          MaxUsageIds,   \* bound: requests the page sends in a run
          MaxAccounts    \* bound: changes of the configured accounts

\* A scope is a provider, all of them, or none yet.
AllProviders == 100
NoScope == 0

ASSUME UsageAssumption == UsageIds \subseteq Nat \ {NoScope, AllProviders} /\ IsFiniteSet(UsageIds) /\ Uncertain \subseteq UsageIds
                          /\ MaxUsageIds \in Nat /\ MaxAccounts \in Nat

VARIABLES usagePanel, snapshots, usageWire, usageTask, accounts

usageVars == <<usagePanel, snapshots, usageWire, usageTask, accounts>>

\* Where the credential of a provider comes from: "a" and "b" are two sources
\* that resolve, "broken" one that does not.
Sources == {"a", "b", "broken", "none"}
AvailableSources == {"a", "b"}
UnlistedCatalog == [p \in UsageIds |-> "none"]
ConfiguredIn(listing) == {p \in UsageIds : listing[p] # "none"}

\* stage is what the panel's running function awaits: the listing of
\* loadProviders, the listing of query, or the usage itself.
ClosedPanel == [open |-> FALSE, current |-> NoScope, listed |-> UnlistedCatalog, known |-> FALSE,
                scope |-> NoScope, loading |-> "none", error |-> FALSE, results |-> <<>>, queried |-> FALSE,
                stage |-> "none", awaits |-> 0, asks |-> NoScope, refresh |-> FALSE, since |-> 0]

CanQuery(panel) ==
    /\ panel.loading # "providers"
    /\ IF panel.scope = AllProviders THEN ConfiguredIn(panel.listed) # {}
       ELSE panel.scope \in UsageIds /\ panel.listed[panel.scope] \in AvailableSources

\* request(): the message goes out, and its answer is awaited under a new id.
Ask(panel, stage, loading, messages, type) ==
    /\ messages.fresh <= MaxUsageIds
    /\ usagePanel' = [panel EXCEPT !.stage = stage, !.loading = loading, !.awaits = messages.fresh]
    /\ usageWire' = [messages EXCEPT !.fresh = @ + 1,
                        !.toHost = Append(@, [type |-> type, id |-> messages.fresh, scope |-> panel.asks])]

\* Aborting tells the host only while an answer is awaited.
Abort(panel, messages) ==
    IF panel.stage = "none" THEN messages
    ELSE [messages EXCEPT !.toHost = Append(@, [type |-> "cancel", id |-> panel.awaits, scope |-> NoScope])]

LoadProviders(panel, messages) ==
    Ask([panel EXCEPT !.error = FALSE], "load", "providers", Abort(panel, messages), "list")

\* query(): aborts what is under way and lists again before it asks.
Query(panel, refresh, messages) ==
    Ask([panel EXCEPT !.error = FALSE, !.results = <<>>, !.queried = FALSE, !.asks = panel.scope,
                      !.refresh = refresh, !.since = messages.fresh],
        "list", "usage", Abort(panel, messages), "list")

OpenUsagePanel(current) ==
    /\ ~usagePanel.open
    /\ LoadProviders([ClosedPanel EXCEPT !.open = TRUE, !.current = current], usageWire)
    /\ UNCHANGED <<snapshots, usageTask, accounts>>

CloseUsagePanel ==
    /\ usagePanel.open
    /\ usageWire' = Abort(usagePanel, usageWire) /\ usagePanel' = ClosedPanel
    /\ UNCHANGED <<snapshots, usageTask, accounts>>

\* The panel is keyed by the provider of the session's model.
ModelChanges(current) ==
    /\ usagePanel.open /\ usagePanel.current # current
    /\ LoadProviders([ClosedPanel EXCEPT !.open = TRUE, !.current = current], Abort(usagePanel, usageWire))
    /\ UNCHANGED <<snapshots, usageTask, accounts>>

Selectable(panel) ==
    ConfiguredIn(panel.listed) \cup {panel.current} \cup (IF ConfiguredIn(panel.listed) = {} THEN {} ELSE {AllProviders})

SelectScope(scope) ==
    LET panel == [usagePanel EXCEPT !.scope = scope, !.stage = "none", !.loading = "none", !.results = <<>>,
                                    !.error = FALSE, !.queried = FALSE]
        messages == Abort(usagePanel, usageWire) IN
    /\ usagePanel.open /\ usagePanel.loading # "providers" /\ scope \in Selectable(usagePanel) \ {NoScope}
    /\ IF CanQuery(panel) THEN Query(panel, FALSE, messages) ELSE usagePanel' = panel /\ usageWire' = messages
    /\ UNCHANGED <<snapshots, usageTask, accounts>>

RefreshUsage ==
    /\ usagePanel.open /\ CanQuery(usagePanel)
    /\ Query(usagePanel, TRUE, usageWire)
    /\ UNCHANGED <<snapshots, usageTask, accounts>>

TryAgain ==
    /\ usagePanel.open /\ usagePanel.error
    /\ IF usagePanel.known THEN CanQuery(usagePanel) /\ Query(usagePanel, FALSE, usageWire)
       ELSE LoadProviders(usagePanel, usageWire)
    /\ UNCHANGED <<snapshots, usageTask, accounts>>

\* cacheProviderUsage.listProviders: a snapshot outlives a listing only while
\* its provider is available from the source the listing before named.
Relist(listing) ==
    [listed |-> listing,
     kept |-> [p \in {q \in DOMAIN snapshots.kept : listing[q] \in AvailableSources /\ listing[q] = snapshots.listed[q]}
                 |-> snapshots.kept[p]]]

\* cacheProviderUsage.queryUsage up to the request.
Wanted(panel, listing) == IF panel.asks = AllProviders THEN ConfiguredIn(listing) ELSE {panel.asks}
InOrder(ps) == CHOOSE s \in [1..Cardinality(ps) -> ps] : \A i, j \in DOMAIN s : i < j => s[i] < s[j]

ShowResults(panel, results) ==
    [panel EXCEPT !.stage = "none", !.loading = "none", !.results = results, !.queried = TRUE]

AskUsage(panel, messages, kept) ==
    LET wanted == Wanted(panel, kept.listed)
        left == IF panel.refresh THEN [kept EXCEPT !.kept = [p \in DOMAIN kept.kept \ wanted |-> kept.kept[p]]] ELSE kept IN
    /\ snapshots' = left
    /\ IF ~panel.refresh /\ wanted # {} /\ wanted \subseteq DOMAIN kept.kept
       THEN /\ usagePanel' = ShowResults(panel, [i \in 1..Cardinality(wanted) |-> kept.kept[InOrder(wanted)[i]]])
            /\ usageWire' = messages
       ELSE Ask(panel, "query", "usage", messages, "query")

UsageFailed(panel) == [panel EXCEPT !.error = TRUE, !.stage = "none", !.loading = "none"]

AnswerListing(reply, messages) ==
    LET panel == [usagePanel EXCEPT !.listed = reply.listing, !.known = TRUE]
        loaded == [panel EXCEPT !.scope = usagePanel.current, !.stage = "none", !.loading = "none"] IN
    IF usagePanel.stage = "list" THEN AskUsage(panel, messages, Relist(reply.listing))
    ELSE /\ snapshots' = Relist(reply.listing)
         /\ IF loaded.current # NoScope /\ CanQuery(loaded) THEN Query(loaded, FALSE, messages)
            ELSE usagePanel' = loaded /\ usageWire' = messages

\* Remembered are the results that are ready; any other drops its provider.
AnswerUsage(reply, messages) ==
    LET ready == {i \in DOMAIN reply.results : reply.results[i].status = "ready"}
        told == {reply.results[i].provider : i \in DOMAIN reply.results}
        of == [p \in {reply.results[i].provider : i \in ready} |->
                 reply.results[CHOOSE i \in ready : reply.results[i].provider = p]] IN
    /\ usagePanel' = ShowResults(usagePanel, reply.results)
    /\ snapshots' = [snapshots EXCEPT !.kept =
          [p \in (DOMAIN @ \ told) \cup DOMAIN of |-> IF p \in DOMAIN of THEN of[p] ELSE @[p]]]
    /\ usageWire' = messages

\* An answer nobody waits for any more has no listener.
ReceiveUsage ==
    /\ usageWire.toPage # <<>>
    /\ LET reply == Head(usageWire.toPage)
           messages == [usageWire EXCEPT !.toPage = Tail(@)] IN
       IF usagePanel.stage = "none" \/ reply.id # usagePanel.awaits
       THEN usageWire' = messages /\ UNCHANGED <<usagePanel, snapshots>>
       ELSE CASE reply.type = "error" -> usageWire' = messages /\ usagePanel' = UsageFailed(usagePanel) /\ UNCHANGED snapshots
              [] reply.type = "listing" -> AnswerListing(reply, messages)
              [] OTHER -> AnswerUsage(reply, messages)
    /\ UNCHANGED <<usageTask, accounts>>

(* The host. *)

NewTask(message) == [id |-> message.id, type |-> message.type, scope |-> message.scope, stage |-> "listing",
                     todo |-> <<>>, busy |-> {}, got |-> <<>>, sources |-> UnlistedCatalog]
NoTask == [NewTask([id |-> 0, type |-> "none", scope |-> NoScope]) EXCEPT !.stage = "none"]

\* beginProviderUsageRequest aborts the request before; a cancellation only
\* counts for the current one.  What is aborted never answers, so it is gone.
HostReceives ==
    /\ usageWire.toHost # <<>>
    /\ LET message == Head(usageWire.toHost) IN
       /\ usageWire' = [usageWire EXCEPT !.toHost = Tail(@)]
       /\ usageTask' = IF message.type # "cancel" THEN NewTask(message)
                       ELSE IF message.id = usageTask.id THEN NoTask ELSE usageTask
    /\ UNCHANGED <<usagePanel, snapshots, accounts>>

FinishQuery(reply) ==
    /\ usageTask' = NoTask
    /\ usageWire' = [usageWire EXCEPT !.toPage = Append(@, reply)]

NoAnswer == [type |-> "error", id |-> usageTask.id, listing |-> UnlistedCatalog, results |-> <<>>]

HostLists ==
    /\ usageTask.stage = "listing"
    /\ IF usageTask.type = "list" THEN FinishQuery([NoAnswer EXCEPT !.type = "listing", !.listing = accounts.now])
       ELSE IF usageTask.scope # AllProviders /\ usageTask.scope \notin ConfiguredIn(accounts.now) THEN FinishQuery(NoAnswer)
       ELSE usageTask' = [usageTask EXCEPT !.stage = "resolving"] /\ UNCHANGED usageWire
    /\ UNCHANGED <<usagePanel, snapshots, accounts>>

\* queryUsage reads the configuration again; two providers are asked at a time,
\* and one without a usable credential answers at once.
Started(t) ==
    LET open == ToSet(t.todo) \ (DOMAIN t.got \cup t.busy)
        room == 2 - Cardinality(t.busy) IN
    [t EXCEPT !.busy = @ \cup {p \in open : Cardinality({q \in open : q < p}) < room}]

ResultOf(p, status, source) == [provider |-> p, status |-> status, source |-> source, by |-> usageTask.id]

HostResolves ==
    /\ usageTask.stage = "resolving"
    /\ LET chosen == IF usageTask.scope = AllProviders THEN ConfiguredIn(accounts.now) ELSE {usageTask.scope}
           useless == {p \in chosen : accounts.now[p] \notin AvailableSources} IN
       usageTask' = Started([usageTask EXCEPT !.stage = "asking", !.todo = InOrder(chosen), !.sources = accounts.now,
                                 !.got = [p \in useless |-> ResultOf(p, "unavailable", accounts.now[p])]])
    /\ UNCHANGED <<usagePanel, snapshots, usageWire, accounts>>

\* queryResolvedCredential: the report, its failure, or fifteen seconds.
ProviderAnswers(p, status) ==
    /\ usageTask.stage = "asking" /\ p \in usageTask.busy
    /\ usageTask' = Started([usageTask EXCEPT !.busy = @ \ {p},
           !.got = [q \in DOMAIN @ \cup {p} |-> IF q = p THEN ResultOf(p, status, usageTask.sources[p]) ELSE @[q]]])
    /\ UNCHANGED <<usagePanel, snapshots, usageWire, accounts>>

HostAnswers ==
    /\ usageTask.stage = "asking" /\ ToSet(usageTask.todo) = DOMAIN usageTask.got
    /\ FinishQuery([NoAnswer EXCEPT !.type = "results", !.results =
                  [i \in DOMAIN usageTask.todo |-> usageTask.got[usageTask.todo[i]]]])
    /\ UNCHANGED <<usagePanel, snapshots, accounts>>

\* The proxy that is set cannot be used, or a secret cannot be read: whatever
\* is thrown answers with an error.
HostFails ==
    /\ usageTask.stage \in {"listing", "resolving"} /\ accounts.changes < MaxAccounts
    /\ accounts' = [accounts EXCEPT !.changes = @ + 1]
    /\ FinishQuery(NoAnswer)
    /\ UNCHANGED <<usagePanel, snapshots>>

\* The user logs in or edits a file; back is whether a source that was given up
\* has been taken up again.
Configure(p, source) ==
    /\ accounts.changes < MaxAccounts /\ accounts.now[p] # source
    /\ accounts' = [now |-> [accounts.now EXCEPT ![p] = source], changes |-> accounts.changes + 1,
                    had |-> [accounts.had EXCEPT ![p] = @ \cup {source}],
                    back |-> accounts.back \/ source \in accounts.had[p]]
    /\ UNCHANGED <<usagePanel, snapshots, usageWire, usageTask>>

UsageStarts ==
    /\ usagePanel = ClosedPanel /\ snapshots = [listed |-> UnlistedCatalog, kept |-> <<>>]
    /\ usageWire = [toHost |-> <<>>, toPage |-> <<>>, fresh |-> 1]
    /\ usageTask = NoTask
    /\ \E one \in {"a", "none"} : LET now == [p \in UsageIds |-> IF p = 1 THEN one ELSE "a"] IN
          accounts = [now |-> now, changes |-> 0, had |-> [p \in UsageIds |-> {now[p]}], back |-> FALSE]

UsageSteps ==
    \/ \E p \in {1, NoScope} : OpenUsagePanel(p) \/ ModelChanges(p)
    \/ CloseUsagePanel \/ RefreshUsage \/ TryAgain \/ ReceiveUsage \/ HostReceives
    \/ \E scope \in UsageIds \cup {AllProviders} : SelectScope(scope)
    \/ HostLists \/ HostResolves \/ HostAnswers \/ HostFails
    \/ \E p \in UsageIds : ProviderAnswers(p, "ready") \/ (p \in Uncertain /\ ProviderAnswers(p, "failed"))
    \/ \E p \in Uncertain, source \in Sources : Configure(p, source)

(* Properties. *)

UsageTypes ==
    /\ usagePanel.loading \in {"none", "providers", "usage"} /\ usagePanel.listed \in [UsageIds -> Sources]
    /\ DOMAIN snapshots.kept \subseteq UsageIds /\ usageWire.fresh <= MaxUsageIds + 1
    /\ usageTask.stage \in {"none", "listing", "resolving", "asking"}

\* The page never waits for something nobody will answer.
Awaited ==
    usagePanel.stage # "none" =>
        \/ \E i \in DOMAIN usageWire.toHost : usageWire.toHost[i].id = usagePanel.awaits
                                              /\ usageWire.toHost[i].type # "cancel"
        \/ usageTask.id = usagePanel.awaits
        \/ \E i \in DOMAIN usageWire.toPage : usageWire.toPage[i].id = usagePanel.awaits

\* What stands under a scope belongs to it: the provider chosen or each of the
\* configured once in the catalog's order, read after the query began when a
\* refresh was asked for; and it says it loads exactly while it waits.
ShownForScope ==
    /\ usagePanel.stage = "none" <=> usagePanel.loading = "none"
    /\ usagePanel.results # <<>> => usagePanel.queried /\ usagePanel.asks = usagePanel.scope
    /\ LET ps == [i \in DOMAIN usagePanel.results |-> usagePanel.results[i].provider] IN
       /\ \A i, j \in DOMAIN ps : i < j => ps[i] < ps[j]
       /\ usagePanel.scope # AllProviders /\ usagePanel.results # <<>> => ps = <<usagePanel.scope>>
    /\ usagePanel.refresh => \A i \in DOMAIN usagePanel.results : usagePanel.results[i].by >= usagePanel.since

\* A snapshot is of the source the last listing named, or the configuration
\* has changed since, and the next listing drops it (cacheProviderUsage).  The
\* cache compares two listings, not a snapshot with its listing: one that was
\* taken between a change and its reversal stays.
SnapshotsOfSource ==
    ~accounts.back => \A p \in DOMAIN snapshots.kept :
        snapshots.kept[p].source = snapshots.listed[p] \/ snapshots.listed[p] # accounts.now[p]

UsageHonest == Awaited /\ ShownForScope /\ SnapshotsOfSource
=============================================================================
