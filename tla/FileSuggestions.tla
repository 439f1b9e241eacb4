--------------------------- MODULE FileSuggestions ---------------------------
(* The suggestions for a mention of a workspace file: the composer's          *)
(* completion (workspaceFileCompletion.ts, fileSuggestionClient.ts), the host *)
(* that searches (WorkspaceFileSearch.ts) and the fd processes it starts.     *)
EXTENDS Naturals, Sequences, FiniteSets, SequencesExt

CONSTANT MaxSearches  \* bounds the completions that are asked for
ASSUME SuggestionAssumption == MaxSearches \in Nat

VARIABLES
    query,    \* the completion of the composer: its search and what it shows
    asking,   \* the requests on their way to the host
    answers,  \* the results on their way to the composer
    search,   \* the search of each request
    finderFd  \* the version of the newest search, the process it may kill, and fd itself

suggestionVars == <<query, asking, answers, search, finderFd>>

SearchIds == 1..MaxSearches
NoSearch == 0
SuggestionShows == {"nothing", "waiting", "files", "no files", "error"}
SearchEnds == {"files", "no files", "error"}

\* The first command that marks directories, else the first that runs at all.
SelectFdExecutable(probes) ==
    IF "modern" \in Range(probes) THEN "modern" ELSE IF "legacy" \in Range(probes) THEN "legacy" ELSE "unknown"

Version(id) == search[id].version
Current(id) == Version(id) = finderFd.version
RunningSearches == {id \in SearchIds : search[id].fd = "running"}

-----------------------------------------------------------------------------
(* The composer.                                                               *)
\* A change of the text ends the completion that was under way: its request is
\* forgotten and what it yields is not shown.  A new one may be asked for.
Complete(ask) ==
    LET id == Cardinality({i \in SearchIds : search[i].pc # "new"}) + 1 IN
    /\ ask => id <= MaxSearches
    /\ query' = IF ask THEN [id |-> id, shows |-> "waiting"] ELSE [id |-> NoSearch, shows |-> "nothing"]
    /\ asking' = IF ask THEN Append(asking, id) ELSE asking
    /\ search' = IF ask THEN [search EXCEPT ![id].pc = "asked"] ELSE search
    /\ ask \/ query.id # NoSearch
    /\ UNCHANGED <<answers, finderFd>>

\* An answer to a request that is no longer pending is dropped.
FinishSearch(id, shows) ==
    query' = IF query = [id |-> id, shows |-> "waiting"] THEN [query EXCEPT !.shows = shows] ELSE query

ClientTimesOut ==
    /\ query.shows = "waiting"
    /\ FinishSearch(query.id, "error")
    /\ UNCHANGED <<asking, answers, search, finderFd>>

\* Nothing is delivered to a page that is gone.
Deliver ==
    /\ answers # <<>> /\ ~finderFd.disposed
    /\ answers' = Tail(answers)
    /\ FinishSearch(Head(answers).id, Head(answers).end)
    /\ UNCHANGED <<asking, search, finderFd>>

-----------------------------------------------------------------------------
(* The host.                                                                   *)
AnswerSearch(id, end) == answers' = Append(answers, [id |-> id, end |-> end])
KillActive_Leaves(s) == s
KillActive(s) ==
    IF finderFd.active = NoSearch THEN s
    ELSE [s EXCEPT ![finderFd.active].fd = IF @ = "running" THEN "killed" ELSE @]
Release(id) == IF finderFd.active = id THEN NoSearch ELSE finderFd.active

\* A new search supersedes the one before it and kills its process.
ReceiveSearch ==
    /\ asking # <<>>
    /\ asking' = Tail(asking)
    /\ LET id == Head(asking) IN
       \/ /\ search' = [KillActive(search) EXCEPT ![id].pc = "discovering", ![id].version = finderFd.version + 1]
          /\ finderFd' = [finderFd EXCEPT !.version = @ + 1, !.found = IF @ = "unknown" THEN "looking" ELSE @]
          /\ UNCHANGED answers
       \/ /\ AnswerSearch(id, "error")
          /\ search' = [search EXCEPT ![id].pc = "done", ![id].end = "error"]
          /\ UNCHANGED finderFd
    /\ ~finderFd.disposed
    /\ UNCHANGED query

\* All searches share one look for fd; one that fails is begun anew by the next.
Discovered(probes) ==
    LET found == SelectFdExecutable(probes)
        waiting == {id \in SearchIds : search[id].pc = "discovering"} IN
    /\ finderFd.found = "looking"
    /\ finderFd' = [finderFd EXCEPT !.found = found]
    /\ IF found # "unknown" THEN UNCHANGED <<search, answers>>
       ELSE /\ search' = [id \in SearchIds |-> IF id \in waiting THEN [search[id] EXCEPT !.pc = "done", !.end = "error"]
                                               ELSE search[id]]
            /\ answers' = answers \o [i \in 1..Cardinality(waiting) |->
                              [id |-> SetToSortSeq(waiting, <)[i], end |-> "error"]]
    /\ UNCHANGED <<query, asking>>

\* A superseded search yields nothing; the newest starts fd.
StartFd(id) ==
    /\ search[id].pc = "discovering" /\ finderFd.found \in {"modern", "legacy"}
    /\ IF Current(id)
       THEN /\ search' = [search EXCEPT ![id].pc = "searching", ![id].fd = "running"]
            /\ finderFd' = [finderFd EXCEPT !.active = id]
            /\ UNCHANGED answers
       ELSE /\ AnswerSearch(id, "no files")
            /\ search' = [search EXCEPT ![id].pc = "done", ![id].end = "superseded"]
            /\ UNCHANGED finderFd
    /\ UNCHANGED <<query, asking>>

\* fd does not start: an error, and its end still comes.
FdFails(id) ==
    /\ search[id].pc = "searching" /\ search[id].fd = "running"
    /\ search' = [search EXCEPT ![id].pc = "done", ![id].end = "error", ![id].fd = "closing"]
    /\ AnswerSearch(id, "error")
    /\ UNCHANGED <<query, asking, finderFd>>

\* A search that is still awaited gets what fd found, or nothing if it was
\* superseded; fd fails when it was killed.
FdCloses(id, end) ==
    /\ search[id].fd \in {"running", "killed", "closing"}
    /\ end # "error" => search[id].fd = "running"
    /\ finderFd' = [finderFd EXCEPT !.active = Release(id)]
    /\ IF search[id].pc = "searching"
       THEN /\ search' = [search EXCEPT ![id].fd = "gone", ![id].pc = "done",
                                        ![id].end = IF Current(id) THEN end ELSE "superseded"]
            /\ AnswerSearch(id, IF Current(id) THEN end ELSE "no files")
       ELSE /\ search' = [search EXCEPT ![id].fd = "gone"]
            /\ UNCHANGED answers
    /\ UNCHANGED <<query, asking>>

FdTimesOut(id) ==
    /\ search[id].pc = "searching"
    /\ finderFd' = [finderFd EXCEPT !.active = Release(id)]
    /\ search' = [search EXCEPT ![id].pc = "done", ![id].end = IF Current(id) THEN "error" ELSE "superseded",
                                ![id].fd = IF @ = "running" THEN "killed" ELSE @]
    /\ AnswerSearch(id, IF Current(id) THEN "error" ELSE "no files")
    /\ UNCHANGED <<query, asking>>

DisposeSearch ==
    /\ ~finderFd.disposed
    /\ finderFd' = [finderFd EXCEPT !.disposed = TRUE, !.version = @ + 1, !.active = NoSearch]
    /\ search' = KillActive(search)
    /\ UNCHANGED <<query, asking, answers>>

-----------------------------------------------------------------------------
SuggestionStarts ==
    /\ query = [id |-> NoSearch, shows |-> "nothing"]
    /\ asking = <<>> /\ answers = <<>>
    /\ search = [id \in SearchIds |-> [pc |-> "new", version |-> 0, end |-> "none", fd |-> "none"]]
    /\ finderFd = [version |-> 0, active |-> NoSearch, found |-> "unknown", disposed |-> FALSE]

SuggestionSteps ==
    \/ \E ask \in BOOLEAN : Complete(ask)
    \/ ClientTimesOut \/ Deliver \/ ReceiveSearch \/ DisposeSearch
    \/ \E probes \in {<<"absent", "legacy", "modern">>, <<"absent", "legacy">>, <<"absent">>} : Discovered(probes)
    \/ \E id \in SearchIds : StartFd(id) \/ FdFails(id) \/ FdTimesOut(id)
    \/ \E id \in SearchIds, end \in SearchEnds : FdCloses(id, end)

SuggestionTypes ==
    /\ query \in [id : SearchIds \cup {NoSearch}, shows : SuggestionShows]
    /\ search \in [SearchIds -> [pc : {"new", "asked", "discovering", "searching", "done"}, version : 0..MaxSearches,
                                 end : SearchEnds \cup {"none", "superseded"}, fd : {"none", "running", "killed", "closing", "gone"}]]
    /\ finderFd.active \in SearchIds \cup {NoSearch}
    /\ finderFd.found \in {"unknown", "looking", "modern", "legacy"}

\* One fd runs at most that nobody has killed: the newest search's, which the next
\* one, the timeout and the end of the page can reach (WorkspaceFileSearch.ts:55).
OneFd ==
    \A id \in RunningSearches : Current(id) /\ finderFd.active = id /\ ~finderFd.disposed /\ RunningSearches = {id}

\* "No workspace files found" and a failure are said of the search the composer
\* waits for, never of one that a newer search cut short (workspaceFileCompletion.ts:73).
EmptyMeansNone ==
    query.shows = "no files" => search[query.id].end = "no files"

FilesAreItsOwn == query.shows = "files" => search[query.id].end = "files"

\* Suggestions are those of the newest search, and no search outlives it.
SuggestionsHonest == OneFd /\ EmptyMeansNone /\ FilesAreItsOwn
=============================================================================
