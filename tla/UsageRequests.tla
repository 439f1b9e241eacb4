---------------------------- MODULE UsageRequests ----------------------------
(* The requests behind a usage report (packages/provider-usage/src/query.ts,  *)
(* http.ts and the account listing of providers/fireworks.ts): a function of  *)
(* what the network answers.  The initial states enumerate the answers to one *)
(* query, there is no step.                                                   *)
EXTENDS Naturals, Sequences, SequencesExt

VARIABLE exchange

\* Proxies of the environment, in the order of the variables.  An all-protocol
\* proxy alone is refused, and so is a proxy that is no HTTP URL.
DispatcherRefuses(proxies) ==
    \/ proxies.all # "unset" /\ proxies.http = "unset" /\ proxies.https = "unset"
    \/ "invalid" \in {proxies.http, proxies.https}
ProxyUsed(proxies) == IF proxies.https = "unset" THEN proxies.http ELSE proxies.https

\* More than 64 KiB of a success or 4 KiB of a failure is not read.
ReadBounded(response) ==
    response.size = "small" \/ (response.size = "medium" /\ response.status = 200)

\* Z.AI reports errors in the body of a success: a body that is no JSON counts
\* as one when the status says success.
ProviderError(response) ==
    \/ response.body = "error"
    \/ response.body = "text" /\ response.status = 200
    \/ response.status # 200

TransportJson(response, checksBody) ==
    CASE ~response.arrived -> "connectivity"
      [] response.arrived /\ response.redirected -> "redirect"
      [] response.arrived /\ ~response.redirected ->
           IF ~ReadBounded(response) THEN "size"
           ELSE IF checksBody /\ ProviderError(response) THEN "provider error"
           ELSE IF response.status # 200 THEN "status"
           ELSE IF response.body = "text" THEN "not JSON"
           ELSE IF response.body = "array" THEN "not an object"
           ELSE "accepted"
Accepted(response) == TransportJson(response, FALSE) = "accepted"

Outcome(status, requested) == [status |-> status, asked |-> requested]

\* One request, and the report is made of its answer.
SingleRequest(e) == Outcome(IF Accepted(e.responses[1]) THEN "ready" ELSE "query-failed", 1)

\* The bill is asked for the user the first answer names.
XaiRequests(e) ==
    IF ~Accepted(e.responses[1]) \/ ~e.userValid THEN Outcome("query-failed", 1)
    ELSE Outcome(IF Accepted(e.responses[2]) THEN "ready" ELSE "query-failed", 2)

\* The plan is optional: the answer to the second request may be of any kind.
ZaiRequests(e) ==
    IF TransportJson(e.responses[1], TRUE) # "accepted" THEN Outcome("query-failed", 1)
    ELSE Outcome("ready", 2)

Good == [arrived |-> TRUE, redirected |-> FALSE, status |-> 200, size |-> "small", body |-> "object"]
Page(response, listing, token) == [response |-> response, accounts |-> listing, token |-> token]

MaxPages == 5

\* A page that repeats an account fails the listing, and so does a token that is
\* not one; accounts is what was listed before.
NextPage(listing, sheet) ==
    IF listing.status # "more" THEN listing
    ELSE LET repeated == \/ Range(listing.accounts) \cap Range(sheet.accounts) # {}
                         \/ ~IsInjective(sheet.accounts) IN
         [accounts |-> listing.accounts \o sheet.accounts,
          asked |-> listing.asked + 1,
          status |-> IF ~Accepted(sheet.response) \/ repeated THEN "failed" ELSE sheet.token]

ListAccounts_FirstPage(pages) ==
    [NextPage([accounts |-> <<>>, asked |-> 0, status |-> "more"],
              IF pages = <<>> THEN Page(Good, <<>>, "done") ELSE pages[1]) EXCEPT !.status = "done"]

\* A listing that still has more after the last page it may ask for fails.
ListAccounts(pages) ==
    FoldLeft(NextPage, [accounts |-> <<>>, asked |-> 0, status |-> "more"],
             SubSeq(pages, 1, IF Len(pages) < MaxPages THEN Len(pages) ELSE MaxPages))

FireworksRequests(e) ==
    LET listing == ListAccounts(e.pages) IN
    CASE listing.status # "done" \/ listing.accounts = <<>> -> Outcome("query-failed", listing.asked)
      [] listing.status = "done" /\ Len(listing.accounts) > 1 -> Outcome("selection-required", listing.asked)
      [] OTHER -> Outcome(IF Accepted(e.responses[1]) THEN "ready" ELSE "query-failed", listing.asked + 1)

RequestUsage(e) ==
    CASE e.provider = "xai" -> XaiRequests(e)
      [] e.provider = "zai" -> ZaiRequests(e)
      [] e.provider = "fireworks" -> FireworksRequests(e)
      [] OTHER -> SingleRequest(e)

\* e.cut is what ended the query before its last answer, if anything did; the
\* own report of OpenAI needs no request and no transport.
QueryResolvedCredential(e) ==
    LET done == RequestUsage(e) IN
    CASE e.cut = "caller" -> Outcome("aborted", 0)
      [] e.cut # "caller" /\ e.provider = "openai" -> Outcome("ready", 0)
      [] e.cut # "caller" /\ e.provider # "openai" /\ DispatcherRefuses(e.proxies) -> Outcome("query-failed", 0)
      [] OTHER -> IF e.cut = "timeout" THEN Outcome("query-failed", done.asked) ELSE done

-----------------------------------------------------------------------------
Responses == [arrived : BOOLEAN, redirected : BOOLEAN, status : {200, 401}, size : {"small", "medium", "large"},
              body : {"object", "array", "text", "error"}]
NoProxy == [all |-> "unset", http |-> "unset", https |-> "unset"]
Proxies == [all : {"unset", "valid"}, http : {"unset", "valid", "invalid"}, https : {"unset", "valid", "invalid"}]

Pages == {Page(Good, listing, token) : listing \in {<<>>, <<1>>, <<2>>, <<1, 2>>, <<1, 1>>}, token \in {"more", "done", "failed"}}
         \cup {Page([Good EXCEPT !.redirected = TRUE], <<1>>, "done")}
LongListings == {[i \in 1..n |-> Page(Good, IF i = n THEN <<1>> ELSE <<>>, IF i = n THEN "done" ELSE "more")] : n \in 4..6}

Exchange(provider, responses, pages) ==
    [provider |-> provider, responses |-> responses, pages |-> pages, proxies |-> NoProxy, userValid |-> TRUE, cut |-> "no"]

RequestStarts ==
    \/ \E provider \in {"deepseek", "zai", "xai"}, first, second \in Responses :
           exchange = Exchange(provider, <<first, second>>, <<>>)
    \/ \E pages \in BoundedSeq(Pages, 3) \cup LongListings, bill \in {Good, [Good EXCEPT !.size = "large"]} :
           exchange = Exchange("fireworks", <<bill>>, pages)
    \/ \E provider \in {"deepseek", "openai", "xai"}, proxies \in Proxies, cut \in {"no", "timeout", "caller"}, valid \in BOOLEAN :
           exchange = [Exchange(provider, <<Good, Good>>, <<>>) EXCEPT !.proxies = proxies, !.cut = cut, !.userValid = valid]

queryResult == QueryResolvedCredential(exchange)

\* A query ends ready, failed, refused for its accounts or aborted, after at most
\* one request more than there are pages, or two.
RequestTypes ==
    /\ queryResult.status \in {"ready", "query-failed", "selection-required", "aborted"}
    /\ queryResult.asked \in 0..(MaxPages + 1)

\* A report is made of answers that came whole, undirected and with success: the
\* quota of Z.AI even if its plan did not (query.ts:151), the bill of the only
\* account that a complete listing of Fireworks named (query.ts:138).
ReadyMeansAnswered ==
    queryResult.status = "ready" /\ exchange.provider # "openai" =>
        /\ exchange.cut = "no"
        /\ \A i \in 1..(IF exchange.provider = "xai" THEN 2 ELSE 1) :
               LET r == exchange.responses[i] IN
               r.arrived /\ ~r.redirected /\ r.status = 200 /\ r.size # "large" /\ r.body \notin {"text", "array"}
        /\ exchange.provider = "zai" => exchange.responses[1].body = "object"
        /\ exchange.provider = "fireworks" =>
               \E n \in DOMAIN exchange.pages :
                   /\ n <= MaxPages
                   /\ \A i \in 1..n : exchange.pages[i].token = (IF i = n THEN "done" ELSE "more")
                   /\ Len(FlattenSeq([i \in 1..n |-> exchange.pages[i].accounts])) = 1

\* Optional plan data never hides a quota (query.ts:151).
PlanIsOptional ==
    exchange.provider = "zai" /\ exchange.cut = "no" /\ exchange.proxies = NoProxy
    /\ TransportJson(exchange.responses[1], TRUE) = "accepted" => queryResult.status = "ready"

\* Where a proxy is configured, nothing is asked around it (http.ts:40).
NeverAroundProxy ==
    queryResult.asked > 0 => \/ ProxyUsed(exchange.proxies) = "valid"
                             \/ exchange.proxies = NoProxy

\* What a usage query reports is what was answered to it.
RequestsHonest == ReadyMeansAnswered /\ PlanIsOptional /\ NeverAroundProxy
=============================================================================
