---------------------------- MODULE UsageAnswers ----------------------------
(* The answers the usage reports are checked on, and what a report promises.  *)
EXTENDS UsageSpend

Row(limit, used, remaining) == [present |-> TRUE, limit |-> limit, used |-> used, remaining |-> remaining]
NoRow == [present |-> FALSE, limit |-> Missing, used |-> Missing, remaining |-> Missing]
UnreadableAnswer == Row(4, Malformed, Missing)
NoRatios == [five |-> Missing, week |-> Missing, month |-> Missing]
NoWallet == [amount |-> Missing, left |-> Missing, limitCurrency |-> "none", usedCurrency |-> "none", limited |-> "unsaid"]
Kimi(usage, limits, usages, wallet) ==
    [usage |-> usage, limits |-> limits, usages |-> usages, unreadable |-> FALSE, wallet |-> wallet]

KimiRowAnswers ==
    {Kimi(Row(limit, used, remaining), <<>>, NoRatios, NoWallet) :
        limit \in {0, 4, Malformed}, used \in {Missing, Malformed, 1, 5}, remaining \in {Missing, Malformed, 3, 5}}
LimitRows == [window : {FiveHours, Week, Missing}, row : {Row(4, 1, Missing), UnreadableAnswer}]
KimiWindowAnswers ==
    {Kimi(usage, limits, [five |-> five, week |-> week, month |-> month], NoWallet) :
        usage \in {NoRow, Row(4, Missing, 3), UnreadableAnswer}, limits \in BoundedSeq(LimitRows, 2),
        five \in {Missing, 40, Malformed}, week \in {Missing, 40}, month \in {Missing, 40, 130}}
KimiWalletAnswers ==
    {[Kimi(NoRow, <<>>, NoRatios, wallet) EXCEPT !.unreadable = unreadable] : unreadable \in BOOLEAN,
        wallet \in [amount : {Missing, 0, 4, 25}, left : {Missing, 3, 15}, limitCurrency : {"none", "USD", "CNY"},
                    usedCurrency : {"none", "USD"}, limited : {"unsaid", "yes", "no"}]}

Window(status, total, count, percent) ==
    [status |-> status, total |-> total, count |-> count, percent |-> percent, boost |-> Missing, times |-> "ordered"]
PlainWindow == Window(Missing, 4, 1, Missing)
Name(word, end) == [word |-> word, end |-> end]
MiniMaxWindowAnswers ==
    {[rows |-> <<[name |-> Name("a", 0), interval |-> PlainWindow,
                  weekly |-> [Window(status, total, count, percent) EXCEPT !.boost = boost, !.times = times]]>>] :
        status \in {Missing, 1, 3, 4}, total \in {0, 3, 4, Malformed}, count \in {0, 1, 2, 5},
        percent \in {Missing, 0, 33, 50, 67, 75, 100, 101}, boost \in {Missing, 20000}, times \in {"ordered", "reversed"}}
MiniMaxNameAnswers ==
    {[rows |-> [i \in DOMAIN names |-> [name |-> names[i], interval |-> PlainWindow, weekly |-> PlainWindow]]] :
        names \in BoundedSeq({Name("a", 0), Name("a", 3), Name("b", 0)}, 4)}

Envelope(error, nested, success, code) == [error |-> error, nested |-> nested, success |-> success, code |-> code]
Plain == Envelope(FALSE, Missing, TRUE, 200)
Codes == {Missing, Malformed, 0, 1113}
Envelopes == {Envelope(TRUE, nested, success, code) : nested \in Codes, success \in BOOLEAN, code \in Codes}
             \cup {Envelope(FALSE, Missing, success, code) : success \in BOOLEAN, code \in Codes}
Product(name, status, current) == [name |-> name, status |-> status, current |-> current]
States == {"none", "VALID", "EXPIRED"} \X {"none", "yes", "no"}
Subscriptions ==
    {[envelope |-> Plain, products |-> [i \in DOMAIN states |-> Product(<<"first", "second">>[i], states[i][1], states[i][2])]] :
        states \in BoundedSeq(States, 2)}
Limit(kind, current, quota, percent, details) ==
    [kind |-> kind, current |-> current, quota |-> quota, percent |-> percent, details |-> details]
Limits == {Limit(kind, current, quota, percent, details) :
               kind \in {"time", "session", "weekly", "other"}, current \in {Missing, 5}, quota \in {Missing, 4},
               percent \in {Missing, 120}, details \in {<<>>, <<"search", "search">>}}
ZaiAnswers ==
    {[envelope |-> Plain, limits |-> limits, level |-> "pro", subscription |-> [envelope |-> Plain, products |-> <<>>]] :
        limits \in BoundedSeq(Limits, 2)}
    \cup {[envelope |-> envelope, limits |-> <<Limit("session", Missing, Missing, 120, <<>>)>>, level |-> "pro",
           subscription |-> subscription] :
              envelope \in {Plain, Envelope(FALSE, Missing, TRUE, 1113)}, subscription \in Subscriptions}
    \cup {[envelope |-> quota, limits |-> <<Limit("session", Missing, Missing, 120, <<>>)>>, level |-> "pro",
           subscription |-> [envelope |-> plan, products |-> <<Product("first", "none", "none")>>]] :
              quota \in Envelopes, plan \in Envelopes}

Windows == [primary : {Missing, Malformed, Unmeasured, 120}, secondary : {Missing, Malformed, 40}]
Feature(name, w) == [feature |-> name, primary |-> w.primary, secondary |-> w.secondary]
CodexAnswers ==
    {[main |-> main, additional |-> additional, credits |-> credits, resets |-> resets] : main \in Windows,
        additional \in BoundedSeq({Feature("spark", w) : w \in Windows}, 2),
        credits \in {"unknown", "none"}, resets \in {Missing, Malformed, -1}}

CopilotAnswers ==
    [kind : {"premium", "chat"}, unlimited : BOOLEAN, entitlement : {Missing, -1, 4}, remaining : {Missing, -2, 3, 5},
     overage : {Missing, 1, 3}, used : {Missing, 2, -1}]
XaiAnswers ==
    [config : {"record", "null", "malformed"}, percent : {Missing, Malformed, 40, 120}, limit : {Missing, 4},
     used : {Missing, Malformed, 6}, period : BOOLEAN, cap : {Missing, 4}, spent : {Missing, 5}, prepaid : {Missing, -1},
     tier : BOOLEAN]
OpenRouterAnswers == [limit : {Missing, -1, 4}, remaining : {Missing, Malformed, 1, 6}, usage : {Missing, 3}]
ZenAnswers ==
    {[windows |-> windows] : windows \in
        {<<[key |-> "rolling", status |-> s1, percent |-> p1], [key |-> "weekly", status |-> s2, percent |-> p2]>> :
            s1 \in {"ok", "other", "absent"}, s2 \in {"ok", "other"}, p1 \in {Missing, 120, -1}, p2 \in {Missing, 30}}}
Money == [currency : {"EUR", "USD"}, units : {Missing, 1, -1}, nanos : {Missing, 5, 10, -5}, series : {"serverless", "other"}]
FireworksAnswers == BoundedSeq({item \in Money : item.units # Missing \/ item.nanos # Missing}, 2)
Amounts == [available : {Missing, 1, -1}, cash : {1, -1, Malformed}, voucher : {1, -1}, credit : {1}, owed : {0, -1}, gross : {1},
            credits : {1, -1}, net : {0, Missing}, spend : {1, -1}, total : {1}, granted : {1}]
BalanceAnswers == [absent : BOOLEAN, success : BOOLEAN, amounts : Amounts]
DeepSeekAnswers ==
    [available : {"yes", "other"},
     rows : BoundedSeq([currency : {"CNY", "USD", "EUR"}, total : {1, -1, Malformed}, granted : {2, Missing}], 2)]

From(provider, payloads) == \E payload \in payloads : answer = [provider |-> provider, payload |-> payload]
ReportStarts ==
    \/ From("kimi-coding", KimiRowAnswers) \/ From("kimi-coding", KimiWindowAnswers) \/ From("kimi-coding", KimiWalletAnswers)
    \/ From("minimax", MiniMaxWindowAnswers) \/ From("minimax", MiniMaxNameAnswers)
    \/ From("zai", ZaiAnswers) \/ From("openai-codex", CodexAnswers) \/ From("github-copilot", CopilotAnswers)
    \/ From("xai", XaiAnswers) \/ From("openrouter", OpenRouterAnswers) \/ From("opencode-go", ZenAnswers)
    \/ From("fireworks", FireworksAnswers) \/ From("deepseek", DeepSeekAnswers)
    \/ \E provider \in {"minimax-cn", "moonshotai", "baseten", "vercel-ai-gateway"} : From(provider, BalanceAnswers)

report == Normalize(answer)

\* Every number of a report is a number or left out, and its bar lies on its scale.
ReportTypes ==
    report.ok =>
        /\ \A b \in Range(report.buckets) : BucketProgress(b) \in 0..100 \cup {Missing}
        /\ \A m \in Range(report.metrics) : m.value # Malformed

\* An exception of AddsUp: both counters were the provider's own and do not agree.
OwnCounters ==
    \/ answer.provider = "kimi-coding"
       /\ \E item \in Range(KimiRows(answer.payload)) : Missing \notin {item.row.used, item.row.remaining}
    \/ answer.provider = "github-copilot" /\ NonNegative(answer.payload.used) # Missing

\* What was used and what is left make up the limit, or one of them is nought
\* because the other goes beyond it: a bar and the text beside it agree
\* (kimi-coding.ts:103, minimax.ts:197, zai.ts:150, codex.ts:77, github-copilot.ts:26,
\* xai.ts:27, openrouter.ts:14, opencode-zen.ts:34).
AddsUp ==
    report.ok => \A b \in Range(report.buckets) :
        LET whole == IF b.unit = "percent" THEN 100 ELSE b.limit IN
        Missing \in {b.used, b.remaining, whole} \/ b.used + b.remaining = whole
        \/ (b.remaining = 0 /\ b.used >= whole) \/ (b.used = 0 /\ b.remaining >= whole) \/ OwnCounters

\* A Kimi answer is accounted for: each window it speaks of is shown, once, from
\* its own row if it has one, or a note says that some were left out.
KimiAccounted ==
    answer.provider = "kimi-coding" /\ report.ok =>
        LET shown == {b.id : b \in Range(report.buckets)}
            ratios == {r \in Range(Ratios) : answer.payload.usages[r.key] # Missing} IN
        /\ report.notes = <<>> => shown = Explicit(answer.payload) \cup {r.window : r \in ratios}
        /\ \A b \in Range(report.buckets) : b.unit = "percent" => b.id \notin Explicit(answer.payload)

\* A MiniMax window says what is left within a percent of what the provider says
\* is left, whichever way round its count was.
PercentKept ==
    answer.provider = "minimax" /\ report.ok =>
        \A i \in DOMAIN answer.payload.rows : \A b \in Range(report.buckets) :
            LET w == answer.payload.rows[i].weekly IN
            b.id = "weekly" /\ Len(answer.payload.rows) = 1 /\ w.status # 3 /\ w.percent # Missing =>
                Distance(b.remaining, b.used + b.remaining, w.percent) <= PercentTolerance * (b.used + b.remaining)

\* An answer of Z.AI that carries an error is not shown as usage; a plan that is
\* explicitly over is not shown as the plan.
ZaiCurrent ==
    answer.provider = "zai" /\ report.ok =>
        /\ answer.payload.envelope.code \in {Missing, 0, 200} /\ ~answer.payload.envelope.error
        /\ \A p \in Range(answer.payload.subscription.products) :
               p.name = report.notes[1] => p.status # "EXPIRED" /\ p.current # "no"

\* A total of Fireworks is the sum of every item of its currency; the main limits
\* of Codex are shown whatever its optional groups hold.
NothingLeftOut ==
    report.ok =>
        /\ answer.provider = "fireworks" => \A c \in {"EUR", "USD"} : \A m \in Range(report.metrics) :
               m.id = <<c, "total">> => m.value = SpendIn(answer.payload, c, Range(SeriesKeys))
        /\ answer.provider = "openai-codex" => \A p \in {"primary", "secondary"} :
               answer.payload.main[p] \notin {Missing, Unmeasured} =>
                   \E b \in Range(report.buckets) : b.group = "codex" /\ b.id = p /\ b.used = answer.payload.main[p]

\* Exceptions of KeysDistinct: an answer that repeats itself, and a MiniMax name
\* that ends in the number another name was given.
RepeatsItself ==
    CASE answer.provider = "zai" ->
           \/ \E i, j \in DOMAIN answer.payload.limits : i < j /\ answer.payload.limits[i].kind = answer.payload.limits[j].kind
           \/ \E row \in Range(answer.payload.limits) : Len(row.details) > 1
      [] answer.provider = "openai-codex" -> Len(answer.payload.additional) > 1
      [] answer.provider = "minimax" -> \E row \in Range(answer.payload.rows) : row.name.end # 0
      [] OTHER -> FALSE

\* No two rows and no two metrics of a report have the same key, which the list
\* that shows them would refuse (ProviderUsageReport.svelte:56).
KeysDistinct == report.ok /\ ~RepeatsItself =>
    /\ ~RepeatedKey([i \in DOMAIN report.buckets |-> BucketKey(report.buckets[i])])
    /\ ~RepeatedKey([i \in DOMAIN report.metrics |-> MetricKey(report.metrics[i])])

\* A report that was made shows something, or says that there is nothing.
NeverBlank == report.ok => report.buckets # <<>> \/ report.metrics # <<>> \/ report.notes # <<>>

\* A usage report says what the answer says.
ReportsHonest ==
    AddsUp /\ KimiAccounted /\ PercentKept /\ ZaiCurrent /\ NothingLeftOut /\ KeysDistinct /\ NeverBlank
=============================================================================
