----------------------------- MODULE UsageSpend -----------------------------
(* The rest of the usage reports: allowances with overage, spend and balances *)
(* (packages/provider-usage/src/providers), and what the report shows of them *)
(* (ProviderUsageReport.svelte).  The initial states enumerate the answers of *)
(* each provider; there is no step.                                           *)
EXTENDS UsageReports

VARIABLE answer

-----------------------------------------------------------------------------
(* GitHub Copilot.                                                             *)
NormalizeCopilot(payload) ==
    LET premium == payload.kind = "premium"
        entitlement == NonNegative(payload.entitlement)
        remaining == IF premium THEN Finite(payload.remaining) ELSE NonNegative(payload.remaining)
        credits == IF premium THEN NonNegative(payload.used) ELSE Missing
        counted == OrElse(NonNegative(payload.overage), 0)
        beyond == IF -remaining > counted THEN -remaining ELSE counted IN
    IF premium /\ payload.unlimited
    THEN Report(<<Bucket("", "premium", "count", Missing, Missing, Missing)>>, <<>>, <<>>)
    ELSE IF Missing \in {entitlement, remaining} THEN Failed
    ELSE Report(<<Bucket("", payload.kind, "count", OrElse(credits, AtLeastZero(entitlement - remaining)),
                         AtLeastZero(remaining), entitlement)>>,
                OneIf(premium /\ beyond > 0, Metric("overage-used", beyond)), <<>>)

-----------------------------------------------------------------------------
(* xAI: a wrong field fails the report, amounts may be negative.              *)
Allowance(payload) ==
    CASE payload.percent # Missing ->
           <<Bucket("", "included-allowance", "percent", payload.percent, 100 - payload.percent, Missing)>>
      [] payload.percent = Missing /\ {payload.limit, payload.used} # {Missing} ->
           <<Bucket("", "included-allowance", "usd", payload.used,
                    Difference(payload.limit, payload.used), payload.limit)>>
      [] OTHER -> OneIf(payload.period, Bucket("", "included-allowance", "percent", Missing, Missing, Missing))

NormalizeXai(payload) ==
    LET listed == payload.config = "record"
        buckets == Allowance(payload)
                   \o OneIf({payload.cap, payload.spent} # {Missing},
                            Bucket("", "on-demand", "usd", payload.spent,
                                   Difference(payload.cap, payload.spent), payload.cap))
        prepaid == OneIf(payload.prepaid # Missing, Metric("prepaid-balance", payload.prepaid))
        tier == OneIf(payload.tier, Metric("subscription-tier", 1))
        amounts == {payload.cap, payload.spent, payload.prepaid}
                   \cup (IF payload.percent = Missing THEN {payload.limit, payload.used} ELSE {}) IN
    CASE payload.config = "malformed" -> Failed
      [] listed /\ (Malformed \in amounts \/ payload.percent \notin 0..100 \cup {Missing}) -> Failed
      [] listed /\ Malformed \notin amounts /\ payload.percent \in 0..100 \cup {Missing} ->
           Report(buckets, prepaid \o tier, OneIf(buckets = <<>> /\ prepaid \o tier = <<>>, "nothing"))
      [] OTHER -> Report(<<>>, tier, <<"no configuration">>)

-----------------------------------------------------------------------------
(* OpenRouter and OpenCode Zen.                                                *)
NormalizeOpenRouter(payload) ==
    LET limit == NonNegative(payload.limit)
        remaining == NonNegative(payload.remaining)
        used == Difference(limit, remaining)
        usage == NonNegative(payload.usage) IN
    ReportOrFail(OneIf(limit # Missing, Bucket("", "key-limit", "usd", IF used = Missing THEN Missing ELSE AtLeastZero(used),
                                               remaining, limit)),
                 OneIf(usage # Missing, Metric("usage-total", usage)),
                 OneIf(limit = Missing, "no cap"))

ZenShown(w) == w.status = "ok" /\ NonNegative(w.percent) # Missing
NormalizeZen(payload) ==
    LET shown == SelectSeq(payload.windows, ZenShown)
        unavailable == SelectSeq(payload.windows, LAMBDA w : w.status = "other") IN
    ReportOrFail([i \in DOMAIN shown |->
                    Bucket("", shown[i].key, "percent", shown[i].percent, 100 - ClampPercent(shown[i].percent), 100)],
                 <<>>, [i \in DOMAIN unavailable |-> unavailable[i].key])

-----------------------------------------------------------------------------
(* Fireworks: what was rated in a month, summed per currency and series.  An  *)
(* amount is units and NanosPerUnit parts of one.                             *)
NanosPerUnit == 10
MoneyReadable(item) ==
    LET units == OrElse(item.units, 0)  nanos == OrElse(item.nanos, 0) IN
    /\ Malformed \notin {item.units, item.nanos}
    /\ -NanosPerUnit < nanos /\ nanos < NanosPerUnit
    /\ ~(units > 0 /\ nanos < 0) /\ ~(units < 0 /\ nanos > 0)
MoneyAmount(item) == OrElse(item.units, 0) * NanosPerUnit + OrElse(item.nanos, 0)
SeriesKeys == <<"serverless", "other">>

\* An empty set of items gives no metric, a sum of nothing is not shown.
SpendIn(items, currency, series) ==
    FoldLeft(LAMBDA sum, item : sum + MoneyAmount(item), 0,
             SelectSeq(items, LAMBDA item : item.currency = currency /\ item.series \in series))

NormalizeFireworks(items) ==
    LET currencies == FoldLeft(LAMBDA seen, item : IF item.currency \in Range(seen) THEN seen
                                                   ELSE Append(seen, item.currency), <<>>, items)
        listed(currency) == SelectSeq(SeriesKeys, LAMBDA s : \E item \in Range(items) :
                                                        item.currency = currency /\ item.series = s)
        series(currency) == [i \in DOMAIN listed(currency) |->
             Metric(<<currency, listed(currency)[i]>>, SpendIn(items, currency, {listed(currency)[i]}))]
        total(currency) == FoldLeft(LAMBDA sum, m : sum + m.value, 0, series(currency)) IN
    IF \E item \in Range(items) : ~MoneyReadable(item) THEN Failed
    ELSE Report(<<>>, FlattenSeq([i \in DOMAIN currencies |->
                        <<Metric(<<currencies[i], "total">>, total(currencies[i]))>> \o series(currencies[i])]),
                <<"rated">> \o OneIf(items = <<>>, "no items"))

-----------------------------------------------------------------------------
(* Balances: every field the answer must have, or nothing.                    *)
AmountValid(field, raw, signed) == raw \notin {Missing, Malformed} /\ (raw < 0 => field \in signed)

RequiredAmounts(fields, signed, amounts) ==
    IF \E f \in Range(fields) : ~AmountValid(f, amounts[f], signed) THEN Failed
    ELSE Report(<<>>, [i \in DOMAIN fields |-> Metric(fields[i], amounts[fields[i]])], <<>>)

\* Only what is held in cash may be owed.
NormalizeMiniMaxBalance(payload) ==
    IF ~payload.success THEN Failed
    ELSE RequiredAmounts(<<"available", "cash", "voucher", "credit", "owed">>, {"cash"}, payload.amounts)
NormalizeMoonshotBalance(payload) ==
    IF ~payload.success THEN Failed
    ELSE RequiredAmounts(<<"available", "voucher", "cash">>, {"cash"}, payload.amounts)
NormalizeBaseten(payload) ==
    IF payload.absent THEN Report(<<>>, <<>>, <<"no usage">>)
    ELSE RequiredAmounts(<<"gross", "credits", "net">>, {}, payload.amounts)
NormalizeVercelCredits(payload) == RequiredAmounts(<<"credit", "spend">>, {}, payload.amounts)

\* One row for each currency, shown in the order of the currencies; any amount
\* may be negative.
Currencies == <<"CNY", "USD">>
DeepSeekFields == <<"granted", "total">>
NormalizeDeepSeek(payload) ==
    LET rows == payload.rows
        row(currency) == SelectSeq(rows, LAMBDA r : r.currency = currency)[1]
        present == SelectSeq(Currencies, LAMBDA c : \E r \in Range(rows) : r.currency = c)
        metrics(currency) == [i \in DOMAIN DeepSeekFields |->
                                Metric(<<currency, DeepSeekFields[i]>>, row(currency)[DeepSeekFields[i]])] IN
    IF \/ rows = <<>> \/ payload.available = "other"
       \/ \E r \in Range(rows) : \/ r.currency \notin Range(Currencies)
                                \/ \E f \in Range(DeepSeekFields) : ~AmountValid(f, r[f], Range(DeepSeekFields))
       \/ Cardinality({r.currency : r \in Range(rows)}) < Len(rows)
    THEN Failed
    ELSE Report(<<>>, <<Metric(<<"any", "availability">>, 1)>>
                      \o FlattenSeq([i \in DOMAIN present |-> metrics(present[i])]), <<>>)

-----------------------------------------------------------------------------
(* What the report shows.  Rows and metrics are keyed lists.                  *)
BucketProgress(b) ==
    LET scale == IF b.unit = "percent" THEN 100 ELSE b.limit IN
    IF b.used = Missing \/ scale \in {Missing, 0} THEN Missing ELSE ClampPercent((b.used * 100) \div scale)

BucketKey(b) == <<b.group, b.id>>
MetricKey(m) == m.id
RepeatedKey(keys) == \E i, j \in DOMAIN keys : i < j /\ keys[i] = keys[j]

\* The kind of a MiniMax key decides what is asked; minimax-cn stands for a key
\* that pays as it goes.
Normalize(a) ==
    CASE a.provider = "kimi-coding" -> NormalizeKimi(a.payload)
      [] a.provider = "minimax" -> NormalizeTokenPlan(a.payload)
      [] a.provider = "zai" -> NormalizeZaiQuota(a.payload)
      [] a.provider = "openai-codex" -> NormalizeCodex(a.payload)
      [] a.provider = "github-copilot" -> NormalizeCopilot(a.payload)
      [] a.provider = "xai" -> NormalizeXai(a.payload)
      [] a.provider = "openrouter" -> NormalizeOpenRouter(a.payload)
      [] a.provider = "opencode-go" -> NormalizeZen(a.payload)
      [] a.provider = "fireworks" -> NormalizeFireworks(a.payload)
      [] a.provider = "deepseek" -> NormalizeDeepSeek(a.payload)
      [] a.provider = "minimax-cn" -> NormalizeMiniMaxBalance(a.payload)
      [] a.provider = "moonshotai" -> NormalizeMoonshotBalance(a.payload)
      [] a.provider = "baseten" -> NormalizeBaseten(a.payload)
      [] a.provider = "vercel-ai-gateway" -> NormalizeVercelCredits(a.payload)
=============================================================================
