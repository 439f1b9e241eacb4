---------------------------- MODULE UsageReports ----------------------------
(* How a provider's answer becomes the usage report that is shown              *)
(* (packages/provider-usage/src/providers, ProviderUsageReport.svelte): pure  *)
(* functions.  A raw value of an answer is an integer: a number, or one of    *)
(* the two that stand for undefined and for a value of another type.          *)
EXTENDS Integers, SequencesExt

Missing == 999
Malformed == 998

Finite(raw) == IF raw = Malformed THEN Missing ELSE raw
NonNegative(raw) == IF raw = Malformed \/ raw < 0 THEN Missing ELSE raw
AtLeastZero(n) == IF n < 0 THEN 0 ELSE n
ClampPercent(n) == IF n > 100 THEN 100 ELSE AtLeastZero(n)
OrElse(n, other) == IF n = Missing THEN other ELSE n
Difference(n, m) == IF Missing \in {n, m} THEN Missing ELSE n - m

\* A bucket is a bar with its numbers, a metric one number with a label.
Bucket(group, id, unit, used, remaining, limit) ==
    [group |-> group, id |-> id, unit |-> unit, used |-> used, remaining |-> remaining, limit |-> limit]
Metric(id, value) == [id |-> id, value |-> value]
Failed == [ok |-> FALSE]
Report(buckets, metrics, notes) == [ok |-> TRUE, buckets |-> buckets, metrics |-> metrics, notes |-> notes]
ReportOrFail(buckets, metrics, notes) ==
    IF buckets = <<>> /\ metrics = <<>> THEN Failed ELSE Report(buckets, metrics, notes)
OneIf(condition, item) == IF condition THEN <<item>> ELSE <<>>

-----------------------------------------------------------------------------
(* Kimi For Coding.                                                            *)
FiveHours == 300
Week == 10080
NoWindow == 100000
Ratios == <<[key |-> "five", window |-> FiveHours], [key |-> "week", window |-> Week],
            [key |-> "month", window |-> NoWindow]>>

RowReadable(row) == row.limit \notin {Missing, Malformed, 0} /\ Malformed \notin {row.used, row.remaining}

ParseUsageRow(row, window) ==
    LET used == OrElse(row.used, IF row.remaining = Missing THEN 0 ELSE AtLeastZero(row.limit - row.remaining)) IN
    Bucket("", window, "count", used, OrElse(row.remaining, AtLeastZero(row.limit - used)), row.limit)

\* The summary is the row of the week; a list of limits that is no array is
\* one row without a window.
KimiRows(payload) == OneIf(payload.usage.present, [window |-> Week, row |-> payload.usage]) \o payload.limits
Explicit(payload) == {item.window : item \in Range(KimiRows(payload))} \ {Missing}

KimiCounted(payload) ==
    LET read == SelectSeq(KimiRows(payload), LAMBDA item : item.window # Missing /\ RowReadable(item.row))
        alone(item) == Cardinality({i \in DOMAIN read : read[i].window = item.window}) = 1 IN
    SelectSeq(read, alone)

RatioReadable(ratio) == ratio \in 0..100

KimiRatios_Always(payload) == SelectSeq(Ratios, LAMBDA r : payload.usages[r.key] # Missing)

\* A window that a row speaks of, readable or not, is not taken from the ratios.
KimiRatios(payload) ==
    SelectSeq(Ratios, LAMBDA r : payload.usages[r.key] # Missing /\ r.window \notin Explicit(payload))

\* Amounts of the wallet come in CentUnits parts of a cent; less than one cent
\* is shown as one.
CentUnits == 10
FixedPointToMajor(amount) ==
    IF amount > 0 /\ amount < CentUnits THEN 1 ELSE (2 * amount + CentUnits) \div (2 * CentUnits)

BoosterMetrics(wallet) ==
    LET currencies == {wallet.limitCurrency, wallet.usedCurrency} \ {"none"} IN
    IF wallet.amount \in {Missing, Malformed, 0} \/ Cardinality(currencies) # 1 THEN <<>>
    ELSE <<Metric("booster-balance", FixedPointToMajor(OrElse(NonNegative(wallet.left), 0))),
           Metric("booster-total", FixedPointToMajor(wallet.amount))>>
         \o OneIf(wallet.usedCurrency # "none", Metric("booster-monthly-used", 1))
         \o OneIf(wallet.limited = "no" \/ (wallet.limited = "yes" /\ wallet.limitCurrency # "none"),
                  Metric("booster-monthly-limit", IF wallet.limited = "no" THEN Missing ELSE 1))

NormalizeKimi(payload) ==
    LET counted == KimiCounted(payload)
        ratios == KimiRatios(payload)
        readable == SelectSeq(ratios, LAMBDA r : RatioReadable(payload.usages[r.key]))
        buckets == [i \in DOMAIN counted |-> ParseUsageRow(counted[i].row, counted[i].window)]
                   \o [i \in DOMAIN readable |->
                         LET used == payload.usages[readable[i].key] IN
                         Bucket("", readable[i].window, "percent", used, 100 - used, Missing)]
        omitted == Len(counted) < Len(KimiRows(payload)) \/ Len(readable) < Len(ratios) \/ payload.unreadable IN
    ReportOrFail(SortSeq(buckets, LAMBDA left, right : left.id < right.id), BoosterMetrics(payload.wallet),
                 OneIf(omitted, "omitted"))

-----------------------------------------------------------------------------
(* MiniMax: the token plan.  A row is refused with the whole answer.          *)
PercentTolerance == 1
Distance(count, total, percent) ==
    LET d == 100 * count - percent * total IN IF d < 0 THEN -d ELSE d

\* The count is of what is left, or of what was used: whichever the percentage fits.
ResolveQuotaCounts(count, total, percent) ==
    LET asRemaining == Distance(count, total, percent)
        asUsed == Distance(total - count, total, percent)
        nearer == IF asUsed < asRemaining THEN asUsed ELSE asRemaining
        remaining == IF percent # Missing /\ asUsed < asRemaining THEN total - count ELSE count IN
    IF count > total \/ (percent # Missing /\ nearer > PercentTolerance * total) THEN Failed
    ELSE [ok |-> TRUE, used |-> total - remaining, remaining |-> remaining, limit |-> total]

NormalizeWindow(group, id, w) ==
    LET shown(unit, used, remaining, limit) ==
            [ok |-> TRUE, bucket |-> Bucket(group, id, unit, used, remaining, limit)]
        counts == ResolveQuotaCounts(w.count, w.total, w.percent) IN
    CASE w.status \notin {Missing, 1, 2, 3} \/ (w.percent # Missing /\ w.percent \notin 0..100)
         \/ w.boost = Malformed \/ w.boost > 10000 \/ w.times # "ordered" -> Failed
      [] w.status = 3 -> shown("percent", Missing, 100, Missing)
      [] w.status # 3 /\ (w.total = Malformed \/ w.count = Malformed) -> Failed
      [] w.status # 3 /\ w.total = 0 ->
           IF w.count # 0 \/ w.percent = Missing THEN Failed
           ELSE shown("percent", 100 - w.percent, w.percent, 0)
      [] OTHER -> IF counts.ok THEN shown("count", counts.used, counts.remaining, counts.limit) ELSE Failed

\* A name is a word and the number it ends in; a name taken gets its place in
\* the list as a suffix, which is not compared with the names already given.
UniqueGroupId(name, index, taken) == IF name \in taken THEN [name EXCEPT !.end = @ * 10 + index] ELSE name

GroupIds(rows) ==
    LET step(ids, name) == Append(ids, UniqueGroupId(name, Len(ids) + 1, Range(ids))) IN
    FoldLeft(step, <<>>, [i \in DOMAIN rows |-> rows[i].name])

NormalizeTokenPlan(payload) ==
    LET ids == GroupIds(payload.rows)
        windows == FlattenSeq([i \in DOMAIN payload.rows |->
                       <<NormalizeWindow(ids[i], "interval", payload.rows[i].interval),
                         NormalizeWindow(ids[i], "weekly", payload.rows[i].weekly)>>]) IN
    IF payload.rows = <<>> \/ \E w \in Range(windows) : ~w.ok THEN Failed
    ELSE Report([i \in DOMAIN windows |-> windows[i].bucket], <<>>, <<>>)

-----------------------------------------------------------------------------
(* Z.AI.                                                                       *)
NoError == Missing
Unnamed == Malformed

\* A code within the error has priority, one that is absent hides nothing.
ZaiPayloadError(envelope) ==
    LET code == IF envelope.nested = Missing THEN envelope.code ELSE envelope.nested IN
    IF ~envelope.error /\ envelope.success /\ code \in {Missing, 0, 200} THEN NoError
    ELSE IF code \in {Missing, Malformed, 0, 200} THEN Unnamed ELSE code

CountBucket(id, row) ==
    OneIf(Missing \notin {row.current, row.quota},
          Bucket("", id, "count", row.current, AtLeastZero(row.quota - row.current), row.quota))
PercentBucket(id, row) ==
    LET used == ClampPercent(row.percent) IN
    OneIf(row.percent # Missing, Bucket("", id, "percent", used, 100 - used, 100))

ZaiBuckets(row) ==
    CASE row.kind = "time" -> CountBucket("mcp-monthly", row)
      [] row.kind = "session" -> PercentBucket("five-hour", row)
      [] row.kind = "weekly" -> IF Missing \in {row.current, row.quota} THEN PercentBucket("weekly", row)
                                ELSE CountBucket("weekly", row)
      [] OTHER -> <<>>
ZaiMetrics(row) == IF row.kind = "time" THEN [i \in DOMAIN row.details |-> Metric(row.details[i], 1)] ELSE <<>>

\* "" is the absent plan: the level of the quota answer is shown instead.
NormalizeZaiSubscription(subscription) ==
    LET candidates == subscription.products
        described == \E c \in Range(candidates) : c.status # "none" \/ c.current # "none"
        ranked == IF ~described THEN candidates
                  ELSE SelectSeq(candidates, LAMBDA c : c.current = "yes" /\ c.status = "VALID")
                       \o SelectSeq(candidates, LAMBDA c : c.current = "yes" /\ c.status = "none")
                       \o SelectSeq(candidates, LAMBDA c : c.current = "none" /\ c.status = "VALID") IN
    IF ZaiPayloadError(subscription.envelope) # NoError \/ ranked = <<>> THEN "" ELSE ranked[1].name

NormalizeZaiQuota(payload) ==
    LET plan == NormalizeZaiSubscription(payload.subscription)
        buckets == FlattenSeq([i \in DOMAIN payload.limits |-> ZaiBuckets(payload.limits[i])]) IN
    IF ZaiPayloadError(payload.envelope) # NoError \/ buckets = <<>> THEN Failed
    ELSE Report(buckets, FlattenSeq([i \in DOMAIN payload.limits |-> ZaiMetrics(payload.limits[i])]),
                <<IF plan = "" THEN payload.level ELSE plan>>)

-----------------------------------------------------------------------------
(* OpenAI Codex.  A window is its used_percent; one that is no object throws, *)
(* which an optional group keeps to itself.                                   *)
Unmeasured == 997

WindowBuckets(group, position, raw) ==
    OneIf(raw \notin {Missing, Malformed, Unmeasured},
          Bucket(group, position, "percent", raw, 100 - ClampPercent(raw), 100))
RateLimitGroup(group, limits) ==
    WindowBuckets(group, "primary", limits.primary)
    \o (IF limits.primary = Malformed THEN <<>> ELSE WindowBuckets(group, "secondary", limits.secondary))

Credits(payload) == CASE payload.credits = "unknown" -> <<>>
                      [] OTHER -> <<Metric("credits", 1)>>

NormalizeCodex(payload) ==
    IF Malformed \in {payload.main.primary, payload.main.secondary} THEN Failed
    ELSE ReportOrFail(RateLimitGroup("codex", payload.main)
                      \o FlattenSeq([i \in DOMAIN payload.additional |->
                             RateLimitGroup(payload.additional[i].feature, payload.additional[i])]),
                      Credits(payload) \o OneIf(Finite(payload.resets) # Missing,
                                                Metric("reset-credits", AtLeastZero(payload.resets))), <<>>)
=============================================================================
