------------------------ MODULE ProviderCredentials ------------------------
(* How the provider usage package picks the credential of a request            *)
(* (packages/provider-usage/src): a pure function of auth.json, models.json   *)
(* and the environment.  The initial states enumerate what these may hold for *)
(* one provider; there is no step.  A secret is named for the place it was    *)
(* read from, "" is the empty string, and Missing is undefined.               *)
EXTENDS Naturals, FiniteSets

CONSTANT UsageProviders  \* the provider ids that are tried

VARIABLE setup

\* A raw configuration value: a literal, the empty string, a !command, or a
\* template with a reference to the variable.
RawValues == {"literal", "empty", "command", "reference"}
MissingFile == "undefined"
UnlistedProvider == [listed |-> FALSE, key |-> MissingFile, url |-> MissingFile, header |-> MissingFile, authHeader |-> FALSE]
NotStored == [kind |-> "none"]

\* providerDefinitions.ts; a provider with nothing special has no row.
StoredOAuth(p) ==
    CASE p \in {"openai-codex", "openrouter", "kimi-coding", "xai"} -> "bearer-access"
      [] p = "openai" -> "native-chatgpt"
      [] p = "github-copilot" -> "copilot-refresh"
      [] OTHER -> "unsupported"
SupportsStoredApiKey(p) == p # "openai-codex"
HasVariable(p) == p # "openai-codex"
RequiresBearer(p) == p = "deepseek"
SharedVariable(p) == p \in {"moonshotai", "moonshotai-cn"}
RejectsApiKeys(p) == p \in {"openai", "github-copilot", "xai"}

Unavailable(source) == [status |-> "unavailable", source |-> source]
CredentialReady(source, sent) == [status |-> "ready", source |-> source, sent |-> sent]

\* One invalid entry invalidates the whole file.
FileState(file) ==
    CASE file = "missing" -> "absent"
      [] file = "denied" -> "unreadable"
      [] file \in {"not JSON", "invalid entry"} -> "malformed"
      [] OTHER -> "ok"

\* An empty apiKey is a schema violation.
ModelsFileState(s) == IF s.entry.key = "empty" THEN FileState("invalid entry") ELSE FileState(s.modelsFile)

ReadableFile(state) == state \in {"ok", "absent"}
Stored(s) == IF FileState(s.authFile) = "ok" THEN s.stored ELSE NotStored
CredentialEntry(s) == IF ModelsFileState(s) = "ok" THEN s.entry ELSE UnlistedProvider

\* An empty value of the credential's own env is skipped, one of the process is not.
Lookup(s, env) == IF env = "set" THEN "local" ELSE CASE s.variable = "unset" -> MissingFile
                                                     [] s.variable = "empty" -> ""
                                                     [] OTHER -> "variable"

ResolveValue(raw, literal, env, s) ==
    CASE raw = "literal" -> literal
      [] raw = "empty" -> ""
      [] raw = "reference" -> Lookup(s, env)
      [] OTHER -> MissingFile

\* header is the Authorization header: "same" repeats the access token, "basic"
\* is of another scheme, "twice" is two of them under different spellings.
ResolveHeaderOverrides(entry, env, key, s) ==
    LET value == CASE entry.header = "same" -> "access"
                   [] entry.header = "basic" -> "basic"
                   [] OTHER -> ResolveValue(entry.header, "header", env, s)
        chosen == IF entry.authHeader THEN key ELSE value IN
    IF entry.header # MissingFile /\ (entry.header \in {"twice", "command"} \/ value = MissingFile)
    THEN [ok |-> FALSE]
    ELSE IF chosen = "" /\ (entry.authHeader \/ entry.header # MissingFile)
    THEN [ok |-> FALSE]
    ELSE [ok |-> TRUE, authorization |-> IF entry.header = MissingFile /\ ~entry.authHeader THEN MissingFile ELSE chosen]

WithOverrides(source, key, env, s) ==
    LET overrides == ResolveHeaderOverrides(CredentialEntry(s), env, key, s) IN
    IF ~overrides.ok THEN Unavailable(source)
    ELSE CredentialReady(source, IF overrides.authorization = MissingFile THEN key ELSE overrides.authorization)

ResolveAmbient(p, s) ==
    IF ~HasVariable(p) \/ s.variable # "set" THEN Unavailable("not-configured")
    ELSE IF SharedVariable(p) THEN Unavailable("environment")
    ELSE WithOverrides("environment", "variable", "unset", s)

\* Mutant: a stored key that does not resolve gives way to the variable.
ResolveStoredApiKey_FallsBack(p, s) ==
    LET key == ResolveValue(Stored(s).key, "stored key", Stored(s).env, s) IN
    IF ~SupportsStoredApiKey(p) \/ Stored(s).key \in {MissingFile, "command"} \/ key \in {MissingFile, ""}
    THEN ResolveAmbient(p, s)
    ELSE WithOverrides("auth.json", key, Stored(s).env, s)

ResolveStoredApiKey(p, s) ==
    LET key == ResolveValue(Stored(s).key, "stored key", Stored(s).env, s) IN
    IF ~SupportsStoredApiKey(p) \/ Stored(s).key \in {MissingFile, "command"} \/ key \in {MissingFile, ""}
    THEN Unavailable("auth.json")
    ELSE WithOverrides("auth.json", key, Stored(s).env, s)

ResolveModelsApiKey(s) ==
    LET key == ResolveValue(CredentialEntry(s).key, "models key", "unset", s) IN
    IF CredentialEntry(s).key = "command" \/ key \in {MissingFile, ""} THEN Unavailable("models.json")
    ELSE WithOverrides("models.json", key, "unset", s)

ResolveStoredOAuth(p, s) ==
    LET grant == Stored(s)
        overrides == ResolveHeaderOverrides(CredentialEntry(s), grant.env, grant.access, s)
        given == IF overrides.ok THEN overrides.authorization ELSE MissingFile
        otherAccount == given # MissingFile /\ given # grant.access IN
    IF \/ StoredOAuth(p) = "unsupported"
       \/ grant.access = "" \/ (p = "xai" /\ grant.refresh = "")
       \/ ~overrides.ok
       \/ (p \in {"xai", "github-copilot", "openai"} /\ otherAccount)
       \/ (p = "openai" /\ (grant.refresh = "" \/ ~grant.whole))
       \/ (p = "github-copilot" /\ (grant.enterprise \/ grant.refresh = ""))
    THEN Unavailable("auth.json")
    ELSE CredentialReady("auth.json", IF StoredOAuth(p) = "copilot-refresh" THEN grant.refresh
                                      ELSE IF given # MissingFile THEN given ELSE grant.access)

\* A stored credential owns the provider and never falls back.
ResolveCandidate(p, s) ==
    IF ~ReadableFile(FileState(s.authFile)) THEN Unavailable("auth.json")
    ELSE IF ~ReadableFile(ModelsFileState(s)) THEN Unavailable("models.json")
    ELSE IF Stored(s).kind = "oauth" THEN ResolveStoredOAuth(p, s)
    ELSE IF Stored(s).kind = "api-key" THEN ResolveStoredApiKey(p, s)
    ELSE IF CredentialEntry(s).key # MissingFile THEN ResolveModelsApiKey(s)
    ELSE ResolveAmbient(p, s)

ApplyProviderExceptions(p, candidate, apiKey) ==
    IF /\ candidate.status = "ready"
       /\ (RejectsApiKeys(p) /\ apiKey) \/ (RequiresBearer(p) /\ candidate.sent = "basic")
    THEN Unavailable(candidate.source)
    ELSE candidate

\* A configured endpoint off the official origins blocks the credential.
ResolveProviderCredential(p, s) ==
    LET outcome == ApplyProviderExceptions(p, ResolveCandidate(p, s), Stored(s).kind # "oauth") IN
    IF CredentialEntry(s).url = "other" THEN Unavailable(outcome.source) ELSE outcome

\* listProviders: whether the panel offers the provider at all.
Offered(p, s) == ResolveProviderCredential(p, s).source # "not-configured"

StoredCredentials ==
    {NotStored}
    \cup [kind : {"api-key"}, key : RawValues \cup {MissingFile}, env : {"set", "unset"}]
    \cup [kind : {"oauth"}, access : {"access", ""}, refresh : {"refresh", ""}, env : {"set", "unset"},
          whole : BOOLEAN, enterprise : {FALSE}]
    \cup [kind : {"oauth"}, access : {"access"}, refresh : {"refresh"}, env : {"unset"},
          whole : {TRUE}, enterprise : {TRUE}]

Entries ==
    {UnlistedProvider}
    \cup [listed : {TRUE}, key : {"literal", "command", "reference", "empty", MissingFile}, url : {"official", "other", MissingFile},
          header : RawValues \cup {"same", "basic", "twice", MissingFile}, authHeader : BOOLEAN]

\* An unreadable file is tried with one content of the other; the endpoint only
\* where the provider could be used.
CredentialStarts ==
    \E p \in UsageProviders, stored \in StoredCredentials, entry \in Entries,
       variable \in {"set", "empty", "unset"}, authFile \in {"valid", "missing", "denied", "not JSON", "invalid entry"},
       modelsFile \in {"valid", "missing", "denied", "not JSON", "invalid entry"} :
        /\ stored = NotStored <=> authFile # "valid"
        /\ entry = UnlistedProvider \/ modelsFile = "valid"
        /\ authFile \in {"valid", "missing"} \/ (modelsFile = "valid" /\ entry # UnlistedProvider /\ entry.url = MissingFile)
        /\ modelsFile \in {"valid", "missing"} \/ variable = "set"
        /\ setup = [provider |-> p, stored |-> stored, entry |-> entry, variable |-> variable,
                    authFile |-> authFile, modelsFile |-> modelsFile]

(* The secrets that each source holds. *)
SecretsOf(source, s) ==
    CASE source = "auth.json" -> {"stored key", "access", "refresh"} \cup
                                 (IF s.stored.kind = "api-key" /\ s.stored.key = "reference" THEN {"variable", "local"} ELSE {})
      [] source = "models.json" -> {"models key"} \cup (IF s.entry.key = "reference" THEN {"variable"} ELSE {})
      [] source = "environment" -> {"variable"}
      [] OTHER -> {}

\* What an Authorization header of models.json may put in its place.
HeaderSecrets(s) ==
    CASE s.entry.header = "literal" -> {"header"}
      [] s.entry.header = "reference" -> {"variable", "local"}
      [] s.entry.header = "same" -> {"access"}
      [] s.entry.header = "basic" -> {"basic"}
      [] OTHER -> {}

CredentialTypes == setup.provider \in UsageProviders

\* The accepted contract of resolveCredentials.ts:5-21.  No source is silently
\* replaced by another: a stored credential, then a models.json key, then the
\* variable decides the source, and what is sent belongs to that source or to
\* an explicitly configured header of models.json.  An unreliable file, a
\* command or an empty authorization never becomes a usable credential, nor
\* does anything go out under an unofficial endpoint; the providers that bill
\* an account are only asked with the stored account's own token.
CredentialPolicy ==
    LET s == setup  p == s.provider  outcome == ResolveProviderCredential(p, s)
        reliable == ReadableFile(FileState(s.authFile)) /\ ReadableFile(ModelsFileState(s))
        owner == IF s.stored.kind # "none" THEN "auth.json"
                 ELSE IF s.entry.key # MissingFile THEN "models.json"
                 ELSE IF HasVariable(p) /\ s.variable = "set" THEN "environment" ELSE "not-configured" IN
    /\ reliable => outcome.source = owner
    /\ outcome.status = "ready" =>
          /\ reliable /\ s.entry.url # "other"
          /\ outcome.sent \in SecretsOf(owner, s) \cup HeaderSecrets(s)
          /\ s.entry.header \notin {"command", "twice"}
          /\ s.stored.kind = "api-key" => s.stored.key # "command"
          /\ RejectsApiKeys(p) => /\ s.stored.kind = "oauth"
                                  /\ outcome.sent = IF p = "github-copilot" THEN "refresh" ELSE "access"
          /\ RequiresBearer(p) => outcome.sent # "basic"
          /\ SharedVariable(p) => owner # "environment"
    /\ ~reliable => Offered(p, s) \* a broken file is shown, not hidden
=============================================================================
