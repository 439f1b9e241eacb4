------------------------- MODULE Surroundings_proofs -------------------------
(***************************************************************************)
(* Proofs about the credential of a usage request (ProviderCredentials)    *)
(* and the usage panel with its queries and snapshots (ProviderUsage), for *)
(* any set of providers and any number of requests and changes of the      *)
(* configuration; and what is proved of each part by itself, here, in      *)
(* Panels_proofs and in Framing_proofs, as what the run over all parts     *)
(* checks: a behaviour is about one part, whose steps are its own, and the *)
(* others' properties say nothing of it.                                   *)
(*                                                                         *)
(* The credential: a source that is looked in keeps to itself or to a      *)
(* header of models.json (OutcomeOk), whichever it is.                     *)
(*                                                                         *)
(* The panel: requests are numbered in the order they are sent in, so what *)
(* it waits for is the newest and has not been overtaken (WireOk, AwaitOk);*)
(* a query is answered for the scope and from the configuration it was     *)
(* begun with (TaskOk), and as long as no source that was given up is      *)
(* taken up again, what is kept, worked on or on its way is of the source  *)
(* the last listing named, or that source is given up (SourcesOk).         *)
(***************************************************************************)
EXTENDS MCSurroundings, Panels_proofs, Framing_proofs

-----------------------------------------------------------------------------
(* Provider credentials.                                                       *)

\* What the files and the environment may hold, for one provider.
CredentialSetup(s) ==
    /\ s.stored \in StoredCredentials /\ s.entry \in Entries /\ s.variable \in {"set", "empty", "unset"}
    /\ s.authFile \in {"valid", "missing", "denied", "not JSON", "invalid entry"}
    /\ s.modelsFile \in {"valid", "missing", "denied", "not JSON", "invalid entry"}
    /\ s.stored = NotStored <=> s.authFile # "valid"
    /\ s.entry = UnlistedProvider \/ s.modelsFile = "valid"
Reliable(s) == ReadableFile(FileState(s.authFile)) /\ ReadableFile(ModelsFileState(s))
CredentialOwner(p, s) ==
    IF s.stored.kind # "none" THEN "auth.json"
    ELSE IF s.entry.key # MissingFile THEN "models.json"
    ELSE IF HasVariable(p) /\ s.variable = "set" THEN "environment" ELSE "not-configured"

\* What a record of auth.json and one of models.json has.
LEMMA RecordsAre ==
  ASSUME NEW s, CredentialSetup(s)
  PROVE  /\ s.stored.kind \in {"none", "api-key", "oauth"}
         /\ s.stored.kind = "api-key" => s.stored.key \in RawValues \cup {MissingFile} /\ s.stored.env \in {"set", "unset"}
         /\ s.stored.kind = "oauth" =>
               /\ s.stored.access \in {"access", ""} /\ s.stored.refresh \in {"refresh", ""} /\ s.stored.env \in {"set", "unset"}
               /\ s.stored.whole \in BOOLEAN /\ s.stored.enterprise \in BOOLEAN
         /\ s.entry.key \in {"literal", "command", "reference", "empty", MissingFile}
         /\ s.entry.url \in {"official", "other", MissingFile} /\ s.entry.authHeader \in BOOLEAN
         /\ s.entry.header \in RawValues \cup {"same", "basic", "twice", MissingFile}
<1>1. s.stored \in StoredCredentials /\ s.entry \in Entries
  BY Zenon DEF CredentialSetup
<1>. DEFINE x == s.stored
            e == s.entry
<1>2. /\ x.kind \in {"none", "api-key", "oauth"}
      /\ x.kind = "api-key" => x.key \in RawValues \cup {MissingFile} /\ x.env \in {"set", "unset"}
      /\ x.kind = "oauth" =>
            /\ x.access \in {"access", ""} /\ x.refresh \in {"refresh", ""} /\ x.env \in {"set", "unset"}
            /\ x.whole \in BOOLEAN /\ x.enterprise \in BOOLEAN
  <2>1. \/ x = NotStored
        \/ x \in [kind : {"api-key"}, key : RawValues \cup {MissingFile}, env : {"set", "unset"}]
        \/ x \in [kind : {"oauth"}, access : {"access", ""}, refresh : {"refresh", ""}, env : {"set", "unset"},
                  whole : BOOLEAN, enterprise : {FALSE}]
        \/ x \in [kind : {"oauth"}, access : {"access"}, refresh : {"refresh"}, env : {"unset"},
                  whole : {TRUE}, enterprise : {TRUE}]
    BY <1>1, Zenon DEF StoredCredentials
  <2>. HIDE DEF x
  <2>2. CASE x = NotStored
    BY <2>2 DEF NotStored
  <2>3. CASE x \in [kind : {"api-key"}, key : RawValues \cup {MissingFile}, env : {"set", "unset"}]
    BY <2>3, Zenon
  <2>4. CASE x \in [kind : {"oauth"}, access : {"access", ""}, refresh : {"refresh", ""}, env : {"set", "unset"},
                    whole : BOOLEAN, enterprise : {FALSE}]
    BY <2>4, Zenon
  <2>5. CASE x \in [kind : {"oauth"}, access : {"access"}, refresh : {"refresh"}, env : {"unset"},
                    whole : {TRUE}, enterprise : {TRUE}]
    BY <2>5, Zenon
  <2>. QED
    BY <2>1, <2>2, <2>3, <2>4, <2>5, Zenon
<1>3. /\ e.key \in {"literal", "command", "reference", "empty", MissingFile}
      /\ e.url \in {"official", "other", MissingFile} /\ e.authHeader \in BOOLEAN
      /\ e.header \in RawValues \cup {"same", "basic", "twice", MissingFile}
  <2>1. \/ e = UnlistedProvider
        \/ e \in [listed : {TRUE}, key : {"literal", "command", "reference", "empty", MissingFile}, url : {"official", "other", MissingFile},
                  header : RawValues \cup {"same", "basic", "twice", MissingFile}, authHeader : BOOLEAN]
    BY <1>1, Zenon DEF Entries
  <2>. HIDE DEF e
  <2>2. CASE e = UnlistedProvider
    BY <2>2 DEF UnlistedProvider
  <2>3. CASE e \in [listed : {TRUE}, key : {"literal", "command", "reference", "empty", MissingFile}, url : {"official", "other", MissingFile},
                    header : RawValues \cup {"same", "basic", "twice", MissingFile}, authHeader : BOOLEAN]
    BY <2>3
  <2>. QED
    BY <2>1, <2>2, <2>3, Zenon
<1>. QED
  BY <1>2, <1>3, Zenon

\* Files that can be read are taken as they are,
LEMMA ReliableIs ==
  ASSUME NEW s, CredentialSetup(s), Reliable(s)
  PROVE  Stored(s) = s.stored /\ CredentialEntry(s) = s.entry
<1>1. Stored(s) = s.stored
  BY Zenon DEF CredentialSetup, Reliable, Stored, FileState, ReadableFile
<1>2. CredentialEntry(s) = s.entry
  <2>1. CASE s.entry.key = "empty"
    BY <2>1, Zenon DEF Reliable, ModelsFileState, FileState, ReadableFile
  <2>2. CASE s.entry.key # "empty" /\ s.modelsFile = "valid"
    BY <2>2, Zenon DEF CredentialEntry, ModelsFileState, FileState
  <2>3. CASE s.entry.key # "empty" /\ s.modelsFile # "valid"
    BY <2>3, Zenon DEF CredentialSetup, CredentialEntry
  <2>. QED
    BY <2>1, <2>2, <2>3
<1>. QED
  BY <1>1, <1>2

\* others give nothing, and are named.
LEMMA UnreliableIs ==
  ASSUME NEW s, ~Reliable(s), NEW p
  PROVE  ResolveCandidate(p, s) \in {Unavailable("auth.json"), Unavailable("models.json")}
  BY DEF Reliable, ResolveCandidate

\* A header of models.json that is not usable gives nothing; one that is takes the place
\* of the key.
LEMMA OverridesAre ==
  ASSUME NEW s, CredentialSetup(s), NEW env \in {"set", "unset"}, NEW key, key # MissingFile,
         NEW o, o = ResolveHeaderOverrides(s.entry, env, key, s)
  PROVE  /\ o.ok \in BOOLEAN
         /\ o.ok => /\ s.entry.header \notin {"command", "twice"}
                    /\ o.authorization \in {MissingFile, key} \cup HeaderSecrets(s)
                    /\ o.authorization = MissingFile \/ o.authorization # ""
<1>. DEFINE value == CASE s.entry.header = "same" -> "access"
                       [] s.entry.header = "basic" -> "basic"
                       [] OTHER -> ResolveValue(s.entry.header, "header", env, s)
            chosen == IF s.entry.authHeader THEN key ELSE value
<1>1. s.entry.header \in RawValues \cup {"same", "basic", "twice", MissingFile} /\ s.entry.authHeader \in BOOLEAN
  BY RecordsAre, Zenon
<1>2. \/ s.entry.header \in {"command", "twice", MissingFile}
      \/ value \in HeaderSecrets(s) \/ value = "" \/ value = MissingFile
  <2>1. Lookup(s, env) \in {"local", "variable", "", MissingFile}
    BY DEF Lookup
  <2>2. CASE s.entry.header = "literal"
    BY <2>2 DEF ResolveValue, HeaderSecrets
  <2>3. CASE s.entry.header = "reference"
    BY <2>1, <2>3, Zenon DEF ResolveValue, HeaderSecrets
  <2>4. CASE s.entry.header = "empty"
    BY <2>4 DEF ResolveValue
  <2>5. CASE s.entry.header \in {"same", "basic"}
    BY <2>5, Zenon DEF HeaderSecrets
  <2>. QED
    BY <1>1, <2>2, <2>3, <2>4, <2>5, Zenon DEF RawValues
<1>3. o = IF s.entry.header # MissingFile /\ (s.entry.header \in {"twice", "command"} \/ value = MissingFile)
          THEN [ok |-> FALSE]
          ELSE IF chosen = "" /\ (s.entry.authHeader \/ s.entry.header # MissingFile)
          THEN [ok |-> FALSE]
          ELSE [ok |-> TRUE, authorization |-> IF s.entry.header = MissingFile /\ ~s.entry.authHeader THEN MissingFile ELSE chosen]
  BY Zenon DEF ResolveHeaderOverrides
<1>. HIDE DEF value
<1>4. CASE s.entry.header # MissingFile /\ (s.entry.header \in {"twice", "command"} \/ value = MissingFile)
  <2>1. o = [ok |-> FALSE]
    BY <1>3, <1>4, Zenon
  <2>2. o.ok = FALSE
    BY <2>1
  <2>. QED
    BY <2>2, Zenon
<1>5. CASE /\ ~(s.entry.header # MissingFile /\ (s.entry.header \in {"twice", "command"} \/ value = MissingFile))
           /\ chosen = "" /\ (s.entry.authHeader \/ s.entry.header # MissingFile)
  <2>1. o = [ok |-> FALSE]
    BY <1>3, <1>5, Zenon
  <2>2. o.ok = FALSE
    BY <2>1
  <2>. QED
    BY <2>2, Zenon
<1>6. CASE /\ ~(s.entry.header # MissingFile /\ (s.entry.header \in {"twice", "command"} \/ value = MissingFile))
           /\ ~(chosen = "" /\ (s.entry.authHeader \/ s.entry.header # MissingFile))
  <2>. DEFINE a == IF s.entry.header = MissingFile /\ ~s.entry.authHeader THEN MissingFile ELSE chosen
  <2>0. o = [ok |-> TRUE, authorization |-> a]
    BY <1>3, <1>6, Zenon
  <2>. HIDE DEF a
  <2>1. o.ok = TRUE /\ o.authorization = a
    BY <2>0
  <2>3. s.entry.header \notin {"command", "twice"}
    BY <1>6, Zenon DEF MissingFile
  <2>4. CASE s.entry.authHeader
    BY <1>6, <2>1, <2>3, <2>4, Zenon DEF a
  <2>5. CASE ~s.entry.authHeader /\ s.entry.header = MissingFile
    BY <2>1, <2>3, <2>5, Zenon DEF a
  <2>6. CASE ~s.entry.authHeader /\ s.entry.header # MissingFile
    BY <1>2, <1>6, <2>1, <2>3, <2>6, Zenon DEF a
  <2>. QED
    BY <2>4, <2>5, <2>6, Zenon
<1>. QED
  BY <1>4, <1>5, <1>6, Zenon

\* What the resolvers of the sources promise of their outcome.
OutcomeOk(p, s, outcome) ==
    /\ outcome.source = CredentialOwner(p, s) /\ outcome.status \in {"ready", "unavailable"}
    /\ outcome.status = "ready" =>
          /\ outcome.sent \in SecretsOf(CredentialOwner(p, s), s) \cup HeaderSecrets(s)
          /\ s.entry.header \notin {"command", "twice"}
          /\ s.stored.kind = "api-key" => s.stored.key # "command"
          /\ RejectsApiKeys(p) /\ s.stored.kind = "oauth" =>
                 outcome.sent = IF p = "github-copilot" THEN "refresh" ELSE "access"
          /\ SharedVariable(p) => CredentialOwner(p, s) # "environment"

\* Nothing usable is of the source it was looked for in.
LEMMA UnavailableIs ==
  ASSUME NEW source
  PROVE  Unavailable(source).source = source /\ Unavailable(source).status = "unavailable"
  BY DEF Unavailable

\* A key goes out as it is or under the header of models.json.
LEMMA WithOverridesIs ==
  ASSUME NEW s, CredentialSetup(s), CredentialEntry(s) = s.entry, NEW env \in {"set", "unset"}, NEW key, key # MissingFile,
         NEW source, NEW w, w = WithOverrides(source, key, env, s)
  PROVE  /\ w.source = source /\ w.status \in {"ready", "unavailable"}
         /\ w.status = "ready" => w.sent \in {key} \cup HeaderSecrets(s) /\ s.entry.header \notin {"command", "twice"}
<1>. DEFINE o == ResolveHeaderOverrides(s.entry, env, key, s)
<1>1. /\ o.ok \in BOOLEAN
      /\ o.ok => /\ s.entry.header \notin {"command", "twice"}
                 /\ o.authorization \in {MissingFile, key} \cup HeaderSecrets(s)
  BY OverridesAre, Zenon
<1>2. w = IF ~o.ok THEN Unavailable(source) ELSE CredentialReady(source, IF o.authorization = MissingFile THEN key ELSE o.authorization)
  BY DEF WithOverrides
<1>. HIDE DEF o
<1>3. CASE ~o.ok
  <2>1. w = Unavailable(source)
    BY <1>2, <1>3
  <2>. QED
    BY <2>1, UnavailableIs
<1>4. CASE o.ok
  <2>. DEFINE sent == IF o.authorization = MissingFile THEN key ELSE o.authorization
  <2>1. w = [status |-> "ready", source |-> source, sent |-> sent]
    BY <1>2, <1>4 DEF CredentialReady
  <2>2. sent \in {key} \cup HeaderSecrets(s)
    BY <1>1, <1>4
  <2>. HIDE DEF sent
  <2>. QED
    BY <1>1, <1>4, <2>1, <2>2
<1>. QED
  BY <1>3, <1>4

\* The variable,
LEMMA AmbientIs ==
  ASSUME NEW p, NEW s, CredentialSetup(s), CredentialEntry(s) = s.entry, s.stored.kind = "none", s.entry.key = MissingFile
  PROVE  OutcomeOk(p, s, ResolveAmbient(p, s))
<1>1. CASE ~HasVariable(p) \/ s.variable # "set"
  <2>1. CredentialOwner(p, s) = "not-configured" /\ ResolveAmbient(p, s) = Unavailable("not-configured")
    BY <1>1 DEF CredentialOwner, ResolveAmbient
  <2>. QED
    BY <2>1, UnavailableIs DEF OutcomeOk
<1>2. CASE HasVariable(p) /\ s.variable = "set"
  <2>1. CredentialOwner(p, s) = "environment"
    BY <1>2 DEF CredentialOwner
  <2>2. CASE SharedVariable(p)
    <3>1. ResolveAmbient(p, s) = Unavailable("environment")
      BY <1>2, <2>2 DEF ResolveAmbient
    <3>. QED
      BY <2>1, <3>1, UnavailableIs DEF OutcomeOk
  <2>3. CASE ~SharedVariable(p)
    <3>. DEFINE w == WithOverrides("environment", "variable", "unset", s)
    <3>1. ResolveAmbient(p, s) = w
      BY <1>2, <2>3 DEF ResolveAmbient
    <3>2. "variable" # MissingFile /\ "unset" \in {"set", "unset"}
      BY DEF MissingFile
    <3>3. /\ w.source = "environment" /\ w.status \in {"ready", "unavailable"}
          /\ w.status = "ready" => w.sent \in {"variable"} \cup HeaderSecrets(s) /\ s.entry.header \notin {"command", "twice"}
      BY <3>2, WithOverridesIs
    <3>4. SecretsOf("environment", s) = {"variable"}
      BY DEF SecretsOf
    <3>. HIDE DEF w
    <3>. QED
      BY <2>1, <2>3, <3>1, <3>3, <3>4 DEF OutcomeOk
  <2>. QED
    BY <2>2, <2>3
<1>. QED
  BY <1>1, <1>2

\* a key of models.json,
LEMMA ModelsApiKeyIs ==
  ASSUME NEW p, NEW s, CredentialSetup(s), CredentialEntry(s) = s.entry, s.stored.kind = "none", s.entry.key # MissingFile
  PROVE  OutcomeOk(p, s, ResolveModelsApiKey(s))
<1>. DEFINE key == ResolveValue(s.entry.key, "models key", "unset", s)
            w == WithOverrides("models.json", key, "unset", s)
<1>1. CredentialOwner(p, s) = "models.json"
  BY DEF CredentialOwner
<1>2. ResolveModelsApiKey(s) = IF s.entry.key = "command" \/ key \in {MissingFile, ""} THEN Unavailable("models.json") ELSE w
  BY DEF ResolveModelsApiKey
<1>3. key \in {MissingFile, ""} \cup SecretsOf("models.json", s)
  <2>1. s.entry.key \in {"literal", "command", "reference", "empty", MissingFile}
    BY RecordsAre, Zenon
  <2>2. SecretsOf("models.json", s) = {"models key"} \cup (IF s.entry.key = "reference" THEN {"variable"} ELSE {})
    BY DEF SecretsOf
  <2>3. Lookup(s, "unset") \in {MissingFile, "", "variable"}
    BY DEF Lookup
  <2>4. CASE s.entry.key = "literal"
    BY <2>2, <2>4, Zenon DEF ResolveValue
  <2>5. CASE s.entry.key = "reference"
    BY <2>2, <2>3, <2>5, Zenon DEF ResolveValue
  <2>6. CASE s.entry.key \in {"command", "empty"}
    BY <2>6, Zenon DEF ResolveValue
  <2>. QED
    BY <2>1, <2>4, <2>5, <2>6, Zenon
<1>. HIDE DEF key, w
<1>4. CASE s.entry.key = "command" \/ key \in {MissingFile, ""}
  <2>1. ResolveModelsApiKey(s) = Unavailable("models.json")
    BY <1>2, <1>4, Zenon
  <2>. QED
    BY <1>1, <2>1, UnavailableIs DEF OutcomeOk
<1>5. CASE ~(s.entry.key = "command" \/ key \in {MissingFile, ""})
  <2>1. "unset" \in {"set", "unset"} /\ key # MissingFile
    BY <1>5, Zenon
  <2>2. /\ w.source = "models.json" /\ w.status \in {"ready", "unavailable"}
        /\ w.status = "ready" => w.sent \in {key} \cup HeaderSecrets(s) /\ s.entry.header \notin {"command", "twice"}
    BY <2>1, WithOverridesIs DEF w
  <2>3. ResolveModelsApiKey(s) = w
    BY <1>2, <1>5, Zenon
  <2>. QED
    BY <1>1, <1>3, <1>5, <2>2, <2>3, Zenon DEF OutcomeOk
<1>. QED
  BY <1>4, <1>5, Zenon

\* a stored key
LEMMA StoredApiKeyIs ==
  ASSUME NEW p, NEW s, CredentialSetup(s), CredentialEntry(s) = s.entry, Stored(s) = s.stored, s.stored.kind = "api-key"
  PROVE  OutcomeOk(p, s, ResolveStoredApiKey(p, s))
<1>. DEFINE key == ResolveValue(s.stored.key, "stored key", s.stored.env, s)
            w == WithOverrides("auth.json", key, s.stored.env, s)
<1>0. s.stored.key \in RawValues \cup {MissingFile} /\ s.stored.env \in {"set", "unset"}
  BY RecordsAre, Zenon
<1>1. CredentialOwner(p, s) = "auth.json"
  BY DEF CredentialOwner
<1>2. ResolveStoredApiKey(p, s) =
        IF ~SupportsStoredApiKey(p) \/ s.stored.key \in {MissingFile, "command"} \/ key \in {MissingFile, ""} THEN Unavailable("auth.json") ELSE w
  BY DEF ResolveStoredApiKey
<1>3. key \in {MissingFile, ""} \cup SecretsOf("auth.json", s)
  <2>2. SecretsOf("auth.json", s) = {"stored key", "access", "refresh"} \cup (IF s.stored.key = "reference" THEN {"variable", "local"} ELSE {})
    BY DEF SecretsOf
  <2>3. Lookup(s, s.stored.env) \in {MissingFile, "", "variable", "local"}
    BY DEF Lookup
  <2>4. CASE s.stored.key = "literal"
    BY <2>2, <2>4, Zenon DEF ResolveValue
  <2>5. CASE s.stored.key = "reference"
    BY <2>2, <2>3, <2>5, Zenon DEF ResolveValue
  <2>6. CASE s.stored.key \in {"command", "empty", MissingFile}
    BY <2>6, Zenon DEF ResolveValue, MissingFile
  <2>. QED
    BY <1>0, <2>4, <2>5, <2>6, Zenon DEF RawValues
<1>. HIDE DEF key, w
<1>4. CASE ~SupportsStoredApiKey(p) \/ s.stored.key \in {MissingFile, "command"} \/ key \in {MissingFile, ""}
  <2>1. ResolveStoredApiKey(p, s) = Unavailable("auth.json")
    BY <1>2, <1>4, Zenon
  <2>. QED
    BY <1>1, <2>1, UnavailableIs DEF OutcomeOk
<1>5. CASE ~(~SupportsStoredApiKey(p) \/ s.stored.key \in {MissingFile, "command"} \/ key \in {MissingFile, ""})
  <2>1. key # MissingFile /\ s.stored.key # "command"
    BY <1>5, Zenon
  <2>2. /\ w.source = "auth.json" /\ w.status \in {"ready", "unavailable"}
        /\ w.status = "ready" => w.sent \in {key} \cup HeaderSecrets(s) /\ s.entry.header \notin {"command", "twice"}
    BY <1>0, <2>1, WithOverridesIs DEF w
  <2>3. ResolveStoredApiKey(p, s) = w
    BY <1>2, <1>5, Zenon
  <2>. QED
    BY <1>1, <1>3, <1>5, <2>1, <2>2, <2>3, Zenon DEF OutcomeOk
<1>. QED
  BY <1>4, <1>5, Zenon

\* and a stored account each keep to their source.
LEMMA StoredOAuthIs ==
  ASSUME NEW p, NEW s, CredentialSetup(s), CredentialEntry(s) = s.entry, Stored(s) = s.stored, s.stored.kind = "oauth"
  PROVE  OutcomeOk(p, s, ResolveStoredOAuth(p, s))
<1>. DEFINE grant == s.stored
            o == ResolveHeaderOverrides(s.entry, grant.env, grant.access, s)
            given == IF o.ok THEN o.authorization ELSE MissingFile
            refused == \/ StoredOAuth(p) = "unsupported"
                       \/ grant.access = "" \/ (p = "xai" /\ grant.refresh = "")
                       \/ ~o.ok
                       \/ (p \in {"xai", "github-copilot", "openai"} /\ given # MissingFile /\ given # grant.access)
                       \/ (p = "openai" /\ (grant.refresh = "" \/ ~grant.whole))
                       \/ (p = "github-copilot" /\ (grant.enterprise \/ grant.refresh = ""))
            sent == IF StoredOAuth(p) = "copilot-refresh" THEN grant.refresh ELSE IF given # MissingFile THEN given ELSE grant.access
<1>0. grant.access \in {"access", ""} /\ grant.refresh \in {"refresh", ""} /\ grant.env \in {"set", "unset"} /\ grant.access # MissingFile
  <2>1. grant.access \in {"access", ""} /\ grant.refresh \in {"refresh", ""} /\ grant.env \in {"set", "unset"}
    BY RecordsAre, Zenon
  <2>. QED
    BY <2>1, Zenon DEF MissingFile
<1>1. CredentialOwner(p, s) = "auth.json" /\ SecretsOf("auth.json", s) = {"stored key", "access", "refresh"}
  BY DEF CredentialOwner, SecretsOf
<1>2. ResolveStoredOAuth(p, s) = IF refused THEN Unavailable("auth.json") ELSE CredentialReady("auth.json", sent)
  BY DEF ResolveStoredOAuth
<1>3. /\ o.ok \in BOOLEAN
      /\ o.ok => s.entry.header \notin {"command", "twice"} /\ o.authorization \in {MissingFile, grant.access} \cup HeaderSecrets(s)
  BY <1>0, OverridesAre, Zenon
<1>. HIDE DEF o
<1>4. CASE refused
  <2>. HIDE DEF refused, sent, given, grant
  <2>1. ResolveStoredOAuth(p, s) = Unavailable("auth.json")
    BY <1>2, <1>4
  <2>2. Unavailable("auth.json").source = "auth.json" /\ Unavailable("auth.json").status = "unavailable"
    BY UnavailableIs
  <2>. QED
    BY <1>1, <2>1, <2>2, Zenon DEF OutcomeOk
<1>5. CASE ~refused
  <2>1. ResolveStoredOAuth(p, s) = [status |-> "ready", source |-> "auth.json", sent |-> sent]
    BY <1>2, <1>5, Zenon DEF CredentialReady
  <2>2. grant.access = "access" /\ o.ok
    BY <1>0, <1>5, Zenon
  <2>3. StoredOAuth(p) = "copilot-refresh" <=> p = "github-copilot"
    BY DEF StoredOAuth
  <2>4. p = "github-copilot" => sent = "refresh"
    BY <1>0, <1>5, <2>3, Zenon
  <2>5. p \in {"openai", "xai"} => sent = "access"
    BY <1>5, <2>2, <2>3, Zenon
  <2>6. sent \in {"access", "refresh"} \cup HeaderSecrets(s)
    <3>1. CASE p = "github-copilot"
      BY <2>4, <3>1
    <3>2. CASE p # "github-copilot"
      BY <1>3, <2>2, <2>3, <3>2
    <3>. QED
      BY <3>1, <3>2
  <2>. HIDE DEF sent, refused, given
  <2>. DEFINE c == ResolveStoredOAuth(p, s)
  <2>7. c.status = "ready" /\ c.source = "auth.json" /\ c.sent = sent
    BY <2>1
  <2>8. RejectsApiKeys(p) => sent = IF p = "github-copilot" THEN "refresh" ELSE "access"
    BY <2>4, <2>5 DEF RejectsApiKeys
  <2>9. sent \in SecretsOf(CredentialOwner(p, s), s) \cup HeaderSecrets(s)
    BY <1>1, <2>6, Zenon
  <2>10. s.entry.header \notin {"command", "twice"} /\ s.stored.kind # "api-key" /\ CredentialOwner(p, s) # "environment"
    BY <1>1, <1>3, <2>2, Zenon
  <2>. HIDE DEF c
  <2>. QED
    BY <1>1, <2>7, <2>8, <2>9, <2>10, Zenon DEF OutcomeOk, c
<1>. QED
  BY <1>4, <1>5, Zenon

\* The contract of resolveCredentials.ts: see CredentialPolicy.
LEMMA CredentialsFollowPolicy ==
  ASSUME CredentialStarts
  PROVE  CredentialPolicy
<1>. DEFINE s == setup
            p == setup.provider
            candidate == ResolveCandidate(p, s)
            tried == ApplyProviderExceptions(p, candidate, Stored(s).kind # "oauth")
            outcome == ResolveProviderCredential(p, s)
<1>1. CredentialSetup(s)
  <2>1. PICK q \in UsageProviders, stored \in StoredCredentials, entry \in Entries,
             variable \in {"set", "empty", "unset"}, authFile \in {"valid", "missing", "denied", "not JSON", "invalid entry"},
             modelsFile \in {"valid", "missing", "denied", "not JSON", "invalid entry"} :
           /\ stored = NotStored <=> authFile # "valid"
           /\ entry = UnlistedProvider \/ modelsFile = "valid"
           /\ authFile \in {"valid", "missing"} \/ (modelsFile = "valid" /\ entry # UnlistedProvider /\ entry.url = MissingFile)
           /\ modelsFile \in {"valid", "missing"} \/ variable = "set"
           /\ setup = [provider |-> q, stored |-> stored, entry |-> entry, variable |-> variable,
                       authFile |-> authFile, modelsFile |-> modelsFile]
    BY Zenon DEF CredentialStarts
  <2>2. setup.stored = stored /\ setup.entry = entry /\ setup.variable = variable /\ setup.authFile = authFile /\ setup.modelsFile = modelsFile
    BY <2>1, Zenon
  <2>. QED
    BY <2>1, <2>2, Zenon DEF CredentialSetup
<1>2. outcome = IF CredentialEntry(s).url = "other" THEN Unavailable(tried.source) ELSE tried
  BY DEF ResolveProviderCredential
<1>3. tried \in {candidate, Unavailable(candidate.source)} /\
      (tried.status = "ready" => tried = candidate /\ candidate.status = "ready" /\ ~(RejectsApiKeys(p) /\ Stored(s).kind # "oauth")
                                 /\ ~(RequiresBearer(p) /\ candidate.sent = "basic"))
  BY UnavailableIs DEF ApplyProviderExceptions
<1>4. outcome.source = candidate.source
  BY <1>2, <1>3, UnavailableIs
<1>5. outcome.status = "ready" => CredentialEntry(s).url # "other" /\ outcome = tried
  BY <1>2, UnavailableIs
<1>. HIDE DEF s, p, candidate, tried, outcome
<1>6. CASE ~Reliable(s)
  <2>1. candidate \in {Unavailable("auth.json"), Unavailable("models.json")}
    BY <1>6, UnreliableIs DEF candidate
  <2>2. candidate.source # "not-configured" /\ candidate.status = "unavailable"
    BY <2>1, UnavailableIs
  <2>3. outcome.status # "ready" /\ outcome.source # "not-configured"
    BY <1>3, <1>4, <1>5, <2>2
  <2>. QED
    BY <1>6, <2>3 DEF CredentialPolicy, Reliable, Offered, s, p, outcome
<1>7. CASE Reliable(s)
  <2>0. Stored(s) = s.stored /\ CredentialEntry(s) = s.entry /\ s.stored.kind \in {"none", "api-key", "oauth"}
    BY <1>1, <1>7, ReliableIs, RecordsAre, Zenon
  <2>1. OutcomeOk(p, s, candidate)
    <3>1. candidate = IF s.stored.kind = "oauth" THEN ResolveStoredOAuth(p, s)
                      ELSE IF s.stored.kind = "api-key" THEN ResolveStoredApiKey(p, s)
                      ELSE IF s.entry.key # MissingFile THEN ResolveModelsApiKey(s)
                      ELSE ResolveAmbient(p, s)
      BY <1>7, <2>0 DEF candidate, ResolveCandidate, Reliable
    <3>2. CASE s.stored.kind = "oauth"
      BY <1>1, <2>0, <3>1, <3>2, StoredOAuthIs
    <3>3. CASE s.stored.kind = "api-key"
      BY <1>1, <2>0, <3>1, <3>3, StoredApiKeyIs
    <3>4. CASE s.stored.kind = "none" /\ s.entry.key # MissingFile
      BY <1>1, <2>0, <3>1, <3>4, ModelsApiKeyIs
    <3>5. CASE s.stored.kind = "none" /\ s.entry.key = MissingFile
      BY <1>1, <2>0, <3>1, <3>5, AmbientIs
    <3>. QED
      BY <2>0, <3>2, <3>3, <3>4, <3>5
  <2>. DEFINE owner == CredentialOwner(p, s)
  <2>2. outcome.source = owner
    BY <1>4, <2>1 DEF OutcomeOk
  <2>3. outcome.status = "ready" =>
          /\ s.entry.url # "other"
          /\ outcome.sent \in SecretsOf(owner, s) \cup HeaderSecrets(s)
          /\ s.entry.header \notin {"command", "twice"}
          /\ s.stored.kind = "api-key" => s.stored.key # "command"
          /\ RejectsApiKeys(p) => /\ s.stored.kind = "oauth"
                                  /\ outcome.sent = IF p = "github-copilot" THEN "refresh" ELSE "access"
          /\ RequiresBearer(p) => outcome.sent # "basic"
          /\ SharedVariable(p) => owner # "environment"
    BY <1>3, <1>5, <2>0, <2>1 DEF OutcomeOk
  <2>. QED
    BY <1>7, <2>2, <2>3 DEF CredentialPolicy, CredentialOwner, Reliable, s, p, outcome
<1>. QED
  BY <1>6, <1>7

-----------------------------------------------------------------------------
(* Provider usage: the order of the catalog.                                   *)

\* Some number of a set of numbers is the least,
LEMMA LeastOf ==
  ASSUME NEW S, S \subseteq Nat, S # {}
  PROVE  \E m \in S : \A k \in S : m <= k
<1>. DEFINE below == OpToRel(<, Nat)
<1>1. IsWellFoundedOn(below, Nat)
  BY NatLessThanWellFounded, Zenon
<1>2. PICK m \in S : \A k \in S : <<k, m>> \notin below
  BY <1>1, WFMin, Zenon
<1>3. \A k \in S : ~(k < m)
  BY <1>2, Zenon DEF OpToRel
<1>. QED
  BY <1>3

\* so the providers of a set can be put into order,
LEMMA OrderExists ==
  ASSUME NEW ps \in SUBSET UsageIds
  PROVE  \E s \in [1..Cardinality(ps) -> ps] : \A i, j \in DOMAIN s : i < j => s[i] < s[j]
<1>. DEFINE Sorted(qs, s) == s \in [1..Cardinality(qs) -> qs] /\ \A i, j \in DOMAIN s : i < j => s[i] < s[j]
            bad == {n \in Nat : \E qs \in SUBSET UsageIds : Cardinality(qs) = n /\ \A s : ~Sorted(qs, s)}
<1>0. \A qs \in SUBSET UsageIds : IsFiniteSet(qs) /\ Cardinality(qs) \in Nat /\ qs \subseteq Nat
  BY UsageAssumption, FS_Subset, FS_CardinalityType, Zenon
<1>1. SUFFICES ASSUME bad # {} PROVE FALSE
  BY <1>0, Zenon
<1>2. PICK n \in bad : \A k \in bad : n <= k
  <2>. HIDE DEF bad
  <2>1. bad \subseteq Nat
    BY DEF bad
  <2>. QED
    BY <1>1, <2>1, LeastOf, Zenon
<1>3. PICK qs \in SUBSET UsageIds : Cardinality(qs) = n /\ \A s : ~Sorted(qs, s)
  BY <1>2
<1>4. qs # {}
  <2>1. ASSUME qs = {} PROVE FALSE
    <3>1. Cardinality(qs) = 0
      BY <2>1, FS_EmptySet
    <3>2. Sorted(qs, [i \in 1..0 |-> 0])
      BY <2>1, <3>1
    <3>. QED
      BY <1>3, <3>2, Zenon
  <2>. QED
    BY <2>1
<1>5. PICK a \in qs : \A q \in qs : a <= q
  BY <1>0, <1>3, <1>4, LeastOf
<1>6. qs \ {a} \in SUBSET UsageIds /\ Cardinality(qs \ {a}) = n - 1 /\ n - 1 \in Nat /\ n \in Nat
  <2>1. qs \ {a} \in SUBSET UsageIds
    OBVIOUS
  <2>2. Cardinality(qs \ {a}) = n - 1
    BY <1>0, <1>3, <1>5, FS_RemoveElement, Zenon
  <2>. QED
    BY <1>0, <1>3, <2>1, <2>2
<1>7. PICK s : Sorted(qs \ {a}, s)
  <2>1. n - 1 \notin bad
    BY <1>2, <1>6
  <2>. QED
    BY <1>6, <2>1, Zenon
<1>8. s \in [1..(n - 1) -> qs \ {a}] /\ \A i, j \in 1..(n - 1) : i < j => s[i] < s[j]
  BY <1>6, <1>7, Zenon
<1>. DEFINE t == [i \in 1..n |-> IF i = 1 THEN a ELSE s[i - 1]]
<1>9. t \in [1..n -> qs]
  BY <1>6, <1>8, <1>5
<1>10. \A i, j \in 1..n : i < j => t[i] < t[j]
  <2>. SUFFICES ASSUME NEW i \in 1..n, NEW j \in 1..n, i < j PROVE t[i] < t[j]
    OBVIOUS
  <2>1. j - 1 \in 1..(n - 1) /\ t[j] = s[j - 1] /\ s[j - 1] \in qs /\ s[j - 1] # a
    BY <1>6, <1>8
  <2>2. CASE i = 1
    BY <1>0, <1>3, <1>5, <2>1, <2>2
  <2>3. CASE i # 1
    BY <1>6, <1>8, <2>1, <2>3
  <2>. QED
    BY <2>2, <2>3
<1>11. Sorted(qs, t)
  BY <1>3, <1>9, <1>10
<1>. QED
  BY <1>3, <1>11, Zenon

\* which is what the catalog does.
LEMMA InOrderIs ==
  ASSUME NEW ps \in SUBSET UsageIds
  PROVE  /\ Cardinality(ps) \in Nat
         /\ InOrder(ps) \in [1..Cardinality(ps) -> ps] /\ InOrder(ps) \in Seq(UsageIds)
         /\ \A i, j \in 1..Cardinality(ps) : i < j => InOrder(ps)[i] < InOrder(ps)[j]
         /\ \A p : ps = {p} => InOrder(ps) = <<p>>
<1>1. Cardinality(ps) \in Nat
  BY UsageAssumption, FS_Subset, FS_CardinalityType, Zenon
<1>2. InOrder(ps) \in [1..Cardinality(ps) -> ps] /\ \A i, j \in DOMAIN InOrder(ps) : i < j => InOrder(ps)[i] < InOrder(ps)[j]
  BY OrderExists, Zenon DEF InOrder
<1>. DEFINE s == InOrder(ps)
<1>. HIDE DEF s
<1>3. s \in [1..Cardinality(ps) -> ps]
  BY <1>2 DEF s
<1>4. s \in Seq(UsageIds)
  BY <1>1, <1>3
<1>5. ASSUME NEW p, ps = {p} PROVE s = <<p>>
  <2>1. Cardinality(ps) = 1
    BY <1>5, FS_Singleton
  <2>. QED
    BY <1>3, <1>5, <2>1
<1>. QED
  BY <1>1, <1>2, <1>4, <1>5, Zenon DEF s

-----------------------------------------------------------------------------
(* Provider usage: what the panel, the host and the snapshots have.             *)

Results == [provider : UsageIds, status : {"ready", "failed", "unavailable"}, source : Sources, by : Nat]
Listings == [UsageIds -> Sources]
UsageMessages == [type : {"list", "query", "cancel"}, id : Nat, scope : Nat]
UsageReplies == [type : {"listing", "results", "error"}, id : Nat, listing : Listings, results : Seq(Results)]
UsagePanels ==
    [open : BOOLEAN, current : Nat, listed : Listings, known : BOOLEAN, scope : Nat,
     loading : {"none", "providers", "usage"}, error : BOOLEAN, results : Seq(Results), queried : BOOLEAN,
     stage : {"none", "load", "list", "query"}, awaits : Nat, asks : Nat, refresh : BOOLEAN, since : Nat]
UsageWires == [toHost : Seq(UsageMessages), toPage : Seq(UsageReplies), fresh : Nat \ {0}]

\* Messages are numbered in the order they are sent in: what the host has not yet got is
\* newer than what it works on, and that is newer than what it has answered.
WireOk(w, task) ==
    /\ w \in UsageWires /\ w.fresh <= MaxUsageIds + 1
    /\ \A i \in DOMAIN w.toHost : w.toHost[i].id < w.fresh /\ (w.toHost[i].type = "cancel" \/ w.toHost[i].id > task.id)
    /\ \A i, j \in DOMAIN w.toHost :
           i < j /\ w.toHost[i].type # "cancel" /\ w.toHost[j].type # "cancel" => w.toHost[i].id < w.toHost[j].id
    /\ \A i \in DOMAIN w.toPage : w.toPage[i].id < w.fresh
    /\ task.id \in Nat /\ task.id < w.fresh /\ (task.stage = "none" <=> task.id = 0)

\* Whether a list of results is one of the scope: in the order of the catalog, each once.
ScopeResults(results, scope) ==
    /\ \A i, j \in DOMAIN results : i < j => results[i].provider < results[j].provider
    /\ scope # AllProviders /\ results # <<>> => [i \in DOMAIN results |-> results[i].provider] = <<scope>>
AnswersPanel(panel, reply) ==
    \/ reply.type = "error"
    \/ panel.stage \in {"load", "list"} /\ reply.type = "listing"
    \/ /\ panel.stage = "query" /\ reply.type = "results" /\ ScopeResults(reply.results, panel.asks)
       /\ \A i \in DOMAIN reply.results : reply.results[i].by = reply.id
AsksForPanel(panel, message) ==
    IF panel.stage = "query" THEN message.type = "query" /\ message.scope = panel.asks ELSE message.type = "list"

\* What the panel waits for is its newest request: it has not been cancelled, is on its way
\* or being worked on, or its answer is on its way.
AwaitOk(panel, w, task) ==
    panel.stage # "none" =>
        /\ panel.awaits = w.fresh - 1 /\ panel.awaits > 0
        /\ \A i \in DOMAIN w.toHost : w.toHost[i].type = "cancel" => w.toHost[i].id < panel.awaits
        /\ \A i \in DOMAIN w.toHost : w.toHost[i].type # "cancel" /\ w.toHost[i].id = panel.awaits => AsksForPanel(panel, w.toHost[i])
        /\ task.id = panel.awaits => AsksForPanel(panel, task)
        /\ \A i \in DOMAIN w.toPage : w.toPage[i].id = panel.awaits => AnswersPanel(panel, w.toPage[i])
        /\ \/ \E i \in DOMAIN w.toHost : w.toHost[i].id = panel.awaits /\ w.toHost[i].type # "cancel"
           \/ task.id = panel.awaits
           \/ \E i \in DOMAIN w.toPage : w.toPage[i].id = panel.awaits

PanelOk(panel) ==
    /\ panel \in UsagePanels
    /\ panel.loading = CASE panel.stage = "none" -> "none" [] panel.stage = "load" -> "providers" [] OTHER -> "usage"
    /\ panel.stage \in {"list", "query"} => panel.asks = panel.scope /\ panel.since <= panel.awaits /\ panel.scope \in UsageIds \cup {AllProviders}
    /\ panel.stage # "none" => panel.results = <<>>
    /\ ~panel.known => panel.listed = UnlistedCatalog /\ panel.results = <<>> /\ panel.stage \in {"none", "load"}
    /\ panel.results # <<>> => panel.queried /\ panel.asks = panel.scope
    /\ ScopeResults(panel.results, panel.scope)
    /\ panel.refresh => \A i \in DOMAIN panel.results : panel.results[i].by >= panel.since

\* The host works for the scope it was asked for, from one reading of the configuration.
TaskOk(task) ==
    /\ task = [id |-> task.id, type |-> task.type, scope |-> task.scope, stage |-> task.stage, todo |-> task.todo,
               busy |-> task.busy, got |-> task.got, sources |-> task.sources]
    /\ task.stage \in {"none", "listing", "resolving", "asking"} /\ task.sources \in Listings
    /\ task.stage # "none" => task.type \in {"list", "query"}
    /\ task.stage \in {"resolving", "asking"} => task.type = "query" /\ task.scope \in UsageIds \cup {AllProviders}
    /\ task.stage = "asking" =>
           /\ task.todo \in Seq(UsageIds)
           /\ \A i, j \in DOMAIN task.todo : i < j => task.todo[i] < task.todo[j]
           /\ task.scope # AllProviders => task.todo = <<task.scope>>
           /\ \A p \in UsageIds : p \in DOMAIN task.got =>
                  /\ task.got[p] \in Results /\ task.got[p].provider = p /\ task.got[p].by = task.id
                  /\ task.got[p].source = task.sources[p]

KeptOk(shots) ==
    /\ shots = [listed |-> shots.listed, kept |-> shots.kept]
    /\ shots.listed \in Listings /\ DOMAIN shots.kept \subseteq UsageIds
    /\ \A p \in DOMAIN shots.kept : shots.kept[p] \in Results /\ shots.kept[p].provider = p

\* A source that has been given up is not named again unless the user goes back to it.
Past(p) == accounts.had[p] \ {accounts.now[p]}
Fits(source, p, shots) == source = shots.listed[p] \/ shots.listed[p] \in Past(p)
RepliesRead(w) ==
    \A i \in DOMAIN w.toPage : w.toPage[i].type = "listing" => \A p \in UsageIds : w.toPage[i].listing[p] \in accounts.had[p]
KeptFits(shots) == ~accounts.back => \A p \in DOMAIN shots.kept : Fits(shots.kept[p].source, p, shots)
ReplyFits(panel, reply, shots) ==
    /\ panel.stage \in {"load", "list"} /\ reply.type = "listing" =>
           \A p \in DOMAIN shots.kept : shots.kept[p].source = shots.listed[p] \/ reply.listing[p] # shots.listed[p]
    /\ panel.stage = "query" /\ reply.type = "results" =>
           \A k \in DOMAIN reply.results : Fits(reply.results[k].source, reply.results[k].provider, shots)
SourcesOk(panel, w, task, shots) ==
    /\ RepliesRead(w) /\ KeptFits(shots)
    /\ panel.stage = "query" => \A p \in UsageIds : shots.listed[p] \in accounts.had[p]
    /\ ~accounts.back /\ panel.stage = "query" /\ task.id = panel.awaits /\ task.stage = "asking" =>
           \A p \in UsageIds : Fits(task.sources[p], p, shots)
    /\ ~accounts.back /\ panel.stage # "none" =>
           \A i \in DOMAIN w.toPage : w.toPage[i].id = panel.awaits => ReplyFits(panel, w.toPage[i], shots)
AccountsOk ==
    /\ accounts.now \in Listings /\ accounts.had \in [UsageIds -> SUBSET Sources]
    /\ \A p \in UsageIds : accounts.now[p] \in accounts.had[p]
UsageInv ==
    /\ WireOk(usageWire, usageTask) /\ AwaitOk(usagePanel, usageWire, usageTask) /\ PanelOk(usagePanel)
    /\ TaskOk(usageTask) /\ KeptOk(snapshots) /\ AccountsOk
    /\ SourcesOk(usagePanel, usageWire, usageTask, snapshots)

\* A cancellation is one message more, which asks for nothing.
LEMMA AbortKeeps ==
  ASSUME NEW panel \in UsagePanels, NEW w, NEW task, WireOk(w, task), panel.stage = "none" \/ panel.awaits < w.fresh
  PROVE  WireOk(Abort(panel, w), task) /\ Abort(panel, w).fresh = w.fresh /\ Abort(panel, w).toPage = w.toPage
<1>1. CASE panel.stage = "none"
  BY <1>1 DEF Abort
<1>2. CASE panel.stage # "none"
  <2>. DEFINE m == [type |-> "cancel", id |-> panel.awaits, scope |-> NoScope]
              mail == Append(w.toHost, m)
              v == [w EXCEPT !.toHost = mail]
  <2>0. w \in UsageWires /\ m \in UsageMessages /\ w.toHost \in Seq(UsageMessages)
    BY DEF WireOk, UsagePanels, UsageWires, UsageMessages, NoScope
  <2>1. Abort(panel, w) = v
    BY <1>2 DEF Abort
  <2>2. /\ mail \in Seq(UsageMessages) /\ Len(mail) = Len(w.toHost) + 1 /\ Len(w.toHost) \in Nat
        /\ \A i \in DOMAIN mail : (i \in DOMAIN w.toHost /\ mail[i] = w.toHost[i]) \/ (i = Len(w.toHost) + 1 /\ mail[i] = m)
    BY <2>0
  <2>. HIDE DEF mail
  <2>3. v \in UsageWires /\ v.fresh = w.fresh /\ v.toPage = w.toPage /\ v.toHost = mail
    BY <2>0, <2>2 DEF UsageWires
  <2>. HIDE DEF v
  <2>4. \A i \in DOMAIN mail : mail[i].id < w.fresh /\ (mail[i].type = "cancel" \/ mail[i].id > task.id)
    BY <1>2, <2>2 DEF WireOk
  <2>5. \A i, j \in DOMAIN mail : i < j /\ mail[i].type # "cancel" /\ mail[j].type # "cancel" => mail[i].id < mail[j].id
    BY <2>2 DEF WireOk
  <2>. QED
    BY <2>1, <2>3, <2>4, <2>5 DEF WireOk
<1>. QED
  BY <1>1, <1>2

\* A request is the newest message, and nothing else is about it.
LEMMA AskKeeps ==
  ASSUME NEW panel \in UsagePanels, NEW w, WireOk(w, usageTask), NEW stage \in {"load", "list", "query"},
         NEW loading \in {"providers", "usage"}, NEW type \in {"list", "query"}, type = "query" <=> stage = "query",
         Ask(panel, stage, loading, w, type)
  PROVE  /\ usagePanel' = [panel EXCEPT !.stage = stage, !.loading = loading, !.awaits = w.fresh] /\ usagePanel' \in UsagePanels
         /\ WireOk(usageWire', usageTask) /\ AwaitOk(usagePanel', usageWire', usageTask)
         /\ usageWire'.toPage = w.toPage /\ usagePanel'.awaits = w.fresh
         /\ usageTask.id # w.fresh /\ \A i \in DOMAIN w.toPage : w.toPage[i].id # w.fresh
<1>. DEFINE m == [type |-> type, id |-> w.fresh, scope |-> panel.asks]
            mail == Append(w.toHost, m)
            n == w.fresh + 1
            v == [w EXCEPT !.fresh = n, !.toHost = mail]
            p == [panel EXCEPT !.stage = stage, !.loading = loading, !.awaits = w.fresh]
<1>0. w \in UsageWires /\ w.fresh \in Nat \ {0} /\ m \in UsageMessages /\ w.toHost \in Seq(UsageMessages) /\ w.toPage \in Seq(UsageReplies)
  BY DEF WireOk, UsagePanels, UsageWires, UsageMessages
<1>1. usagePanel' = p /\ usageWire' = v /\ w.fresh <= MaxUsageIds
  BY DEF Ask
<1>2. /\ mail \in Seq(UsageMessages) /\ Len(mail) = Len(w.toHost) + 1 /\ Len(w.toHost) \in Nat
      /\ \A i \in DOMAIN mail : (i \in DOMAIN w.toHost /\ mail[i] = w.toHost[i]) \/ (i = Len(w.toHost) + 1 /\ mail[i] = m)
      /\ Len(w.toHost) + 1 \in DOMAIN mail /\ mail[Len(w.toHost) + 1] = m
  BY <1>0
<1>3. n \in Nat \ {0} /\ n - 1 = w.fresh
  BY <1>0
<1>. HIDE DEF mail, n
<1>4. v \in UsageWires /\ v.fresh = n /\ v.toPage = w.toPage /\ v.toHost = mail
  BY <1>0, <1>2, <1>3, Zenon DEF UsageWires
<1>5. p \in UsagePanels /\ p.stage = stage /\ p.awaits = w.fresh /\ p.asks = panel.asks
  BY <1>0, Zenon DEF UsagePanels
<1>. HIDE DEF v, p
<1>6. \A i \in DOMAIN w.toHost : w.toHost[i] \in UsageMessages /\ w.toHost[i].id \in Nat
  <2>1. \A i \in DOMAIN w.toHost : w.toHost[i] \in UsageMessages
    BY <1>0
  <2>. QED
    BY <2>1 DEF UsageMessages
<1>7. \A i \in DOMAIN w.toPage : w.toPage[i].id \in Nat /\ w.toPage[i].id < w.fresh
  <2>1. \A i \in DOMAIN w.toPage : w.toPage[i] \in UsageReplies
    BY <1>0
  <2>. QED
    BY <2>1 DEF UsageReplies, WireOk
<1>8. usageTask.id \in Nat /\ usageTask.id < w.fresh /\ (usageTask.stage = "none" <=> usageTask.id = 0) /\ MaxUsageIds \in Nat
  BY UsageAssumption DEF WireOk
<1>9. \A i \in DOMAIN mail : mail[i].id < n /\ (mail[i].type = "cancel" \/ mail[i].id > usageTask.id)
  <2>1. \A i \in DOMAIN w.toHost : w.toHost[i].id < w.fresh /\ (w.toHost[i].type = "cancel" \/ w.toHost[i].id > usageTask.id)
    BY DEF WireOk
  <2>. QED
    BY <1>0, <1>2, <1>3, <1>6, <1>8, <2>1, SMTT(30)
<1>10. \A i, j \in DOMAIN mail : i < j /\ mail[i].type # "cancel" /\ mail[j].type # "cancel" => mail[i].id < mail[j].id
  BY <1>0, <1>2, <1>6 DEF WireOk
<1>11. WireOk(v, usageTask)
  BY <1>0, <1>1, <1>3, <1>4, <1>7, <1>8, <1>9, <1>10 DEF WireOk
<1>12. AwaitOk(p, v, usageTask)
  <2>1. \A i \in DOMAIN mail : mail[i].type = "cancel" => mail[i].id < w.fresh
    BY <1>2 DEF WireOk
  <2>2. \A i \in DOMAIN mail : mail[i].type # "cancel" /\ mail[i].id = w.fresh => mail[i] = m
    <3>1. \A i \in DOMAIN w.toHost : w.toHost[i].id < w.fresh
      BY DEF WireOk
    <3>. QED
      BY <1>0, <1>2, <1>6, <3>1
  <2>3. AsksForPanel(p, m)
    BY <1>5 DEF AsksForPanel
  <2>4. m.type # "cancel" /\ m.id = w.fresh
    OBVIOUS
  <2>. QED
    BY <1>0, <1>2, <1>3, <1>4, <1>5, <1>7, <1>8, <2>1, <2>2, <2>3, <2>4, SMTT(30) DEF AwaitOk
<1>. QED
  BY <1>1, <1>4, <1>5, <1>7, <1>8, <1>11, <1>12 DEF p

\* After a request the panel waits for it; what it keeps and what is on its way says
\* nothing of it yet.
LEMMA SourcesAfterAsk ==
  ASSUME NEW panel, NEW w, NEW shots, WireOk(w, usageTask), RepliesRead(w), KeptFits(shots), UNCHANGED <<usageTask, accounts>>,
         usageWire'.toPage = w.toPage, usageTask.id # w.fresh, \A i \in DOMAIN w.toPage : w.toPage[i].id # w.fresh,
         usagePanel'.awaits = w.fresh, usagePanel'.stage = "query" => \A p \in UsageIds : shots.listed[p] \in accounts.had[p],
         snapshots' = shots
  PROVE  SourcesOk(usagePanel, usageWire, usageTask, snapshots)'
<1>1. RepliesRead(usageWire)' /\ KeptFits(snapshots)'
  BY DEF RepliesRead, KeptFits, Fits, Past
<1>. QED
  BY <1>1 DEF SourcesOk

\* The panel asks for the list of providers.
LEMMA LoadKeeps ==
  ASSUME UsageInv, NEW panel \in UsagePanels, NEW w, WireOk(w, usageTask), RepliesRead(w), panel.stage = "none" \/ panel.awaits < w.fresh,
         panel.results = <<>>, panel.known \/ panel.listed = UnlistedCatalog,
         LoadProviders(panel, w), UNCHANGED <<usageTask, accounts, snapshots>>
  PROVE  UsageInv'
<1>. DEFINE p == [panel EXCEPT !.error = FALSE]
            v == Abort(panel, w)
<1>1. WireOk(v, usageTask) /\ v.fresh = w.fresh /\ v.toPage = w.toPage
  BY AbortKeeps
<1>2. /\ p \in UsagePanels /\ p.results = <<>> /\ p.known = panel.known /\ p.listed = panel.listed /\ p.refresh = panel.refresh
      /\ p.scope = panel.scope /\ p.queried = panel.queried /\ p.since = panel.since /\ p.asks = panel.asks
  BY Zenon DEF UsagePanels
<1>3. Ask(p, "load", "providers", v, "list")
  BY DEF LoadProviders
<1>. HIDE DEF p, v
<1>4. /\ usagePanel' = [p EXCEPT !.stage = "load", !.loading = "providers", !.awaits = v.fresh] /\ usagePanel' \in UsagePanels
      /\ WireOk(usageWire', usageTask) /\ AwaitOk(usagePanel', usageWire', usageTask)
      /\ usageWire'.toPage = v.toPage /\ usagePanel'.awaits = v.fresh
      /\ usageTask.id # v.fresh /\ \A i \in DOMAIN v.toPage : v.toPage[i].id # v.fresh
  <2>1. /\ "list" = "query" <=> "load" = "query"
        /\ "load" \in {"load", "list", "query"} /\ "providers" \in {"providers", "usage"} /\ "list" \in {"list", "query"}
    OBVIOUS
  <2>. QED
    BY <1>1, <1>2, <1>3, <2>1, AskKeeps, ZenonT(30)
<1>5. usagePanel'.stage = "load" /\ usagePanel'.loading = "providers" /\ usagePanel'.results = <<>> /\ usagePanel'.known = p.known
      /\ usagePanel'.listed = p.listed
  BY <1>2, <1>4 DEF UsagePanels
<1>6. PanelOk(usagePanel')
  BY <1>2, <1>4, <1>5 DEF PanelOk, ScopeResults
<1>7. SourcesOk(usagePanel, usageWire, usageTask, snapshots)'
  <2>1. KeptFits(snapshots) /\ RepliesRead(v)
    BY <1>1 DEF UsageInv, SourcesOk, RepliesRead
  <2>. QED
    BY <1>1, <1>4, <1>5, <2>1, SourcesAfterAsk
<1>. QED
  BY <1>4, <1>6, <1>7 DEF UsageInv, KeptOk, TaskOk, AccountsOk, WireOk, AwaitOk, PanelOk

\* The panel asks for a usage, and lists again before.
LEMMA QueryKeeps ==
  ASSUME UsageInv, NEW panel \in UsagePanels, NEW w, WireOk(w, usageTask), RepliesRead(w), panel.stage = "none" \/ panel.awaits < w.fresh,
         panel.known \/ panel.listed = UnlistedCatalog, CanQuery(panel), NEW refresh \in BOOLEAN, NEW shots, KeptOk(shots), KeptFits(shots),
         Query(panel, refresh, w), UNCHANGED <<usageTask, accounts>>, snapshots' = shots
  PROVE  UsageInv'
<1>. DEFINE p == [panel EXCEPT !.error = FALSE, !.results = <<>>, !.queried = FALSE, !.asks = panel.scope,
                               !.refresh = refresh, !.since = w.fresh]
            v == Abort(panel, w)
<1>1. WireOk(v, usageTask) /\ v.fresh = w.fresh /\ v.toPage = w.toPage
  BY AbortKeeps
<1>0. w.fresh \in Nat
  BY DEF WireOk, UsageWires
<1>2. /\ p \in UsagePanels /\ p.results = <<>> /\ p.known = panel.known /\ p.listed = panel.listed
      /\ p.scope = panel.scope /\ p.asks = panel.scope /\ p.since = w.fresh
  <2>1. <<>> \in Seq(Results)
    OBVIOUS
  <2>. QED
    BY <1>0, <2>1, Zenon DEF UsagePanels
<1>3. Ask(p, "list", "usage", v, "list")
  BY DEF Query
<1>. HIDE DEF p, v
<1>4. /\ usagePanel' = [p EXCEPT !.stage = "list", !.loading = "usage", !.awaits = v.fresh] /\ usagePanel' \in UsagePanels
      /\ WireOk(usageWire', usageTask) /\ AwaitOk(usagePanel', usageWire', usageTask)
      /\ usageWire'.toPage = v.toPage /\ usagePanel'.awaits = v.fresh
      /\ usageTask.id # v.fresh /\ \A i \in DOMAIN v.toPage : v.toPage[i].id # v.fresh
  BY <1>1, <1>2, <1>3, AskKeeps, ZenonT(30)
<1>5. /\ usagePanel'.stage = "list" /\ usagePanel'.loading = "usage" /\ usagePanel'.results = <<>> /\ usagePanel'.known = p.known
      /\ usagePanel'.listed = p.listed /\ usagePanel'.asks = p.asks /\ usagePanel'.scope = p.scope /\ usagePanel'.since = p.since
  BY <1>2, <1>4 DEF UsagePanels
<1>6. panel.known /\ panel.scope \in UsageIds \cup {AllProviders}
  BY DEF CanQuery, ConfiguredIn, UnlistedCatalog, AvailableSources
<1>7. PanelOk(usagePanel')
  <2>1. usagePanel'.asks = usagePanel'.scope /\ usagePanel'.since <= usagePanel'.awaits /\ usagePanel'.scope \in UsageIds \cup {AllProviders}
        /\ usagePanel'.known
    <3>1. usagePanel'.asks = usagePanel'.scope /\ usagePanel'.scope = panel.scope /\ usagePanel'.known = panel.known
      BY <1>2, <1>5
    <3>2. usagePanel'.since = w.fresh /\ usagePanel'.awaits = w.fresh
      BY <1>1, <1>2, <1>4, <1>5
    <3>. QED
      BY <1>0, <1>6, <3>1, <3>2
  <2>. QED
    BY <1>4, <1>5, <2>1 DEF PanelOk, ScopeResults
<1>8. SourcesOk(usagePanel, usageWire, usageTask, snapshots)'
  <2>1. RepliesRead(v)
    BY <1>1 DEF RepliesRead
  <2>. QED
    BY <1>1, <1>4, <1>5, <2>1, SourcesAfterAsk
<1>. QED
  BY <1>4, <1>7, <1>8 DEF UsageInv, KeptOk, TaskOk, AccountsOk, WireOk, AwaitOk, PanelOk

\* The panel waits for nothing.
LEMMA RestKeeps ==
  ASSUME UsageInv, NEW panel, PanelOk(panel), panel.stage = "none", NEW w, WireOk(w, usageTask), RepliesRead(w),
         NEW shots, KeptOk(shots), KeptFits(shots),
         usagePanel' = panel, usageWire' = w, snapshots' = shots, UNCHANGED <<usageTask, accounts>>
  PROVE  UsageInv'
<1>1. SourcesOk(usagePanel, usageWire, usageTask, snapshots)'
  BY DEF SourcesOk, RepliesRead, KeptFits, Fits, Past
<1>2. AwaitOk(usagePanel, usageWire, usageTask)'
  BY DEF AwaitOk
<1>. QED
  BY <1>1, <1>2 DEF UsageInv, KeptOk, TaskOk, AccountsOk, WireOk, PanelOk

\* What the panel has, whatever it does next.
LEMMA PanelFacts ==
  ASSUME UsageInv
  PROVE  /\ usagePanel \in UsagePanels /\ (usagePanel.stage = "none" \/ usagePanel.awaits < usageWire.fresh)
         /\ usagePanel.known \/ (usagePanel.listed = UnlistedCatalog /\ usagePanel.results = <<>>)
         /\ WireOk(usageWire, usageTask) /\ RepliesRead(usageWire) /\ KeptOk(snapshots) /\ KeptFits(snapshots)
<1>1. usageWire.fresh \in Nat
  BY DEF UsageInv, WireOk, UsageWires
<1>2. usagePanel.known \/ (usagePanel.listed = UnlistedCatalog /\ usagePanel.results = <<>>)
  BY DEF UsageInv, PanelOk
<1>3. usagePanel.stage = "none" \/ usagePanel.awaits < usageWire.fresh
  BY <1>1 DEF UsageInv, AwaitOk
<1>4. usagePanel \in UsagePanels
  BY DEF UsageInv, PanelOk
<1>. QED
  BY <1>2, <1>3, <1>4 DEF UsageInv, SourcesOk

\* A panel that has just been opened,
LEMMA ClosedIs ==
  /\ ClosedPanel \in UsagePanels /\ PanelOk(ClosedPanel) /\ ClosedPanel.stage = "none" /\ ClosedPanel.results = <<>>
  /\ ClosedPanel.listed = UnlistedCatalog
<1>1. <<>> \in Seq(Results) /\ UnlistedCatalog \in Listings /\ NoScope \in Nat
  BY DEF UnlistedCatalog, Listings, Sources, NoScope
<1>2. ClosedPanel \in UsagePanels
  BY <1>1 DEF ClosedPanel, UsagePanels
<1>. QED
  BY <1>2 DEF ClosedPanel, PanelOk, ScopeResults, NoScope, AllProviders

\* is closed, opened or opened anew for another model.
LEMMA OpenedKeeps ==
  ASSUME UsageInv, NEW current \in Nat, OpenUsagePanel(current) \/ ModelChanges(current) \/ CloseUsagePanel
  PROVE  UsageInv'
<1>. DEFINE p == [ClosedPanel EXCEPT !.open = TRUE, !.current = current]
            v == Abort(usagePanel, usageWire)
<1>1. WireOk(v, usageTask) /\ v.fresh = usageWire.fresh /\ v.toPage = usageWire.toPage /\ RepliesRead(v)
  BY PanelFacts, AbortKeeps DEF RepliesRead
<1>2. p \in UsagePanels /\ p.stage = "none" /\ p.results = <<>> /\ p.listed = UnlistedCatalog
  BY ClosedIs, Zenon DEF UsagePanels
<1>3. CASE OpenUsagePanel(current)
  <2>1. LoadProviders(p, usageWire) /\ UNCHANGED <<usageTask, accounts, snapshots>>
    BY <1>3 DEF OpenUsagePanel
  <2>. HIDE DEF p
  <2>. QED
    BY <1>2, <2>1, PanelFacts, LoadKeeps
<1>4. CASE ModelChanges(current)
  <2>1. LoadProviders(p, v) /\ UNCHANGED <<usageTask, accounts, snapshots>>
    BY <1>4 DEF ModelChanges
  <2>. HIDE DEF p, v
  <2>. QED
    BY <1>1, <1>2, <2>1, LoadKeeps
<1>5. CASE CloseUsagePanel
  <2>1. usagePanel' = ClosedPanel /\ usageWire' = v /\ snapshots' = snapshots /\ UNCHANGED <<usageTask, accounts>>
    BY <1>5 DEF CloseUsagePanel
  <2>. HIDE DEF v
  <2>. QED
    BY <1>1, <2>1, ClosedIs, PanelFacts, RestKeeps
<1>. QED
  BY <1>3, <1>4, <1>5

\* Another scope is chosen, or its usage is asked for again.
LEMMA ChosenKeeps ==
  ASSUME UsageInv, (\E scope \in UsageIds \cup {AllProviders} : SelectScope(scope)) \/ RefreshUsage \/ TryAgain
  PROVE  UsageInv'
<1>1. ASSUME NEW scope \in UsageIds \cup {AllProviders}, SelectScope(scope) PROVE UsageInv'
  <2>. DEFINE p == [usagePanel EXCEPT !.scope = scope, !.stage = "none", !.loading = "none", !.results = <<>>,
                                      !.error = FALSE, !.queried = FALSE]
              v == Abort(usagePanel, usageWire)
  <2>1. WireOk(v, usageTask) /\ v.fresh = usageWire.fresh /\ v.toPage = usageWire.toPage /\ RepliesRead(v)
    BY PanelFacts, AbortKeeps DEF RepliesRead
  <2>2. scope \in Nat /\ <<>> \in Seq(Results)
    BY UsageAssumption DEF AllProviders
  <2>3. p \in UsagePanels /\ p.stage = "none" /\ p.results = <<>> /\ p.listed = usagePanel.listed /\ p.known = usagePanel.known /\ p.loading = "none"
    BY <2>2, PanelFacts, Zenon DEF UsagePanels
  <2>4. /\ CanQuery(p) => Query(p, FALSE, v)
        /\ ~CanQuery(p) => usagePanel' = p /\ usageWire' = v
        /\ UNCHANGED <<snapshots, usageTask, accounts>>
    BY <1>1, Zenon DEF SelectScope
  <2>. HIDE DEF p, v
  <2>5. p.known \/ p.listed = UnlistedCatalog
    BY <2>3, PanelFacts
  <2>6. CASE CanQuery(p)
    BY <2>1, <2>3, <2>4, <2>5, <2>6, PanelFacts, QueryKeeps, Zenon
  <2>7. CASE ~CanQuery(p)
    <3>1. PanelOk(p)
      BY <2>3, <2>5 DEF PanelOk, ScopeResults
    <3>. QED
      BY <2>1, <2>3, <2>4, <2>7, <3>1, PanelFacts, RestKeeps
  <2>. QED
    BY <2>6, <2>7
<1>2. CASE RefreshUsage
  <2>1. CanQuery(usagePanel) /\ Query(usagePanel, TRUE, usageWire) /\ UNCHANGED <<snapshots, usageTask, accounts>>
    BY <1>2, Zenon DEF RefreshUsage
  <2>. QED
    BY <2>1, PanelFacts, QueryKeeps, Zenon
<1>3. CASE TryAgain
  <2>1. CASE usagePanel.known
    <3>1. CanQuery(usagePanel) /\ Query(usagePanel, FALSE, usageWire) /\ UNCHANGED <<snapshots, usageTask, accounts>>
      BY <1>3, <2>1, Zenon DEF TryAgain
    <3>. QED
      BY <3>1, PanelFacts, QueryKeeps, Zenon
  <2>2. CASE ~usagePanel.known
    <3>1. LoadProviders(usagePanel, usageWire) /\ UNCHANGED <<snapshots, usageTask, accounts>>
      BY <1>3, <2>2 DEF TryAgain
    <3>. QED
      BY <2>2, <3>1, PanelFacts, LoadKeeps
  <2>. QED
    BY <2>1, <2>2
<1>. QED
  BY <1>1, <1>2, <1>3

\* A function on the first numbers is a sequence.
LEMMA FunctionIsSeq ==
  ASSUME NEW S, NEW n \in Nat, NEW f \in [1..n -> S]
  PROVE  f \in Seq(S)
  OBVIOUS

\* A listing drops the snapshots whose source it does not name again.
LEMMA RelistOk ==
  ASSUME UsageInv, NEW listing \in Listings,
         ~accounts.back => \A p \in DOMAIN snapshots.kept : snapshots.kept[p].source = snapshots.listed[p] \/ listing[p] # snapshots.listed[p]
  PROVE  KeptOk(Relist(listing)) /\ KeptFits(Relist(listing)) /\ Relist(listing).listed = listing
<1>1. KeptOk(Relist(listing))
  BY DEF UsageInv, KeptOk, Relist
<1>2. KeptFits(Relist(listing))
  BY DEF KeptFits, Fits, Relist
<1>. QED
  BY <1>1, <1>2 DEF Relist

\* What is shown from the snapshots is of the scope.
LEMMA CachedOk ==
  ASSUME NEW shots, KeptOk(shots), NEW wanted \in SUBSET UsageIds, wanted \subseteq DOMAIN shots.kept,
         NEW scope \in UsageIds \cup {AllProviders}, scope # AllProviders => wanted = {scope},
         NEW results, results = [i \in 1..Cardinality(wanted) |-> shots.kept[InOrder(wanted)[i]]]
  PROVE  results \in Seq(Results) /\ ScopeResults(results, scope)
<1>. DEFINE order == InOrder(wanted)
            n == Cardinality(wanted)
<1>1. n \in Nat /\ order \in [1..n -> wanted] /\ (\A i, j \in 1..n : i < j => order[i] < order[j]) /\ (\A p : wanted = {p} => order = <<p>>)
  BY InOrderIs, Zenon
<1>2. results = [i \in 1..n |-> shots.kept[order[i]]]
  OBVIOUS
<1>. HIDE DEF order, n
<1>3. \A i \in 1..n : results[i] \in Results /\ results[i].provider = order[i]
  <2>1. \A i \in 1..n : order[i] \in DOMAIN shots.kept
    BY <1>1
  <2>2. \A i \in 1..n : shots.kept[order[i]] \in Results /\ shots.kept[order[i]].provider = order[i]
    BY <2>1 DEF KeptOk
  <2>. QED
    BY <1>2, <2>2, Zenon
<1>4. results \in Seq(Results) /\ DOMAIN results = 1..n
  <2>1. results \in [1..n -> Results]
    BY <1>2, <1>3, Zenon
  <2>2. n \in Nat
    BY <1>1
  <2>3. results \in Seq(Results)
    BY <2>1, <2>2, FunctionIsSeq, Zenon
  <2>. QED
    BY <2>1, <2>3
<1>5. ASSUME scope # AllProviders PROVE [i \in DOMAIN results |-> results[i].provider] = <<scope>>
  <2>1. order = <<scope>> /\ n = 1
    <3>1. wanted = {scope} /\ order = <<scope>>
      BY <1>1, <1>5, Zenon
    <3>2. n = 1
      BY <3>1, FS_Singleton, Zenon DEF n
    <3>. QED
      BY <3>1, <3>2
  <2>2. results[1].provider = scope
    BY <1>3, <2>1
  <2>. QED
    BY <1>4, <2>1, <2>2
<1>6. \A i, j \in DOMAIN results : i < j => results[i].provider < results[j].provider
  <2>. SUFFICES ASSUME NEW i \in 1..n, NEW j \in 1..n, i < j PROVE results[i].provider < results[j].provider
    BY <1>4, Zenon
  <2>1. order[i] < order[j]
    BY <1>1
  <2>. QED
    BY <1>3, <2>1
<1>. QED
  BY <1>4, <1>5, <1>6 DEF ScopeResults

\* The panel has the list that it needed, and shows what it kept or asks.
LEMMA AskUsageKeeps ==
  ASSUME UsageInv, NEW panel, PanelOk(panel), panel.stage = "list", panel.known, NEW w, WireOk(w, usageTask), RepliesRead(w),
         panel.awaits < w.fresh, NEW shots, KeptOk(shots), KeptFits(shots),
         \A p \in UsageIds : shots.listed[p] \in accounts.had[p],
         AskUsage(panel, w, shots), UNCHANGED <<usageTask, accounts>>
  PROVE  UsageInv'
<1>. DEFINE wanted == Wanted(panel, shots.listed)
            left == IF panel.refresh THEN [shots EXCEPT !.kept = [p \in DOMAIN shots.kept \ wanted |-> shots.kept[p]]] ELSE shots
            results == [i \in 1..Cardinality(wanted) |-> shots.kept[InOrder(wanted)[i]]]
<1>0. panel \in UsagePanels /\ w.fresh \in Nat /\ panel.asks = panel.scope /\ panel.scope \in UsageIds \cup {AllProviders}
      /\ panel.since <= panel.awaits /\ panel.results = <<>>
  BY DEF PanelOk, WireOk, UsageWires
<1>1. KeptOk(left) /\ KeptFits(left) /\ left.listed = shots.listed
  BY DEF KeptOk, KeptFits, Fits
<1>2. snapshots' = left
  BY DEF AskUsage
<1>3. wanted \in SUBSET UsageIds /\ (panel.scope # AllProviders => wanted = {panel.scope})
  BY <1>0 DEF Wanted, ConfiguredIn
<1>4. CASE ~panel.refresh /\ wanted # {} /\ wanted \subseteq DOMAIN shots.kept
  <2>. DEFINE p == ShowResults(panel, results)
  <2>1. usagePanel' = p /\ usageWire' = w
    BY <1>4 DEF AskUsage
  <2>2. results \in Seq(Results) /\ ScopeResults(results, panel.scope)
    BY <1>0, <1>3, <1>4, CachedOk, ZenonT(30)
  <2>. HIDE DEF results, left
  <2>3. p \in UsagePanels /\ p.stage = "none" /\ p.loading = "none" /\ p.results = results /\ p.queried /\ p.asks = panel.asks
        /\ p.scope = panel.scope /\ p.refresh = panel.refresh /\ p.known = panel.known
    BY <1>0, <2>2, Zenon DEF ShowResults, UsagePanels
  <2>4. PanelOk(p)
    BY <1>0, <1>4, <2>2, <2>3 DEF PanelOk
  <2>. HIDE DEF p
  <2>. QED
    BY <1>1, <1>2, <2>1, <2>3, <2>4, RestKeeps
<1>5. CASE ~(~panel.refresh /\ wanted # {} /\ wanted \subseteq DOMAIN shots.kept)
  <2>1. Ask(panel, "query", "usage", w, "query")
    BY <1>5 DEF AskUsage
  <2>2. /\ "query" = "query" <=> "query" = "query"
        /\ "query" \in {"load", "list", "query"} /\ "usage" \in {"providers", "usage"} /\ "query" \in {"list", "query"}
    OBVIOUS
  <2>3. /\ usagePanel' = [panel EXCEPT !.stage = "query", !.loading = "usage", !.awaits = w.fresh] /\ usagePanel' \in UsagePanels
        /\ WireOk(usageWire', usageTask) /\ AwaitOk(usagePanel', usageWire', usageTask)
        /\ usageWire'.toPage = w.toPage /\ usagePanel'.awaits = w.fresh
        /\ usageTask.id # w.fresh /\ \A i \in DOMAIN w.toPage : w.toPage[i].id # w.fresh
    BY <1>0, <2>1, <2>2, AskKeeps, Zenon
  <2>4. /\ usagePanel'.stage = "query" /\ usagePanel'.loading = "usage" /\ usagePanel'.results = panel.results /\ usagePanel'.known = panel.known
        /\ usagePanel'.asks = panel.asks /\ usagePanel'.scope = panel.scope /\ usagePanel'.since = panel.since
    BY <1>0, <2>3, Zenon DEF UsagePanels
  <2>. HIDE DEF left
  <2>5. usagePanel'.since <= usagePanel'.awaits
    <3>1. panel.since \in Nat /\ panel.awaits \in Nat
      BY <1>0 DEF UsagePanels
    <3>. QED
      BY <1>0, <2>3, <2>4, <3>1
  <2>6. PanelOk(usagePanel')
    BY <1>0, <2>3, <2>4, <2>5 DEF PanelOk, ScopeResults
  <2>7. SourcesOk(usagePanel, usageWire, usageTask, snapshots)'
    BY <1>1, <1>2, <2>3, SourcesAfterAsk
  <2>. QED
    BY <1>1, <1>2, <2>3, <2>6, <2>7 DEF UsageInv, KeptOk, TaskOk, AccountsOk, WireOk, AwaitOk, PanelOk
<1>. QED
  BY <1>4, <1>5

\* A reply is taken from the line.
LEMMA TakenIs ==
  ASSUME UsageInv, usageWire.toPage # <<>>, NEW w, w = [usageWire EXCEPT !.toPage = Tail(usageWire.toPage)],
         NEW reply, reply = Head(usageWire.toPage)
  PROVE  /\ WireOk(w, usageTask) /\ RepliesRead(w) /\ w.fresh = usageWire.fresh /\ w.toHost = usageWire.toHost
         /\ reply \in UsageReplies /\ 1 \in DOMAIN usageWire.toPage /\ reply = usageWire.toPage[1]
         /\ \A i \in DOMAIN w.toPage : i + 1 \in DOMAIN usageWire.toPage /\ w.toPage[i] = usageWire.toPage[i + 1]
         /\ \A i \in DOMAIN usageWire.toPage : i = 1 \/ (i - 1 \in DOMAIN w.toPage /\ w.toPage[i - 1] = usageWire.toPage[i])
<1>. DEFINE mail == Tail(usageWire.toPage)
<1>0. usageWire \in UsageWires /\ usageWire.toPage \in Seq(UsageReplies)
  BY DEF UsageInv, WireOk, UsageWires
<1>1. /\ mail \in Seq(UsageReplies) /\ reply \in UsageReplies /\ 1 \in DOMAIN usageWire.toPage /\ reply = usageWire.toPage[1]
      /\ \A i \in DOMAIN mail : i + 1 \in DOMAIN usageWire.toPage /\ mail[i] = usageWire.toPage[i + 1]
      /\ \A i \in DOMAIN usageWire.toPage : i = 1 \/ (i - 1 \in DOMAIN mail /\ mail[i - 1] = usageWire.toPage[i])
  BY <1>0
<1>. HIDE DEF mail
<1>2. w = [usageWire EXCEPT !.toPage = mail]
  BY DEF mail
<1>3. w \in UsageWires /\ w.fresh = usageWire.fresh /\ w.toHost = usageWire.toHost /\ w.toPage = mail
  BY <1>0, <1>1, <1>2, Zenon DEF UsageWires
<1>4. \A i \in DOMAIN mail : mail[i].id < usageWire.fresh
  BY <1>1 DEF UsageInv, WireOk
<1>5. WireOk(w, usageTask)
  BY <1>3, <1>4 DEF UsageInv, WireOk
<1>6. RepliesRead(w)
  BY <1>1, <1>3 DEF UsageInv, SourcesOk, RepliesRead
<1>. QED
  BY <1>1, <1>3, <1>5, <1>6

\* The results that are ready are kept, the other providers' snapshots stay.
LEMMA AnswerKept ==
  ASSUME UsageInv, NEW reply \in UsageReplies, NEW messages, usagePanel.stage = "query", AnswerUsage(reply, messages),
         \A i \in DOMAIN reply.results : ~accounts.back => Fits(reply.results[i].source, reply.results[i].provider, snapshots)
  PROVE  KeptOk(snapshots') /\ KeptFits(snapshots')
<1>. DEFINE ready == {i \in DOMAIN reply.results : reply.results[i].status = "ready"}
            told == {reply.results[i].provider : i \in DOMAIN reply.results}
            providers == {reply.results[i].provider : i \in ready}
            of == [p \in providers |-> reply.results[CHOOSE i \in ready : reply.results[i].provider = p]]
            kept == [p \in (DOMAIN snapshots.kept \ told) \cup DOMAIN of |-> IF p \in DOMAIN of THEN of[p] ELSE snapshots.kept[p]]
<1>0. KeptOk(snapshots) /\ KeptFits(snapshots) /\ reply.results \in Seq(Results)
  BY DEF UsageInv, SourcesOk, UsageReplies
<1>1. snapshots' = [snapshots EXCEPT !.kept = kept]
  BY DEF AnswerUsage
<1>2. \A i \in DOMAIN reply.results : reply.results[i] \in Results
  BY <1>0
<1>3. ASSUME NEW p \in providers
      PROVE  of[p] \in Results /\ of[p].provider = p /\ (~accounts.back => Fits(of[p].source, p, snapshots))
  <2>. DEFINE i == CHOOSE k \in ready : reply.results[k].provider = p
  <2>1. i \in ready /\ reply.results[i].provider = p /\ of[p] = reply.results[i]
    OBVIOUS
  <2>. HIDE DEF i, of
  <2>. QED
    BY <1>2, <2>1
<1>4. DOMAIN of = providers /\ providers \subseteq UsageIds
  BY <1>2 DEF Results
<1>. HIDE DEF of, providers, told
<1>5. /\ snapshots'.kept = kept /\ snapshots'.listed = snapshots.listed
      /\ snapshots' = [listed |-> snapshots'.listed, kept |-> snapshots'.kept]
  BY <1>0, <1>1 DEF KeptOk
<1>6. DOMAIN kept = (DOMAIN snapshots.kept \ told) \cup providers
  BY <1>4
<1>7. ASSUME NEW p \in DOMAIN kept
      PROVE  p \in UsageIds /\ kept[p] \in Results /\ kept[p].provider = p /\ (~accounts.back => Fits(kept[p].source, p, snapshots))
  <2>1. CASE p \in providers
    BY <1>3, <1>4, <2>1
  <2>2. CASE p \notin providers
    <3>1. kept[p] = snapshots.kept[p] /\ p \in DOMAIN snapshots.kept
      BY <1>4, <1>6, <2>2
    <3>. QED
      BY <1>0, <3>1 DEF KeptOk, KeptFits
  <2>. QED
    BY <2>1, <2>2
<1>. HIDE DEF kept
<1>8. KeptOk(snapshots')
  BY <1>0, <1>5, <1>7 DEF KeptOk
<1>. QED
  BY <1>5, <1>7, <1>8 DEF KeptFits, Fits

\* The panel gets what it waits for, or what nobody waits for any more.
LEMMA ReceiveUsageKeeps ==
  ASSUME UsageInv, ReceiveUsage
  PROVE  UsageInv'
<1>. DEFINE reply == Head(usageWire.toPage)
            w == [usageWire EXCEPT !.toPage = Tail(usageWire.toPage)]
<1>0. usageWire.toPage # <<>> /\ UNCHANGED <<usageTask, accounts>>
  BY DEF ReceiveUsage
<1>1. /\ WireOk(w, usageTask) /\ RepliesRead(w) /\ w.fresh = usageWire.fresh /\ w.toHost = usageWire.toHost
      /\ reply \in UsageReplies /\ 1 \in DOMAIN usageWire.toPage /\ reply = usageWire.toPage[1]
      /\ \A i \in DOMAIN w.toPage : i + 1 \in DOMAIN usageWire.toPage /\ w.toPage[i] = usageWire.toPage[i + 1]
      /\ \A i \in DOMAIN usageWire.toPage : i = 1 \/ (i - 1 \in DOMAIN w.toPage /\ w.toPage[i - 1] = usageWire.toPage[i])
  BY <1>0, TakenIs, Zenon
<1>2. IF usagePanel.stage = "none" \/ reply.id # usagePanel.awaits
      THEN usageWire' = w /\ UNCHANGED <<usagePanel, snapshots>>
      ELSE CASE reply.type = "error" -> usageWire' = w /\ usagePanel' = UsageFailed(usagePanel) /\ UNCHANGED snapshots
             [] reply.type = "listing" -> AnswerListing(reply, w)
             [] OTHER -> AnswerUsage(reply, w)
  BY DEF ReceiveUsage
<1>. HIDE DEF reply, w
<1>3. CASE usagePanel.stage = "none" \/ reply.id # usagePanel.awaits
  <2>1. AwaitOk(usagePanel, w, usageTask)
    <3>1. usagePanel.stage # "none" => \A i \in DOMAIN w.toPage : w.toPage[i].id = usagePanel.awaits => AnswersPanel(usagePanel, w.toPage[i])
      BY <1>1 DEF UsageInv, AwaitOk
    <3>2. ASSUME usagePanel.stage # "none", NEW i \in DOMAIN usageWire.toPage, usageWire.toPage[i].id = usagePanel.awaits
          PROVE  \E k \in DOMAIN w.toPage : w.toPage[k].id = usagePanel.awaits
      BY <1>1, <1>3, <3>2
    <3>. QED
      BY <1>1, <3>1, <3>2 DEF UsageInv, AwaitOk
  <2>2. SourcesOk(usagePanel, w, usageTask, snapshots)
    BY <1>1 DEF UsageInv, SourcesOk
  <2>3. usageWire' = w /\ usagePanel' = usagePanel /\ snapshots' = snapshots /\ usageTask' = usageTask /\ accounts' = accounts
    BY <1>0, <1>2, <1>3
  <2>4. WireOk(usageWire, usageTask)' /\ AwaitOk(usagePanel, usageWire, usageTask)'
    <3>1. WireOk(usageWire', usageTask') /\ AwaitOk(usagePanel', usageWire', usageTask')
      BY <1>1, <2>1, <2>3
    <3>. QED
      BY <3>1
  <2>5. SourcesOk(usagePanel, usageWire, usageTask, snapshots)'
    BY <2>2, <2>3, ZenonT(30) DEF SourcesOk, RepliesRead, KeptFits, ReplyFits, Fits, Past
  <2>6. PanelOk(usagePanel)' /\ TaskOk(usageTask)' /\ KeptOk(snapshots)' /\ AccountsOk'
    BY <2>3 DEF UsageInv, PanelOk, TaskOk, KeptOk, AccountsOk
  <2>. QED
    BY <2>4, <2>5, <2>6 DEF UsageInv
<1>4. CASE usagePanel.stage # "none" /\ reply.id = usagePanel.awaits
  <2>0. /\ AnswersPanel(usagePanel, reply) /\ PanelOk(usagePanel) /\ usagePanel \in UsagePanels /\ KeptOk(snapshots) /\ KeptFits(snapshots)
        /\ usagePanel.awaits < w.fresh
    BY <1>1, <1>4, PanelFacts DEF UsageInv, AwaitOk, PanelOk
  <2>1. CASE reply.type = "error"
    <3>. DEFINE p == UsageFailed(usagePanel)
    <3>1. p \in UsagePanels /\ p.stage = "none" /\ p.loading = "none" /\ p.results = usagePanel.results /\ p.queried = usagePanel.queried
          /\ p.asks = usagePanel.asks /\ p.scope = usagePanel.scope /\ p.known = usagePanel.known /\ p.listed = usagePanel.listed
      BY <2>0, Zenon DEF UsageFailed, UsagePanels
    <3>2. PanelOk(p)
      BY <1>4, <2>0, <3>1 DEF PanelOk, ScopeResults
    <3>3. usagePanel' = p /\ usageWire' = w /\ snapshots' = snapshots
      BY <1>2, <1>4, <2>1
    <3>. HIDE DEF p
    <3>. QED
      BY <1>0, <1>1, <2>0, <3>1, <3>2, <3>3, RestKeeps
  <2>2. CASE reply.type = "listing"
    <3>1. usagePanel.stage \in {"load", "list"} /\ AnswerListing(reply, w)
      BY <1>2, <1>4, <2>0, <2>2 DEF AnswersPanel
    <3>2. reply.listing \in Listings /\ \A p \in UsageIds : reply.listing[p] \in accounts.had[p]
      BY <1>1, <2>2 DEF UsageReplies, UsageInv, SourcesOk, RepliesRead
    <3>. DEFINE shots == Relist(reply.listing)
                p == [usagePanel EXCEPT !.listed = reply.listing, !.known = TRUE]
                loaded == [p EXCEPT !.scope = usagePanel.current, !.stage = "none", !.loading = "none"]
    <3>3. KeptOk(shots) /\ KeptFits(shots) /\ shots.listed = reply.listing
      <4>1. ~accounts.back => \A q \in DOMAIN snapshots.kept : snapshots.kept[q].source = snapshots.listed[q] \/ reply.listing[q] # snapshots.listed[q]
        BY <1>1, <1>4, <2>2, <3>1 DEF UsageInv, SourcesOk, ReplyFits
      <4>. QED
        BY <3>2, <4>1, RelistOk
    <3>4. p \in UsagePanels /\ p.known /\ p.stage = usagePanel.stage /\ p.results = <<>> /\ p.listed = reply.listing /\ p.loading = usagePanel.loading
          /\ p.asks = usagePanel.asks /\ p.scope = usagePanel.scope /\ p.since = usagePanel.since /\ p.awaits = usagePanel.awaits
          /\ p.current = usagePanel.current
      BY <1>4, <2>0, <3>2, Zenon DEF UsagePanels, PanelOk
    <3>5. CASE usagePanel.stage = "list"
      <4>1. AskUsage(p, w, shots)
        BY <3>1, <3>5 DEF AnswerListing
      <4>. HIDE DEF p, shots
      <4>2. PanelOk(p)
        BY <2>0, <3>4, <3>5 DEF PanelOk, ScopeResults
      <4>. QED
        BY <1>0, <1>1, <2>0, <3>2, <3>3, <3>4, <3>5, <4>1, <4>2, AskUsageKeeps
    <3>6. CASE usagePanel.stage # "list"
      <4>1. snapshots' = shots /\ IF loaded.current # NoScope /\ CanQuery(loaded) THEN Query(loaded, FALSE, w)
                                  ELSE usagePanel' = loaded /\ usageWire' = w
        BY <3>1, <3>6, Zenon DEF AnswerListing
      <4>. HIDE DEF p
      <4>2. loaded \in UsagePanels /\ loaded.stage = "none" /\ loaded.loading = "none" /\ loaded.known /\ loaded.results = <<>>
        BY <3>4, Zenon DEF UsagePanels
      <4>. HIDE DEF loaded, shots
      <4>3. CASE loaded.current # NoScope /\ CanQuery(loaded)
        BY <1>0, <1>1, <3>3, <4>1, <4>2, <4>3, QueryKeeps, Zenon
      <4>4. CASE ~(loaded.current # NoScope /\ CanQuery(loaded))
        <5>1. PanelOk(loaded)
          BY <4>2 DEF PanelOk, ScopeResults
        <5>. QED
          BY <1>0, <1>1, <3>3, <4>1, <4>2, <4>4, <5>1, RestKeeps, Zenon
      <4>. QED
        BY <4>3, <4>4
    <3>. QED
      BY <3>5, <3>6
  <2>3. CASE reply.type = "results"
    <3>1. usagePanel.stage = "query" /\ AnswerUsage(reply, w) /\ ScopeResults(reply.results, usagePanel.asks)
          /\ \A i \in DOMAIN reply.results : reply.results[i].by = reply.id
      BY <1>2, <1>4, <2>0, <2>3 DEF AnswersPanel
    <3>2. KeptOk(snapshots') /\ KeptFits(snapshots')
      <4>1. \A i \in DOMAIN reply.results : ~accounts.back => Fits(reply.results[i].source, reply.results[i].provider, snapshots)
        BY <1>1, <1>4, <2>3, <3>1 DEF UsageInv, SourcesOk, ReplyFits
      <4>. QED
        BY <1>1, <3>1, <4>1, AnswerKept
    <3>. DEFINE p == ShowResults(usagePanel, reply.results)
    <3>3. usagePanel' = p /\ usageWire' = w
      BY <3>1 DEF AnswerUsage
    <3>4. p \in UsagePanels /\ p.stage = "none" /\ p.loading = "none" /\ p.results = reply.results /\ p.queried /\ p.asks = usagePanel.asks
          /\ p.scope = usagePanel.scope /\ p.refresh = usagePanel.refresh /\ p.known = usagePanel.known /\ p.since = usagePanel.since
      BY <1>1, <2>0, Zenon DEF ShowResults, UsagePanels, UsageReplies
    <3>. HIDE DEF p
    <3>5. PanelOk(p)
      <4>1. usagePanel.asks = usagePanel.scope /\ usagePanel.since <= usagePanel.awaits /\ usagePanel.known
        BY <2>0, <3>1 DEF PanelOk
      <4>2. \A i \in DOMAIN p.results : p.results[i].by >= p.since
        <5>1. usagePanel.since \in Nat /\ usagePanel.awaits \in Nat
          BY <2>0 DEF UsagePanels
        <5>. QED
          BY <1>4, <3>1, <3>4, <4>1, <5>1
      <4>. QED
        BY <3>1, <3>4, <4>1, <4>2 DEF PanelOk
    <3>. QED
      BY <1>0, <1>1, <3>2, <3>3, <3>4, <3>5, RestKeeps
  <2>. QED
    BY <1>1, <2>1, <2>2, <2>3 DEF UsageReplies
<1>. QED
  BY <1>3, <1>4

\* The host goes on with the request it works on.
LEMMA TaskMoves ==
  ASSUME UsageInv, NEW t, TaskOk(t), t.id = usageTask.id, t.type = usageTask.type, t.scope = usageTask.scope,
         t.stage # "none", usageTask.stage # "none",
         ~accounts.back /\ usagePanel.stage = "query" /\ t.id = usagePanel.awaits /\ t.stage = "asking" =>
             \A p \in UsageIds : Fits(t.sources[p], p, snapshots),
         usageTask' = t, UNCHANGED <<usagePanel, snapshots, usageWire, accounts>>
  PROVE  UsageInv'
<1>0. usagePanel' = usagePanel /\ snapshots' = snapshots /\ usageWire' = usageWire /\ accounts' = accounts
  OBVIOUS
<1>1. WireOk(usageWire, t)
  BY DEF UsageInv, WireOk
<1>2. AwaitOk(usagePanel, usageWire, t)
  BY DEF UsageInv, AwaitOk, AsksForPanel
<1>3. SourcesOk(usagePanel, usageWire, usageTask, snapshots)'
  BY <1>0, ZenonT(30) DEF UsageInv, SourcesOk, RepliesRead, KeptFits, ReplyFits, Fits, Past
<1>4. WireOk(usageWire, usageTask)' /\ AwaitOk(usagePanel, usageWire, usageTask)' /\ TaskOk(usageTask)'
  <2>1. WireOk(usageWire', usageTask') /\ AwaitOk(usagePanel', usageWire', usageTask') /\ TaskOk(usageTask')
    BY <1>0, <1>1, <1>2
  <2>. QED
    BY <2>1
<1>5. PanelOk(usagePanel)' /\ KeptOk(snapshots)' /\ AccountsOk'
  BY <1>0 DEF UsageInv, PanelOk, KeptOk, AccountsOk
<1>. QED
  BY <1>3, <1>4, <1>5 DEF UsageInv

\* The host has nothing to work on.
LEMMA NoTaskIs ==
  TaskOk(NoTask) /\ NoTask.id = 0 /\ NoTask.stage = "none"
<1>1. NoTask = [id |-> 0, type |-> "none", scope |-> NoScope, stage |-> "none", todo |-> <<>>, busy |-> {}, got |-> <<>>,
                sources |-> UnlistedCatalog]
  <2>. DEFINE m == [id |-> 0, type |-> "none", scope |-> NoScope]
              new == [id |-> 0, type |-> "none", scope |-> NoScope, stage |-> "listing", todo |-> <<>>, busy |-> {}, got |-> <<>>,
                      sources |-> UnlistedCatalog]
  <2>1. m.id = 0 /\ m.type = "none" /\ m.scope = NoScope
    OBVIOUS
  <2>2. NewTask(m) = new
    BY <2>1 DEF NewTask
  <2>3. NoTask = [new EXCEPT !.stage = "none"]
    BY <2>2, Zenon DEF NoTask
  <2>. QED
    BY <2>3, Zenon
<1>2. UnlistedCatalog \in Listings
  BY DEF Listings, UnlistedCatalog, Sources
<1>. QED
  BY <1>1, <1>2 DEF TaskOk

\* The host answers the request it works on.
LEMMA FinishKeeps ==
  ASSUME UsageInv, usageTask.stage # "none", NEW reply \in UsageReplies, reply.id = usageTask.id, FinishQuery(reply),
         reply.type = "listing" => \A p \in UsageIds : reply.listing[p] \in accounts.had[p],
         usagePanel.stage # "none" /\ usageTask.id = usagePanel.awaits => AnswersPanel(usagePanel, reply),
         ~accounts.back /\ usagePanel.stage # "none" /\ usageTask.id = usagePanel.awaits => ReplyFits(usagePanel, reply, snapshots),
         UNCHANGED <<usagePanel, snapshots>>, accounts'.now = accounts.now, accounts'.had = accounts.had, accounts'.back = accounts.back
  PROVE  UsageInv'
<1>. DEFINE mail == Append(usageWire.toPage, reply)
            v == [usageWire EXCEPT !.toPage = mail]
<1>0. usageWire \in UsageWires /\ usageWire.toPage \in Seq(UsageReplies) /\ usageTask.id \in Nat /\ usageTask.id < usageWire.fresh
  BY DEF UsageInv, WireOk, UsageWires
<1>1. usageTask' = NoTask /\ usageWire' = v /\ usagePanel' = usagePanel /\ snapshots' = snapshots
  BY DEF FinishQuery
<1>2. /\ mail \in Seq(UsageReplies) /\ Len(usageWire.toPage) \in Nat
      /\ \A i \in DOMAIN mail : (i \in DOMAIN usageWire.toPage /\ mail[i] = usageWire.toPage[i]) \/ mail[i] = reply
      /\ \A i \in DOMAIN usageWire.toPage : i \in DOMAIN mail /\ mail[i] = usageWire.toPage[i]
      /\ Len(usageWire.toPage) + 1 \in DOMAIN mail /\ mail[Len(usageWire.toPage) + 1] = reply
  BY <1>0
<1>. HIDE DEF mail
<1>3. v \in UsageWires /\ v.fresh = usageWire.fresh /\ v.toHost = usageWire.toHost /\ v.toPage = mail
  BY <1>0, <1>2, Zenon DEF UsageWires
<1>. HIDE DEF v
<1>4. \A i \in DOMAIN v.toHost : v.toHost[i] \in UsageMessages /\ v.toHost[i].id \in Nat
  <2>1. \A i \in DOMAIN v.toHost : v.toHost[i] \in UsageMessages
    BY <1>3 DEF UsageWires
  <2>. QED
    BY <2>1 DEF UsageMessages
<1>5. WireOk(v, NoTask)
  <2>1. \A i \in DOMAIN v.toHost : v.toHost[i].id < v.fresh /\ (v.toHost[i].type = "cancel" \/ v.toHost[i].id > 0)
    BY <1>0, <1>3, <1>4 DEF UsageInv, WireOk
  <2>2. \A i \in DOMAIN mail : mail[i].id < v.fresh
    BY <1>0, <1>2, <1>3 DEF UsageInv, WireOk
  <2>3. 0 < v.fresh
    BY <1>3 DEF UsageWires
  <2>. QED
    BY <1>3, <2>1, <2>2, <2>3, NoTaskIs DEF UsageInv, WireOk
<1>6. AwaitOk(usagePanel, v, NoTask)
  <2>. SUFFICES ASSUME usagePanel.stage # "none" PROVE AwaitOk(usagePanel, v, NoTask)
    BY DEF AwaitOk
  <2>1. \A i \in DOMAIN mail : mail[i].id = usagePanel.awaits => AnswersPanel(usagePanel, mail[i])
    BY <1>2, Zenon DEF UsageInv, AwaitOk
  <2>2. usageTask.id = usagePanel.awaits => \E i \in DOMAIN mail : mail[i].id = usagePanel.awaits
    BY <1>2
  <2>3. (\E i \in DOMAIN usageWire.toPage : usageWire.toPage[i].id = usagePanel.awaits) => \E i \in DOMAIN mail : mail[i].id = usagePanel.awaits
    BY <1>2
  <2>4. NoTask.id # usagePanel.awaits
    BY NoTaskIs DEF UsageInv, AwaitOk
  <2>. QED
    BY <1>3, <2>1, <2>2, <2>3, <2>4 DEF UsageInv, AwaitOk
<1>7. SourcesOk(usagePanel, usageWire, usageTask, snapshots)'
  <2>1. \A i \in DOMAIN mail : mail[i].type = "listing" => \A p \in UsageIds : mail[i].listing[p] \in accounts.had[p]
    BY <1>2 DEF UsageInv, SourcesOk, RepliesRead
  <2>2. KeptFits(snapshots)' /\ (usagePanel.stage = "query" => \A p \in UsageIds : snapshots.listed[p] \in accounts.had[p])
    BY <1>1 DEF UsageInv, SourcesOk, KeptFits, Fits, Past
  <2>3. ASSUME ~accounts.back, usagePanel.stage # "none", NEW i \in DOMAIN usageWire'.toPage, usageWire'.toPage[i].id = usagePanel.awaits
        PROVE  ReplyFits(usagePanel, usageWire.toPage[i], snapshots)'
    <3>1. i \in DOMAIN mail /\ usageWire'.toPage[i] = mail[i]
      BY <1>1, <1>3, <2>3
    <3>2. ReplyFits(usagePanel, mail[i], snapshots)
      BY <1>2, <2>3, <3>1, Zenon DEF UsageInv, SourcesOk
    <3>. QED
      BY <1>1, <3>1, <3>2, SMTT(30) DEF ReplyFits, Fits, Past
  <2>4. RepliesRead(usageWire)'
    BY <1>1, <1>3, <2>1 DEF RepliesRead
  <2>. QED
    BY <1>1, <2>2, <2>3, <2>4, NoTaskIs DEF SourcesOk
<1>8. WireOk(usageWire, usageTask)' /\ AwaitOk(usagePanel, usageWire, usageTask)' /\ TaskOk(usageTask)'
  <2>1. WireOk(usageWire', usageTask') /\ AwaitOk(usagePanel', usageWire', usageTask') /\ TaskOk(usageTask')
    BY <1>1, <1>5, <1>6, NoTaskIs
  <2>. QED
    BY <2>1
<1>9. PanelOk(usagePanel)' /\ KeptOk(snapshots)' /\ AccountsOk'
  BY <1>1 DEF UsageInv, PanelOk, KeptOk, AccountsOk
<1>. QED
  BY <1>7, <1>8, <1>9 DEF UsageInv

\* The host takes the next message: a new request replaces the one it works on, a
\* cancellation ends the one it names.
LEMMA HostReceivesKeeps ==
  ASSUME UsageInv, HostReceives
  PROVE  UsageInv'
<1>. DEFINE message == Head(usageWire.toHost)
            mail == Tail(usageWire.toHost)
            v == [usageWire EXCEPT !.toHost = mail]
            t == IF message.type # "cancel" THEN NewTask(message) ELSE IF message.id = usageTask.id THEN NoTask ELSE usageTask
<1>0. usageWire \in UsageWires /\ usageWire.toHost \in Seq(UsageMessages) /\ usageWire.toHost # <<>>
      /\ usageTask.id \in Nat /\ usageTask.id < usageWire.fresh /\ (usageTask.stage = "none" <=> usageTask.id = 0)
  BY DEF UsageInv, WireOk, UsageWires, HostReceives
<1>1. usageTask' = t /\ usageWire' = v /\ usagePanel' = usagePanel /\ snapshots' = snapshots /\ accounts' = accounts
  BY DEF HostReceives
<1>2. /\ mail \in Seq(UsageMessages) /\ message \in UsageMessages /\ 1 \in DOMAIN usageWire.toHost /\ message = usageWire.toHost[1]
      /\ \A i \in DOMAIN mail : i + 1 \in DOMAIN usageWire.toHost /\ mail[i] = usageWire.toHost[i + 1] /\ i \in Nat /\ i > 0
      /\ \A i \in DOMAIN usageWire.toHost : i = 1 \/ (i - 1 \in DOMAIN mail /\ mail[i - 1] = usageWire.toHost[i])
  BY <1>0
<1>. HIDE DEF mail, message
<1>3. v \in UsageWires /\ v.fresh = usageWire.fresh /\ v.toPage = usageWire.toPage /\ v.toHost = mail
  BY <1>0, <1>2, Zenon DEF UsageWires
<1>. HIDE DEF v
<1>4. message.id \in Nat /\ message.id < usageWire.fresh /\ message.type \in {"list", "query", "cancel"}
      /\ (message.type = "cancel" \/ message.id > usageTask.id)
  BY <1>2 DEF UsageInv, WireOk, UsageMessages
<1>5. \A i \in DOMAIN mail : mail[i].id < v.fresh /\ (mail[i].type = "cancel" \/ mail[i].id > usageTask.id) /\ mail[i].id \in Nat
  <2>1. \A i \in DOMAIN mail : mail[i] \in UsageMessages
    BY <1>2
  <2>. QED
    BY <1>2, <1>3, <2>1 DEF UsageInv, WireOk, UsageMessages
<1>6. \A i, j \in DOMAIN mail : i < j /\ mail[i].type # "cancel" /\ mail[j].type # "cancel" => mail[i].id < mail[j].id
  <2>. SUFFICES ASSUME NEW i \in DOMAIN mail, NEW j \in DOMAIN mail, i < j, mail[i].type # "cancel", mail[j].type # "cancel"
                PROVE  mail[i].id < mail[j].id
    OBVIOUS
  <2>1. i + 1 < j + 1 /\ i + 1 \in DOMAIN usageWire.toHost /\ j + 1 \in DOMAIN usageWire.toHost
        /\ mail[i] = usageWire.toHost[i + 1] /\ mail[j] = usageWire.toHost[j + 1]
    BY <1>2
  <2>. QED
    BY <2>1 DEF UsageInv, WireOk
<1>7. ASSUME message.type # "cancel" PROVE \A i \in DOMAIN mail : mail[i].type = "cancel" \/ mail[i].id > message.id
  <2>. SUFFICES ASSUME NEW i \in DOMAIN mail, mail[i].type # "cancel" PROVE mail[i].id > message.id
    OBVIOUS
  <2>1. 1 < i + 1 /\ i + 1 \in DOMAIN usageWire.toHost /\ mail[i] = usageWire.toHost[i + 1]
    BY <1>2
  <2>2. usageWire.toHost[1].id < usageWire.toHost[i + 1].id
    BY <1>2, <1>7, <2>1 DEF UsageInv, WireOk
  <2>. QED
    BY <1>2, <1>4, <1>5, <2>1, <2>2
<1>8. /\ message.type # "cancel" => t = NewTask(message)
      /\ message.type = "cancel" /\ message.id = usageTask.id => t = NoTask
      /\ message.type = "cancel" /\ message.id # usageTask.id => t = usageTask
  OBVIOUS
<1>. HIDE DEF t
<1>9. message.type # "cancel" => t.id = message.id /\ t.type = message.type /\ t.scope = message.scope /\ t.stage = "listing"
  BY <1>8 DEF NewTask
<1>10. TaskOk(t)
  <2>1. ASSUME message.type # "cancel" PROVE TaskOk(NewTask(message))
    <3>1. UnlistedCatalog \in Listings
      BY DEF Listings, UnlistedCatalog, Sources
    <3>. QED
      BY <1>4, <2>1, <3>1 DEF TaskOk, NewTask
  <2>2. TaskOk(usageTask)
    BY DEF UsageInv
  <2>. QED
    BY <1>8, <2>1, <2>2, NoTaskIs
<1>11. t.id \in Nat /\ t.id < v.fresh /\ (t.stage = "none" <=> t.id = 0)
  BY <1>0, <1>3, <1>4, <1>8, <1>9, NoTaskIs DEF UsageWires
<1>12. WireOk(v, t)
  <2>1. \A i \in DOMAIN mail : mail[i].type = "cancel" \/ mail[i].id > t.id
    <3>1. CASE message.type # "cancel"
      BY <1>7, <1>9, <3>1
    <3>2. CASE message.type = "cancel" /\ message.id = usageTask.id
      BY <1>0, <1>5, <1>8, <3>2, NoTaskIs
    <3>3. CASE message.type = "cancel" /\ message.id # usageTask.id
      BY <1>5, <1>8, <3>3
    <3>. QED
      BY <3>1, <3>2, <3>3
  <2>2. v.fresh <= MaxUsageIds + 1 /\ \A i \in DOMAIN v.toPage : v.toPage[i].id < v.fresh
    BY <1>3 DEF UsageInv, WireOk
  <2>. QED
    BY <1>3, <1>5, <1>6, <1>11, <2>1, <2>2 DEF WireOk
<1>13. AwaitOk(usagePanel, v, t)
  <2>. SUFFICES ASSUME usagePanel.stage # "none" PROVE AwaitOk(usagePanel, v, t)
    BY DEF AwaitOk
  <2>0. usagePanel.awaits = usageWire.fresh - 1 /\ usagePanel.awaits > 0 /\ usageWire.fresh \in Nat
    BY DEF UsageInv, AwaitOk, WireOk, UsageWires
  <2>1. message.type = "cancel" => message.id < usagePanel.awaits
    BY <1>2 DEF UsageInv, AwaitOk
  <2>2. message.type # "cancel" /\ message.id = usagePanel.awaits => AsksForPanel(usagePanel, message)
    BY <1>2 DEF UsageInv, AwaitOk
  <2>3. t.id = usagePanel.awaits => AsksForPanel(usagePanel, t)
    <3>1. CASE message.type # "cancel"
      BY <1>9, <2>2, <3>1 DEF AsksForPanel
    <3>2. CASE message.type = "cancel" /\ message.id = usageTask.id
      BY <1>8, <2>0, <3>2, NoTaskIs
    <3>3. CASE message.type = "cancel" /\ message.id # usageTask.id
      BY <1>8, <3>3 DEF UsageInv, AwaitOk
    <3>. QED
      BY <3>1, <3>2, <3>3
  <2>4. usageTask.id = usagePanel.awaits => t = usageTask
    <3>1. CASE message.type # "cancel"
      BY <1>0, <1>4, <2>0, <3>1
    <3>2. CASE message.type = "cancel"
      BY <1>0, <1>4, <1>8, <2>0, <2>1, <3>2
    <3>. QED
      BY <3>1, <3>2
  <2>5. (\E i \in DOMAIN usageWire.toHost : usageWire.toHost[i].id = usagePanel.awaits /\ usageWire.toHost[i].type # "cancel")
          => t.id = usagePanel.awaits \/ \E i \in DOMAIN mail : mail[i].id = usagePanel.awaits /\ mail[i].type # "cancel"
    BY <1>2, <1>9
  <2>6. \A i \in DOMAIN mail : /\ mail[i].type = "cancel" => mail[i].id < usagePanel.awaits
                               /\ mail[i].type # "cancel" /\ mail[i].id = usagePanel.awaits => AsksForPanel(usagePanel, mail[i])
    BY <1>2 DEF UsageInv, AwaitOk
  <2>. QED
    BY <1>3, <2>0, <2>3, <2>4, <2>5, <2>6 DEF UsageInv, AwaitOk
<1>14. SourcesOk(usagePanel, v, t, snapshots)
  <2>1. t.stage = "asking" => t = usageTask
    BY <1>8, <1>9, NoTaskIs
  <2>. QED
    BY <1>3, <2>1 DEF UsageInv, SourcesOk, RepliesRead
<1>15. WireOk(usageWire, usageTask)' /\ AwaitOk(usagePanel, usageWire, usageTask)' /\ TaskOk(usageTask)'
  <2>1. WireOk(usageWire', usageTask') /\ AwaitOk(usagePanel', usageWire', usageTask') /\ TaskOk(usageTask')
    BY <1>1, <1>10, <1>12, <1>13
  <2>. QED
    BY <2>1
<1>16. SourcesOk(usagePanel, usageWire, usageTask, snapshots)'
  BY <1>1, <1>14, ZenonT(30) DEF SourcesOk, RepliesRead, KeptFits, ReplyFits, Fits, Past
<1>17. PanelOk(usagePanel)' /\ KeptOk(snapshots)' /\ AccountsOk'
  BY <1>1 DEF UsageInv, PanelOk, KeptOk, AccountsOk
<1>. QED
  BY <1>15, <1>16, <1>17 DEF UsageInv

\* What the host works on.
LEMMA TaskFacts ==
  ASSUME UsageInv, usageTask.stage # "none"
  PROVE  /\ usageTask = [id |-> usageTask.id, type |-> usageTask.type, scope |-> usageTask.scope, stage |-> usageTask.stage,
                         todo |-> usageTask.todo, busy |-> usageTask.busy, got |-> usageTask.got, sources |-> usageTask.sources]
         /\ usageTask.id \in Nat /\ usageTask.id > 0 /\ usageTask.type \in {"list", "query"} /\ TaskOk(usageTask)
         /\ KeptOk(snapshots) /\ KeptFits(snapshots) /\ AccountsOk
         /\ UnlistedCatalog \in Listings /\ <<>> \in Seq(Results)
<1>1. TaskOk(usageTask) /\ usageTask.id \in Nat /\ usageTask.id # 0
  BY DEF UsageInv, WireOk
<1>2. UnlistedCatalog \in Listings /\ <<>> \in Seq(Results)
  BY DEF Listings, UnlistedCatalog, Sources
<1>. QED
  BY <1>1, <1>2 DEF UsageInv, TaskOk, SourcesOk

\* The host answers with an error.
LEMMA NoAnswerKeeps ==
  ASSUME UsageInv, usageTask.stage # "none", FinishQuery(NoAnswer), UNCHANGED <<usagePanel, snapshots>>,
         accounts'.now = accounts.now, accounts'.had = accounts.had, accounts'.back = accounts.back
  PROVE  UsageInv'
<1>1. NoAnswer \in UsageReplies /\ NoAnswer.id = usageTask.id /\ NoAnswer.type = "error"
  BY TaskFacts DEF NoAnswer, UsageReplies
<1>2. AnswersPanel(usagePanel, NoAnswer) /\ ReplyFits(usagePanel, NoAnswer, snapshots)
  BY <1>1 DEF AnswersPanel, ReplyFits
<1>. DEFINE reply == NoAnswer
<1>3. reply \in UsageReplies /\ reply.id = usageTask.id /\ reply.type = "error" /\ FinishQuery(reply)
      /\ AnswersPanel(usagePanel, reply) /\ ReplyFits(usagePanel, reply, snapshots)
  BY <1>1, <1>2
<1>. HIDE DEF reply
<1>. QED
  BY <1>3, FinishKeeps

\* The host reads what is configured.
LEMMA HostListsKeeps ==
  ASSUME UsageInv, HostLists
  PROVE  UsageInv'
<1>0. usageTask.stage = "listing" /\ UNCHANGED <<usagePanel, snapshots, accounts>>
  BY DEF HostLists
<1>1. CASE usageTask.type = "list"
  <2>. DEFINE reply == [NoAnswer EXCEPT !.type = "listing", !.listing = accounts.now]
  <2>1. FinishQuery(reply)
    BY <1>0, <1>1 DEF HostLists
  <2>2. reply \in UsageReplies /\ reply.id = usageTask.id /\ reply.type = "listing" /\ reply.listing = accounts.now
    <3>1. NoAnswer = [type |-> "error", id |-> usageTask.id, listing |-> UnlistedCatalog, results |-> <<>>]
      BY DEF NoAnswer
    <3>2. accounts.now \in Listings
      BY DEF UsageInv, AccountsOk
    <3>. QED
      BY <1>0, <3>1, <3>2, TaskFacts, Zenon DEF UsageReplies
  <2>. HIDE DEF reply
  <2>3. \A p \in UsageIds : reply.listing[p] \in accounts.had[p]
    BY <2>2 DEF UsageInv, AccountsOk
  <2>4. ASSUME usagePanel.stage # "none", usageTask.id = usagePanel.awaits PROVE AnswersPanel(usagePanel, reply)
    <3>1. AsksForPanel(usagePanel, usageTask)
      BY <2>4 DEF UsageInv, AwaitOk
    <3>2. usagePanel.stage \in {"load", "list"}
      BY <1>1, <2>4, <3>1, PanelFacts DEF AsksForPanel, UsagePanels
    <3>. QED
      BY <2>2, <3>2 DEF AnswersPanel
  <2>5. ASSUME ~accounts.back PROVE ReplyFits(usagePanel, reply, snapshots)
    <3>1. \A p \in DOMAIN snapshots.kept : snapshots.kept[p].source = snapshots.listed[p] \/ accounts.now[p] # snapshots.listed[p]
      BY <1>0, <2>5, TaskFacts DEF KeptFits, Fits, Past
    <3>. QED
      BY <2>2, <3>1 DEF ReplyFits
  <2>. QED
    BY <1>0, <2>1, <2>2, <2>3, <2>4, <2>5, FinishKeeps
<1>2. CASE usageTask.type # "list" /\ usageTask.scope # AllProviders /\ usageTask.scope \notin ConfiguredIn(accounts.now)
  <2>1. FinishQuery(NoAnswer)
    BY <1>0, <1>2 DEF HostLists
  <2>. QED
    BY <1>0, <2>1, NoAnswerKeeps
<1>3. CASE usageTask.type # "list" /\ ~(usageTask.scope # AllProviders /\ usageTask.scope \notin ConfiguredIn(accounts.now))
  <2>. DEFINE t == [usageTask EXCEPT !.stage = "resolving"]
  <2>1. usageTask' = t /\ usageWire' = usageWire
    BY <1>0, <1>3 DEF HostLists
  <2>2. t = [id |-> usageTask.id, type |-> usageTask.type, scope |-> usageTask.scope, stage |-> "resolving",
             todo |-> usageTask.todo, busy |-> usageTask.busy, got |-> usageTask.got, sources |-> usageTask.sources]
    BY <1>0, TaskFacts
  <2>. HIDE DEF t
  <2>3. t.id = usageTask.id /\ t.type = usageTask.type /\ t.scope = usageTask.scope /\ t.stage = "resolving"
    BY <2>2
  <2>4. TaskOk(t)
    <3>1. usageTask.scope \in UsageIds \cup {AllProviders}
      BY <1>3 DEF ConfiguredIn
    <3>2. usageTask.type = "query" /\ usageTask.sources \in Listings
      BY <1>0, <1>3, TaskFacts DEF TaskOk
    <3>. QED
      BY <2>2, <3>1, <3>2 DEF TaskOk
  <2>. QED
    BY <1>0, <2>1, <2>3, <2>4, TaskMoves
<1>. QED
  BY <1>1, <1>2, <1>3

\* Only the providers that are asked change when the next are started.
LEMMA StartedIs ==
  ASSUME NEW id, NEW type, NEW scope, NEW todo, NEW busy, NEW got, NEW sources, NEW t,
         t = [id |-> id, type |-> type, scope |-> scope, stage |-> "asking", todo |-> todo, busy |-> busy, got |-> got, sources |-> sources]
  PROVE  Started(t) = [id |-> id, type |-> type, scope |-> scope, stage |-> "asking", todo |-> todo,
                       busy |-> Started(t).busy, got |-> got, sources |-> sources]
<1>1. PICK b : Started(t) = [t EXCEPT !.busy = b]
  BY Zenon DEF Started
<1>2. Started(t) = [id |-> id, type |-> type, scope |-> scope, stage |-> "asking", todo |-> todo, busy |-> b, got |-> got, sources |-> sources]
  BY <1>1
<1>. QED
  BY <1>2

\* The host reads the configuration once for the query,
LEMMA HostResolvesKeeps ==
  ASSUME UsageInv, HostResolves
  PROVE  UsageInv'
<1>. DEFINE chosen == IF usageTask.scope = AllProviders THEN ConfiguredIn(accounts.now) ELSE {usageTask.scope}
            useless == {p \in chosen : accounts.now[p] \notin AvailableSources}
            got == [p \in useless |-> ResultOf(p, "unavailable", accounts.now[p])]
            s == [usageTask EXCEPT !.stage = "asking", !.todo = InOrder(chosen), !.sources = accounts.now, !.got = got]
<1>0. usageTask.stage = "resolving" /\ UNCHANGED <<usagePanel, snapshots, usageWire, accounts>> /\ usageTask' = Started(s)
  BY DEF HostResolves
<1>1. usageTask.type = "query" /\ usageTask.scope \in UsageIds \cup {AllProviders} /\ usageTask.id \in Nat
      /\ accounts.now \in Listings
  BY <1>0, TaskFacts DEF TaskOk, AccountsOk
<1>2. chosen \in SUBSET UsageIds /\ (usageTask.scope # AllProviders => chosen = {usageTask.scope})
  BY <1>1 DEF ConfiguredIn
<1>3. /\ InOrder(chosen) \in Seq(UsageIds) /\ InOrder(chosen) \in [1..Cardinality(chosen) -> chosen]
      /\ \A i, j \in 1..Cardinality(chosen) : i < j => InOrder(chosen)[i] < InOrder(chosen)[j]
      /\ \A p : chosen = {p} => InOrder(chosen) = <<p>>
  <2>. HIDE DEF chosen
  <2>. QED
    BY <1>2, InOrderIs, Zenon
<1>. DEFINE todo == InOrder(chosen)
<1>4. /\ todo \in Seq(UsageIds) /\ \A i, j \in DOMAIN todo : i < j => todo[i] < todo[j]
      /\ usageTask.scope # AllProviders => todo = <<usageTask.scope>>
  <2>. HIDE DEF chosen
  <2>. QED
    BY <1>2, <1>3, Zenon
<1>5. \A p \in UsageIds : p \in DOMAIN got => got[p] \in Results /\ got[p].provider = p /\ got[p].by = usageTask.id /\ got[p].source = accounts.now[p]
  BY <1>1 DEF ResultOf, Results, Listings
<1>6. s = [id |-> usageTask.id, type |-> usageTask.type, scope |-> usageTask.scope, stage |-> "asking",
           todo |-> todo, busy |-> usageTask.busy, got |-> got, sources |-> accounts.now]
  <2>. HIDE DEF todo, got
  <2>1. s = [usageTask EXCEPT !.stage = "asking", !.todo = todo, !.sources = accounts.now, !.got = got]
    BY DEF todo
  <2>2. PICK id, type, scope, todo0, busy0, got0, sources :
          usageTask = [id |-> id, type |-> type, scope |-> scope, stage |-> "resolving", todo |-> todo0, busy |-> busy0, got |-> got0,
                       sources |-> sources]
    BY <1>0, TaskFacts, Zenon
  <2>3. usageTask.id = id /\ usageTask.type = type /\ usageTask.scope = scope /\ usageTask.todo = todo0 /\ usageTask.busy = busy0
        /\ usageTask.sources = sources
    BY <2>2
  <2>. DEFINE s1 == [usageTask EXCEPT !.stage = "asking"]
              s2 == [s1 EXCEPT !.todo = todo]
              s3 == [s2 EXCEPT !.sources = accounts.now]
  <2>4. s = [s3 EXCEPT !.got = got]
    BY <2>1
  <2>5. s1 = [id |-> id, type |-> type, scope |-> scope, stage |-> "asking", todo |-> todo0, busy |-> busy0, got |-> got0, sources |-> sources]
    BY <2>2
  <2>. HIDE DEF s, s1
  <2>6. s2 = [id |-> id, type |-> type, scope |-> scope, stage |-> "asking", todo |-> todo, busy |-> busy0, got |-> got0, sources |-> sources]
    BY <2>5
  <2>. HIDE DEF s2
  <2>7. s3 = [id |-> id, type |-> type, scope |-> scope, stage |-> "asking", todo |-> todo, busy |-> busy0, got |-> got0, sources |-> accounts.now]
    BY <2>6
  <2>. HIDE DEF s3
  <2>8. s = [id |-> id, type |-> type, scope |-> scope, stage |-> "asking", todo |-> todo, busy |-> busy0, got |-> got, sources |-> accounts.now]
    BY <2>4, <2>7
  <2>. QED
    BY <2>3, <2>8
<1>. HIDE DEF todo, got, s
<1>. DEFINE t == Started(s)
<1>7. t = [id |-> usageTask.id, type |-> usageTask.type, scope |-> usageTask.scope, stage |-> "asking",
           todo |-> todo, busy |-> t.busy, got |-> got, sources |-> accounts.now]
  BY <1>6, StartedIs
<1>8. usageTask' = t
  BY <1>0
<1>. HIDE DEF t
<1>9. t.id = usageTask.id /\ t.type = usageTask.type /\ t.scope = usageTask.scope /\ t.stage = "asking"
      /\ t.todo = todo /\ t.got = got /\ t.sources = accounts.now
  BY <1>7
<1>10. TaskOk(t)
  <2>1. t = [id |-> t.id, type |-> t.type, scope |-> t.scope, stage |-> t.stage, todo |-> t.todo, busy |-> t.busy, got |-> t.got,
             sources |-> t.sources]
    BY <1>7, <1>9
  <2>. QED
    BY <1>1, <1>4, <1>5, <1>9, <2>1 DEF TaskOk
<1>11. ASSUME usagePanel.stage = "query" PROVE \A p \in UsageIds : Fits(t.sources[p], p, snapshots)
  BY <1>9, <1>11 DEF UsageInv, SourcesOk, Fits, Past
<1>. QED
  BY <1>0, <1>8, <1>9, <1>10, <1>11, TaskMoves

\* and waits for the providers.
LEMMA ProviderAnswersKeeps ==
  ASSUME UsageInv, NEW p \in UsageIds, NEW status \in {"ready", "failed"}, ProviderAnswers(p, status)
  PROVE  UsageInv'
<1>. DEFINE busy == usageTask.busy \ {p}
            got == [q \in DOMAIN usageTask.got \cup {p} |->
                       IF q = p THEN ResultOf(p, status, usageTask.sources[p]) ELSE usageTask.got[q]]
            s == [usageTask EXCEPT !.busy = busy, !.got = got]
<1>0. usageTask.stage = "asking" /\ UNCHANGED <<usagePanel, snapshots, usageWire, accounts>> /\ usageTask' = Started(s)
  BY DEF ProviderAnswers
<1>1. /\ usageTask.type = "query" /\ usageTask.scope \in UsageIds \cup {AllProviders} /\ usageTask.id \in Nat
      /\ usageTask.sources \in Listings /\ usageTask.todo \in Seq(UsageIds)
      /\ \A i, j \in DOMAIN usageTask.todo : i < j => usageTask.todo[i] < usageTask.todo[j]
      /\ usageTask.scope # AllProviders => usageTask.todo = <<usageTask.scope>>
  BY <1>0, TaskFacts DEF TaskOk
<1>2. ResultOf(p, status, usageTask.sources[p]) \in Results
  BY <1>1 DEF ResultOf, Results, Listings
<1>3. ResultOf(p, status, usageTask.sources[p]).provider = p /\ ResultOf(p, status, usageTask.sources[p]).by = usageTask.id
      /\ ResultOf(p, status, usageTask.sources[p]).source = usageTask.sources[p]
  BY DEF ResultOf
<1>4. \A q \in UsageIds : q \in DOMAIN usageTask.got =>
          usageTask.got[q] \in Results /\ usageTask.got[q].provider = q /\ usageTask.got[q].by = usageTask.id
          /\ usageTask.got[q].source = usageTask.sources[q]
  BY <1>0, TaskFacts DEF TaskOk
<1>5. \A q \in UsageIds : q \in DOMAIN got => got[q] \in Results /\ got[q].provider = q /\ got[q].by = usageTask.id
                                              /\ got[q].source = usageTask.sources[q]
  <2>. SUFFICES ASSUME NEW q \in UsageIds, q \in DOMAIN got
                PROVE  got[q] \in Results /\ got[q].provider = q /\ got[q].by = usageTask.id /\ got[q].source = usageTask.sources[q]
    BY Zenon
  <2>1. CASE q = p
    BY <1>2, <1>3, <2>1
  <2>2. CASE q # p
    BY <1>4, <2>2
  <2>. QED
    BY <2>1, <2>2
<1>. HIDE DEF got, busy
<1>6. s = [id |-> usageTask.id, type |-> usageTask.type, scope |-> usageTask.scope, stage |-> "asking",
           todo |-> usageTask.todo, busy |-> busy, got |-> got, sources |-> usageTask.sources]
  <2>1. PICK id, type, scope, todo0, busy0, got0, sources :
          usageTask = [id |-> id, type |-> type, scope |-> scope, stage |-> "asking", todo |-> todo0, busy |-> busy0, got |-> got0,
                       sources |-> sources]
    BY <1>0, TaskFacts, Zenon
  <2>2. usageTask.id = id /\ usageTask.type = type /\ usageTask.scope = scope /\ usageTask.todo = todo0 /\ usageTask.busy = busy0
        /\ usageTask.sources = sources
    BY <2>1
  <2>. DEFINE b == [usageTask EXCEPT !.busy = busy]
  <2>3. s = [b EXCEPT !.got = got]
    OBVIOUS
  <2>4. b = [id |-> id, type |-> type, scope |-> scope, stage |-> "asking", todo |-> todo0, busy |-> busy, got |-> got0, sources |-> sources]
    BY <2>1
  <2>. HIDE DEF s, b
  <2>5. s = [id |-> id, type |-> type, scope |-> scope, stage |-> "asking", todo |-> todo0, busy |-> busy, got |-> got, sources |-> sources]
    BY <2>3, <2>4
  <2>. QED
    BY <2>2, <2>5
<1>. HIDE DEF s
<1>. DEFINE t == Started(s)
<1>7. t = [id |-> usageTask.id, type |-> usageTask.type, scope |-> usageTask.scope, stage |-> "asking",
           todo |-> usageTask.todo, busy |-> t.busy, got |-> got, sources |-> usageTask.sources]
  BY <1>6, StartedIs
<1>8. usageTask' = t
  BY <1>0
<1>. HIDE DEF t
<1>9. t.id = usageTask.id /\ t.type = usageTask.type /\ t.scope = usageTask.scope /\ t.stage = "asking"
      /\ t.todo = usageTask.todo /\ t.got = got /\ t.sources = usageTask.sources
  BY <1>7
<1>10. TaskOk(t)
  <2>1. t = [id |-> t.id, type |-> t.type, scope |-> t.scope, stage |-> t.stage, todo |-> t.todo, busy |-> t.busy, got |-> t.got,
             sources |-> t.sources]
    BY <1>7, <1>9
  <2>. QED
    BY <1>1, <1>5, <1>9, <2>1 DEF TaskOk
<1>11. ASSUME ~accounts.back, usagePanel.stage = "query", t.id = usagePanel.awaits
       PROVE \A q \in UsageIds : Fits(t.sources[q], q, snapshots)
  BY <1>0, <1>9, <1>11 DEF UsageInv, SourcesOk
<1>. QED
  BY <1>0, <1>8, <1>9, <1>10, <1>11, TaskMoves

\* The host answers with what it got, in the order of the catalog.
LEMMA HostAnswersKeeps ==
  ASSUME UsageInv, HostAnswers
  PROVE  UsageInv'
<1>. DEFINE results == [i \in DOMAIN usageTask.todo |-> usageTask.got[usageTask.todo[i]]]
            reply == [NoAnswer EXCEPT !.type = "results", !.results = results]
<1>0. usageTask.stage = "asking" /\ UNCHANGED <<usagePanel, snapshots, accounts>> /\ FinishQuery(reply)
      /\ ToSet(usageTask.todo) = DOMAIN usageTask.got
  BY DEF HostAnswers
<1>1. /\ usageTask.type = "query" /\ usageTask.id \in Nat /\ usageTask.todo \in Seq(UsageIds)
      /\ \A i, j \in DOMAIN usageTask.todo : i < j => usageTask.todo[i] < usageTask.todo[j]
      /\ usageTask.scope # AllProviders => usageTask.todo = <<usageTask.scope>>
  BY <1>0, TaskFacts DEF TaskOk
<1>2. ASSUME NEW i \in DOMAIN usageTask.todo
      PROVE  /\ results[i] \in Results /\ results[i].provider = usageTask.todo[i] /\ results[i].by = usageTask.id
             /\ results[i].source = usageTask.sources[usageTask.todo[i]] /\ usageTask.todo[i] \in UsageIds
  <2>1. usageTask.todo[i] \in UsageIds
    BY <1>1
  <2>2. usageTask.todo[i] \in DOMAIN usageTask.got
    BY <1>0 DEF ToSet
  <2>. QED
    BY <1>0, <2>1, <2>2, TaskFacts DEF TaskOk
<1>. DEFINE n == Len(usageTask.todo)
<1>3. n \in Nat /\ DOMAIN usageTask.todo = 1..n
  BY <1>1
<1>4. results \in Seq(Results) /\ DOMAIN results = DOMAIN usageTask.todo
  <2>1. results \in [1..n -> Results]
    BY <1>2, <1>3, Zenon
  <2>. HIDE DEF results, n
  <2>2. results \in Seq(Results)
    BY <1>3, <2>1, FunctionIsSeq
  <2>. QED
    BY <1>3, <2>1, <2>2
<1>. HIDE DEF results, n
<1>5. reply \in UsageReplies /\ reply.id = usageTask.id /\ reply.type = "results" /\ reply.results = results
  <2>1. NoAnswer = [type |-> "error", id |-> usageTask.id, listing |-> UnlistedCatalog, results |-> <<>>]
    BY DEF NoAnswer
  <2>. QED
    BY <1>0, <1>4, <2>1, TaskFacts, Zenon DEF UsageReplies
<1>6. ScopeResults(results, usageTask.scope)
  <2>1. ASSUME NEW i \in DOMAIN results, NEW j \in DOMAIN results, i < j PROVE results[i].provider < results[j].provider
    BY <1>1, <1>2, <1>4, <2>1
  <2>2. ASSUME usageTask.scope # AllProviders PROVE [i \in DOMAIN results |-> results[i].provider] = <<usageTask.scope>>
    <3>1. usageTask.todo = <<usageTask.scope>>
      BY <1>1, <2>2
    <3>2. DOMAIN results = {1} /\ results[1].provider = usageTask.scope
      BY <1>2, <1>4, <3>1
    <3>. QED
      BY <3>2
  <2>. QED
    BY <2>1, <2>2 DEF ScopeResults
<1>. HIDE DEF reply
<1>7. ASSUME usagePanel.stage # "none", usageTask.id = usagePanel.awaits
      PROVE  usagePanel.stage = "query" /\ usageTask.scope = usagePanel.asks
  BY <1>1, <1>7 DEF UsageInv, AwaitOk, AsksForPanel
<1>8. ASSUME usagePanel.stage # "none", usageTask.id = usagePanel.awaits PROVE AnswersPanel(usagePanel, reply)
  BY <1>2, <1>4, <1>5, <1>6, <1>7, <1>8 DEF AnswersPanel
<1>9. ASSUME ~accounts.back, usagePanel.stage # "none", usageTask.id = usagePanel.awaits PROVE ReplyFits(usagePanel, reply, snapshots)
  <2>1. \A p \in UsageIds : Fits(usageTask.sources[p], p, snapshots)
    BY <1>0, <1>7, <1>9 DEF UsageInv, SourcesOk
  <2>2. \A i \in DOMAIN results : Fits(results[i].source, results[i].provider, snapshots)
    BY <1>2, <1>4, <2>1
  <2>. QED
    BY <1>5, <1>7, <1>9, <2>2 DEF ReplyFits
<1>. QED
  BY <1>0, <1>5, <1>8, <1>9, FinishKeeps

\* The configuration changes: a source that is given up is past, and stays so until the
\* user goes back to it.
LEMMA ConfigureKeeps ==
  ASSUME UsageInv, NEW p \in UsageIds, NEW source \in Sources, Configure(p, source)
  PROVE  UsageInv'
<1>0. usagePanel' = usagePanel /\ snapshots' = snapshots /\ usageWire' = usageWire /\ usageTask' = usageTask
  BY DEF Configure
<1>1. /\ accounts'.now = [accounts.now EXCEPT ![p] = source] /\ accounts'.had = [accounts.had EXCEPT ![p] = @ \cup {source}]
      /\ accounts'.back <=> accounts.back \/ source \in accounts.had[p]
  BY Zenon DEF Configure
<1>2. accounts.now \in Listings /\ accounts.had \in [UsageIds -> SUBSET Sources] /\ \A q \in UsageIds : accounts.now[q] \in accounts.had[q]
  BY DEF UsageInv, AccountsOk
<1>3. accounts'.now \in Listings /\ accounts'.had \in [UsageIds -> SUBSET Sources]
  BY <1>1, <1>2 DEF Listings
<1>4. \A q \in UsageIds : /\ q # p => accounts'.now[q] = accounts.now[q] /\ accounts'.had[q] = accounts.had[q]
                          /\ q = p => accounts'.now[q] = source /\ accounts'.had[q] = accounts.had[q] \cup {source}
  BY <1>1, <1>2 DEF Listings
<1>5. AccountsOk'
  BY <1>2, <1>3, <1>4 DEF AccountsOk
<1>6. \A q \in UsageIds : accounts.had[q] \subseteq accounts'.had[q]
  BY <1>4
<1>7. ASSUME ~accounts'.back, NEW q \in UsageIds, NEW from, Fits(from, q, snapshots) PROVE from = snapshots.listed[q] \/ snapshots.listed[q] \in Past(q)'
  BY <1>1, <1>4, <1>7 DEF Fits, Past
<1>8. ~accounts'.back => ~accounts.back
  BY <1>1
<1>9. RepliesRead(usageWire)'
  BY <1>0, <1>6 DEF UsageInv, SourcesOk, RepliesRead
<1>10. KeptFits(snapshots)'
  <2>. SUFFICES ASSUME ~accounts'.back, NEW q \in DOMAIN snapshots'.kept PROVE Fits(snapshots.kept[q].source, q, snapshots)'
    BY DEF KeptFits
  <2>1. q \in DOMAIN snapshots.kept /\ q \in UsageIds /\ Fits(snapshots.kept[q].source, q, snapshots)
    BY <1>0, <1>8 DEF UsageInv, SourcesOk, KeptFits, KeptOk
  <2>. QED
    BY <1>0, <1>7, <2>1 DEF Fits
<1>11. ASSUME usagePanel'.stage = "query" PROVE \A q \in UsageIds : snapshots'.listed[q] \in accounts'.had[q]
  <2>1. \A q \in UsageIds : snapshots.listed[q] \in accounts.had[q]
    BY <1>0, <1>11 DEF UsageInv, SourcesOk
  <2>. QED
    BY <1>0, <1>6, <2>1
<1>12. ASSUME ~accounts'.back, usagePanel'.stage = "query", usageTask'.id = usagePanel'.awaits, usageTask'.stage = "asking", NEW q \in UsageIds
       PROVE  Fits(usageTask.sources[q], q, snapshots)'
  <2>1. Fits(usageTask.sources[q], q, snapshots)
    BY <1>0, <1>8, <1>12 DEF UsageInv, SourcesOk
  <2>. QED
    BY <1>0, <1>7, <1>12, <2>1 DEF Fits
<1>13. ASSUME ~accounts'.back, usagePanel'.stage # "none", NEW i \in DOMAIN usageWire'.toPage, usageWire'.toPage[i].id = usagePanel'.awaits
       PROVE  ReplyFits(usagePanel, usageWire.toPage[i], snapshots)'
  <2>1. ReplyFits(usagePanel, usageWire.toPage[i], snapshots)
    BY <1>0, <1>8, <1>13 DEF UsageInv, SourcesOk
  <2>2. usageWire.toPage[i] \in UsageReplies
    <3>1. usageWire.toPage \in Seq(UsageReplies)
      BY DEF UsageInv, WireOk, UsageWires
    <3>. QED
      BY <1>0, <1>13, <3>1
  <2>. DEFINE reply == usageWire.toPage[i]
  <2>3. \A k \in DOMAIN reply.results : reply.results[k].provider \in UsageIds
    <3>1. reply.results \in Seq(Results)
      BY <2>2 DEF UsageReplies
    <3>2. \A k \in DOMAIN reply.results : reply.results[k] \in Results
      BY <3>1
    <3>. QED
      BY <3>2 DEF Results
  <2>4. ASSUME usagePanel.stage = "query", reply.type = "results", NEW k \in DOMAIN reply.results
        PROVE  Fits(usageWire.toPage[i].results[k].source, usageWire.toPage[i].results[k].provider, snapshots)'
    <3>1. Fits(reply.results[k].source, reply.results[k].provider, snapshots)
      BY <2>1, <2>4 DEF ReplyFits
    <3>. QED
      BY <1>0, <1>7, <1>13, <2>3, <2>4, <3>1 DEF Fits
  <2>. QED
    BY <1>0, <2>1, <2>4 DEF ReplyFits
<1>14. SourcesOk(usagePanel, usageWire, usageTask, snapshots)'
  BY <1>9, <1>10, <1>11, <1>12, <1>13 DEF SourcesOk
<1>15. WireOk(usageWire, usageTask)' /\ AwaitOk(usagePanel, usageWire, usageTask)' /\ TaskOk(usageTask)'
  <2>1. WireOk(usageWire', usageTask') /\ AwaitOk(usagePanel', usageWire', usageTask') /\ TaskOk(usageTask')
    BY <1>0 DEF UsageInv
  <2>. QED
    BY <2>1
<1>16. PanelOk(usagePanel)' /\ KeptOk(snapshots)'
  BY <1>0 DEF UsageInv, PanelOk, KeptOk
<1>. QED
  BY <1>5, <1>14, <1>15, <1>16 DEF UsageInv

\* Every step of the panel, the host and the user keeps the invariant.
LEMMA UsageStepKeeps ==
  ASSUME UsageInv, UsageSteps \/ UNCHANGED usageVars
  PROVE  UsageInv'
<1>1. CASE UNCHANGED usageVars
  <2>0. usagePanel' = usagePanel /\ snapshots' = snapshots /\ usageWire' = usageWire /\ usageTask' = usageTask /\ accounts' = accounts
    BY <1>1 DEF usageVars
  <2>1. WireOk(usageWire, usageTask)' /\ AwaitOk(usagePanel, usageWire, usageTask)' /\ TaskOk(usageTask)'
    <3>1. WireOk(usageWire', usageTask') /\ AwaitOk(usagePanel', usageWire', usageTask') /\ TaskOk(usageTask')
      BY <2>0 DEF UsageInv
    <3>. QED
      BY <3>1
  <2>2. PanelOk(usagePanel)' /\ KeptOk(snapshots)' /\ AccountsOk'
    BY <2>0 DEF UsageInv, PanelOk, KeptOk, AccountsOk
  <2>3. SourcesOk(usagePanel, usageWire, usageTask, snapshots)'
    BY <2>0, ZenonT(30) DEF UsageInv, SourcesOk, RepliesRead, KeptFits, ReplyFits, Fits, Past
  <2>. QED
    BY <2>1, <2>2, <2>3 DEF UsageInv
<1>2. ASSUME NEW p \in {1, NoScope}, OpenUsagePanel(p) \/ ModelChanges(p) PROVE UsageInv'
  <2>1. p \in Nat
    BY DEF NoScope
  <2>. QED
    BY <1>2, <2>1, OpenedKeeps
<1>3. CASE CloseUsagePanel
  <2>1. 0 \in Nat
    OBVIOUS
  <2>. QED
    BY <1>3, <2>1, OpenedKeeps
<1>4. CASE RefreshUsage \/ TryAgain \/ \E scope \in UsageIds \cup {AllProviders} : SelectScope(scope)
  BY <1>4, ChosenKeeps
<1>5. CASE HostFails
  <2>1. usageTask.stage # "none" /\ FinishQuery(NoAnswer) /\ UNCHANGED <<usagePanel, snapshots>>
    BY <1>5 DEF HostFails
  <2>2. accounts'.now = accounts.now /\ accounts'.had = accounts.had /\ accounts'.back = accounts.back
    BY <1>5 DEF HostFails
  <2>. QED
    BY <2>1, <2>2, NoAnswerKeeps
<1>6. ASSUME NEW p \in UsageIds, ProviderAnswers(p, "ready") \/ ProviderAnswers(p, "failed") PROVE UsageInv'
  BY <1>6, ProviderAnswersKeeps
<1>7. ASSUME NEW p \in Uncertain, NEW source \in Sources, Configure(p, source) PROVE UsageInv'
  BY <1>7, UsageAssumption, ConfigureKeeps
<1>. QED
  BY <1>1, <1>2, <1>3, <1>4, <1>5, <1>6, <1>7, ReceiveUsageKeeps, HostReceivesKeeps, HostListsKeeps, HostResolvesKeeps, HostAnswersKeeps
     DEF UsageSteps

\* The panel is closed and the host has nothing to do.
LEMMA UsageStartsRight ==
  ASSUME UsageStarts
  PROVE  UsageInv
<1>0. /\ usagePanel = ClosedPanel /\ snapshots = [listed |-> UnlistedCatalog, kept |-> <<>>]
      /\ usageWire = [toHost |-> <<>>, toPage |-> <<>>, fresh |-> 1] /\ usageTask = NoTask
  BY DEF UsageStarts
<1>1. UnlistedCatalog \in Listings /\ MaxUsageIds \in Nat
  BY UsageAssumption DEF UnlistedCatalog, Listings, Sources
<1>2. usageWire \in UsageWires
  <2>1. <<>> \in Seq(UsageMessages) /\ <<>> \in Seq(UsageReplies)
    OBVIOUS
  <2>. QED
    BY <1>0, <2>1 DEF UsageWires
<1>3. WireOk(usageWire, usageTask)
  BY <1>0, <1>1, <1>2, NoTaskIs DEF WireOk
<1>4. AwaitOk(usagePanel, usageWire, usageTask) /\ PanelOk(usagePanel) /\ TaskOk(usageTask)
  BY <1>0, ClosedIs, NoTaskIs DEF AwaitOk
<1>5. KeptOk(snapshots) /\ DOMAIN snapshots.kept = {}
  BY <1>0, <1>1 DEF KeptOk
<1>6. AccountsOk
  <2>1. PICK now : now \in [UsageIds -> Sources] /\ accounts = [now |-> now, changes |-> 0, had |-> [p \in UsageIds |-> {now[p]}], back |-> FALSE]
    BY Zenon DEF UsageStarts, Sources
  <2>. QED
    BY <2>1 DEF AccountsOk, Listings
<1>7. SourcesOk(usagePanel, usageWire, usageTask, snapshots)
  BY <1>0, <1>5, ClosedIs DEF SourcesOk, RepliesRead, KeptFits
<1>. QED
  BY <1>3, <1>4, <1>5, <1>6, <1>7 DEF UsageInv

\* What the invariant says of what the user sees.
LEMMA UsageHonestNow ==
  ASSUME UsageInv
  PROVE  UsageTypes /\ UsageHonest
<1>1. UsageTypes
  BY DEF UsageInv, PanelOk, UsagePanels, KeptOk, WireOk, TaskOk, Listings, UsageTypes
<1>2. Awaited
  BY DEF UsageInv, AwaitOk, Awaited
<1>3. ShownForScope
  BY PanelFacts DEF UsageInv, PanelOk, ScopeResults, ShownForScope, UsagePanels
<1>4. SnapshotsOfSource
  <2>. SUFFICES ASSUME ~accounts.back, NEW p \in DOMAIN snapshots.kept
                PROVE  snapshots.kept[p].source = snapshots.listed[p] \/ snapshots.listed[p] # accounts.now[p]
    BY DEF SnapshotsOfSource
  <2>. QED
    BY PanelFacts DEF KeptFits, Fits, Past
<1>. QED
  BY <1>1, <1>2, <1>3, <1>4 DEF UsageHonest

\* The panel never waits for what nobody answers, shows only the answer to its own
\* question, each provider once and read after a refresh was asked for, and keeps no
\* snapshot of a source that the last listing no longer names (query.ts,
\* providerUsageSource.ts).
THEOREM UsageStaysHonest == UsageStarts /\ [][UsageSteps]_usageVars => [](UsageTypes /\ UsageHonest)
<1>1. UsageStarts => UsageInv
  BY UsageStartsRight
<1>2. UsageInv /\ [UsageSteps]_usageVars => UsageInv'
  BY UsageStepKeeps
<1>3. UsageInv => UsageTypes /\ UsageHonest
  BY UsageHonestNow
<1>. QED
  BY <1>1, <1>2, <1>3, PTL

-----------------------------------------------------------------------------
(* What the run over all parts checks.                                       *)

\* The requests of extensions are answered at most once, none that a living Pi waits for is
\* forgotten, and the cards are the requests that can be answered, but for those which come
\* behind the cancellation of a stop(): they leave cards, against extension-ui.SPEC.md:19
\* (Dialogs).
THEOREM RequestsAlwaysAnswered == Spec => []RequestsAnswered
<1>. DEFINE Inv == part = "dialogs" => DialogInv
<1>1. Init => Inv
  BY DialogStartInv DEF Init
<1>2. Inv /\ [Next]_vars => Inv'
  <2>. SUFFICES ASSUME Inv, [Next]_vars, part' = "dialogs" PROVE DialogInv'
    BY DEF Inv
  <2>1. part = "dialogs" /\ (DialogSteps \/ UNCHANGED dialogVars)
    BY DEF Next, vars, OthersRest
  <2>. QED
    BY <2>1, DialogStepKeeps
<1>3. Inv => RequestsAnswered
  BY DialogInvSays DEF RequestsAnswered
<1>. QED
  BY <1>1, <1>2, <1>3, PTL DEF Spec

\* What the shell reports as saved is saved, and it installs what the user was shown
\* while no session is open (DesktopLife).
THEOREM ShellAlwaysKeepsWord == Spec => []ShellKeepsWord
<1>. DEFINE Inv == part = "shell" => LifeInv
<1>1. Init => Inv
  BY LifeStartInv DEF Init
<1>2. Inv /\ [Next]_vars => Inv'
  <2>. SUFFICES ASSUME Inv, [Next]_vars, part' = "shell" PROVE LifeInv'
    BY DEF Inv
  <2>1. part = "shell" /\ (LifeSteps \/ UNCHANGED lifeVars)
    BY DEF Next, vars, OthersRest
  <2>. QED
    BY <2>1, LifeStepKeeps
<1>3. Inv => ShellKeepsWord
  BY LifeInvSays DEF ShellKeepsWord
<1>. QED
  BY <1>1, <1>2, <1>3, PTL DEF Spec

\* What the user typed stays in its field, the panel shows what the store holds and the
\* store what the file holds, and a Save changes what the user has changed (DesktopSettings).
THEOREM SettingsAlwaysKept == Spec => []SettingsKept
<1>. DEFINE Inv == part = "settings" => SettingsInv
<1>1. Init => Inv
  BY SettingsStartInv DEF Init
<1>2. Inv /\ [Next]_vars => Inv'
  <2>. SUFFICES ASSUME Inv, [Next]_vars, part' = "settings" PROVE SettingsInv'
    BY DEF Inv
  <2>1. part = "settings" /\ (SettingsSteps \/ UNCHANGED settingsVars)
    BY DEF Next, vars, OthersRest
  <2>. QED
    BY <2>1, SettingsStepKeeps
<1>3. Inv => SettingsKept
  BY SettingsInvSays DEF SettingsKept
<1>. QED
  BY <1>1, <1>2, <1>3, PTL DEF Spec

\* One resume flow is under way at most and it never waits for nothing (ResumeFlow); the
\* composer shows the files of the search it waits for, with one fd at a time
\* (FileSuggestions); a move is what it is called, the draft that was there when it was asked
\* for gives way only with leave and a seed is not put there twice in a row (TreeNavigation). A
\* draft written while the questions are open, and a seed that comes back after another one, are
\* not covered: there the code breaks composer.SPEC.md:22 and webview-bridge.SPEC.md:41.
THEOREM PickersAlwaysTrue == Spec => []PickersTrue
<1>. DEFINE Inv == (part = "resume" => ResumeInv) /\ (part = "suggestions" => SuggestionInv) /\ (part = "moves" => MoveInv)
<1>1. Init => Inv
  BY ResumeStartsRight, SuggestionsStartRight, MovesStartRight DEF Init
<1>2. Inv /\ [Next]_vars => Inv'
  <2>. SUFFICES ASSUME Inv, [Next]_vars PROVE Inv'
    OBVIOUS
  <2>1. ASSUME part' = "resume" PROVE ResumeInv'
    <3>1. part = "resume" /\ (ResumeSteps \/ UNCHANGED resumeVars)
      BY <2>1 DEF Next, vars, OthersRest
    <3>. QED
      BY <3>1, ResumeStepKeeps
  <2>2. ASSUME part' = "suggestions" PROVE SuggestionInv'
    <3>1. part = "suggestions" /\ (SuggestionSteps \/ UNCHANGED suggestionVars)
      BY <2>2 DEF Next, vars, OthersRest
    <3>. QED
      BY <3>1, SuggestionStepKeeps
  <2>3. ASSUME part' = "moves" PROVE MoveInv'
    <3>1. part = "moves" /\ (MoveSteps \/ UNCHANGED treeMoveVars)
      BY <2>3 DEF Next, vars, OthersRest
    <3>. QED
      BY <3>1, MoveStepKeeps
  <2>. QED
    BY <2>1, <2>2, <2>3
<1>3. Inv => PickersTrue
  BY ResumeHonestNow, SuggestionsHonestNow, MovesHonestNow DEF PickersTrue
<1>. QED
  BY <1>1, <1>2, <1>3, PTL DEF Spec

\* The secret of a request comes from where Pi would take it and goes nowhere else
\* (ProviderCredentials); the panel shows the answers to its own question and never waits
\* for nothing (ProviderUsage).
THEOREM UsageAlwaysTrue == Spec => []UsageTrue
<1>. DEFINE Inv == (part = "credentials" => CredentialPolicy) /\ (part = "usage" => UsageInv)
<1>1. Init => Inv
  BY CredentialsFollowPolicy, UsageStartsRight DEF Init
<1>2. Inv /\ [Next]_vars => Inv'
  <2>. SUFFICES ASSUME Inv, [Next]_vars PROVE Inv'
    OBVIOUS
  <2>1. ASSUME part' = "credentials" PROVE CredentialPolicy'
    <3>1. part = "credentials" /\ setup' = setup
      BY <2>1 DEF Next, vars, OthersRest
    <3>. QED
      BY <3>1 DEF CredentialPolicy
  <2>2. ASSUME part' = "usage" PROVE UsageInv'
    <3>1. part = "usage" /\ (UsageSteps \/ UNCHANGED usageVars)
      BY <2>2 DEF Next, vars, OthersRest
    <3>. QED
      BY <3>1, UsageStepKeeps
  <2>. QED
    BY <2>1, <2>2
<1>3. Inv => UsageTrue
  BY UsageHonestNow DEF UsageTrue
<1>. QED
  BY <1>1, <1>2, <1>3, PTL DEF Spec

\* The records of Pi's stdout, the frames of a connection and the packets of the desktop
\* wire arrive whole, once and in order, however the bytes come and whatever single mistake
\* the peer makes (Framing).
THEOREM RecordsAlwaysArriveWhole == Spec => []RecordsArriveWhole
<1>. DEFINE Inv == part = "framing" => FramingInv
<1>1. Init => Inv
  BY FramingStartInv DEF Init
<1>2. Inv /\ [Next]_vars => Inv'
  <2>. SUFFICES ASSUME Inv, [Next]_vars, part' = "framing" PROVE FramingInv'
    BY DEF Inv
  <2>1. part = "framing" /\ (FramingSteps \/ UNCHANGED framingVars)
    BY DEF Next, vars, OthersRest
  <2>. QED
    BY <2>1, FramingStepKeeps
<1>3. Inv => RecordsArriveWhole
  BY FramingInvSays DEF RecordsArriveWhole
<1>. QED
  BY <1>1, <1>2, <1>3, PTL DEF Spec
=============================================================================
