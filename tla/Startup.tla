------------------------------ MODULE Startup ------------------------------
(***************************************************************************)
(* How the DA server gets from its configuration to a running server:      *)
(* StartDAServer (cmd/daserver/entrypoint.go) with the configuration it    *)
(* reads (config_builder.go, config.go, flags.go), the signer              *)
(* configuration it derives and validates (signer/), the Celestia store    *)
(* and the S3 provider it constructs.                                      *)
(*                                                                         *)
(* An operator writes a configuration file, passes flags or sets           *)
(* POPSIGNER_API_KEY, in small edits from the defaults, and launches the   *)
(* server, which either starts or ends with an error.  A configuration is  *)
(* a function from field names to strings; a file and a set of flags give  *)
(* values to some fields only.                                             *)
(***************************************************************************)
EXTENDS Integers, FiniteSets, FallbackMode

CONSTANTS
    Text,           \* what a setting may be: any string
    FileSettings,   \* the <<field, value>> pairs a file may contain
    FlagSettings,   \* the <<field, value>> pairs that may be passed as flags
    BaseFiles,      \* the files an operator starts from
    EnvKeys,        \* values of POPSIGNER_API_KEY; "" when it is not set
    MaxEdits,       \* bound: how many settings differ from the starting point
    None

\* DefaultConfig, with signer.DefaultConfig.  Fields that no check and no
\* choice depends on are left out.
DefaultConfig == [
    bridgeAddr |-> "localhost", bridgeAuthToken |-> "", namespace |-> "",
    coreGRPCAddr |-> "", p2pNetwork |-> "mocha-5", blobIDCompact |-> "true",
    \* [celestia.signer]
    mode |-> "local", localPath |-> "", localKey |-> "my_celes_key",
    localBackend |-> "test",
    popKeyID |-> "", popApiKey |-> "", awsRegion |-> "", awsKeyID |-> "",
    \* legacy fields of [celestia]
    signerMode |-> "", keyringBackend |-> "test", keyringPath |-> "",
    defaultKeyName |-> "my_celes_key", remoteApiKey |-> "", remoteKeyID |-> "",
    legacyRegion |-> "",
    \* [submission], [read], [fallback]; limits stands for the HTTP timeouts,
    \* the blob size and the priority, which are only checked
    submitTimeout |-> "60s", getTimeout |-> "30s", limits |-> "ok",
    fallbackEnabled |-> "false", provider |-> "s3", fallbackMode |-> "both",
    bucket |-> "", prefix |-> "", readLegacyBlobs |-> "false",
    credentialType |-> "", accessKeys |-> "", s3Timeout |-> "30s"]

Fields == DOMAIN DefaultConfig

\* The fields that have a flag, with the value of the flag when it is not set.
FlagDefault == [
    bridgeAddr |-> "localhost", bridgeAuthToken |-> "", namespace |-> "",
    coreGRPCAddr |-> "", p2pNetwork |-> "mocha-5", blobIDCompact |-> "true",
    signerMode |-> "local", keyringPath |-> "", defaultKeyName |-> "my_celes_key", remoteApiKey |-> "", remoteKeyID |-> "",
    fallbackEnabled |-> "false", provider |-> "s3", fallbackMode |-> "both",
    bucket |-> "", prefix |-> "", readLegacyBlobs |-> "false",
    credentialType |-> "", accessKeys |-> "", s3Timeout |-> "30s"]

FlagFields == DOMAIN FlagDefault

\* A file or a set of flags: values for some of the fields.
IsSettings(set, from) == DOMAIN set \subseteq from /\ \A f \in DOMAIN set : set[f] \in Text

ASSUME StartupAssumption ==
    /\ {"", "localhost", "mocha-5", "true", "false", "local", "popsigner", "aws_kms",
         "my_celes_key", "test", "ok", "s3", "both", "0s", "30s", "60s"} \subseteq Text
    /\ FileSettings \subseteq Fields \X Text
    /\ FlagSettings \subseteq FlagFields \X Text
    /\ \A base \in BaseFiles : IsSettings(base, Fields)
    /\ EnvKeys \subseteq Text /\ "" \in EnvKeys
    /\ MaxEdits \in Nat

\* The cli library refuses a duration flag that does not parse.
ASSUME DurationFlagAssumption ==
    {<<"s3Timeout", "">>, <<"s3Timeout", "bad">>} \cap FlagSettings = {}

\* signer.Config and RPCClientConfig, as far as they are read.
SignerConfig ==
    [mode : Text, path : Text, key : Text, backend : Text, keyID : Text,
     apiKey : Text, region : Text, awsKey : Text]

RPCClientConfig ==
    [url : Text, namespace : Text, compact : Text, tx : SignerConfig \cup {None}]

\* What StartDAServer gives the server.
ServerConfig ==
    [fallback : [bucket : Text, prefix : Text, legacy : Text, timeout : Text],
     mode : Text, namespace : Text, compact : Text, signer : SignerConfig \cup {None},
     submitTimeout : Text, getTimeout : Text]

ASSUME NoneAssumption == None \notin SignerConfig \cup RPCClientConfig \cup ServerConfig

Failures == {"required flag", "config file", "invalid config", "keyring",
             "client", "namespace", "no celestia", "provider", "bucket",
             "credentials", "aws config"}

VARIABLES
    phase,      \* where StartDAServer is, "editing" before it is called
    failure,    \* the error it ended with, "" if none
    hasFile,    \* --config is passed
    file,       \* settings of the file
    flags,      \* flags passed on the command line
    env,        \* POPSIGNER_API_KEY
    cfg,        \* the Config that BuildConfigFromCLI returns
    rpc,        \* the celestia.RPCClientConfig the store is built from
    server,     \* the server that was built
    edits       \* how many settings the operator changed

inputs == <<hasFile, file, flags, env, edits>>
vars   == <<phase, failure, inputs, cfg, rpc, server>>

NoSettings == [f \in {} |-> ""]

Init ==
    /\ phase = "editing" /\ failure = ""
    /\ \E base \in BaseFiles \cup {NoSettings} :
           file = base /\ hasFile = (base # NoSettings)
    /\ flags = NoSettings
    /\ env = ""
    /\ cfg = None /\ rpc = None /\ server = None
    /\ edits = 0
-----------------------------------------------------------------------------
(***************************************************************************)
(* Settings.                                                               *)
(***************************************************************************)
Override(base, set) == [f \in DOMAIN base |-> IF f \in DOMAIN set THEN set[f] ELSE base[f]]

With(set, f, v) == [x \in DOMAIN set \cup {f} |-> IF x = f THEN v ELSE set[x]]

\* The flags as the cli library presents them: POPSIGNER_API_KEY is a source of
\* the API key's flag, which counts as set when the variable is.
SetFlags ==
    IF env # "" /\ "remoteApiKey" \notin DOMAIN flags
    THEN With(flags, "remoteApiKey", env) ELSE flags

\* ctx.String and ctx.Bool: the value of a flag or its default.
Cli == Override(FlagDefault, SetFlags)

firstNonEmpty(a, b) == IF a # "" THEN a ELSE b

\* What the operator edits.
WriteFile ==
    \E setting \in FileSettings :
        /\ setting[1] \notin DOMAIN file
        /\ file' = With(file, setting[1], setting[2]) /\ hasFile' = TRUE
        /\ UNCHANGED <<flags, env>>

GiveFlag ==
    \E setting \in FlagSettings :
        /\ setting[1] \notin DOMAIN flags
        /\ flags' = With(flags, setting[1], setting[2])
        /\ UNCHANGED <<hasFile, file, env>>

SetEnv ==
    /\ env = "" /\ env' \in EnvKeys \ {""}
    /\ UNCHANGED <<hasFile, file, flags>>

Edit ==
    /\ phase = "editing" /\ edits < MaxEdits
    /\ edits' = edits + 1
    /\ WriteFile \/ GiveFlag \/ SetEnv
    /\ UNCHANGED <<phase, failure, cfg, rpc, server>>

Fail(from, error) ==
    /\ phase = from /\ phase' = "failed"
    /\ failure' = error
    /\ UNCHANGED <<inputs, cfg, rpc, server>>
-----------------------------------------------------------------------------
(***************************************************************************)
(* CheckRequired and BuildConfigFromCLI.                                   *)
(***************************************************************************)
HasRequired == hasFile \/ "namespace" \in DOMAIN SetFlags

CheckRequiredFails == Fail("editing", "required flag") /\ ~HasRequired

\* The file cannot be read, is no TOML, or the home directory is unknown.
LoadConfigFails == Fail("editing", "config file") /\ hasFile

\* Mutant: the file has the last word.
BuildFileOverFlags ==
    /\ phase = "editing" /\ HasRequired
    /\ phase' = "built"
    /\ cfg' = Override(Override(DefaultConfig, SetFlags), file)
    /\ UNCHANGED <<failure, inputs, rpc, server>>

\* Defaults, then the file, then the flags that are set.
MergedConfig == Override(Override(DefaultConfig, file), SetFlags)

BuildConfigFromCLI ==
    /\ phase = "editing" /\ HasRequired
    /\ phase' = "built"
    /\ cfg' = MergedConfig
    /\ UNCHANGED <<failure, inputs, rpc, server>>
-----------------------------------------------------------------------------
(***************************************************************************)
(* The signer: which configuration, whether it validates, and what the     *)
(* keyring constructors ask of it.                                         *)
(***************************************************************************)
ModeAlias(mode) ==
    CASE mode = "remote" -> "popsigner"
      [] mode = "awskms" -> "aws_kms"
      [] OTHER -> mode

\* Config.buildSignerConfig: legacy fields that are not empty take precedence.
buildSignerConfig(c) ==
    LET mode == IF c.keyringBackend = "awskms" THEN "aws_kms"
                ELSE IF c.signerMode # "" THEN ModeAlias(c.signerMode) ELSE c.mode
        key  == firstNonEmpty(c.defaultKeyName, c.localKey)
    IN  [mode   |-> mode,
         path   |-> firstNonEmpty(c.keyringPath, c.localPath),
         key    |-> key,
         backend |-> IF c.keyringBackend \in {"", "awskms"} THEN c.localBackend
                     ELSE c.keyringBackend,
         keyID  |-> firstNonEmpty(c.remoteKeyID, c.popKeyID),
         apiKey |-> firstNonEmpty(firstNonEmpty(c.remoteApiKey, c.popApiKey), env),
         region |-> firstNonEmpty(c.legacyRegion, c.awsRegion),
         awsKey |-> IF mode = "aws_kms" /\ c.awsKeyID = "" THEN key ELSE c.awsKeyID]

\* CLIConfig.buildSignerConfig: the flags alone.
cliSignerConfig ==
    [mode   |-> IF Cli.signerMode = "" THEN "local" ELSE ModeAlias(Cli.signerMode),
     path   |-> Cli.keyringPath,
     key    |-> firstNonEmpty(Cli.defaultKeyName, DefaultConfig.localKey),
     backend |-> DefaultConfig.localBackend,
     keyID  |-> Cli.remoteKeyID,
     apiKey |-> firstNonEmpty(Cli.remoteApiKey, env),
     region |-> "",
     awsKey |-> ""]

\* Mutant: the region is not checked.
SignerValidNoRegion(s) ==
    CASE s.mode = "local"     -> s.path # "" /\ s.key # ""
      [] s.mode = "popsigner" -> s.keyID # "" /\ (s.apiKey # "" \/ env # "")
      [] s.mode = "aws_kms"   -> s.awsKey # "" \/ s.key # ""
      [] s.mode = ""          -> s.path # ""
      [] OTHER                -> FALSE

\* signer.Config.Validate.
SignerValid(s) ==
    CASE s.mode = "local"     -> s.path # "" /\ s.key # ""
      [] s.mode = "popsigner" -> s.keyID # "" /\ (s.apiKey # "" \/ env # "")
      [] s.mode = "aws_kms"   -> s.region # "" /\ (s.awsKey # "" \/ s.key # "")
      [] s.mode = ""          -> s.path # ""
      [] OTHER                -> FALSE

ResolveAPIKey(s) == firstNonEmpty(s.apiKey, env)

\* The names of backends the Cosmos SDK's keyring.New knows.
KeyringBackends == {"test", "file", "os", "kwallet", "pass", "memory"}

\* What the constructors of the keyrings ask of a configuration.  That a keyring
\* cannot be opened, or a service refuses, is left to ClientFails.
NewLocalKeyring(s) ==
    s.path # "" /\ s.key # "" /\ firstNonEmpty(s.backend, "test") \in KeyringBackends

NewPOPSignerKeyring(s) == ResolveAPIKey(s) # "" /\ s.keyID # ""

NewAWSKMSKeyring(s, keyName) == s.region # "" /\ firstNonEmpty(keyName, s.awsKey) # ""

NewKeyring(s) ==
    \/ s.mode \in {"local", ""} /\ NewLocalKeyring(s)
    \/ s.mode = "popsigner" /\ NewPOPSignerKeyring(s)
    \/ s.mode = "aws_kms" /\ NewAWSKMSKeyring(s, firstNonEmpty(s.awsKey, s.key))
-----------------------------------------------------------------------------
(***************************************************************************)
(* Validate, and the choice of the Celestia configuration.                 *)
(***************************************************************************)
Valid(c) ==
    /\ c.namespace \notin {"", "bad"}     \* 29 bytes in hex
    /\ "bad" \notin {c.submitTimeout, c.getTimeout, c.limits}
    /\ c.coreGRPCAddr # "" =>
           SignerValid(buildSignerConfig(c)) /\ c.p2pNetwork # ""
    /\ ValidMode(c.fallbackMode)

\* Mutant: the error is logged and not returned.
ValidateFailsSilently == Fail("built", "") /\ ~Valid(cfg)

ValidateFails == Fail("built", "invalid config") /\ ~Valid(cfg)

\* Mutant: the signer section is checked, without the legacy fields.
TxClientSection(c) ==
    /\ c.coreGRPCAddr # ""
    /\ SignerValid([buildSignerConfig(c) EXCEPT !.mode = c.mode, !.path = c.localPath])

TxClientEnabled(c) == c.coreGRPCAddr # "" /\ SignerValid(buildSignerConfig(c))

\* Config.ToCelestiaRPCConfig: without a transaction client, blobs are
\* submitted through the bridge node.
ToCelestiaRPCConfig(c) ==
    [url |-> c.bridgeAddr, namespace |-> c.namespace,
     compact |-> c.blobIDCompact,
     tx  |-> IF TxClientEnabled(c) THEN buildSignerConfig(c) ELSE None]

cliTxClientEnabled == Cli.coreGRPCAddr # "" /\ SignerValid(cliSignerConfig)

\* CLIConfig.CelestiaConfig: taken whole from the flags.
CelestiaConfig ==
    [url |-> Cli.bridgeAddr, namespace |-> Cli.namespace,
     compact |-> Cli.blobIDCompact,
     tx  |-> IF cliTxClientEnabled THEN cliSignerConfig ELSE None]

CelestiaRPCClientEnabled ==
    Cli.bridgeAddr # "" \/ Cli.bridgeAuthToken # "" \/ Cli.namespace # ""

\* An empty bridge_addr counts as no Celestia settings at all.
FlagsReplaceFile == cfg.bridgeAddr = "" /\ CelestiaRPCClientEnabled

ChosenConfig ==
    IF FlagsReplaceFile THEN CelestiaConfig ELSE ToCelestiaRPCConfig(cfg)

ChooseRPC ==
    /\ phase = "built" /\ Valid(cfg)
    /\ phase' = "validated"
    /\ rpc' = ChosenConfig
    /\ UNCHANGED <<failure, inputs, cfg, server>>
-----------------------------------------------------------------------------
(***************************************************************************)
(* NewCelestiaStore, the fallback provider, and the server.                *)
(***************************************************************************)
NoCelestia ==
    Fail("validated", "no celestia") /\ rpc.url = "" /\ rpc.namespace = ""

HasCelestia == rpc.url # "" \/ rpc.namespace # ""

KeyringBuilds == rpc.tx # None => NewKeyring(rpc.tx)

KeyringFails == Fail("validated", "keyring") /\ HasCelestia /\ ~KeyringBuilds

\* The keyring cannot be opened, or its service, the transaction client or the
\* RPC client refuses.
ClientFails == Fail("validated", "client") /\ HasCelestia /\ KeyringBuilds

\* NewNamespaceFromBytes also refuses bytes that are no namespace ("reserved").
IsNamespace == rpc.namespace \notin {"", "bad", "reserved"}

NamespaceFails ==
    Fail("validated", "namespace") /\ HasCelestia /\ KeyringBuilds /\ ~IsNamespace

NewCelestiaStore ==
    /\ phase = "validated" /\ HasCelestia /\ KeyringBuilds /\ IsNamespace
    /\ phase' = "store"
    /\ UNCHANGED <<failure, inputs, cfg, rpc, server>>

\* GetSubmissionTimeout, GetReadTimeout and GetS3Timeout: "" is the default.
Parsed(t, default) == IF t = "" THEN default ELSE t

\* Zero means the default too, in StartDAServer and in NewS3Provider.
NonZero(t, default) == IF t = "0s" THEN default ELSE t

Timeout(t, default) == NonZero(Parsed(t, default), default)

\* Mutant: a timeout that does not parse is passed on as it is.
S3TimeoutUnparsed(t) == Timeout(t, "30s")

\* GetS3Timeout's error is dropped, so what does not parse is zero.
S3Timeout(t) == Timeout(IF t = "bad" THEN "0s" ELSE t, "30s")

\* Mutant: the flag's default hides what the file says.
FallbackModeOfFlag == firstNonEmpty(Cli.fallbackMode, cfg.fallbackMode)

FallbackModeOf == firstNonEmpty(cfg.fallbackMode, Cli.fallbackMode)

FallbackEnabled == cfg.fallbackEnabled = "true" \/ Cli.fallbackEnabled = "true"

Provider    == firstNonEmpty(cfg.provider, Cli.provider)
Bucket      == firstNonEmpty(cfg.bucket, Cli.bucket)
Prefix      == firstNonEmpty(cfg.prefix, Cli.prefix)
Credentials == firstNonEmpty(cfg.credentialType, Cli.credentialType)
AccessKeys  == firstNonEmpty(cfg.accessKeys, Cli.accessKeys)

ProviderFails == Fail("store", "provider") /\ FallbackEnabled /\ Provider # "s3"

BucketFails ==
    Fail("store", "bucket") /\ FallbackEnabled /\ Provider = "s3" /\ Bucket = ""

\* NewS3Provider's switch over credential types.
CredentialsOK ==
    \/ Credentials = "static" /\ AccessKeys # ""
    \/ Credentials \in {"anonymous", "public", "environment", "iam", ""}

S3Configured == FallbackEnabled /\ Provider = "s3" /\ Bucket # ""

CredentialsFail == Fail("store", "credentials") /\ S3Configured /\ ~CredentialsOK

\* LoadDefaultConfig fails, where the default credential chain is used.
AWSConfigFails ==
    /\ Fail("store", "aws config") /\ S3Configured
    /\ Credentials \in {"environment", "iam", ""} /\ AccessKeys = ""

\* The provider of a server without a fallback.
NoopProvider == [bucket |-> "", prefix |-> "", legacy |-> "false", timeout |-> "0s"]

\* Legacy reads and the timeout are the flags' when these are set.
S3Provider ==
    [bucket  |-> Bucket,
     prefix  |-> Prefix,
     legacy  |-> Override([readLegacyBlobs |-> cfg.readLegacyBlobs], SetFlags).readLegacyBlobs,
     timeout |-> IF "s3Timeout" \in DOMAIN SetFlags
                 THEN NonZero(SetFlags["s3Timeout"], "30s")
                 ELSE S3Timeout(cfg.s3Timeout)]

BuiltServer ==
    [fallback      |-> IF FallbackEnabled THEN S3Provider ELSE NoopProvider,
     mode          |-> FallbackModeOf,
     namespace     |-> rpc.namespace,
     compact       |-> rpc.compact,
     signer        |-> rpc.tx,
     submitTimeout |-> Timeout(cfg.submitTimeout, "60s"),
     getTimeout    |-> Timeout(cfg.getTimeout, "30s")]

NewCelestiaServer ==
    /\ phase = "store"
    /\ FallbackEnabled => S3Configured /\ CredentialsOK
    /\ phase' = "started"
    /\ server' = BuiltServer
    /\ UNCHANGED <<failure, inputs, cfg, rpc>>

Ended == phase \in {"started", "failed"} /\ UNCHANGED vars
-----------------------------------------------------------------------------
Next ==
    \/ Edit
    \/ CheckRequiredFails \/ LoadConfigFails \/ BuildConfigFromCLI
    \/ ValidateFails \/ ChooseRPC
    \/ NoCelestia \/ KeyringFails \/ ClientFails \/ NamespaceFails \/ NewCelestiaStore
    \/ ProviderFails \/ BucketFails \/ CredentialsFail \/ AWSConfigFails
    \/ NewCelestiaServer \/ Ended

Spec == Init /\ [][Next]_vars
-----------------------------------------------------------------------------
(***************************************************************************)
(* Properties.                                                             *)
(***************************************************************************)

\* The type invariant of a start: an error ends it, and only an error is
\* reported as one.
TypeOK ==
    /\ phase \in {"editing", "built", "validated", "store", "started", "failed"}
    /\ failure \in Failures \cup {""}
    /\ failure # "" <=> phase = "failed"
    /\ hasFile \in BOOLEAN
    /\ IsSettings(file, Fields) /\ IsSettings(flags, FlagFields)
    /\ env \in EnvKeys /\ edits \in 0..MaxEdits
    /\ phase = "editing" => cfg = None
    /\ phase \in {"built", "validated", "store", "started"} =>
           DOMAIN cfg = Fields /\ IsSettings(cfg, Fields)
    /\ phase \in {"validated", "store", "started"} <=> rpc # None /\ phase # "failed"
    /\ rpc # None => rpc \in RPCClientConfig
    /\ phase = "started" <=> server # None
    /\ server # None => server \in ServerConfig

\* A server whose merged configuration names a consensus endpoint submits
\* through the transaction client with the signer of that configuration, unless
\* an empty bridge_addr makes the flags replace it: only then may it be built
\* for the bridge node (see ConsensusEndpointUsed).  No signer reaches the
\* transaction client without passing Validate.
SubmitsAsConfigured ==
    phase = "started" /\ cfg.coreGRPCAddr # "" =>
        /\ ~FlagsReplaceFile => server.signer = buildSignerConfig(cfg)
        /\ server.signer # None => SignerValid(server.signer)

\* What Validate accepts, the keyring constructors accept, with two exceptions,
\* both of local keyrings: no key name when the mode is explicitly empty, and a
\* name of a backend that the Cosmos SDK does not know.
KeyringOfValidConfig ==
    failure = "keyring" =>
        /\ rpc.tx.mode \in {"", "local"}
        /\ \/ rpc.tx.mode = "" /\ rpc.tx.key = ""
           \/ firstNonEmpty(rpc.tx.backend, "test") \notin KeyringBackends

\* What the operator said of a field: a flag beats the file, the file beats the
\* default.
Said(f) ==
    IF f \in DOMAIN flags THEN flags[f]
    ELSE IF f \in DOMAIN file THEN file[f] ELSE DefaultConfig[f]

\* Files and flags are merged twice, in BuildConfigFromCLI and again, with the
\* flags' defaults, in StartDAServer; the fallback is still what the operator
\* said: enabled or not, its mode, its bucket and prefix, legacy reads.
FallbackFollowsOperator ==
    phase = "started" =>
        /\ server.fallback # NoopProvider <=> Said("fallbackEnabled") = "true"
        /\ server.fallback # NoopProvider =>
               /\ server.fallback.bucket = Said("bucket")
               /\ server.fallback.prefix = Said("prefix")
               /\ server.fallback.legacy = Said("readLegacyBlobs")
        /\ NormalizeMode(server.mode) = NormalizeMode(Said("fallbackMode"))

\* Blobs go to the namespace the operator said, even where an empty bridge_addr
\* makes the flags replace the whole Celestia configuration; the form of the
\* commitments is the operator's too, but for that case.
CelestiaFollowsOperator ==
    phase = "started" =>
        /\ server.namespace = Said("namespace")
        /\ ~FlagsReplaceFile => server.compact = Said("blobIDCompact")

\* Each call of a started server has a time limit that was parsed and is not
\* zero, though the entry point drops GetS3Timeout's error: the fairness of
\* CelestiaServer rests on it.  A negative limit is accepted; such calls fail at
\* once.
TimersSet ==
    phase = "started" =>
        /\ {server.submitTimeout, server.getTimeout} \cap {"", "0s", "bad"} = {}
        /\ server.fallback.bucket # "" => server.fallback.timeout \notin {"", "0s", "bad"}

\* config.go:49, "CoreGRPC settings (for submitting blobs to consensus)": where
\* they are given, blobs are submitted to consensus.  A run refutes it: with an
\* empty bridge_addr the flags count instead, as if the file "didn't provide
\* celestia settings" (entrypoint.go:93).
ConsensusEndpointUsed ==
    phase = "started" /\ cfg.coreGRPCAddr # "" => server.signer # None

\* config.go:272, "Migrate legacy fields if they are set": a key named in the
\* signer section is used unless a legacy field or flag names another.  A run
\* refutes it, since the legacy field has a default.
SignerSectionKept ==
    /\ phase = "started" /\ server.signer # None /\ cfg.bridgeAddr # ""
    /\ "localKey" \in DOMAIN file /\ Said("localKey") # ""
    /\ "defaultKeyName" \notin DOMAIN file \cup DOMAIN flags
    => server.signer.key = Said("localKey")
-----------------------------------------------------------------------------
(***************************************************************************)
(* The inductive invariant of the safety properties: each phase leaves its *)
(* result as it computed it, from inputs that no later step changes.       *)
(***************************************************************************)

InputsOK ==
    /\ hasFile \in BOOLEAN /\ env \in EnvKeys /\ edits \in 0..MaxEdits
    /\ IsSettings(file, Fields) /\ IsSettings(flags, FlagFields)
    /\ \A f \in DOMAIN flags : <<f, flags[f]>> \in FlagSettings

PhaseOK ==
    /\ phase \in {"editing", "built", "validated", "store", "started", "failed"}
    /\ failure \in Failures \cup {""}
    /\ failure # "" <=> phase = "failed"

ConfigOK ==
    /\ phase = "editing" => cfg = None
    /\ phase \in {"built", "validated", "store", "started"} => cfg = MergedConfig

\* A Celestia configuration is chosen from what was merged and validated, also
\* when the start fails later.
ChoiceOK ==
    /\ phase \in {"editing", "built"} => rpc = None
    /\ phase \in {"validated", "store", "started"} => rpc # None
    /\ rpc # None => cfg = MergedConfig /\ Valid(cfg) /\ rpc = ChosenConfig
    /\ failure = "keyring" => rpc # None /\ ~KeyringBuilds

ServerOK ==
    /\ phase \in {"store", "started"} => IsNamespace
    /\ phase = "started" => server = BuiltServer /\ (FallbackEnabled => S3Configured)
    /\ phase # "started" => server = None

StartInv == InputsOK /\ PhaseOK /\ ConfigOK /\ ChoiceOK /\ ServerOK
=============================================================================
