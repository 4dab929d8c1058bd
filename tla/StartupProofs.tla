---------------------------- MODULE StartupProofs ----------------------------
(***************************************************************************)
(* Proofs about Startup, for whatever files, flags and environment an      *)
(* operator may give and any number of edits: each stage of a start keeps  *)
(* what it computed from them, and every safety property follows.          *)
(***************************************************************************)
EXTENDS Startup, TLAPS

-----------------------------------------------------------------------------
(***************************************************************************)
(* Settings and how they are merged.                                       *)
(***************************************************************************)

LEMMA Defaults ==
  /\ \A f \in Fields : DefaultConfig[f] \in Text
  /\ \A f \in FlagFields : FlagDefault[f] \in Text
  /\ FlagFields \subseteq Fields
<1>0. {"", "localhost", "mocha-5", "true", "false", "local",
       "my_celes_key", "test", "ok", "s3", "both", "30s", "60s"} \subseteq Text
  BY StartupAssumption
<1>1. \A f \in Fields : DefaultConfig[f] \in Text
  <2>1. DefaultConfig \in
          [bridgeAddr : Text, bridgeAuthToken : Text, namespace : Text,
           coreGRPCAddr : Text, p2pNetwork : Text, blobIDCompact : Text,
           mode : Text, localPath : Text, localKey : Text, localBackend : Text,
           popKeyID : Text,
           popApiKey : Text, awsRegion : Text, awsKeyID : Text,
           signerMode : Text, keyringBackend : Text, keyringPath : Text,
           defaultKeyName : Text, remoteApiKey : Text, remoteKeyID : Text,
           legacyRegion : Text, submitTimeout : Text, getTimeout : Text,
           limits : Text, fallbackEnabled : Text, provider : Text,
           fallbackMode : Text, bucket : Text, prefix : Text,
           readLegacyBlobs : Text, credentialType : Text, accessKeys : Text,
           s3Timeout : Text]
    BY <1>0 DEF DefaultConfig
  <2> QED
    BY <2>1 DEF Fields
<1>2. \A f \in FlagFields : FlagDefault[f] \in Text
  <2>1. FlagDefault \in
          [bridgeAddr : Text, bridgeAuthToken : Text, namespace : Text,
           coreGRPCAddr : Text, p2pNetwork : Text, blobIDCompact : Text,
           signerMode : Text, keyringPath : Text, defaultKeyName : Text,
           remoteApiKey : Text, remoteKeyID : Text, fallbackEnabled : Text,
           provider : Text, fallbackMode : Text, bucket : Text, prefix : Text,
           readLegacyBlobs : Text, credentialType : Text, accessKeys : Text,
           s3Timeout : Text]
    BY <1>0 DEF FlagDefault
  <2> QED
    BY <2>1 DEF FlagFields
<1>3. FlagFields \subseteq Fields
  BY DEF Fields, DefaultConfig, FlagFields, FlagDefault
<1> QED
  BY <1>1, <1>2, <1>3

\* Adding a setting, and laying settings over a configuration.
LEMMA Adding ==
  ASSUME NEW from, NEW set, IsSettings(set, from), NEW f \in from, NEW v \in Text
  PROVE  /\ IsSettings(With(set, f, v), from)
         /\ DOMAIN With(set, f, v) = DOMAIN set \cup {f} /\ With(set, f, v)[f] = v
         /\ \A x \in DOMAIN set : x # f => With(set, f, v)[x] = set[x]
BY DEF IsSettings, With

LEMMA Overriding ==
  ASSUME NEW names, NEW base \in [names -> Text], NEW from, NEW set, IsSettings(set, from)
  PROVE  /\ Override(base, set) \in [names -> Text]
         /\ \A f \in names :
                Override(base, set)[f] = IF f \in DOMAIN set THEN set[f] ELSE base[f]
BY DEF IsSettings, Override

LEMMA FlagsAsSet ==
  ASSUME InputsOK
  PROVE  /\ IsSettings(SetFlags, FlagFields)
         /\ \A f : f # "remoteApiKey" =>
                /\ f \in DOMAIN SetFlags <=> f \in DOMAIN flags
                /\ f \in DOMAIN flags => SetFlags[f] = flags[f]
<1>1. env \in Text /\ IsSettings(flags, FlagFields)
  BY StartupAssumption DEF InputsOK
<1>2. "remoteApiKey" \in FlagFields
  BY DEF FlagFields, FlagDefault
<1>3. CASE SetFlags = flags
  BY <1>1, <1>3
<1>4. CASE SetFlags = With(flags, "remoteApiKey", env)
  <2> HIDE DEF IsSettings, With
  <2>1. /\ IsSettings(SetFlags, FlagFields)
        /\ DOMAIN SetFlags = DOMAIN flags \cup {"remoteApiKey"}
        /\ \A x \in DOMAIN flags : x # "remoteApiKey" => SetFlags[x] = flags[x]
    <3> DEFINE set == With(flags, "remoteApiKey", env)
    <3>1. /\ IsSettings(set, FlagFields)
          /\ DOMAIN set = DOMAIN flags \cup {"remoteApiKey"}
          /\ \A x \in DOMAIN flags : x # "remoteApiKey" => set[x] = flags[x]
      BY <1>1, <1>2, Adding
    <3> QED
      BY <1>4, <3>1
  <2> QED
    BY <2>1
<1> QED
  BY <1>3, <1>4 DEF SetFlags

\* Flags as the cli library presents them, and the merged configuration.
LEMMA CliTyped ==
  ASSUME InputsOK
  PROVE  /\ Cli \in [FlagFields -> Text]
         /\ \A f \in FlagFields : f # "remoteApiKey" =>
                Cli[f] = IF f \in DOMAIN flags THEN flags[f] ELSE FlagDefault[f]
<1>1. FlagDefault \in [FlagFields -> Text]
  <2>1. FlagDefault = [f \in FlagFields |-> FlagDefault[f]]
    BY DEF FlagFields, FlagDefault
  <2> QED
    BY <2>1, Defaults
<1> QED
  BY <1>1, FlagsAsSet, Overriding DEF Cli

LEMMA MergedTyped ==
  ASSUME InputsOK
  PROVE  /\ MergedConfig \in [Fields -> Text]
         /\ \A f \in Fields : f # "remoteApiKey" => MergedConfig[f] = Said(f)
<1>1. DefaultConfig \in [Fields -> Text]
  <2>1. DefaultConfig = [f \in Fields |-> DefaultConfig[f]]
    BY DEF Fields, DefaultConfig
  <2> QED
    BY <2>1, Defaults
<1>2. IsSettings(file, Fields)
  BY DEF InputsOK
<1> DEFINE fromFile == Override(DefaultConfig, file)
<1>3. /\ fromFile \in [Fields -> Text]
      /\ \A f \in Fields :
             fromFile[f] = IF f \in DOMAIN file THEN file[f] ELSE DefaultConfig[f]
  BY <1>1, <1>2, Overriding
<1> HIDE DEF fromFile
<1>4. /\ Override(fromFile, SetFlags) \in [Fields -> Text]
      /\ \A f \in Fields : Override(fromFile, SetFlags)[f] =
             IF f \in DOMAIN SetFlags THEN SetFlags[f] ELSE fromFile[f]
  BY <1>3, FlagsAsSet, Overriding
<1>5. MergedConfig = Override(fromFile, SetFlags)
  BY DEF MergedConfig, fromFile
<1> QED
  BY <1>3, <1>4, <1>5, FlagsAsSet DEF Said

\* The fields of a configuration, and those that have a flag.
LEMMA Names ==
  /\ {"bridgeAddr", "bridgeAuthToken", "namespace", "coreGRPCAddr", "p2pNetwork",
      "blobIDCompact", "mode", "localPath", "localKey", "localBackend", "popKeyID",
      "popApiKey",
      "awsRegion", "awsKeyID", "signerMode", "keyringBackend", "keyringPath",
      "defaultKeyName", "remoteApiKey", "remoteKeyID", "legacyRegion",
      "submitTimeout", "getTimeout", "limits", "fallbackEnabled", "provider",
      "fallbackMode", "bucket", "prefix", "readLegacyBlobs", "credentialType",
      "accessKeys", "s3Timeout"} = Fields
  /\ {"bridgeAddr", "bridgeAuthToken", "namespace", "coreGRPCAddr", "p2pNetwork",
      "blobIDCompact", "signerMode", "keyringPath", "defaultKeyName",
      "remoteApiKey", "remoteKeyID", "fallbackEnabled", "provider",
      "fallbackMode", "bucket", "prefix", "readLegacyBlobs", "credentialType",
      "accessKeys", "s3Timeout"} = FlagFields
BY DEF Fields, DefaultConfig, FlagFields, FlagDefault

-----------------------------------------------------------------------------
(***************************************************************************)
(* What the stages compute is well typed.                                  *)
(***************************************************************************)

\* The signer from the merged configuration, and from the flags alone.
LEMMA SignersTyped ==
  ASSUME InputsOK, NEW c \in [Fields -> Text]
  PROVE  buildSignerConfig(c) \in SignerConfig /\ cliSignerConfig \in SignerConfig
<1>1. env \in Text /\ {"", "local", "popsigner", "aws_kms", "my_celes_key"} \subseteq Text
  BY StartupAssumption DEF InputsOK
<1>2. /\ {c.keyringBackend, c.localBackend, c.signerMode, c.mode, c.defaultKeyName, c.localKey,
          c.keyringPath, c.localPath, c.remoteKeyID, c.popKeyID, c.remoteApiKey,
          c.popApiKey, c.legacyRegion, c.awsRegion, c.awsKeyID} \subseteq Text
  BY Names
<1>3. {Cli.signerMode, Cli.keyringPath, Cli.defaultKeyName, Cli.remoteKeyID,
       Cli.remoteApiKey} \subseteq Text
  BY CliTyped, Names
<1>4. \A a, b \in Text : firstNonEmpty(a, b) \in Text
  BY DEF firstNonEmpty
<1>5. \A m \in Text : ModeAlias(m) \in Text
  BY <1>1 DEF ModeAlias
<1>6. buildSignerConfig(c) \in SignerConfig
  BY <1>1, <1>2, <1>4, <1>5 DEF buildSignerConfig, SignerConfig
<1>7. cliSignerConfig \in SignerConfig
  <2>1. DefaultConfig.localKey = "my_celes_key" /\ DefaultConfig.localBackend \in Text
    BY StartupAssumption DEF DefaultConfig
  <2> QED
    BY <1>1, <1>3, <1>4, <1>5, <2>1 DEF cliSignerConfig, SignerConfig
<1> QED
  BY <1>6, <1>7

\* The Celestia configuration that is chosen.
LEMMA ChosenTyped ==
  ASSUME InputsOK, cfg = MergedConfig
  PROVE  ChosenConfig \in RPCClientConfig /\ ChosenConfig # None
<1>1. cfg \in [Fields -> Text]
  BY MergedTyped
<1>2. {cfg.bridgeAddr, cfg.namespace, cfg.blobIDCompact} \subseteq Text
  BY <1>1, Names
<1>3. {Cli.bridgeAddr, Cli.namespace, Cli.blobIDCompact} \subseteq Text
  BY CliTyped, Names
<1>4. buildSignerConfig(cfg) \in SignerConfig /\ cliSignerConfig \in SignerConfig
  BY <1>1, SignersTyped
<1>5. ToCelestiaRPCConfig(cfg) \in RPCClientConfig
  BY <1>2, <1>4 DEF ToCelestiaRPCConfig, RPCClientConfig
<1>6. CelestiaConfig \in RPCClientConfig
  BY <1>3, <1>4 DEF CelestiaConfig, RPCClientConfig
<1> QED
  BY <1>5, <1>6, NoneAssumption DEF ChosenConfig

\* The server that is built.
LEMMA BuiltTyped ==
  ASSUME InputsOK, cfg = MergedConfig, rpc \in RPCClientConfig
  PROVE  BuiltServer \in ServerConfig /\ BuiltServer # None
<1>1. cfg \in [Fields -> Text]
  BY MergedTyped
<1>2. {cfg.bucket, cfg.prefix, cfg.readLegacyBlobs, cfg.s3Timeout, cfg.fallbackMode,
       cfg.submitTimeout, cfg.getTimeout} \subseteq Text
  BY <1>1, Names
<1>3. {Cli.bucket, Cli.prefix, Cli.fallbackMode} \subseteq Text
  BY CliTyped, Names
<1>4. {"", "0s", "30s", "60s", "false"} \subseteq Text
  BY StartupAssumption
<1>5. /\ \A a, b \in Text : firstNonEmpty(a, b) \in Text
      /\ \A a, b \in Text : NonZero(a, b) \in Text /\ Timeout(a, b) \in Text
      /\ \A a \in Text : S3Timeout(a) \in Text
  BY <1>4 DEF firstNonEmpty, NonZero, Timeout, Parsed, S3Timeout
<1>6. S3Provider.legacy \in Text
  <2>1. S3Provider.legacy =
            IF "readLegacyBlobs" \in DOMAIN SetFlags
            THEN SetFlags["readLegacyBlobs"] ELSE cfg.readLegacyBlobs
    BY DEF S3Provider, Override
  <2> QED
    BY <1>2, <2>1, FlagsAsSet DEF IsSettings
<1>7. S3Provider.timeout \in Text
  <2>1. S3Provider.timeout = IF "s3Timeout" \in DOMAIN SetFlags
                             THEN NonZero(SetFlags["s3Timeout"], "30s")
                             ELSE S3Timeout(cfg.s3Timeout)
    BY DEF S3Provider
  <2>2. "s3Timeout" \in DOMAIN SetFlags => SetFlags["s3Timeout"] \in Text
    BY FlagsAsSet DEF IsSettings
  <2>3. cfg.s3Timeout \in Text /\ "30s" \in Text
    BY <1>2, <1>4
  <2> QED
    BY <1>5, <2>1, <2>2, <2>3
<1>8. {Bucket, Prefix, FallbackModeOf} \subseteq Text
  BY <1>2, <1>3, <1>5 DEF Bucket, Prefix, FallbackModeOf
<1>9. {S3Provider, NoopProvider} \subseteq
          [bucket : Text, prefix : Text, legacy : Text, timeout : Text]
  <2>1. S3Provider \in [bucket : Text, prefix : Text, legacy : Text, timeout : Text]
    BY <1>6, <1>7, <1>8 DEF S3Provider
  <2>2. NoopProvider \in [bucket : Text, prefix : Text, legacy : Text, timeout : Text]
    BY <1>4 DEF NoopProvider
  <2> QED
    BY <2>1, <2>2
<1>10. BuiltServer \in ServerConfig
  BY <1>2, <1>4, <1>5, <1>8, <1>9 DEF BuiltServer, ServerConfig, RPCClientConfig
<1> QED
  BY <1>10, NoneAssumption

-----------------------------------------------------------------------------
(***************************************************************************)
(* The invariant.                                                          *)
(***************************************************************************)

\* Once the operator has launched the server, its inputs do not change, and
\* what is computed from them does not either.
LEMMA Fixed ==
  ASSUME UNCHANGED <<inputs, cfg>>
  PROVE  /\ MergedConfig' = MergedConfig /\ ChosenConfig' = ChosenConfig
         /\ Valid(cfg)' <=> Valid(cfg)
         /\ FallbackEnabled' <=> FallbackEnabled
         /\ S3Configured' <=> S3Configured
<1>0. /\ file' = file /\ flags' = flags /\ env' = env /\ cfg' = cfg
  BY DEF inputs
<1>1. SetFlags' = SetFlags
  BY <1>0 DEF SetFlags, With
<1>2. Cli' = Cli
  BY <1>1 DEF Cli, Override
<1>3. MergedConfig' = MergedConfig
  BY <1>0, <1>1 DEF MergedConfig, Override
<1>4. buildSignerConfig(cfg)' = buildSignerConfig(cfg)
  BY <1>0 DEF buildSignerConfig
<1>5. cliSignerConfig' = cliSignerConfig
  BY <1>0, <1>2 DEF cliSignerConfig
<1>6. /\ SignerValid(buildSignerConfig(cfg))' <=> SignerValid(buildSignerConfig(cfg))
      /\ SignerValid(cliSignerConfig)' <=> SignerValid(cliSignerConfig)
  BY <1>0, <1>4, <1>5 DEF SignerValid
<1>7. Valid(cfg)' <=> Valid(cfg)
  BY <1>0, <1>6 DEF Valid
<1>8. ToCelestiaRPCConfig(cfg)' = ToCelestiaRPCConfig(cfg)
  BY <1>0, <1>4, <1>6 DEF ToCelestiaRPCConfig, TxClientEnabled
<1>9. CelestiaConfig' = CelestiaConfig
  BY <1>2, <1>5, <1>6 DEF CelestiaConfig, cliTxClientEnabled
<1>10. ChosenConfig' = ChosenConfig
  BY <1>0, <1>2, <1>8, <1>9 DEF ChosenConfig, FlagsReplaceFile, CelestiaRPCClientEnabled
<1>11. FallbackEnabled' <=> FallbackEnabled
  BY <1>0, <1>2 DEF FallbackEnabled
<1>12. S3Configured' <=> S3Configured
  BY <1>0, <1>2, <1>11 DEF S3Configured, Provider, Bucket
<1> QED
  BY <1>3, <1>7, <1>10, <1>11, <1>12

LEMMA ServerFixed ==
  ASSUME UNCHANGED <<inputs, cfg, rpc>>
  PROVE  BuiltServer' = BuiltServer
<1>1. SetFlags' = SetFlags /\ cfg' = cfg /\ rpc' = rpc
  BY DEF SetFlags, With, inputs
<1>2. Cli' = Cli
  BY <1>1 DEF Cli, Override
<1>3. S3Provider' = S3Provider
  BY <1>1, <1>2 DEF S3Provider, Bucket, Prefix, Override
<1>4. FallbackModeOf' = FallbackModeOf
  BY <1>1, <1>2 DEF FallbackModeOf
<1>5. FallbackEnabled' <=> FallbackEnabled
  BY <1>1, <1>2 DEF FallbackEnabled
<1> QED
  BY <1>1, <1>3, <1>4, <1>5 DEF BuiltServer, NoopProvider

\* An operator's edits keep settings what they are.
LEMMA EditKeeps ==
  ASSUME InputsOK, Edit
  PROVE  InputsOK'
<1>1. /\ edits \in 0..MaxEdits /\ edits < MaxEdits /\ edits' = edits + 1 /\ MaxEdits \in Nat
      /\ IsSettings(file, Fields) /\ IsSettings(flags, FlagFields)
  BY StartupAssumption DEF InputsOK, Edit
<1>2. edits' \in 0..MaxEdits
  BY <1>1
<1>3. CASE WriteFile
  <2>1. PICK setting \in FileSettings :
            /\ file' = With(file, setting[1], setting[2]) /\ hasFile' = TRUE
            /\ UNCHANGED <<flags, env>>
    BY <1>3 DEF WriteFile
  <2>2. setting[1] \in Fields /\ setting[2] \in Text
    <3>1. FileSettings \subseteq Fields \X Text
      BY StartupAssumption
    <3> QED
      BY <3>1
  <2>3. IsSettings(file', Fields)
    BY <1>1, <2>1, <2>2, Adding
  <2> QED
    BY <1>2, <2>1, <2>3 DEF InputsOK, IsSettings
<1>4. CASE GiveFlag
  <2>1. PICK setting \in FlagSettings :
            /\ flags' = With(flags, setting[1], setting[2])
            /\ UNCHANGED <<hasFile, file, env>>
    BY <1>4 DEF GiveFlag
  <2>2. FlagSettings \subseteq FlagFields \X Text
    BY StartupAssumption
  <2>3. PICK f \in FlagFields, v \in Text : setting = <<f, v>>
    BY <2>2
  <2>4. flags' = With(flags, f, v) /\ <<f, v>> \in FlagSettings
    BY <2>1, <2>3
  <2>5. /\ IsSettings(With(flags, f, v), FlagFields)
        /\ DOMAIN With(flags, f, v) = DOMAIN flags \cup {f} /\ With(flags, f, v)[f] = v
        /\ \A x \in DOMAIN flags : x # f => With(flags, f, v)[x] = flags[x]
    <3>1. IsSettings(flags, FlagFields)
      BY <1>1
    <3> QED
      BY <3>1 DEF IsSettings, With
  <2>6. \A x \in DOMAIN flags' : <<x, flags'[x]>> \in FlagSettings
    BY <2>4, <2>5 DEF InputsOK
  <2> QED
    BY <1>2, <2>1, <2>4, <2>5, <2>6 DEF InputsOK, IsSettings
<1>5. CASE SetEnv
  BY <1>2, <1>5 DEF SetEnv, InputsOK, IsSettings
<1> QED
  BY <1>3, <1>4, <1>5 DEF Edit

\* An error leaves what was computed before it.
LEMMA FailKeeps ==
  ASSUME StartInv, NEW from, NEW error \in Failures, Fail(from, error),
         error = "keyring" => rpc # None /\ ~KeyringBuilds,
         from # "started"
  PROVE  StartInv'
<1>1. /\ phase' = "failed" /\ failure' = error /\ UNCHANGED <<inputs, cfg, rpc, server>>
      /\ phase # "started"
  BY DEF Fail
<1>2. error # ""
  BY DEF Failures
<1>3. InputsOK'
  BY <1>1 DEF StartInv, InputsOK, inputs, IsSettings
<1>4. PhaseOK'
  BY <1>1, <1>2 DEF PhaseOK
<1>5. ConfigOK'
  BY <1>1 DEF ConfigOK
<1>6. ChoiceOK'
  <2>1. /\ MergedConfig' = MergedConfig /\ ChosenConfig' = ChosenConfig
        /\ Valid(cfg)' <=> Valid(cfg)
    BY <1>1, Fixed
  <2>2. rpc # None => cfg = MergedConfig /\ Valid(cfg) /\ rpc = ChosenConfig
    BY DEF StartInv, ChoiceOK
  <2>3. rpc' # None => cfg' = MergedConfig' /\ Valid(cfg)' /\ rpc' = ChosenConfig'
    BY <1>1, <2>1, <2>2
  <2>4. KeyringBuilds' <=> KeyringBuilds
    BY <1>1 DEF KeyringBuilds, NewKeyring, NewPOPSignerKeyring, ResolveAPIKey, inputs,
       NewLocalKeyring, NewAWSKMSKeyring
  <2> QED
    BY <1>1, <2>3, <2>4 DEF ChoiceOK
<1>7. ServerOK'
  BY <1>1 DEF StartInv, ServerOK
<1> QED
  BY <1>3, <1>4, <1>5, <1>6, <1>7 DEF StartInv

LEMMA InitInv == Init => StartInv
<1> SUFFICES ASSUME Init PROVE StartInv
  OBVIOUS
<1>1. InputsOK
  <2>1. NoSettings = [f \in {} |-> ""] /\ IsSettings(NoSettings, Fields)
        /\ IsSettings(NoSettings, FlagFields)
    BY DEF NoSettings, IsSettings
  <2>2. PICK base \in BaseFiles \cup {NoSettings} : file = base /\ hasFile = (base # NoSettings)
    BY DEF Init
  <2>3. IsSettings(file, Fields)
    BY <2>1, <2>2, StartupAssumption
  <2>4. hasFile \in BOOLEAN
    BY <2>2, Zenon
  <2>5. flags = NoSettings /\ env \in EnvKeys /\ edits \in 0..MaxEdits
    <3>1. "" \in EnvKeys /\ MaxEdits \in Nat
      BY StartupAssumption
    <3>2. flags = NoSettings /\ env = "" /\ edits = 0
      BY DEF Init
    <3>3. env \in EnvKeys
      BY <3>1, <3>2
    <3>4. edits \in 0..MaxEdits
      <4>1. edits = 0 /\ MaxEdits \in Nat
        BY <3>1, <3>2
      <4> QED
        BY <4>1
    <3> QED
      BY <3>2, <3>3, <3>4
  <2>6. DOMAIN flags = {}
    BY <2>1, <2>5
  <2> QED
    BY <2>1, <2>3, <2>4, <2>5, <2>6 DEF InputsOK
<1>2. PhaseOK /\ ConfigOK /\ ChoiceOK /\ ServerOK
  BY DEF Init, PhaseOK, ConfigOK, ChoiceOK, ServerOK
<1> QED
  BY <1>1, <1>2 DEF StartInv

\* The steps that end the start with an error.
LEMMA Failing ==
  ASSUME StartInv,
         \/ CheckRequiredFails \/ LoadConfigFails \/ ValidateFails
         \/ NoCelestia \/ KeyringFails \/ ClientFails \/ NamespaceFails
         \/ ProviderFails \/ BucketFails \/ CredentialsFail \/ AWSConfigFails
  PROVE  StartInv'
<1>1. ASSUME NEW from \in {"editing", "built", "validated", "store"},
             NEW error \in Failures \ {"keyring"}, Fail(from, error)
      PROVE  StartInv'
  <2>1. error \in Failures /\ error # "keyring" /\ from # "started"
    OBVIOUS
  <2> QED
    BY <1>1, <2>1, FailKeeps
<1>2. CASE KeyringFails
  <2>1. /\ Fail("validated", "keyring") /\ ~KeyringBuilds /\ phase = "validated"
        /\ "keyring" \in Failures
    BY <1>2 DEF KeyringFails, Fail, Failures
  <2>2. rpc # None
    BY <2>1 DEF StartInv, ChoiceOK
  <2>3. "validated" # "started"
    OBVIOUS
  <2> QED
    BY <2>1, <2>2, <2>3, FailKeeps
<1>3. {"required flag", "config file", "invalid config", "client", "namespace",
       "no celestia", "provider", "bucket", "credentials", "aws config"}
          \subseteq Failures \ {"keyring"}
  BY DEF Failures
<1>4. CASE CheckRequiredFails
  BY <1>1, <1>3, <1>4 DEF CheckRequiredFails
<1>5. CASE LoadConfigFails
  BY <1>1, <1>3, <1>5 DEF LoadConfigFails
<1>6. CASE ValidateFails
  BY <1>1, <1>3, <1>6 DEF ValidateFails
<1>7. CASE NoCelestia
  BY <1>1, <1>3, <1>7 DEF NoCelestia
<1>8. CASE ClientFails
  BY <1>1, <1>3, <1>8 DEF ClientFails
<1>9. CASE NamespaceFails
  BY <1>1, <1>3, <1>9 DEF NamespaceFails
<1>10. CASE ProviderFails
  BY <1>1, <1>3, <1>10 DEF ProviderFails
<1>11. CASE BucketFails
  BY <1>1, <1>3, <1>11 DEF BucketFails
<1>12. CASE CredentialsFail
  BY <1>1, <1>3, <1>12 DEF CredentialsFail
<1>13. CASE AWSConfigFails
  BY <1>1, <1>3, <1>13 DEF AWSConfigFails
<1> QED
  BY <1>2, <1>4, <1>5, <1>6, <1>7, <1>8, <1>9, <1>10, <1>11, <1>12, <1>13

LEMMA NextInv == StartInv /\ [Next]_vars => StartInv'
<1> SUFFICES ASSUME StartInv, [Next]_vars PROVE StartInv'
  OBVIOUS
<1>0. InputsOK /\ PhaseOK /\ ConfigOK /\ ChoiceOK /\ ServerOK
  BY DEF StartInv
<1>1. ASSUME UNCHANGED inputs PROVE InputsOK'
  BY <1>0, <1>1 DEF InputsOK, inputs, IsSettings
<1>2. CASE Edit
  <2>1. phase = "editing" /\ UNCHANGED <<phase, failure, cfg, rpc, server>> /\ rpc = None
    BY <1>0, <1>2 DEF Edit, ChoiceOK
  <2>2. failure' = ""
    BY <1>0, <2>1 DEF PhaseOK
  <2>3. InputsOK'
    BY <1>0, <1>2, EditKeeps
  <2>4. PhaseOK' /\ ConfigOK' /\ ChoiceOK' /\ ServerOK'
    BY <1>0, <2>1, <2>2 DEF PhaseOK, ConfigOK, ChoiceOK, ServerOK
  <2> QED
    BY <2>3, <2>4 DEF StartInv
<1>3. CASE BuildConfigFromCLI
  <2>1. /\ phase = "editing" /\ phase' = "built" /\ cfg' = MergedConfig
        /\ UNCHANGED <<failure, inputs, rpc, server>> /\ rpc = None /\ failure = ""
    BY <1>0, <1>3 DEF BuildConfigFromCLI, ChoiceOK, PhaseOK
  <2>2. MergedConfig' = MergedConfig
    BY <2>1 DEF inputs, MergedConfig, Override, SetFlags, With
  <2>3. PhaseOK' /\ ConfigOK' /\ ChoiceOK' /\ ServerOK'
    BY <1>0, <2>1, <2>2 DEF PhaseOK, ConfigOK, ChoiceOK, ServerOK
  <2> QED
    BY <1>1, <2>1, <2>3 DEF StartInv
<1>4. CASE ChooseRPC
  <2>1. /\ phase = "built" /\ phase' = "validated" /\ rpc' = ChosenConfig /\ Valid(cfg)
        /\ UNCHANGED <<failure, inputs, cfg, server>> /\ cfg = MergedConfig /\ failure = ""
    BY <1>0, <1>4 DEF ChooseRPC, ConfigOK, PhaseOK
  <2>2. /\ MergedConfig' = MergedConfig /\ ChosenConfig' = ChosenConfig
        /\ Valid(cfg)' <=> Valid(cfg)
    BY <2>1, Fixed
  <2>3. rpc' # None
    BY <1>0, <2>1, ChosenTyped
  <2>4. PhaseOK' /\ ConfigOK' /\ ServerOK'
    BY <1>0, <2>1, <2>2 DEF PhaseOK, ConfigOK, ServerOK
  <2>5. cfg' = MergedConfig' /\ Valid(cfg)' /\ rpc' = ChosenConfig'
    BY <2>1, <2>2
  <2>6. ChoiceOK'
    BY <2>1, <2>3, <2>5 DEF ChoiceOK
  <2> QED
    BY <1>1, <2>1, <2>4, <2>6 DEF StartInv
<1>5. CASE NewCelestiaStore
  <2>1. /\ phase = "validated" /\ phase' = "store" /\ IsNamespace
        /\ UNCHANGED <<failure, inputs, cfg, rpc, server>> /\ failure = ""
    BY <1>0, <1>5 DEF NewCelestiaStore, PhaseOK
  <2>2. /\ MergedConfig' = MergedConfig /\ ChosenConfig' = ChosenConfig
        /\ Valid(cfg)' <=> Valid(cfg)
    BY <2>1, Fixed
  <2>3. IsNamespace'
    BY <2>1 DEF IsNamespace
  <2>4. PhaseOK' /\ ConfigOK' /\ ServerOK'
    BY <1>0, <2>1, <2>2, <2>3 DEF PhaseOK, ConfigOK, ServerOK
  <2>5. rpc' # None /\ cfg' = MergedConfig' /\ Valid(cfg)' /\ rpc' = ChosenConfig'
    BY <1>0, <2>1, <2>2 DEF ChoiceOK
  <2>6. ChoiceOK'
    BY <2>1, <2>5 DEF ChoiceOK
  <2> QED
    BY <1>1, <2>1, <2>4, <2>6 DEF StartInv
<1>6. CASE NewCelestiaServer
  <2>1. /\ phase = "store" /\ phase' = "started" /\ server' = BuiltServer
        /\ UNCHANGED <<failure, inputs, cfg, rpc>> /\ failure = ""
        /\ FallbackEnabled => S3Configured
    BY <1>0, <1>6 DEF NewCelestiaServer, PhaseOK
  <2>2. /\ MergedConfig' = MergedConfig /\ ChosenConfig' = ChosenConfig
        /\ Valid(cfg)' <=> Valid(cfg)
        /\ FallbackEnabled' <=> FallbackEnabled
        /\ S3Configured' <=> S3Configured
    BY <2>1, Fixed
  <2>3. IsNamespace'
    BY <1>0, <2>1 DEF IsNamespace, ServerOK
  <2>4. BuiltServer' = BuiltServer
    BY <2>1, ServerFixed
  <2>5. PhaseOK' /\ ConfigOK' /\ ServerOK'
    BY <1>0, <2>1, <2>2, <2>3, <2>4 DEF PhaseOK, ConfigOK, ServerOK
  <2>6. rpc' # None /\ cfg' = MergedConfig' /\ Valid(cfg)' /\ rpc' = ChosenConfig'
    BY <1>0, <2>1, <2>2 DEF ChoiceOK
  <2>7. ChoiceOK'
    BY <2>1, <2>6 DEF ChoiceOK
  <2> QED
    BY <1>1, <2>1, <2>5, <2>7 DEF StartInv
<1>7. CASE UNCHANGED vars
  <2>1. UNCHANGED <<inputs, cfg, rpc, server, phase, failure>>
    BY <1>7 DEF vars
  <2>2. /\ MergedConfig' = MergedConfig /\ ChosenConfig' = ChosenConfig
        /\ Valid(cfg)' <=> Valid(cfg)
        /\ FallbackEnabled' <=> FallbackEnabled
        /\ S3Configured' <=> S3Configured
    BY <2>1, Fixed
  <2>3. BuiltServer' = BuiltServer
    BY <2>1, ServerFixed
  <2>4. /\ IsNamespace' <=> IsNamespace
        /\ KeyringBuilds' <=> KeyringBuilds
    BY <2>1 DEF IsNamespace, KeyringBuilds, NewKeyring, NewPOPSignerKeyring, ResolveAPIKey,
       inputs, NewLocalKeyring, NewAWSKMSKeyring
  <2>5. PhaseOK' /\ ConfigOK' /\ ServerOK'
    BY <1>0, <2>1, <2>2, <2>3, <2>4 DEF PhaseOK, ConfigOK, ServerOK
  <2>6. rpc' # None => cfg' = MergedConfig' /\ Valid(cfg)' /\ rpc' = ChosenConfig'
    BY <1>0, <2>1, <2>2 DEF ChoiceOK
  <2>7. ChoiceOK'
    BY <1>0, <2>1, <2>4, <2>6 DEF ChoiceOK
  <2> QED
    BY <1>1, <2>1, <2>5, <2>7 DEF StartInv
<1> QED
  BY <1>2, <1>3, <1>4, <1>5, <1>6, <1>7, Failing DEF Next, Ended

\* Whatever an operator writes, passes and sets, a start computes each part from
\* what was merged, and only from a configuration that validated.
LEMMA Invariance == Spec => []StartInv
  BY InitInv, NextInv, PTL DEF Spec

-----------------------------------------------------------------------------
(***************************************************************************)
(* The theorems.                                                           *)
(***************************************************************************)

\* What a start rests on once a Celestia configuration is chosen.
LEMMA Chosen ==
  ASSUME StartInv, rpc # None
  PROVE  /\ InputsOK /\ cfg = MergedConfig /\ cfg \in [Fields -> Text] /\ Valid(cfg)
         /\ rpc = ChosenConfig /\ rpc \in RPCClientConfig
<1>1. InputsOK /\ cfg = MergedConfig /\ Valid(cfg) /\ rpc = ChosenConfig
  BY DEF StartInv, ChoiceOK
<1>2. cfg \in [Fields -> Text]
  BY <1>1, MergedTyped
<1>3. rpc \in RPCClientConfig
  BY <1>1, ChosenTyped
<1> QED
  BY <1>1, <1>2, <1>3

\* A started server was built from it.
LEMMA Started ==
  ASSUME StartInv, phase = "started"
  PROVE  /\ rpc # None /\ server = BuiltServer /\ server # None /\ server \in ServerConfig
         /\ IsNamespace /\ (FallbackEnabled => S3Configured)
<1>1. /\ rpc # None /\ server = BuiltServer /\ IsNamespace
      /\ FallbackEnabled => S3Configured
  BY DEF StartInv, ChoiceOK, ServerOK
<1>2. BuiltServer \in ServerConfig /\ BuiltServer # None
  BY <1>1, Chosen, BuiltTyped
<1> QED
  BY <1>1, <1>2

\* The type invariant.
THEOREM TypeCorrect == Spec => []TypeOK
<1>1. StartInv => TypeOK
  <2> SUFFICES ASSUME StartInv PROVE TypeOK
    OBVIOUS
  <2>1. InputsOK /\ PhaseOK /\ ConfigOK /\ ChoiceOK /\ ServerOK
    BY DEF StartInv
  <2>2. phase \in {"built", "validated", "store", "started"} =>
            DOMAIN cfg = Fields /\ IsSettings(cfg, Fields)
    <3> SUFFICES ASSUME phase \in {"built", "validated", "store", "started"}
                 PROVE  DOMAIN cfg = Fields /\ IsSettings(cfg, Fields)
      OBVIOUS
    <3>1. cfg = MergedConfig
      BY <2>1 DEF ConfigOK
    <3> QED
      BY <2>1, <3>1, MergedTyped DEF IsSettings
  <2>3. rpc # None => rpc \in RPCClientConfig
    BY Chosen
  <2>4. phase \in {"validated", "store", "started"} <=> rpc # None /\ phase # "failed"
    BY <2>1 DEF PhaseOK, ChoiceOK
  <2>5. phase = "started" <=> server # None
    BY <2>1, Started DEF ServerOK
  <2>6. server # None => server \in ServerConfig
    BY <2>5, Started
  <2> QED
    BY <2>1, <2>2, <2>3, <2>4, <2>5, <2>6 DEF TypeOK, InputsOK, PhaseOK, ConfigOK
<1> QED
  BY Invariance, <1>1, PTL

\* The server submits with the signer of the merged configuration, unless the
\* flags replace it, and with a validated signer in any case.
THEOREM SubmissionConfigured == Spec => []SubmitsAsConfigured
<1>1. StartInv => SubmitsAsConfigured
  <2> SUFFICES ASSUME StartInv, phase = "started", cfg.coreGRPCAddr # ""
               PROVE  /\ ~FlagsReplaceFile => server.signer = buildSignerConfig(cfg)
                      /\ server.signer # None => SignerValid(server.signer)
    BY DEF SubmitsAsConfigured
  <2>1. Valid(cfg) /\ rpc = ChosenConfig
    BY Started, Chosen
  <2>2. TxClientEnabled(cfg)
    BY <2>1 DEF Valid, TxClientEnabled
  <2>3. server.signer = rpc.tx
    <3>1. server = BuiltServer
      BY Started
    <3> QED
      BY <3>1 DEF BuiltServer
  <2>4. CASE ~FlagsReplaceFile
    <3>1. rpc.tx = buildSignerConfig(cfg)
      BY <2>1, <2>2, <2>4 DEF ChosenConfig, ToCelestiaRPCConfig
    <3> QED
      BY <2>2, <2>3, <3>1 DEF TxClientEnabled
  <2>5. CASE FlagsReplaceFile
    <3>1. rpc.tx = IF cliTxClientEnabled THEN cliSignerConfig ELSE None
      BY <2>1, <2>5 DEF ChosenConfig, CelestiaConfig
    <3> QED
      BY <2>3, <2>5, <3>1 DEF cliTxClientEnabled
  <2> QED
    BY <2>4, <2>5
<1> QED
  BY Invariance, <1>1, PTL

\* A keyring configuration that validates and is refused all the same.
Refused(s) ==
    /\ s.mode \in {"", "local"}
    /\ \/ s.mode = "" /\ s.key = ""
       \/ firstNonEmpty(s.backend, "test") \notin KeyringBackends

\* There is no other.
LEMMA ValidKeyring ==
  ASSUME NEW s, SignerValid(s), ~NewKeyring(s)
  PROVE  Refused(s)
BY DEF SignerValid, NewKeyring, NewLocalKeyring, NewPOPSignerKeyring, NewAWSKMSKeyring,
   ResolveAPIKey, firstNonEmpty, Refused

\* Validation and the constructors differ in these two cases only.
THEOREM KeyringsAgree == Spec => []KeyringOfValidConfig
<1>1. StartInv => KeyringOfValidConfig
  <2> SUFFICES ASSUME StartInv, failure = "keyring" PROVE Refused(rpc.tx)
    BY DEF KeyringOfValidConfig, Refused
  <2>1. rpc # None /\ rpc.tx # None /\ ~NewKeyring(rpc.tx)
    BY DEF StartInv, ChoiceOK, KeyringBuilds
  <2>2. rpc = ToCelestiaRPCConfig(cfg) \/ rpc = CelestiaConfig
    BY <2>1, Chosen DEF ChosenConfig
  <2>3. CASE rpc = ToCelestiaRPCConfig(cfg)
    <3>1. rpc.tx = IF TxClientEnabled(cfg) THEN buildSignerConfig(cfg) ELSE None
      BY <2>3 DEF ToCelestiaRPCConfig
    <3>2. rpc.tx = buildSignerConfig(cfg) /\ SignerValid(buildSignerConfig(cfg))
      BY <2>1, <3>1 DEF TxClientEnabled
    <3> QED
      BY <2>1, <3>2, ValidKeyring
  <2>4. CASE rpc = CelestiaConfig
    <3>1. rpc.tx = IF cliTxClientEnabled THEN cliSignerConfig ELSE None
      BY <2>4 DEF CelestiaConfig
    <3>2. rpc.tx = cliSignerConfig /\ SignerValid(cliSignerConfig)
      BY <2>1, <3>1 DEF cliTxClientEnabled
    <3> QED
      BY <2>1, <3>2, ValidKeyring
  <2> QED
    BY <2>2, <2>3, <2>4
<1> QED
  BY Invariance, <1>1, PTL

\* What the second merge with the flags' defaults makes of a field.
LEMMA SaidTwice ==
  ASSUME StartInv, phase = "started"
  PROVE  /\ firstNonEmpty(cfg.bucket, Cli.bucket) = Said("bucket")
         /\ firstNonEmpty(cfg.prefix, Cli.prefix) = Said("prefix")
         /\ FallbackEnabled <=> Said("fallbackEnabled") = "true"
         /\ S3Provider.legacy = Said("readLegacyBlobs")
         /\ NormalizeMode(FallbackModeOf) = NormalizeMode(Said("fallbackMode"))
<1>1. InputsOK /\ cfg = MergedConfig
  BY Started, Chosen
<1>2. /\ cfg.bucket = Said("bucket") /\ cfg.prefix = Said("prefix")
      /\ cfg.fallbackEnabled = Said("fallbackEnabled")
      /\ cfg.readLegacyBlobs = Said("readLegacyBlobs")
      /\ cfg.fallbackMode = Said("fallbackMode")
  BY <1>1, MergedTyped, Names
<1>3. \A f \in {"bucket", "prefix", "fallbackEnabled", "fallbackMode"} :
          Cli[f] = IF f \in DOMAIN flags THEN flags[f] ELSE FlagDefault[f]
  BY <1>1, CliTyped, Names
<1>4. /\ FlagDefault["bucket"] = "" /\ FlagDefault["prefix"] = ""
      /\ FlagDefault["fallbackEnabled"] = "false" /\ FlagDefault["fallbackMode"] = "both"
  BY DEF FlagDefault
<1>5. firstNonEmpty(cfg.bucket, Cli.bucket) = Said("bucket")
  BY <1>2, <1>3, <1>4 DEF firstNonEmpty, Said
<1>6. firstNonEmpty(cfg.prefix, Cli.prefix) = Said("prefix")
  BY <1>2, <1>3, <1>4 DEF firstNonEmpty, Said
<1>7. FallbackEnabled <=> Said("fallbackEnabled") = "true"
  BY <1>2, <1>3, <1>4 DEF FallbackEnabled, Said
<1>8. S3Provider.legacy = Said("readLegacyBlobs")
  <2>1. S3Provider.legacy =
            IF "readLegacyBlobs" \in DOMAIN SetFlags
            THEN SetFlags["readLegacyBlobs"] ELSE cfg.readLegacyBlobs
    BY DEF S3Provider, Override
  <2>2. /\ "readLegacyBlobs" \in DOMAIN SetFlags <=> "readLegacyBlobs" \in DOMAIN flags
        /\ "readLegacyBlobs" \in DOMAIN flags =>
               SetFlags["readLegacyBlobs"] = flags["readLegacyBlobs"]
    BY <1>1, FlagsAsSet
  <2> QED
    BY <1>2, <2>1, <2>2 DEF Said
<1>9. NormalizeMode(FallbackModeOf) = NormalizeMode(Said("fallbackMode"))
  BY <1>2, <1>3, <1>4 DEF FallbackModeOf, firstNonEmpty, NormalizeMode, ModeBoth, Said
<1> QED
  BY <1>5, <1>6, <1>7, <1>8, <1>9

\* The fallback is the operator's, though files and flags are merged twice.
THEOREM FallbackAsSaid == Spec => []FallbackFollowsOperator
<1>1. StartInv => FallbackFollowsOperator
  <2> SUFFICES ASSUME StartInv, phase = "started"
        PROVE  /\ server.fallback # NoopProvider <=> Said("fallbackEnabled") = "true"
               /\ server.fallback # NoopProvider =>
                      /\ server.fallback.bucket = Said("bucket")
                      /\ server.fallback.prefix = Said("prefix")
                      /\ server.fallback.legacy = Said("readLegacyBlobs")
               /\ NormalizeMode(server.mode) = NormalizeMode(Said("fallbackMode"))
    BY DEF FallbackFollowsOperator
  <2>1. /\ server.fallback = IF FallbackEnabled THEN S3Provider ELSE NoopProvider
        /\ server.mode = FallbackModeOf
    BY Started DEF BuiltServer
  <2>2. /\ S3Provider.bucket = Said("bucket") /\ S3Provider.prefix = Said("prefix")
        /\ S3Provider.legacy = Said("readLegacyBlobs")
    BY SaidTwice DEF S3Provider, Bucket, Prefix
  <2>3. FallbackEnabled => S3Provider # NoopProvider
    <3> SUFFICES ASSUME FallbackEnabled PROVE S3Provider.bucket # NoopProvider.bucket
      OBVIOUS
    <3>1. Bucket # ""
      BY Started DEF S3Configured
    <3> QED
      BY <3>1 DEF S3Provider, NoopProvider
  <2>4. FallbackEnabled <=> Said("fallbackEnabled") = "true"
    BY SaidTwice
  <2>5. NormalizeMode(server.mode) = NormalizeMode(Said("fallbackMode"))
    BY <2>1, SaidTwice
  <2> QED
    BY <2>1, <2>2, <2>3, <2>4, <2>5
<1> QED
  BY Invariance, <1>1, PTL

\* Blobs go to the operator's namespace, also when the flags replace the file.
THEOREM CelestiaAsSaid == Spec => []CelestiaFollowsOperator
<1>1. StartInv => CelestiaFollowsOperator
  <2> SUFFICES ASSUME StartInv, phase = "started"
        PROVE  /\ server.namespace = Said("namespace")
               /\ ~FlagsReplaceFile => server.compact = Said("blobIDCompact")
    BY DEF CelestiaFollowsOperator
  <2>1. InputsOK /\ cfg = MergedConfig /\ rpc = ChosenConfig /\ rpc.namespace # ""
    BY Started, Chosen DEF IsNamespace
  <2>2. server.namespace = rpc.namespace /\ server.compact = rpc.compact
    <3>1. server = BuiltServer
      BY Started
    <3> QED
      BY <3>1 DEF BuiltServer
  <2>3. /\ cfg.namespace = Said("namespace") /\ cfg.blobIDCompact = Said("blobIDCompact")
    BY <2>1, MergedTyped, Names
  <2>4. Cli.namespace = IF "namespace" \in DOMAIN flags THEN flags["namespace"] ELSE ""
    <3>1. FlagDefault["namespace"] = ""
      BY DEF FlagDefault
    <3> QED
      BY <2>1, <3>1, CliTyped, Names
  <2>5. CASE rpc = ToCelestiaRPCConfig(cfg)
    BY <2>2, <2>3, <2>5 DEF ToCelestiaRPCConfig
  <2>6. CASE rpc = CelestiaConfig /\ FlagsReplaceFile
    <3>1. rpc.namespace = Cli.namespace
      BY <2>6 DEF CelestiaConfig
    <3> QED
      BY <2>1, <2>2, <2>4, <2>6, <3>1 DEF Said, FlagsReplaceFile
  <2> QED
    BY <2>1, <2>5, <2>6 DEF ChosenConfig
<1> QED
  BY Invariance, <1>1, PTL

\* Every call of a started server has a limit, and none is zero.
THEOREM TimersNonZero == Spec => []TimersSet
<1>1. StartInv => TimersSet
  <2> SUFFICES ASSUME StartInv, phase = "started"
        PROVE  /\ {server.submitTimeout, server.getTimeout} \cap {"", "0s", "bad"} = {}
               /\ server.fallback.bucket # "" =>
                      server.fallback.timeout \notin {"", "0s", "bad"}
    BY DEF TimersSet
  <2>1. InputsOK /\ Valid(cfg)
    BY Started, Chosen
  <2>2. /\ server.submitTimeout = Timeout(cfg.submitTimeout, "60s")
        /\ server.getTimeout = Timeout(cfg.getTimeout, "30s")
        /\ server.fallback = IF FallbackEnabled THEN S3Provider ELSE NoopProvider
    <3>1. server = BuiltServer
      BY Started
    <3>2. server.fallback = IF FallbackEnabled THEN S3Provider ELSE NoopProvider
      BY <3>1 DEF BuiltServer
    <3>3. server.submitTimeout = Timeout(cfg.submitTimeout, "60s")
      BY <3>1 DEF BuiltServer
    <3>4. server.getTimeout = Timeout(cfg.getTimeout, "30s")
      BY <3>1 DEF BuiltServer
    <3> QED
      BY <3>2, <3>3, <3>4
  <2>3. cfg.submitTimeout # "bad" /\ cfg.getTimeout # "bad"
    BY <2>1 DEF Valid
  <2>4. server.submitTimeout \notin {"", "0s", "bad"} /\ server.getTimeout \notin {"", "0s", "bad"}
    BY <2>2, <2>3 DEF Timeout, Parsed, NonZero
  <2>5. NoopProvider.bucket = ""
    BY DEF NoopProvider
  <2>6. S3Provider.timeout \notin {"", "0s", "bad"}
    <3>1. S3Provider.timeout = IF "s3Timeout" \in DOMAIN SetFlags
                               THEN NonZero(SetFlags["s3Timeout"], "30s")
                               ELSE S3Timeout(cfg.s3Timeout)
      BY DEF S3Provider
    <3>2. CASE "s3Timeout" \in DOMAIN SetFlags
      <4>1. "s3Timeout" \in DOMAIN flags /\ SetFlags["s3Timeout"] = flags["s3Timeout"]
        BY <2>1, <3>2, FlagsAsSet
      <4>2. <<"s3Timeout", flags["s3Timeout"]>> \in FlagSettings
        BY <2>1, <4>1 DEF InputsOK
      <4>3. flags["s3Timeout"] # "" /\ flags["s3Timeout"] # "bad"
        BY <4>2, DurationFlagAssumption
      <4> QED
        BY <3>1, <3>2, <4>1, <4>3 DEF NonZero
    <3>3. CASE "s3Timeout" \notin DOMAIN SetFlags
      BY <3>1, <3>3 DEF S3Timeout, Timeout, Parsed, NonZero
    <3> QED
      BY <3>2, <3>3
  <2> QED
    BY <2>2, <2>4, <2>5, <2>6
<1> QED
  BY Invariance, <1>1, PTL
=============================================================================
