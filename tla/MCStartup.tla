----------------------------- MODULE MCStartup -----------------------------
(***************************************************************************)
(* A small instance of Startup for TLC: two values for each setting, the   *)
(* one an operator would give and one that is empty, wrong or another.     *)
(***************************************************************************)
EXTENDS Startup, TLC

MCText == STRING

\* The settings of f with each of the values.
Values(f, values) == {f} \X values

MCFlagSettings ==
    UNION {Values("bridgeAddr", {"", "bridge"}), Values("bridgeAuthToken", {"token"}),
           Values("namespace", {"flagNs", "bad", "reserved"}), Values("coreGRPCAddr", {"", "grpc"}),
           Values("p2pNetwork", {""}), Values("blobIDCompact", {"true", "false"}),
           Values("signerMode", {"", "remote", "awskms"}), Values("keyringPath", {"flagPath"}), Values("defaultKeyName", {"", "flagKey"}),
           Values("remoteApiKey", {"flagApi"}), Values("remoteKeyID", {"flagID"}),
           Values("fallbackEnabled", {"true", "false"}), Values("provider", {"", "gcs"}),
           Values("fallbackMode", {"", "write_through", "other"}),
           Values("bucket", {"", "flagBucket"}), Values("prefix", {"flagPrefix"}),
           Values("readLegacyBlobs", {"true", "false"}), Values("credentialType", {"", "static", "vault"}),
           Values("accessKeys", {"flagKeys"}), Values("s3Timeout", {"0s", "5s"})}

MCFileSettings ==
    UNION {Values("bridgeAddr", {""}), Values("coreGRPCAddr", {""}), Values("p2pNetwork", {""}),
           Values("mode", {"", "popsigner", "aws_kms", "vault"}), Values("localPath", {""}),
           Values("localKey", {"", "fileKey"}), Values("localBackend", {"other"}), Values("popKeyID", {"fileID"}),
           Values("popApiKey", {"fileApi"}), Values("awsRegion", {"eu"}),
           Values("awsKeyID", {"arn"}), Values("signerMode", {"local", "remote"}),
           Values("keyringBackend", {"", "awskms", "other"}), Values("keyringPath", {"oldPath"}),
           Values("defaultKeyName", {""}), Values("legacyRegion", {"us"}),
           Values("submitTimeout", {"", "0s", "bad", "-1s"}), Values("getTimeout", {"0s", "bad"}),
           Values("limits", {"bad"}),
           Values("fallbackEnabled", {"true", "false"}), Values("provider", {""}),
           Values("fallbackMode", {"", "read_fallback"}), Values("bucket", {"fileBucket"}),
           Values("namespace", {"fileNs"}), Values("blobIDCompact", {"false"}),
           Values("prefix", {"filePrefix"}), Values("readLegacyBlobs", {"true"}),
           Values("s3Timeout", {"", "0s", "bad"})}

\* A file of the new style with a local signer, and one with a fallback too.
Local == [namespace |-> "fileNs", coreGRPCAddr |-> "grpc", localPath |-> "filePath"]

MCBaseFiles ==
    {Local, Local @@ [fallbackEnabled |-> "true", bucket |-> "fileBucket"]}
=============================================================================
