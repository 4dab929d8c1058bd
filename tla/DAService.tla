----------------------------- MODULE DAService -----------------------------
(***************************************************************************)
(* What the DA server promises its clients, the op-batcher that PUTs and   *)
(* the op-node that GETs, with no word on how: no handlers, no bucket, no  *)
(* node.  A blob is published at most once per PUT; a PUT is confirmed     *)
(* only with the place where its own blob is published; a GET is answered  *)
(* with data only if the data has the requested commitment and, when the   *)
(* bucket can be trusted, is published at the requested height.  Any       *)
(* request may fail, and a PUT that failed may still be published later.   *)
(***************************************************************************)
EXTENDS Integers

CONSTANTS Req, Data, Commitments, ShareCommitment, MaxHeight, BucketTrusted,
          None

Height  == 1..MaxHeight
BlobRef == [height : Height, commitment : Commitments]

VARIABLES
    blob,       \* the blob of each PUT, None for the rest
    ref,        \* what each GET asks for, None for the rest
    published,  \* the height at which a PUT's blob is published, 0 if it is not
    height,     \* the latest height
    status,     \* "none", "failed" or "ok": what became of the request
    body        \* the answer of a request that is "ok", None for the rest

daVars == <<blob, ref, published, height, status, body>>

\* The blob d is published at height h.
PublishedAt(h, d) == \E q \in Req : published[q] = h /\ blob[q] = d

Init ==
    /\ blob      = [r \in Req |-> None]
    /\ ref       = [r \in Req |-> None]
    /\ published = [r \in Req |-> 0]
    /\ height    = 0
    /\ status    = [r \in Req |-> "none"]
    /\ body      = [r \in Req |-> None]

Fresh(r) == blob[r] = None /\ ref[r] = None /\ status[r] = "none"

Put(r, d) ==
    /\ Fresh(r)
    /\ blob' = [blob EXCEPT ![r] = d]
    /\ UNCHANGED <<ref, published, height, status, body>>

Get(r, k) ==
    /\ Fresh(r)
    /\ ref' = [ref EXCEPT ![r] = k]
    /\ UNCHANGED <<blob, published, height, status, body>>

\* A block publishes blobs of PUTs that are not published yet.
Publish ==
    /\ height' = height + 1
    /\ \E S \in SUBSET {r \in Req : blob[r] # None /\ published[r] = 0} :
           published' = [r \in Req |-> IF r \in S THEN height' ELSE published[r]]
    /\ UNCHANGED <<blob, ref, status, body>>

Answer(r, answer) ==
    /\ status[r] = "none"
    /\ status' = [status EXCEPT ![r] = "ok"]
    /\ body'   = [body EXCEPT ![r] = answer]
    /\ UNCHANGED <<blob, ref, published, height>>

Confirm(r) ==
    /\ blob[r] # None /\ published[r] # 0
    /\ Answer(r, [height     |-> published[r],
                  commitment |-> ShareCommitment[blob[r]]])

Serve(r, d) ==
    /\ ref[r] # None
    /\ ShareCommitment[d] = ref[r].commitment
    /\ BucketTrusted => PublishedAt(ref[r].height, d)
    /\ Answer(r, d)

\* Refused, not found, failed, or never heard of again: one request, or all
\* that were in flight when the process died.
Fail(lost) ==
    /\ \A r \in lost : status[r] = "none"
    /\ status' = [r \in Req |-> IF r \in lost THEN "failed" ELSE status[r]]
    /\ UNCHANGED <<blob, ref, published, height, body>>

Next ==
    \/ Publish
    \/ \E r \in Req :
           \/ \E d \in Data : Put(r, d) \/ Serve(r, d)
           \/ \E k \in BlobRef : Get(r, k)
           \/ Confirm(r)
    \/ \E lost \in SUBSET Req : Fail(lost)

Spec == Init /\ [][Next]_daVars
=============================================================================
