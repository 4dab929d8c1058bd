---------------------- MODULE CelestiaServerRefinement ----------------------
(***************************************************************************)
(* CelestiaServer implements DAService: what clients observe of handlers,  *)
(* writers, bucket and node is what the abstract service promises.         *)
(***************************************************************************)
EXTENDS CelestiaServer

IsPut(r) == op[r] = "put"

Confirmed(r) == pc[r] = "done" /\ resp[r] = "200"

RefOf(k) == [height |-> k.height, commitment |-> k.commitment]

absBlob == [r \in Req |-> IF IsPut(r) THEN data[r] ELSE None]

absRef == [r \in Req |-> IF op[r] = "get" /\ comm[r] \in GoodKey
                         THEN RefOf(comm[r]) ELSE None]

absStatus == [r \in Req |-> IF Confirmed(r) THEN "ok"
                            ELSE IF pc[r] \in {"done", "dead"} THEN "failed"
                            ELSE "none"]

absBody == [r \in Req |-> IF ~Confirmed(r) THEN None
                          ELSE IF IsPut(r) THEN RefOf(comm[r])
                          ELSE data[r]]

DA == INSTANCE DAService
        WITH blob <- absBlob, ref <- absRef, published <- included,
             height <- height, status <- absStatus, body <- absBody

\* None marks a request that asked for nothing.
ASSUME RefinementAssumption == None \notin DA!BlobRef

\* Seen through the mapping, every behaviour of the server is one of the
\* abstract service: each step of a handler, writer, bucket, block or crash is
\* an abstract step or is invisible.
ImplementsDAService == DA!Spec
=============================================================================
