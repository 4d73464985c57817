----------------------------- MODULE Configuration -----------------------------
(***************************************************************************)
(* Settings, and what the composition root makes of them: where the object *)
(* store is, which providers are real.  A secret is unset (None), empty    *)
(* (a SecretStr of no characters, what AIE_KEY= in the environment gives)  *)
(* or given.                                                               *)
(***************************************************************************)

Environments == {"dev", "test", "prod"}
Secrets == {"unset", "empty", "given"}
Endpoints == {"unset", "minio", "other"}

Settings ==
    [env : Environments,
     endpoint_url : Endpoints,
     huggingface_token : Secrets,
     pinecone_api_key : Secrets,
     enable_web_search : BOOLEAN]

IsProd(s) == s.env = "prod"

\* Wrong: the redirect is for the developer's machine only.
ForceMinioInDev(s) ==
    IF s.env = "dev" /\ s.endpoint_url = "unset" THEN [s EXCEPT !.endpoint_url = "minio"] ELSE s

\* _force_minio_outside_prod, the last step of reading the environment.
ForceMinio(s) ==
    IF ~IsProd(s) /\ s.endpoint_url = "unset" THEN [s EXCEPT !.endpoint_url = "minio"] ELSE s

\* The host of the client _build_s3_client makes: without an endpoint, boto3's own.
ObjectStoreHost(s) == IF s.endpoint_url = "unset" THEN "aws" ELSE s.endpoint_url

\* build_providers: the hosts of the real adapters.  A key is there unless it is None.
Selected(s) ==
    (IF s.huggingface_token # "unset" THEN {"huggingface"} ELSE {})
        \cup (IF s.pinecone_api_key # "unset" THEN {"pinecone"} ELSE {})
        \cup (IF s.enable_web_search THEN {"ddgs"} ELSE {})

\* Nobody asked for anything outside the compose network.
ZeroKeys(s) ==
    /\ ~IsProd(s) /\ s.endpoint_url # "other"
    /\ s.huggingface_token = "unset" /\ s.pinecone_api_key = "unset" /\ ~s.enable_web_search
=============================================================================
