---------------------------- MODULE UpstreamErrors ----------------------------
(***************************************************************************)
(* What the SDKs raise, and what the adapters take it for.  A raw error is *)
(* the classes it is an instance of, as far as a classifier asks, the HTTP *)
(* status it carries, and whether its S3 code is one of load shedding.     *)
(***************************************************************************)
EXTENDS Naturals

None == 0
Statuses == {None, 400, 401, 404, 429, 503}

Raw(classes, status, shed) == [is |-> classes, status |-> status, shed |-> shed]

Overloaded(e) == e.status >= 500 \/ e.status = 429

Verdict(transient) == IF transient THEN "transient" ELSE "permanent"

\* huggingface_hub: a connection that fails raises neither of its two classes.
HfErrors ==
    {Raw({"HfHubHTTPError"}, s, FALSE) : s \in Statuses}
        \cup {Raw({"InferenceTimeoutError"}, None, FALSE), Raw({}, None, FALSE)}

ClassifyHf(e) ==
    Verdict(\/ "InferenceTimeoutError" \in e.is
            \/ "HfHubHTTPError" \in e.is /\ (e.status = None \/ Overloaded(e)))

\* "blip" is a class whose name has timeout, connection or service in it.
PineconeErrors ==
    {Raw({}, s, FALSE) : s \in Statuses} \cup {Raw({"blip"}, None, FALSE)}

ClassifyPinecone(e) == Verdict(IF e.status # None THEN Overloaded(e) ELSE "blip" \in e.is)

DdgsErrors ==
    {Raw(classes, None, FALSE) : classes \in
        {{"RatelimitException", "DDGSException"}, {"TimeoutException", "DDGSException"},
         {"DDGSException"}, {}}}

ClassifyDdgs(e) == Verdict(e.is \cap {"RatelimitException", "TimeoutException"} # {})

\* A load-shedding code may come with a 400.
S3Errors ==
    {Raw({"ClientError"}, s, FALSE) : s \in Statuses \ {None}}
        \cup {Raw({"ClientError"}, s, TRUE) : s \in {400, 429, 503}}
        \cup {Raw({"ConnectionError", "BotoCoreError"}, None, FALSE),
              Raw({"BotoCoreError"}, None, FALSE), Raw({}, None, FALSE)}

ClassifyBotocore(e) ==
    Verdict(\/ "ConnectionError" \in e.is
            \/ "ClientError" \in e.is /\ (Overloaded(e) \/ e.shed))

\* redis-py: an AuthenticationError is a ConnectionError.
RedisErrors ==
    {Raw(classes, None, FALSE) : classes \in
        {{"AuthenticationError", "ConnectionError"}, {"AuthenticationWrongNumberOfArgsError"},
         {"ConnectionError"}, {"TimeoutError"}, {"TryAgainError"}, {"ResponseError"}, {}}}

PermanentRedisTypes == {"AuthenticationError", "AuthenticationWrongNumberOfArgsError"}
TransientRedisTypes == {"ConnectionError", "TimeoutError", "TryAgainError"}

\* Wrong: the connection errors are looked for first.
ClassifyRedisByBase(e) == Verdict(e.is \cap TransientRedisTypes # {})

ClassifyRedis(e) ==
    Verdict(e.is \cap PermanentRedisTypes = {} /\ e.is \cap TransientRedisTypes # {})

-----------------------------------------------------------------------------
\* The calls the ports make, by the SDK that serves them.
Ports == {"embed", "complete", "search", "upsert", "query", "put", "head", "publish"}

Errors(port) ==
    CASE port \in {"embed", "complete"} -> HfErrors
      [] port = "search"                -> DdgsErrors
      [] port \in {"upsert", "query"}   -> PineconeErrors
      [] port \in {"put", "head"}       -> S3Errors
      [] port = "publish"               -> RedisErrors

Classify(port, e) ==
    CASE port \in {"embed", "complete"} -> ClassifyHf(e)
      [] port = "search"                -> ClassifyDdgs(e)
      [] port \in {"upsert", "query"}   -> ClassifyPinecone(e)
      [] port \in {"put", "head"}       -> ClassifyBotocore(e)
      [] port = "publish"               -> ClassifyRedis(e)

\* The upstream turned the caller away, or the request: it did not execute it.
BadCredentials(e) == e.status \in {401, 403} \/ e.is \cap PermanentRedisTypes # {}
Rejected(e) == e.status \in 400 .. 499 \/ BadCredentials(e)
=============================================================================
