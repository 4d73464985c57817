------------------------------- MODULE MCStartup -------------------------------
(* Startup with an API process and two workers, and the environments they   *)
(* are started in.                                                          *)
EXTENDS Startup

CONSTANTS api, w1, w2

NoKeys ==
    [env |-> "test", endpoint_url |-> "unset", huggingface_token |-> "unset",
     pinecone_api_key |-> "unset", enable_web_search |-> FALSE]

AllKeys ==
    [NoKeys EXCEPT !.env = "dev", !.endpoint_url = "minio", !.huggingface_token = "given",
                   !.pinecone_api_key = "given", !.enable_web_search = TRUE]

Production == [AllKeys EXCEPT !.env = "prod", !.endpoint_url = "unset"]

WellFormed == {NoKeys, AllKeys, Production}

\* x-app-env of docker-compose.yml with nothing set in .env.
ComposeDefaults ==
    {[NoKeys EXCEPT !.env = "dev", !.endpoint_url = "minio",
                    !.huggingface_token = "empty", !.pinecone_api_key = "empty"]}

ThreeProcesses == {api, w1, w2}
=============================================================================
