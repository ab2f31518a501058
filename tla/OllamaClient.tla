----------------------------- MODULE OllamaClient -----------------------------
(***************************************************************************)
(* Ollama_Client (discord_ollama_agent/ollama_client.py) and the endpoint it *)
(* talks to.  The client keeps nothing between two calls, so its operations   *)
(* are what they make of the endpoint's answer; the endpoint is external and  *)
(* changes when it likes.                                                    *)
(***************************************************************************)

CONSTANT ConfiguredTag  \* the tag config.model names, "none" if it is a bare name

Tag == {"latest", "other"}

ASSUME ConfiguredTagAssumption == ConfiguredTag \in Tag \union {"none"}

VARIABLE endpoint  \* how it answers now, and the tags of the model it has

Endpoint ==
  [answers : {"timeout", "error"}, tags : {{}}] \union [answers : {"ok"}, tags : SUBSET Tag]

(* The model is pulled or removed, the server is stopped, overloaded or       *)
(* started.                                                                  *)
EndpointChanges == endpoint' \in Endpoint /\ endpoint' # endpoint

(* What Ollama itself takes the configured name for.                         *)
ServesModel ==
  endpoint.answers = "ok" /\
    (IF ConfiguredTag = "none" THEN "latest" ELSE ConfiguredTag) \in endpoint.tags

(* Tags are listed in full, a bare name stands for its :latest.              *)
_model_present_Exactly(tags) == ConfiguredTag \in tags
_model_present(tags) ==
  \/ ConfiguredTag \in tags
  \/ ConfiguredTag = "none" /\ "latest" \in tags

(* A timeout, a transport error, an error status and a body that is not JSON   *)
(* are all "not available"; so is a list without the model.                   *)
check_connectivity_AnyAnswer == endpoint.answers = "ok"
check_connectivity == endpoint.answers = "ok" /\ _model_present(endpoint.tags)

(* What generate raises or returns: GenerationTimeout; OllamaError for any     *)
(* other failure, the missing model among them; the message content, which     *)
(* the model makes up and which is empty when the reply has none.             *)
Raised == {"GenerationTimeout", "OllamaError"}
generate(contents) ==
  CASE endpoint.answers = "timeout" -> {"GenerationTimeout"}
    [] ServesModel                  -> contents \union {"GenerationTimeout", "OllamaError"}
    [] OTHER                        -> {"OllamaError"}
=============================================================================
