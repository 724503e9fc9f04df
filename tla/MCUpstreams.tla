------------------------------ MODULE MCUpstreams ------------------------------
(* Instance of ProviderAnswers, MediaBilling, RateLimit, QuotaWarning and     *)
(* OptionSync.  They share no variable, so a behaviour follows one of them,   *)
(* chosen at the start, and their state spaces add up instead of multiplying. *)
EXTENDS ProviderAnswers, MediaBilling, RateLimit, QuotaWarning, OptionSync, TLC

VARIABLE focus
vars == <<focus, answersVars, mediaVars, limitVars, warnVars, optionVars>>

\* One image (not said) or three where at most two are made at once.
MCImageRequests ==
  {[model |-> "dall-e-2", size |-> "256x256", hd |-> FALSE, n |-> n, prompt |-> 1, channel |-> "OpenAI"] :
   n \in {0, 3}}
MCImageSizeRatios == [m \in {"dall-e-2", "dall-e-3"} |-> [s \in {"256x256"} |-> 1]]
MCImageGenerationAmounts == [m \in {"dall-e-2"} |-> <<1, 2>>]
MCImagePromptLengthLimitations == [m \in {"dall-e-2"} |-> 10]

\* One model and one group, and a channel kind with its own default.
MCModel == [family |-> "gpt-4", variant |-> ""]
MCGroup == [family |-> "vip", variant |-> ""]
MCNames == {MCModel, MCGroup}
MCDefaultModelRatio == <<MCModel, 0>> :> 1
MCDefaultCompletionRatio == <<MCModel, 7>> :> 2
\* The toggle alone, the toggle with its credential cleared, price tables, one
\* that does not parse beside one that does, and the field of a module.
MCPuts ==
  {"GitHubOAuthEnabled" :> Text("true"),
   "GitHubClientId" :> Text("") @@ "GitHubOAuthEnabled" :> Text("true"),
   "ModelRatio" :> Json(<<MCModel, 7>> :> 5 @@ <<MCModel, 0>> :> 6),
   "ModelRatio" :> Text("{") @@ "CompletionRatio" :> Json(<<MCModel, 0>> :> 8),
   "GroupRatio" :> Json(<<MCGroup, 0>> :> 9),
   Module :> Text("true")}
MCFirstTables == {"GitHubClientId" :> Text("set")}

MCMode == [batch |-> FALSE, redis |-> FALSE]
MCApi == [name |-> "openai", mode |-> "stream"]
Init ==
  /\ AnswersInit /\ MediaInit /\ LimitInit /\ WarnInit /\ OptionInit
  /\ focus \in {"answers", "media", "limit", "reminder", "options"}
  /\ focus # "answers" => api = MCApi
  /\ focus # "media" => mode = MCMode
  /\ focus # "limit" => limiter = "memory"
\* A bound: a transcription runs alone or beside an image.
MCPairs ==
  \A c, d \in MediaCalls :
    c # d /\ call[c].kind = "transcription" => call[d].kind \notin {"speech", "transcription"}
Next ==
  /\ UNCHANGED focus
  /\ \/ focus = "answers" /\ AnswersNext /\ UNCHANGED <<mediaVars, limitVars, warnVars, optionVars>>
     \/ focus = "media" /\ MediaNext /\ MCPairs' /\ UNCHANGED <<answersVars, limitVars, warnVars, optionVars>>
     \/ focus = "limit" /\ LimitNext /\ UNCHANGED <<answersVars, mediaVars, warnVars, optionVars>>
     \/ focus = "reminder" /\ WarnNext /\ UNCHANGED <<answersVars, mediaVars, limitVars, optionVars>>
     \/ focus = "options" /\ OptionNext /\ UNCHANGED <<answersVars, mediaVars, limitVars, warnVars>>
Spec == Init /\ [][Next]_vars

\* Every variable has its type.
TypeOK == AnswersTypeOK /\ MediaTypeOK /\ LimitTypeOK /\ WarnTypeOK /\ OptionTypeOK

\* The cfg gives the calls, requests and administrators the same two names.
Interchangeable == Permutations(Admins)
===============================================================================
