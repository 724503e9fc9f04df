---------------------------- MODULE ProviderAnswers ----------------------------
(***************************************************************************)
(* How the provider adaptors turn the answer of an upstream into the chunks *)
(* the client sees and the usage the call is charged by.  An upstream line  *)
(* is its kind and the usage it reports, one text line is one token, and    *)
(* the upstream is honest: what it reports is the prompt and the text it    *)
(* has sent.  Lines can be damaged, and the stream can break off.           *)
(***************************************************************************)
EXTENDS Integers, FiniteSets, Sequences

CONSTANTS
  MaxLines,       \* bound on the lines of a stream
  PromptTokens,   \* what the gateway counts the prompt at, as the upstream does
  PromptLength    \* bytes of the prompt

ASSUME AnswersAssumption == MaxLines \in Nat /\ PromptTokens \in Nat /\ PromptLength \in Nat

VARIABLES
  api,       \* the adaptor, and the mode of the call
  told,      \* what the upstream did: texts sent, final report, damage, end
  handler,   \* locals of the stream handler
  rendered,  \* what the client was sent
  outcome    \* the result of DoResponse and the charge

answersVars == <<api, told, handler, rendered, outcome>>

NoUsage == [known |-> FALSE, prompt |-> 0, completion |-> 0, total |-> 0]
UsageOf(p, c) == [known |-> TRUE, prompt |-> p, completion |-> c, total |-> p + c]
TotalOnly(t) == [known |-> TRUE, prompt |-> 0, completion |-> 0, total |-> t]
ZeroUsage == UsageOf(0, 0)
ResponseText2Usage(text) == UsageOf(PromptTokens, text)

-----------------------------------------------------------------------------
(* Deliberately wrong variants of definitions below, used only to check     *)
(* that each property is able to fail.                                      *)

TotalAsCompletion(h, l) ==
  IF l.usage.total = 0 THEN h.usage ELSE [l.usage EXCEPT !.completion = l.usage.total]
ArgumentsDropped(h, l) == IF l.kind = "stop" /\ h.call = "open" THEN "stop" ELSE l.kind
RefusesCutStreams(h, cut) == [err |-> cut, sent |-> IF cut THEN <<>> ELSE <<"DONE">>,
                              usage |-> ResponseText2Usage(h.text)]

-----------------------------------------------------------------------------
(* Bodies: a whole answer.  readable and parsed say whether it could be     *)
(* read and decoded, error whether it says so itself, texts its choices.    *)

Served(u) == [err |-> FALSE, sent |-> <<"body">>, usage |-> u]
Failed == [err |-> TRUE, sent |-> <<>>, usage |-> NoUsage]
Decoded(b, refused, u) == IF ~b.readable \/ ~b.parsed \/ refused THEN Failed ELSE Served(u)
Tokens(b) == Cardinality({i \in DOMAIN b.texts : b.texts[i] = 1})
FirstText(b) == IF b.texts # <<>> /\ b.texts[1] = 1 THEN 1 ELSE 0

OpenaiHandler(b) ==
  Decoded(b, b.error, IF b.usage.total = 0 \/ (b.usage.prompt = 0 /\ b.usage.completion = 0)
                      THEN ResponseText2Usage(Tokens(b)) ELSE b.usage)
GeminiText(b) == FirstText(b)
GeminiHandler(b) == Decoded(b, b.texts = <<>>, ResponseText2Usage(GeminiText(b)))
AnthropicHandler(b) == Decoded(b, b.error, b.usage)
AwsClaudeHandler(b) == Decoded(b, FALSE, b.usage)
AwsLlamaHandler(b) == Decoded(b, FALSE, b.usage)
responseBaidu2OpenAI(b) == b.usage
BaiduHandler(b) == Decoded(b, b.error, responseBaidu2OpenAI(b))
responseTencent2OpenAI(b) == b.usage
TencentHandler(b) == Decoded(b, b.error, responseTencent2OpenAI(b))
responseZhipu2OpenAI(b) == b.usage
ZhipuHandler(b) == Decoded(b, b.error, responseZhipu2OpenAI(b))
responseOllama2OpenAI(b) == UsageOf(b.usage.prompt, b.usage.completion)
OllamaHandler(b) == Decoded(b, b.error, responseOllama2OpenAI(b))
responseAli2OpenAI(b) == UsageOf(b.usage.prompt, b.usage.completion)
AliHandler(b) == Decoded(b, b.error, responseAli2OpenAI(b))
CohereHandler(b) == Decoded(b, b.error, UsageOf(b.usage.prompt, b.usage.completion))
responseAIProxyLibrary2OpenAI(b) == ZeroUsage
AIProxyHandler(b) == Decoded(b, b.error, responseAIProxyLibrary2OpenAI(b))
ResponseCoze2OpenAI(b) == FirstText(b)
CozeHandler(b) == Decoded(b, b.error, ResponseText2Usage(ResponseCoze2OpenAI(b)))
PalmHandler(b) == Decoded(b, b.error \/ b.texts = <<>>, ResponseText2Usage(FirstText(b)))
DeepLHandler(b) == Decoded(b, b.error, UsageOf(PromptLength, 0))
CloudflareHandler(b) == Decoded(b, FALSE, ResponseText2Usage(Tokens(b)))
ProxyResponse(b) == IF b.readable THEN Served(NoUsage) ELSE Failed

\* Embeddings: some adaptors keep only the total, or nothing.
embeddingResponseAli2OpenAI(b) == TotalOnly(b.usage.total)
embeddingResponseTencent2OpenAI(b) == TotalOnly(b.usage.total)
embeddingResponseGemini2OpenAI(b) == ZeroUsage
embeddingResponseOllama2OpenAI(b) == ZeroUsage
embeddingResponseBaidu2OpenAI(b) == b.usage
embeddingResponseZhipu2OpenAI(b) == b.usage
AliEmbedding(b) == Decoded(b, b.error, embeddingResponseAli2OpenAI(b))
TencentEmbedding(b) == Decoded(b, b.error, embeddingResponseTencent2OpenAI(b))
GeminiEmbedding(b) == Decoded(b, b.error, embeddingResponseGemini2OpenAI(b))
OllamaEmbedding(b) == Decoded(b, b.error, embeddingResponseOllama2OpenAI(b))
BaiduEmbedding(b) == Decoded(b, b.error, embeddingResponseBaidu2OpenAI(b))
ZhipuEmbedding(b) == Decoded(b, FALSE, embeddingResponseZhipu2OpenAI(b))

\* Two adaptors read the whole body to answer a stream; neither looks at the
\* error the body may carry.
PalmStream(b) ==
  IF ~b.readable \/ ~b.parsed THEN Failed
  ELSE [err |-> FALSE, usage |-> ResponseText2Usage(FirstText(b)),
        sent |-> <<IF FirstText(b) = 1 THEN "text" ELSE "empty", "DONE">>]
DeepLStream(b) ==
  IF ~b.readable \/ ~b.parsed THEN Failed
  ELSE [err |-> FALSE, usage |-> UsageOf(PromptLength, 0),
        sent |-> <<IF FirstText(b) = 1 THEN "text" ELSE "empty", "DONE">>]

-----------------------------------------------------------------------------
(* Lines: what a handler makes of one line of a stream.  The chunk "none"    *)
(* is not rendered.                                                          *)

Kept(l, kinds) == IF l.kind \in kinds THEN l.kind ELSE "empty"
streamResponseGeminiChat2OpenAI(l) == Kept(l, {"text"})     \* tool calls are lost
StreamResponseClaude2OpenAI(l) == IF l.kind = "start" THEN "none" ELSE Kept(l, {"text", "tool", "args", "stop"})
streamResponseBaidu2OpenAI(l) == Kept(l, {"text", "stop"})
streamResponseTencent2OpenAI(l) == Kept(l, {"text", "stop"})
streamResponseZhipu2OpenAI(l) == "text"
streamMetaResponseZhipu2OpenAI(l) == "stop"
streamResponseXunfei2OpenAI(l) == Kept(l, {"text", "tool", "stop"})
streamResponseOllama2OpenAI(l) == Kept(l, {"text", "stop"})
streamResponseAli2OpenAI(l) == IF l.kind = "empty" THEN "none" ELSE l.kind
StreamResponseCohere2OpenAI(l) == IF l.kind \in {"text", "stop"} THEN l.kind ELSE "none"
StreamResponseCoze2OpenAI(l) == IF l.kind = "skip" THEN "none" ELSE Kept(l, {"text"})
streamResponseAIProxyLibrary2OpenAI(l) == Kept(l, {"text"})
documentsAIProxyLibrary == "stop"
StreamResponseLlama2OpenAI(l) == Kept(l, {"text", "stop"})

Replace(h, l) == IF l.usage.known THEN l.usage ELSE h.usage
Plus(h, l) == UsageOf(h.usage.prompt + l.usage.prompt, h.usage.completion + l.usage.completion)
BaiduUsage(h, l) ==
  IF l.usage.total = 0 THEN h.usage ELSE [l.usage EXCEPT !.completion = l.usage.total - l.usage.prompt]

\* The handler renders chunk, counts its text, and knows usage u from now on.
Say(h, chunk, u) ==
  [h EXCEPT !.sent = IF chunk = "none" THEN @ ELSE Append(@, chunk), !.usage = u,
            !.text = IF chunk = "text" THEN @ + 1 ELSE @]
\* What a scanner loop does with a line it cannot decode.
Skipping(h, l, next) == IF l.kind = "junk" THEN h ELSE next

OpenaiStreamHandler(h, l) ==
  CASE l.kind = "done" -> [Say(h, "DONE", h.usage) EXCEPT !.done = TRUE]
    [] l.kind = "junk" -> Say(h, "raw", h.usage)
    [] l.kind = "empty" /\ ~l.usage.known -> h
    [] OTHER -> Say(h, l.kind, Replace(h, l))
OpenaiCompletions(h, l) ==
  IF l.kind = "done" THEN [Say(h, "DONE", h.usage) EXCEPT !.done = TRUE]
  ELSE Say(h, IF l.kind = "junk" THEN "raw" ELSE l.kind, h.usage)
GeminiStreamHandler(h, l) == Skipping(h, l, Say(h, streamResponseGeminiChat2OpenAI(l), h.usage))

\* A tool call that ended without arguments is sent again with an empty object.
ClosingChunk(h, l) == IF l.kind = "stop" /\ l.usage.known /\ h.call = "open" THEN "args" ELSE StreamResponseClaude2OpenAI(l)
AnthropicStreamHandler(h, l) ==
  Skipping(h, l, [Say(h, ClosingChunk(h, l), Plus(h, l)) EXCEPT
    !.call = CASE l.kind = "tool" -> "open" [] ClosingChunk(h, l) = "args" -> "whole" [] OTHER -> @])
AwsClaudeStreamHandler(h, l) ==
  IF l.kind = "junk" THEN [h EXCEPT !.closed = TRUE, !.done = TRUE] ELSE AnthropicStreamHandler(h, l)
AwsLlamaStreamHandler(h, l) ==
  IF l.kind = "junk" THEN [h EXCEPT !.closed = TRUE, !.done = TRUE]
  ELSE Say(h, StreamResponseLlama2OpenAI(l),
           UsageOf(IF l.usage.prompt > 0 THEN l.usage.prompt ELSE h.usage.prompt,
                   IF l.kind = "stop" THEN l.usage.completion ELSE h.usage.completion))
BaiduStreamHandler(h, l) == Skipping(h, l, Say(h, streamResponseBaidu2OpenAI(l), BaiduUsage(h, l)))
TencentStreamHandler(h, l) == Skipping(h, l, Say(h, streamResponseTencent2OpenAI(l), h.usage))
ZhipuStreamHandler(h, l) ==
  IF l.kind = "stop" THEN Say(h, streamMetaResponseZhipu2OpenAI(l), l.usage)
  ELSE Say(h, streamResponseZhipu2OpenAI(l), h.usage)
OllamaStreamHandler(h, l) ==
  Skipping(h, l, Say(h, streamResponseOllama2OpenAI(l), IF l.usage.completion = 0 THEN h.usage ELSE l.usage))
AliStreamHandler(h, l) ==
  Skipping(h, l, Say(h, streamResponseAli2OpenAI(l), IF l.usage.completion = 0 THEN h.usage ELSE l.usage))
\* The chunk with the finish reason is dropped with the usage it came with.
CohereStreamHandler(h, l) ==
  Skipping(h, l, IF l.kind = "stop" THEN Say(h, "none", Plus(h, l))
                 ELSE Say(h, StreamResponseCohere2OpenAI(l), h.usage))
CozeStreamHandler(h, l) == Skipping(h, l, Say(h, StreamResponseCoze2OpenAI(l), h.usage))
AIProxyStreamHandler(h, l) == Skipping(h, l, Say(h, streamResponseAIProxyLibrary2OpenAI(l), h.usage))
CloudflareStreamHandler(h, l) ==
  IF l.kind = "done" THEN [h EXCEPT !.closed = TRUE] ELSE Skipping(h, l, Say(h, l.kind, h.usage))
chatStreamHandler(h, l) ==
  CASE l.kind = "text" -> Say(h, "text", h.usage)
    [] l.kind = "done" -> [Say(h, "DONE", h.usage) EXCEPT !.done = TRUE, !.closed = TRUE]
    [] OTHER -> h
\* The reader of the socket hands each frame over and ends at the last one or
\* at one it cannot decode.
XunfeiStreamHandler(h, l) ==
  IF l.kind = "junk" THEN [h EXCEPT !.closed = TRUE]
  ELSE [Say(h, streamResponseXunfei2OpenAI(l), Plus(h, l)) EXCEPT !.closed = l.kind = "stop"]

-----------------------------------------------------------------------------
(* The end of a stream: the result of each handler and of DoResponse.        *)

\* [DONE], unless it was sent already or the loop was left for good.
Ended(h, u) == [err |-> FALSE, sent |-> IF h.done THEN <<>> ELSE <<"DONE">>, usage |-> u]
OpenaiDoResponse(h, cut) ==
  Ended(h, IF ~h.usage.known \/ h.usage.total = 0 THEN ResponseText2Usage(h.text)
           ELSE IF h.usage.prompt = 0 THEN UsageOf(PromptTokens, h.usage.total - PromptTokens)
           ELSE h.usage)
CountedDoResponse(h, cut) == Ended(h, ResponseText2Usage(h.text))
GeminiDoResponse(h, cut) == CountedDoResponse(h, cut)
TencentDoResponse(h, cut) == CountedDoResponse(h, cut)
CozeDoResponse(h, cut) == CountedDoResponse(h, cut)
DoResponseV4(h, cut) == Ended(h, h.usage)
ReportedDoResponse(h, cut) == Ended(h, h.usage)
AIProxyEnd(h, cut) == [err |-> FALSE, sent |-> <<documentsAIProxyLibrary, "DONE">>, usage |-> h.usage]
ReplicateChatHandler(h, cut) == IF cut THEN Failed ELSE CountedDoResponse(h, cut)

ReportsAtEnd == {"anthropic", "awsClaude", "awsLlama", "cohere", "xunfei", "zhipu"}
ReportsRunningTotal == {"openai", "baidu", "ollama", "ali", "zhipuV4"}
CountsText == {"completions", "gemini", "tencent", "coze", "cloudflare", "replicate"}
Streams == ReportsAtEnd \cup ReportsRunningTotal \cup CountsText \cup {"aiproxy"}
Bodies == {"openai", "gemini", "anthropic", "awsClaude", "awsLlama", "baidu", "tencent", "zhipu", "ollama",
           "ali", "cohere", "aiproxy", "coze", "palm", "deepl", "cloudflare", "proxy"}
Embeddings == {"ali", "tencent", "gemini", "ollama", "baidu", "zhipu"}
WholeStreams == {"palm", "deepl"}

StreamHandler(h, l) ==
  CASE api.name \in {"openai", "zhipuV4"} -> OpenaiStreamHandler(h, l)
    [] api.name = "completions" -> OpenaiCompletions(h, l)
    [] api.name = "gemini" -> GeminiStreamHandler(h, l)
    [] api.name = "anthropic" -> AnthropicStreamHandler(h, l)
    [] api.name = "awsClaude" -> AwsClaudeStreamHandler(h, l)
    [] api.name = "awsLlama" -> AwsLlamaStreamHandler(h, l)
    [] api.name = "baidu" -> BaiduStreamHandler(h, l)
    [] api.name = "tencent" -> TencentStreamHandler(h, l)
    [] api.name = "zhipu" -> ZhipuStreamHandler(h, l)
    [] api.name = "ollama" -> OllamaStreamHandler(h, l)
    [] api.name = "ali" -> AliStreamHandler(h, l)
    [] api.name = "cohere" -> CohereStreamHandler(h, l)
    [] api.name = "coze" -> CozeStreamHandler(h, l)
    [] api.name = "aiproxy" -> AIProxyStreamHandler(h, l)
    [] api.name = "cloudflare" -> CloudflareStreamHandler(h, l)
    [] api.name = "replicate" -> chatStreamHandler(h, l)
    [] api.name = "xunfei" -> XunfeiStreamHandler(h, l)

StreamResult(h, cut) ==
  CASE api.name = "openai" -> OpenaiDoResponse(h, cut)
    [] api.name \in {"completions", "cloudflare"} -> CountedDoResponse(h, cut)
    [] api.name = "gemini" -> GeminiDoResponse(h, cut)
    [] api.name = "tencent" -> TencentDoResponse(h, cut)
    [] api.name = "coze" -> CozeDoResponse(h, cut)
    [] api.name = "zhipuV4" -> DoResponseV4(h, cut)
    [] api.name = "aiproxy" -> AIProxyEnd(h, cut)
    [] api.name = "replicate" -> ReplicateChatHandler(h, cut)
    [] OTHER -> ReportedDoResponse(h, cut)

BodyResult(b) ==
  CASE api.name = "openai" -> OpenaiHandler(b)          [] api.name = "gemini" -> GeminiHandler(b)
    [] api.name = "anthropic" -> AnthropicHandler(b)    [] api.name = "awsClaude" -> AwsClaudeHandler(b)
    [] api.name = "awsLlama" -> AwsLlamaHandler(b)     [] api.name = "baidu" -> BaiduHandler(b)
    [] api.name = "tencent" -> TencentHandler(b)        [] api.name = "zhipu" -> ZhipuHandler(b)
    [] api.name = "ollama" -> OllamaHandler(b)          [] api.name = "ali" -> AliHandler(b)
    [] api.name = "cohere" -> CohereHandler(b)          [] api.name = "aiproxy" -> AIProxyHandler(b)
    [] api.name = "coze" -> CozeHandler(b)              [] api.name = "palm" -> PalmHandler(b)
    [] api.name = "deepl" -> DeepLHandler(b)            [] api.name = "cloudflare" -> CloudflareHandler(b)
    [] api.name = "proxy" -> ProxyResponse(b)

EmbeddingResult(b) ==
  CASE api.name = "ali" -> AliEmbedding(b)        [] api.name = "tencent" -> TencentEmbedding(b)
    [] api.name = "gemini" -> GeminiEmbedding(b)  [] api.name = "ollama" -> OllamaEmbedding(b)
    [] api.name = "baidu" -> BaiduEmbedding(b)    [] api.name = "zhipu" -> ZhipuEmbedding(b)

-----------------------------------------------------------------------------
\* The kinds of line an upstream sends; a report comes with some of them.
Kinds ==
  CASE api.name \in {"openai", "zhipuV4"} -> {"text", "tool", "stop", "empty", "done", "junk"}
    [] api.name = "completions" -> {"text", "stop", "done", "junk"}
    [] api.name = "gemini" -> {"text", "tool", "stop", "junk"}
    [] api.name \in {"anthropic", "awsClaude"} -> {"start", "text", "tool", "args", "stop", "empty", "junk"}
    [] api.name \in {"baidu", "tencent", "ollama", "awsLlama"} -> {"text", "stop", "empty", "junk"}
    [] api.name = "ali" -> {"text", "tool", "stop", "empty", "junk"}
    [] api.name = "zhipu" -> {"text", "stop"}
    [] api.name = "cohere" -> {"start", "text", "stop", "skip", "junk"}
    [] api.name = "coze" -> {"text", "skip", "empty", "junk"}
    [] api.name = "aiproxy" -> {"text", "empty", "junk"}
    [] api.name = "cloudflare" -> {"text", "done", "junk"}
    [] api.name = "replicate" -> {"text", "done", "skip"}
    [] api.name = "xunfei" -> {"text", "tool", "stop", "junk"}

\* The reports an honest upstream can put on a line of kind k.
Reports(k) ==
  LET texts == told.texts + (IF k = "text" THEN 1 ELSE 0) IN
  CASE api.name = "openai" -> IF k = "empty" /\ told.final THEN {NoUsage, UsageOf(PromptTokens, texts), TotalOnly(PromptTokens + texts)} ELSE {NoUsage}
    [] api.name = "zhipuV4" -> IF k = "stop" THEN {NoUsage, UsageOf(PromptTokens, texts)} ELSE {NoUsage}
    [] api.name \in {"anthropic", "awsClaude"} ->
         CASE k = "start" -> {UsageOf(PromptTokens, 0)} [] k = "stop" -> {UsageOf(0, texts)} [] OTHER -> {NoUsage}
    [] api.name = "awsLlama" ->
         IF k = "stop" THEN {UsageOf(0, texts)} ELSE {NoUsage, UsageOf(PromptTokens, 0)}
    [] api.name \in {"cohere", "xunfei", "zhipu"} -> IF k = "stop" THEN {UsageOf(PromptTokens, texts)} ELSE {NoUsage}
    [] api.name = "baidu" ->
         IF k = "empty" THEN {NoUsage} ELSE {TotalOnly(PromptTokens + texts), UsageOf(PromptTokens, texts)}
    [] api.name = "ali" -> {UsageOf(PromptTokens, texts)}
    [] api.name = "ollama" -> IF k = "stop" THEN {UsageOf(PromptTokens, texts)} ELSE {NoUsage}
    [] OTHER -> {NoUsage}

AnswersInit ==
  /\ api \in [name : Streams, mode : {"stream"}] \cup [name : Bodies, mode : {"body"}]
           \cup [name : Embeddings, mode : {"embedding"}] \cup [name : WholeStreams, mode : {"whole"}]
  /\ told = [lines |-> 0, texts |-> 0, started |-> FALSE, final |-> FALSE, damaged |-> FALSE, cut |-> FALSE, dones |-> 0]
  /\ handler = [text |-> 0, sent |-> <<>>, done |-> FALSE, closed |-> FALSE, call |-> "none",
                usage |-> IF api.name \in {"openai", "completions", "zhipu", "zhipuV4"} THEN NoUsage ELSE ZeroUsage]
  /\ rendered = <<>>
  /\ outcome = [open |-> TRUE, err |-> FALSE, usage |-> NoUsage, charge |-> 0]

\* postConsumeQuota and ReturnPreConsumedQuota: the reservation stays when the
\* usage is missing, and goes back when the call failed.
Charge(r, reserved) ==
  CASE r.err -> 0 [] ~r.err /\ ~r.usage.known -> reserved [] OTHER -> r.usage.prompt + r.usage.completion
Finish(r) ==
  \E reserved \in {0, PromptTokens} :
    outcome' = [open |-> FALSE, err |-> r.err, usage |-> r.usage, charge |-> Charge(r, reserved)]

\* The next line of the stream.  A tool's arguments follow its call, and a
\* stream says nothing after its last line.
Line(k) ==
  /\ api.mode = "stream" /\ outcome.open /\ ~handler.closed /\ told.lines < MaxLines
  /\ k \in Kinds /\ (k = "start" <=> ~told.started /\ "start" \in Kinds)
  /\ k = "args" => handler.call = "open"
  /\ told.final => k \in {"done", "empty"}
  /\ \E u \in Reports(k) :
       LET h == StreamHandler(handler, [kind |-> k, usage |-> u]) IN
       /\ handler' = [h EXCEPT !.sent = <<>>] /\ rendered' = rendered \o h.sent
       /\ told' = [told EXCEPT !.lines = @ + 1, !.started = TRUE, !.texts = IF k = "text" THEN @ + 1 ELSE @,
                               !.final = @ \/ k = "stop", !.damaged = @ \/ k = "junk",
                               !.dones = IF k = "done" THEN @ + 1 ELSE @]
  /\ UNCHANGED <<api, outcome>>

\* The stream is over or breaks off.
StreamEnds(cut) ==
  /\ api.mode = "stream" /\ outcome.open /\ (handler.closed => ~cut)
  /\ LET r == StreamResult(handler, cut) IN rendered' = rendered \o r.sent /\ Finish(r)
  /\ told' = [told EXCEPT !.cut = cut]
  /\ UNCHANGED <<api, handler>>

\* Closing the body failed after everything was rendered: the error of the
\* handler makes the relay return the reservation.
CloseFails ==
  /\ api.mode = "stream" /\ outcome.open /\ api.name \notin {"awsClaude", "awsLlama", "xunfei", "replicate"}
  /\ rendered' = rendered \o StreamResult(handler, FALSE).sent /\ Finish(Failed)
  /\ UNCHANGED <<api, told, handler>>

BodiesSent ==
  {b \in [readable : BOOLEAN, parsed : BOOLEAN, error : BOOLEAN, texts : {<<>>, <<1>>, <<1, 1>>},
          usage : {NoUsage} \cup {UsageOf(PromptTokens, n) : n \in 0 .. 2}] :
     /\ b.usage.known => b.usage.completion = Len(b.texts)
     /\ b.error => b.texts = <<>>}

Answer(b) ==
  /\ api.mode # "stream" /\ outcome.open
  /\ LET r == CASE api.mode = "body" -> BodyResult(b) [] api.mode = "embedding" -> EmbeddingResult(b)
                [] api.mode = "whole" /\ api.name = "palm" -> PalmStream(b) [] OTHER -> DeepLStream(b)
     IN rendered' = r.sent /\ Finish(r)
  /\ told' = [told EXCEPT !.texts = Len(b.texts)]
  /\ UNCHANGED <<api, handler>>

AnswersNext ==
  \/ api.mode = "stream" /\ \E k \in Kinds : Line(k)
  \/ \E cut \in BOOLEAN : StreamEnds(cut)
  \/ CloseFails
  \/ \E b \in BodiesSent : Answer(b)

AnswersSpec == AnswersInit /\ [][AnswersNext]_answersVars

-----------------------------------------------------------------------------
(* Properties. *)

Chunks(kind) == Cardinality({i \in DOMAIN rendered : rendered[i] = kind})
Closed == ~outcome.open

\* Every variable has its type.
AnswersTypeOK ==
  /\ told.lines \in 0 .. MaxLines /\ told.texts \in Nat /\ handler.text \in Nat
  /\ handler.call \in {"none", "open", "whole"} /\ handler.sent = <<>>
  /\ outcome.charge \in Nat

\* An undamaged stream that ran to its last line is charged for the prompt and
\* for exactly the text it held (Ollama and Ali charge nothing when it held
\* none); where the gateway counts the text itself, a
\* stream that broke off is charged for what the client was sent.
StreamsAreMetered ==
  Closed /\ api.mode = "stream" /\ ~outcome.err /\ ~told.damaged =>
    /\ told.final /\ ~told.cut /\ api.name \notin {"aiproxy"}
         /\ (api.name \in {"zhipuV4"} => outcome.usage.known)
         /\ (api.name = "awsLlama" => outcome.usage.prompt > 0)
         /\ (api.name \in {"ollama", "ali"} => told.texts > 0)
       => outcome.charge = PromptTokens + told.texts
    /\ api.name \in CountsText => outcome.charge = PromptTokens + Chunks("text")

\* An answered stream ends with one [DONE], unless the upstream sent more of
\* them or an AWS event could not be decoded; a tool call of Claude that was
\* stopped has arguments.
StreamsAreWellFormed ==
  Closed /\ ~outcome.err /\ api.mode \in {"stream", "whole"} =>
    /\ ~(told.damaged /\ api.name \in {"awsClaude", "awsLlama"}) =>
         /\ Chunks("DONE") = IF told.dones > 1 /\ api.name \in {"openai", "completions", "zhipuV4"}
                             THEN told.dones ELSE 1
         /\ told.dones = 0 => rendered[Len(rendered)] = "DONE"
    /\ api.name \in {"anthropic", "awsClaude"} /\ told.final /\ Chunks("tool") > 0 => Chunks("args") > 0

\* A call that fails, and so costs nothing, has sent the client no text,
\* unless closing the upstream body is what failed or a stream of Replicate
\* broke off.
FailedCallsDeliverNothing ==
  Closed /\ outcome.err /\ rendered # <<>> =>
    api.mode = "stream" /\ (api.name = "replicate" => told.cut)
      /\ (api.name # "replicate" => rendered[Len(rendered)] = "DONE" \/ handler.done)

\* A stream is charged for what it held, reaches the client well formed, and
\* one that costs nothing delivered nothing.
AnswersAreCharged == StreamsAreMetered /\ StreamsAreWellFormed /\ FailedCallsDeliverNothing
===============================================================================
