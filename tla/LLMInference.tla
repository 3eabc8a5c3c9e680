---------------------------- MODULE LLMInference ----------------------------
(***************************************************************************)
(* One native LLMInference object, as SmolLM.kt drives it through JNI:     *)
(* loadModel, addChatMessage, a completion (startCompletion, a loop of     *)
(* completionLoop calls, stopCompletion), benchModel and the destructor.   *)
(* Its users take turns: AgentLLMFacade holds a lock around a completion,  *)
(* SmolLMManager runs it on one thread (module ChatManager asks whether    *)
(* that is so).                                                            *)
(*                                                                         *)
(* A text is a sequence of tokens; a token of a reply is known by its      *)
(* bytes, and a byte by its class in UTF-8.  Of the KV cache only the      *)
(* number of tokens it holds is kept: one sequence, positions assigned     *)
(* from the end of what is there.                                          *)
(***************************************************************************)
EXTENDS Integers, Sequences, SequencesExt

CONSTANTS
  ContextSizes,  \* values of the contextSize parameter
  Pad,           \* llama.cpp rounds n_ctx up to a multiple of this, n_batch not
  StoreModes,    \* the values of storeChats the users pass
  Queries,       \* texts of user messages
  Given,         \* the text of messages the user of the object adds itself
  Pieces,        \* the tokens of replies, end of generation apart
  Bytes,         \* the bytes of each
  BenchTokens,   \* the prompt length of the benchmark
  Faults,        \* "template": applying the chat template may throw;
                 \* "decode": llama_decode may fail with a negative result;
                 \* "slot": it may return 1 or 2, no place in the KV cache or
                 \* broken off, which nobody looks at;
                 \* "cancel": the collector of the flow may be cancelled
  MaxMessages,   \* messages the user of the object adds (bound)
  MaxTurns,      \* completions (bound)
  MaxSlips       \* results 1 and 2 of llama_decode (bound)

ByteClasses == {"ascii", "lead2", "lead3", "lead4", "cont", "bad"}

ASSUME InferenceAssumption ==
  /\ ContextSizes \subseteq Nat \ {0} /\ Pad \in Nat \ {0}
  /\ StoreModes \subseteq BOOLEAN
  /\ Bytes \in [Pieces -> Seq(ByteClasses) \ {<<>>}]
  /\ Pieces \cap (Queries \cup {Given}) = {}
  /\ BenchTokens \in Nat
  /\ Faults \subseteq {"template", "decode", "slot", "cancel"}
  /\ MaxMessages \in Nat /\ MaxTurns \in Nat /\ MaxSlips \in Nat

VARIABLES
  handle,      \* the object: not loaded yet, ready, deleted, or lost with the
               \* process, which llama.cpp ended
  contextSize, \* n_ctx and n_batch as asked for
  storeChats,  \* _storeChats
  messages,    \* _messages
  kv,          \* tokens in the KV cache
  batch,       \* tokens in *_batch
  response,    \* _response
  cache,       \* _cacheResponseTokens
  pc,          \* where the completion is
  turns,       \* completions started
  slips,       \* history: how often llama_decode returned 1 or 2
  generated,   \* history: the tokens sampled
  delivered    \* history: the tokens whose text was returned to the caller

vars == <<handle, contextSize, storeChats, messages, kv, batch, response,
          cache, pc, turns, slips, generated, delivered>>

\* llama_context rounds n_ctx up after it set n_batch from what was asked for.
NCtx   == ((contextSize + Pad - 1) \div Pad) * Pad
NBatch == contextSize

Roles == {"system", "user", "assistant"}
Texts == Seq(Queries \cup {Given} \cup Pieces)

TypeOK ==
  /\ handle \in {"new", "ready", "gone", "aborted"}
  /\ contextSize \in ContextSizes /\ storeChats \in BOOLEAN
  /\ messages \in Seq([role : Roles, text : Texts])
  /\ kv \in 0..NCtx
  /\ batch \in Nat
  /\ response \in Seq(Pieces) /\ cache \in Seq(Pieces)
  /\ pc \in {"idle", "prompt", "more", "stop"}
  /\ turns \in 0..MaxTurns /\ slips \in 0..MaxSlips
  /\ generated \in Seq(Pieces) /\ delivered \in Seq(Pieces)

Init ==
  /\ handle = "new" /\ contextSize \in ContextSizes /\ storeChats \in StoreModes
  /\ messages = <<>> /\ kv = 0 /\ batch = 0
  /\ response = <<>> /\ cache = <<>>
  /\ pc = "idle" /\ turns = 0 /\ slips = 0
  /\ generated = <<>> /\ delivered = <<>>

-----------------------------------------------------------------------------
(* _isValidUtf8 *)

Width(b) ==
  CASE b = "ascii" -> 1 [] b = "lead2" -> 2 [] b = "lead3" -> 3
    [] b = "lead4" -> 4 [] OTHER -> 0

\* Mutant: a character that the text ends in is taken to be complete.
IsValidUtf8Lenient(s) ==
  LET from[i \in 1..(Len(s) + 4)] ==
        IF i > Len(s) THEN TRUE
        ELSE /\ Width(s[i]) > 0
             /\ \A j \in (i + 1)..(i + Width(s[i]) - 1) : j <= Len(s) => s[j] = "cont"
             /\ from[i + Width(s[i])]
  IN from[1]

\* The cursor is at byte i: a lead byte, its continuation bytes, and on.
IsValidUtf8(s) ==
  LET from[i \in 1..(Len(s) + 1)] ==
        IF i > Len(s) THEN TRUE
        ELSE /\ Width(s[i]) > 0
             /\ i + Width(s[i]) - 1 <= Len(s)
             /\ \A j \in (i + 1)..(i + Width(s[i]) - 1) : s[j] = "cont"
             /\ from[i + Width(s[i])]
  IN from[1]

\* The bytes of a sequence of tokens.
BytesOf(tokens) == FlattenSeq([i \in DOMAIN tokens |-> Bytes[tokens[i]]])

-----------------------------------------------------------------------------
(* loadModel and the destructor, addChatMessage *)

\* loadModel throws when the file or the context cannot be made; JNI then
\* deletes the object.
LoadModel ==
  /\ handle = "new"
  /\ handle' \in {"ready", "gone"}
  /\ UNCHANGED <<contextSize, storeChats, messages, kv, batch, response, cache,
                 pc, turns, slips, generated, delivered>>

Close ==
  /\ handle = "ready" /\ pc = "idle"
  /\ handle' = "gone"
  /\ UNCHANGED <<contextSize, storeChats, messages, kv, batch, response, cache,
                 pc, turns, slips, generated, delivered>>

Said(role, text) == Append(messages, [role |-> role, text |-> text])

\* addSystemPrompt, addUserMessage and addAssistantMessage of the object's user.
AddChatMessage(role) ==
  /\ handle = "ready" /\ pc = "idle"
  /\ Len(SelectSeq(messages, LAMBDA m : m.text = <<Given>>)) < MaxMessages
  /\ messages' = Said(role, <<Given>>)
  /\ UNCHANGED <<handle, contextSize, storeChats, kv, batch, response, cache,
                 pc, turns, slips, generated, delivered>>

-----------------------------------------------------------------------------
(* startCompletion *)

\* The prompt is the chat template over all of _messages: for every message its
\* text and the template's own tokens.
PromptTokens(ms) ==
  Len(FlattenSeq([i \in DOMAIN ms |-> Append(ms[i].text, "template")]))

\* _formattedMessages, which a storeChats of false clears, is not used.
StartCompletion(q) ==
  /\ handle = "ready" /\ pc = "idle" /\ turns < MaxTurns
  /\ turns' = turns + 1
  /\ messages' = Said("user", <<q>>)
  /\ \/ /\ batch' = PromptTokens(messages')
        /\ pc' = "prompt"
     \/ /\ "template" \in Faults
        /\ UNCHANGED <<batch, pc>>
  /\ UNCHANGED <<handle, contextSize, storeChats, kv, response, cache, slips,
                 generated, delivered>>

-----------------------------------------------------------------------------
(* completionLoop *)

Looping == handle = "ready" /\ pc \in {"prompt", "more"}

\* The check against the context size.
Fits == kv + batch <= NCtx

\* Mutant: an empty piece is returned instead.
ContextReachedReturnsEmpty ==
  /\ Looping /\ ~Fits
  /\ UNCHANGED vars

\* "context size reached": the exception leaves getResponse at once.
ContextReached ==
  /\ Looping /\ ~Fits
  /\ pc' = "idle"
  /\ UNCHANGED <<handle, contextSize, storeChats, messages, kv, batch,
                 response, cache, turns, slips, generated, delivered>>

\* llama_decode returns 1 or 2.
Slip == "slot" \in Faults /\ slips < MaxSlips /\ slips' = slips + 1

\* The process ends: GGML_ASSERT(n_tokens_all <= cparams.n_batch) of llama_decode,
\* or it computed nothing and there are no logits to sample from.
Abort ==
  /\ Looping /\ Fits
  /\ \/ batch > NBatch /\ UNCHANGED slips
     \/ Slip
  /\ handle' = "aborted"
  /\ UNCHANGED <<contextSize, storeChats, messages, kv, batch, response, cache,
                 pc, turns, generated, delivered>>

\* llama_decode fails with a negative result, and drops the part of the batch it
\* failed in.
DecodeFails ==
  /\ "decode" \in Faults
  /\ Looping /\ Fits /\ batch <= NBatch
  /\ kv' \in kv..(kv + batch - 1)
  /\ pc' = "idle"
  /\ UNCHANGED <<handle, contextSize, storeChats, messages, batch, response,
                 cache, turns, slips, generated, delivered>>

\* llama_decode returns 0, or 1 or 2 with a part of the batch at most: all that
\* is not negative goes on to sample, from older logits if need be.
Decode ==
  /\ Looping /\ Fits /\ batch <= NBatch
  /\ \/ kv' = kv + batch /\ UNCHANGED slips
     \/ Slip /\ kv' \in kv..(kv + batch - 1)

\* Mutant: _response is not cleared once it is a message.
EndOfGenerationKeeps ==
  /\ Decode
  /\ messages' = Said("assistant", response)
  /\ pc' = "stop"
  /\ UNCHANGED <<handle, contextSize, storeChats, batch, response, cache,
                 turns, generated, delivered>>

\* The sampled token ends the generation: the reply becomes a message.  Bytes
\* still in _cacheResponseTokens stay there.
EndOfGeneration ==
  /\ Decode
  /\ messages' = Said("assistant", response)
  /\ response' = <<>>
  /\ pc' = "stop"
  /\ UNCHANGED <<handle, contextSize, storeChats, batch, cache, turns,
                 generated, delivered>>

\* Mutant: the cached bytes are returned and kept.
NextPieceKeepsCache(t) ==
  LET text == Append(cache, t) IN
  /\ Decode
  /\ generated' = Append(generated, t)
  /\ cache' = text
  /\ IF IsValidUtf8(BytesOf(text))
     THEN response' = response \o text /\ delivered' = delivered \o text
     ELSE UNCHANGED <<response, delivered>>
  /\ batch' = 1 /\ pc' = "more"
  /\ UNCHANGED <<handle, contextSize, storeChats, messages, turns>>

\* Any other token: its bytes are returned once they, with what was kept of the
\* tokens before, are whole characters.  It is the next batch.
NextPiece(t) ==
  LET text == Append(cache, t) IN
  /\ Decode
  /\ generated' = Append(generated, t)
  /\ IF IsValidUtf8(BytesOf(text))
     THEN /\ response' = response \o text
          /\ delivered' = delivered \o text
          /\ cache' = <<>>
     ELSE /\ cache' = text
          /\ UNCHANGED <<response, delivered>>
  /\ batch' = 1 /\ pc' = "more"
  /\ UNCHANGED <<handle, contextSize, storeChats, messages, turns>>

\* getResponseAsFlow emits every piece; a cancelled collector ends it there,
\* before stopCompletion.
Cancel ==
  /\ "cancel" \in Faults
  /\ handle = "ready" /\ pc = "more"
  /\ pc' = "idle"
  /\ UNCHANGED <<handle, contextSize, storeChats, messages, kv, batch,
                 response, cache, turns, slips, generated, delivered>>

\* stopCompletion
StopCompletion ==
  /\ handle = "ready" /\ pc = "stop"
  /\ messages' = IF storeChats THEN Said("assistant", response) ELSE messages
  /\ response' = <<>>
  /\ pc' = "idle"
  /\ UNCHANGED <<handle, contextSize, storeChats, kv, batch, cache, turns,
                 slips, generated, delivered>>

-----------------------------------------------------------------------------
\* benchModel uses the same context: it leaves the KV cache empty, and decodes a
\* batch of its own size.
BenchModel ==
  /\ handle = "ready" /\ pc = "idle"
  /\ handle' = IF BenchTokens > NBatch THEN "aborted" ELSE handle
  /\ kv' = 0
  /\ UNCHANGED <<contextSize, storeChats, messages, batch, response, cache, pc,
                 turns, slips, generated, delivered>>

CompletionStep ==
  \/ ContextReached \/ Abort \/ DecodeFails \/ EndOfGeneration
  \/ (\E t \in Pieces : NextPiece(t))
  \/ Cancel \/ StopCompletion

Next ==
  \/ LoadModel \/ Close \/ BenchModel
  \/ \E role \in Roles : AddChatMessage(role)
  \/ \E q \in Queries : StartCompletion(q)
  \/ CompletionStep

Spec == Init /\ [][Next]_vars

\* getResponse calls completionLoop until it returns "[EOG]" or throws.
FairSpec == Spec /\ WF_vars(CompletionStep)

-----------------------------------------------------------------------------
(* Properties *)

\* A token's text reaches the caller once, in order, or is still waiting in
\* _cacheResponseTokens: over any number of completions, cancelled and failed
\* ones among them, nothing generated is lost or repeated.
DeliveredInOrder == delivered \o cache = generated

\* A reply becomes history: what callers were given, failed and cancelled
\* completions included, is in the assistant messages or still in _response,
\* once and in order.
HistoryHoldsDelivered ==
  LET Replied(m) == IF m.role = "assistant" /\ m.text # <<Given>> THEN m.text ELSE <<>>
  IN FlattenSeq([i \in DOMAIN messages |-> Replied(messages[i])]) \o response = delivered

\* UTF-8 without a cursor: no character starts with a continuation byte, and
\* each other byte is followed by as many as its class asks for, and no more.
WellFormed(s) ==
  /\ s # <<>> => s[1] # "cont"
  /\ \A i \in DOMAIN s : s[i] # "cont" =>
       /\ Width(s[i]) > 0
       /\ LET next == {j \in (i + 1)..Len(s) : s[j] # "cont"}
              end  == IF next = {} THEN Len(s) + 1
                      ELSE CHOOSE j \in next : \A k \in next : j <= k
          IN end - i = Width(s[i])

\* What a caller has been given so far is whole characters, wherever the model
\* or a cancellation cut the reply off.
DeliveredIsText == WellFormed(BytesOf(delivered))

\* A completion comes to its end even if the model never stops by itself: the
\* context fills up, once llama_decode no longer returns 1 or 2.  (While it does,
\* the context may not, and completionLoop is called on.)
CompletionEnds == pc # "idle" ~> (pc = "idle" \/ handle = "aborted")
=============================================================================
