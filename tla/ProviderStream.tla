---------------------------- MODULE ProviderStream ----------------------------
(***************************************************************************)
(* How the providers of packages/ai turn what a model's API sends into an  *)
(* answer and its AssistantMessageEvents, and how the client of a proxy    *)
(* (packages/agent/src/proxy.ts) rebuilds the answer from these events     *)
(* alone.  An API sends blocks of text, of thinking and tool calls, piece  *)
(* by piece: with the index of the block (anthropic, bedrock), as items    *)
(* that are added and done (openai-responses), as deltas that name no      *)
(* block (openai-completions, mistral), or as parts with whole tool calls  *)
(* (google, gemini-cli).  Each action handles one chunk.                   *)
(***************************************************************************)
EXTENDS Naturals, Sequences, SequencesExt

CONSTANTS Providers,     \* the providers to check
          Interleaving,  \* those whose API may go back to an earlier block
          MaxBlocks, MaxPieces,
          MaxWire,       \* bound on the events on their way when a chunk arrives
          MaxEmptyStreamRetries,
          Happens        \* may the API hit the token limit inside a block ("limit"),
                         \* may the proxy's connection close early ("cut"), may
                         \* arguments of a call come otherwise than piece by piece
                         \* ("apart")

\* What is assumed of the constants.
ProviderAssumption ==
  /\ Providers \cup Interleaving \subseteq
       {"anthropic", "bedrock", "openai-completions", "openai-responses",
        "mistral", "google", "gemini-cli"}
  /\ MaxBlocks \in Nat /\ MaxPieces \in Nat /\ MaxWire \in Nat /\ MaxEmptyStreamRetries \in Nat
  /\ Happens \subseteq {"limit", "cut", "apart"}

VARIABLES
  provider,
  said,          \* what the API sent: blocks of pieces, as it means them
  limited,       \* the API was cut off inside its last block
  phase,         \* of the request: "request", "streaming" or "settled"
  content,       \* output.content
  currentBlock,  \* the index of the block deltas go to, 0 for null
  started,       \* has the start event been pushed
  emptyAttempt,
  wire,          \* the events on their way to the client of the proxy
  client         \* what the client has: its partial answer and its stream
vars == <<provider, said, limited, phase, content, currentBlock, started,
          emptyAttempt, wire, client>>

Kinds == {"text", "thinking", "toolCall"}
\* A separator between the parts of a reasoning summary; other pieces are numbered.
Separator == 0
\* What stands in the answer for thinking that the API does not show.
Redacted == MaxPieces + 1
Explicit == {"anthropic", "bedrock", "openai-responses"}

\* A block as the API sends it, whole when all of a call's arguments were given, and
\* one of the answer: of is the index, id or key by which the provider finds it, 0
\* when that is deleted.
Said(kind, pieces) == [kind |-> kind, text |-> pieces, open |-> TRUE, whole |-> FALSE]
Block(kind, of, text) == [kind |-> kind, of |-> of, text |-> text]

Event(type, kind, index, piece) ==
  [type |-> type, kind |-> kind, index |-> index, piece |-> piece]
Started == <<Event("start", "", 0, 0)>>
BlockStart(kind, index) == <<Event("block_start", kind, index, 0)>>
BlockDelta(kind, index, piece) == <<Event("block_delta", kind, index, piece)>>
BlockEnd(kind, index) == <<Event("block_end", kind, index, 0)>>
Done == <<Event("done", "", 0, 0)>>
Error == <<Event("error", "", 0, 0)>>

Listens == client.status = "live"
Push(events) == wire' = IF Listens THEN wire \o events ELSE wire

Init ==
  /\ provider \in Providers
  /\ said = <<>> /\ limited = FALSE /\ phase = "request"
  /\ content = <<>> /\ currentBlock = 0 /\ started = FALSE /\ emptyAttempt = 0
  /\ wire = <<>>
  /\ client = [content |-> <<>>, starts |-> 0, status |-> "live"]

-----------------------------------------------------------------------------
(* The API *)

NextPiece ==
  1 + FoldLeft(LAMBDA n, b : n + Len(SelectSeq(b.text, LAMBDA p : p \in 1..MaxPieces)), 0, said)
Newest == Len(said)
Streams == phase = "streaming" /\ Len(wire) <= MaxWire

\* A new block may begin. Deltas that name no block begin one only by their kind.
Opens(kind) ==
  /\ Streams /\ ~limited /\ Newest < MaxBlocks /\ NextPiece <= MaxPieces
  /\ provider \in Explicit \ Interleaving => \A b \in DOMAIN said : ~said[b].open
  /\ (provider \notin Explicit /\ kind # "toolCall" /\ said # <<>>) => Last(said).kind # kind

\* An earlier block may go on.
GoesOn(b) ==
  /\ Streams /\ ~limited /\ NextPiece <= MaxPieces
  /\ said[b].open /\ ~said[b].whole /\ said[b].text # <<Redacted>>
  /\ \/ b = Newest
     \/ provider \in Explicit \cap Interleaving
     \/ /\ provider \in Interleaving
        /\ \A c \in b..Newest : said[c].kind = "toolCall"

SaysMore(b, piece) == said' = [said EXCEPT ![b].text = Append(@, piece)]
Rest == UNCHANGED <<provider, limited, phase, emptyAttempt, client>>

-----------------------------------------------------------------------------
(* Blocks found by their index *)

\* Defect: deltas go to the newest block.
FindIndex_Newest(b) == Len(content)

FindIndex(b) == SelectInSeq(content, LAMBDA block : block.of = b)

\* content_block_start, with the text of the block in the answer. Bedrock sends it
\* for tool calls only. Of the text of redacted thinking no event tells.
ContentBlockStart(kind, text) ==
  /\ provider = "anthropic" \/ (provider = "bedrock" /\ kind = "toolCall")
  /\ text = <<>> \/ (provider = "anthropic" /\ kind = "thinking" /\ text = <<Redacted>>)
  /\ Opens(kind)
  /\ said' = Append(said, Said(kind, text))
  /\ content' = Append(content, Block(kind, Newest + 1, text))
  /\ Push(BlockStart(kind, Len(content) + 1))
  /\ UNCHANGED <<currentBlock, started>> /\ Rest

\* content_block_delta
ContentBlockDelta(b) ==
  /\ provider = "anthropic" /\ GoesOn(b) /\ SaysMore(b, NextPiece)
  /\ \E i \in {FindIndex(b)} :
       IF i # 0 /\ content[i].kind = said[b].kind
         THEN /\ content' = [content EXCEPT ![i].text = Append(@, NextPiece)]
              /\ Push(BlockDelta(said[b].kind, i, NextPiece))
         ELSE UNCHANGED <<content, wire>>
  /\ UNCHANGED <<currentBlock, started>> /\ Rest

\* Bedrock's handleContentBlockDelta makes the block of text or thinking that
\* nothing announced.
BedrockDelta(kind, b) ==
  /\ provider = "bedrock"
  /\ IF b > Newest
       THEN /\ b = Newest + 1 /\ kind # "toolCall" /\ Opens(kind)
            /\ said' = Append(said, Said(kind, <<NextPiece>>))
       ELSE kind = said[b].kind /\ GoesOn(b) /\ SaysMore(b, NextPiece)
  /\ \E found \in {FindIndex(b)} :
     LET blocks == IF found = 0 THEN Append(content, Block(kind, b, <<>>)) ELSE content
         i == IF found = 0 THEN Len(blocks) ELSE found
     IN  /\ content' = [blocks EXCEPT ![i].text = Append(@, NextPiece)]
         /\ Push((IF found = 0 THEN BlockStart(kind, i) ELSE <<>>) \o BlockDelta(kind, i, NextPiece))
  /\ UNCHANGED <<currentBlock, started>> /\ Rest

\* content_block_stop: the block loses its index.
ContentBlockStop(b) ==
  /\ provider \in {"anthropic", "bedrock"} /\ Streams /\ said[b].open
  /\ said' = [said EXCEPT ![b].open = FALSE]
  /\ \E i \in {FindIndex(b)} :
       IF i # 0
         THEN /\ content' = [content EXCEPT ![i].of = 0]
              /\ Push(BlockEnd(content[i].kind, i))
         ELSE UNCHANGED <<content, wire>>
  /\ UNCHANGED <<currentBlock, started>> /\ Rest

-----------------------------------------------------------------------------
(* Items: the current block is that of the item added last. *)

CurrentIs(kind) == currentBlock # 0 /\ content[currentBlock].kind = kind

\* The next piece, when the arguments of a call may come with another event than
\* a delta.
Apart(kind) ==
  IF "apart" \in Happens /\ kind = "toolCall" /\ ~limited /\ NextPiece <= MaxPieces
  THEN {<<NextPiece>>} ELSE {}

\* response.output_item.added. Of arguments that the item has no delta tells.
ItemAdded(kind, text) ==
  /\ provider = "openai-responses" /\ Opens(kind) /\ text \in {<<>>} \cup Apart(kind)
  /\ said' = Append(said, Said(kind, text))
  /\ content' = Append(content, Block(kind, Newest + 1, text))
  /\ currentBlock' = Len(content) + 1
  /\ Push(BlockStart(kind, Len(content) + 1))
  /\ UNCHANGED started /\ Rest

\* A delta of an item; the end of a part of a summary adds a separator.
ItemDelta(b, piece) ==
  /\ provider = "openai-responses" /\ GoesOn(b) /\ SaysMore(b, piece)
  /\ piece = Separator => /\ said[b].kind = "thinking" /\ said[b].text # <<>>
                          /\ Last(said[b].text) # Separator
  /\ IF CurrentIs(said[b].kind)
       THEN /\ content' = [content EXCEPT ![currentBlock].text = Append(@, piece)]
            /\ Push(BlockDelta(said[b].kind, Len(content), piece))
       ELSE UNCHANGED <<content, wire>>
  /\ UNCHANGED <<currentBlock, started>> /\ Rest

\* response.function_call_arguments.done: its arguments take the place of what the
\* deltas gave. A delta tells what they have besides, if they begin with that.
ArgumentsDone(b, text) ==
  /\ provider = "openai-responses" /\ Streams
  /\ said[b].kind = "toolCall" /\ said[b].open /\ ~said[b].whole
  /\ \/ text = said[b].text
     \/ text = Append(said[b].text, NextPiece) /\ GoesOn(b)
     \/ text \in Apart("toolCall")
  /\ said' = [said EXCEPT ![b].text = text, ![b].whole = TRUE]
  /\ IF CurrentIs("toolCall")
       THEN /\ content' = [content EXCEPT ![currentBlock].text = text]
            /\ Push(IF text = Append(content[currentBlock].text, NextPiece)
                    THEN BlockDelta("toolCall", Len(content), NextPiece) ELSE <<>>)
       ELSE UNCHANGED <<content, wire>>
  /\ UNCHANGED <<currentBlock, started>> /\ Rest

Joined(text) == IF text # <<>> /\ Last(text) = Separator THEN Front(text) ELSE text

\* response.output_item.done: text and thinking are replaced by what the item
\* holds, its parts joined. Of a call that was given no arguments those of the item
\* are in the event only, not in the answer.
ItemDone(b, text) ==
  /\ provider = "openai-responses" /\ Streams /\ said[b].open
  /\ text = said[b].text \/ (said[b].text = <<>> /\ text \in Apart(said[b].kind))
  /\ said' = [said EXCEPT ![b].open = FALSE, ![b].text = text]
  /\ \/ /\ said[b].kind = "toolCall"
        /\ currentBlock' = 0 /\ Push(BlockEnd("toolCall", Len(content)))
        /\ UNCHANGED content
     \/ /\ CurrentIs(said[b].kind) /\ said[b].kind # "toolCall"
        /\ content' = [content EXCEPT ![currentBlock].text = Joined(said[b].text)]
        /\ currentBlock' = 0 /\ Push(BlockEnd(said[b].kind, Len(content)))
     \/ /\ ~CurrentIs(said[b].kind) /\ said[b].kind # "toolCall"
        /\ UNCHANGED <<content, currentBlock, wire>>
  /\ UNCHANGED started /\ Rest

-----------------------------------------------------------------------------
(* Deltas that name no block.  Handled says what a delta of a block, or the *)
(* first of a new one, does to the answer.                                  *)

FinishCurrentBlock ==
  IF currentBlock = 0 THEN <<>> ELSE BlockEnd(content[currentBlock].kind, Len(content))

Handling(blocks, current, events) ==
  [content |-> blocks, currentBlock |-> current, events |-> events]

\* Defect: a new kind of delta does not end the block before it.
FreshBlock_Unended(kind, b) == BlockStart(kind, Len(content) + 1)

\* What is pushed when a delta begins a block.
FreshBlock(kind, b) == FinishCurrentBlock \o BlockStart(kind, Len(content) + 1)

\* Defect: the id of a tool call is not looked at.
NeedsBlock_Kind(kind, b) == currentBlock = 0 \/ content[currentBlock].kind # kind

NeedsBlock(kind, b) ==
  \/ currentBlock = 0 \/ content[currentBlock].kind # kind
  \/ kind = "toolCall" /\ content[currentBlock].of # b

ByKind(kind, b) ==
  LET fresh == NeedsBlock(kind, b)
      blocks == IF fresh THEN Append(content, Block(kind, b, <<>>)) ELSE content
      last == Len(blocks)
  IN  Handling([blocks EXCEPT ![last].text = Append(@, NextPiece)], last,
               (IF fresh THEN FreshBlock(kind, b) ELSE <<>>)
               \o BlockDelta(kind, last, NextPiece))

\* Mistral's tool calls are found by their key, and end with the stream.
ByKey(b) ==
  LET found == FindIndex(b)
      blocks == IF found = 0 THEN Append(content, Block("toolCall", b, <<>>)) ELSE content
      i == IF found = 0 THEN Len(blocks) ELSE found
  IN  Handling([blocks EXCEPT ![i].text = Append(@, NextPiece)], 0,
               FinishCurrentBlock
               \o (IF found = 0 THEN BlockStart("toolCall", i) ELSE <<>>)
               \o BlockDelta("toolCall", i, NextPiece))

\* A part with a function call holds all of it.
WholeCall(b) ==
  LET i == Len(content) + 1
  IN  Handling(Append(content, Block("toolCall", b, <<NextPiece>>)), 0,
               FinishCurrentBlock \o BlockStart("toolCall", i)
               \o BlockDelta("toolCall", i, NextPiece) \o BlockEnd("toolCall", i))

Handled(kind, b) ==
  IF kind # "toolCall" \/ provider = "openai-completions" THEN ByKind(kind, b)
  ELSE IF provider = "mistral" THEN ByKey(b) ELSE WholeCall(b)

\* Defect: an attempt that pushed nothing counts as started.
EnsureStarted_Empty == IF started \/ emptyAttempt > 0 THEN <<>> ELSE Started

\* gemini-cli pushes start with the first block.
EnsureStarted == IF started THEN <<>> ELSE Started

\* A chunk of openai-completions, mistral, google or gemini-cli.
Delta(kind, b) ==
  /\ provider \notin Explicit
  /\ IF b > Newest
       THEN /\ b = Newest + 1 /\ Opens(kind)
            /\ said' = Append(said, Said(kind, <<NextPiece>>))
       ELSE /\ kind = said[b].kind /\ GoesOn(b) /\ SaysMore(b, NextPiece)
            /\ kind = "toolCall" => provider \in {"openai-completions", "mistral"}
  /\ \E next \in {Handled(kind, b)} :
       /\ content' = next.content /\ currentBlock' = next.currentBlock
       /\ Push(EnsureStarted \o next.events)
  /\ started' = TRUE
  /\ Rest

-----------------------------------------------------------------------------
(* The request *)

\* The API answers: the start event, except of gemini-cli.
Begin ==
  /\ phase = "request" /\ phase' = "streaming"
  /\ started' = (provider # "gemini-cli")
  /\ Push(IF provider = "gemini-cli" THEN <<>> ELSE Started)
  /\ UNCHANGED <<provider, said, limited, content, currentBlock, emptyAttempt, client>>

\* The API stops at the limit of tokens, with more of its block to say.
Limit ==
  /\ "limit" \in Happens /\ Streams /\ ~limited
  /\ said # <<>> /\ Last(said).open /\ Last(said).text # <<>>
  /\ provider \in {"google", "gemini-cli"} => Last(said).kind # "toolCall"
  /\ limited' = TRUE
  /\ UNCHANGED <<provider, said, phase, content, currentBlock, started, emptyAttempt, wire, client>>

\* Defect: tool calls are left open.
Closing_Text == FinishCurrentBlock

\* What ends with the stream.
Closing ==
  FinishCurrentBlock \o
  IF provider # "mistral" THEN <<>>
  ELSE FoldLeft(LAMBDA events, i : IF content[i].kind = "toolCall"
                                     THEN events \o BlockEnd("toolCall", i) ELSE events,
                <<>>, [i \in DOMAIN content |-> i])

\* The API's stream ends, for a reason that is an answer or is not.  gemini-cli
\* asks again after an empty stream.
Finish(answered) ==
  /\ phase = "streaming"
  /\ provider \in Explicit => \A b \in DOMAIN said : ~said[b].open
  /\ IF provider = "gemini-cli" /\ content = <<>> /\ emptyAttempt < MaxEmptyStreamRetries
       THEN /\ emptyAttempt' = emptyAttempt + 1
            /\ content' = <<>> /\ started' = FALSE /\ phase' = "request"
            /\ UNCHANGED wire
       ELSE /\ phase' = "settled"
            /\ Push(Closing \o IF answered /\ (provider = "gemini-cli" => content # <<>>)
                               THEN Done ELSE Error)
            /\ UNCHANGED <<emptyAttempt, content, started>>
  /\ UNCHANGED <<provider, said, limited, currentBlock, client>>

\* Defect: the catch block ends the stream and says nothing.
Caught_Silently == <<>>

Caught == Error

\* The request or the stream throws, or it is aborted.
Throw ==
  /\ phase # "settled" /\ phase' = "settled"
  /\ Push(Caught)
  /\ UNCHANGED <<provider, said, limited, content, currentBlock, started, emptyAttempt, client>>

-----------------------------------------------------------------------------
(* The client of the proxy *)

ClientBlock(kind) == [kind |-> kind, text |-> <<>>, ends |-> 0]

\* Defect: a block goes to the end, wherever it belongs.
AtIndex_Last(e) == Len(client.content)

AtIndex(e) == e.index

\* processProxyEvent: an event for a block of another kind throws, except the
\* end of a tool call.
ProcessProxyEvent(e) ==
  LET i == AtIndex(e)
      fits == i \in DOMAIN client.content /\ client.content[i].kind = e.kind
  IN  CASE e.type = "start" -> [client EXCEPT !.starts = @ + 1]
        [] e.type = "block_start" /\ e.index = Len(client.content) + 1 ->
             [client EXCEPT !.content = Append(@, ClientBlock(e.kind))]
        [] e.type = "block_start" /\ e.index \in DOMAIN client.content ->
             [client EXCEPT !.content[e.index] = ClientBlock(e.kind)]
        [] e.type = "block_delta" /\ fits ->
             [client EXCEPT !.content[i].text = Append(@, e.piece)]
        [] e.type = "block_end" /\ fits -> [client EXCEPT !.content[i].ends = @ + 1]
        [] e.type \in {"done", "error"} -> [client EXCEPT !.status = e.type]
        [] OTHER -> IF e.type = "block_end" /\ e.kind = "toolCall" THEN client
                    ELSE [client EXCEPT !.status = "failed"]

Server == <<provider, said, limited, phase, content, currentBlock, started, emptyAttempt>>

Deliver ==
  /\ Listens /\ wire # <<>>
  /\ wire' = Tail(wire) /\ client' = ProcessProxyEvent(Head(wire))
  /\ UNCHANGED Server

\* The user of the client aborts: the reader is cancelled.
Abort ==
  /\ Listens /\ wire' = <<>> /\ client' = [client EXCEPT !.status = "aborted"]
  /\ UNCHANGED Server

\* The connection closes before done or error: the stream ends without a result.
Cut ==
  /\ "cut" \in Happens /\ Listens
  /\ wire' = <<>> /\ client' = [client EXCEPT !.status = "ended"]
  /\ UNCHANGED Server

-----------------------------------------------------------------------------
Chunk ==
  \/ \E kind \in Kinds :
       \/ \E text \in {<<>>, <<Redacted>>} : ContentBlockStart(kind, text)
       \/ \E text \in {<<>>, <<NextPiece>>} : ItemAdded(kind, text)
       \/ \E b \in 1..MaxBlocks : BedrockDelta(kind, b) \/ Delta(kind, b)
  \/ \E b \in DOMAIN said :
       \/ ContentBlockDelta(b) \/ ContentBlockStop(b)
       \/ \E piece \in {Separator, NextPiece} : ItemDelta(b, piece)
       \/ \E text \in {said[b].text, Append(said[b].text, NextPiece), <<NextPiece>>} :
            ArgumentsDone(b, text) \/ ItemDone(b, text)
Ends == Throw \/ \E answered \in BOOLEAN : Finish(answered)
Next == Begin \/ Chunk \/ Limit \/ Ends \/ Deliver \/ Abort \/ Cut

Spec == Init /\ [][Next]_vars

\* A request does not last for ever (the APIs' clients time out), and what is sent
\* is read.
Progress == Begin \/ Ends \/ Deliver

-----------------------------------------------------------------------------
\* The same blocks with the same text. A client has the separator that follows the
\* last part of a reasoning summary, which the answer itself has not, and has nothing
\* where the answer says that thinking is redacted.
Shown(text) == SelectSeq(Joined(text), LAMBDA p : p # Redacted)
Same(blocks, others) ==
  /\ Len(blocks) = Len(others)
  /\ \A i \in DOMAIN blocks : /\ blocks[i].kind = others[i].kind
                             /\ Shown(blocks[i].text) = Shown(others[i].text)

\* A client that sees the events only has the provider's answer as soon as it has
\* read them, block by block, but for the text that stands for redacted thinking; a
\* finished answer is what the API said, each block ended once, and it started once
\* (the providers, processProxyEvent).
AnswersArriveWhole ==
  /\ client.status # "failed"
  /\ client.starts <= 1 /\ (client.content # <<>> => client.starts = 1)
  /\ wire = <<>> /\ client.status \in {"live", "error"} => Same(client.content, content)
  /\ client.status = "done" =>
       /\ Same(client.content, said)
       /\ \A i \in DOMAIN client.content : client.content[i].ends = 1

\* A tool call the client is told has ended has all its arguments ("Here
\* toolCall.arguments is complete (but not yet validated)", ai/README.md:306).
EndedCallsAreComplete ==
  limited /\ Last(said).kind = "toolCall" /\ Len(client.content) = Len(said)
    => Last(client.content).ends = 0

\* The client's stream has ended with a result ("terminate with either" done or
\* error, ai/src/types.ts:232).
Settled == client.status \in {"done", "error", "failed", "aborted"}
===============================================================================
