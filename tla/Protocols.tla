----------------------------- MODULE Protocols ------------------------------
(***************************************************************************)
(* One turn through a protocol converter: /v1/responses                    *)
(* (formats/responses_proto.py) or /v1/messages (formats/                  *)
(* anthropic_proto.py).  First the items of the request are converted into *)
(* chat messages one by one; then the chat deltas of the answer are        *)
(* converted into the events of the protocol, and `shown` is what a client *)
(* that follows the events has put together.  Texts, names and arguments   *)
(* are counted in fragments.                                               *)
(***************************************************************************)
EXTENDS Naturals, Sequences, FiniteSets

CONSTANTS
    Tools,       \* indices of the tool calls of an answer
    MaxItems,    \* bound on the items of a request
    MaxDeltas,   \* bound on the deltas of an answer
    Nameless     \* a tool call may begin without its id and name

ASSUME ProtocolAssumption ==
    /\ IsFiniteSet(Tools)
    /\ MaxItems \in Nat
    /\ MaxDeltas \in Nat
    /\ Nameless \in BOOLEAN

VARIABLES
    proto,     \* which converter
    phase,     \* converting the request, streaming the answer, or done
    count,     \* items or deltas so far
    messages,  \* the chat messages of the request
    slots,     \* tool -> what the converter knows of the call
    order,     \* the tools in the order of their first delta
    open,      \* the kind of the open block; for responses, of the message
    shown,     \* the blocks or output items the client has put together
    sent,      \* what the upstream sent: fragments of texts and arguments
    finish,    \* the last finish_reason
    verdict    \* stop_reason or status at the end

protoVars == <<proto, phase, count, messages, slots, order, open, shown, sent,
               finish, verdict>>
answer == <<slots, order, open, shown, sent, finish, verdict>>

-----------------------------------------------------------------------------

Frag == 0..MaxDeltas

(* pos is the place of the call in `shown`, 0 when it was not announced    *)
(* (and item_index is 0); known: its id or name arrived.                   *)
Slot == [known: BOOLEAN, name: Frag, args: Frag, pos: 0..MaxDeltas]
NewSlot == [known |-> FALSE, name |-> 0, args |-> 0, pos |-> 0]

Kinds == {"text", "thinking", "tool"}
Block(kind, tool, name, args) ==
    [kind |-> kind, tool |-> tool, name |-> name, args |-> args, closed |-> 0]

(* The roles of chat messages; a call is an assistant message with         *)
(* tool_calls, a nameless result a tool message without an id.  An         *)
(* assistant message with null content and no calls is "blank" when its    *)
(* turn had a text block, an empty one, and "silent" when it had none.     *)
Roles == {"user", "assistant", "call", "blank", "silent", "tool", "idless"}

ProtocolsTypeOK ==
    /\ proto \in {"responses", "anthropic"}
    /\ phase \in {"request", "stream", "done"}
    /\ count \in 0..(IF phase = "request" THEN MaxItems ELSE MaxDeltas)
    /\ messages \in Seq(Roles)
    /\ slots \in [Tools -> Slot]
    /\ order \in Seq(Tools)
    /\ open \in Kinds \cup {"none"}
    /\ \A i \in DOMAIN shown :
          /\ shown[i].kind \in Kinds
          /\ shown[i].tool \in Tools \cup {0}
          /\ shown[i].name \in Frag /\ shown[i].args \in Frag
          /\ shown[i].closed \in 0..1
    /\ sent \in [text: Frag, thinking: Frag]
    /\ finish \in {"none", "stop", "length", "tool_calls"}

ProtocolsInit ==
    /\ proto \in {"responses", "anthropic"}
    /\ phase = "request"
    /\ count = 0
    /\ messages = <<>>
    /\ slots = [t \in Tools |-> NewSlot]
    /\ order = <<>>
    /\ open = "none"
    /\ shown = <<>>
    /\ sent = [text |-> 0, thinking |-> 0]
    /\ finish = "none"
    /\ verdict = "none"

-----------------------------------------------------------------------------
(* The request.                                                            *)

(* What the text blocks of a message amount to.                            *)
Texts == {"absent", "blank", "some"}

(* An assistant message; without text or calls its content is null.        *)
Assistant(text, calls) ==
    IF calls THEN "call"
    ELSE CASE text = "some"   -> "assistant"
           [] text = "blank"  -> "blank"
           [] text = "absent" -> "silent"

(* Fault: an assistant turn of nothing but thinking is sent as it is.      *)
BlocksVerbatim(role, text, calls, results) ==
    LET own == IF role = "assistant" THEN <<Assistant(text, calls)>>
               ELSE IF text # "absent" THEN <<"user">> ELSE <<>>
    IN own \o [i \in 1..results |-> "tool"]

(* _blocks_to_messages: the text and the calls of a message go first, its  *)
(* tool results after them; an assistant turn of nothing but thinking is   *)
(* dropped, one with a blank text block is not.                            *)
BlocksToMessages(role, text, calls, results) ==
    LET own == IF role = "assistant"
               THEN IF text # "absent" \/ calls THEN <<Assistant(text, calls)>> ELSE <<>>
               ELSE IF text # "absent" THEN <<"user">> ELSE <<>>
    IN own \o [i \in 1..results |-> "tool"]

(* _input_items_to_messages, one item.                                     *)
ItemToMessages(item) ==
    CASE item = "user"          -> <<"user">>
      [] item = "assistant"     -> <<"assistant">>
      [] item = "mute"          -> <<>>        \* an assistant turn without text
      [] item = "tool"          -> <<"tool">>
      [] item = "stray"         -> <<"user">>  \* a tool turn without an id
      [] item = "call"          -> <<"call">>
      [] item = "output"        -> <<"tool">>
      [] item = "strayoutput"   -> <<"idless">>
      [] OTHER                  -> <<>>        \* reasoning and unknown items

Items == {"user", "assistant", "mute", "tool", "stray", "call", "output",
          "strayoutput", "reasoning"}

(* One more item of `input` or `messages`.                                 *)
ConvertItem ==
    /\ phase = "request" /\ count < MaxItems
    /\ count' = count + 1
    /\ \/ /\ proto = "responses"
          /\ \E item \in Items : messages' = messages \o ItemToMessages(item)
       \/ /\ proto = "anthropic"
          /\ \E role \in {"user", "assistant"}, text \in Texts, calls \in BOOLEAN,
                results \in 0..2 :
                messages' = messages \o BlocksToMessages(role, text, calls, results)
    /\ UNCHANGED <<proto, phase, answer>>

(* The payload goes upstream.  A responses request without a usable item   *)
(* gets a substitute; an anthropic one is refused.                         *)
SendRequest ==
    /\ phase = "request"
    /\ IF proto = "anthropic" /\ messages = <<>>
       THEN phase' = "done" /\ UNCHANGED messages
       ELSE /\ phase' = "stream"
            /\ messages' = IF messages = <<>> THEN <<"user">> ELSE messages
    /\ count' = 0
    /\ UNCHANGED <<proto, answer>>

-----------------------------------------------------------------------------
(* The answer of /v1/messages: one block is open at a time.                *)

Last == Len(shown)

(* content_block_stop for the block at block_index, if one is open.        *)
CloseOpen ==
    IF open = "none" THEN shown ELSE [shown EXCEPT ![Last].closed = @ + 1]

(* A fragment for the block at a place.                                    *)
Extended(blocks, i) == [blocks EXCEPT ![i].args = @ + 1]

(* Fault: a new kind of text does not close the block before it.           *)
BlockDeltaUnclosed(kind) ==
    /\ shown' = IF open = kind THEN Extended(shown, Last)
                ELSE Append(shown, Block(kind, 0, 0, 1))
    /\ open' = kind
    /\ UNCHANGED <<slots, order>>

(* Reasoning or content: a block of its kind, opened when needed.          *)
BlockDelta(kind) ==
    /\ shown' = IF open = kind THEN Extended(shown, Last)
                ELSE Append(CloseOpen, Block(kind, 0, 0, 1))
    /\ open' = kind
    /\ UNCHANGED <<slots, order>>

Seen(t) == order' = IF \E i \in DOMAIN order : order[i] = t THEN order ELSE Append(order, t)

(* Fault: arguments are passed on only while their block is the open one.  *)
ToolBlockDeltaOpenOnly(t, name, args) ==
    LET slot == [slots[t] EXCEPT !.known = @ \/ name,
                    !.name = IF name /\ slots[t].pos = 0 THEN @ + 1 ELSE @,
                    !.args = IF args THEN @ + 1 ELSE @]
    IN /\ Seen(t)
       /\ IF args /\ slot.pos = 0
          THEN /\ shown' = Append(CloseOpen, Block("tool", t, slot.name, 1))
               /\ slots' = [slots EXCEPT ![t] = [slot EXCEPT !.pos = Last + 1]]
               /\ open' = "tool"
          ELSE /\ shown' = IF args /\ slot.pos = Last THEN Extended(shown, Last) ELSE shown
               /\ slots' = [slots EXCEPT ![t] = slot]
               /\ UNCHANGED open

(* A tool call: its name is collected until its first argument opens its   *)
(* block; arguments go to the block they belong to, open or not.           *)
ToolBlockDelta(t, name, args) ==
    LET slot == [slots[t] EXCEPT !.known = @ \/ name,
                    !.name = IF name /\ slots[t].pos = 0 THEN @ + 1 ELSE @,
                    !.args = IF args THEN @ + 1 ELSE @]
    IN /\ Seen(t)
       /\ IF args /\ slot.pos = 0
          THEN /\ shown' = Append(CloseOpen, Block("tool", t, slot.name, 1))
               /\ slots' = [slots EXCEPT ![t] = [slot EXCEPT !.pos = Last + 1]]
               /\ open' = "tool"
          ELSE /\ shown' = IF args THEN Extended(shown, slot.pos) ELSE shown
               /\ slots' = [slots EXCEPT ![t] = slot]
               /\ UNCHANGED open

(* The calls without a block, in the order of their first delta.           *)
WithUnstarted(calls, t) == IF slots[t].pos = 0 THEN Append(calls, t) ELSE calls
Unstarted ==
    LET late[n \in 0..Len(order)] ==
           IF n = 0 THEN <<>> ELSE WithUnstarted(late[n - 1], order[n])
    IN late[Len(order)]

(* The end: the open block is closed, calls without arguments are shown as *)
(* empty blocks, and the stop reason is derived; a call outweighs a cut.   *)
BlocksEnd ==
    /\ shown' = CloseOpen \o [i \in DOMAIN Unstarted |->
                   [Block("tool", Unstarted[i], slots[Unstarted[i]].name, 0)
                      EXCEPT !.closed = 1]]
    /\ verdict' = IF order # <<>> THEN "tool_use"
                  ELSE IF finish = "length" THEN "max_tokens"
                  ELSE IF finish = "tool_calls" THEN "tool_use" ELSE "end_turn"

-----------------------------------------------------------------------------
(* The answer of /v1/responses: items stay open to the end.                *)

MessageAt == {i \in DOMAIN shown : shown[i].kind = "text"}

ItemText ==
    /\ shown' = IF open = "text"
                THEN Extended(shown, CHOOSE i \in MessageAt : TRUE)
                ELSE Append(shown, Block("text", 0, 0, 1))
    /\ open' = "text"
    /\ UNCHANGED <<slots, order>>

(* A call is announced as soon as its id or name is known; a fragment that *)
(* came before is not sent again.                                          *)
ItemTool(t, name, args) ==
    LET slot == [slots[t] EXCEPT !.known = @ \/ name, !.name = IF name THEN @ + 1 ELSE @,
                                 !.args = IF args THEN @ + 1 ELSE @]
        new == slot.known /\ slot.pos = 0
        item == Block("tool", t, slot.name, IF args THEN 1 ELSE 0)
    IN /\ Seen(t)
       /\ slots' = [slots EXCEPT ![t] =
                       IF new THEN [slot EXCEPT !.pos = Last + 1] ELSE slot]
       /\ shown' = IF new THEN Append(shown, item)
                   ELSE IF args /\ slot.pos > 0 THEN Extended(shown, slot.pos)
                   ELSE shown
       /\ UNCHANGED open

(* The index in the closing events of a call: item_index, 0 by default.    *)
DoneIndex(t) == IF slots[t].pos = 0 THEN 1 ELSE slots[t].pos

(* Every collected item is closed, announced or not.                       *)
ItemsEnd ==
    LET closings(i) == Cardinality({t \in {order[j] : j \in DOMAIN order} : DoneIndex(t) = i})
                       + (IF shown[i].kind = "text" THEN 1 ELSE 0)
    IN /\ shown' = [i \in DOMAIN shown |-> [shown[i] EXCEPT !.closed = closings(i)]]
       /\ verdict' = "completed"

-----------------------------------------------------------------------------

(* One delta of the chat stream.  The name fragment of a call comes with   *)
(* its id, and before anything else unless Nameless.                       *)
Delta ==
    /\ phase = "stream" /\ count < MaxDeltas
    /\ count' = count + 1
    /\ \/ /\ sent' = [sent EXCEPT !.text = @ + 1]
          /\ \/ proto = "anthropic" /\ BlockDelta("text")
             \/ proto = "responses" /\ ItemText
       \/ /\ sent' = [sent EXCEPT !.thinking = @ + 1]
          /\ \/ proto = "anthropic" /\ BlockDelta("thinking")
             \/ proto = "responses" /\ UNCHANGED <<shown, open, slots, order>>
       \/ /\ \E t \in Tools, name, args \in BOOLEAN :
                /\ Nameless \/ name = ~slots[t].known
                /\ \/ proto = "anthropic" /\ ToolBlockDelta(t, name, args)
                   \/ proto = "responses" /\ ItemTool(t, name, args)
          /\ UNCHANGED sent
    /\ UNCHANGED <<proto, phase, messages, finish, verdict>>

Finish ==
    /\ phase = "stream" /\ finish = "none"
    /\ finish' \in {"stop", "length", "tool_calls"}
    /\ UNCHANGED <<proto, phase, count, messages, slots, order, open, shown, sent, verdict>>

StreamEnd ==
    /\ phase = "stream"
    /\ phase' = "done"
    /\ IF proto = "anthropic" THEN BlocksEnd ELSE ItemsEnd
    /\ open' = "none"
    /\ UNCHANGED <<proto, count, messages, slots, order, sent, finish>>

ProtocolsNext == ConvertItem \/ SendRequest \/ Delta \/ Finish \/ StreamEnd

ProtocolsSpec == ProtocolsInit /\ [][ProtocolsNext]_protoVars

-----------------------------------------------------------------------------

(* No request reaches the upstream without a message, and none holds an    *)
(* assistant message that the converter made of a turn without text and    *)
(* calls, whatever the turns before and after it were (to_chat_payload,    *)
(* _blocks_to_messages, _input_items_to_messages).                         *)
RequestUsable ==
    phase = "stream" =>
       messages # <<>> /\ \A i \in DOMAIN messages : messages[i] # "silent"

(* A client of /v1/messages sees one open block at most, the last one, and *)
(* at the end of either protocol each block it was shown has been closed   *)
(* exactly once (close_open_block, the end of stream_responses_events).    *)
BlocksClosed ==
    /\ proto = "anthropic" =>
          \A i \in DOMAIN shown : shown[i].closed = 0 <=> i = Last /\ open # "none"
    /\ phase = "done" => \A i \in DOMAIN shown : shown[i].closed = 1

(* The state is well typed, and the client is shown a proper sequence of   *)
(* blocks (both stream converters).                                        *)
ProtocolsSound == ProtocolsTypeOK /\ BlocksClosed

(* The sum of the first k weights.                                         *)
Total(w, k) ==
    LET total[n \in 0..k] == IF n = 0 THEN 0 ELSE total[n - 1] + w[n]
    IN total[k]

(* The fragments in the blocks of a kind: of texts, or of one tool call.   *)
Weight(blocks, kind, tool) ==
    [i \in DOMAIN blocks |->
        IF blocks[i].kind = kind /\ blocks[i].tool = tool THEN blocks[i].args ELSE 0]
Fragments(blocks, kind, tool) == Total(Weight(blocks, kind, tool), Len(blocks))

(* What the client put together is what the upstream sent: the whole text, *)
(* and for each call one block with all its arguments, however the calls   *)
(* and the texts were interleaved (both stream converters).                *)
NothingLost ==
    phase = "done" =>
       /\ Fragments(shown, "text", 0) = sent.text
       /\ proto = "anthropic" => Fragments(shown, "thinking", 0) = sent.thinking
       /\ \A t \in Tools :
             /\ Fragments(shown, "tool", t) = slots[t].args
             /\ (\E i \in DOMAIN order : order[i] = t) =>
                   Cardinality({i \in DOMAIN shown : shown[i].tool = t /\ shown[i].kind = "tool"}) = 1

(* Documented: a silent cut "surfaces as a normal output-cap truncation    *)
(* that clients already know how to handle" (openai_http.py).              *)
CutIsShown == phase = "done" /\ finish = "length" => verdict = "max_tokens"

(* Documented: tool results keep their order ("order kept"), and the chat  *)
(* wire takes a tool message only after the calls it answers.              *)
ResultsFollowCalls ==
    \A i \in 2..Len(messages) :
       messages[i] = "tool" /\ proto = "anthropic" => messages[i - 1] # "user"

(* Documented: "degrade any tool item without a usable id into a user      *)
(* message instead" (_input_items_to_messages).                            *)
ResultsHaveIds == \A i \in DOMAIN messages : messages[i] # "idless"

(* Documented: an assistant turn that would become one with null content,  *)
(* "which the chat upstream rejects outright", is dropped                  *)
(* (_blocks_to_messages).                                                  *)
NullContentDropped == \A i \in DOMAIN messages : messages[i] \notin {"silent", "blank"}
=============================================================================
