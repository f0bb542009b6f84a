------------------------------- MODULE PlanReply -------------------------------
(***************************************************************************)
(* From a goal to a decision of the model (planner/__init__.py and         *)
(* planner/providers): the client is configured, the request is sent, one  *)
(* of three protocols decodes the reply, and ModelPlanner takes the text   *)
(* for a decision. The service may reply anything. A reply is a sequence   *)
(* of items and the reason it ended for.                                   *)
(***************************************************************************)
EXTENDS Naturals, Sequences, SequencesExt

CONSTANT MaxItems  \* bound: items of a reply

VARIABLES
  config,    \* LLMConfig: protocol, output_mode, and what extra_body does
  client,    \* unconfigured, refused, idle or asked
  reply,     \* what the service has sent, or <<>>
  decision   \* of ModelPlanner: none yet, failed, or the kind of the decision

vars == <<config, client, reply, decision>>

Protocols == {"openai_chat", "openai_responses", "anthropic_messages"}
Configs == [protocol : Protocols, mode : {"tools", "json"}, extra : {"adds", "replaces"}]

\* What a text or the arguments of a call say: a decision to execute a plan, one
\* to answer, nothing that decodes to a decision, or more than a decision may hold.
Sayings == {"plan", "answer", "nonsense", "too_long"}
Items == [type : {"text", "call"}, says : Sayings]
         \cup [type : {"other_call", "refusal", "thought", "odd"}, says : {"nonsense"}]
Replies == [ended : {"stop", "call", "cut"}, items : BoundedSeq(Items, MaxItems)]

TypeOK ==
  /\ config \in Configs
  /\ client \in {"unconfigured", "refused", "idle", "asked"}
  /\ reply = <<>> \/ reply \in Replies
  /\ decision \in {"none", "failed", "answer", "execute"}

Init ==
  /\ config = [protocol |-> "openai_chat", mode |-> "tools", extra |-> "adds"]
  /\ client = "unconfigured" /\ reply = <<>> /\ decision = "none"

\* LLMConfig and LLMClient: JSON mode is there for chat only, and what the
\* adapter decides in a request is not replaced by extra_body.
Configure(c) ==
  /\ client = "unconfigured" /\ config' = c
  /\ client' = IF (c.mode = "json" => c.protocol = "openai_chat") /\ c.extra # "replaces"
               THEN "idle" ELSE "refused"
  /\ UNCHANGED <<reply, decision>>

Ask ==
  /\ client = "idle" /\ client' = "asked" /\ reply' = <<>> /\ decision' = "none"
  /\ UNCHANGED config

\* No connection, another status than 200, a body that is too large, a timeout.
Fails ==
  /\ client = "asked" /\ client' = "idle" /\ decision' = "failed"
  /\ UNCHANGED <<config, reply>>

-------------------------------------------------------------------------------
(* parse_reply of the three protocols: the text of the reply, which is an  *)
(* answer when it is prose; or "error", or "incomplete".                   *)

Of(r, types) == {i \in DOMAIN r.items : r.items[i].type \in types}
Has(r, types) == Of(r, types) # {}
One(some) == \A i, j \in some : i = j
Says(r, some) == LET i == CHOOSE i \in some : TRUE IN r.items[i].says

\* answer_text: fault: prose that reads like a decision is taken for one.
Answer_read(r, texts) == Says(r, texts)
Answer(r, texts) == IF \E i \in texts : r.items[i].says = "too_long" THEN "too_long" ELSE "answer"

\* One call at most, and that of propose_plan; else there must be a text.
Proposal(r) ==
  LET calls == Of(r, {"call", "other_call"}) texts == Of(r, {"text"}) IN
  IF calls # {} THEN IF One(calls) /\ ~Has(r, {"other_call"}) THEN Says(r, calls) ELSE "error"
  ELSE IF r.ended # "stop" \/ texts = {} THEN "error"
  ELSE Answer(r, texts)

\* JSON mode: the whole content, and nothing else.
Content(r) ==
  IF Has(r, {"call", "other_call"}) \/ r.ended # "stop" \/ ~Has(r, {"text"}) THEN "error"
  ELSE Says(r, Of(r, {"text"}))

ParseChat(r) ==
  IF Has(r, {"odd"}) THEN "error"
  ELSE IF Has(r, {"refusal"}) \/ r.ended = "cut" THEN "incomplete"
  ELSE IF config.mode = "json" THEN Content(r)
  ELSE Proposal(r)

ParseResponses(r) ==
  IF Has(r, {"odd"}) THEN "error"
  ELSE IF Has(r, {"refusal"}) \/ r.ended = "cut" THEN "incomplete"
  ELSE Proposal(r)

ParseMessages(r) ==
  IF Has(r, {"odd", "refusal"}) THEN "error"
  ELSE IF r.ended = "cut" THEN "incomplete"
  ELSE Proposal(r)

Parse(r) ==
  CASE config.protocol = "openai_chat" -> ParseChat(r)
    [] config.protocol = "openai_responses" -> ParseResponses(r)
    [] OTHER -> ParseMessages(r)

\* Chat has one content; a completed response does not say why it ended.
Possible(r) ==
  /\ config.protocol = "openai_chat" => One(Of(r, {"text"})) /\ One(Of(r, {"refusal"}))
  /\ config.protocol = "openai_responses" => r.ended # "call"

\* complete, and ModelPlanner.plan: only a complete reply is looked at.
Decide(text) ==
  CASE text = "plan" -> "execute" [] text = "answer" -> "answer" [] OTHER -> "failed"
Reply(r) ==
  /\ client = "asked" /\ Possible(r)
  /\ client' = "idle" /\ reply' = r /\ decision' = Decide(Parse(r))
  /\ UNCHANGED config

Next ==
  \/ \E c \in Configs : Configure(c)
  \/ \E r \in Replies : Reply(r)
  \/ Ask \/ Fails

Spec == Init /\ [][Next]_vars

-------------------------------------------------------------------------------
\* In every protocol a plan is executed only when the model proposed it in the
\* channel that the client asked for, the one call of propose_plan or the whole
\* content of a JSON reply, in a reply that was not cut off or refused; "text
\* that resembles a plan never becomes executable" (wire.py:213).
OnlyProposalsExecute ==
  decision = "execute" =>
    /\ reply.ended # "cut"
    /\ \A i \in DOMAIN reply.items : reply.items[i].type \notin {"other_call", "refusal", "odd"}
    /\ LET channel == IF config.mode = "json" THEN "text" ELSE "call"
       IN \E i \in DOMAIN reply.items :
            Of(reply, {channel}) = {i} /\ reply.items[i].says = "plan"
    /\ config.mode = "json" => \A i \in DOMAIN reply.items : reply.items[i].type # "call"
===============================================================================
