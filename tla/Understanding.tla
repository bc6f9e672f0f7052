--------------------------- MODULE Understanding ---------------------------
(***************************************************************************)
(* What happens to one message before and after the dialog state machine:  *)
(* the guardrail, the classification with its rules, models and splitting, *)
(* the slots, the confirmation gate's own parser and the choice of the     *)
(* branch that answers (chat/graph/builder.py and its nodes).  The dialog  *)
(* itself is DialogManager's; rows and expiry are left to ChatTurn.        *)
(*                                                                         *)
(* A text has the patterns it matches as a whole and those of the segments *)
(* it can be split into (at most 3; none when it is not split).  What a    *)
(* model says is nondeterministic within the bounds the code puts on it:   *)
(* an outcome of Semantic, a verdict, slots.                               *)
(***************************************************************************)
EXTENDS DialogManager

CONSTANTS
    Texts,       \* the texts a user may send
    RuleIntent,  \* the intent of each of RequestRules
    L3Intents,   \* irreversible operations
    AbuseStreak, \* GUARDRAIL_ABUSE_STREAK
    RepeatLimit  \* GUARDRAIL_REPEAT_LIMIT

RequestRules == {"cancel order", "cancel booking", "book", "register"}

Patterns == RequestRules \cup
    {"injection", "abuse", "confirm", "deny", "negation", "third party", "identity",
     "transfer", "abort", "nothing else", "bare value", "answers slot",
     "task denial", "accept", "switch", "short", "weak"}

\* A message may carry any of the requests it can be split into.
ASSUME TextsAssumption ==
    /\ RuleIntent \in [RequestRules -> WriteIntents]
    /\ \A t \in Texts : /\ t.whole \subseteq Patterns
                      /\ t.parts \in Seq(SUBSET Patterns) /\ Len(t.parts) \in {0, 2, 3}
    /\ [intent : Intents, slots : {NoSlots}] \subseteq Requests

VARIABLES
    state, active, stack,  \* the dialog
    human,                 \* the session is silent
    offer,                 \* an offer is in the window of the session
    streak,                \* abusive messages in a row
    repeats,               \* how often the last text was sent in a row
    turn                   \* the message under way

dialog == <<state, active, stack>>
counts == <<streak, repeats>>
vars == <<dialog, human, offer, counts, turn>>

NoVerdict == "none"

\* fills: the rule that recognises the answer to the pending slot decided.
Result(label, strong) == [label |-> label, strong |-> strong, fills |-> FALSE]

AnswersSlot == [label |-> "SLOT_ONLY", strong |-> TRUE, fills |-> TRUE]

Nothing == Result("none", FALSE)

NoTurn ==
    [pc |-> "none",
     text |-> [whole |-> {}, parts |-> <<>>],  \* as it was sent, up to its classification
     words |-> {},                             \* what later nodes look for in it
     primary |-> Nothing, pending |-> <<>>,    \* what it asks for
     slots |-> NoSlots, verdict |-> NoVerdict,
     task |-> NoTask]                          \* what is to be executed

Init ==
    /\ state = "IDLE"
    /\ active = NoTask
    /\ stack = <<>>
    /\ human = FALSE
    /\ offer = FALSE
    /\ streak = 0
    /\ repeats = 0
    /\ turn = NoTurn

At(pc) == turn.pc = pc

-----------------------------------------------------------------------------
(* Guardrail *)

\* A silent session answers nothing; an empty message is refused by the schema.
Receive(text) ==
    /\ turn = NoTurn
    /\ ~human
    /\ turn' = [NoTurn EXCEPT !.pc = "guard", !.text = text]
    /\ UNCHANGED <<dialog, human, offer, counts>>

\* A blocked message is answered at once and leaves the dialog alone.
Blocked == turn' = [NoTurn EXCEPT !.pc = "reply"]

\* The counters need Redis and the ticket the database; what fails is skipped.
GuardAbuse(counted, ticketed) ==
    LET streak1 == IF counted THEN streak + 1 ELSE 1
    IN  /\ At("guard")
        /\ "abuse" \in turn.text.whole
        /\ Blocked
        /\ streak' = IF counted /\ streak < AbuseStreak THEN streak + 1 ELSE streak
        /\ human' = (ticketed /\ streak1 >= AbuseStreak)
        /\ UNCHANGED <<dialog, offer, repeats>>

GuardInjection ==
    /\ At("guard")
    /\ "injection" \in turn.text.whole
    /\ "abuse" \notin turn.text.whole
    /\ Blocked
    /\ UNCHANGED <<dialog, human, offer, counts>>

\* Whether the text is the one before is left open; short ones are not counted.
GuardPass(counted, again) ==
    LET counts1 == counted /\ "short" \notin turn.text.whole
        repeats1 == IF ~again THEN 1 ELSE IF repeats < RepeatLimit THEN repeats + 1 ELSE repeats
        flood == counts1 /\ repeats1 >= RepeatLimit
    IN  /\ At("guard")
        /\ turn.text.whole \cap {"abuse", "injection"} = {}
        /\ streak' = IF counted THEN 0 ELSE streak
        /\ repeats' = IF counts1 THEN repeats1 ELSE repeats
        /\ IF flood THEN Blocked ELSE turn' = [turn EXCEPT !.pc = "classify"]
        /\ UNCHANGED <<dialog, human, offer>>

-----------------------------------------------------------------------------
(* Classification: the control rules, in their order *)

\* Mutant: confirming words are looked for first.
MatchGateConfirmFirst(seg) ==
    IF "short" \notin seg THEN Nothing
    ELSE IF "confirm" \in seg THEN Result("CONFIRM", TRUE)
    ELSE IF "deny" \in seg THEN Result("DENY", TRUE)
    ELSE Nothing

\* _match_confirm_gate: denying words contain confirming ones.
MatchGate(seg) ==
    IF "short" \notin seg THEN Nothing
    ELSE IF "deny" \in seg THEN Result("DENY", TRUE)
    ELSE IF "confirm" \in seg THEN Result("CONFIRM", TRUE)
    ELSE Nothing

\* The first slot the task waits for is one that can be recognised by its form.
PendingSlot == state = "COLLECTING" /\ \E s \in Missing(active) : s \in StrictSlots

\* Mutant: a denial is taken for one whatever the dialog waits for.
DeniesTaskAnywhere(seg) == "task denial" \in seg

DeniesTask(seg) == state = "COLLECTING" /\ "task denial" \in seg

When(holds, label) == IF holds THEN <<Result(label, TRUE)>> ELSE <<>>
AsRequest(rule, seg) == When(rule \in seg, RuleIntent[rule])

\* The first rule that holds decides.
Control(seg, filling) ==
    LET gate == IF state = "CONFIRMING" THEN MatchGate(seg) ELSE Nothing
        answers == filling /\ "answers slot" \in seg /\ PendingSlot
    IN  Head(AsRequest("cancel order", seg)
             \o (IF gate # Nothing THEN <<gate>> ELSE <<>>)
             \o When(DeniesTask(seg), "DENY")
             \o AsRequest("cancel booking", seg)
             \o (IF "negation" \in seg THEN <<>> ELSE AsRequest("book", seg))
             \o (IF {"negation", "third party"} \cap seg # {} THEN <<>>
                 ELSE AsRequest("register", seg))
             \o When("identity" \in seg, "CHAT")
             \o When("transfer" \in seg, "TRANSFER")
             \o When({"abort", "nothing else"} \subseteq seg, "ABORT")
             \o When("bare value" \in seg, "SLOT_ONLY")
             \o (IF answers THEN <<AnswersSlot>> ELSE <<>>)
             \o <<Nothing>>)

(***************************************************************************)
(* The layers behind the rules (hybrid_classifier; the rule classifier     *)
(* alone is the case of a model that is not available).  score: below the  *)
(* threshold of the label, above it, and above the one for a switch too.   *)
(***************************************************************************)
SetFitLabels == Intents \cup {"CHAT", "PAYMENT"}
Catalogue == SetFitLabels \cup {"TRANSFER", "ABORT", "UNKNOWN"}

Models == [available : BOOLEAN, keyword : SetFitLabels \cup {"UNKNOWN"}, social : BOOLEAN,
           top : SetFitLabels, score : {"low", "enough", "high"}, clear : BOOLEAN,
           near : BOOLEAN, second : Catalogue \cup {NoVerdict}]

Judged(m) ==
    IF ~m.available THEN Result(m.keyword, TRUE)
    ELSE IF m.social THEN Result("CHAT", TRUE)
    ELSE IF m.score # "low" /\ m.clear THEN Result(m.top, m.score = "high")
    ELSE IF m.near /\ m.score = "low" /\ m.top = "CHAT" THEN Result("CHAT", FALSE)
    ELSE IF m.near /\ m.score # "low" THEN Result(m.top, FALSE)
    ELSE IF m.second # NoVerdict THEN Result(m.second, FALSE)
    ELSE IF m.score = "low" THEN Result("UNKNOWN", FALSE)
    ELSE Result(m.top, FALSE)

Semantic == {Judged(m) : m \in Models}

Classified(seg, model) ==
    IF Control(seg, TRUE) # Nothing THEN Control(seg, TRUE) ELSE model

-----------------------------------------------------------------------------
(* Several intents in one message *)

NonBusiness == {"ABORT", "TRANSFER", "CONFIRM", "DENY", "SLOT_ONLY", "UNKNOWN", "CHAT"}

\* A business segment, unless the one before it agrees: those are merged.
Stays(results, i) ==
    LET earlier == {j \in 1 .. i - 1 : results[j].label \notin NonBusiness}
    IN  /\ i \in DOMAIN results
        /\ results[i].label \notin NonBusiness
        /\ \A j \in earlier : (\A k \in earlier : k =< j) =>
                                results[j].label # results[i].label

Kept(results, i) == IF Stays(results, i) THEN <<results[i]>> ELSE <<>>

\* There are three segments at most (_MAX_SEGMENTS).
Merged(results) == Kept(results, 1) \o Kept(results, 2) \o Kept(results, 3)

Fills(results) == {i \in DOMAIN results : results[i].fills}

\* The results but for the first one that answers the pending slot.
Others(results) ==
    IF Fills(results) = {} THEN results
    ELSE RemoveAt(results, CHOOSE i \in Fills(results) : \A j \in Fills(results) : i =< j)

\* At most two of them wait for their turn (_MAX_PENDING).
Following(results, first) ==
    LET next == SubSeq(results, first, IF Len(results) > first THEN first + 1 ELSE Len(results))
    IN  [i \in DOMAIN next |-> next[i].label]

\* Not for a message the rules take as a whole, unless it cancels an order; the
\* rule that answers the pending slot is not among those.
Splits(text) ==
    /\ text.parts # <<>>
    /\ \/ Control(text.whole, FALSE) = Nothing
       \/ "cancel order" \in text.whole

\* detect_multi_intent, else classify: the primary result, the text its slots
\* come from and the labels that follow.
Understood(text, models) ==
    LET results == [i \in DOMAIN text.parts |-> Classified(text.parts[i], models[i])]
        requests == Merged(Others(results))
        single == [primary |-> Classified(text.whole, models[1]), pending |-> <<>>]
    IN  IF ~Splits(text) THEN single
        ELSE IF Fills(results) # {} /\ requests # <<>>
        THEN [primary |-> AnswersSlot,
              pending |-> Following(requests, 1)]
        ELSE IF \E i, j \in DOMAIN requests : requests[i].label # requests[j].label
        THEN [primary |-> requests[1], pending |-> Following(requests, 2)]
        ELSE single

\* Requests that are no tasks are dropped when they are pushed.
AsTask(labels, i) ==
    IF i \in DOMAIN labels /\ labels[i] \in Intents
    THEN <<[intent |-> labels[i], slots |-> NoSlots]>> ELSE <<>>

Pushed(labels) == AsTask(labels, 1) \o AsTask(labels, 2)

\* What later nodes look for in the text.
Gist == turn.text.whole \cap {"short", "confirm", "deny", "weak", "switch"}

\* An accepted offer comes first, when nothing waits for the user.
Accepts == /\ offer
           /\ "accept" \in turn.text.whole
           /\ active = NoTask
           /\ state \notin WaitingStates

\* Redis answers, and the offer has an intent.
AcceptOffer(intent) ==
    /\ At("classify")
    /\ Accepts
    /\ offer' = FALSE
    /\ turn' = [NoTurn EXCEPT !.pc = "extract", !.words = Gist,
                               !.primary = Result(intent, TRUE)]
    /\ UNCHANGED <<dialog, human, counts>>

\* An offer that is accepted after all, or consumed by a call that then fails,
\* may be gone.
Classify ==
    /\ At("classify")
    /\ \E models \in [DOMAIN turn.text.parts \cup {1} -> Semantic] :
          LET understood == Understood(turn.text, models)
          IN  turn' = [NoTurn EXCEPT !.pc = "extract", !.words = Gist,
                          !.primary = understood.primary, !.pending = understood.pending]
    /\ offer' \in {offer, offer /\ ~Accepts}
    /\ UNCHANGED <<dialog, human, counts>>

-----------------------------------------------------------------------------
(* Slots and the parser of the confirmation gate *)

\* A slot that was recognised as the answer is the only one that is taken.
Extract(slots) ==
    /\ At("extract")
    /\ turn.primary.fills =>
          \E s \in Missing(active) \cap StrictSlots :
             /\ slots[s] # NoValue
             /\ \A other \in Slots \ {s} : slots[other] = NoValue
    /\ turn' = [turn EXCEPT !.pc = "parse", !.slots = slots]
    /\ UNCHANGED <<dialog, human, offer, counts>>

Settled == {"CONFIRM", "DENY", "ABORT", "TRANSFER", "SLOT_ONLY"}
Verdicts == {"CONFIRM", "DENY", "MODIFY", "UNRELATED", NoVerdict}

Weak == "weak" \in turn.words

\* An irreversible operation asks for more than agreement.
Rechecked(label) ==
    IF label = "CONFIRM" /\ Weak /\ active.intent \in L3Intents THEN "SLOT_ONLY" ELSE label

Relabelled(label, verdict) ==
    CASE verdict \in {"CONFIRM", "DENY"} -> verdict
      [] verdict = "MODIFY" -> "SLOT_ONLY"
      [] OTHER -> label

\* confirmation_parse; a correction adds its values to the slots.
Parse(verdict, corrected) ==
    LET label == turn.primary.label
        gate == state = "CONFIRMING"
        asked == gate /\ label \notin Settled
    IN  /\ At("parse")
        /\ ~asked => verdict = NoVerdict
        /\ verdict # "MODIFY" => corrected = NoSlots
        /\ turn' = [turn EXCEPT
               !.pc = "resolve",
               !.primary.label = IF asked THEN Relabelled(label, verdict)
                                 ELSE IF gate THEN Rechecked(label) ELSE label,
               !.slots = Merge(@, corrected), !.verdict = verdict]
        /\ UNCHANGED <<dialog, human, offer, counts>>

-----------------------------------------------------------------------------
(* The state machine and the branches *)

\* The message as dialog_state_resolve hands it on.
Message ==
    LET label == turn.primary.label IN
    [label |-> label,
     slots |-> IF label \in Intents \cup {"SLOT_ONLY", "UNKNOWN"} THEN turn.slots ELSE NoSlots,
     pending |-> IF label \in {"TRANSFER", "ABORT", "UNKNOWN"} THEN <<>>
                 ELSE Pushed(turn.pending),
     strong |-> label \notin Intents \/ turn.primary.strong \/ "switch" \in turn.words]

\* _route_after_skill: what is not executed, looked up or answered from the
\* knowledge base is answered by a template.  A question that is read has a tool, a
\* product or an article to answer it, or none; the knowledge base is enabled.
Branches(out) ==
    CASE out.status = "CONFIRMED" /\ out.finished # NoTask -> {"execute"}
      [] out.status = "DONE" /\ out.intent \in ReadIntents -> {"tool", "product", "rag", "template"}
      [] out.intent = "UNKNOWN" /\ out.active = NoTask -> {"rag"}
      [] OTHER -> {"template"}

Resolved ==
    LET out == Resolve(state, active, stack, Message) IN
    /\ At("resolve")
    /\ state' = out.state
    /\ active' = out.active
    /\ stack' = out.stack
    /\ human' = (out.state = "HANDOFF" \/ out.intent = "PAYMENT")
    /\ \E pc \in Branches(out) : turn' =
          IF pc = "execute" THEN [turn EXCEPT !.pc = pc, !.task = out.finished]
          ELSE [NoTurn EXCEPT !.pc = pc]
    /\ UNCHANGED <<offer, counts>>

\* The answer, with an offer when the turn is done and nothing speaks against.
Reply(offers) ==
    /\ turn.pc \in {"execute", "tool", "product", "rag", "template", "reply"}
    /\ offers => turn.pc \in {"tool", "product", "rag"}
    /\ offer' = (offer \/ offers)
    /\ turn' = NoTurn
    /\ UNCHANGED <<dialog, human, counts>>

\* The window of the offer, the counters and the ticket end.
Lapse ==
    /\ turn = NoTurn
    /\ \/ offer /\ offer' = FALSE /\ UNCHANGED <<dialog, human, counts>>
       \/ /\ human
          /\ human' = FALSE
          /\ state' = "IDLE" /\ active' = NoTask /\ stack' = <<>>
          /\ UNCHANGED <<offer, counts>>
    /\ UNCHANGED turn

Next ==
    \/ \E text \in Texts : Receive(text)
    \/ \E b, c \in BOOLEAN : GuardAbuse(b, c) \/ GuardPass(b, c)
    \/ \E b \in BOOLEAN : Reply(b)
    \/ GuardInjection \/ Classify \/ Resolved \/ Lapse
    \/ \E intent \in Intents : AcceptOffer(intent)
    \/ \E slots \in SlotFillings : Extract(slots)
    \/ \E verdict \in Verdicts, slots \in SlotFillings : Parse(verdict, slots)

Spec == Init /\ [][Next]_vars

-----------------------------------------------------------------------------
(* Properties *)

\* The user's own words let an operation be executed: a short text that confirms
\* and does not deny, more than agreement when it cannot be undone, or words the
\* gate's parser took for a confirmation.  However a message is split, judged by
\* the models and relabelled, nothing else does.
ExecutesConfirmed ==
    At("execute") =>
        LET words == turn.words IN
        \/ turn.verdict = "CONFIRM"
        \/ /\ "short" \in words /\ "confirm" \in words /\ "deny" \notin words
           /\ "weak" \in words => turn.task.intent \notin L3Intents

\* What reaches the state machine is what DialogManager assumes of a message:
\* a confirmation or a denial only while one is waited for, and secondary
\* requests only beside a request or an answer.
Deliverable ==
    At("resolve") =>
        /\ Message \in Messages
        /\ Sayable(Message.label, state)
        /\ CarriesPending(Message.label, state, Message.pending)
=============================================================================
