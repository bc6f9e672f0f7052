# TLA+ models of the ai-cs-platform dialog core

The repository is a Chinese-language customer-service bot: FastAPI, one LangGraph
pipeline per chat turn, PostgreSQL for everything that must survive, Redis for what
may be lost. This directory holds TLA+ modules for the parts where the order of
steps matters, TLC configurations that check them on small instances, and TLAPS
proofs of what must hold for every size. All paths below are relative to the
repository root.

## 1. Inventory

| Component | State | Operations | Hard part |
|---|---|---|---|
| dialog state machine (`app/chat/state/manager.py`) | none of its own: state, current task, stack of suspended tasks | `resolve`, `_evaluate_task`, `_finish_turn` | mutual recursion over a mutable list, state and task written by ten branches |
| message understanding (`graph/nodes/intent_classify`, `slot_extract`, `confirmation_parse`, `chat/intent`, `chat/slots`) | unknown streak | rules, models, splitting, slots, the parser of the gate | control words, models and state each relabel what the others said |
| guardrail rules (`chat/guardrail`, `guardrail_check`) | abuse streak and repetitions in Redis | block, hand over, limit | counters across turns, Redis away |
| chat turn (`chat_service`, `load_session_state`, `save_turn`) | `chat_dialog_state`, `chat_task`, `chat_message` | load, expiry, save, 409 on a version conflict | the connection is returned between load and save; several turns of a session overlap |
| write executor (`actions/executor.py`, `action_execute`) | `chat_task.status`, `chat_action` | identity check, claim of the execution right, tool call, outcome | claim committed on its own, crash before or after the call |
| human handoff (`handoff_service`, `api/routes/handoff.py`) | `chat_handoff_ticket`, `chat_session.status` | ensure_ticket, claim, resolve, reply | lookup then insert, agents and turns race |
| session cron (`scripts/close_idle_sessions.py`) | the same rows | close_stale_tickets, close_idle_sessions | selects, then updates by id |
| ratings (`csat_service`, `load_session_state`, `save_turn`) | pending question in `context_stacks_json`, ratings | ask, rate, lapse | the question is asked while turns are in flight |
| idempotency (`core/idempotency.py`) | Redis: response cache, processing lock | begin, finish | lock shorter than the request, value equal for retries |
| tools (`chat/tools`, `tool_invoke`, `agent/diagnose`) | tools discovered, a failure mark | route, degrade to the mock, chain, diagnose | shared by all turns of a process, read before an await and used after it |
| language model calls (`chat/llm`) | deadline in a context variable, tokens of the day in Redis | check, call, record | inherited contexts, check then act |
| retrieval and answers (`kb/retriever`, `kb/answerer`, `rag_answer`, `product_answer`) | none | filter, rank, refuse, generate, extract | documents change between two reads of a turn |
| document chunking (`kb/chunker.py`) | none | flush, cut, overlap, merge | every flush path must lose nothing |
| knowledge base publication (`kb_operations_service`, `kb/ingest`, `kb/reindex`, `scripts/kb_schedule`) | document, versions, chunks, vector index, repair flag | draft, review, publish, upload, disable, roll back, repair | the index is outside of the transaction |
| semantic cache (`chat/cache/semantic_cache.py`) | list of answers of a tenant in Redis | look up, store, invalidate | a turn stores after the invalidation |
| conversation memory (`memory/scheduler`, `local_provider`) | summary, cursor, facts | summarise after commit | compare-and-set, waiting tasks, shutdown, metadata written back |
| service cases (`case_service`, `scripts/case_sla_check.py`) | `service_case` | open, merge, transition, compensate, escalate | merge of a read copy, two writers of a status |
| websocket notifications (`notify_service`, `routes/ws.py`) | sockets, listeners | connect, publish, dispatch | several processes, Redis away |
| business events (`event_service`, `routes/events.py`) | mark of an event, consent, messages | deliver | redelivery, rollback after the mark |
| rate limit (`core/rate_limit.py`) | two Redis sorted sets | count, extend | count, then add |
| proactive suggestions (`chat/proactive`) | frequency keys, impressions | welcome, offer, accept | five keys read one after another |
| customer journey (`journey_service`) | one row per user | read, derive, write | a stale row is written back |
| skill registry, authentication, experiments, metrics, tracing, web client, deployment, training | start-up or output | | not modelled, section 5 |

How they interact. A request enters `ChatService.process_message`, behind the
idempotency key and the rate limit; the graph runs load → guardrail → classify →
slots → resolve → (tool | executor | answer) → save. The nodes hand a state dictionary
to one another, the turns of a session meet only in the database. Agents (HTTP) and the
cron job change the same session, ticket, task and dialog rows in transactions of
their own. Memory, notifications and cases hang off the commit of a turn; answers come
through the cache, which a publication clears inside its transaction; offers are
appended to an answer and read the user's journey.

What makes each part correct:

- State machine: a task is current exactly while the machine waits; at the gate
  stands a complete write operation; what is executed is what the prompt showed; no
  task is named twice; suspended tasks come back newest first; a user is not asked
  for ever.
- Understanding: only the user's own words release an operation; the state machine
  is given only messages it is made for.
- Chat turn: nothing committed is overwritten; rows and dialog agree.
- Executor: an operation runs at most once, and only with the execution right;
  outcomes are kept.
- Handoff, ratings: at most one open ticket; a promise of a human is backed by a ticket;
  ended tickets stay ended; a silent session can be restored; a question is rated once.
- Idempotency: one request of a key at a time; no retry of an answered request runs;
  only committed responses are replayed.
- Tools and models: no invented facts, no write without the gate; deadline and budget
  hold under overlap.
- Knowledge: answers only from documents in force; a document is rebuilt as a whole and
  stays findable; chunking loses nothing; replaced answers leave the cache; the cache
  carries nothing personal.
- Memory: the summary is the messages up to its cursor, each once; the cursor does
  not go back.
- Services: windows exceed their limit by less than the clients; a refused client gets
  through; overdue cases are noticed; one message per event; no push before the commit.
- Offers, journey: a refusal that was heard is heeded; the stage moves on, one rank at a time.

`PROJECT.json` lists the hazards with their lines and the properties that cover them.

## 2. Modules

    DialogManager            operators: one message against one dialog
      ├─ DialogTurns         one conversation, atomic turns ── implements ── ConfirmGate
      │    └─ DialogRecursion  the recursion of the source ── MCDialogTurns (TLC)
      ├─ ChatTurn            overlapping turns, cut at their transactions
      │    ├─ ChatTurnHistory  + history variable ── implements, unless overtaken ── DialogTurns
      │    └─ MCChatTurn, MCChatTurnHistory (TLC)
      └─ Understanding       guardrail, classification, gate parser, routing
    Handoff (─ MCHandoff), Ratings ── Session ── MCSession     (Journey ─ MCJourney)
    Idempotency, Answers, Tools, LlmCalls ── Answering ─┐
    Memory, Proactive, Journey ── Customer ─────────────┼─ MCMessages
                                       Understanding ───┘
    Notices, RateLimit, ServiceCases,
    KbPublication, AnswerCache, Chunker ── Services ── MCServices
    DialogManagerProofs ── DialogTurnsProofs, ChatTurnProofs, UnderstandingProofs
    SessionProofs, AnsweringProofs, CustomerProofs, ServicesProofs

Session, Answering, Customer and Services put components side by side that share no
variable. Each component is an instance with a prefix (`RR!Begin`, `ME!Write`) and
constants and variables of its own, so that two components may both speak of turns
without meaning the same ones; one component of Session and of Services is extended
instead and keeps its names. What the components assume of their constants becomes one
named assumption of the union, which TLC evaluates in the run, and each property has its
name again there: a run and a theorem speak of the same definition. MCSession,
MCMessages and MCServices add `part`, which names the component whose behaviour this is;
the others stay where they start. Each component is checked as if alone, what is saved is
only the number of TLC runs. The theorems are about each component's own specification
(`RR!Spec`), or the properties' own where the component is extended.

Compositions in the proper sense are ChatTurn and Understanding over DialogManager, and
ChatTurnHistory over DialogTurns. Where two modules meet otherwise, each models the
other's effect as an action: `Reset` in the turns is resolve or the cron job, `Publish` in
AnswerCache is KbPublication's commit, the documents of Answers change freely between any
two steps.

**DialogManager** is `DialogStateManager`. A task is a record of intent, collected
slots, number of asks and row id; kind and required slots are constants, because they
come from the skill registry; the timestamp is replaced by expiry as a choice in the
modules that load the state. `Resolve` has one case per branch of `resolve`, in its
order; `Evaluate` is `_evaluate_task`. `FinishTurn` is a closed form of the recursion
`_evaluate_task`/`_finish_turn`, so that it is defined without one; `DialogRecursion`
contains the recursion statement by statement, as a recursive function of the height of
the stack, and `ResumeIsRecursion` compares the two on every stack a conversation builds. `Messages`, `Sayable` and `CarriesPending` bound
what the nodes before the state machine can deliver. Of a message's text nothing
remains; bot identity, small talk and the META skills are one label `CHAT`, except the
payment report, which `save_turn` turns into a handoff.

**DialogTurns** composes load (expiry), resolve and save into one step: the
conversation as it is meant to be. `shown` is the task from which the confirmation
prompt now before the user was rendered: `response_generate` renders it from the task
evaluated, the resume note of `save_turn` from the task resumed, a `CHAT` turn leaves
the previous one standing. `last` records what a turn handed to the executor.
`Reset` stands for resolve, stale ticket and idle session.

**ConfirmGate** is the promise of the confirmation gate in two actions: talk, or
execute exactly what the prompt shows.

**ChatTurn** cuts a turn where the code commits or gives the connection back: `Begin`
(load, with the expiry committed on its own, and every node that only decides), `Claim`
/ `ClaimError` / `Refused` / `NeedIdentity` (executor before the call), `Invoke` (tool
call; the flushed row stays locked), `Save`, `Rollback`. `Synced` is
`_sync_task_rows` with its three updates in order. The mapping of a status to row
statuses is the code's. `reopens`, `claims`, `calls` are history counters. One fact lies
outside the code: SQLAlchemy's identity map is weak, and `_load_state` drops its
reference, so whether the version that `save_turn` compares is the one read at the start
depends on garbage collection. `Retention` says which of the two may happen; every
run names its choice. The first turns of a session, which find no row, belong to
`retained = FALSE`: such a turn inserts the row, or selects what another turn has inserted
meanwhile with the version of that moment; an INSERT that meets the unique index is a
`Rollback`. `quiet` notes whether the instance had its loaded values again at
the save (`SameAsLoaded`): then a retained instance is not written and no version is
compared, while the task rows are synchronised all the same.

**ChatTurnHistory** adds `last`, the label, task and prompt of the last commit, and
maps ChatTurn to DialogTurns; a commit that wrote no state is `Superseded` and maps to a
stutter. `SequentialUnlessOvertaken` is the refinement that the code has: every step is one
of the sequential conversation or a stutter, but for the save of a turn that is `Overtaken`,
by another commit or by the handover of a payment.

**Handoff** has the session status, the tickets, the turns that open one (four
kinds, because they take locks in different order), resolve requests, and the cron job.
Writes appear at the commit; `holder` is the lock on the row of `chat_dialog_state`,
`silences` an uncommitted update of `chat_session`, `fresh` an uncommitted ticket that
blocks the partial unique index. The first two exist only where the mapper emits an UPDATE: a
turn (a payment's, say), resolve and the cron job give `dialog_state` values, and if the row
has them already nothing is written and nothing waits. `Lock` and `Ends` leave open which
it is; `quiet` records the tickets ended without waiting. `Rollback` may happen at any point:
conflict, database deadlock, crash.

**Ratings** is the question that resolve and the cron job ask through `csat_pending`, with
the streak of unclear messages that is stored beside it. Turns overlap as in ChatTurn: a turn
decides on what it loaded and writes at its save. `settled` and `unchecked` are history.

**Understanding** follows one message from the guardrail to the branch that answers:
control rules in their order, rule and model layers of the classifier, splitting, the
answer to a pending slot, the parser at the gate, the branch. A text is the set of
patterns it matches, whole and per segment; a model's outcome is any that the code lets
through (`Semantic`). `Gist` keeps only the patterns that later nodes look at. The
dialog after it is `Resolve` of DialogManager.

**Answers** is `rag_answer` and `product_answer` with retriever and answerer, one turn
after the other, while documents are published, rewritten and withdrawn between any two
steps. Scores are classes, every order of hits is a ranking, evidence is a set of
passages with the rewriting their text is from.

**Tools** is the provider (list, call, degrade), the chain of `tool_invoke` and the
diagnosing agent; a step ends at an await. The state of the provider is the process's and
shared by its turns.

**LlmCalls** is a call through the factory: budget check, deadline, call, record; memory
tasks inherit the context of their turn, hence its deadline, until they reset it. Time is
a counter.

**Idempotency** has the requests with one key, one step per call to Redis; `trouble` is a
history flag for an expired lock, an outage or a response too large to store.

**Memory** numbers the messages; a summary stands for the set of messages it was made
from. Tasks wait for the semaphore, read, call the model, and write with a
compare-and-set; a loading turn may write back the metadata it has read.

**Proactive** has the frequency keys and one step per call to Redis, for the welcome, the
offer, the acceptance and the refusal (`Reject` asks for the window, `Note` sets the key).
History variables: `said` is what the user refused, whatever became of it, `lost` what of that
the program took no notice of, and `barred` what a turn was bound by when it began.

**Journey** is the read, the derivation and the savepoint write of the customer's row.

**RateLimit** has both windows, and a step each for count and extend. **ServiceCases** keeps
for each transaction the rows it read and the columns it will update; the cron job is one of
the workers. **Notices** is the webhook and the hub of several processes over Redis
Pub/Sub. **KbPublication** is one document with row, versions, chunks, index and flag;
a publication's flushed UPDATE is a lock. The scheduled publication selects a candidate
(`SelectEffective`), publishes it unchecked (`PublishEffective`), and where the embedding
service fails between the two halves of it commits what there is (`CommitHalf`). The repair
(`ReindexList`, `ReindexWrite`, `ReindexClear`) runs beside all transactions and may be cut off
by its limits or stop. Three history variables name what the code lets happen, so that the
properties can forbid everything else: `unlocked`, `halved`, `strayed`. **AnswerCache** has the list of cached answers,
each with the edition of the knowledge base it was drawn from. **Chunker** walks over
the blocks with the buffers of the code; a character is a pair of block and place, so that
copies can be told from originals. Its loops are steps or closed forms, so that it can be
proved about: sentences are cut off as the merge needs them, fragments are merged one
passage per step, the heading stack is the set of its headings, and the slices of a table,
whose lines are equally long, all take the same number of rows.

## 3. Runs

| Run | Checks | Shows |
|---|---|---|
| dialog (1 697 states) | `WaitingHasTask GateArmed OneTaskPerRow ResumeIsRecursion NewestResumedFirst GateSpec` | the state machine with a stack of two and secondary requests; it implements ConfirmGate |
| dialog_live (3 085) | `StubbornUserReleased` | asks run out, across suspensions |
| dialog_lost | `OthersStaySuspended` violated | suspended tasks vanish below a complete read |
| turn_serial (276 k) | `AtMostOnce ConfirmExecutes RowsFollowDialog OutcomesStay` | eight turns one at a time with expiry, reset, missing identity, failing claim, failing tool |
| turn_overlap (189 k) | `CallsAreClaimed ClaimsNeedReopening SequentialUnlessOvertaken` | two turns overlap, instances retained or not, payments, failures anywhere: what still holds, and where alone an update is lost |
| turn_twice | `AtMostOnce` violated | one operation executed twice, even with an effective version |
| turn_overwritten | `NoLostUpdate` violated | a turn overwrites a state committed after it had read |
| handoff (1.14 M) | `OneOpenTicket HandoverHasTicket EndedStaysEnded RatedOnce` | two turns, a resolve, the cron job and claims race for two tickets; overlapping turns race for a question |
| handoff_stuck | `HumanReachable` violated | a silent session without an open ticket |
| messages (1.03 M) | `OneAtATime AnsweredOnce ReplaysCommitted` (Idempotency), `SummaryIsPrefix CursorAdvances` (Memory), `RefusalHeeded` (Proactive), `ExecutesConfirmed Deliverable` (Understanding), `Grounded OwnContext` (Answers), `NoInventedFacts` (Tools), `WithinLimits` (LlmCalls), `StageMovesOn` (Journey) | what surrounds the dialog of a message |
| services (459 k) | `BoundedOvershoot RefusedRecovers` (RateLimit), `OverdueIsNoticed` (ServiceCases), `OneMessage PushedIsCommitted` (Notices), `OneContent Findable` (KbPublication), `StaleLeaves` (AnswerCache), `NothingLost` (Chunker) | what runs beside the conversation |
| journey_back | `StageNeverBack` violated | two sessions of a customer take the stage back |

Bounds. Two slots, one strict and one free, so that both branches of the UNKNOWN
evidence rule occur; one value, because no rule compares values, only presence. A
stack of two in `dialog` is `TASK_STACK_MAX`; with two secondary requests and an
interruption it overflows. `AsksMax` is 1 or 2 where the setting is 3: what matters
is below, at and above the limit, and with 2 in the runs of ChatTurn a suspended task is
resumed and asked again (with 1 it would be given up whenever it had been asked). `Rows` exceeds the tasks alive at once by one, so a new
row always exists in DialogTurns; in ChatTurn rows are never reused, and a turn that would
need one more cannot save, which only shortens behaviours. `TurnBound` (4, or 8 serial)
is enough to open a task, answer, and confirm twice, with a turn in between. `Tickets` of
two allows one ticket to end and the next to open, and two turns to collide at the
INSERT. Every other counter is bounded by these. Rows, turns and tickets are
permuted by symmetry in safety runs only; the refinements and the action properties are
safety, dialog_live uses none.

The instances of the unions, each the smallest in which its hazards meet:

| Module | Instance | Why it is enough |
|---|---|---|
| Idempotency | 3 requests, 2 bodies | one works, one retries, one comes after; another body with the same key |
| Memory | 3 tasks, semaphore 2, window 2, threshold 3, step 2, limit 6, 2 loaders | two tasks inside and one waiting; the summary is written twice; two turns write back |
| Proactive | 2 turns, 1 session, 1 rung, cap 1 | one turn refuses while the other is between two reads; `Init` also has refusals of earlier sessions |
| Understanding | 1 read, 1 irreversible write, 1 slot, stack 1, asks 1, streak 2 | 24 texts, one per combination of patterns that the rules tell apart |
| Answers | 2 documents, 2 users, 1 rewriting, top 2, 2 turns | one document leaves while the other is quoted; the second turn reads what the first cached |
| Tools | 2 turns, chain of 2 reads, 1 write, 1 tool only the service knows | a turn uses what the other's await has changed |
| LlmCalls | 2 turns with their memory tasks, budget 2 of tokens and of time | the last tokens are wanted by four |
| Journey | 2 turns, 6 signals | every goal, weak and strong; a read row grows stale |
| Ratings | 2 turns, 2 questions, streak limit 2 | a second question while the first turn is in flight |
| RateLimit | 2 clients, 2 messages each, limits 2 and 1 | both windows refuse |
| ServiceCases | 2 cases, 2 types, 1 source, 2 workers, 3 requests | a second active case, a race of two, the cron job with any part of what is overdue (its limit is 200) |
| Notices | 2 deliveries, 2 processes, 1 client | redelivery to another process than the socket's |
| KbPublication | 2 contents, 2 workers, 2 operations | any two operations overlap; `Init` also has a document published long ago |
| AnswerCache | 2 turns, 3 questions, 2 publications, 2 entries | the list overflows, a turn outlives a publication |
| Chunker | 9 kinds of block, 4 blocks, size 4, overlap 1 | paragraphs below, above and at the cut, with sentences and without; every flush path |

`CHECK_DEADLOCK FALSE` stands in `MCSession.cfg`, `MCMessages.cfg` and `MCServices.cfg`: a
bounded number of requests, turns or blocks really comes to its end there. (A silent session
whose ticket has ended is stuck in the program, too: `handoff_stuck`.)

`CHECK_DEADLOCK FALSE` of journey_back is the customer who has bought and is at risk: nothing
moves the row any more.

`Vocabulary` in turn_overlap leaves out reads and labels that differ only in the state machine;
`dialog` and turn_serial cover them. `Identity` and `Failures` are varied per run to keep each small.

Fairness. `FairSpec` of DialogTurns: weak fairness of `UnknownTurn`, the turn of a
message from which the bot learns nothing. It assumes that a user who is not
understood writes again; nothing in the program forces it. The property further assumes
that from some time on every message is one the bot cannot place. Fairness of all turns
would be too strong: where an unknown message changes nothing it would force an expiry or
a message that is understood, and the property would hold of a program that asks for ever.

RateLimit: a client's calls end and a refused client tries again (weak, per client), and
entries leave a window after a minute (weak, per window), which is the clock of Redis;
nobody is obliged to send. ServiceCases: the job keeps being run by its timer (weak, `Escalate`), and
of infinitely many of its runs one commits (strong, `Commit("cron")`): a commit can be
disabled again and again by agents who change the case in between, but not every time.
AnswerCache: time passes and Redis expires keys (weak); nobody need ask or publish.

### What the violation runs show

1. **dialog_lost** (`manager.py:344`). A complete read at the top of the stack is
   evaluated, which already finishes the turn on the tasks below it; the read is then
   kept, and with it the shortened stack. Tasks popped below are gone, their rows stay
   SUSPENDED. The header of the file says that ending a task resumes from the stack.
   Resuming gave-up tasks aside, no rule allows dropping the others.
2. **turn_twice** (`save_turn.py:85`). The second turn, holding the task from its own
   load, saves while the first is between claim and outcome. `_sync_task_rows` puts the
   row back to CONFIRMING, a later confirmation claims it again. `executor.py:9-10`
   says that a task executing or done is refused.
3. **turn_overwritten** (`chat_dialog_state_repository.py:48`). The row is selected
   again at save, so its version is the newest one; `load_session_state.py:37` relies on
   a conflict there.
4. **handoff_stuck** (`guardrail_check.py:89`). An abusive user is handed over on an
   open ticket; the ticket is resolved before that turn commits; its update of the session
   then silences a session that no ticket can restore
   (`docs/database/chat_tables.md:353`). The same happens to a user who asked for a human
   where nobody waits for the row of `dialog_state`: below, *Handoff*.
5. **journey_back** (`journey_service.py:145`). Two sessions of a customer read the same
   row; the one commits PURCHASED, the other then writes the lower stage it derived. There is no
   version on that table. `journey_service.py:3` says that stages never go back, and
   `docs/requirements/stage-38-customer-journey/01_journey.md:35` gives `max` as the rule.

### What else the models show

Met while modelling; each is a behaviour of the models that no property forbids, because
the code lets it happen:

- *Overlapping turns.* A turn that reports a payment hands the session to a human
  (`save_turn`) without writing `dialog_state`: it compares no version and moves none, so a
  turn in flight notices nothing and still commits, and may execute, after the
  handover. That is no turn of the sequential conversation; `Overtaken` names it. A turn that gives `dialog_state` its loaded values back commits
  without a version check, and still synchronises its old task statuses to the rows. A
  rating turn whose version is not checked can rate a question twice and leave a waiting
  state without its task; a question asked while a turn is in flight is erased by its
  save. `close_stale_tickets` keeps `context_stacks`: streak and pending question survive.
- *Handoff.* A transaction that ends a ticket waits for the promise of a turn only at the row of
  `dialog_state`. `close_stale_tickets` gives that row default values: if it has them, there is no
  UPDATE, and the ticket a turn has just promised is closed before that turn commits. A payment
  turn that finds its values in the row keeps nobody out either. `HandoverHasTicket` excludes
  exactly these two.
- *Idempotency.* The lock lives 60 seconds; a retry after it runs the turn again. So does a
  retry that was sent before the answer, missed the cache, and took the lock after its release.
- *Service cases.* Two transactions from the same read copy: references or metadata of one
  are lost, and the pair can take a transition the table forbids. Each type has one
  priority, so the branch of the merge that raises it never runs.
- *Knowledge base.* `disable_document` (`ingest.py:171`) leaves the chunks in PostgreSQL, and what
  is served is decided by `published_version` and "not archived"
  (`kb_chunk_repository.py:143-144`, `retriever.py:220`): the keyword recall still finds a disabled
  document, although `docs/architecture/functional_review_2026-07-04.md:34` says that the
  status filter of PostgreSQL excludes it. An edit during an approval makes the published version differ from the chunks;
  two approvals can give two versions one number, then a rollback to it fails; a rollback of
  the transaction leaves the index ahead of PostgreSQL, though `ingest.py:8` promises
  PostgreSQL first; a repair that a publication overtakes, or that its limits (500 documents, 5000
  chunks of a tenant) cut off, clears the flag all the same; `kb_schedule.py:56` catches a failed publication and
  commits the deletion of the chunks, and since a candidate is not checked again, a document published
  meanwhile is then served without any; an archived one is published; disable, then edit, makes a document live that has no vectors;
  `POST /documents` never sets `published_version`.
- *Answers.* `extract` quotes `hits[0]`, which may be below the threshold; chunks are read before
  titles and states, so a passage may be of an edition never in force (the guarantee is per document);
  answers made under guidelines of one dialog state are cached for the tenant; `store`'s own
  check for personalised answers never sees the flag, the caller's does.
- *Memory.* The summary stops for ever at the history limit of 500 messages; two tasks can
  store a fact twice.
- *Notices.* A lost reply to a Redis publish makes a push arrive twice. A released
  savepoint already triggers the push in the code, which the model leaves out: a rollback
  after it is a push without a message.
- *Tools.* What discovery found is cached for ever, so the branch
  `_discovery_failed and tool in _last_known_tools` is unreachable and later tools are never
  seen; a process that starts while the service is away answers from the mock;
  `degraded` is read after the mock's await and can be another turn's.
- *Rate limit.* A request the session window refuses has used a place of the tenant's.
- *Offers.* If the impression cannot be recorded the offer is shown uncounted and a
  rejection is not recognised. A refusal said while Redis is away, or whose key cannot be set, keeps
  that turn quiet and is forgotten by the next.
- *Understanding.* `_DENY_WORDS` (`rule_classifier.py:95`) lacks 「不可以」「不是的」「不好的」: each
  contains a confirming word and is taken for a confirmation, for irreversible operations
  too. `ExecutesConfirmed` speaks of patterns, so it holds.
- *Journey.* A weak sign makes a new customer
  REGISTERED; ratings never reach it, so a risk is never cleared.
- *Chunking.* Fragments merge across sections under the first's heading path; an image
  comes before paragraphs still buffered; with Overlap ≥ Size, which no setting rejects, the
  cut does not end (`ChunkerAssumption`).

## 4. Proofs

Every safety property the passing runs check is proved, for every size of its constants;
the liveness properties listed at the end are not.

Assumptions. Those named in the modules, which TLC evaluates in the runs: skills are READ or
WRITE but not both, required slots are slots, limits are positive, `NoTask`, `NoRow`,
`NoTicket`, `Nobody`, `None`, `Absent`, `NoProcess` are none of the things they stand beside, and per
component what `SessionAssumption`, `AnsweringAssumption`, `CustomerAssumption` and
`ServicesAssumption` collect. The sets of intents, slots, values, rows, turns, tickets,
requests, tasks, documents, users and deliveries are arbitrary; they are finite only where
a property counts (`Turns` of ChatTurn for `CallsAreClaimed`, the clients of RateLimit,
the turns of LlmCalls). One group of theorems has a hypothesis of its own, `Serial`: at most one
turn in flight, none of which is rolled back but by a reset (the claim and the tool may fail, the executor
handles that), as in turn_serial. Without it `AtMostOnce` is false: turn_twice. The other
theorems about turns hold for any `Retention`, any vocabulary and any failures.

**DialogManagerProofs**: the operators. `Push` never exceeds the limit, `Topmost` is the greatest
position, and from these two theorems on `Resolve`, one step per branch:

- `ResolveSound`. *Sound* means typed and *armed*: a task is current iff the machine
  waits, and a task at the gate is a complete write operation. The outcome of `Resolve` is
  sound again, and only the task at the gate is handed over.
- `ResolveArranged`. `Arranged(task, stack, R, Bad)` says that all rows are in `R` and
  that no two tasks, the lower one first, have a pair of rows in `Bad`; `Resolve` keeps it, for any
  `R` and `Bad`. One lemma serves five proofs, by the choice of the two sets: pairs of equal
  rows (no row twice), a pair of two given rows (no overtaking), unspent rows (execution at
  most once), rows that exist (refinement).

**DialogTurnsProofs**: one conversation.

- `GateInv` (type, armed, at the gate the prompt shows the current task) gives
  `TypeTheorem`, `WaitingTheorem`, `GateTheorem`. `WaitingHasTask` alone is not inductive:
  a confirmation is judged by the state, and only the armed gate says what stands behind
  it. `GateRefinement`: every step is a step of ConfirmGate or a stutter.
- `RowInv` adds that the rows are arranged with no row twice and that the current task has a row.
  `OneTaskPerRow` alone forgets the latter: the current task would go to the stack
  without a row and get a second one. It gives `RowTheorem`; `NewestTheorem` follows with
  `Bad` the pair of the two rows, the newer one below the older.
- `RecursionTheorem`: the closed form of the resumption is the recursion. `Above` compares what
  FinishTurn finds in a stack with what it finds in the same stack with a task on top, so that
  the closed form satisfies the equation of the recursion at every height (`FinishStep`,
  `EvaluateStep`); hence the recursive function exists, and it has no other value, since the least
  height at which the two differ would have a lower one (`EvaluatedIs`). Induction over the
  height this way needs no induction theorem.

**ChatTurnProofs**: overlapping turns, then one at a time, then the dialog of overlapping turns.

- `ClaimInv`: the one claim no reopening pays for belongs to a row that is executing or has its
  outcome; `SyncedKeepsOutcomes` says that a saving turn never rewrites an outcome. Gives
  `ClaimsTheorem`.
- `CallInv`: a turn about to call has paid for it with a claim; the turns in flight are
  counted, hence `Turns` is finite. Gives `CallsTheorem`.
- `SerialInv`: between turns the dialog refers to unspent rows only, each once, and the rows
  have the statuses the dialog implies (`AtRest`); within a turn the same holds of the outcome
  decided, without the row being spent, and of the row at the executor (`InTurn`).
  `AtMostOnce` and `RowsFollowDialog` speak of rows only; what makes them hold is that
  no row with an outcome is within reach of the dialog. Gives `OnceTheorem`,
  `ConfirmTheorem`, `RowsTheorem`, `OutcomesTheorem`.
- `OverlapInv`: a turn whose snapshot is not stale has decided what it would decide on the
  committed dialog, label, expiry and all (`Deciding`), and every row that the dialog or an
  outcome in flight refers to exists (`DialogNamed`), so that a new row is new to all of them.
  `SequentialTheorem`: a save that has not been overtaken is the turn of DialogTurns on the
  committed dialog, every other step but the save of an overtaken turn a stutter. `SameResolve` and
  `SameMessages` say that the operators are the same ones seen through the instance.
- What survives lost updates. `CompleteTheorem` (an operation at the executor has all its slots and a
  row) follows from `OverlapInv`. `OrderInv` adds that no two views of the session, the
  committed dialog and the outcomes of the turns in flight, disagree on the order of two rows
  (`Below`, `Agree`): an overtaken turn brings an older dialog back, but a task gets its row
  when it is saved as the current one, above all others, and `ResolveArranged` says that deciding reverses
  no order. Hence `OverlapRowTheorem` and `OverlapNewestTheorem`: one task for each row, and the newest
  resumed first, in any interleaving. That the prompt shows what a confirmation executes does
  *not* survive: an overtaken turn restores a gate under another prompt.

**SessionProofs**.

- `HandoffInv` adds to the three properties that an uncommitted ticket is alone and no other
  is open (`FreshInv`), that what agents and the cron job have read existed (`ReadInv`), and that
  only a turn past its INSERT has an uncommitted ticket (`AfterInsert`); without the last, a turn
  could look up a ticket and keep the mark of its own. `HandoffTypeTheorem`, `OneTicketTheorem`,
  `HandoverTheorem`, `EndedTheorem`.
- `RatingInv`: questions are numbered in the order they were asked (`Numbered`); a turn over
  whose snapshot nothing was written has seen the context as it is, a silent one no question
  (`Snapshots`); what is pending was never settled, and only what is settled was rated, once
  (`Rated`). `RatedOnce` alone does not say that a checked save answers a question still
  pending. `RatedOnceTheorem`.

**UnderstandingProofs**: `UnderstandingInv` follows the message from node to node: the
dialog is sound, the text before a node is one it can read, the label so far is one the
text or a model can give, and a label of the gate agrees with the user's words
(`Agreed`). The properties speak of the last node only. `DeliverableTheorem`, `ExecutesTheorem`, using
`ResolveSound`.

**AnsweringProofs**.

- `IdempotencyInv`: without trouble Redis answers, the one request at work holds the lock
  with its body (`Locked`), a response is there for every request that was answered, and whoever
  was let through was sent before any answer (`Unanswered`). `ReplayTheorem`,
  `OneAtATimeTheorem`, `AnsweredOnceTheorem`.
- `AnswersInv`: not only the evidence of a reply but every hit it may still quote is of a
  document in force at some time of the turn (`GroundedTurn`), and a reply that may be stored
  is about nobody (`DiscreetTurn`), hence all of the shared cache is. `GroundedTheorem`,
  `OwnContextTheorem`.
- `ToolsInv`: the mock is asked for a tool the service has declared only where the setting
  says so, and what is known of the service is what was listed, until a listing fails.
  `NoInventedFactsTheorem`.
- `LlmInv`: a call of a turn ends by the turn's deadline (`Punctual`), a memory task has dropped
  the one it inherited (`Unhurried`), and the tokens spent *with those of the calls under
  way* are below the limit and one call per task (`Frugal`). `WithinLimits` without the calls under
  way is not inductive. `WithinLimitsTheorem`.

**CustomerProofs**.

- `MemoryInv` says of every copy a loader or a task holds what `SummaryIsPrefix` says of the
  stored metadata: any of them may be written back. `SummaryTheorem` and, as an action
  property, `CursorTheorem`.
- `ProactiveInv` says that a refusal that was heard and still stands has its key (`Heard`), and where a
  barred turn may stand: nowhere from which a suggestion can be
  reached, whichever key it reads next and though a read fails (`Heeded`). `RefusalTheorem`.
- `JourneyInv`: what a turn is about to write moves on from the row it has read
  (`MovesOn`). `StageTheorem`, an action property.

**ServicesProofs**.

- `NoticesInv`: unless the mark was forgotten one delivery at most has passed it (`OneClaim`), and
  whatever is scheduled or in an inbox was committed (`OnTheWay`). `OneMessageTheorem`,
  `PushTheorem`.
- `RateInv`: `BoundedOvershoot` is inductive with its types, because it counts the clients
  between count and extend. `OvershootTheorem`.
- `KbInv`: unless one took no lock, the operations past their flushed UPDATE exclude each other, so the
  chunks a publication deletes are still all there are when it commits, and the vectors it wrote are in the
  index (`RowLock`); published documents have chunks of
  one generation, or none after a half-done publication (`Whole`); a document that is not served is
  findable as well (`Found`), since an archived one can come back; and a repair that is still clean
  has written what it has read, with nobody rebuilding (`Repairing`). `OneContentTheorem`, `FindableTheorem`.
- `CaseInv`: every transaction on a customer's cases holds rows whose priority has not fallen
  since it read them and wants no lower one, or a new row for a place nobody else has taken
  (`CopyInv`). With that, an UPDATE from a stale copy can lose references and metadata (section 3)
  but never a priority: `EscalatedTheorem` (an escalated case keeps HIGH) and the action
  property `PriorityTheorem`, both stated in this module only. They rest on the
  mapper's writing changed columns only (`Updated`).
- `ChunkInv`: `NothingLost` speaks of the passages; what will become one is of the section that is open
  (`OfSection`: the text in hand and the last paragraph, which may introduce a table), and the
  heading stack is the `Section` of the place the walk has reached. That last part is where the
  levels matter: popping the deeper headings leaves exactly the ancestors (`SectionOpens`). Below
  it stand lemmas on texts: a prefix and the rest behind an overlap cover a text
  (`CutText`), stripping drops gaps only (`StripText`), the slices of a table cover its rows
  whatever the division leaves over (`SlicesText`). `NothingLostTheorem`.
  `ProgressTheorem` adds that the walk comes nearer to its end with every step: `Advances` is a
  lexicographic variant (blocks to read, paragraphs, pieces, buffer, passages to merge), stated
  in this module only. That a descending variant means termination is the well-foundedness
  of the order, which the reader supplies. Both need Overlap below Size; a cut gains no more than the difference.

Only model-checked: the liveness properties (`StubbornUserReleased`, `RefusedRecovers`,
`OverdueIsNoticed`, `StaleLeaves`), because fairness is beyond the prover.

## 5. Not modelled

- Authentication, experiments, metrics, tracing: stateless checks, counters and output.
- The web client, deployment files, the scheduler that starts the jobs, training and evaluation scripts,
  the parsers of documents, the mem0 provider (an external service), generated documents.
- The skill registry: kinds and required slots are constants; loading and validating
  skills is start-up code.
- In modelled components: wording of replies (except which task a prompt shows), the message
  log and audit rows, agent replies and queue position, parameters of tools, questions of
  the FAQ (no life cycle), owner and resolution code of a case, the journey's log of
  signals, slots of secondary requests, the caption a table may take in place of the paragraph
  before it, credentials of a socket, the push of a savepoint.
- Hazards without a model: the refusal's wording after a FAILED row (`action_execute.py:66`), the
  order of the locks on dialog row and ticket index between a handover and a failing
  tool (`save_turn.py:278`; PostgreSQL breaks it, and `Rollback` stands for it), an offer accepted
  by two turns (`accept.py:76`), races of the web client's own state.

The models take row locks as PostgreSQL's at read committed, and Redis calls as atomic.

## 6. Plan

1. Refinement of Idempotency by an abstract register "key ↦ response", and of Notices by
   "one message, then pushes", with their proofs.
2. Composition of ChatTurn with Handoff over the reset, and of AnswerCache with
   KbPublication over the invalidation inside the publishing transaction.
3. The lock order of `save_turn.py:278` as a wait-for relation, with progress under fairness.
