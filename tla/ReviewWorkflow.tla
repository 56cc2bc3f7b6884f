--------------------------- MODULE ReviewWorkflow ---------------------------
(***************************************************************************)
(* One multi-agent review, from the request that created its row to its    *)
(* last status event.                                                      *)
(*                                                                         *)
(* ReviewService.start_review_process hands the review to Celery; four     *)
(* round tasks (initial, rebuttal, synthesis, resolution) and a report     *)
(* task then pass it on to each other, each carrying the whole history of  *)
(* the panel in its arguments (app/tasks/review_tasks.py).  When the first *)
(* task cannot be sent, the web process plays a scripted review instead    *)
(* (_run_mock_review).  The review's row, its messages and its status      *)
(* events live in PostgreSQL, where readers and the owner of the room      *)
(* reach them at any time.                                                 *)
(*                                                                         *)
(* A step is one access to the world outside the process: a query, a       *)
(* panel's answers, a publication to the broker.  Every failure such an    *)
(* access can meet is a "mishap"; a run of TLC says which kinds it lets    *)
(* happen.                                                                 *)
(***************************************************************************)
EXTENDS Integers, FiniteSets

CONSTANTS
  Persona,      \* the panelists, numbered in the order of providers.yml
  Requests,     \* the panels a request may ask for
  Slot,         \* places for task messages: one, and one per duplicate
  MaxRetries,   \* max_retries of the tasks (3 in the code)
  TokenBudget,  \* PER_REVIEW_TOKEN_BUDGET in answers, 0 when not configured
  Mishaps       \* the kinds of failure that may happen

MishapKind ==
  { "workerdb",   \* a query of a Celery worker fails
    "webdb",      \* a query of the web process fails
    "broker",     \* a publication to the broker fails
    "ambiguous",  \* a publication arrives, but its confirmation does not
    "crash",      \* a worker dies
    "webcrash",   \* the web process dies
    "registry",   \* the web process does not know the task
    "orgbudget",  \* the organisation is over its daily token budget
    "editor",     \* the report's model fails, or answers no JSON
    "deletion" }  \* the owner deletes the review's room

\* What can end a task: a mishap, a panel nobody of which answers, the budget.
Cause == MishapKind \cup {"silence", "tokens"}

Provider == {"out", "openai", "other"}   \* "out": not on the panel
Panel == [Persona -> Provider]

ASSUME WorkflowAssumption ==
  /\ Persona \subseteq Nat /\ IsFiniteSet(Persona)
  /\ Requests \subseteq Panel
  /\ Slot # {}
  /\ MaxRetries \in Nat
  /\ TokenBudget \in Nat
  /\ Mishaps \subseteq MishapKind

Round == 1..4
Report == 5            \* the stage after the last round
MockScript == 9        \* lines of _run_mock_review's conversation_script

\* What became of a panelist's turn.  An answer that fails its validation is
\* replaced by a canned one that never declines, so it counts as "speaks".
Outcome == {"error", "speaks", "declines"}
Hearing == [by : Provider, as : Outcome]
Silence == [by |-> "out", as |-> "error"]
Nobody == [p \in Persona |-> Silence]

\* A task message, or the task while a worker runs it.  The arguments are
\* stage, panel, history and charged; heard and todo are its local state.
Step == {"none", "queued", "ask", "save", "announce", "dispatch",
         "file", "share", "bill"}
Task == [step : Step, stage : 1..Report, attempt : 0..MaxRetries,
         panel : Panel,                   \* successful_panelists
         history : [Persona -> SUBSET Round], \* panel_history
         charged : Nat,                   \* answers counted by all_metrics
         heard : [Persona -> Hearing],    \* results of this turn
         todo : SUBSET Persona]           \* answers not saved yet

NewTask(stage, panel, history, charged) ==
  [step |-> "queued", stage |-> stage, attempt |-> 0, panel |-> panel,
   history |-> history, charged |-> charged, heard |-> Nobody, todo |-> {}]

FirstTask(panel) == NewTask(1, panel, [p \in Persona |-> {}], 0)
Idle == [FirstTask([p \in Persona |-> "out"]) EXCEPT !.step = "none"]

VARIABLES
  row,      \* reviews: status, current_round and where final_report is from
  said,     \* messages: the panelists' turns saved in the review room
  latest,   \* review_events: the status label a reader sees last
  posted,   \* messages: summaries in the review room and in its parent
  spent,    \* answers the model providers have charged for
  billed,   \* answers added to the organisation's daily usage
  starter,  \* where start_review_process stands
  line,     \* script lines the scripted review has played
  chain,    \* the task in each slot
  struck    \* what has kept a task, or the starter, from going on

web == <<starter, line>>
ledger == <<posted, billed>>
vars == <<row, said, latest, posted, spent, billed, starter, line, chain, struck>>

Status == {"pending", "in_progress", "completed", "failed"}
Row == [status : Status \cup {"gone"}, round : 0..4, report : {"none", "chain", "mock"}]
NoRow == [status |-> "gone", round |-> 0, report |-> "none"]
Exists == row.status # "gone"

Init ==
  /\ row = [status |-> "pending", round |-> 0, report |-> "none"]
  /\ said = {}
  /\ latest = "none"
  /\ posted = [observer |-> 0, handoff |-> 0]
  /\ spent = 0
  /\ billed = 0
  /\ starter \in [at : {"new"}, panel : Requests]
  /\ line = 0
  /\ chain = [s \in Slot |-> Idle]
  /\ struck = {}

-----------------------------------------------------------------------------
(* Writes the code guards with its own try/except: they may be lost, and   *)
(* without the row they change nothing.                                    *)

WriteRow(r, kind) ==
  \/ row' = IF Exists THEN r ELSE row
  \/ kind \in Mishaps /\ UNCHANGED row

\* A status event.  Its label is known up to what it tells the reader:
\* "starting" stands for queued, dispatched, dispatch_failed and
\* queue_unavailable, "working" for every label between those and "completed".
Log(label, kind) ==
  \/ latest' = IF Exists THEN label ELSE latest
  \/ kind \in Mishaps /\ UNCHANGED latest

Struck(kind) == struck' = struck \cup {kind}
Mishap(kind) == kind \in Mishaps /\ Struck(kind)

\* Every publication's outcome was known to its sender.
Confirmed == "ambiguous" \notin struck

\* A bound: one publication of a behaviour at most goes unconfirmed.
Unconfirmed == Confirmed /\ Mishap("ambiguous")

-----------------------------------------------------------------------------
(* ReviewService.start_review_process and _run_mock_review                 *)

Vacant(s) == chain[s].step = "none"
Put(s, t) == chain' = [chain EXCEPT ![s] = t]

Starter(from, to) ==
  /\ starter.at = from
  /\ starter' = [starter EXCEPT !.at = to]

TaskUnknown ==
  /\ Starter("new", "mock")
  /\ Mishap("registry")
  /\ Log("starting", "webdb")
  /\ UNCHANGED <<row, said, ledger, spent, line, chain>>

Queued ==
  /\ Starter("new", "delay")
  /\ Log("starting", "webdb")
  /\ UNCHANGED <<row, said, ledger, spent, line, chain, struck>>

Delay(s) ==
  /\ Vacant(s)
  /\ Put(s, FirstTask(starter.panel))
  /\ Starter("delay", "sent")
  /\ UNCHANGED <<row, said, latest, ledger, spent, line, struck>>

\* task.delay raised: the review may have been queued all the same.
DelayFails(s) ==
  /\ Starter("delay", "mock")
  /\ \/ Mishap("broker") /\ UNCHANGED chain
     \/ Unconfirmed /\ Vacant(s) /\ Put(s, FirstTask(starter.panel))
  /\ Log("starting", "webdb")
  /\ UNCHANGED <<row, said, ledger, spent, line>>

\* Slip: an event that cannot be logged counts as a dispatch that failed.
DispatchedRaises ==
  /\ \/ Starter("sent", "done") /\ Log("starting", "webdb")
     \/ Starter("sent", "mock") /\ "webdb" \in Mishaps /\ UNCHANGED latest
  /\ UNCHANGED <<row, said, ledger, spent, line, chain, struck>>

Dispatched ==
  /\ Starter("sent", "done")
  /\ Log("starting", "webdb")
  /\ UNCHANGED <<row, said, ledger, spent, line, chain, struck>>

MockBegin ==
  /\ Starter("mock", "script")
  /\ WriteRow([row EXCEPT !.status = "in_progress"], "webdb")
  /\ Log("working", "webdb")
  /\ UNCHANGED <<said, ledger, spent, line, chain, struck>>

StatusMarkers == {1, 3, MockScript}

MockSay ==
  /\ Starter("script", "script")
  /\ line < MockScript
  /\ line' = line + 1
  /\ IF line' \in StatusMarkers THEN Log("working", "webdb") ELSE UNCHANGED latest
  /\ UNCHANGED <<row, said, ledger, spent, chain, struck>>

Post(where) == [posted EXCEPT ![where] = @ + 1]

\* save_final_report, and the summary message only when it succeeded.
MockReport ==
  /\ Starter("script", "wrap")
  /\ line = MockScript
  /\ \/ /\ row' = IF Exists
                    THEN [row EXCEPT !.status = "completed", !.report = "mock"]
                    ELSE row
        /\ \/ posted' = IF Exists THEN Post("observer") ELSE posted
           \/ "webdb" \in Mishaps /\ UNCHANGED posted
     \/ "webdb" \in Mishaps /\ UNCHANGED <<row, posted>>
  /\ UNCHANGED <<said, latest, spent, billed, line, chain, struck>>

MockComplete ==
  /\ Starter("wrap", "done")
  /\ WriteRow([row EXCEPT !.status = "completed"], "webdb")
  /\ Log("completed", "webdb") \/ ("webdb" \in Mishaps /\ Log("working", "webdb"))
  /\ UNCHANGED <<said, ledger, spent, line, chain, struck>>

WebCrash ==
  /\ starter.at # "done"
  /\ starter' = [starter EXCEPT !.at = "done"]
  /\ Mishap("webcrash")
  /\ UNCHANGED <<row, said, latest, ledger, spent, line, chain>>

Serve ==
  \/ TaskUnknown \/ Queued \/ Dispatched
  \/ \E s \in Slot : Delay(s) \/ DelayFails(s)
  \/ MockBegin \/ MockSay \/ MockReport \/ MockComplete

-----------------------------------------------------------------------------
(* What a task does, whatever its round                                    *)

At(s, step) == chain[s].step = step
InRound(s) == chain[s].stage \in Round
Go(s, step) == Put(s, [chain[s] EXCEPT !.step = step])

\* Slip: the attempt is not counted.
AgainUncounted(t) == NewTask(t.stage, t.panel, t.history, t.charged)

\* The message autoretry_for sends: the same arguments, a higher attempt.
\* all_metrics is the same list object, so what a turn appended to it stays;
\* the first turn has no such argument.
Again(t) == [NewTask(t.stage, t.panel, t.history,
                     IF t.stage = 1 THEN 0 ELSE t.charged)
               EXCEPT !.attempt = t.attempt + 1]

\* The task's message in the broker again, or the end of the chain.
Retried(t) == IF t.attempt < MaxRetries THEN Again(t) ELSE Idle

\* Slip: the failure does reach the row, and the task is retried.
FailAndTell(s, why, r) ==
  /\ row' = IF Exists THEN [r EXCEPT !.status = "failed"] ELSE r
  /\ Put(s, Retried(chain[s]))
  /\ Struck(why)

\* An exception reaches the task's handler, r being the row by then.  Its
\* update_review passes a dict psycopg2 cannot adapt and so raises before it
\* writes: the row stays as it is, Ignore is never reached, and Celery
\* retries, as long as it can send.
Fail(s, why, r) ==
  /\ row' = r
  /\ \/ Put(s, Retried(chain[s])) /\ Struck(why)
     \/ "broker" \in Mishaps /\ Put(s, Idle) /\ struck' = struck \cup {why, "broker"}

FailIf(s, kind) == kind \in Mishaps /\ Fail(s, kind, row)

Crash(s) ==
  /\ ~Vacant(s)
  /\ Put(s, Idle)
  /\ Mishap("crash")
  /\ UNCHANGED <<row, said, latest, ledger, spent, web>>

-----------------------------------------------------------------------------
(* The four rounds                                                         *)

\* The panelists a round asks: the first one alone in the last round; before
\* it, everyone whose earlier turns are in the arguments.
Members(t) == {p \in Persona : t.panel[p] # "out"}
Seated(t) ==
  IF t.stage = 4 THEN {p \in Members(t) : \A q \in Members(t) : p <= q}
                 ELSE {p \in Members(t) : 1..(t.stage - 1) \subseteq t.history[p]}

\* OpenAI answers again for another provider that failed, if it is on the
\* panel itself; the turn then goes on as one of OpenAI's.
CanStandIn(t, p) == t.panel[p] = "other" /\ \E q \in Persona : t.panel[q] = "openai"
Replies(t, p) ==
  IF CanStandIn(t, p)
  THEN [by : {"other"}, as : Outcome \ {"error"}] \cup [by : {"openai"}, as : Outcome]
  ELSE [by : {t.panel[p]}, as : Outcome]
Hearings(t) == {h \in [Persona -> Hearing] :
                  \A p \in Persona :
                     h[p] \in (IF p \in Seated(t) THEN Replies(t, p) ELSE {Silence})}

Answered(h) == {p \in Persona : h[p].as # "error"}
Tokens(h) == Cardinality(Answered(h))
Declined(t) == /\ Answered(t.heard) # {}
               /\ \A p \in Answered(t.heard) : t.heard[p].as = "declines"

\* run_initial_panel_turn up to its first prompt.
Open(s) ==
  /\ At(s, "queued") /\ chain[s].stage = 1
  /\ Log("working", "workerdb")
  /\ \/ FailIf(s, "orgbudget")
     \/ Members(chain[s]) = {} /\ Fail(s, "silence", row)
     \/ /\ Members(chain[s]) # {}
        /\ WriteRow([row EXCEPT !.status = "in_progress"], "workerdb")
        /\ Go(s, "ask")
        /\ UNCHANGED struck
  /\ UNCHANGED <<said, ledger, spent, web>>

\* The panel's turns, one model call after the other; before them, the last
\* round looks for its panel and every round but the first calls
\* get_review_meta.
Ask(s) ==
  LET t == chain[s]
      silent == t.stage = 4 /\ Members(t) = {}
  IN
  /\ At(s, "ask") \/ (At(s, "queued") /\ t.stage \in 2..4)
  /\ \/ /\ ~silent
        /\ \E h \in Hearings(t) :
             /\ Put(s, [t EXCEPT !.step = "save", !.heard = h, !.todo = Answered(h)])
             /\ spent' = spent + Tokens(h)
        /\ UNCHANGED <<row, struck>>
     \/ ~silent /\ t.stage # 1 /\ FailIf(s, "workerdb") /\ UNCHANGED spent
     \/ silent /\ Fail(s, "silence", row) /\ UNCHANGED spent
  /\ UNCHANGED <<said, latest, ledger, web>>

\* Slip: an answer that cannot be saved is skipped.
SaveSwallows(s) ==
  /\ At(s, "save")
  /\ \E p \in chain[s].todo :
       /\ \A q \in chain[s].todo : p <= q
       /\ Put(s, [chain[s] EXCEPT !.todo = @ \ {p}])
       /\ \/ said' = IF Exists THEN said \cup {<<p, chain[s].stage>>} ELSE said
          \/ "workerdb" \in Mishaps /\ UNCHANGED said
  /\ UNCHANGED <<row, latest, ledger, spent, web, struck>>

\* _save_panelist_message: the insert fails without a room, or with the
\* database, which may then have committed it or not.
Save(s) ==
  /\ At(s, "save")
  /\ \E p \in chain[s].todo :
       /\ \A q \in chain[s].todo : p <= q
       /\ \/ /\ Exists
             /\ said' = said \cup {<<p, chain[s].stage>>}
             /\ Put(s, [chain[s] EXCEPT !.todo = @ \ {p}])
             /\ UNCHANGED <<row, struck>>
          \/ Exists /\ said' \in {said, said \cup {<<p, chain[s].stage>>}} /\ FailIf(s, "workerdb")
          \/ ~Exists /\ Fail(s, "deletion", row) /\ UNCHANGED said
  /\ UNCHANGED <<latest, ledger, spent, web>>

\* Slip: only the metrics of the earlier rounds are summed.
OverBudgetBefore(t) == TokenBudget # 0 /\ t.charged > TokenBudget

\* _check_review_budget raises.
OverBudget(t) == TokenBudget # 0 /\ t.charged + Tokens(t.heard) > TokenBudget

RoundRow(stage) ==
  IF stage = 1 THEN [row EXCEPT !.status = "in_progress", !.round = 1]
               ELSE [row EXCEPT !.round = stage]

\* The end of _process_turn_results, and the round's number in the row.
Close(s) ==
  /\ At(s, "save") /\ InRound(s) /\ chain[s].todo = {}
  /\ \/ OverBudget(chain[s]) /\ Fail(s, "tokens", row)
     \/ /\ ~OverBudget(chain[s])
        /\ WriteRow(RoundRow(chain[s].stage), "workerdb")
        /\ Go(s, "announce")
        /\ UNCHANGED struck
  /\ UNCHANGED <<said, latest, ledger, spent, web>>

\* Slip: the round's answers are appended where they were already counted.
AnnounceTwice(s) ==
  /\ At(s, "announce")
  /\ Put(s, [chain[s] EXCEPT !.step = "dispatch", !.charged = @ + 2 * Tokens(chain[s].heard)])
  /\ Log("working", "workerdb")
  /\ UNCHANGED <<row, said, ledger, spent, web, struck>>

\* all_metrics.append, and the event that closes the round.
Announce(s) ==
  /\ At(s, "announce")
  /\ Put(s, [chain[s] EXCEPT !.step = "dispatch", !.charged = @ + Tokens(chain[s].heard)])
  /\ Log("working", "workerdb")
  /\ UNCHANGED <<row, said, ledger, spent, web, struck>>

\* Slip: the first round asks as well whether everyone declined.
EndsDebateAtOnce(t) == t.stage = 4 \/ Declined(t)

EndsDebate(t) == t.stage = 4 \/ (t.stage \in 2..3 /\ Declined(t))

\* successful_panelists, with the provider that answered, and
\* _merge_round_outputs.
Spoke(t) == [p \in Persona |-> IF p \in Answered(t.heard) THEN t.heard[p].by ELSE "out"]
Merged(t) == [p \in Persona |-> t.history[p] \cup
                                (IF p \in Answered(t.heard) THEN {t.stage} ELSE {})]

\* Slip: the round hands on the panel it was given.
SuccessorSamePanel(t) ==
  NewTask(IF EndsDebate(t) THEN Report ELSE t.stage + 1, t.panel, Merged(t), t.charged)

Successor(t) ==
  NewTask(IF EndsDebate(t) THEN Report ELSE t.stage + 1, Spoke(t), Merged(t), t.charged)

\* Slip: the early stop returns before it dispatches the report.
SendNoReport(s, u) == Put(s, IF chain[s].stage < 4 /\ u.stage = Report THEN Idle ELSE u)

\* The next task takes this one's place.
Send(s, u) == Put(s, u)

\* The message arrives, but its confirmation does not: the client sends it
\* once more, or raises and the whole round is retried.
SendTwice(s, u) ==
  \E s2 \in Slot \ {s} :
    /\ Vacant(s2)
    /\ \E mine \in {u, Retried(chain[s])} :
         chain' = [chain EXCEPT ![s] = mine, ![s2] = u]

Dispatch(s) ==
  /\ At(s, "dispatch")
  /\ IF Declined(chain[s]) /\ chain[s].stage > 1 THEN Log("working", "workerdb")
                                                ELSE UNCHANGED latest
  /\ \/ Send(s, Successor(chain[s])) /\ UNCHANGED <<row, struck>>
     \/ FailIf(s, "broker")
     \/ SendTwice(s, Successor(chain[s])) /\ Unconfirmed /\ UNCHANGED row
  /\ UNCHANGED <<said, ledger, spent, web>>

-----------------------------------------------------------------------------
(* generate_consolidated_report                                            *)

\* The editor's answer, and get_review_meta after it.
Write(s) ==
  /\ At(s, "queued") /\ chain[s].stage = Report
  /\ \/ Go(s, "file") /\ spent' = spent + 1 /\ UNCHANGED <<row, struck>>
     \/ FailIf(s, "editor") /\ spent' \in {spent, spent + 1}
     \/ FailIf(s, "workerdb") /\ spent' = spent + 1
  /\ UNCHANGED <<said, latest, ledger, web>>

Filed == IF Exists THEN [row EXCEPT !.status = "completed", !.report = "chain"] ELSE row

\* Slip: a report that cannot be saved is logged and forgotten.
FileSwallows(s) ==
  /\ At(s, "file")
  /\ Go(s, "share")
  /\ \/ row' = Filed
     \/ "workerdb" \in Mishaps /\ UNCHANGED row
  /\ UNCHANGED <<said, latest, ledger, spent, web, struck>>

\* save_final_report; a query that fails may have been committed.
File(s) ==
  /\ At(s, "file")
  /\ \/ row' = Filed /\ Go(s, "share") /\ UNCHANGED struck
     \/ "workerdb" \in Mishaps /\ \E r \in {row, Filed} : Fail(s, "workerdb", r)
  /\ UNCHANGED <<said, latest, ledger, spent, web>>

Summaries(lossy) ==
  {[observer |-> posted.observer + i, handoff |-> posted.handoff + j] :
     i \in IF lossy THEN {0, 1} ELSE {1}, j \in IF lossy THEN {0, 1} ELSE {1}}

\* Slip: an error of the hierarchy sync reaches the task's handler.
ShareRaises(s) ==
  /\ At(s, "share")
  /\ \/ /\ posted' \in (IF Exists THEN Summaries(FALSE) ELSE {posted})
        /\ Go(s, "bill")
        /\ UNCHANGED <<row, struck>>
     \/ Exists /\ posted' = Post("observer") /\ FailIf(s, "workerdb")
  /\ UNCHANGED <<said, latest, spent, billed, web>>

\* The observer's summary and _sync_review_outcome_to_hierarchy, whose
\* failures are logged and swallowed.
Share(s) ==
  /\ At(s, "share")
  /\ posted' \in (IF Exists THEN Summaries("workerdb" \in Mishaps) ELSE {posted})
  /\ Go(s, "bill")
  /\ UNCHANGED <<row, said, latest, spent, billed, web, struck>>

Bill(s) ==
  /\ At(s, "bill")
  /\ \/ billed' = billed + chain[s].charged
     \/ "broker" \in Mishaps /\ UNCHANGED billed
  /\ Log("completed", "workerdb")
  /\ Put(s, Idle)
  /\ UNCHANGED <<row, said, posted, spent, web, struck>>

Work(s) == \/ Open(s) \/ Ask(s) \/ Save(s) \/ Close(s) \/ Announce(s) \/ Dispatch(s)
           \/ Write(s) \/ File(s) \/ Share(s) \/ Bill(s)

-----------------------------------------------------------------------------
(* Requests that reach the review meanwhile                                *)

\* get_review: a report without the status "completed" mends the status.
SyncOnRead ==
  /\ Exists /\ row.status # "completed" /\ row.report # "none"
  /\ row' = [row EXCEPT !.status = "completed"]
  /\ UNCHANGED <<said, latest, ledger, spent, web, chain, struck>>

\* delete_room takes the review, its messages and its events along.
DeleteRoom ==
  /\ Exists
  /\ Mishap("deletion")
  /\ row' = NoRow /\ said' = {} /\ latest' = "none"
  /\ UNCHANGED <<ledger, spent, web, chain>>

Settled == starter.at = "done" /\ \A s \in Slot : Vacant(s)
Rest == Settled /\ UNCHANGED vars

Next ==
  \/ Serve \/ WebCrash
  \/ \E s \in Slot : Work(s) \/ Crash(s)
  \/ SyncOnRead \/ DeleteRoom \/ Rest

\* Celery keeps workers running, and asyncio the request's handler.
Fairness == WF_vars(Serve) /\ \A s \in Slot : WF_vars(Work(s))

Spec == Init /\ [][Next]_vars /\ Fairness

-----------------------------------------------------------------------------
(* Properties                                                              *)

TypeOK ==
  /\ row \in Row
  /\ said \subseteq Persona \X Round
  /\ latest \in {"none", "starting", "working", "completed"}
  /\ posted \in [observer : Nat, handoff : Nat]
  /\ spent \in Nat /\ billed \in Nat
  /\ starter \in [at : {"new", "delay", "sent", "mock", "script", "wrap", "done"}, panel : Panel]
  /\ line \in 0..MockScript
  /\ chain \in [Slot -> Task]
  /\ struck \subseteq Cause

\* A review is worked on by one task at a time, and by none while its
\* scripted replacement plays: two would interleave their rounds.
OneLiveTask ==
  Confirmed =>
    /\ \A s1, s2 \in Slot : ~Vacant(s1) /\ ~Vacant(s2) => s1 = s2
    /\ \A s \in Slot : ~Vacant(s) => starter.at \in {"sent", "done"}

\* Whoever sits on a round's panel has spoken in every round before it, and
\* what a task says was heard is in the room for its owner to read.
PanelHasSpoken ==
  \A s \in Slot : ~Vacant(s) =>
    /\ \A p \in Members(chain[s]) :
         chain[s].stage \in Round => 1..(chain[s].stage - 1) \subseteq chain[s].history[p]
    /\ \A p \in Persona : \E n \in 0..4 : chain[s].history[p] = 1..n

HistoryWasSaid ==
  Exists => \A s \in Slot, p \in Persona : ~Vacant(s) =>
              \A r \in chain[s].history[p] : <<p, r>> \in said

\* A report rests on two rounds at least: the debate never ends on the
\* first statements, nor on a round in which nobody answered.
ReportHasBasis ==
  \A s \in Slot : ~Vacant(s) /\ chain[s].stage = Report =>
    \E p \in Persona : {1, 2} \subseteq chain[s].history[p]

\* No round and no report starts from metrics over the review's budget.
BudgetGate ==
  TokenBudget # 0 => \A s \in Slot : At(s, "queued") => chain[s].charged <= TokenBudget

\* What tasks carry as used, and what the organisation is billed for, was
\* used: retries may forget answers, never count one twice.
ChargedWasSpent ==
  /\ \A s \in Slot : chain[s].charged <= spent
  /\ Confirmed => billed <= spent

\* The readers of both rooms get one summary, however often tasks retry.
SummaryOnce == Confirmed => posted.observer <= 1 /\ posted.handoff <= 1

\* Whoever is told "completed" finds the report, unless the scripted review
\* said so (which may have lost its report).
AnnouncedHasReport ==
  Confirmed /\ latest = "completed" /\ line = 0
    => row.status = "completed" /\ row.report = "chain"

\* ReviewLifecycle, the review as its readers know it: its status, rounds,
\* turns and report never go back, whatever tasks fail and are retried.
Lifecycle == INSTANCE ReviewLifecycle
               WITH status <- row.status, round <- row.round, report <- row.report
KeepsPromise == Lifecycle!Spec

\* Retries end: no chain of tasks goes on for ever.
ChainEnds == <>[]Settled

\* A review nothing went wrong with is completed; "silence" and "tokens" are
\* a panel that did not answer and an exhausted budget.
GoesThrough == <>(struck # {} \/ (row.status = "completed" /\ row.report # "none"))

(* What the repository says, and the code does not do                      *)

\* A review whose work is over without a report reads "failed".
FailureShows == Exists /\ Settled /\ row.report = "none" => row.status = "failed"

\* A panelist's failed turn is taken over by OpenAI.
OpenAIStandsIn ==
  \A s \in Slot, p \in Persona :
    At(s, "save") /\ p \in Seated(chain[s]) /\ chain[s].heard[p].as = "error"
      => chain[s].heard[p].by = "openai"
=============================================================================
