------------------------ MODULE ReviewWorkflowProofs ------------------------
(***************************************************************************)
(* Theorems about ReviewWorkflow for any personas, panels, number of task  *)
(* slots and retries, token budget and kinds of mishap.                    *)
(***************************************************************************)
EXTENDS ReviewWorkflow, FiniteSetTheorems, TLAPS

-----------------------------------------------------------------------------
(* Types                                                                   *)

\* TypeOK alone is not inductive: a round that is announced or hands over
\* moves to the stage after its own, so it must not be the report.
StageFits ==
  \A s \in Slot : chain[s].step \in {"ask", "save", "announce", "dispatch"}
                    => chain[s].stage \in Round

TInv == TypeOK /\ StageFits

\* A panel's answers can be counted.
LEMMA TokensType == ASSUME NEW h PROVE Tokens(h) \in Nat
<1>1. IsFiniteSet(Answered(h))
  BY WorkflowAssumption, FS_Subset DEF Answered
<1>2. QED
  BY <1>1, FS_CardinalityType DEF Tokens

LEMMA NewTaskType ==
  ASSUME NEW stage \in 1..Report, NEW panel \in Panel,
         NEW history \in [Persona -> SUBSET Round], NEW charged \in Nat
  PROVE  NewTask(stage, panel, history, charged) \in Task
BY WorkflowAssumption
   DEF NewTask, Task, Step, Nobody, Silence, Hearing, Provider, Outcome

LEMMA FirstTaskType ==
  ASSUME NEW panel \in Panel PROVE FirstTask(panel) \in Task /\ FirstTask(panel).stage = 1
<1>1. [p \in Persona |-> {}] \in [Persona -> SUBSET Round] /\ 1 \in 1..Report
  BY DEF Report
<1>2. FirstTask(panel) \in Task
  BY <1>1, NewTaskType DEF FirstTask
<1>3. QED
  BY <1>2 DEF FirstTask, NewTask

LEMMA IdleType == Idle \in Task /\ Idle.step = "none" /\ Idle.stage = 1
<1>1. [p \in Persona |-> "out"] \in Panel
  BY DEF Panel, Provider
<1>2. FirstTask([p \in Persona |-> "out"]) \in Task
  BY <1>1, FirstTaskType
<1>3. QED
  BY <1>1, <1>2, FirstTaskType DEF Idle, Task, Step

\* A retried task is a task: the attempt stays within max_retries.
LEMMA RetriedType ==
  ASSUME NEW t \in Task
  PROVE  Retried(t) \in Task /\ Retried(t).step \in {"none", "queued"}
<1>1. CASE t.attempt < MaxRetries
  <2>1. NewTask(t.stage, t.panel, t.history, IF t.stage = 1 THEN 0 ELSE t.charged) \in Task
    BY NewTaskType DEF Task
  <2>2. t.attempt + 1 \in 0..MaxRetries
    BY <1>1, WorkflowAssumption DEF Task
  <2>3. Again(t) \in Task
    BY <2>1, <2>2 DEF Again, Task
  <2>4. Again(t).step = "queued"
    BY DEF Again, NewTask
  <2>5. QED
    BY <1>1, <2>3, <2>4 DEF Retried
<1>2. CASE ~(t.attempt < MaxRetries)
  BY <1>2, IdleType DEF Retried
<1>3. QED
  BY <1>1, <1>2

\* The task a round hands over to is one too.
LEMMA SuccessorType ==
  ASSUME NEW t \in Task, t.stage \in Round
  PROVE  Successor(t) \in Task /\ Successor(t).step = "queued"
<1>1. (IF EndsDebate(t) THEN Report ELSE t.stage + 1) \in 1..Report
  BY DEF Report, Round
<1>2. Spoke(t) \in Panel
  BY DEF Spoke, Panel, Provider, Task, Hearing
<1>3. Merged(t) \in [Persona -> SUBSET Round]
  BY DEF Merged, Task
<1>4. Successor(t) \in Task
  BY <1>1, <1>2, <1>3, NewTaskType DEF Successor, Task
<1>5. QED
  BY <1>4 DEF Successor, NewTask

LEMMA PutType ==
  ASSUME chain \in [Slot -> Task], NEW s \in Slot, NEW t \in Task, Put(s, t)
  PROVE  chain' \in [Slot -> Task]
BY DEF Put

\* The outcome of a step of one task: its slot holds t, the others what they held.
LEMMA PutFits ==
  ASSUME TInv, NEW s \in Slot, NEW t \in Task, Put(s, t),
         t.step \in {"ask", "save", "announce", "dispatch"} => t.stage \in Round
  PROVE  chain' \in [Slot -> Task] /\ StageFits'
<1>1. chain' \in [Slot -> Task]
  BY PutType DEF TInv, TypeOK
<1>2. StageFits'
  BY DEF TInv, TypeOK, StageFits, Put
<1>3. QED
  BY <1>1, <1>2

LEMMA FailType ==
  ASSUME TInv, NEW s \in Slot, NEW why \in Cause, NEW r \in Row, Fail(s, why, r)
  PROVE  row' \in Row /\ struck' \subseteq Cause /\ chain' \in [Slot -> Task] /\ StageFits'
<1>1. row' \in Row /\ struck' \subseteq Cause
  BY DEF Fail, Struck, TInv, TypeOK, Cause, MishapKind
<1>2. chain[s] \in Task
  BY DEF TInv, TypeOK
<1>3. CASE Put(s, Retried(chain[s]))
  BY <1>1, <1>2, <1>3, RetriedType, PutFits
<1>4. CASE Put(s, Idle)
  BY <1>1, <1>4, IdleType, PutFits
<1>5. QED
  BY <1>1, <1>3, <1>4 DEF Fail

LEMMA FailIfType ==
  ASSUME TInv, NEW s \in Slot, NEW kind \in MishapKind, FailIf(s, kind)
  PROVE  row' \in Row /\ struck' \subseteq Cause /\ chain' \in [Slot -> Task] /\ StageFits'
<1>1. kind \in Cause /\ row \in Row
  BY DEF Cause, TInv, TypeOK
<1>2. QED
  BY <1>1, FailType DEF FailIf

\* A step of a task that only moves on.
LEMMA GoType ==
  ASSUME TInv, NEW s \in Slot, NEW step \in Step, Go(s, step),
         step \in {"ask", "save", "announce", "dispatch"} => chain[s].stage \in Round
  PROVE  chain' \in [Slot -> Task] /\ StageFits'
<1> DEFINE t == [chain[s] EXCEPT !.step = step]
<1>1. chain[s] \in Task
  BY DEF TInv, TypeOK
<1>2. t \in Task /\ t.step = step /\ t.stage = chain[s].stage
  BY <1>1 DEF Task
<1>3. Put(s, t)
  BY DEF Go
<1>4. QED
  BY <1>2, <1>3, PutFits

LEMMA LogType ==
  ASSUME TypeOK, NEW label \in {"none", "starting", "working", "completed"}, NEW kind, Log(label, kind)
  PROVE  latest' \in {"none", "starting", "working", "completed"}
BY DEF Log, TypeOK

LEMMA WriteRowType ==
  ASSUME TypeOK, NEW r \in Row, NEW kind, WriteRow(r, kind)
  PROVE  row' \in Row
BY DEF WriteRow, TypeOK

\* The web process: every step of start_review_process and the script.
LEMMA ServeType == ASSUME TInv, Serve PROVE TInv'
<1> USE DEF TInv, TypeOK, Starter, ledger
<1>1. CASE TaskUnknown
  BY <1>1, LogType DEF TaskUnknown, Mishap, Struck, Cause, MishapKind, StageFits
<1>2. CASE Queued
  BY <1>2, LogType DEF Queued, StageFits
<1>3. CASE Dispatched
  BY <1>3, LogType DEF Dispatched, StageFits
<1>4. ASSUME NEW s \in Slot, Delay(s) PROVE TInv'
  <2>1. FirstTask(starter.panel) \in Task /\ FirstTask(starter.panel).stage = 1
    BY FirstTaskType
  <2>2. chain' \in [Slot -> Task] /\ StageFits'
    BY <1>4, <2>1, PutFits DEF Delay, Round
  <2>3. QED
    BY <1>4, <2>2 DEF Delay
<1>5. ASSUME NEW s \in Slot, DelayFails(s) PROVE TInv'
  <2>1. FirstTask(starter.panel) \in Task /\ FirstTask(starter.panel).stage = 1
    BY FirstTaskType
  <2>2. chain' \in [Slot -> Task] /\ StageFits'
    <3>1. CASE Put(s, FirstTask(starter.panel))
      BY <2>1, <3>1, PutFits DEF Round
    <3>2. CASE UNCHANGED chain
      BY <3>2 DEF StageFits
    <3>3. QED
      BY <1>5, <3>1, <3>2 DEF DelayFails
  <2>3. struck' \subseteq Cause
    BY <1>5 DEF DelayFails, Mishap, Unconfirmed, Struck, Cause, MishapKind
  <2>4. QED
    BY <1>5, <2>2, <2>3, LogType DEF DelayFails
<1>6. CASE MockBegin
  <2>1. [row EXCEPT !.status = "in_progress"] \in Row
    BY DEF Row, Status
  <2>2. QED
    BY <1>6, <2>1, WriteRowType, LogType DEF MockBegin, StageFits
<1>7. CASE MockSay
  <2>1. line' \in 0..MockScript
    BY <1>7 DEF MockSay, MockScript
  <2>2. QED
    BY <1>7, <2>1, LogType DEF MockSay, StageFits
<1>8. CASE MockReport
  <2>1. [row EXCEPT !.status = "completed", !.report = "mock"] \in Row
    BY DEF Row, Status
  <2>2. Post("observer") \in [observer : Nat, handoff : Nat]
    BY DEF Post
  <2>3. row' \in Row /\ posted' \in [observer : Nat, handoff : Nat]
    BY <1>8, <2>1, <2>2 DEF MockReport
  <2>4. QED
    BY <1>8, <2>3 DEF MockReport, StageFits
<1>9. CASE MockComplete
  <2>1. [row EXCEPT !.status = "completed"] \in Row
    BY DEF Row, Status
  <2>2. QED
    BY <1>9, <2>1, WriteRowType, LogType DEF MockComplete, StageFits
<1>10. QED
  BY <1>1, <1>2, <1>3, <1>4, <1>5, <1>6, <1>7, <1>8, <1>9 DEF Serve

\* The tasks: what each step leaves in its slot is a task of a fitting stage.
LEMMA WorkType == ASSUME TInv, NEW s \in Slot, Work(s) PROVE TInv'
<1> USE DEF TInv, TypeOK, ledger, web, At
<1> DEFINE t == chain[s]
<1>0. /\ t \in Task
      /\ {"silence", "deletion", "tokens", "workerdb"} \subseteq Cause
      /\ {"orgbudget", "workerdb", "broker", "editor"} \subseteq MishapKind
  BY DEF Cause, MishapKind
<1>1. CASE Open(s)
  <2>1. latest' \in {"none", "starting", "working", "completed"}
    BY <1>1, LogType DEF Open
  <2>2. /\ row' \in Row /\ struck' \subseteq Cause
        /\ chain' \in [Slot -> Task] /\ StageFits'
    <3>1. CASE FailIf(s, "orgbudget")
      BY <1>0, <3>1, FailIfType
    <3>2. CASE Fail(s, "silence", row)
      BY <1>0, <3>2, FailType
    <3>3. CASE /\ WriteRow([row EXCEPT !.status = "in_progress"], "workerdb")
               /\ Go(s, "ask") /\ UNCHANGED struck
      <4>1. [row EXCEPT !.status = "in_progress"] \in Row
        BY DEF Row, Status
      <4>2. row' \in Row
        BY <3>3, <4>1, WriteRowType
      <4>3. "ask" \in Step /\ t.stage \in Round
        BY <1>1 DEF Open, Step, Round
      <4>4. QED
        BY <3>3, <4>2, <4>3, GoType
    <3>4. QED
      BY <1>1, <3>1, <3>2, <3>3 DEF Open
  <2>3. QED
    BY <1>1, <2>1, <2>2 DEF Open
<1>2. CASE Ask(s)
  <2>0. t.stage \in Round
    <3>1. t.step = "ask" \/ t.stage \in 2..4
      BY <1>2 DEF Ask
    <3>2. t.step = "ask" => t.stage \in Round
      BY DEF StageFits
    <3>3. QED
      BY <3>1, <3>2 DEF Round
  <2>1. /\ row' \in Row /\ struck' \subseteq Cause /\ spent' \in Nat
        /\ chain' \in [Slot -> Task] /\ StageFits'
    <3>1. ASSUME NEW h \in Hearings(t),
                 Put(s, [t EXCEPT !.step = "save", !.heard = h, !.todo = Answered(h)]),
                 spent' = spent + Tokens(h), UNCHANGED <<row, struck>>
          PROVE  /\ row' \in Row /\ struck' \subseteq Cause /\ spent' \in Nat
                 /\ chain' \in [Slot -> Task] /\ StageFits'
      <4> DEFINE u == [t EXCEPT !.step = "save", !.heard = h, !.todo = Answered(h)]
      <4>1. h \in [Persona -> Hearing] /\ Answered(h) \subseteq Persona
        BY DEF Hearings, Answered
      <4>2. u \in Task /\ u.step = "save" /\ u.stage = t.stage
        BY <1>0, <4>1 DEF Task, Step
      <4>3. chain' \in [Slot -> Task] /\ StageFits'
        BY <2>0, <3>1, <4>2, PutFits
      <4>4. spent' \in Nat
        BY <3>1, TokensType
      <4>5. QED
        BY <3>1, <4>3, <4>4
    <3>2. CASE FailIf(s, "workerdb") /\ UNCHANGED spent
      BY <1>0, <3>2, FailIfType
    <3>3. CASE Fail(s, "silence", row) /\ UNCHANGED spent
      BY <1>0, <3>3, FailType
    <3>4. QED
      BY <1>2, <3>1, <3>2, <3>3 DEF Ask
  <2>2. QED
    BY <1>2, <2>1 DEF Ask
<1>3. CASE Save(s)
  <2>1. t.stage \in Round
    BY <1>3 DEF Save, StageFits
  <2>2. PICK p \in t.todo :
          \/ /\ Exists
             /\ said' = said \cup {<<p, t.stage>>}
             /\ Put(s, [t EXCEPT !.todo = @ \ {p}])
             /\ UNCHANGED <<row, struck>>
          \/ Exists /\ said' \in {said, said \cup {<<p, t.stage>>}} /\ FailIf(s, "workerdb")
          \/ ~Exists /\ Fail(s, "deletion", row) /\ UNCHANGED said
    BY <1>3 DEF Save
  <2>3. p \in Persona
    BY <1>0 DEF Task
  <2>4. said' \subseteq Persona \X Round
    BY <2>1, <2>2, <2>3
  <2>5. /\ row' \in Row /\ struck' \subseteq Cause
        /\ chain' \in [Slot -> Task] /\ StageFits'
    <3>1. CASE Put(s, [t EXCEPT !.todo = @ \ {p}]) /\ UNCHANGED <<row, struck>>
      <4> DEFINE u == [t EXCEPT !.todo = @ \ {p}]
      <4>1. u \in Task /\ u.step = t.step /\ u.stage = t.stage
        BY <1>0 DEF Task
      <4>2. QED
        BY <2>1, <3>1, <4>1, PutFits
    <3>2. CASE FailIf(s, "workerdb")
      BY <1>0, <3>2, FailIfType
    <3>3. CASE Fail(s, "deletion", row)
      BY <1>0, <3>3, FailType
    <3>4. QED
      BY <2>2, <3>1, <3>2, <3>3
  <2>6. QED
    BY <1>3, <2>4, <2>5 DEF Save
<1>4. CASE Close(s)
  <2>1. /\ row' \in Row /\ struck' \subseteq Cause
        /\ chain' \in [Slot -> Task] /\ StageFits'
    <3>1. CASE Fail(s, "tokens", row)
      BY <1>0, <3>1, FailType
    <3>2. CASE /\ WriteRow(RoundRow(t.stage), "workerdb")
               /\ Go(s, "announce") /\ UNCHANGED struck
      <4>1. t.stage \in Round
        BY <1>4 DEF Close, InRound
      <4>2. RoundRow(t.stage) \in Row
        <5>1. t.stage \in 0..4 /\ 1 \in 0..4
          BY <4>1 DEF Round
        <5>2. CASE t.stage = 1
          BY <5>1, <5>2 DEF RoundRow, Row, Status
        <5>3. CASE t.stage # 1
          BY <5>1, <5>3 DEF RoundRow, Row, Status
        <5>4. QED
          BY <5>2, <5>3
      <4>3. row' \in Row
        BY <3>2, <4>2, WriteRowType
      <4>4. "announce" \in Step
        BY DEF Step
      <4>5. QED
        BY <3>2, <4>1, <4>3, <4>4, GoType
    <3>3. QED
      BY <1>4, <3>1, <3>2 DEF Close
  <2>2. QED
    BY <1>4, <2>1 DEF Close
<1>5. CASE Announce(s)
  <2> DEFINE u == [t EXCEPT !.step = "dispatch", !.charged = @ + Tokens(t.heard)]
  <2>1. t.stage \in Round
    BY <1>5 DEF Announce, StageFits
  <2>2. t.charged + Tokens(t.heard) \in Nat
    BY <1>0, TokensType DEF Task
  <2>3. u \in Task /\ u.step = "dispatch" /\ u.stage = t.stage
    BY <1>0, <2>2 DEF Task, Step
  <2>4. chain' \in [Slot -> Task] /\ StageFits'
    BY <1>5, <2>1, <2>3, PutFits DEF Announce
  <2>5. latest' \in {"none", "starting", "working", "completed"}
    BY <1>5, LogType DEF Announce
  <2>6. QED
    BY <1>5, <2>4, <2>5 DEF Announce
<1>6. CASE Dispatch(s)
  <2>1. Successor(t) \in Task /\ Successor(t).step = "queued"
    BY <1>0, <1>6, SuccessorType DEF Dispatch, StageFits
  <2>2. latest' \in {"none", "starting", "working", "completed"}
    BY <1>6, LogType DEF Dispatch
  <2>3. /\ row' \in Row /\ struck' \subseteq Cause
        /\ chain' \in [Slot -> Task] /\ StageFits'
    <3>1. CASE Send(s, Successor(t)) /\ UNCHANGED <<row, struck>>
      BY <2>1, <3>1, PutFits DEF Send
    <3>2. CASE FailIf(s, "broker")
      BY <1>0, <3>2, FailIfType
    <3>3. CASE SendTwice(s, Successor(t)) /\ Unconfirmed /\ UNCHANGED row
      <4>1. PICK s2 \in Slot \ {s}, mine \in {Successor(t), Retried(t)} :
              chain' = [chain EXCEPT ![s] = mine, ![s2] = Successor(t)]
        BY <3>3 DEF SendTwice
      <4>2. mine \in Task /\ mine.step \in {"none", "queued"}
        BY <1>0, <2>1, <4>1, RetriedType
      <4>3. chain' \in [Slot -> Task]
        BY <2>1, <4>1, <4>2
      <4>4. StageFits'
        BY <2>1, <4>1, <4>2 DEF StageFits
      <4>5. struck' \subseteq Cause
        BY <3>3 DEF Unconfirmed, Mishap, Struck, Cause, MishapKind
      <4>6. QED
        BY <3>3, <4>3, <4>4, <4>5
    <3>4. QED
      BY <1>6, <3>1, <3>2, <3>3 DEF Dispatch
  <2>4. QED
    BY <1>6, <2>2, <2>3 DEF Dispatch
<1>7. CASE Write(s)
  <2>1. /\ row' \in Row /\ struck' \subseteq Cause /\ spent' \in Nat
        /\ chain' \in [Slot -> Task] /\ StageFits'
    <3>1. CASE Go(s, "file") /\ spent' = spent + 1 /\ UNCHANGED <<row, struck>>
      BY <3>1, GoType DEF Step
    <3>2. CASE FailIf(s, "editor") /\ spent' \in {spent, spent + 1}
      BY <1>0, <3>2, FailIfType
    <3>3. CASE FailIf(s, "workerdb") /\ spent' = spent + 1
      BY <1>0, <3>3, FailIfType
    <3>4. QED
      BY <1>7, <3>1, <3>2, <3>3 DEF Write
  <2>2. QED
    BY <1>7, <2>1 DEF Write
<1>8. CASE File(s)
  <2>1. Filed \in Row
    BY DEF Filed, Row, Status
  <2>2. /\ row' \in Row /\ struck' \subseteq Cause
        /\ chain' \in [Slot -> Task] /\ StageFits'
    <3>1. CASE row' = Filed /\ Go(s, "share") /\ UNCHANGED struck
      BY <2>1, <3>1, GoType DEF Step
    <3>2. ASSUME NEW r \in {row, Filed}, Fail(s, "workerdb", r)
          PROVE  /\ row' \in Row /\ struck' \subseteq Cause
                 /\ chain' \in [Slot -> Task] /\ StageFits'
      BY <1>0, <2>1, <3>2, FailType
    <3>3. QED
      BY <1>8, <3>1, <3>2 DEF File
  <2>3. QED
    BY <1>8, <2>2 DEF File
<1>9. CASE Share(s)
  <2>1. posted' \in [observer : Nat, handoff : Nat]
    BY <1>9 DEF Share, Summaries
  <2>2. chain' \in [Slot -> Task] /\ StageFits'
    BY <1>9, GoType DEF Share, Step
  <2>3. QED
    BY <1>9, <2>1, <2>2 DEF Share
<1>10. CASE Bill(s)
  <2>1. billed' \in Nat
    BY <1>0, <1>10 DEF Bill, Task
  <2>2. chain' \in [Slot -> Task] /\ StageFits'
    BY <1>10, IdleType, PutFits DEF Bill
  <2>3. latest' \in {"none", "starting", "working", "completed"}
    BY <1>10, LogType DEF Bill
  <2>4. QED
    BY <1>10, <2>1, <2>2, <2>3 DEF Bill
<1>11. QED
  BY <1>1, <1>2, <1>3, <1>4, <1>5, <1>6, <1>7, <1>8, <1>9, <1>10 DEF Work

LEMMA StepKeepsTInv == TInv /\ [Next]_vars => TInv'
<1> SUFFICES ASSUME TInv, [Next]_vars PROVE TInv'
  OBVIOUS
<1>1. CASE Serve
  BY <1>1, ServeType
<1>2. CASE WebCrash
  BY <1>2 DEF WebCrash, Mishap, Struck, TInv, TypeOK, StageFits, ledger, Cause, MishapKind
<1>3. ASSUME NEW s \in Slot, Work(s) PROVE TInv'
  BY <1>3, WorkType
<1>4. ASSUME NEW s \in Slot, Crash(s) PROVE TInv'
  <2>1. chain' \in [Slot -> Task] /\ StageFits'
    BY <1>4, IdleType, PutFits DEF Crash
  <2>2. QED
    BY <1>4, <2>1 DEF Crash, Mishap, Struck, TInv, TypeOK, ledger, web, Cause, MishapKind
<1>5. CASE SyncOnRead
  <2>1. [row EXCEPT !.status = "completed"] \in Row
    BY DEF TInv, TypeOK, Row, Status
  <2>2. QED
    BY <1>5, <2>1 DEF SyncOnRead, TInv, TypeOK, StageFits, ledger, web
<1>6. CASE DeleteRoom
  <2>1. NoRow \in Row
    BY DEF NoRow, Row
  <2>2. QED
    BY <1>6, <2>1
       DEF DeleteRoom, Mishap, Struck, TInv, TypeOK, StageFits, ledger, web, Cause, MishapKind
<1>7. CASE UNCHANGED vars
  BY <1>7 DEF vars, ledger, web, TInv, TypeOK, StageFits
<1>8. QED
  BY <1>1, <1>2, <1>3, <1>4, <1>5, <1>6, <1>7 DEF Next, Rest

LEMMA TypesHold == Spec => []TInv
<1>1. Init => TInv
  <2> SUFFICES ASSUME Init PROVE TInv
    OBVIOUS
  <2>1. row \in Row
    BY DEF Init, Row, Status
  <2>2. chain \in [Slot -> Task] /\ StageFits
    BY IdleType DEF Init, StageFits
  <2>3. starter \in [at : {"new", "delay", "sent", "mock", "script", "wrap", "done"}, panel : Panel]
    BY WorkflowAssumption DEF Init
  <2>4. QED
    BY <2>1, <2>2, <2>3 DEF Init, TInv, TypeOK, MockScript
<1>2. QED
  BY <1>1, StepKeepsTInv, PTL DEF Spec

\* Every variable keeps its type; in particular no task is retried more than
\* max_retries times and none is of a stage the code does not have.
THEOREM TypeCorrect == Spec => []TypeOK
<1>1. TInv => TypeOK
  BY DEF TInv
<1>2. QED
  BY <1>1, TypesHold, PTL

-----------------------------------------------------------------------------
(* One task at a time                                                      *)

NothingPosted == posted.observer = 0 /\ posted.handoff = 0

\* What has to be known of a review whose publications are all confirmed: who
\* is working on it, and that nobody who still may has published its outcome.
Alone ==
  Confirmed =>
    /\ \A s1, s2 \in Slot : ~Vacant(s1) /\ ~Vacant(s2) => s1 = s2
    /\ \A s \in Slot : ~Vacant(s) =>
         /\ starter.at \in {"sent", "done"}
         /\ billed = 0
         /\ chain[s].step # "bill" => NothingPosted
    /\ starter.at \notin {"sent", "done"} => billed = 0
    /\ starter.at \in {"new", "delay", "mock", "script"} => NothingPosted
    /\ posted.observer <= 1 /\ posted.handoff <= 1

\* A task that goes on, is retried or given up, without publishing anything,
\* leaves its slot to its continuation.
LEMMA PutAlone ==
  ASSUME TInv, Alone, NEW s \in Slot, NEW u \in Task, Put(s, u),
         ~Vacant(s), chain[s].step # "bill", u.step # "bill",
         UNCHANGED <<posted, billed, starter>>, Confirmed' => Confirmed
  PROVE  Alone'
BY DEF TInv, TypeOK, Alone, Put, Vacant, NothingPosted

LEMMA FailAlone ==
  ASSUME TInv, Alone, NEW s \in Slot, NEW why, NEW r, Fail(s, why, r),
         ~Vacant(s), chain[s].step # "bill", UNCHANGED <<posted, billed, starter>>
  PROVE  Alone'
<1>1. Confirmed' => Confirmed
  BY DEF Fail, Struck, Confirmed
<1>2. Retried(chain[s]) \in Task /\ Retried(chain[s]).step # "bill"
  BY RetriedType DEF TInv, TypeOK
<1>3. CASE Put(s, Retried(chain[s]))
  BY <1>1, <1>2, <1>3, PutAlone
<1>4. CASE Put(s, Idle)
  BY <1>1, <1>4, IdleType, PutAlone
<1>5. QED
  BY <1>3, <1>4 DEF Fail

LEMMA GoAlone ==
  ASSUME TInv, Alone, NEW s \in Slot, NEW step \in Step \ {"bill"}, Go(s, step),
         ~Vacant(s), chain[s].step # "bill", UNCHANGED <<posted, billed, starter, struck>>
  PROVE  Alone'
<1> DEFINE u == [chain[s] EXCEPT !.step = step]
<1>1. u \in Task /\ u.step = step
  BY DEF TInv, TypeOK, Task
<1>2. Put(s, u)
  BY DEF Go
<1>3. QED
  BY <1>1, <1>2, PutAlone DEF Confirmed

LEMMA ServeAlone == ASSUME TInv, Alone, Serve PROVE Alone'
<1> USE DEF TInv, TypeOK, Starter, ledger
<1>1. CASE TaskUnknown \/ Queued \/ Dispatched \/ MockBegin \/ MockSay \/ MockComplete
  BY <1>1 DEF TaskUnknown, Queued, Dispatched, MockBegin, MockSay, MockComplete,
              Mishap, Struck, Confirmed, Alone, Vacant, NothingPosted
<1>2. ASSUME NEW s \in Slot, Delay(s) PROVE Alone'
  <2>1. Confirmed => \A s1 \in Slot : Vacant(s1)
    BY <1>2 DEF Delay, Alone
  <2>2. FirstTask(starter.panel) \in Task /\ FirstTask(starter.panel).step = "queued"
    BY FirstTaskType DEF FirstTask, NewTask
  <2>3. chain' = [chain EXCEPT ![s] = FirstTask(starter.panel)]
    BY <1>2 DEF Delay, Put
  <2>4. starter'.at = "sent" /\ starter.at = "delay"
    BY <1>2 DEF Delay
  <2>5. QED
    BY <1>2, <2>1, <2>2, <2>3, <2>4 DEF Delay, Alone, Vacant, Confirmed, NothingPosted
<1>3. ASSUME NEW s \in Slot, DelayFails(s) PROVE Alone'
  <2>1. Confirmed' => Confirmed /\ UNCHANGED chain
    BY <1>3 DEF DelayFails, Unconfirmed, Mishap, Struck, Confirmed
  <2>2. starter'.at = "mock" /\ starter.at = "delay"
    BY <1>3 DEF DelayFails
  <2>3. QED
    BY <1>3, <2>1, <2>2 DEF DelayFails, Alone, Vacant, NothingPosted
<1>4. CASE MockReport
  <2>1. starter.at = "script" /\ starter'.at = "wrap"
    BY <1>4 DEF MockReport
  <2>2. NothingPosted => posted'.observer \in {0, 1} /\ posted'.handoff = 0
    BY <1>4 DEF MockReport, Post, NothingPosted
  <2>3. QED
    BY <1>4, <2>1, <2>2 DEF MockReport, Alone, Confirmed, Vacant, NothingPosted
<1>5. QED
  BY <1>1, <1>2, <1>3, <1>4 DEF Serve

\* The tasks up to the report's summaries.
LEMMA WorkAlone ==
  ASSUME TInv, Alone, NEW s \in Slot, Work(s), ~Share(s), ~Bill(s) PROVE Alone'
<1> USE DEF ledger, web, At, Vacant
<1> DEFINE t == chain[s]
<1>0. t \in Task
  BY DEF TInv, TypeOK
<1>1. CASE Open(s)
  <2>1. ~Vacant(s) /\ t.step # "bill" /\ UNCHANGED <<posted, billed, starter>>
    BY <1>1 DEF Open
  <2>2. CASE FailIf(s, "orgbudget") \/ Fail(s, "silence", row)
    BY <2>1, <2>2, FailAlone DEF FailIf
  <2>3. CASE Go(s, "ask") /\ UNCHANGED struck
    BY <2>1, <2>3, GoAlone DEF Step
  <2>4. QED
    BY <1>1, <2>2, <2>3 DEF Open
<1>2. CASE Ask(s)
  <2>1. ~Vacant(s) /\ t.step # "bill" /\ UNCHANGED <<posted, billed, starter>>
    BY <1>2 DEF Ask
  <2>2. CASE FailIf(s, "workerdb") \/ Fail(s, "silence", row)
    BY <2>1, <2>2, FailAlone DEF FailIf
  <2>3. ASSUME NEW h \in Hearings(t), UNCHANGED struck,
               Put(s, [t EXCEPT !.step = "save", !.heard = h, !.todo = Answered(h)])
        PROVE  Alone'
    <3> DEFINE u == [t EXCEPT !.step = "save", !.heard = h, !.todo = Answered(h)]
    <3>1. u \in Task /\ u.step = "save"
      BY <1>0 DEF Task, Step, Hearings, Answered
    <3>2. QED
      BY <2>1, <2>3, <3>1, PutAlone DEF Confirmed
  <2>4. QED
    BY <1>2, <2>2, <2>3 DEF Ask
<1>3. CASE Save(s)
  <2>1. ~Vacant(s) /\ t.step # "bill" /\ UNCHANGED <<posted, billed, starter>>
    BY <1>3 DEF Save
  <2>2. CASE FailIf(s, "workerdb") \/ Fail(s, "deletion", row)
    BY <2>1, <2>2, FailAlone DEF FailIf
  <2>3. ASSUME NEW p \in t.todo, UNCHANGED struck, Put(s, [t EXCEPT !.todo = @ \ {p}])
        PROVE  Alone'
    <3> DEFINE u == [t EXCEPT !.todo = @ \ {p}]
    <3>1. u \in Task /\ u.step = t.step
      BY <1>0 DEF Task
    <3>2. QED
      BY <2>1, <2>3, <3>1, PutAlone DEF Confirmed
  <2>4. QED
    BY <1>3, <2>2, <2>3 DEF Save
<1>4. CASE Close(s)
  <2>1. ~Vacant(s) /\ t.step # "bill" /\ UNCHANGED <<posted, billed, starter>>
    BY <1>4 DEF Close
  <2>2. CASE Fail(s, "tokens", row)
    BY <2>1, <2>2, FailAlone
  <2>3. CASE Go(s, "announce") /\ UNCHANGED struck
    BY <2>1, <2>3, GoAlone DEF Step
  <2>4. QED
    BY <1>4, <2>2, <2>3 DEF Close
<1>5. CASE Announce(s)
  <2> DEFINE u == [t EXCEPT !.step = "dispatch", !.charged = @ + Tokens(t.heard)]
  <2>1. t.charged + Tokens(t.heard) \in Nat
    BY <1>0, TokensType DEF Task
  <2>2. u \in Task /\ u.step = "dispatch"
    BY <1>0, <2>1 DEF Task, Step
  <2>3. QED
    BY <1>5, <2>2, PutAlone DEF Announce, Confirmed
<1>6. CASE Dispatch(s)
  <2>1. ~Vacant(s) /\ t.step # "bill" /\ UNCHANGED <<posted, billed, starter>>
    BY <1>6 DEF Dispatch
  <2>2. CASE FailIf(s, "broker")
    BY <2>1, <2>2, FailAlone DEF FailIf
  <2>3. CASE Send(s, Successor(t)) /\ UNCHANGED struck
    <3>1. Successor(t) \in Task /\ Successor(t).step = "queued"
      BY <1>0, <1>6, SuccessorType DEF Dispatch, TInv, StageFits
    <3>2. QED
      BY <2>1, <2>3, <3>1, PutAlone DEF Send, Confirmed
  <2>4. CASE Unconfirmed
    BY <2>4 DEF Unconfirmed, Mishap, Struck, Confirmed, Alone
  <2>5. QED
    BY <1>6, <2>2, <2>3, <2>4 DEF Dispatch
<1>7. CASE Write(s)
  <2>1. ~Vacant(s) /\ t.step # "bill" /\ UNCHANGED <<posted, billed, starter>>
    BY <1>7 DEF Write
  <2>2. CASE FailIf(s, "editor") \/ FailIf(s, "workerdb")
    BY <2>1, <2>2, FailAlone DEF FailIf
  <2>3. CASE Go(s, "file") /\ UNCHANGED struck
    BY <2>1, <2>3, GoAlone DEF Step
  <2>4. QED
    BY <1>7, <2>2, <2>3 DEF Write
<1>8. CASE File(s)
  <2>1. ~Vacant(s) /\ t.step # "bill" /\ UNCHANGED <<posted, billed, starter>>
    BY <1>8 DEF File
  <2>2. ASSUME NEW r \in {row, Filed}, Fail(s, "workerdb", r) PROVE Alone'
    BY <2>1, <2>2, FailAlone
  <2>3. CASE Go(s, "share") /\ UNCHANGED struck
    BY <2>1, <2>3, GoAlone DEF Step
  <2>4. QED
    BY <1>8, <2>2, <2>3 DEF File
<1>9. QED
  BY <1>1, <1>2, <1>3, <1>4, <1>5, <1>6, <1>7, <1>8 DEF Work

\* The summaries are posted and the tokens billed by whoever is alone.
LEMMA ShareAlone == ASSUME TInv, Alone, NEW s \in Slot, Share(s) PROVE Alone'
<1>1. ~Vacant(s) /\ chain[s].step = "share"
  BY DEF Share, At, Vacant
<1>2. NothingPosted => posted'.observer \in {0, 1} /\ posted'.handoff \in {0, 1}
  BY DEF Share, Summaries, NothingPosted, TInv, TypeOK
<1>3. chain' = [chain EXCEPT ![s] = [chain[s] EXCEPT !.step = "bill"]]
  BY DEF Share, Go, Put
<1>4. chain'[s].step = "bill" /\ \A s1 \in Slot \ {s} : chain'[s1] = chain[s1]
  BY <1>3 DEF TInv, TypeOK, Task
<1>5. UNCHANGED <<starter, billed, struck>>
  BY DEF Share, web
<1>6. QED
  BY <1>1, <1>2, <1>4, <1>5 DEF Alone, Confirmed, Vacant

LEMMA BillAlone == ASSUME TInv, Alone, NEW s \in Slot, Bill(s) PROVE Alone'
<1>1. ~Vacant(s)
  BY DEF Bill, At, Vacant
<1>2. chain'[s].step = "none" /\ \A s1 \in Slot \ {s} : chain'[s1] = chain[s1]
  BY IdleType DEF Bill, Put, TInv, TypeOK
<1>3. UNCHANGED <<starter, posted, struck>>
  BY DEF Bill, web
<1>4. QED
  BY <1>1, <1>2, <1>3 DEF Alone, Confirmed, Vacant, NothingPosted

LEMMA StepKeepsAlone == TInv /\ Alone /\ [Next]_vars => Alone'
<1> SUFFICES ASSUME TInv, Alone, [Next]_vars PROVE Alone'
  OBVIOUS
<1>1. CASE Serve
  BY <1>1, ServeAlone
<1>2. CASE WebCrash
  BY <1>2 DEF WebCrash, Mishap, Struck, Confirmed, Alone, Vacant, NothingPosted, ledger, TInv, TypeOK
<1>3. ASSUME NEW s \in Slot, Work(s) PROVE Alone'
  BY <1>3, WorkAlone, ShareAlone, BillAlone
<1>4. ASSUME NEW s \in Slot, Crash(s) PROVE Alone'
  <2>1. chain'[s].step = "none" /\ \A s1 \in Slot \ {s} : chain'[s1] = chain[s1]
    BY <1>4, IdleType DEF Crash, Put, TInv, TypeOK
  <2>2. QED
    BY <1>4, <2>1 DEF Crash, Mishap, Struck, Confirmed, Alone, Vacant, NothingPosted, ledger, web
<1>5. CASE SyncOnRead \/ DeleteRoom
  BY <1>5 DEF SyncOnRead, DeleteRoom, Mishap, Struck, Confirmed, Alone, Vacant, NothingPosted, ledger, web
<1>6. CASE UNCHANGED vars
  BY <1>6 DEF vars, ledger, web, Confirmed, Alone, Vacant, NothingPosted
<1>7. QED
  BY <1>1, <1>2, <1>3, <1>4, <1>5, <1>6 DEF Next, Rest

LEMMA AloneHolds == Spec => []Alone
<1>1. Init => Alone
  BY IdleType DEF Init, Alone, Vacant, NothingPosted
<1>2. QED
  BY <1>1, TypesHold, StepKeepsAlone, PTL DEF Spec

\* As long as every publication is confirmed, no two tasks work on the review
\* at a time, and none while the scripted review plays.
THEOREM OneTaskAtATime == Spec => []OneLiveTask
<1>1. Alone => OneLiveTask
  BY DEF Alone, OneLiveTask
<1>2. QED
  BY <1>1, AloneHolds, PTL

\* As long as every publication is confirmed, neither room gets a second
\* summary, however many attempts the report took.
THEOREM OneSummary == Spec => []SummaryOnce
<1>1. Alone => SummaryOnce
  BY DEF Alone, SummaryOnce
<1>2. QED
  BY <1>1, AloneHolds, PTL

-----------------------------------------------------------------------------
(* Tokens                                                                  *)

\* What a task carries, with the turn it has not added yet, is at most what
\* was spent; once the turn passed the check, it is within the budget too.
Paid(t, n) ==
  t.charged + (IF t.step \in {"save", "announce"} THEN Tokens(t.heard) ELSE 0) <= n
Allowed(t) ==
  TokenBudget # 0 =>
    t.charged + (IF t.step = "announce" THEN Tokens(t.heard) ELSE 0) <= TokenBudget

Accounts == \A s \in Slot : Paid(chain[s], spent) /\ Allowed(chain[s])

LEMMA PutAccounts ==
  ASSUME TInv, Accounts, NEW s \in Slot, NEW u \in Task, Put(s, u),
         spent' \in Nat, spent <= spent', Paid(u, spent'), Allowed(u)
  PROVE  Accounts'
<1>1. chain'[s] = u /\ \A s1 \in Slot \ {s} : chain'[s1] = chain[s1]
  BY DEF Put, TInv, TypeOK
<1>2. ASSUME NEW s1 \in Slot \ {s} PROVE Paid(chain[s1], spent')
  <2>1. chain[s1].charged \in Nat /\ Tokens(chain[s1].heard) \in Nat /\ spent \in Nat
    BY TokensType DEF TInv, TypeOK, Task
  <2>2. QED
    BY <2>1 DEF Accounts, Paid
<1>3. QED
  BY <1>1, <1>2 DEF Accounts, Paid, Allowed, Tokens, Answered

LEMMA IdleAccounts == ASSUME NEW n \in Nat PROVE Paid(Idle, n) /\ Allowed(Idle)
<1>1. Idle.charged = 0 /\ Idle.step = "none"
  BY IdleType DEF Idle, FirstTask, NewTask
<1>2. QED
  BY <1>1, WorkflowAssumption DEF Paid, Allowed

\* A retry carries no more than the attempt did.
LEMMA RetriedAccounts ==
  ASSUME NEW t \in Task, NEW n \in Nat, Paid(t, n), Allowed(t)
  PROVE  Paid(Retried(t), n) /\ Allowed(Retried(t))
<1>0. t.charged \in Nat /\ Tokens(t.heard) \in Nat
  BY TokensType DEF Task
<1>1. t.charged <= n /\ (TokenBudget # 0 => t.charged <= TokenBudget)
  BY <1>0, WorkflowAssumption DEF Paid, Allowed
<1>2. CASE t.attempt < MaxRetries
  <2>1. Retried(t).step = "queued" /\ Retried(t).charged = IF t.stage = 1 THEN 0 ELSE t.charged
    BY <1>2 DEF Retried, Again, NewTask
  <2>2. QED
    BY <1>0, <1>1, <2>1, WorkflowAssumption DEF Paid, Allowed
<1>3. CASE ~(t.attempt < MaxRetries)
  BY <1>3, IdleAccounts DEF Retried
<1>4. QED
  BY <1>2, <1>3

LEMMA FailAccounts ==
  ASSUME TInv, Accounts, NEW s \in Slot, NEW why, NEW r, Fail(s, why, r),
         spent' \in Nat, spent <= spent'
  PROVE  Accounts'
<1>1. chain[s] \in Task /\ spent \in Nat
  BY DEF TInv, TypeOK
<1>2. Paid(chain[s], spent') /\ Allowed(chain[s])
  <2>1. chain[s].charged \in Nat /\ Tokens(chain[s].heard) \in Nat
    BY <1>1, TokensType DEF Task
  <2>2. QED
    BY <1>1, <2>1 DEF Accounts, Paid
<1>3. CASE Put(s, Retried(chain[s]))
  BY <1>1, <1>2, <1>3, RetriedType, RetriedAccounts, PutAccounts
<1>4. CASE Put(s, Idle)
  BY <1>4, IdleType, IdleAccounts, PutAccounts
<1>5. QED
  BY <1>3, <1>4 DEF Fail

LEMMA GoAccounts ==
  ASSUME TInv, Accounts, NEW s \in Slot, NEW step \in Step \ {"save", "announce"}, Go(s, step),
         spent' \in Nat, spent <= spent'
  PROVE  Accounts'
<1> DEFINE t == chain[s]  u == [t EXCEPT !.step = step]
<1>1. t \in Task /\ spent \in Nat
  BY DEF TInv, TypeOK
<1>2. u \in Task /\ u.step = step /\ u.charged = t.charged
  BY <1>1 DEF Task
<1>3. t.charged \in Nat /\ Tokens(t.heard) \in Nat
  BY <1>1, TokensType DEF Task
<1>4. Paid(t, spent) /\ Allowed(t)
  BY DEF Accounts
<1>5. Paid(u, spent') /\ Allowed(u)
  BY <1>1, <1>2, <1>3, <1>4, WorkflowAssumption DEF Paid, Allowed
<1>6. Put(s, u)
  BY DEF Go
<1>7. QED
  BY <1>2, <1>5, <1>6, PutAccounts

LEMMA WorkAccounts == ASSUME TInv, Accounts, NEW s \in Slot, Work(s) PROVE Accounts'
<1> USE DEF web, At
<1> DEFINE t == chain[s]
<1>0. /\ t \in Task /\ spent \in Nat /\ t.charged \in Nat
      /\ Paid(t, spent) /\ Allowed(t)
      /\ \A h : Tokens(h) \in Nat
  BY TokensType DEF TInv, TypeOK, Task, Accounts
<1>1. CASE Open(s)
  <2>1. UNCHANGED spent
    BY <1>1 DEF Open
  <2>2. CASE FailIf(s, "orgbudget") \/ Fail(s, "silence", row)
    BY <1>0, <2>1, <2>2, FailAccounts DEF FailIf
  <2>3. CASE Go(s, "ask")
    BY <1>0, <2>1, <2>3, GoAccounts DEF Step
  <2>4. QED
    BY <1>1, <2>2, <2>3 DEF Open
<1>2. CASE Ask(s)
  <2>1. CASE (FailIf(s, "workerdb") \/ Fail(s, "silence", row)) /\ UNCHANGED spent
    BY <1>0, <2>1, FailAccounts DEF FailIf
  <2>2. ASSUME NEW h \in Hearings(t), spent' = spent + Tokens(h),
               Put(s, [t EXCEPT !.step = "save", !.heard = h, !.todo = Answered(h)])
        PROVE  Accounts'
    <3> DEFINE u == [t EXCEPT !.step = "save", !.heard = h, !.todo = Answered(h)]
    <3>1. u \in Task /\ u.step = "save" /\ u.heard = h /\ u.charged = t.charged
      BY <1>0 DEF Task, Step, Hearings, Answered
    <3>2. t.charged <= spent /\ (TokenBudget # 0 => t.charged <= TokenBudget)
      BY <1>0, WorkflowAssumption DEF Paid, Allowed
    <3>3. Tokens(h) \in Nat /\ spent' \in Nat /\ spent <= spent'
      BY <1>0, <2>2
    <3>4. Paid(u, spent') /\ Allowed(u)
      BY <1>0, <2>2, <3>1, <3>2, <3>3 DEF Paid, Allowed
    <3>5. QED
      BY <2>2, <3>1, <3>3, <3>4, PutAccounts
  <2>3. QED
    BY <1>2, <2>1, <2>2 DEF Ask
<1>3. CASE Save(s)
  <2>1. UNCHANGED spent
    BY <1>3 DEF Save
  <2>2. CASE FailIf(s, "workerdb") \/ Fail(s, "deletion", row)
    BY <1>0, <2>1, <2>2, FailAccounts DEF FailIf
  <2>3. ASSUME NEW p \in t.todo, Put(s, [t EXCEPT !.todo = @ \ {p}]) PROVE Accounts'
    <3> DEFINE u == [t EXCEPT !.todo = @ \ {p}]
    <3>1. u \in Task /\ u.step = t.step /\ u.heard = t.heard /\ u.charged = t.charged
      BY <1>0 DEF Task
    <3>2. Paid(u, spent') /\ Allowed(u)
      BY <1>0, <2>1, <3>1 DEF Paid, Allowed
    <3>3. QED
      BY <1>0, <2>1, <2>3, <3>1, <3>2, PutAccounts
  <2>4. QED
    BY <1>3, <2>2, <2>3 DEF Save
<1>4. CASE Close(s)
  <2>1. UNCHANGED spent /\ t.step = "save"
    BY <1>4 DEF Close
  <2>2. CASE Fail(s, "tokens", row)
    BY <1>0, <2>1, <2>2, FailAccounts
  <2>3. CASE ~OverBudget(t) /\ Go(s, "announce")
    <3> DEFINE u == [t EXCEPT !.step = "announce"]
    <3>1. u \in Task /\ u.step = "announce" /\ u.heard = t.heard /\ u.charged = t.charged
      BY <1>0 DEF Task, Step
    <3>2. Paid(u, spent') /\ Allowed(u)
      BY <1>0, <2>1, <2>3, <3>1, WorkflowAssumption DEF Paid, Allowed, OverBudget
    <3>3. Put(s, u)
      BY <2>3 DEF Go
    <3>4. QED
      BY <1>0, <2>1, <3>1, <3>2, <3>3, PutAccounts
  <2>4. QED
    BY <1>4, <2>2, <2>3 DEF Close
<1>5. CASE Announce(s)
  <2> DEFINE u == [t EXCEPT !.step = "dispatch", !.charged = @ + Tokens(t.heard)]
  <2>1. UNCHANGED spent /\ t.step = "announce" /\ Put(s, u)
    BY <1>5 DEF Announce
  <2>2. t.charged + Tokens(t.heard) \in Nat
    BY <1>0
  <2>3. u \in Task /\ u.step = "dispatch" /\ u.charged = t.charged + Tokens(t.heard)
    BY <1>0, <2>2 DEF Task, Step
  <2>4. Paid(u, spent') /\ Allowed(u)
    BY <1>0, <2>1, <2>2, <2>3 DEF Paid, Allowed
  <2>5. QED
    BY <1>0, <2>1, <2>3, <2>4, PutAccounts
<1>6. CASE Dispatch(s)
  <2>1. UNCHANGED spent /\ t.step = "dispatch"
    BY <1>6 DEF Dispatch
  <2>2. /\ Successor(t) \in Task /\ Successor(t).step = "queued"
        /\ Successor(t).charged = t.charged
    BY <1>0, <1>6, SuccessorType DEF Dispatch, TInv, StageFits, Successor, NewTask
  <2>3. Paid(Successor(t), spent) /\ Allowed(Successor(t))
    BY <1>0, <2>1, <2>2 DEF Paid, Allowed
  <2>4. CASE FailIf(s, "broker")
    BY <1>0, <2>1, <2>4, FailAccounts DEF FailIf
  <2>5. CASE Send(s, Successor(t))
    BY <1>0, <2>1, <2>2, <2>3, <2>5, PutAccounts DEF Send
  <2>6. CASE SendTwice(s, Successor(t))
    <3>1. PICK s2 \in Slot \ {s}, mine \in {Successor(t), Retried(t)} :
            chain' = [chain EXCEPT ![s] = mine, ![s2] = Successor(t)]
      BY <2>6 DEF SendTwice
    <3>2. Paid(mine, spent) /\ Allowed(mine)
      BY <1>0, <2>3, <3>1, RetriedAccounts
    <3>3. \A s1 \in Slot : chain'[s1] \in {chain[s1], mine, Successor(t)}
      BY <3>1 DEF TInv, TypeOK
    <3>4. QED
      BY <2>1, <2>3, <3>2, <3>3 DEF Accounts, Paid, Allowed, Tokens, Answered
  <2>7. QED
    BY <1>6, <2>4, <2>5, <2>6 DEF Dispatch
<1>7. CASE Write(s)
  <2>1. spent' \in Nat /\ spent <= spent'
    BY <1>0, <1>7 DEF Write
  <2>2. CASE FailIf(s, "editor") \/ FailIf(s, "workerdb")
    BY <2>1, <2>2, FailAccounts DEF FailIf
  <2>3. CASE Go(s, "file")
    BY <2>1, <2>3, GoAccounts DEF Step
  <2>4. QED
    BY <1>7, <2>2, <2>3 DEF Write
<1>8. CASE File(s)
  <2>1. spent' \in Nat /\ spent <= spent'
    BY <1>0, <1>8 DEF File
  <2>2. ASSUME NEW r \in {row, Filed}, Fail(s, "workerdb", r) PROVE Accounts'
    BY <2>1, <2>2, FailAccounts
  <2>3. CASE Go(s, "share")
    BY <2>1, <2>3, GoAccounts DEF Step
  <2>4. QED
    BY <1>8, <2>2, <2>3 DEF File
<1>9. CASE Share(s)
  BY <1>0, <1>9, GoAccounts DEF Share, Step
<1>10. CASE Bill(s)
  BY <1>0, <1>10, IdleType, IdleAccounts, PutAccounts DEF Bill
<1>11. QED
  BY <1>1, <1>2, <1>3, <1>4, <1>5, <1>6, <1>7, <1>8, <1>9, <1>10 DEF Work

LEMMA StepKeepsAccounts == TInv /\ Accounts /\ [Next]_vars => Accounts'
<1> SUFFICES ASSUME TInv, Accounts, [Next]_vars PROVE Accounts'
  OBVIOUS
<1> USE DEF web, ledger
<1>0. \A n \in Nat : Paid(Idle, n) /\ Allowed(Idle)
  BY IdleAccounts
<1>1. CASE UNCHANGED <<chain, spent>>
  BY <1>1 DEF Accounts, Paid, Allowed, Tokens, Answered
<1>2. ASSUME NEW s \in Slot, UNCHANGED spent, Put(s, FirstTask(starter.panel)) PROVE Accounts'
  <2>1. FirstTask(starter.panel) \in Task
    BY FirstTaskType DEF TInv, TypeOK
  <2>2. FirstTask(starter.panel).charged = 0 /\ FirstTask(starter.panel).step = "queued"
    BY DEF FirstTask, NewTask
  <2>3. spent \in Nat
    BY DEF TInv, TypeOK
  <2>4. Paid(FirstTask(starter.panel), spent') /\ Allowed(FirstTask(starter.panel))
    BY <1>2, <2>2, <2>3, WorkflowAssumption DEF Paid, Allowed
  <2>5. QED
    BY <1>2, <2>1, <2>3, <2>4, PutAccounts
<1>3. CASE Serve
  BY <1>1, <1>2, <1>3
     DEF Serve, TaskUnknown, Queued, Delay, DelayFails, Dispatched, MockBegin, MockSay,
         MockReport, MockComplete
<1>4. CASE WebCrash \/ SyncOnRead \/ DeleteRoom \/ UNCHANGED vars
  BY <1>1, <1>4 DEF WebCrash, SyncOnRead, DeleteRoom, vars
<1>5. ASSUME NEW s \in Slot, Work(s) PROVE Accounts'
  BY <1>5, WorkAccounts
<1>6. ASSUME NEW s \in Slot, Crash(s) PROVE Accounts'
  BY <1>0, <1>6, IdleType, PutAccounts DEF Crash, TInv, TypeOK
<1>7. QED
  BY <1>3, <1>4, <1>5, <1>6 DEF Next, Rest

\* The bill is written once, by the task that is then alone.
BillPaid == Confirmed => billed <= spent

LEMMA StepKeepsBillPaid == TInv /\ Alone /\ Accounts /\ BillPaid /\ [Next]_vars => BillPaid'
<1> SUFFICES ASSUME TInv, Alone, Accounts, BillPaid, [Next]_vars PROVE BillPaid'
  OBVIOUS
<1> USE DEF web, ledger
<1>0. spent \in Nat /\ billed \in Nat
  BY DEF TInv, TypeOK
<1>1. Confirmed' => Confirmed
  BY DEF Next, Rest, vars, Serve, TaskUnknown, Queued, Delay, DelayFails, Dispatched, MockBegin,
         MockSay, MockReport, MockComplete, WebCrash, Crash, Work, Open, Ask, Save, Close, Announce,
         Dispatch, Write, File, Share, Bill, SyncOnRead, DeleteRoom, Fail, FailIf, Struck, Mishap,
         Unconfirmed, Confirmed
<1>2. CASE UNCHANGED billed /\ spent' \in Nat /\ spent <= spent'
  BY <1>0, <1>1, <1>2 DEF BillPaid
<1>3. ASSUME NEW s \in Slot, Bill(s) PROVE BillPaid'
  <2>1. ~Vacant(s) /\ UNCHANGED spent
    BY <1>3 DEF Bill, At, Vacant
  <2>2. chain[s].charged \in Nat /\ chain[s].charged <= spent
    BY <1>0, <1>3, TokensType DEF Bill, At, Accounts, Paid, TInv, TypeOK, Task
  <2>3. Confirmed => billed = 0
    BY <2>1 DEF Alone
  <2>4. QED
    BY <1>0, <1>1, <1>3, <2>1, <2>2, <2>3 DEF Bill, BillPaid
<1>4. ASSUME NEW s \in Slot, Work(s), ~Bill(s) PROVE BillPaid'
  <2>1. CASE Ask(s)
    <3>1. \A h : spent + Tokens(h) \in Nat /\ spent <= spent + Tokens(h)
      <4> TAKE h
      <4>1. Tokens(h) \in Nat
        BY TokensType
      <4>2. QED
        BY <1>0, <4>1
    <3>2. UNCHANGED billed
      BY <2>1 DEF Ask
    <3>3. UNCHANGED spent \/ \E h : spent' = spent + Tokens(h)
      BY <2>1 DEF Ask
    <3>4. QED
      BY <1>0, <1>2, <3>1, <3>2, <3>3
  <2>2. CASE Write(s)
    BY <1>0, <1>2, <2>2 DEF Write
  <2>3. CASE UNCHANGED <<billed, spent>>
    BY <1>0, <1>2, <2>3
  <2>4. QED
    BY <1>4, <2>1, <2>2, <2>3 DEF Work, Open, Save, Close, Announce, Dispatch, File, Share
<1>5. CASE Serve \/ WebCrash \/ SyncOnRead \/ DeleteRoom \/ UNCHANGED vars
  <2>1. UNCHANGED <<billed, spent>>
    BY <1>5 DEF Serve, TaskUnknown, Queued, Delay, DelayFails, Dispatched, MockBegin, MockSay,
                MockReport, MockComplete, WebCrash, SyncOnRead, DeleteRoom, vars
  <2>2. QED
    BY <1>0, <1>2, <2>1
<1>6. ASSUME NEW s \in Slot, Crash(s) PROVE BillPaid'
  BY <1>0, <1>2, <1>6 DEF Crash
<1>7. QED
  BY <1>3, <1>4, <1>5, <1>6 DEF Next, Rest

LEMMA AccountsHold == Spec => [](Accounts /\ BillPaid)
<1>1. Init => Accounts /\ BillPaid
  <2>1. Paid(Idle, 0) /\ Allowed(Idle)
    BY IdleAccounts
  <2>2. ASSUME Init PROVE spent = 0 /\ billed = 0 /\ \A s \in Slot : chain[s] = Idle
    BY <2>2 DEF Init
  <2>3. ASSUME Init, NEW s \in Slot PROVE Paid(chain[s], spent) /\ Allowed(chain[s])
    <3>1. chain[s] = Idle /\ spent = 0
      BY <2>2, <2>3
    <3>2. QED
      BY <2>1, <3>1
  <2>4. QED
    BY <2>2, <2>3 DEF Accounts, BillPaid
<1>2. QED
  BY <1>1, TypesHold, AloneHolds, StepKeepsAccounts, StepKeepsBillPaid, PTL DEF Spec

\* No retry, stand-in or duplicate makes a task carry more answers than were
\* spent, nor, with confirmed publications, the organisation pay for more.
THEOREM NothingChargedTwice == Spec => []ChargedWasSpent
<1>1. TInv /\ Accounts /\ BillPaid => ChargedWasSpent
  <2> SUFFICES ASSUME TInv, Accounts, BillPaid, NEW s \in Slot PROVE chain[s].charged <= spent
    BY DEF ChargedWasSpent, BillPaid
  <2>1. chain[s].charged \in Nat /\ Tokens(chain[s].heard) \in Nat /\ spent \in Nat
    BY TokensType DEF TInv, TypeOK, Task
  <2>2. QED
    BY <2>1 DEF Accounts, Paid
<1>2. QED
  BY <1>1, TypesHold, AccountsHold, PTL

\* No round, report or retry is queued with metrics over the token budget.
THEOREM BudgetIsAGate == Spec => []BudgetGate
<1>1. TInv /\ Accounts => BudgetGate
  <2> SUFFICES ASSUME TInv, Accounts, TokenBudget # 0, NEW s \in Slot, At(s, "queued")
               PROVE  chain[s].charged <= TokenBudget
    BY DEF BudgetGate
  <2>1. chain[s].charged \in Nat
    BY DEF TInv, TypeOK, Task
  <2>2. QED
    BY <2>1 DEF Accounts, Allowed, At
<1>2. QED
  BY <1>1, TypesHold, AccountsHold, PTL

-----------------------------------------------------------------------------
(* The debate                                                              *)

\* What a task's arguments tell of the debate: everyone's turns are the first
\* few rounds, and all the rounds before this one for who sits on the panel;
\* a report comes after somebody's two.  While a round runs, those who
\* answered are of its panel; only a report is filed.
Turning == {"save", "announce", "dispatch"}
Filing == {"file", "share", "bill"}
Argued(t) ==
  /\ \A p \in Persona : \E n \in 0..(t.stage - 1) : t.history[p] = 1..n
  /\ t.stage \in Round => \A p \in Members(t) : t.history[p] = 1..(t.stage - 1)
  /\ t.stage = Report => \E p \in Persona : {1, 2} \subseteq t.history[p]
  /\ t.step \in Turning => /\ t.todo \subseteq Answered(t.heard)
                           /\ Answered(t.heard) \subseteq Members(t)
                           /\ t.stage = 4 => Members(t) # {}
  /\ t.step \in {"announce", "dispatch"} => t.todo = {}
  /\ t.step \in Filing => t.stage = Report

\* The turns of the history, and those of this round that are saved by now,
\* are among the room's turns.
Recorded(t, turns) ==
  /\ \A p \in Persona : \A r \in t.history[p] : <<p, r>> \in turns
  /\ t.step \in Turning => \A p \in Answered(t.heard) \ t.todo : <<p, t.stage>> \in turns

Debate ==
  \A s \in Slot : ~Vacant(s) => Argued(chain[s]) /\ (Exists => Recorded(chain[s], said))

\* A review that is there was there before, and no turn of it is lost.
TurnsStay == Exists' => Exists /\ said \subseteq said'

LEMMA RecordedStays ==
  ASSUME NEW t, NEW turns, NEW more, turns \subseteq more, Recorded(t, turns)
  PROVE  Recorded(t, more)
BY DEF Recorded

LEMMA PutDebate ==
  ASSUME TInv, Debate, TurnsStay, NEW s \in Slot, NEW u \in Task, Put(s, u),
         u.step # "none" => Argued(u) /\ (Exists' => Recorded(u, said'))
  PROVE  Debate'
<1>1. chain'[s] = u /\ \A s1 \in Slot \ {s} : chain'[s1] = chain[s1]
  BY DEF Put, TInv, TypeOK
<1>2. ASSUME NEW s1 \in Slot, chain'[s1].step # "none"
      PROVE  Argued(chain'[s1]) /\ (Exists' => Recorded(chain'[s1], said'))
  <2>1. CASE s1 = s
    BY <1>1, <1>2, <2>1
  <2>2. CASE s1 # s
    <3>1. chain'[s1] = chain[s1] /\ ~Vacant(s1)
      BY <1>1, <1>2, <2>2 DEF Vacant
    <3>2. Argued(chain[s1]) /\ (Exists => Recorded(chain[s1], said))
      BY <3>1 DEF Debate
    <3>3. Exists' => Recorded(chain[s1], said')
      BY <3>2, RecordedStays DEF TurnsStay
    <3>4. QED
      BY <3>1, <3>2, <3>3
  <2>3. QED
    BY <2>1, <2>2
<1>3. QED
  BY <1>2 DEF Debate, Vacant, Argued, Recorded, Members, Answered

LEMMA FirstArgued ==
  ASSUME NEW panel \in Panel, NEW turns
  PROVE  Argued(FirstTask(panel)) /\ Recorded(FirstTask(panel), turns)
<1> DEFINE t == FirstTask(panel)
<1>1. t.step = "queued" /\ t.stage = 1 /\ \A p \in Persona : t.history[p] = {}
  BY DEF FirstTask, NewTask
<1>2. 1..0 = {} /\ 0 \in 0..(1 - 1) /\ 1..(1 - 1) = {}
  OBVIOUS
<1>3. QED
  BY <1>1, <1>2 DEF Argued, Recorded, Members, Turning, Filing, Report

LEMMA RetriedArgued ==
  ASSUME NEW t \in Task, NEW turns, Argued(t)
  PROVE  /\ Retried(t).step # "none" => Argued(Retried(t))
         /\ Retried(t).step # "none" /\ Recorded(t, turns) => Recorded(Retried(t), turns)
<1>1. CASE t.attempt < MaxRetries
  <2>1. /\ Retried(t).step = "queued" /\ Retried(t).stage = t.stage
        /\ Retried(t).panel = t.panel /\ Retried(t).history = t.history
    BY <1>1 DEF Retried, Again, NewTask
  <2>2. QED
    BY <2>1 DEF Argued, Recorded, Members, Turning, Filing
<1>2. CASE ~(t.attempt < MaxRetries)
  BY <1>2, IdleType DEF Retried
<1>3. QED
  BY <1>1, <1>2

LEMMA FailDebate ==
  ASSUME TInv, Debate, TurnsStay, NEW s \in Slot, NEW why, NEW r, Fail(s, why, r), ~Vacant(s)
  PROVE  Debate'
<1>1. chain[s] \in Task
  BY DEF TInv, TypeOK
<1>2. Argued(chain[s]) /\ (Exists' => Recorded(chain[s], said'))
  BY RecordedStays DEF Debate, TurnsStay
<1>3. CASE Put(s, Retried(chain[s]))
  BY <1>1, <1>2, <1>3, RetriedType, RetriedArgued, PutDebate
<1>4. CASE Put(s, Idle)
  BY <1>4, IdleType, PutDebate
<1>5. QED
  BY <1>3, <1>4 DEF Fail

\* A task that moves on within its stage, having saved what it announces.
LEMMA GoDebate ==
  ASSUME TInv, Debate, TurnsStay, NEW s \in Slot, NEW step \in Step, Go(s, step), ~Vacant(s),
         step \in Turning => chain[s].step \in Turning,
         step \in {"announce", "dispatch"} => chain[s].todo = {},
         step \in Filing => chain[s].stage = Report
  PROVE  Debate'
<1> DEFINE t == chain[s]  u == [t EXCEPT !.step = step]
<1>1. t \in Task /\ Argued(t) /\ (Exists' => Recorded(t, said'))
  BY RecordedStays DEF TInv, TypeOK, Debate, TurnsStay
<1>2. /\ u \in Task /\ u.step = step /\ u.stage = t.stage /\ u.panel = t.panel
      /\ u.history = t.history /\ u.heard = t.heard /\ u.todo = t.todo
  BY <1>1 DEF Task
<1>3. Argued(u) /\ (Exists' => Recorded(u, said'))
  BY <1>1, <1>2 DEF Argued, Recorded, Members, Turning, Filing
<1>4. QED
  BY <1>2, <1>3, PutDebate DEF Go

\* Only those answer who were asked, and only the panel is.
LEMMA AnsweredSeated ==
  ASSUME NEW t \in Task, NEW h \in Hearings(t)
  PROVE  Answered(h) \subseteq Members(t)
<1>1. ASSUME NEW p \in Answered(h) PROVE p \in Seated(t)
  BY <1>1 DEF Answered, Hearings, Silence
<1>2. QED
  BY <1>1 DEF Seated

\* What a round hands over tells the debate with its own turns in it.
LEMMA SuccessorArgued ==
  ASSUME NEW t \in Task, t.stage \in Round, t.step = "dispatch", Argued(t)
  PROVE  Argued(Successor(t))
<1> DEFINE u == Successor(t)  k == t.stage
<1>0. k \in 1..4 /\ t.history \in [Persona -> SUBSET Round]
  BY DEF Round, Task
<1>1. /\ u.step = "queued" /\ u.history = Merged(t) /\ u.panel = Spoke(t)
      /\ u.stage = IF EndsDebate(t) THEN 5 ELSE k + 1
  BY DEF Successor, NewTask, Report
<1>2. \A p \in Answered(t.heard) : u.history[p] = 1..k
  <2> SUFFICES ASSUME NEW p \in Answered(t.heard) PROVE u.history[p] = 1..k
    OBVIOUS
  <2>1. p \in Persona /\ t.history[p] = 1..(k - 1)
    BY DEF Argued, Turning, Members
  <2>2. u.history[p] = (1..(k - 1)) \cup {k}
    BY <1>1, <2>1 DEF Merged
  <2>3. QED
    BY <1>0, <2>2
<1>3. \A p \in Persona \ Answered(t.heard) : u.history[p] = t.history[p]
  BY <1>1 DEF Merged
<1>4. u.stage \in 2..5 /\ k <= u.stage - 1 /\ (u.stage \in Round => u.stage - 1 = k)
  BY <1>0, <1>1 DEF EndsDebate, Round
<1>5. \A p \in Persona : \E n \in 0..(u.stage - 1) : u.history[p] = 1..n
  <2> SUFFICES ASSUME NEW p \in Persona PROVE \E n \in 0..(u.stage - 1) : u.history[p] = 1..n
    OBVIOUS
  <2>1. CASE p \in Answered(t.heard)
    <3>1. k \in 0..(u.stage - 1)
      BY <1>0, <1>4
    <3>2. QED
      BY <1>2, <2>1, <3>1
  <2>2. CASE p \notin Answered(t.heard)
    <3>1. PICK n \in 0..(k - 1) : t.history[p] = 1..n
      BY DEF Argued
    <3>2. n \in 0..(u.stage - 1)
      BY <1>0, <1>4, <3>1
    <3>3. QED
      BY <1>3, <2>2, <3>1, <3>2
  <2>3. QED
    BY <2>1, <2>2
<1>6. u.stage \in Round => \A p \in Members(u) : u.history[p] = 1..(u.stage - 1)
  <2>1. Members(u) \subseteq Answered(t.heard)
    BY <1>1 DEF Members, Spoke
  <2>2. QED
    BY <1>2, <1>4, <2>1
<1>7. u.stage = Report => \E p \in Persona : {1, 2} \subseteq u.history[p]
  <2> SUFFICES ASSUME u.stage = Report PROVE \E p \in Persona : {1, 2} \subseteq u.history[p]
    OBVIOUS
  <2>1. EndsDebate(t)
    BY <1>0, <1>1 DEF EndsDebate, Report
  <2>2. CASE k = 4
    <3>1. PICK p \in Members(t) : TRUE
      BY <2>2 DEF Argued, Turning
    <3>2. p \in Persona /\ t.history[p] = 1..(k - 1)
      BY <3>1 DEF Argued, Members, Filing
    <3>3. t.history[p] \subseteq u.history[p]
      BY <1>1, <3>2 DEF Merged
    <3>4. {1, 2} \subseteq 1..(k - 1)
      BY <2>2
    <3>5. QED
      BY <3>2, <3>3, <3>4
  <2>3. CASE k \in 2..3 /\ Declined(t)
    <3>1. PICK p \in Answered(t.heard) : TRUE
      BY <2>3 DEF Declined
    <3>2. p \in Persona /\ u.history[p] = 1..k
      BY <1>2, <3>1 DEF Answered
    <3>3. {1, 2} \subseteq 1..k
      BY <2>3
    <3>4. QED
      BY <3>2, <3>3
  <2>4. QED
    BY <2>1, <2>2, <2>3 DEF EndsDebate
<1>8. QED
  BY <1>1, <1>5, <1>6, <1>7 DEF Argued, Turning, Filing

LEMMA SuccessorRecorded ==
  ASSUME NEW t \in Task, t.stage \in Round, t.step = "dispatch", Argued(t),
         NEW turns, Recorded(t, turns)
  PROVE  Recorded(Successor(t), turns)
<1> DEFINE u == Successor(t)
<1>1. u.step = "queued" /\ u.history = Merged(t)
  BY DEF Successor, NewTask
<1>2. ASSUME NEW p \in Persona, NEW r \in u.history[p] PROVE <<p, r>> \in turns
  <2>1. r \in t.history[p] \/ (p \in Answered(t.heard) /\ r = t.stage)
    BY <1>1, <1>2 DEF Merged
  <2>2. p \in Answered(t.heard) => p \in Answered(t.heard) \ t.todo
    BY DEF Argued
  <2>3. QED
    BY <2>1, <2>2 DEF Recorded, Turning
<1>3. QED
  BY <1>1, <1>2 DEF Recorded, Turning

LEMMA WorkDebate == ASSUME TInv, Debate, NEW s \in Slot, Work(s) PROVE Debate'
<1> USE DEF web, ledger, At, Vacant
<1> DEFINE t == chain[s]
<1>0. t \in Task /\ (~Vacant(s) => Argued(t) /\ (Exists => Recorded(t, said)))
  BY DEF TInv, TypeOK, Debate
<1>1. CASE Open(s)
  <2>1. ~Vacant(s)
    BY <1>1 DEF Open
  <2>2. CASE FailIf(s, "orgbudget") \/ Fail(s, "silence", row)
    <3>1. TurnsStay
      BY <1>1, <2>2 DEF Open, FailIf, Fail, TurnsStay, Exists
    <3>2. QED
      BY <2>1, <2>2, <3>1, FailDebate DEF FailIf
  <2>3. CASE WriteRow([row EXCEPT !.status = "in_progress"], "workerdb") /\ Go(s, "ask")
    <3>1. TurnsStay
      BY <1>1, <2>3 DEF Open, WriteRow, TurnsStay, Exists
    <3>2. QED
      BY <2>1, <2>3, <3>1, GoDebate DEF Step, Turning, Filing
  <2>4. QED
    BY <1>1, <2>2, <2>3 DEF Open
<1>2. CASE Ask(s)
  <2>1. ~Vacant(s)
    BY <1>2 DEF Ask
  <2>2. CASE FailIf(s, "workerdb") \/ Fail(s, "silence", row)
    <3>1. TurnsStay
      BY <1>2, <2>2 DEF Ask, FailIf, Fail, TurnsStay, Exists
    <3>2. QED
      BY <2>1, <2>2, <3>1, FailDebate DEF FailIf
  <2>3. ASSUME NEW h \in Hearings(t), UNCHANGED <<row, said>>,
               ~(t.stage = 4 /\ Members(t) = {}),
               Put(s, [t EXCEPT !.step = "save", !.heard = h, !.todo = Answered(h)])
        PROVE  Debate'
    <3> DEFINE u == [t EXCEPT !.step = "save", !.heard = h, !.todo = Answered(h)]
    <3>1. /\ u \in Task /\ u.step = "save" /\ u.stage = t.stage /\ u.panel = t.panel
          /\ u.history = t.history /\ u.heard = h /\ u.todo = Answered(h)
      BY <1>0 DEF Task, Step, Hearings, Answered
    <3>2. Answered(h) \subseteq Members(t)
      BY <1>0, AnsweredSeated
    <3>3. Argued(u)
      BY <1>0, <2>1, <2>3, <3>1, <3>2 DEF Argued, Members, Filing
    <3>4. Exists' => Recorded(u, said')
      BY <1>0, <2>1, <2>3, <3>1 DEF Recorded, Exists
    <3>5. TurnsStay
      BY <2>3 DEF TurnsStay, Exists
    <3>6. QED
      BY <2>3, <3>1, <3>3, <3>4, <3>5, PutDebate
  <2>4. QED
    BY <1>2, <2>2, <2>3 DEF Ask
<1>3. CASE Save(s)
  <2>1. ~Vacant(s)
    BY <1>3 DEF Save
  <2>2. CASE (FailIf(s, "workerdb") \/ Fail(s, "deletion", row)) /\ said \subseteq said'
    <3>1. TurnsStay
      BY <2>2 DEF FailIf, Fail, TurnsStay, Exists
    <3>2. QED
      BY <2>1, <2>2, <3>1, FailDebate DEF FailIf
  <2>3. ASSUME NEW p \in t.todo, Put(s, [t EXCEPT !.todo = @ \ {p}]),
               said' = said \cup {<<p, t.stage>>}, UNCHANGED row
        PROVE  Debate'
    <3> DEFINE u == [t EXCEPT !.todo = @ \ {p}]
    <3>1. /\ u \in Task /\ u.step = t.step /\ u.stage = t.stage /\ u.panel = t.panel
          /\ u.history = t.history /\ u.heard = t.heard /\ u.todo = t.todo \ {p}
      BY <1>0 DEF Task
    <3>2. t.step = "save"
      BY <1>3 DEF Save
    <3>3. Argued(u)
      BY <1>0, <2>1, <3>1, <3>2 DEF Argued, Members, Filing
    <3>4. TurnsStay
      BY <2>3 DEF TurnsStay, Exists
    <3>5. Exists' => Recorded(t, said')
      BY <1>0, <2>1, <3>4, RecordedStays DEF TurnsStay
    <3>6. Exists' => Recorded(u, said')
      BY <2>3, <3>1, <3>5 DEF Recorded
    <3>7. QED
      BY <2>3, <3>1, <3>3, <3>4, <3>6, PutDebate
  <2>4. QED
    BY <1>3, <2>2, <2>3 DEF Save
<1>4. CASE Close(s)
  <2>1. t.step = "save" /\ t.todo = {}
    BY <1>4 DEF Close
  <2>2. CASE Fail(s, "tokens", row)
    <3>1. TurnsStay
      BY <1>4, <2>2 DEF Close, Fail, TurnsStay, Exists
    <3>2. QED
      BY <2>1, <2>2, <3>1, FailDebate
  <2>3. CASE WriteRow(RoundRow(t.stage), "workerdb") /\ Go(s, "announce")
    <3>1. Exists' => Exists
      BY <2>3 DEF WriteRow, Exists
    <3>2. TurnsStay
      BY <1>4, <3>1 DEF Close, TurnsStay
    <3>3. QED
      BY <2>1, <2>3, <3>2, GoDebate DEF Step, Turning, Filing
  <2>4. QED
    BY <1>4, <2>2, <2>3 DEF Close
<1>5. CASE Announce(s)
  <2> DEFINE u == [t EXCEPT !.step = "dispatch", !.charged = @ + Tokens(t.heard)]
  <2>1. t.step = "announce" /\ UNCHANGED <<row, said>> /\ Put(s, u)
    BY <1>5 DEF Announce
  <2>2. t.charged + Tokens(t.heard) \in Nat
    BY <1>0, TokensType DEF Task
  <2>3. /\ u \in Task /\ u.step = "dispatch" /\ u.stage = t.stage /\ u.panel = t.panel
        /\ u.history = t.history /\ u.heard = t.heard /\ u.todo = t.todo
    BY <1>0, <2>2 DEF Task, Step
  <2>4. Argued(u)
    BY <1>0, <2>1, <2>3 DEF Argued, Members, Turning, Filing
  <2>5. Exists' => Recorded(u, said')
    BY <1>0, <2>1, <2>3 DEF Recorded, Turning, Exists
  <2>6. TurnsStay
    BY <2>1 DEF TurnsStay, Exists
  <2>7. QED
    BY <2>1, <2>3, <2>4, <2>5, <2>6, PutDebate
<1>6. CASE Dispatch(s)
  <2>1. t.step = "dispatch" /\ t.stage \in Round /\ UNCHANGED said
    BY <1>6 DEF Dispatch, TInv, StageFits
  <2>2. TurnsStay
    BY <1>6 DEF Dispatch, FailIf, Fail, TurnsStay, Exists
  <2>3. Successor(t) \in Task /\ Argued(Successor(t))
    BY <1>0, <2>1, SuccessorType, SuccessorArgued
  <2>4. Exists' => Recorded(Successor(t), said')
    BY <1>0, <2>1, <2>2, SuccessorRecorded DEF TurnsStay
  <2>5. CASE FailIf(s, "broker")
    BY <2>1, <2>2, <2>5, FailDebate DEF FailIf
  <2>6. CASE Send(s, Successor(t))
    BY <2>2, <2>3, <2>4, <2>6, PutDebate DEF Send
  <2>7. CASE SendTwice(s, Successor(t))
    <3>1. PICK s2 \in Slot \ {s}, mine \in {Successor(t), Retried(t)} :
            chain' = [chain EXCEPT ![s] = mine, ![s2] = Successor(t)]
      BY <2>7 DEF SendTwice
    <3>2. mine.step # "none" => Argued(mine) /\ (Exists' => Recorded(mine, said'))
      BY <1>0, <2>1, <2>2, <2>3, <2>4, <3>1, RetriedArgued DEF TurnsStay
    <3>3. ASSUME NEW s1 \in Slot, chain'[s1].step # "none"
          PROVE  Argued(chain'[s1]) /\ (Exists' => Recorded(chain'[s1], said'))
      <4>1. chain'[s1] \in {mine, Successor(t)} \/ chain'[s1] = chain[s1]
        BY <3>1 DEF TInv, TypeOK
      <4>2. CASE chain'[s1] = chain[s1]
        <5>1. Argued(chain[s1]) /\ (Exists => Recorded(chain[s1], said))
          BY <3>3, <4>2 DEF Debate
        <5>2. QED
          BY <2>1, <2>2, <4>2, <5>1 DEF TurnsStay
      <4>3. QED
        BY <2>3, <2>4, <3>2, <3>3, <4>1, <4>2
    <3>4. QED
      BY <3>3 DEF Debate, Argued, Recorded, Members, Answered
  <2>8. QED
    BY <1>6, <2>5, <2>6, <2>7 DEF Dispatch
<1>7. CASE Write(s)
  <2>1. ~Vacant(s) /\ t.step = "queued" /\ t.stage = Report
    BY <1>7 DEF Write
  <2>2. TurnsStay
    BY <1>7 DEF Write, FailIf, Fail, TurnsStay, Exists
  <2>3. CASE FailIf(s, "editor") \/ FailIf(s, "workerdb")
    BY <2>1, <2>2, <2>3, FailDebate DEF FailIf
  <2>4. CASE Go(s, "file")
    BY <2>1, <2>2, <2>4, GoDebate DEF Step, Turning, Filing
  <2>5. QED
    BY <1>7, <2>3, <2>4 DEF Write
<1>8. CASE File(s)
  <2>1. ~Vacant(s) /\ t.stage = Report
    BY <1>0, <1>8 DEF File, Argued, Filing
  <2>2. row' \in {row, Filed}
    BY <1>8 DEF File, Fail
  <2>3. TurnsStay
    BY <1>8, <2>2 DEF File, Filed, TurnsStay, Exists
  <2>4. ASSUME NEW r \in {row, Filed}, Fail(s, "workerdb", r) PROVE Debate'
    BY <2>1, <2>3, <2>4, FailDebate
  <2>5. CASE Go(s, "share")
    BY <2>1, <2>3, <2>5, GoDebate DEF Step, Turning, Filing
  <2>6. QED
    BY <1>8, <2>4, <2>5 DEF File
<1>9. CASE Share(s)
  <2>1. TurnsStay
    BY <1>9 DEF Share, TurnsStay, Exists
  <2>2. QED
    BY <1>0, <1>9, <2>1, GoDebate DEF Share, Argued, Step, Turning, Filing
<1>10. CASE Bill(s)
  <2>1. TurnsStay
    BY <1>10 DEF Bill, TurnsStay, Exists
  <2>2. QED
    BY <1>10, <2>1, IdleType, PutDebate DEF Bill
<1>11. QED
  BY <1>1, <1>2, <1>3, <1>4, <1>5, <1>6, <1>7, <1>8, <1>9, <1>10 DEF Work

LEMMA StepKeepsDebate == TInv /\ Debate /\ [Next]_vars => Debate'
<1> SUFFICES ASSUME TInv, Debate, [Next]_vars PROVE Debate'
  OBVIOUS
<1> USE DEF web, ledger
<1>1. CASE UNCHANGED <<chain, said>> /\ (Exists' => Exists)
  BY <1>1 DEF Debate, Vacant, Argued, Recorded, Members, Answered, Exists
<1>2. ASSUME NEW s \in Slot, UNCHANGED <<row, said>>, Put(s, FirstTask(starter.panel))
      PROVE  Debate'
  <2>1. FirstTask(starter.panel) \in Task
    BY FirstTaskType DEF TInv, TypeOK
  <2>2. Argued(FirstTask(starter.panel)) /\ Recorded(FirstTask(starter.panel), said')
    BY FirstArgued DEF TInv, TypeOK
  <2>3. QED
    BY <1>2, <2>1, <2>2, PutDebate DEF TurnsStay, Exists
<1>3. CASE Serve
  <2>1. CASE \E s \in Slot : Delay(s) \/ DelayFails(s)
    BY <1>1, <1>2, <2>1 DEF Delay, DelayFails, Exists
  <2>2. CASE MockReport
    BY <1>1, <2>2 DEF MockReport, Exists
  <2>3. CASE TaskUnknown \/ Queued \/ Dispatched \/ MockSay
    BY <1>1, <2>3 DEF TaskUnknown, Queued, Dispatched, MockSay, Exists
  <2>4. CASE MockBegin \/ MockComplete
    BY <1>1, <2>4 DEF MockBegin, MockComplete, WriteRow, Exists
  <2>5. QED
    BY <1>3, <2>1, <2>2, <2>3, <2>4 DEF Serve
<1>4. CASE WebCrash \/ SyncOnRead \/ UNCHANGED vars
  BY <1>1, <1>4 DEF WebCrash, SyncOnRead, vars, Exists
<1>5. CASE DeleteRoom
  BY <1>5 DEF DeleteRoom, NoRow, Debate, Vacant, Argued, Members, Answered, Exists
<1>6. ASSUME NEW s \in Slot, Work(s) PROVE Debate'
  BY <1>6, WorkDebate
<1>7. ASSUME NEW s \in Slot, Crash(s) PROVE Debate'
  BY <1>7, IdleType, PutDebate DEF Crash, TurnsStay, Exists
<1>8. QED
  BY <1>3, <1>4, <1>5, <1>6, <1>7 DEF Next, Rest

LEMMA DebateHolds == Spec => []Debate
<1>1. Init => Debate
  BY IdleType DEF Init, Debate, Vacant
<1>2. QED
  BY <1>1, TypesHold, StepKeepsDebate, PTL DEF Spec

\* Whoever sits on a round's panel spoke in every round before it, and nobody's
\* turns have a gap, whichever tasks failed, were retried or arrived twice.
THEOREM PanelSpoke == Spec => []PanelHasSpoken
<1>1. TInv /\ Debate => PanelHasSpoken
  <2> SUFFICES ASSUME TInv, Debate, NEW s \in Slot, ~Vacant(s)
               PROVE  /\ \A p \in Members(chain[s]) :
                           chain[s].stage \in Round =>
                             1..(chain[s].stage - 1) \subseteq chain[s].history[p]
                      /\ \A p \in Persona : \E n \in 0..4 : chain[s].history[p] = 1..n
    BY DEF PanelHasSpoken
  <2>1. Argued(chain[s]) /\ chain[s].stage \in 1..5
    BY DEF Debate, TInv, TypeOK, Task, Report
  <2>2. 0..(chain[s].stage - 1) \subseteq 0..4
    BY <2>1
  <2>3. QED
    BY <2>1, <2>2 DEF Argued
<1>2. QED
  BY <1>1, TypesHold, DebateHolds, PTL

\* What a task says was heard is in the room for its owner to read, unless the
\* room is deleted.
THEOREM HistoryKept == Spec => []HistoryWasSaid
<1>1. Debate => HistoryWasSaid
  BY DEF Debate, Recorded, HistoryWasSaid
<1>2. QED
  BY <1>1, DebateHolds, PTL

\* A report is only ever written on a debate in which one panelist at least
\* spoke twice: no early end skips the first two rounds.
THEOREM ReportsOnTwoRounds == Spec => []ReportHasBasis
<1>1. Debate => ReportHasBasis
  BY DEF Debate, Argued, ReportHasBasis
<1>2. QED
  BY <1>1, DebateHolds, PTL

-----------------------------------------------------------------------------
(* The row, and what readers are told                                      *)

Unread(r) == r.status \in {"pending", "in_progress"} /\ r.report = "none"
Reported(r) == r.status = "completed" /\ r.report = "chain"

\* What the row says while a task is under way: rounds run before the report
\* is filed, the report's last steps after it.
Stands(t, r) ==
  /\ t.stage \in Round => Unread(r) /\ r.round <= t.stage
  /\ Unread(r) \/ Reported(r)
  /\ t.step \in {"share", "bill"} => Reported(r)

\* What is known of the row of a review whose publications are all confirmed.
Standing ==
  Confirmed =>
    /\ row.report # "none" => row.status = "completed"
    /\ Exists => \A s \in Slot : ~Vacant(s) => Stands(chain[s], row)
    /\ starter.at \in {"new", "delay", "mock", "script"} =>
         (Exists => Unread(row)) /\ row.round = 0 /\ said = {} /\ latest # "completed"
    /\ starter.at = "wrap" =>
         line = MockScript /\ (Exists /\ "webdb" \notin Mishaps => row.status = "completed")
    /\ latest = "completed" /\ line = 0 =>
         Reported(row) /\ starter.at \in {"sent", "done"} /\ \A s \in Slot : Vacant(s)

\* A step of the one task at work, which leaves u in its slot.
LEMMA PutStanding ==
  ASSUME TInv, Alone, Standing, Confirmed' => Confirmed, UNCHANGED <<starter, line>>,
         NEW s \in Slot, NEW u \in Task, Put(s, u), ~Vacant(s),
         Confirmed =>
           /\ row'.report # "none" => row'.status = "completed"
           /\ Exists' /\ u.step # "none" => Stands(u, row')
           /\ latest' = "completed" /\ line = 0 => Reported(row') /\ u.step = "none"
  PROVE  Standing'
<1> SUFFICES ASSUME Confirmed' PROVE Standing'
  BY DEF Standing
<1>1. chain'[s] = u /\ \A s1 \in Slot \ {s} : chain'[s1] = chain[s1]
  BY DEF Put, TInv, TypeOK
<1>2. Confirmed /\ starter.at \in {"sent", "done"} /\ \A s1 \in Slot \ {s} : Vacant(s1)
  BY DEF Alone
<1>3. \A s1 \in Slot : chain'[s1].step # "none" => s1 = s
  BY <1>1, <1>2 DEF Vacant
<1>4. Exists' => \A s1 \in Slot : chain'[s1].step # "none" => Stands(chain'[s1], row')
  BY <1>1, <1>2, <1>3
<1>5. latest' = "completed" /\ line = 0 => \A s1 \in Slot : chain'[s1].step = "none"
  BY <1>1, <1>2, <1>3
<1>6. QED
  BY <1>2, <1>4, <1>5 DEF Standing, Vacant, Stands, Unread, Reported

\* Nobody is told "completed" while a task is under way and no script played.
LEMMA NotToldYet ==
  ASSUME Standing, Confirmed, NEW s \in Slot, ~Vacant(s)
  PROVE  ~(latest = "completed" /\ line = 0)
BY DEF Standing

\* What a task is followed by in its slot, if by anything.
Follows(t, u) ==
  u.step # "none" =>
    /\ u.stage = Report \/ (t.stage \in Round /\ t.stage <= u.stage)
    /\ u.step \in {"share", "bill"} => t.step \in {"share", "bill"}

\* A step of a task that leaves the row alone.
LEMMA SameRowStanding ==
  ASSUME TInv, Alone, Standing, Confirmed' => Confirmed, UNCHANGED <<starter, line, row>>,
         NEW s \in Slot, NEW u \in Task, Put(s, u), ~Vacant(s), latest' \in {latest, "working"},
         Follows(chain[s], u)
  PROVE  Standing'
<1>1. CASE Confirmed
  <2>1. row.report # "none" => row.status = "completed"
    BY <1>1 DEF Standing
  <2>2. ASSUME Exists, u.step # "none" PROVE Stands(u, row)
    <3>1. Stands(chain[s], row)
      BY <1>1, <2>2 DEF Standing
    <3>2. chain[s].stage \in Round => row.round <= u.stage
      <4>1. row.round \in 0..4 /\ u.stage \in 1..5 /\ chain[s].stage \in 1..5
        BY DEF TInv, TypeOK, Row, Task, Report
      <4>2. CASE u.stage = Report
        BY <4>1, <4>2 DEF Report
      <4>3. CASE chain[s].stage \in Round /\ chain[s].stage <= u.stage
        BY <3>1, <4>1, <4>3 DEF Stands
      <4>4. QED
        BY <2>2, <4>2, <4>3 DEF Follows
    <3>3. QED
      BY <2>2, <3>1, <3>2 DEF Stands, Follows, Report, Round
  <2>3. ~(latest' = "completed" /\ line = 0)
    BY <1>1, NotToldYet
  <2>4. Exists' => Exists
    BY DEF Exists
  <2>5. QED
    BY <2>1, <2>2, <2>3, <2>4, PutStanding
<1>2. CASE ~Confirmed
  BY <1>2, PutStanding
<1>3. QED
  BY <1>1, <1>2

\* A task that fails with a row that says no less than it did.
LEMMA FailStanding ==
  ASSUME TInv, Alone, Standing, UNCHANGED <<starter, line>>, latest' \in {latest, "working"},
         NEW s \in Slot, ~Vacant(s), NEW why, NEW r, Fail(s, why, r),
         r = row \/ (chain[s].stage = Report /\ r = Filed)
  PROVE  Standing'
<1>1. Confirmed' => Confirmed
  BY DEF Fail, Struck, Confirmed
<1>2. PICK u \in {Retried(chain[s]), Idle} : Put(s, u)
  BY DEF Fail
<1>3. /\ u \in Task /\ u.step \in {"none", "queued"}
      /\ u.step # "none" => u.stage = chain[s].stage
  <2>1. chain[s] \in Task
    BY DEF TInv, TypeOK
  <2>2. Retried(chain[s]).step # "none" => Retried(chain[s]).stage = chain[s].stage
    BY IdleType DEF Retried, Again, NewTask
  <2>3. QED
    BY <1>2, <2>1, <2>2, RetriedType, IdleType
<1>4. CASE row' = row
  <2>1. chain[s].stage \in 1..5
    BY DEF TInv, TypeOK, Task, Report
  <2>2. Follows(chain[s], u)
    BY <1>3, <2>1 DEF Follows, Round, Report
  <2>3. QED
    BY <1>1, <1>2, <1>3, <1>4, <2>2, SameRowStanding
<1>5. CASE row' = Filed /\ row' # row /\ chain[s].stage = Report
  <2>1. Exists /\ Reported(row')
    BY <1>5 DEF Filed, Reported, TInv, TypeOK, Row
  <2>2. u.step # "none" => Stands(u, row')
    BY <1>3, <1>5, <2>1 DEF Stands, Report, Round
  <2>3. Confirmed => ~(latest' = "completed" /\ line = 0)
    BY NotToldYet
  <2>4. QED
    BY <1>1, <1>2, <1>3, <2>1, <2>2, <2>3, PutStanding DEF Reported
<1>6. QED
  BY <1>4, <1>5 DEF Fail

LEMMA WorkStanding ==
  ASSUME TInv, Alone, Debate, Standing, NEW s \in Slot, Work(s)
  PROVE  Standing'
<1> USE DEF web, ledger, At, Vacant
<1> DEFINE t == chain[s]
<1>0. t \in Task /\ t.stage \in 1..5 /\ row \in Row
  BY DEF TInv, TypeOK, Task, Report
<1> DEFINE Quiet == UNCHANGED <<row, starter, line, struck>> /\ latest' \in {latest, "working"}
<1>q. ASSUME NEW u \in Task, Put(s, u), ~Vacant(s), Quiet, Follows(t, u) PROVE Standing'
  <2>1. Confirmed' => Confirmed
    BY <1>q DEF Confirmed
  <2>2. QED
    BY <1>q, <2>1, SameRowStanding
<1>f. ASSUME NEW u \in Task, ~Vacant(s), u.stage = t.stage, u.step \notin {"share", "bill"}
      PROVE  Follows(t, u)
  BY <1>0, <1>f DEF Follows, Round, Report
<1>1. CASE Open(s)
  <2>1. /\ ~Vacant(s) /\ t.stage = 1 /\ latest' \in {latest, "working"}
        /\ UNCHANGED <<starter, line>>
    BY <1>1 DEF Open, Log
  <2>2. CASE FailIf(s, "orgbudget") \/ Fail(s, "silence", row)
    BY <2>1, <2>2, FailStanding DEF FailIf
  <2>3. CASE /\ WriteRow([row EXCEPT !.status = "in_progress"], "workerdb")
             /\ Go(s, "ask") /\ UNCHANGED struck
    <3> DEFINE u == [t EXCEPT !.step = "ask"]
    <3>1. u \in Task /\ u.step = "ask" /\ u.stage = 1 /\ Put(s, u)
      BY <1>0, <2>1, <2>3 DEF Task, Step, Go
    <3>2. CASE row' = row
      BY <1>q, <1>f, <2>1, <2>3, <3>1, <3>2
    <3>3. CASE Exists /\ row' = [row EXCEPT !.status = "in_progress"]
      <4>1. Confirmed => Unread(row) /\ row.round <= 1
        BY <2>1, <3>3 DEF Standing, Stands, Round
      <4>2. Confirmed => Stands(u, row')
        BY <1>0, <3>1, <3>3, <4>1 DEF Stands, Unread, Row
      <4>3. Confirmed => row'.report = "none" /\ ~(latest' = "completed" /\ line = 0)
        BY <1>0, <2>1, <3>3, <4>1, NotToldYet DEF Unread, Row
      <4>4. QED
        BY <2>1, <2>3, <3>1, <4>2, <4>3, PutStanding DEF Confirmed
    <3>4. QED
      BY <2>3, <3>2, <3>3 DEF WriteRow
  <2>4. QED
    BY <1>1, <2>2, <2>3 DEF Open
<1>2. CASE Ask(s)
  <2>1. ~Vacant(s) /\ UNCHANGED <<latest, starter, line>>
    BY <1>2 DEF Ask
  <2>2. CASE FailIf(s, "workerdb") \/ Fail(s, "silence", row)
    BY <2>1, <2>2, FailStanding DEF FailIf
  <2>3. ASSUME NEW h \in Hearings(t), UNCHANGED <<row, struck>>,
               Put(s, [t EXCEPT !.step = "save", !.heard = h, !.todo = Answered(h)])
        PROVE  Standing'
    <3> DEFINE u == [t EXCEPT !.step = "save", !.heard = h, !.todo = Answered(h)]
    <3>1. u \in Task /\ u.step = "save" /\ u.stage = t.stage
      BY <1>0 DEF Task, Step, Hearings, Answered
    <3>2. QED
      BY <1>q, <1>f, <2>1, <2>3, <3>1
  <2>4. QED
    BY <1>2, <2>2, <2>3 DEF Ask
<1>3. CASE Save(s)
  <2>1. ~Vacant(s) /\ t.step = "save" /\ UNCHANGED <<latest, starter, line>>
    BY <1>3 DEF Save
  <2>2. CASE FailIf(s, "workerdb") \/ Fail(s, "deletion", row)
    BY <2>1, <2>2, FailStanding DEF FailIf
  <2>3. ASSUME NEW p \in t.todo, UNCHANGED <<row, struck>>, Put(s, [t EXCEPT !.todo = @ \ {p}])
        PROVE  Standing'
    <3> DEFINE u == [t EXCEPT !.todo = @ \ {p}]
    <3>1. u \in Task /\ u.step = t.step /\ u.stage = t.stage
      BY <1>0 DEF Task
    <3>2. QED
      BY <1>q, <1>f, <2>1, <2>3, <3>1
  <2>4. QED
    BY <1>3, <2>2, <2>3 DEF Save
<1>4. CASE Close(s)
  <2>1. ~Vacant(s) /\ t.step = "save" /\ t.stage \in Round /\ UNCHANGED <<latest, starter, line>>
    BY <1>4 DEF Close, InRound
  <2>2. CASE Fail(s, "tokens", row)
    BY <2>1, <2>2, FailStanding
  <2>3. CASE /\ WriteRow(RoundRow(t.stage), "workerdb")
             /\ Go(s, "announce") /\ UNCHANGED struck
    <3> DEFINE u == [t EXCEPT !.step = "announce"]
    <3>1. u \in Task /\ u.step = "announce" /\ u.stage = t.stage /\ Put(s, u)
      BY <1>0, <2>3 DEF Task, Step, Go
    <3>2. CASE row' = row
      BY <1>q, <1>f, <2>1, <2>3, <3>1, <3>2
    <3>3. CASE Exists /\ row' = RoundRow(t.stage)
      <4>1. Confirmed => Unread(row)
        BY <2>1, <3>3 DEF Standing, Stands
      <4>2. /\ row'.round = t.stage /\ row'.report = row.report
            /\ row'.status \in {row.status, "in_progress"}
        <5>1. CASE t.stage = 1
          BY <1>0, <3>3, <5>1 DEF RoundRow, Row
        <5>2. CASE t.stage # 1
          BY <1>0, <3>3, <5>2 DEF RoundRow, Row
        <5>3. QED
          BY <5>1, <5>2
      <4>3. Confirmed => Unread(row')
        BY <4>1, <4>2 DEF Unread
      <4>4. Confirmed => Stands(u, row')
        BY <1>0, <3>1, <4>2, <4>3 DEF Stands
      <4>5. Confirmed => row'.report = "none" /\ ~(latest' = "completed" /\ line = 0)
        BY <2>1, <4>3, NotToldYet DEF Unread
      <4>6. QED
        BY <2>1, <2>3, <3>1, <4>4, <4>5, PutStanding DEF Confirmed
    <3>4. QED
      BY <2>3, <3>2, <3>3 DEF WriteRow
  <2>4. QED
    BY <1>4, <2>2, <2>3 DEF Close
<1>5. CASE Announce(s)
  <2> DEFINE u == [t EXCEPT !.step = "dispatch", !.charged = @ + Tokens(t.heard)]
  <2>1. /\ ~Vacant(s) /\ t.stage \in Round /\ latest' \in {latest, "working"} /\ Put(s, u)
        /\ UNCHANGED <<row, starter, line, struck>>
    BY <1>5 DEF Announce, Log, TInv, StageFits
  <2>2. t.charged + Tokens(t.heard) \in Nat
    BY <1>0, TokensType DEF Task
  <2>3. u \in Task /\ u.step = "dispatch" /\ u.stage = t.stage
    BY <1>0, <2>2 DEF Task, Step
  <2>4. QED
    BY <1>q, <1>f, <2>1, <2>3
<1>6. CASE Dispatch(s)
  <2>1. /\ ~Vacant(s) /\ t.stage \in Round /\ latest' \in {latest, "working"}
        /\ UNCHANGED <<starter, line>>
    BY <1>6 DEF Dispatch, Log, TInv, StageFits
  <2>2. CASE FailIf(s, "broker")
    BY <2>1, <2>2, FailStanding DEF FailIf
  <2>3. CASE Send(s, Successor(t)) /\ UNCHANGED <<row, struck>>
    <3>1. /\ Successor(t) \in Task /\ Successor(t).step = "queued"
          /\ Successor(t).stage = Report \/ Successor(t).stage = t.stage + 1
      BY <1>0, <2>1, SuccessorType DEF Successor, NewTask
    <3>2. QED
      <4>1. Follows(t, Successor(t))
        BY <1>0, <2>1, <3>1 DEF Follows
      <4>2. QED
        BY <1>q, <2>1, <2>3, <3>1, <4>1 DEF Send
  <2>4. CASE Unconfirmed
    BY <2>4 DEF Unconfirmed, Mishap, Struck, Confirmed, Standing
  <2>5. QED
    BY <1>6, <2>2, <2>3, <2>4 DEF Dispatch
<1>7. CASE Write(s)
  <2>1. ~Vacant(s) /\ t.step = "queued" /\ t.stage = Report /\ UNCHANGED <<latest, starter, line>>
    BY <1>7 DEF Write
  <2>2. CASE FailIf(s, "editor") \/ FailIf(s, "workerdb")
    BY <2>1, <2>2, FailStanding DEF FailIf
  <2>3. CASE Go(s, "file") /\ UNCHANGED <<row, struck>>
    <3> DEFINE u == [t EXCEPT !.step = "file"]
    <3>1. u \in Task /\ u.step = "file" /\ u.stage = Report /\ Put(s, u)
      BY <1>0, <2>1, <2>3 DEF Task, Step, Go
    <3>2. QED
      BY <1>q, <1>f, <2>1, <2>3, <3>1
  <2>4. QED
    BY <1>7, <2>2, <2>3 DEF Write
<1>8. CASE File(s)
  <2>1. ~Vacant(s) /\ t.stage = Report /\ UNCHANGED <<latest, starter, line>>
    BY <1>8 DEF File, Debate, Argued, Filing
  <2>2. ASSUME NEW r \in {row, Filed}, Fail(s, "workerdb", r) PROVE Standing'
    BY <2>1, <2>2, FailStanding
  <2>3. CASE row' = Filed /\ Go(s, "share") /\ UNCHANGED struck
    <3> DEFINE u == [t EXCEPT !.step = "share"]
    <3>1. u \in Task /\ u.step = "share" /\ u.stage = Report /\ Put(s, u)
      BY <1>0, <2>1, <2>3 DEF Task, Step, Go
    <3>2. Exists' => Reported(row')
      BY <1>0, <2>3 DEF Filed, Reported, Exists, Row
    <3>3. Exists' => Stands(u, row')
      BY <3>1, <3>2 DEF Stands, Report, Round
    <3>4. Confirmed => /\ row'.report # "none" => row'.status = "completed"
                       /\ ~(latest' = "completed" /\ line = 0)
      <4>1. CASE Exists
        BY <1>0, <2>1, <2>3, <4>1, NotToldYet DEF Filed, Row
      <4>2. CASE ~Exists
        BY <2>1, <2>3, <4>2, NotToldYet DEF Filed, Standing
      <4>3. QED
        BY <4>1, <4>2
    <3>5. QED
      BY <2>1, <2>3, <3>1, <3>3, <3>4, PutStanding DEF Confirmed
  <2>4. QED
    BY <1>8, <2>2, <2>3 DEF File
<1>9. CASE Share(s)
  <2> DEFINE u == [t EXCEPT !.step = "bill"]
  <2>1. /\ ~Vacant(s) /\ t.step = "share" /\ Put(s, u)
        /\ UNCHANGED <<row, latest, starter, line, struck>>
    BY <1>9 DEF Share, Go
  <2>2. u \in Task /\ u.step = "bill" /\ u.stage = t.stage
    BY <1>0 DEF Task, Step
  <2>3. QED
    <3>1. Follows(t, u)
      BY <1>0, <2>1, <2>2 DEF Follows, Round, Report
    <3>2. QED
      BY <1>q, <2>1, <2>2, <3>1
<1>10. CASE Bill(s)
  <2>1. ~Vacant(s) /\ t.step = "bill" /\ Put(s, Idle) /\ UNCHANGED <<row, starter, line, struck>>
    BY <1>10 DEF Bill
  <2>2. latest' = latest \/ (latest' = "completed" /\ Exists)
    BY <1>10 DEF Bill, Log
  <2>3. Confirmed /\ latest' = "completed" /\ line = 0 => Reported(row)
    BY <2>1, <2>2, NotToldYet DEF Standing, Stands
  <2>4. Confirmed => (row.report # "none" => row.status = "completed")
    BY DEF Standing
  <2>5. QED
    BY <2>1, <2>3, <2>4, IdleType, PutStanding DEF Confirmed
<1>11. QED
  BY <1>1, <1>2, <1>3, <1>4, <1>5, <1>6, <1>7, <1>8, <1>9, <1>10 DEF Work

\* The web process: it changes the row only while no task is there.
LEMMA ServeStanding == ASSUME TInv, Alone, Standing, Serve PROVE Standing'
<1> USE DEF Starter, ledger
<1>0. row \in Row /\ starter.at \in {"new", "delay", "sent", "mock", "script", "wrap", "done"}
  BY DEF TInv, TypeOK
<1>1. CASE TaskUnknown \/ Queued \/ Dispatched
  <2>1. UNCHANGED <<row, said, line, chain>> /\ (Confirmed' => Confirmed)
    BY <1>1 DEF TaskUnknown, Queued, Dispatched, Mishap, Struck, Confirmed
  <2>2. latest' \in {latest, "starting"}
    BY <1>1 DEF TaskUnknown, Queued, Dispatched, Log
  <2>3. \/ starter.at \in {"new", "delay"} /\ starter'.at \in {"delay", "mock"}
        \/ starter.at = "sent" /\ starter'.at = "done"
    BY <1>1 DEF TaskUnknown, Queued, Dispatched, TInv, TypeOK
  <2>4. QED
    BY <2>1, <2>2, <2>3 DEF Standing, Exists, Vacant, Stands, Unread, Reported
<1>2. ASSUME NEW s \in Slot, Delay(s) PROVE Standing'
  <2> DEFINE u == FirstTask(starter.panel)
  <2>1. /\ starter.at = "delay" /\ starter'.at = "sent" /\ Put(s, u)
        /\ UNCHANGED <<row, said, latest, line, struck>>
    BY <1>2 DEF Delay, TInv, TypeOK
  <2>2. u \in Task /\ u.step = "queued" /\ u.stage = 1
    BY FirstTaskType DEF FirstTask, NewTask, TInv, TypeOK
  <2>3. Confirmed => \A s1 \in Slot : Vacant(s1)
    BY <2>1 DEF Alone
  <2>4. chain'[s] = u /\ \A s1 \in Slot \ {s} : chain'[s1] = chain[s1]
    BY <2>1 DEF Put, TInv, TypeOK
  <2>5. Confirmed /\ Exists => Stands(u, row)
    BY <2>1, <2>2 DEF Standing, Stands, Unread
  <2>6. Confirmed /\ Exists => \A s1 \in Slot : chain'[s1].step # "none" => Stands(chain'[s1], row)
    BY <2>3, <2>4, <2>5 DEF Vacant
  <2>7. QED
    BY <2>1, <2>6 DEF Standing, Exists, Vacant, Stands, Unread, Reported, Confirmed
<1>3. ASSUME NEW s \in Slot, DelayFails(s) PROVE Standing'
  <2>1. Confirmed' => Confirmed /\ UNCHANGED chain
    BY <1>3 DEF DelayFails, Unconfirmed, Mishap, Struck, Confirmed
  <2>2. starter.at = "delay" /\ starter'.at = "mock" /\ latest' \in {latest, "starting"}
    BY <1>3 DEF DelayFails, Log, TInv, TypeOK
  <2>3. UNCHANGED <<row, said, line>>
    BY <1>3 DEF DelayFails
  <2>4. QED
    BY <2>1, <2>2, <2>3 DEF Standing, Exists, Vacant, Stands, Unread, Reported
\* From here on the review is played by the script, and no task is there.
<1>4. Confirmed /\ starter.at \in {"mock", "script", "wrap"} => \A s \in Slot : Vacant(s)
  BY DEF Alone
<1>5. CASE MockBegin
  <2>1. /\ starter.at = "mock" /\ starter'.at = "script" /\ latest' \in {latest, "working"}
        /\ UNCHANGED <<said, line, chain, struck>>
    BY <1>5 DEF MockBegin, Log, TInv, TypeOK
  <2>2. row' = row \/ (Exists /\ row' = [row EXCEPT !.status = "in_progress"])
    BY <1>5 DEF MockBegin, WriteRow
  <2>3. /\ row'.round = row.round /\ row'.report = row.report
        /\ row'.status \in {row.status, "in_progress"} /\ (Exists' => Exists)
    BY <1>0, <2>2 DEF Row, Exists
  <2>4. QED
    BY <1>4, <2>1, <2>3 DEF Standing, Exists, Vacant, Unread, Reported, Confirmed
<1>6. CASE MockSay
  <2>1. /\ starter.at = "script" /\ starter'.at = "script" /\ latest' \in {latest, "working"}
        /\ UNCHANGED <<row, said, chain, struck>>
    BY <1>6 DEF MockSay, Log, TInv, TypeOK
  <2>2. QED
    BY <1>4, <2>1 DEF Standing, Exists, Vacant, Unread, Reported, Confirmed
<1>7. CASE MockReport
  <2>1. /\ starter.at = "script" /\ starter'.at = "wrap" /\ line = MockScript
        /\ UNCHANGED <<said, latest, line, chain, struck>>
    BY <1>7 DEF MockReport, TInv, TypeOK
  <2>2. \/ Exists /\ row' = [row EXCEPT !.status = "completed", !.report = "mock"]
        \/ row' = row /\ ("webdb" \in Mishaps \/ ~Exists)
    BY <1>7 DEF MockReport
  <2>3. CASE Exists /\ row' = [row EXCEPT !.status = "completed", !.report = "mock"]
    <3>1. row'.status = "completed"
      BY <1>0, <2>3 DEF Row
    <3>2. QED
      BY <1>4, <2>1, <3>1 DEF Standing, Exists, Vacant, Confirmed, MockScript
  <2>4. CASE row' = row /\ ("webdb" \in Mishaps \/ ~Exists)
    BY <1>4, <2>1, <2>4 DEF Standing, Exists, Vacant, Confirmed, MockScript
  <2>5. QED
    BY <2>2, <2>3, <2>4
<1>8. CASE MockComplete
  <2>1. /\ starter.at = "wrap" /\ starter'.at = "done"
        /\ UNCHANGED <<said, line, chain, struck>>
    BY <1>8 DEF MockComplete, TInv, TypeOK
  <2>2. row' = row \/ row' = [row EXCEPT !.status = "completed"]
    BY <1>8 DEF MockComplete, WriteRow
  <2>3. row' = row \/ row'.status = "completed"
    BY <1>0, <2>2 DEF Row
  <2>4. Confirmed => line # 0
    BY <2>1 DEF Standing, MockScript
  <2>5. QED
    BY <1>4, <2>1, <2>3, <2>4 DEF Standing, Exists, Vacant, Confirmed
<1>9. QED
  BY <1>1, <1>2, <1>3, <1>5, <1>6, <1>7, <1>8 DEF Serve

LEMMA StepKeepsStanding == TInv /\ Alone /\ Debate /\ Standing /\ [Next]_vars => Standing'
<1> SUFFICES ASSUME TInv, Alone, Debate, Standing, [Next]_vars PROVE Standing'
  OBVIOUS
<1> USE DEF web, ledger
<1>1. CASE Serve
  BY <1>1, ServeStanding
<1>2. CASE WebCrash
  <2>1. starter'.at = "done" /\ UNCHANGED <<row, said, latest, line, chain>> /\ (Confirmed' => Confirmed)
    BY <1>2 DEF WebCrash, Mishap, Struck, Confirmed, TInv, TypeOK
  <2>2. QED
    BY <2>1 DEF Standing, Exists, Vacant, Stands, Unread, Reported
<1>3. ASSUME NEW s \in Slot, Work(s) PROVE Standing'
  BY <1>3, WorkStanding
<1>4. ASSUME NEW s \in Slot, Crash(s) PROVE Standing'
  <2>1. /\ ~Vacant(s) /\ Put(s, Idle) /\ UNCHANGED <<row, latest, starter, line>>
        /\ (Confirmed' => Confirmed)
    BY <1>4 DEF Crash, Mishap, Struck, Confirmed
  <2>2. QED
    BY <2>1, IdleType, SameRowStanding DEF Follows
<1>5. CASE SyncOnRead
  <2>1. Confirmed => FALSE
    BY <1>5 DEF SyncOnRead, Standing
  <2>2. QED
    BY <1>5, <2>1 DEF SyncOnRead, Standing, Confirmed
<1>6. CASE DeleteRoom
  <2>1. /\ row' = NoRow /\ said' = {} /\ latest' = "none"
        /\ UNCHANGED <<starter, line, chain>> /\ (Confirmed' => Confirmed)
    BY <1>6 DEF DeleteRoom, Mishap, Struck, Confirmed
  <2>2. QED
    BY <2>1 DEF Standing, NoRow, Exists, Vacant, Unread, Reported
<1>7. CASE UNCHANGED vars
  BY <1>7 DEF vars, Standing, Exists, Vacant, Stands, Unread, Reported, Confirmed
<1>8. QED
  BY <1>1, <1>2, <1>3, <1>4, <1>5, <1>6, <1>7 DEF Next, Rest

LEMMA StandingHolds == Spec => []Standing
<1>1. Init => Standing
  BY IdleType DEF Init, Standing, Vacant, Exists, Unread
<1>2. QED
  BY <1>1, TypesHold, AloneHolds, DebateHolds, StepKeepsStanding, PTL DEF Spec

\* With every publication confirmed, whoever is told "completed" by the tasks
\* finds the row completed and the chain's report in it.
THEOREM ToldIsFiled == Spec => []AnnouncedHasReport
<1>1. Standing => AnnouncedHasReport
  BY DEF Standing, Reported, AnnouncedHasReport
<1>2. QED
  BY <1>1, StandingHolds, PTL

-----------------------------------------------------------------------------
(* The promise to the readers                                              *)

LEMMA SameForReaders ==
  ASSUME row'.status = row.status, row'.round = row.round, row'.report = row.report, said' = said
  PROVE  [Lifecycle!Next]_Lifecycle!vars
BY DEF Lifecycle!vars

LEMMA ServePromise ==
  ASSUME TInv, Alone, Standing, Confirmed, "webdb" \notin Mishaps, Serve
  PROVE  [Lifecycle!Next]_Lifecycle!vars
<1> USE DEF Starter
<1>0. row \in Row
  BY DEF TInv, TypeOK
<1>1. CASE UNCHANGED <<row, said>>
  BY <1>1, SameForReaders
<1>2. CASE MockBegin
  <2>1. Exists => Unread(row)
    BY <1>2 DEF MockBegin, Standing
  <2>2. row' = (IF Exists THEN [row EXCEPT !.status = "in_progress"] ELSE row) /\ said' = said
    BY <1>2 DEF MockBegin, WriteRow
  <2>3. CASE Exists /\ row.status = "pending"
    <3>1. row'.status = "in_progress" /\ row'.round = row.round /\ row'.report = row.report
      BY <1>0, <2>2, <2>3 DEF Row
    <3>2. Lifecycle!Begin
      BY <2>2, <2>3, <3>1 DEF Lifecycle!Begin
    <3>3. QED
      BY <3>2 DEF Lifecycle!Next
  <2>4. CASE ~(Exists /\ row.status = "pending")
    BY <1>0, <2>1, <2>2, <2>4, SameForReaders DEF Unread, Row
  <2>5. QED
    BY <2>3, <2>4
<1>3. CASE MockReport
  <2>1. (Exists => Unread(row)) /\ row.round = 0 /\ said = {} /\ said' = said
    BY <1>3 DEF MockReport, Standing
  <2>2. row' = IF Exists THEN [row EXCEPT !.status = "completed", !.report = "mock"] ELSE row
    BY <1>3 DEF MockReport
  <2>3. CASE Exists
    <3>1. row'.status = "completed" /\ row'.round = row.round /\ row'.report = "mock"
      BY <1>0, <2>2, <2>3 DEF Row
    <3>2. Lifecycle!Script
      BY <2>1, <2>3, <3>1 DEF Lifecycle!Script, Lifecycle!Open, Unread
    <3>3. QED
      BY <3>2 DEF Lifecycle!Next
  <2>4. CASE ~Exists
    BY <2>1, <2>2, <2>4, SameForReaders
  <2>5. QED
    BY <2>3, <2>4
<1>4. CASE MockComplete
  <2>1. Exists => row.status = "completed"
    BY <1>4 DEF MockComplete, Standing
  <2>2. row' = (IF Exists THEN [row EXCEPT !.status = "completed"] ELSE row) /\ said' = said
    BY <1>4 DEF MockComplete, WriteRow
  <2>3. QED
    BY <1>0, <2>1, <2>2, SameForReaders DEF Row
<1>5. QED
  BY <1>1, <1>2, <1>3, <1>4
     DEF Serve, TaskUnknown, Queued, Delay, DelayFails, Dispatched, MockSay

\* Filing the report ends the debate, the first time.
LEMMA FiledPromise ==
  ASSUME TInv, Debate, Standing, Confirmed, NEW s \in Slot, At(s, "file"),
         row' \in {row, Filed}, said' = said
  PROVE  [Lifecycle!Next]_Lifecycle!vars
<1>0. row \in Row /\ ~Vacant(s)
  BY DEF TInv, TypeOK, At, Vacant
<1>1. CASE row' = row
  BY <1>1, SameForReaders
<1>2. CASE Exists /\ row' = Filed
  <2>1. row'.status = "completed" /\ row'.report = "chain" /\ row'.round = row.round
    BY <1>0, <1>2 DEF Filed, Row
  <2>2. CASE Reported(row)
    BY <2>1, <2>2, SameForReaders DEF Reported
  <2>3. CASE Unread(row)
    <3>1. Argued(chain[s]) /\ Recorded(chain[s], said) /\ chain[s].stage = Report
      BY <1>0, <1>2 DEF Debate, Argued, At, Filing
    <3>2. PICK p \in Persona : {1, 2} \subseteq chain[s].history[p]
      BY <3>1 DEF Argued
    <3>3. <<p, 1>> \in said /\ <<p, 2>> \in said
      BY <3>1, <3>2 DEF Recorded
    <3>4. Lifecycle!Conclude
      BY <2>1, <2>3, <3>3
         DEF Lifecycle!Conclude, Lifecycle!Open, Lifecycle!SpokenIn, Unread
    <3>5. QED
      BY <3>4 DEF Lifecycle!Next
  <2>4. QED
    BY <1>0, <1>2, <2>2, <2>3 DEF Standing, Stands
<1>3. QED
  BY <1>1, <1>2 DEF Filed

\* A turn is spoken while the debate is open, by somebody who also spoke in
\* the round before.
LEMMA SavePromise ==
  ASSUME TInv, Debate, Standing, Confirmed, NEW s \in Slot, Save(s)
  PROVE  [Lifecycle!Next]_Lifecycle!vars
<1> DEFINE t == chain[s]
<1>0. /\ t \in Task /\ t.stage \in Round /\ t.step = "save" /\ ~Vacant(s)
  BY DEF Save, At, Vacant, TInv, TypeOK, StageFits
<1>1. PICK p \in t.todo : row' = row /\ (said' = said \/ (Exists /\ said' = said \cup {<<p, t.stage>>}))
  BY DEF Save, FailIf, Fail
<1>2. CASE said' = said
  BY <1>1, <1>2, SameForReaders
<1>3. CASE Exists /\ said' = said \cup {<<p, t.stage>>}
  <2>1. Unread(row) /\ Argued(t) /\ Recorded(t, said)
    BY <1>0, <1>3 DEF Standing, Stands, Debate
  <2>2. p \in Persona /\ t.history[p] = 1..(t.stage - 1)
    BY <1>0, <1>1, <2>1 DEF Argued, Turning, Members, Task
  <2>3. t.stage \in 1..4 /\ (t.stage > 1 => t.stage - 1 \in t.history[p])
    BY <1>0, <2>2 DEF Round
  <2>4. t.stage > 1 => <<p, t.stage - 1>> \in said
    BY <2>1, <2>2, <2>3 DEF Recorded
  <2>5. Lifecycle!Speak(p, t.stage)
    BY <1>1, <1>3, <2>1, <2>2, <2>4
       DEF Lifecycle!Speak, Lifecycle!Open, Lifecycle!SpokenIn, Unread
  <2>6. QED
    BY <2>2, <2>3, <2>5 DEF Lifecycle!Next
<1>4. QED
  BY <1>1, <1>2, <1>3

LEMMA WorkPromise ==
  ASSUME TInv, Debate, Standing, Confirmed, NEW s \in Slot, Work(s)
  PROVE  [Lifecycle!Next]_Lifecycle!vars
<1> USE DEF ledger
<1> DEFINE t == chain[s]
<1>0. row \in Row /\ t \in Task
  BY DEF TInv, TypeOK
<1>1. CASE row' = row /\ said' = said
  BY <1>1, SameForReaders
<1>2. CASE Open(s)
  <2>1. said' = said /\ ~Vacant(s) /\ t.stage \in Round
    BY <1>2 DEF Open, At, Vacant, Round
  <2>2. row' = row \/ (Exists /\ row' = [row EXCEPT !.status = "in_progress"])
    BY <1>2 DEF Open, FailIf, Fail, WriteRow
  <2>3. CASE Exists /\ row' = [row EXCEPT !.status = "in_progress"]
    <3>1. Unread(row)
      BY <2>1, <2>3 DEF Standing, Stands
    <3>2. row'.status = "in_progress" /\ row'.round = row.round /\ row'.report = row.report
      BY <1>0, <2>3 DEF Row
    <3>3. CASE row.status = "pending"
      BY <2>1, <3>2, <3>3 DEF Lifecycle!Begin, Lifecycle!Next
    <3>4. CASE row.status = "in_progress"
      BY <2>1, <3>2, <3>4, SameForReaders
    <3>5. QED
      BY <3>1, <3>3, <3>4 DEF Unread
  <2>4. QED
    BY <1>1, <2>1, <2>2, <2>3
<1>3. CASE Save(s)
  BY <1>3, SavePromise
<1>4. CASE Close(s)
  <2>1. said' = said /\ ~Vacant(s) /\ t.stage \in 1..4
    BY <1>4 DEF Close, InRound, At, Vacant, Round
  <2>2. row' = row \/ (Exists /\ row' = RoundRow(t.stage))
    BY <1>4 DEF Close, Fail, WriteRow
  <2>3. CASE Exists /\ row' = RoundRow(t.stage)
    <3>1. Unread(row) /\ row.round <= t.stage /\ row.round \in 0..4
      BY <1>0, <2>1, <2>3 DEF Standing, Stands, Row, Round
    <3>2. /\ row'.round = t.stage /\ row'.report = row.report
          /\ row'.status \in {row.status, "in_progress"}
      <4>1. CASE t.stage = 1
        BY <1>0, <2>3, <4>1 DEF RoundRow, Row
      <4>2. CASE t.stage # 1
        BY <1>0, <2>3, <4>2 DEF RoundRow, Row
      <4>3. QED
        BY <4>1, <4>2
    <3>3. CASE row.round < t.stage
      <4>1. Lifecycle!Advance(t.stage)
        BY <2>1, <3>1, <3>2, <3>3 DEF Lifecycle!Advance, Lifecycle!Open, Unread
      <4>2. QED
        BY <2>1, <4>1 DEF Lifecycle!Next
    <3>4. CASE row.round = t.stage /\ row'.status = row.status
      BY <2>1, <3>2, <3>4, SameForReaders
    <3>5. CASE row.round = t.stage /\ row'.status # row.status
      <4>1. Lifecycle!Begin
        BY <2>1, <3>1, <3>2, <3>5 DEF Lifecycle!Begin, Unread
      <4>2. QED
        BY <4>1 DEF Lifecycle!Next
    <3>6. QED
      BY <2>1, <3>1, <3>3, <3>4, <3>5
  <2>4. QED
    BY <1>1, <2>1, <2>2, <2>3
<1>5. CASE File(s)
  <2>1. At(s, "file") /\ row' \in {row, Filed} /\ said' = said
    BY <1>5 DEF File, Fail
  <2>2. QED
    BY <2>1, FiledPromise
<1>6. CASE Ask(s) \/ Announce(s) \/ Dispatch(s) \/ Write(s) \/ Share(s) \/ Bill(s)
  BY <1>1, <1>6 DEF Ask, Announce, Dispatch, Write, Share, Bill, FailIf, Fail
<1>7. QED
  BY <1>2, <1>3, <1>4, <1>5, <1>6 DEF Work

LEMMA StepKeepsPromise ==
  ASSUME "webdb" \notin Mishaps
  PROVE  TInv /\ Alone /\ Debate /\ Standing /\ Confirmed /\ [Next]_vars
           => [Lifecycle!Next]_Lifecycle!vars
<1> SUFFICES ASSUME TInv, Alone, Debate, Standing, Confirmed, [Next]_vars
             PROVE  [Lifecycle!Next]_Lifecycle!vars
  OBVIOUS
<1>1. CASE Serve
  BY <1>1, ServePromise
<1>2. ASSUME NEW s \in Slot, Work(s) PROVE [Lifecycle!Next]_Lifecycle!vars
  BY <1>2, WorkPromise
<1>3. CASE SyncOnRead
  BY <1>3 DEF SyncOnRead, Standing
<1>4. CASE DeleteRoom
  <2>1. Lifecycle!Delete
    BY <1>4 DEF DeleteRoom, Lifecycle!Delete, NoRow, Exists
  <2>2. QED
    BY <2>1 DEF Lifecycle!Next
<1>5. CASE UNCHANGED <<row, said>>
  BY <1>5, SameForReaders
<1>6. QED
  BY <1>1, <1>2, <1>3, <1>4, <1>5 DEF Next, WebCrash, Crash, Rest, vars

\* Where the web process reaches the database, a review whose publications are
\* all confirmed is to its readers a ReviewLifecycle: no round, turn or report
\* comes before its basis, none goes back, and there is one report, whatever
\* tasks fail, die, are retried or lose their writes.
THEOREM PromiseKept ==
  ASSUME "webdb" \notin Mishaps
  PROVE  Spec /\ []Confirmed => KeepsPromise
<1>1. Init => Lifecycle!Init
  BY DEF Init, Lifecycle!Init
<1>2. TInv /\ Alone /\ Debate /\ Standing /\ Confirmed /\ [Next]_vars
        => [Lifecycle!Next]_Lifecycle!vars
  BY StepKeepsPromise
<1>3. QED
  BY <1>1, <1>2, TypesHold, AloneHolds, DebateHolds, StandingHolds, PTL
     DEF Spec, KeepsPromise, Lifecycle!Spec

\* Without unconfirmed publications there is nothing to confirm: this is what
\* a broker that fails, but never silently succeeds, gives the readers.
COROLLARY PromiseKeptByBroker ==
  ASSUME "webdb" \notin Mishaps, "ambiguous" \notin Mishaps
  PROVE  Spec => KeepsPromise
<1>1. Init => Confirmed
  BY DEF Init, Confirmed
<1>2. TInv /\ Confirmed /\ [Next]_vars => Confirmed'
  <2> SUFFICES ASSUME Confirmed, [Next]_vars PROVE Confirmed'
    OBVIOUS
  <2> USE DEF Confirmed
  <2>1. \A why, r : \A s \in Slot : Fail(s, why, r) /\ why # "ambiguous" => Confirmed'
    BY DEF Fail, Struck
  <2>2. ASSUME NEW s \in Slot, Work(s) PROVE Confirmed'
    BY <2>1, <2>2
       DEF Work, Open, Ask, Save, Close, Announce, Dispatch, Write, File, Share, Bill,
           FailIf, Unconfirmed, Mishap, web
  <2>3. CASE Serve
    BY <2>3 DEF Serve, TaskUnknown, Queued, Delay, DelayFails, Dispatched, MockBegin, MockSay,
                MockReport, MockComplete, Unconfirmed, Mishap, Struck
  <2>4. QED
    BY <2>2, <2>3 DEF Next, WebCrash, Crash, SyncOnRead, DeleteRoom, Rest, Mishap, Struck, vars, web
<1>3. QED
  BY <1>1, <1>2, TypesHold, PromiseKept, PTL DEF Spec
=============================================================================
