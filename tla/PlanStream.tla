------------------------------ MODULE PlanStream ------------------------------
(***************************************************************************)
(* Executions of a plan as their callers see them: the two routes of       *)
(* src/api/routes/agents.ts around execute_plan, one that streams its      *)
(* events and one that does not, and the Command Center page of the        *)
(* dashboard at the other end of a stream.                                 *)
(*                                                                         *)
(* Each of PlanExecution's Runs is one request.  A step of the execution   *)
(* and what its route does before it next waits are one action.  What a    *)
(* route has written stays in order; the server does not know how much of  *)
(* it a page has read, and what the page shows is stated for any part.     *)
(* A connection may break, by the network or a timeout between the two,    *)
(* and the execution goes on; the server may be restarted, which ends      *)
(* every execution and empties the Map of plans.                           *)
(***************************************************************************)
EXTENDS PlanExecution, Sequences, FiniteSetsExt

CONSTANTS Pages,    \* the runs a page asked for, the others being plain
          NoTask    \* what a message about the whole plan is about

ASSUME StreamAssumption == Pages \subseteq Runs /\ NoTask \notin Task

VARIABLES
  stored,         \* the plan is in the server's Map
  connection,     \* of each request
  sent,           \* what the server has written to the stream of each
  answer,         \* what each caller's promise holds
  is_executing,   \* the page's state of that name
  row             \* the row of agent_runs each request has inserted

svars == <<vars, stored, connection, sent, answer, is_executing, row>>

MessageType == (TaskEvent \ {"none"}) \cup {"plan_started", "plan_completed", "result", "error"}
Message     == [type : MessageType, task : Task \cup {NoTask}]

StreamTypeOK ==
  /\ TypeOK
  /\ stored \in BOOLEAN
  /\ connection \in [Runs -> {"none", "open", "ended", "broken"}]
  /\ sent \in [Runs -> Seq(Message)]
  /\ answer \in [Runs -> {"none", "pending", "success", "error"}]
  /\ is_executing \in [Runs -> BOOLEAN]
  /\ row \in [Runs -> {"none", "completed", "failed", "refused"}]

-----------------------------------------------------------------------------
StreamInit ==
  /\ Init
  /\ stored = TRUE
  /\ connection = [r \in Runs |-> "none"]
  /\ sent = [r \in Runs |-> <<>>]
  /\ answer = [r \in Runs |-> "none"]
  /\ is_executing = [r \in Runs |-> FALSE]
  /\ row = [r \in Runs |-> "none"]

About(type, t) == [type |-> type, task |-> t]
ThePlan(type)  == <<About(type, NoTask)>>

(* What a run tells of its tasks in this step.  The events of a level are  *)
(* in its order, and there is one only: the sort gives every task a place  *)
(* of its own.                                                             *)
ToldNow(r) == {t \in Task : last_event'[r][t] # last_event[r][t]}
Lines(S) ==
  {line \in [1..Cardinality(S) -> S] :
     /\ Range(line) = S
     /\ \A i, j \in DOMAIN line : i < j => plan.position[line[i]] <= plan.position[line[j]]}
TaskMessages(r) ==
  {[i \in DOMAIN line |-> About(last_event'[r][line[i]], line[i])] : line \in Lines(ToldNow(r))}

(* writeSSE: what is written to a broken connection is lost. *)
Write(r, messages) ==
  sent' = IF r \in Pages /\ connection[r] # "broken"
          THEN [sent EXCEPT ![r] = @ \o messages] ELSE sent

(* handle_execute_plan of a page, or a plain request. *)
Ask(r, next) ==
  /\ connection[r] = "none"
  /\ connection' = [connection EXCEPT ![r] = next]
  /\ is_executing' = [is_executing EXCEPT ![r] = r \in Pages]

Execute(r) ==
  /\ stored
  /\ Ask(r, "open")
  /\ Start(r)
  /\ \E told \in TaskMessages(r) : Write(r, ThePlan("plan_started") \o told)
  /\ answer' = [answer EXCEPT ![r] = "pending"]
  /\ UNCHANGED <<stored, row>>

(* execute_plan throws: the plan is not in the Map. *)
ExecuteUnknown(r) ==
  /\ ~ stored
  /\ Ask(r, "ended")
  /\ Write(r, ThePlan("error"))
  /\ answer' = [answer EXCEPT ![r] = IF r \in Pages THEN "pending" ELSE "error"]
  /\ UNCHANGED <<vars, stored, row>>

(* The execution goes on, the caller there or not. *)
Proceed(r) ==
  /\ stored
  /\ NextLevel(r) \/ \E t \in Task : Answer(r, t)
  /\ \E told \in TaskMessages(r) : Write(r, told)
  /\ UNCHANGED <<stored, connection, answer, is_executing, row>>

Conclude(r) ==
  /\ stored
  /\ Finish(r)
  /\ Write(r, ThePlan("plan_completed") \o ThePlan("result"))
  /\ UNCHANGED <<stored, connection, answer, is_executing, row>>

(* The route is done: a plain request is answered, if it can be. *)
End(r, a) ==
  IF connection[r] = "broken" THEN UNCHANGED <<connection, answer>>
  ELSE /\ connection' = [connection EXCEPT ![r] = "ended"]
       /\ answer' = IF r \in Pages THEN answer ELSE [answer EXCEPT ![r] = a]

(* Mutations: a partial success is recorded as completed; a failing insert *)
(* is left to itself.                                                      *)
RowStatusLenient(o) == IF o = "failed" THEN "failed" ELSE "completed"
LogRunOr(r, inserted) ==
  /\ stored
  /\ phase[r] = "returned"
  /\ row[r] = "none"
  /\ row' = [row EXCEPT ![r] = IF inserted THEN "completed" ELSE "refused"]
  /\ IF inserted THEN End(r, "success") ELSE UNCHANGED <<connection, answer>>
  /\ UNCHANGED <<vars, stored, sent, is_executing>>

RowStatus(o) == IF o = "completed" THEN "completed" ELSE "failed"

(* The insert into agent_runs, which may fail after all was done.  A       *)
(* streaming route has sent the result before it, a plain one answers now. *)
LogRun(r, inserted) ==
  /\ stored
  /\ phase[r] = "returned"
  /\ row[r] = "none"
  /\ row' = [row EXCEPT ![r] = IF inserted THEN RowStatus(outcome[r]) ELSE "refused"]
  /\ Write(r, IF inserted THEN <<>> ELSE ThePlan("error"))
  /\ End(r, IF inserted THEN "success" ELSE "error")
  /\ UNCHANGED <<vars, stored, is_executing>>

(* What parsed messages have: all but the errors are about a plan, the     *)
(* result among them, and the verdicts have a status.                      *)
HasPlanId(m) == m.type # "error"
HasStatus(m) == m.type \in {"plan_completed", "result"}

(* The reader's loop over the first n messages.  What has a plan_id goes   *)
(* to on_event, which appends it to execution_events; of the rest, what    *)
(* has a status is kept as the result.  The events are known by the place  *)
(* of their message in the stream.                                         *)
ExecutionEvents(r, n) == {i \in 1..n : HasPlanId(sent[r][i])}
HasResult(r) == \E i \in DOMAIN sent[r] : ~ HasPlanId(sent[r][i]) /\ HasStatus(sent[r][i])

(* The stream has ended.  Without a result the mutation throws, before     *)
(* is_executing is taken back.                                             *)
ReadEnd(r) ==
  /\ r \in Pages
  /\ answer[r] = "pending"
  /\ connection[r] = "ended"
  /\ answer' = [answer EXCEPT ![r] = IF HasResult(r) THEN "success" ELSE "error"]
  /\ is_executing' = [is_executing EXCEPT ![r] = ~ HasResult(r)]
  /\ UNCHANGED <<vars, stored, connection, sent, row>>

(* A fetch or a read rejects. *)
Break(r) ==
  /\ connection[r] = "open"
  /\ connection' = [connection EXCEPT ![r] = "broken"]
  /\ answer' = [answer EXCEPT ![r] = "error"]
  /\ UNCHANGED <<vars, stored, sent, is_executing, row>>

(* The server ends and comes back with no plan; the requests it was        *)
(* handling lose their connection.                                         *)
Restart ==
  /\ stored
  /\ stored' = FALSE
  /\ connection' = [r \in Runs |-> IF connection[r] = "open" THEN "broken" ELSE connection[r]]
  /\ answer' = [r \in Runs |-> IF connection[r] = "open" THEN "error" ELSE answer[r]]
  /\ UNCHANGED <<vars, sent, is_executing, row>>

StreamNext ==
  \/ Restart
  \/ \E r \in Runs :
       \/ Execute(r) \/ ExecuteUnknown(r) \/ Proceed(r) \/ Conclude(r)
       \/ \E inserted \in BOOLEAN : LogRun(r, inserted)
       \/ ReadEnd(r) \/ Break(r)

(* What an execution waits for comes, and a page reads a stream to its     *)
(* end.  Nobody has to ask, connections need not break, and the server     *)
(* need not be restarted.                                                  *)
StreamFairness ==
  \A r \in Runs :
    /\ WF_svars(Proceed(r)) /\ WF_svars(Conclude(r))
    /\ WF_svars(\E inserted \in BOOLEAN : LogRun(r, inserted))
    /\ WF_svars(ReadEnd(r))

StreamSpec == StreamInit /\ [][StreamNext]_svars /\ StreamFairness

-----------------------------------------------------------------------------
TaskNews(m) == m.type \in {"task_started", "task_completed", "task_failed"}

TaskEvents(r, t, n) ==
  {i \in ExecutionEvents(r, n) : sent[r][i].task = t /\ TaskNews(sent[r][i])}

(* Mutation: the first event counts. *)
ShownFirst(r, t, n) ==
  LET task_events == TaskEvents(r, t, n)
  IN  IF task_events = {} THEN "pending" ELSE sent[r][Min(task_events)].type

(* get_task_status of a page that has read n messages, by the type of the  *)
(* latest event; it knows nothing of skipped tasks.                        *)
Shown(r, t, n) ==
  LET task_events == TaskEvents(r, t, n)
  IN  IF task_events = {} THEN "pending" ELSE sent[r][Max(task_events)].type

(* What the page shows of a task is never ahead of the execution it asked  *)
(* for, whatever others do to the plan's own statuses; and when it has     *)
(* read a whole stream, every task is shown as it was settled, only those  *)
(* skipped as pending still.                                               *)
PageTellsTheRun ==
  \A r \in Pages, t \in Task :
    /\ \A n \in 0..Len(sent[r]) :
         Shown(r, t, n) \notin {"pending", "task_started"} => Shown(r, t, n) = last_event[r][t]
    /\ connection[r] = "ended" /\ phase[r] = "returned" =>
         Shown(r, t, Len(sent[r])) =
           IF last_event[r][t] = "task_skipped" THEN "pending" ELSE last_event[r][t]

(* A row of agent_runs that says completed stands for a plan all of whose  *)
(* tasks this request did, except that a task is left out where another    *)
(* execution of the plan failed at one it depends on: the failure is then  *)
(* in no count of this request's.                                          *)
CompletedRowIsWhole ==
  \A r \in Runs : row[r] = "completed" =>
    \A t \in Task :
      \/ last_event[r][t] = "task_completed"
      \/ /\ last_event[r][t] = "task_skipped"
         /\ \E q \in Runs \ {r} : \E d \in Deps(t) : last_event[q][d] = "task_failed"

(* Every caller hears the end of it, by an answer, an error or a broken    *)
(* connection, also if the server is restarted at any point.               *)
EveryCallerAnswered ==
  \A r \in Runs : (answer[r] = "pending") ~> (answer[r] \in {"success", "error"})

(* "This is the final result", says the reader of the stream about what it *)
(* keeps: a page that has read the result message has the result.          *)
ResultReachesPage ==
  \A r \in Pages : connection[r] = "ended" /\ phase[r] = "returned" => HasResult(r)
=============================================================================
