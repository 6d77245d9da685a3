# ClawKeeper in TLA+

TLA+ models of the ClawKeeper server (`src/src`): an LLM decomposes a
bookkeeping request into a plan, `OrchestrationService` executes the plan level
by level on a pool of shared agents, each agent checks policy and writes an
audit trail, and guardrails stand between the agents and external services.
TLC checks the models on small instances; TLAPS proves the main invariants for
every value of the constants.

Everything runs in one JavaScript process. Code between two `await`s is atomic,
and everything else interleaves: two requests, two tasks of a level, two
executions of one plan, a shutdown in the middle of any of them. So throughout
these modules **an action is the code from one await to the next**, and its
name is the handler or the part of it that runs then.

## 1. Inventory

| component | state | operations | hard behaviour | what makes it correct |
|---|---|---|---|---|
| Plan creation (`agents/orchestration_service.ts` 79-145, 393-541) | `plans` Map: tasks, agents, dependency edges | `create_plan`, `assign_agent_by_capabilities`, `topological_sort`, `calculate_task_depths` | the LLM's answer is unchecked: repeated names, unknown and circular dependencies | order and levels respect the dependencies; a cycle loses no task; unique names lose no dependency |
| Plan execution (same file, 150-391) | `plan.status`, `task.status`, counters, event stream | `execute_plan` | tasks of a level in parallel, a barrier between levels, failures in the middle, the same plan executed twice | nothing starts before its dependencies are settled; skips, counts, verdict and events agree |
| Plan routes and page (`api/routes/agents.ts`, `dashboard/src/lib/api.ts`, `CommandCenterPage.tsx`) | the stream, rows of `agent_runs`, the page's `execution_events` and `is_executing` | `handle_execute_plan`, streamed or not; the page's reader | a stream that breaks, an insert that fails after the work is done, a restart with the plan in memory only | every caller hears the end; page and run log tell what happened |
| Agent base (`agents/base.ts`) | `current_tenant`, `status`, `current_task`, `is_connected`; rows of `agent_runs`, `audit_log` | `start`, `stop`, `execute_task`, `log_audit` | one object serves every tenant and its tasks overlap at awaits | work and rows are attributed to the right tenant; the agent's status tells the truth |
| Agent runtime (`agents/index.ts`, `worker_registry.ts`) | `agents` Map, worker instances | `get_agent`, `stop_all`, `get_all_profiles` | check, await, set; a Map iterated while it grows | one started instance per agent; shutdown stops them all |
| CEO and leads (`agents/clawkeeper.ts`, `agents/orchestrators/*`) | BaseAgent's | `orchestrate_workflow`, `delegate_to` | as many attempts whatever the error; tenant read after an await; an LLM chooses the subtasks | delegated work is authorised; the result accounts for every attempt |
| OpenClaw policy (`openclaw/policy.ts`) | none | `evaluate_agent_policy` | several findings, three outcomes | never allows across tenants, without capability, role or approval |
| Circuit breaker (`guardrails/circuit-breaker.ts`) | `state`, two counters, `last_failure_time` | `execute`, `on_success`, `on_failure`, `reset` | answers are counted in a state the call was not admitted in | opens and closes only on the configured runs of answers; recovers |
| Rate limiter and middleware (`guardrails/rate-limiter.ts`, `index.ts`) | token buckets per key | `check_limit`, `reset`, `get_usage` | fractional refill, burst; runs before the tenant is known | the admissions of any stretch of time are bounded; a wait that was told suffices |
| Memory store (`memory/store.ts`, `index.ts`) | `memories` rows, the module's tenant | save, update, delete, restore, cleanup, embedding | read-then-write update, a late embedding | updates are lost only by overlap, deleted memories stay as they are, searches find what is there |
| Invoices (`api/routes/invoices.ts`) | `invoices.status` | upload, approve, pay | check-then-act on payment | paid once, and only when approved |
| API and request context (`api/server.ts`, `db/rls.sql`) | session variables on pooled connections | the auth middleware | three `SET`s on whichever connection is free | a query runs under its own tenant |
| LLM client (`core/llm-client.ts`) | none | `complete`, `decompose_financial_task` | retries with doubling delays | bounded attempts, an answer or an error |
| Observability (`core/observability.ts`) | traces by task id | `start_trace`, `end_trace` | nested tasks share an id | traces end with their tasks |
| WebSocket (`api/websocket_handler.ts`) | set of clients | open, message, close, broadcast | clients removed during a broadcast | best effort |

How they interact: a route calls `create_plan` (which calls the LLM client and
lists the agents' profiles) and `execute_plan`; that calls `get_agent` and
`execute_task` for each task of a level at once; `execute_task` evaluates the
policy, writes the audit trail and works through an LLM completion; the CEO
agent delegates to lead agents through the same two calls. All agents are
shared between requests. SIGINT calls `stop_all` while requests are served.

The server never uses the memory store, the circuit breaker, the validators or
the integration clients yet: they are libraries beside it, modelled where they
keep state of their own. Section 5 says what is left out and why;
`PROJECT.json` lists every component, and the hazards of all of them with their
lines.

## 2. Modules

```
TaskGraph ── PlanCreation ─ MCPlanCreation,     PlanCreationProofs
PlanContract ── PlanRefinement          (PlanRefinement extends PlanExecution)
PlanExecution ─┬─ PlanRefinement ─┬─ MCPlanExecution ─┬─ MCPlanStream
               │   TaskGraph ─────┼──────┘            │
               └─ PlanStream ─────┼───────────────────┘
                       └──────────┴─ PlanExecutionProofs
AgentTask        ─ MCAgentTask,                 AgentTaskProofs
AgentRuntime     ─ MCAgentRuntime,              AgentRuntimeProofs
AgentPolicy      ─ Delegation ─ MCDelegation,   DelegationProofs
CircuitBreaker   ─ MCCircuitBreaker,            GuardrailsProofs (both)
RateLimiter      ─ MCRateLimiter
MemoryStore      ─ MCMemoryStore,               MemoryStoreProofs
InvoiceRequests  ─ MCInvoiceRequests,           InvoiceRequestsProofs
```

A `...Proofs` module extends the modules it is about; an `MC...` module gives it
an instance. `PROJECT.json` maps each definition to the lines it stands for.
An operator headed "Mutation" is a plausible bug beside the definition it would
replace; no specification uses it.

**TaskGraph** holds the two graph algorithms, with reference definitions beside
them (`Acyclic`, `LongestChain`, `Layered`). `TopologicalSort` is Kahn's queue:
a `Turn` of its loop takes the head off and appends what it releases, `Kahn` is
the loop as a function of the number of its turns, and on a cycle the given
order is kept. `TaskDepths` is the depth-first walk: `CalculateDepth` is one
call, which returns the visited set and the depths (`Memo`), `LookAtDeps` its
loop over the dependencies, and `Calculation` the closure that calls itself, as
a function of how many calls may be nested. Loops and recursion are recursive
functions, not `RECURSIVE` operators, so that both algorithms can be proved
about as well as run.

**PlanCreation** is `create_plan`: for every decomposition the plan's agents
and dependencies. A task's id is its position; a name is a model string.

**PlanExecution** is `execute_plan`, called by any number of `Runs` on one
plan. A plan is its `PlanShape`: dependencies, level and place of each task, as
left by `create_plan` and the two algorithms; `MCPlanExecution` computes the
shapes with TaskGraph's operators, and the theorems hold for all shapes (for
layered ones, where they say so: those of graphs without cycles, by
`PlansLayered`).
`Start(r)` is the code up to the first `Promise.all`, `NextLevel(r)` and
`Finish(r)` the code after one, `SettleTask(r, t, success)` the code after an
agent's answer. `task_status` and `plan_status` are shared between runs, as in
the code; `last_event`, the counters and `outcome` are a run's own. `DepsFailed`
keeps a detail of the loop: the tasks of a level are looked at one after the
other, each overwriting its own status.

**PlanContract** is what executing a dependency graph once promises, without
levels, counters or events: tasks are taken up in any groups once their
dependencies are settled, skipped behind a failure, and reported on at the end.
**PlanRefinement** maps `task_status` to its `state` and the returned status to
its `report`.

**PlanStream** puts PlanExecution's runs behind the two routes that call it,
and the Command Center page at the end of a stream. What a step of the
execution tells its callback is written to the stream in the same action
(`Execute`, `Proceed`, `Conclude`); `LogRun` is the insert into `agent_runs`
after it, which may fail; `ReadEnd` is the page's reader coming to the end.
`Break` is a lost connection, after which the execution goes on unheard, and
`Restart` ends the process and empties the Map of plans, so that
`ExecuteUnknown` is what a later request meets. What the page shows is an
operator (`Shown`) of any part of the stream it may have read by then.

**AgentTask** is one shared agent and the calls of `execute_task` on it:
`Accept` (up to the first await: sets tenant, status, task), `Decide` (the
policy row is written; refused, or `execute` begins with the tenant the agent
then holds), `Work`, `RecordRun` and `AuditOutcome` (the two inserts of
`log_audit`, each may fail). `logged_as` is the tenant `log_audit` captured when
called. `StartAgent` and `StopAgent` happen at any time. The histories record
which tasks were accepted while a task was under way (`joined`), and which tasks
were under way when the agent was started or stopped (`restarted`).

**AgentRuntime** is `get_agent` in three steps (`Found` or `Create`, `Started`,
`Register`), and `stop_all` (`StopNext`, `StopEnd`) over a Map kept as a
sequence in key order, which iteration follows as it grows. An orchestrator is
created anew by each request, a worker is the registry's one instance. The
history `raced` holds the agents of which a start overlapped another one or
`stop_all`.

**AgentPolicy** is `evaluate_agent_policy` as operators: the findings that deny,
the need of an approval, the decision. The table of capabilities is a constant.
**Delegation** is the CEO agent and its leads under that policy, for requests
side by side: `Accept` and `Decide` are the CEO's `execute_task`, `Decompose`
the LLM's answer to a complex request, `WorkDirectly` what no lead is routed,
and `HandOver`, `LeadDecide`, `LeadWork` and `Return` one attempt of
`delegate_to`, up to the next attempt or the next task of the workflow.
`RetryCompletion` is `complete` waiting out a 429 or a 5xx. Each agent holds one
`current_tenant`, which `HandOver` reads after the await before it.
`active_traces` is the tracer's Map, in which a second trace of a task id
replaces the first. The histories keep how each attempt ended, under which
contexts leads worked, and who was accepted meanwhile.

**CircuitBreaker** is `execute` split at its await into `Admit` and `Succeed`
or `Fail`, with `Tick` for time and `ResetBreaker`. Time is kept as the seconds since
the last failure, up to the timeout, which is all the code compares.

**InvoiceRequests** is the path of an approve or pay request through the
server, one action per database statement: the middleware's three `SET`s
(`SetVariable`, `SetFails`), then `Approve`, or `FindApproved` and `MarkPaid`.
Each statement goes to any connection of the pool; `settings` is what a
connection was last given and by which request. An update carries the
row-level security policies (`RowVisible`, when `rls` holds: whether the
server's database role is bound by them is deployment) and the audit trigger,
whose failure undoes it (`WriteInvoice`). `found_at` is a history: the length
of the trail when a payment found its invoice.

**RateLimiter** is `check_limit`, `get_usage` and `reset` on a Map of buckets
under `Clock`, which moves the wall clock to any reading, backwards too. Tokens
are counted in units of 1/(60 * `Second`), in which a refill is exact: the
code's fractions without their rounding. Its histories are the admissions since
the last reset, and the wait a refused key was last told.

**MemoryStore** is one action per SQL statement. `updateMemory` is `ReadForUpdate`
and `WriteUpdate`, which writes back the whole row as read and merged; `forget`
is `ReadForForget` (or `ForgetRefused`) and `Delete`; `searchMemories` is `Count`
and `Page`; `semanticSearch` is `VectorSearch` and `KeywordSearch`, or
`FallbackSearch` from either. `StoreEmbedding` and `EmbeddingFails` come any time
after `Remember`. A call takes its tenant from the facade's variable, which
every `SetTenantContext` overwrites. A field's value is named for the call that
wrote it, and `updates` keeps what each update had read.

## 3. Runs

| run | instance | distinct states | question |
|---|---|---|---|
| plan_creation | every decomposition of up to 3 tasks, names possibly repeated, 9 dependency lists | 20 441 | what the two algorithms and the resolution of names guarantee on whatever the LLM answers |
| plan_single | every acyclic graph of 4 tasks, 1 execution | 2 421 | does one execution implement the contract, is its verdict honest |
| plan_stream | a chain, and a cycle with a task behind it; a page and a plain request | 370 509 | what two callers of one plan and the run log are told, with failures, breaks and restarts |
| plan_skip (violation) | 3 tasks, 1 execution | | "Check if dependencies succeeded" |
| stream_result (violation) | the plans of plan_stream, 1 page | | "This is the final result" |
| agent_task | 2 tasks of 2 tenants | 122 762 | what overlap on a shared agent can and cannot mix up |
| agent_runtime | 1 orchestrator, 1 worker, 3 requests, 1 stop_all | 2 225 | who is handed what, and what shutdown leaves running |
| delegation | a viewer's workflow and a super_admin's simple request, 2 leads, 2 retries | 18 824 | what is done for whom, and what the caller is told of it |
| invoice_requests | approval, 2 payments, a payment of another tenant's super_admin and one by a viewer, 1 connection | 2 248 906 | the histories an invoice can have, what is answered, who can change it |
| memory_store | 2 callers of 2 tenants, 3 memories in any earlier state, 2 fields, page of 2 | 843 796 | what overlap can lose, what deletion protects, what searches miss |
| breaker | 4 calls, thresholds 3 and 2, timeout 2 | 1 670 | when a breaker may open and close, and whether it recovers |
| rate_limiter | 2 keys, 5 readings of the clock, 40 a minute, burst of 2 | 822 165 | how much a bucket admits, whether waiting as told is enough |

What they show:

- The two graph algorithms agree. On acyclic graphs the order is topological
  and a level is the longest chain below a task; a level separates a task from
  all its dependencies *exactly* when the graph has no cycle
  (`LevelsSeparateIffAcyclic`), and a cycle loses no task. Repeated names are
  where dependencies get rewired: the last task of a name is the one depended
  on, and the others can have nothing behind them; otherwise only names of no
  task are lost (`NamesResolve`).
- Levels are a barrier (`LaunchAfterDependenciesSettle`), skips happen exactly
  behind a failure (`SkipExactlyOnFailure`), and one execution implements the
  contract, fairness included (`ContractSpec`).
- Two executions of the same plan overwrite each other's task statuses, and a
  skip can then be caused by the other's failure. What each caller still gets
  is a well-formed event stream and a summary that matches it, and nothing
  stays "executing" or "running" (`EventsInOrder`, `SummaryMatchesEvents`,
  `NothingLeftRunning`). A page shows of a task what its own execution did,
  wherever the stream breaks off (`PageTellsTheRun`); a row that says completed
  stands for a whole plan, up to skips the other execution caused
  (`CompletedRowIsWhole`); and every caller hears the end, by an answer, an
  error or a broken connection (`EveryCallerAnswered`).
- On a shared agent a row or the working context can name a wrong tenant only
  if a task of that tenant was accepted before this one came to its outcome,
  and policy rows never do (`MixUpNeedsOverlap`). An agent that reports itself
  busy is; one that is at work may report itself idle, or name another task, but
  only if tasks overlapped or it was started or stopped (`ReportsItsWork`).
- Concurrent first requests for an orchestrator create two instances; the loser
  stays outside the Map and is not stopped. That is the only way either can
  happen (`OneInstanceUnlessRaced`, `ShutdownStopsAllUnlessRaced`).
- The CEO's policy check does not see what the LLM makes of a request. What
  stands behind it is the lead's own check on every attempt: no lead works
  beyond its grants, without the approval, or against the role and tenant of
  the context it was handed (`DelegatedWorkIsAuthorised`). That context is
  another request's only if the two overlapped, and only then can a retry
  overturn a refusal (`RefusalOverturnedOnlyByMixUp`). The caller's result
  accounts for each attempt (`AnswerAccountsForAttempts`), and the one trace
  that is never ended is the CEO's of a simple request delegated under its own
  id (`TracesEndUnlessReplaced`).
- An invoice is approved at most once, before it is paid, and paid only if
  approved (`LegalHistory`); it may be paid twice, but only by requests that
  overlap (`PaidTwiceOnlyByOverlap`). However the connections' settings are
  mixed up, only the owning tenant's administrators change it, because each
  handler asks for the tenant itself (`OnlyOwnersAct`: the mutant that leaves
  this to row-level security breaks it). What the caller is told agrees with the
  audit trail, a failure apart, of which it is not known what was done, with one
  exception: a payment answered as processed need not have been made if
  row-level security is on and a request of another tenant, or another
  connection, was in play (`AnswersMatchTrail`).
- An update of a memory is lost only to one that had read the memory before it,
  which then also puts back fields it was not asked to change
  (`LostOnlyByOverlap`); the version counts the updates exactly while none
  overlapped (`VersionCountsUpdates`). However late an
  update comes, nothing of a deleted memory changes but its embedding, which
  may still arrive (`DeletedIsFrozen`). A call acts for another tenant
  only if that tenant's caller set the facade between its own setting and its
  use (`WrongTenantOnlyByIntrusion`). A first page
  that says it is the last leaves out no more memories than came after the
  count, though it may be older, counted ones that the newer push off it; one
  that says there are more leaves some out, unless more went than came
  (`HasMoreErrsOnlyByChange`). A semantic search misses what says the text only
  where a limit cuts it off, and finds what does not, or not any more, by the
  embedding of the saved text only, among the tenant's memories, once the memory
  is gone or an update has named its text (`SearchGoesByText`).
- A late answer cannot open or close a breaker other than on a full run of
  failures or successes, and cannot keep it from recovering.
- In any stretch of time a bucket admits no more than the burst and the rate
  times that stretch, even when the clock is set back and forth
  (`AdmissionsBounded`), and a caller who waits as long as it was told is
  admitted unless the clock was set back meanwhile (`RetryAfterSuffices`).

Violations (quoted in `PROJECT.json` under findings):

1. *plan_skip*: the skip rule tests for `failed` only, so with a failure at the
   head of a chain the second task is skipped and the third is started
   (`orchestration_service.ts:201`; the comment above it says the check is
   whether dependencies succeeded).
2. *stream_result*: the result message of a streamed execution has a `plan_id`,
   so the reader takes it for an event (`dashboard/src/lib/api.ts:267`) and its
   branch for the final result is never reached; the page ends in "No result
   received from stream" and stays `is_executing`.

The models also show, or reading for them did, what the code does differently
from its documentation without a run of its own:

- The outcome rows of overlapped tasks can carry another tenant's id
  (`base.ts:262`; docs/MULTI-TENANCY.md:4 has every audit event tenant-scoped).
  `MixUpNeedsOverlap` says when.
- A worker is listed only until it is first used (`agents/index.ts:145`, under a
  comment at 142 that says all are added).
- An invoice's audit row can name the user of another request whose `SET` came
  to the same connection in between (`server.ts:79`; docs/MULTI-TENANCY.md:30).
- Where row-level security binds the server's role, a payment whose connection
  another tenant's request takes over between the search and the update changes
  no row and is answered "Payment processed" all the same: the row the update
  returns, or its absence, is not looked at (`invoices.ts:216`;
  docs/API.md:125, 139). `AnswersMatchTrail` has the exact exception.
- A super_admin has "All tenants, all permissions" (docs/MULTI-TENANCY.md:146),
  and the policies let him pass (`db/rls.sql:99`), but approve and pay ask for
  the tenant of his token themselves (`invoices.ts:168`, 206): another tenant's
  invoice is "not found" for him. `o1` of the invoice run is one.
- The guardrails middleware runs before the tenant is known to the request, so
  the limiter never applies (`guardrails/index.ts:20`; SECURITY.md:73,
  docs/MULTI-TENANCY.md:219), and `requests_per_hour` is read nowhere.
- A workflow's caller is told it completed successfully whatever became of its
  tasks (`clawkeeper.ts:108`); the results listed with it are accurate.
- With a limit of 1 a semantic search has no keyword half; a page shows a
  skipped task as pending for good.

### Bounds, and why they are enough

- Three tasks with names from three give every graph of up to three tasks that
  has at most two dependency entries per task, cycles of length 1 to 3, a
  duplicate edge, a self-edge and a repeated name; `MaxPlans` = 1, since a plan
  does not depend on those before it.
- Four tasks in one execution give chains of length four (a task two steps
  behind a skipped one), diamonds, and levels of up to four tasks. Acyclic
  graphs are taken up to renaming (dependencies on smaller numbers only).
- A page and a plain request over a chain of three, and over a cycle of two
  with a task behind it, give two executions in every order, at levels that
  differ, with a level of several tasks and one with dependencies in the same
  level. The theorems have any plans and any requests.
- Two tasks of two tenants exhibit every overlap on an agent: a mix-up needs
  one task and one that joins it. Three requests for an agent: two that race and
  one that comes before or after.
- Two requests through the CEO, one a workflow, are a request and one that
  overlaps it. The decompositions have a task the viewer may not ask for, one
  the lead has no grant for, one with an injection, an unroutable one and a
  part that works; `MaxRetries` = 2 (the code's value) and `MaxCalls` = 2 (of
  the code's 5: one retry, and its absence).
- Two payments and an approval: a double payment needs two requests, an
  approval before or after them a third. On one connection five requests
  overwrite each other's settings, or fail to give any, which is also how a
  statement sent to a second connection fares; the theorems have any number of
  connections.
- Two callers of the memory store overlap once; earlier updates, missing
  embeddings and deletions are in the initial states. Three memories against a
  page of two let a limit cut something off, and two fields let an update touch
  one and put the other back.
- Four calls admit a full run of failures and one late answer. `MaxFailures`
  (7) caps `failure_count`, which the code lets grow while open.
- At 40 requests a minute and two ticks a second a token takes three ticks, so
  it comes due within a second and a told wait is rounded; a bucket of two is
  full after three seconds, and the clock has five readings. `MaxLog` = 3 admissions per
  bucket, one more than its burst.

The theorems have none of these bounds but `MaxFailures` and `MaxLog`, which
are arbitrary there.

Deadlock checking is off where the system really stops: when every execution,
request or call of the instance is over. An agent can always be stopped and
started, a breaker always be reset and the clock always be set, so it is on for
agent_task, breaker and rate_limiter.

### Fairness, and why the code justifies it

- *PlanExecution*: `NextLevel`, `Finish` and each task's answer are weakly fair:
  a resolved promise resumes, and an agent's answer arrives because completions
  end (attempts and delays are bounded) and database errors are caught. `Start`
  is not fair: nobody has to execute a plan.
- *PlanStream*: the same steps, the insert (which settles, one way or the
  other) and the page's reading of a stream that has ended. Asking, breaking
  and restarting are not fair.
- *AgentTask*: the steps of an accepted task, for the same reasons. `Accept`,
  `StartAgent` and `StopAgent` are not fair.
- *AgentRuntime*: a start that has begun ends (`on_start` is empty), and a loop
  that has begun resumes. Nobody has to ask, or to shut down.
- *Delegation*: every await of a request under way ends; `Accept` is not fair.
  That a request is answered is then a matter of the bounded retries and of the
  finite workflow.
- *CircuitBreaker*: time passes, the service answers every call, and clients
  keep calling. The last is an assumption about the clients: a breaker leaves
  "open" only when called.
- *MemoryStore*, *RateLimiter*, *InvoiceRequests*: safety only.

## 4. Proofs

Eight modules, checked by TLAPS for all values of the constants. Every
invariant and every action property that a passing run checks is a theorem.
Types are theorems too, so no run lists `TypeOK`.

**PlanCreationProofs** (assumption `PlanCreationAssumption`: a decomposition is
a sequence of records of a name, dependencies and capabilities, as
`decompose_financial_task` declares it and `create_plan` needs it; there is a
profile). `PlansMade` reduces every invariant to one plan: what is in `plans`
was made by `NewPlan` from some decomposition. The rest is about the operators,
for any graph.
- *Induction.* The library's induction takes a predicate as a parameter, which
  the provers cannot instantiate, so it is restated with sets: a set of numbers
  has a least one (`LeastOf`), hence one that holds 0 and successors is all of
  them (`ByInduction`). From it come the existence of a function defined by
  recursion (`Recursion`), of the greatest element of a finite set (`MaxOf`)
  and of its listing by a key (`Ordered`).
- *Names.* `Mapped` gives a task's dependencies the places they were asked for
  at; `PlansResolveNames` follows.
- *The sort.* After any number of turns what is sorted and what is queued are
  together exactly the tasks whose dependencies are all sorted, none twice, and
  what is sorted has its dependencies before it (`KahnInv`). A turn with a
  queue sorts one task more, so after as many turns as tasks the queue is empty
  (`KahnEnd`); then what is left over has a dependency in itself, so nothing is
  left over exactly if there is no cycle (`KahnSortsIffAcyclic`). `Topological`
  and `PlansOrdered` follow.
- *The walk.* `WalkInv` says, with the set of calls under way, that depths are
  bounded by the number of finished tasks and, on an acyclic graph, that a
  finished task is one above the greatest of its dependencies, which are
  finished. What a call promises (`Answers`: it keeps the invariant, changes no
  depth that was found before, and visits its task) is proved by induction on
  the calls that may be nested, each by an induction on its loop
  (`CallAnswers`); the premise that the calls under way rank above the task
  asked for is what excludes meeting one of them, and the sort's order serves
  as the rank (`Ranked`). `Depths` is the result. A chain climbs at least one
  level a step and a chain as long as the depth can be chosen, so the longest
  one is the depth (`DepthOfChain`): `PlansDeepAsChains`. Conversely a layered
  graph has no cycle (`LayeredIsAcyclic`): `PlansLayered`.

**PlanExecutionProofs** (`PlanAssumption`: finitely many tasks, at least one,
plans of the right shape; `StreamAssumption`; any `Runs`). The properties are
not inductive: they relate what a run has said to the level its loop has
reached. `LevelInv` says that a run has taken up exactly the tasks below
`next_depth`, that what lies more than one level below is settled, that an idle
run is at the start and a returned one waits for nothing. It gives
`TypeCorrect`, `LaunchOrder` (the barrier, for layered plans), `OrderedEvents`,
`Summary` (the counters are cardinalities of sets of events, `CountInv`) and
`NoOrphans`.
- *One execution.* `SoleInv` adds that the shared statuses are this run's
  events, that a skipped task is behind a failed one, and that the verdict
  stands: `SkipsExactly`, `HonestOutcome`, and `Implements`, that a single
  execution of layered plans implements `ContractSafe`, by the initial states
  and a case per action (`Start` and `NextLevel` take up a level, an answer
  concludes a task, `Finish` reports). That plans without cycles are layered is
  `PlansLayered`.
- *Behind the routes.* Every step of PlanStream is one of PlanExecution or
  leaves it alone (`StreamImplements`), so that what holds of executions holds
  of streamed ones (`StreamedExecutions`). `WholeRows` needs where failures and
  skips come from (`CauseInv`). A step's news has at least one line to be
  written in (`LinesExist`, by the least set without one), so the sorted stream
  never disables a step of the execution (`LinesOfStep`).
- *The page.* `PagesTellTheRun` rests on `StoryTold`: a message that says a task
  has ended agrees with the run's last event about it, which then stays
  (`NeverAhead`), and as long as a connection is not broken there is a message
  from which on all news of a task is the run's last event (`UpToDate`). A step
  writes what the run newly says, and nothing else of tasks, behind what was
  written (`StepWrites`); a broken connection keeps a prefix, for which
  `NeverAhead` is enough.

**AgentTaskProofs** (`AgentAssumption`: each task has an owner). `IInv` adds
that while a task is under way the agent's one tenant belongs to the task's
company (`Holder`), and so does what `log_audit` has captured (`Captured`).
`Attribution` follows. `AgentReports` needs the same of tasks instead of
tenants: two tasks are under way at once only if one joined the other
(`Overlapping`), so while one is alone nobody else sets the status.

**AgentRuntimeProofs** (`RuntimeAssumption`: agents, workers and requests are
told apart). `IInv` says of an agent no start has raced for that its one start
finds it outside the Map (`SoleStart`), that whoever holds it holds what the
Map holds (`HandedFromMap`), and that what runs of it is being started or still
ahead of the loop that stops it (`Running`). `TypeCorrect`, `OneInstance`,
`ShutdownStopsAll`.

**DelegationProofs** (`DelegationAssumption`: the routes and the LLM's answers
are sequences of the right kind). An answer accounts for its attempts because a
list of tasks is worked through in order (`Stages`), the loop numbers every
attempt (`Accounts`), and the policy's verdict depends on the task and the
context handed over only (`Verdicts`, `Contexts`). `TypeCorrect`,
`AuthorisedWork`, `RefusalsStand`, `AccountsAdd`, `TracesEnd`.

**GuardrailsProofs** (`BreakerAssumption`: positive thresholds;
`LimiterAssumption`: positive rate and resolution). The breaker's counters never
run ahead of the streaks of outcomes really seen (`Streaks`), so a threshold
that is reached is a streak: `BreakerCounters`, `BreakerOpens`, `BreakerCloses`.
A bucket's tokens and what it has admitted since any one admission are together
no more than the burst and the refill since (`Spent`), and a key that was told
to wait has a token or will by then (`Promised`): `TypeCorrect`,
`AdmissionsAreBounded`, `WaitsSuffice`.

**MemoryStoreProofs** (`MemoryAssumption`: finitely many memories, a limit, a
caller has a tenant). A row is what its last update left, and a read that is
under way is what some earlier update left (`RowsLeft`, `ReadsLeft`); the
facade's tenant is the caller's own or an intruder's (`FacadeTenant`).
`TypeCorrect`, `UpdatesSurvive`, `VersionsCount`, `TenantsMixOnlyByIntrusion`,
`DeletedStaysFrozen`. `PagesSayWhetherMore` counts: the page is part of what
matches now, as large as it can be. `SearchesGoByText` also needs that a text
which is not the saved one any more was named by an update, in the row and in
what a call is about to write back (`TextsNamed`, `ReadsNamed`), and that what a
search has found so far stays its tenant's and embedded (`HitsOwned`).

**InvoiceRequestsProofs** (`InvoiceAssumption`: each request has an operation, a
role and a tenant). The strengthening relates the status to the trail
(`Statuses`), says of a request about to pay that it found the invoice approved
before any payment, so that it is approved or paid still (`AboutToPay`), and
that a request's row is its last act (`Authors`). For the answers it also says
that an uncrossed connection has had the owner's tenant from the first setting
on (`OwnConnection`), so that an update misses the row the search before it
found only where something was crossed. `TypeCorrect`, `History`,
`SecondPayments`, `OwnersOnly`, `HonestAnswers`.

Only model-checked, because liveness and `ENABLED` are out of the prover's
reach: `EveryCallerAnswered`, `AcceptedTaskReturns`, `ShutdownEnds`,
`EveryRequestAnswered`, `RecoversWhenFailuresStop`, and the fairness part of
`ContractSpec`.

## 5. Not modelled

- A plan with no tasks (the LLM may answer `[]`): the loop is not entered and
  the plan is reported completed. PlanExecution assumes a task.
- A decomposition that is not of the declared type: `create_plan` throws before
  it stores anything.
- The `catch` of `execute_plan` (375-390): every await in the `try` is inside a
  task's own `try`, and what an event callback throws is caught where it is
  called (`emit_event`, 546-553), so nothing modelled reaches it.
- The upload of an invoice: its INSERT names columns that db/schema.sql does not
  have. An invoice is there in any status it can have before payment.
- The contents of tasks, prompts, results and audit details.
- The components marked `not_modelled` in `PROJECT.json`, each with its reason:
  single statements and formatting around the database's state, pure I/O, and
  code nothing in the server calls.
