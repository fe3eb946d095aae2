# panos-mcp-go: TLA+ models, model checks and proofs

`panos-mcp-go` is an MCP server in front of a PAN-OS firewall or a Panorama.
Clients call tools; each call runs in a goroutine of its own; the tools read and
edit one shared *candidate config* on the device over its XML API and commit it.
This directory holds the TLA+ models of that server, the TLC configurations that
check them, and the theorems TLAPS proves about them.

Source references are to the repository's `tools/` directory unless they name
another path.

## Inventory

| Component | State it keeps | Operations | Hard behaviour | What makes it correct |
|---|---|---|---|---|
| Mutation lock (`tools.go` `Deps.writeMu`, `LockWrites`, `RLockReads`) | one `sync.RWMutex` | lock and unlock for writers and readers, always deferred | writer priority, goroutine per call, cancelled calls still take it | one writer or many readers inside; nobody starves |
| Generic CRUD handlers (`tools.go` `*Core`, `pango_adapter.go`, `parent_scope.go`) | none; candidate config on the device | list, get, create, update, delete | an update is four device requests; each may fail, or take effect and lose its answer | cycles are atomic; an answer shows what is stored |
| Singleton settings (`system_scope.go`) | as above | get, update (create when absent) | absent at the seed read, present at the create | as above |
| Config jobs (`device_tools.go`) | device job queue, running config | commit, push, validate, revert, diff, job status | the wait ends before the job does; abandoned jobs run into later calls | a good result describes the config as it is; reads are stable |
| Rule order (`policy_tools.go`, `rulebase_tools.go`) | order of a rulebase | create with position, move | two writes, either may fail; MoveGroup plans from a listing | an ok answer is a rule in its place |
| Log query (`log_tools.go`) | log jobs on the device | submit, poll, finish; paging | takes no lock; deadline against answer; jobs left behind; log grows between pages | no job forgotten when it can be named; paging skips nothing and advances |
| List paging (`tools.go` `clampList`, `projectList`) | none | clamp, filter, page | offsets past the end, limits out of range | page within bounds; pages partition the list |
| Scopes (`resolveLocation`, `*_scope.go`, `scope_common.go`) | none | input to location or error | exclusivity rules, device type, defaults | one location, never a silently dropped field |
| Redaction (`redact.go`) | none | replace secrets, collapse raw responses | overlapping secrets, empty messages | no submitted secret in an answer |
| Builders and overlays of the resources: objects, security profiles, rules, network, device and identity profiles, system services and dynamic updates, Panorama containers, zones (the other `*_tools.go`) | none | build an entry on create, overlay a stored one on update, summarise one | exclusive branches, lists merged by name, empty lists, entries others have edited in between, answers that were lost | no two exclusive branches, nothing the entry cannot be without is missing, what was not given is kept |
| Server (`main.go`, `server.go`) | startup order, HTTP server | connect, serve, shut down | shutdown deadline against open streams | the process exits; fields are written before handlers run |
| Configuration (`config.go`) | none | environment to `Config` | alias precedence, TLS rules | no contradictory config starts a server |
| Lint rules (`rules/`) | none | | | build tooling, not part of the server |

How they interact: handlers share the lock and the `pango.Client`; every
mutation of the device goes through the write lock; the device runs commit, push
and validate as jobs of its own; the log query goes past the lock. A handler first
asks its scope resolver where to work, then its builder or overlay what to write;
the cores do the requests, and errors go through the redaction. The configuration
decides whether tools that write are registered at all.

## Modules

```
WriteMu ------+--> CrudHandlers --- MCCrudHandlers     refines ConfigStore
              |         ^
ConfigData ---|---------+--> ConfigStore
              +--> ConfigJobs
              +--> RuleOrder ---> RuleHistory --- MCRuleOrder      refines RuleStore
Rulebase ---------+--> RuleStore
WriteMuProofs -+--> CrudHandlersProofs
               +--> ConfigJobsProofs
               +--> RuleOrderProofs

Schemas --+--> Resources ---> ResourcesProofs
          |        +----------------------------------- MCResources
          +--> ObjectSchemas  ProfileSchemas  RuleSchemas        |
               IdentitySchemas NetworkSchemas SystemSchemas      |
                        +------> Catalogue ----------------------+
Scopes ------------------------------+----- MCScopes

LogQuery ---------> LogQueryProofs
LogPaging ----+
ListPaging ---+---> PagingProofs
   +-------------------- MCListPaging
Config -----------> Server --------- MCServer
                       +---> ServerProofs <--- Scopes
```

* **WriteMu** is the lock. `writer` and `entered` are the mutex's writer slot and
  whether its owner is inside, `readers` the calls that hold it shared, `parked`
  the readers that queue behind a writer. `LockClaim` and `LockEnter` are the two
  halves of `RWMutex.Lock`, since readers may still be inside between them.
* **ConfigData** is the data of the CRUD tools: nodes are absent or entries,
  entries give fields a value or leave them unset, a patch is a partial entry.
  `Overlay` is what the update handlers do with it, `Landed` what the device does
  with a set, an edit and a delete.
* **CrudHandlers** is the five `*Core` functions, the singleton handlers and the
  adapters below them. `pc[c]` is the request call `c` makes next; `seed[c]` the
  entry it has read and overlaid; `view[c]` what its answer shows; `late` the
  writes the device has yet to apply although their callers are gone.

  | Action | Code |
  |---|---|
  | `RejectInput` | input, builder and location errors before the lock |
  | `LockWrites`, `EnterWrite`, `UnlockWrite` | `defer d.LockWrites()()` |
  | `RLockReads`, `UnlockRead` | `defer d.RLockReads()()` |
  | `ReadNode` | `listCore`, `getCore`, `systemGetHandler` |
  | `CreateNode`, `DeleteNode` | `createCore`, `deleteCore` and their adapters |
  | `SeedRead`, `SeedFails` | the first read of `updateCore` and `systemUpdateHandler`, and the overlay |
  | `CompareStored`, `CompareFails`, `EditNode` | pango's `UpdateWithXpath`: read again, edit when something differs |
  | `ReadBack`, `ReadBackFails` | the get that ends every create and update |

* **ConfigStore** is what those tools promise: every call takes effect on the
  candidate in one step between its invocation and its answer, and an error
  promises nothing. `CrudHandlers` implements it (`ImplementsStore`): a call that
  waits for its read-back counts as applied.
* **ConfigJobs** is commit, push, validate, revert, the diff and the job status
  over whole configs, with the device's job queue (`jobs`, first in first out,
  one job active) and `waitJob` as `PollJob` and `WaitEnds`.
* **Rulebase** is an ordered rulebase as data: which places a request may name, when a
  rule is in one (`Placed`), and what a create, a move and a delete make of the order.
* **RuleOrder** is one rulebase under create, move, delete and list. The position
  check comes before the lock, `CreateRule`, `PlanMove` and `MoveRule` are the
  device requests of a create with a position.
* **RuleStore** is what those tools promise of the rulebase: each write happens in one
  step between its invocation and its answer. After an ok the whole of the request is
  done; after the answer that positioning failed the rule is there: at the bottom when it
  was new, where it stood when it was not, or in its place when only the move's answer was
  lost; after an error the rulebase is as it was, or holds the rule created but not
  placed, or the move or delete was done and its answer lost (`Outcomes`).
* **RuleHistory** adds to `RuleOrder` a variable, `before`, with the rulebase as it was
  when the lock was last free of a writer. It is the store's rulebase: what a call does
  in two writes happens there at once, when it unlocks. The steps are those of
  `RuleOrder`, and none of them looks at `before`.
* **LogQuery** is the log query, which takes no lock. `ctx[c]` says what has ended the
  call's context, if anything (JobWait, the caller's deadline, the caller's cancel),
  `gone[c]` whether the caller's own context is over as well, `id[c]` the job it knows
  of, `jobs` the device's jobs with the call each is for.

  | Action | Code |
  |---|---|
  | `Submit`, `SubmitCut` | `StartJob` in `runLogJob`, with an answer or cut off by the context |
  | `Poll`, `PollFails`, `PollCut`, `Wake`, `Undecodable` | `waitLogJob` and the decoding of its body |
  | `GiveUp`, `FinishLogJob` | the end of `runLogJob` and `finishLogJob` |
  | `LogJobError` | `logJobError` |
  | `JobWaitEnds`, `CallerEnds` | the two contexts |

* **LogPaging** is `logPage` and `encodeLogEntries` under a client that follows
  `next_skip` through a growing log. Entries are the sizes of their parts; the loop of
  `encodeLogEntries` is a recursive function (`EncodingsOf`) whose body is `encodeNext`.
* **ListPaging** is `projectList` and `clampList` under a client that pages through a
  list while other calls create and delete entries; `KeptRuns` is the filter's loop.
* **Schemas** is what the tools of a resource do with its fields. All resources are
  built from the same few parts, so a resource is a record that says which field goes
  through which part, and `Overlaid`, `Built`, `Accepts` and `AcceptsCreate` are the
  update function, the create function and what the handlers refuse, for every schema.

  | Part of a schema | Code |
  |---|---|
  | `keep`, `clear`, `members`, `orAny` | `setStrPtr` and `setPtr`; a list assigned when it is given; `replaceListOrRejectEmpty`; `orAny` of a rule |
  | `merge` | `indexByName` and the server lists built on it, in which a server keeps the secret it is not given again |
  | `choices` | fields of which an entry has one: the value of an address, the type of an external list, the recurrence of an update, the translation of a NAT rule, ... |
  | `by`, `inplace`, `seed`, `fixed` | whether a selector names the branch, whether its fields can be given without it, whether picking the stored branch again keeps the rest, whether another may be picked |
  | `other`, `beside`, `hidden` | what other clients can store and no input can |
  | `need`, `must`, `whole`, `some`, `with`, `apart` | what create, the entry or the branch cannot do without, and what excludes or requires what |
  | `secret` | what no answer shows |

* **ObjectSchemas**, **ProfileSchemas**, **RuleSchemas**, **IdentitySchemas**,
  **NetworkSchemas** and **SystemSchemas** hold one schema for each of the
  resources, read from its builder and its overlay; **Catalogue** is all of them. Where
  two resources treat their fields alike the set holds one of the two. Names of fields
  are those of the tools' inputs.
* **Resources** is one entry of one resource (any), under its tools and under the other
  administrators and servers of the device, whom no lock holds back. `stored` is the
  entry; `call` the write under way with what it read (`seed`) and what it sends;
  `answer` what the last answer showed, `lost` a write that landed and was answered as
  failed.

  | Action | Code |
  |---|---|
  | `Create`, `UpdateStored`, `UpdateAbsent` | builder or overlay up to the write, or the refusal; `systemUpdateHandler` when nothing is stored |
  | `WriteOk`, `WriteFails` | the device request and its answer; a set merges, an edit replaces (`Landed`) |
  | `Delete`, `Show` | `deleteCore`; `getCore` and `listCore` with the summaries |
  | `Elsewhere` | an edit or a delete by anybody else |

  One entry and one write at a time is enough here, because the order of the
  handlers of one process is what `CrudHandlers` is about, and `Elsewhere` does to an
  entry, between a read and a write, whatever a second writer could.
* **Scopes** is every resolver of a location, as an ordered switch (the first
  condition that holds decides): `resolveLocation`, the device, profile, management,
  network, zone and certificate scopes. `WhereAsked` compares it with what the tools'
  descriptions say the selectors are for (`Meant`). The families are those the
  schemas of `Catalogue` name in `at`.
* **Config** is `LoadConfig`: which environments are accepted and what they turn on.
* **Server** is the process from `main`: load, connect, serve, drain, exit. `clock`
  is what is left of the drain; a call takes a number of requests, or is a stream;
  `owed` are the calls whose requests fit into the drain when it starts.

  | Action | Code |
  |---|---|
  | `Load`, `Connect`, `ConnectFails` | `runMain`, the first half of `run`, and the listener |
  | `Call` | `requireBearer`, the registration of the tools that write |
  | `Tick`, `Answer`, `HangUp` | time, the handlers, the clients |
  | `Signal`, `Shutdown`, `Drained`, `Close` | `signal.NotifyContext` and `serveHTTPOnListener` |
  | `StdioStops`, `ServeFails`, `ServeEnds` | the two arms of the transports' ends |

* **MC\*** give TLC the symmetry sets and the ranges of inputs; the `.cfg` files hold the constants.
* Operators called *Mutant* are plausible wrong versions of the definition after
  them. Nothing in the specifications uses them; they exist to show that a
  property can fail: put in place of the right one, they break it.

## Runs

| Run | Instance | Question |
|---|---|---|
| `crud_safety` | 3 calls, 1 node, 2 fields, 1 value, all kinds of call, lost answers | are cycles atomic, answers current, the lock exclusive? do the handlers implement the atomic store? |
| `crud_liveness` | 3 calls (get, update, delete), late writes | is every call answered? |
| `crud_late_write` | 2 updates of one named entry, late writes | **violated**: does an edit keep what another call wrote, when that call gave up on its request? |
| `config_jobs` | 2 calls of every config tool, 2 configs, 2 jobs that may never end | do results describe the config they speak of, is a watched job left alone, is every call answered? |
| `rules_safety` | 2 calls, 3 rules, every start order | is an ok answer a rule in its place? does each call change the order in one step, as `RuleStore` says? |
| `log_query` | 2 calls, 2 jobs, every fault | are answers true of the job, is no nameable job forgotten, is every call answered? |
| `log_lost_submit` | 1 call, 1 job, no faults | **violated**: is the job dropped whenever the wait ends early? |
| `log_paging` | logs of up to 5 entries, pages of 3, budget 4 | does paging skip or repeat entries, cut too much, or get stuck? |
| `list_paging` | lists of up to 4 entries, limits -1 to 4, offsets -1 to 5 | is a page within its list, and are the pages the list? |
| `resources` | every schema, one value, two elements of a merged list; inputs of each branch with and without what it needs, one or two fields more, empty and refused values | can any sequence of writes, lost answers and edits by others leave an entry with two kinds or half a kind, show a secret, lose what was not given, or make a retry do something? |
| `scopes` | every family, every set of its selectors, every rulebase, both device types | does a call work where its selectors say, or not at all? |
| `server` | 2 calls of up to 3 requests or streams, a drain of 2; the environments that decide about writes, the door and TLS | who can write, who gets in, and does a signal end the process cleanly? |

Why the bounds are enough. A cycle is broken by one other writer, and a reader
beside them shows whether reads are kept out, so three calls cover every pair and
their common queue. Two calls suffice for `config_jobs` and `rules_safety`, where a
call's job or plan outlives its step and the second call is the one that meets it.
One node is enough because calls on different nodes touch
disjoint parts of the candidate and only share the lock. In `crud_safety` every kind of
tool meets on it, although a resource has either named entries (create, update, delete)
or one setting (the update that creates): more behaviours than any one resource has,
and the theorems hold for each set of `Tools`. Two fields are needed so
that one caller's field can be lost by another; one value plus "unset" makes them
differ. Two jobs are one abandoned and one watched. Three rules give a pivot a
neighbour that is neither the rule nor the pivot. Two readers beside one writer are
what it takes to starve it, so the liveness run of the CRUD handlers has three calls. Two
log queries are enough for one to meet the other's job; they share nothing else. The
paging runs have entries below, at and above the size budget (sizes 1, 3 and 5 against
4), pages that are full, short and empty, and limits and offsets on both sides of every
clamp. A log of five has room for entries to arrive, after a first page that was cut, so many
that a second page, newest first, starts above the first and leaves a gap between them; four
entries have not. That the sizes and lengths themselves do not matter is proved. In
`resources` a schema is cut to fields it treats differently (`Focus`: of fields in the
same branches with the same treatment, one) and to two of the branches it treats alike,
one to be stored and one to be picked; the operators look at nothing else of a field, and
the theorems hold for every schema that is well formed, as all of the catalogue are
(`CatalogueAssumption`). One value and "unset" are enough to see a
field kept, lost or overwritten by nothing; that a field takes the new value is what the
runs of `CrudHandlers` check. In `server` calls of one to three requests are below,
at and above the drain of two. Symmetry (calls,
fields, configs, rules) is used in safety runs only.

All type invariants are proved (see below). Those of `CrudHandlers`, `ConfigJobs`, `LogQuery`
and `Resources` are in no run; those that say more than types (a rulebase of distinct rules, a
page of distinct entries, a skip within the log) are checked by a run as well. The lock
discipline of `RuleOrder` is proved and in no run: it is that of the two other users of the
lock, which have one.

Bounds in the models: `MaxRequests` (the longest call before a shutdown), `MaxJobs`
(jobs the device accepts in a behaviour), `MaxLog` and `MaxEntries`; the rulebase is bounded by the set of rules. `Nlogs`,
`Budget`, `DefaultLimit` and `MaxLimit` stand for the code's 50 to 500 entries, 256 KiB,
50 and 200.

### What the violated runs show

* `crud_late_write` (`EditKeepsTheRest`): a handler that gives up on a request, because
  its context ended, unlocks at once. In the trace an update gives up on its edit, which
  the device has queued; a second update of the same entry takes the lock and reads it;
  the device applies the first edit; and the second edit, a whole entry made of the older
  read, takes the first one's field out again without a word. The second caller had asked
  for a value that was stored already: without the late write it would have sent no edit at
  all. The lock's comment (`tools.go:26-28`) speaks of interleaved cycles as excluded; they
  are among the handlers, not among abandoned writes. All theorems about atomicity
  therefore assume no late writes. The run makes updates only: any other abandoned write
  would do as the first one, but an edit is what undoes it.
* `log_lost_submit` (`DroppedWhenWaitEnds`): `README.md:284` says a query whose time runs
  out, or whose caller cancels, asks the device to drop the unfinished job. The time
  covers the submit too; cut off there, the query knows no job id and drops nothing,
  while the device may have accepted the job.

Three more places where the models and the repository's words part have no run of their own:

* `tools.go:31-33` says a read waits until a job completes. It waits until `waitJob`
  returns, which is earlier when `JobWait` runs out; `ReadsSeeNoWrites` therefore lets the
  running config move under a read by a job nobody waits for.
* `policy_tools.go:446-451` and the answer at line 489 say a rule whose move failed "sits
  at the rulebase bottom". That is so only of a new rule that was not moved. A create of a
  rule that exists is a set, which merges onto it and succeeds; when its move then fails, the
  rule stands wherever it stood before, and the answer says the bottom all the same. And
  when the move was made and only its answer lost, the rule is in its place. `RuleStore`
  allows all three after that answer, which the models therefore call "positioning
  failed", so `ImplementsRuleStore` holds of what the code does and not of the answer's
  last words: a client that gets it has to list the rulebase.
* `device_scope.go:105-106` speaks of an "exactly one scope" contract; on a firewall
  `resolveDeviceScope` takes shared and lets the vsys go (lines 150-155). `Yielding` lists
  this with the two precedences the repository does document.

### Fairness

`FairSpec` is weak fairness of a call's own steps: a handler runs on, since each
device request has the HTTP client's timeout and `waitJob` its deadline. Nothing is
assumed of how long a device job takes, and calls need not be made. Taking the
writer slot has strong fairness, since `sync.Mutex`, which guards it, hands itself
to the oldest waiter once that has waited a millisecond. Readers need no such
assumption: the model admits them as the RWMutex does. `LogQuery` assumes of the
handler's steps and of the JobWait timer that they happen, of jobs nothing; the paging
specifications assume a client that asks for the next page. `Server` assumes that the
main goroutine goes on, that time passes and that handlers answer once their requests are
done. It does not assume that the client of a stream ever hangs up, nor that a signal
comes: `Exits` is about a process that has had one. That stdio ends with the context's
error, and so with status one, is the SDK's `Run`, taken from how `main` uses it.

## Proofs

`WriteMuProofs` shows that every operation of the lock keeps `MuInv`: a writer inside
has no reader beside it, and only a claimed slot parks readers.

`CrudHandlersProofs` proves, for every set of calls, names, fields and values:

* `LockDisciplineHolds` and `TypesHold`, whatever the faults. The lock discipline is
  not inductive by itself: the steps inside a handler must fit its request, or a
  reader could be at a writing step. `LockedInv` adds that (`StepFitsRequest`).
* `SeedFreshHolds` and `AnswerCurrentHolds`, assuming `"late" \notin Faults`. The
  inductive invariant `AtomicInv` adds `WrittenBack`: at the read-back the node is
  there with the caller's fields in it. The argument: a step that changes the
  candidate is made by the one call inside the write lock (`OthersAtomic`), so what
  is claimed of the others is either vacuous or about an unchanged candidate; for
  the call itself (`SendAtomic`) it follows from overlaying being idempotent
  (`OverlayAgain`).

`EditsKeepTheRest` is `EditKeepsTheRest` of the run `crud_late_write` under the same
assumption: an edit sends the whole entry, and `SeedFresh` makes that a change of the
caller's fields only.

It also proves `StoreImplemented`, the refinement: without late writes `Spec` implies
`ImplementsStore`. The mapping shows the store a call's phase (`StorePhase`) and its
answer (`StoreView`): a call that waits for its read-back has been applied, and what it
will show is the entry now in the candidate. `AtomicInv` makes that mapping honest: no
other call can change that entry before the read-back (`ViewGo`). Of the steps, a
request that fails before it takes effect is the store's `Fail` (`FailStep`), one that
changes the candidate, or reads it for the answer, is its `Apply` (`EffectStep`), and
every other step stutters (`QuietStep`).

`LogQueryProofs` proves `NotSeenFinishedHolds`, `OwnJobOnlyHolds` and
`NamedJobDroppedHolds` for any calls, jobs and faults, from one inductive invariant with
a part per call: `CallInv` ties the error a call carries to what ended its context,
`JobInv` ties its step to the state of its job. A step of one call leaves the others and
their jobs alone (`OthersKept`, since a job belongs to one call), so each action is
examined for its own call only (`OwnKept`). `QueriesEnd` is what bounds a query: the one
step that leads nowhere is polling again, and that takes a live context, so once JobWait or
the caller has ended it (and an ended context stays ended) at most six steps remain.

`ConfigJobsProofs` proves, for any calls, configs and jobs, `LockDisciplineHolds` (with
the types), `ResultsAreCurrent`, `WatchedIsAlone` and `ReadsAreQuiet`. On top of
`LockedInv`, made as for the CRUD handlers, `JobInv` says that the device's queue is
first in, first out (`QueueOrder`) and that the job a call watches is the last of the
queue and was started of the config as it still is (`Watched`, `Settled`). The queue's
order is what makes it inductive: an abandoned job may finish at any time, but never
after the watched one has started, so it cannot undo what that one reports.

`RuleOrderProofs` proves `LockDisciplineHolds`, `PlansStayFresh` and
`NoReadIsHalfPlaced` for any calls and rules. A call comes to its move only through a
plan that found rule and pivot in the rulebase it listed (`PlansThenMoves`), and the
rulebase changes only in a step of the call inside (`RulesChange`), of which there is
one. `RulesStayDistinct` and `OkMeansPlaced` rest on `OrderInv`, which adds that the
rulebase and every listing are lists of distinct rules, that a call at its read-back has
its rule in the rulebase (`PlaceFits`), and that an ok answer is a rule in its place from
the moment it is decided until the lock is given back (`OkPlaced`). The lemmas below it
say what a removal and an insertion leave of a list of distinct rules: the others in their
order, and the rule next to its pivot.

`RuleStoreImplemented` is the refinement: `HistorySpec` implies `ImplementsRuleStore`. The
step of the store is the unlock, and `HistoryInv` says what has to be true when it comes:
while a call is inside, the rulebase is what its request has made of `before` so far, step
by step (created; created and planned for; moved), and when its answer is decided, the
rulebase is one of those that `RuleStore` allows for that answer. The plan was made from
a listing of the same rulebase, so the device's move is the one the store computes; and when
the plan finds the rule in its place and sends nothing, moving it would have changed nothing
(`MovedInPlace`). Readers see `before` because no writer is inside while they are.

Three modules prove the same two things of the calls that share the lock, for any number of
them and whatever fails:

* `NobodyIsStuck`: a call that holds the lock is never one that waits (`Waits` names the
  steps whose guard can be false, and TLC has checked that it is exactly when no step of an
  open call is enabled); a call that waits does so for one that holds the lock, or for a
  claimed writer that may enter now; and a call that is about to unlock holds what it
  unlocks. It needs `SlotOwned`, that the writer slot always belongs to a call still on its
  way through, from `LockNeverIdles` of `WriteMuProofs` on.
* `CallsAreShort`: each step of a call lowers a number (`Left`), at most eight (five for the
  config jobs), and nothing else raises it before the call returns.

Together they are the part of `Answered` that needs no fairness: some call can always go on,
and none can go on for ever. That every waiting call gets its turn needs the fairness of the
lock, and is what `crud_liveness` and `config_jobs` check.

`ResourcesProofs` proves `TypesHold`, `OneKindHolds`, `CompleteHolds` and
`SecretsAreKept` for every well-formed schema (`KindsAssumption`, which TLC
evaluates on the schemas, inputs and entries of the run), every input and every entry of other clients. `StoredOneKind` and
`StoredComplete` are not inductive: an edit stores what a call computed earlier, so
`EntryInv` claims both of the entry a call is about to send as well. The lemmas below it
show that an overlay on a valid entry, a build, and a set that the device merges into a
valid entry each give a valid one, branch by branch (a picked branch displaces the
others, `Replaced`; the rest of the choices is untouched).

`RetriesAreIdle` is about two writes of the same input: what the first left is accepted
again, and overlaying or merging the input a second time changes nothing, part by part of a
schema. `RetryInv` adds to `EntryInv` that an update under way is the overlay of what it read
by an input that was accepted (`CallFits`). `RestIsKept` proves the action property
`KeepsTheRest` from the same facts.

`ServerProofs` proves `TypesHold`, `WritesAreOptIn`, `DoorIsShut` and `ShutdownsAreClean` for
any environments, calls, lengths of calls and timeouts. `WritesOptIn` and `OpenOnlyLocally`
compare what calls have done with the environment; `ServerInv` puts the configuration
between them: it is what `LoadConfig` makes of the environment (`ConfigInv`), and each call
was let in by it (`CallInv`). `DrainInv` is why a shutdown owes nothing: each call that
fitted into the drain when it started still fits into what is left of it, since each tick of
the drain is a request of every open call.

The rest of `ServerProofs` is about `Scopes`. `PlacesAreAsked` proves `WhereAsked` for all
families, selectors and device types. A resolver is a switch, and `SwitchTakes` says that it
gives what its first true arm gives; so there is one lemma per resolver, with a case per arm
or group of arms: an arm with a place gives the one that `Meant` has for the selectors that
count (`AtFits`), an arm that refuses is only reached when there is none (`NoSpotFits`).

`PagingProofs` proves of the log's paging `LogTypesHold`, `NothingSkippedHolds`,
`NothingTwiceHolds`, `CutsAreNeeded` and `UnmatchedIsExact`, for every page size, budget, log
and sizes of entries, and of the lists' `ListTypesHold`, `PageInListHolds` and
`PagesAreTheListHolds`, for every filter, limit, offset and list. Both sides have a loop and
an invariant:

* The loops are recursive functions, and what they compute needs induction over the number of
  rounds. The library's induction rule cannot be used (its predicate is an operator), so the
  module proves one over sets of numbers, from the well-foundedness of the subsets of a
  finite set (`LeastNat`, `SetInduction`), and from it that a loop runs at all
  (`LoopExists`). `EncodedTo` is what the loop of `encodeLogEntries` has after k entries;
  `Picks` says that the filter's loop has picked all the entries with the text, in order.
* Oldest first, what was shown is the log up to the next skip (`OldestFirst`). Newest first,
  nothing of the kind holds once entries arrive: the pages overlap. What stays is that there
  is no hole from the last entry shown up to the first, and that the next page begins no
  further down than right below the last (`NewestFirst`); while nothing arrives it is the log
  backwards (`NewestFirstUntouched`).
* For lists, `ShownSoFar` says that the pages are the filtered list from where the paging
  began (`Began`) up to the next offset. An entry that is created is added at the end of what
  the filter keeps (`KeptOfAppend`), so the claim survives it.

`LogPagesGoOn` and `PagesGoOn` are the part of `LogPagingEnds` and `PagingEnds` that needs no
fairness: each page ends the paging or moves it on, within the log and before the list's
total, so that no client is left asking for the same page again.

Proving `NothingSkipped` showed that an earlier form of it was too strong: it asked for no
hole anywhere between the entries shown, and newest first there is one for a while when so
many entries arrive after a page that the next one starts above it (two entries of which one
is shown, three that arrive: the second page shows the fourth). A bound of four entries had
hidden that. It now speaks of the stretch from the last entry shown up to the first, and of
all the entries there were once the paging is over.

The assumptions on constants (`NoCallAssumption`, `UnsetAssumption`,
`AbsentAssumption`, `NoJobAssumption`, `ToolsAssumption`, `FaultsAssumption`,
`LimitsAssumption` and their like) say that the special values are not ordinary ones
and that the code's limits are positive; TLC evaluates them in every run.
`NoConfigAssumption` says the same of the configuration that was refused,
`RefusedAssumption` of a refused place, and `FamiliesAssumption` that each family has a
resolver.

Only model-checked: the liveness properties (`Answered`, `PagingEnds`, `LogPagingEnds`,
`Exits`). They rest on fairness and on what is enabled, which are beyond this prover; their
safety parts are the theorems on progress above. `Exits` has no such part of its own: the
drain's clock going down is in `DrainInv`.

## Not modelled

* Other editors of the candidate config (administrators, a second server) beside the
  handlers' own interleavings: the lock covers one process and the server takes no config
  lock on the device. What `CrudHandlers`, `ConfigJobs` and `RuleOrder` show holds among
  the calls of one server; what others do to an entry between a read and a write is in
  `Resources`.
* Server crashes: nothing is persisted, and a restarted server remembers nothing. What a
  forced shutdown cuts off is in `Server`.
* What an HTTP client's own timeout does to a log query: the models take a failed
  request for a device error, not for a deadline of the context.
* Entries that a log loses at its old end while a client pages through it.
* The values of fields: ranges, formats and enumerations are one value that a handler
  refuses (`Bad`); formatting of summaries, logging, help texts, TLS, XML details.
* The replacement of one text by another in `redact.go`: `NoSecretShown` is about which
  fields an answer can show. Overlapping secrets and texts that are empty are not told
  apart.
* A port with a layer 2 and a layer 3 block: the code keeps the mode it was not given on
  purpose (`ethernet_tools.go:17-31`), so the schema says so and no property forbids it.
* The operational commands (`op_tools.go`) and the device inventory: they read and
  format, and keep no state and change none.
* The lint rules (`rules/`): build tooling.

## Plan

Done, in this order: the lock, the CRUD handlers with their abstract store, the config jobs,
the rule order, the log query, the two kinds of paging, and their proofs; the schemas of all
resources with one entry's life, the scopes, the configuration and the server; the proofs
about resources, config jobs and rule order, of retries and of what an update keeps, of a
rule's place, of the server and of both pagings; then the rule handlers' refinement of
`RuleStore`, the theorems on progress, and the scopes. Every invariant and every action
property of a passing run is a theorem. What could come next:

1. A refinement that ties `Resources` to `CrudHandlers`: the patch of `ConfigData` as an
   instance of `Overlaid`.
2. An abstract specification of the two pagings, a cursor over a list, with both shown to
   implement it.
3. Redaction of overlapping texts as an operator over short sequences.
