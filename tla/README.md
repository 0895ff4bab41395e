# LenkoBot: TLA+ models and proofs

LenkoBot is a single-owner Telegram companion: one Python process, one SQLite
file, an LLM provider behind it.  This directory holds TLA+ models of the parts
where order, retries, crashes and resets decide whether the program is correct,
the TLC configurations that check them, and TLAPS proofs about them.  The rules
were read from the code; paths below are relative to `src/lenkobot/`.

## 1. Inventory of the system

| Component | Files | State it keeps | Operations |
|---|---|---|---|
| Owner lifecycle and reset | `reset_coordinator.py` | `user_profile.lifecycle_epoch`, `lifecycle_state`; the running `reset()` in memory | `reset()`: two transactions with quiesce and purge hooks between them |
| Reminder store | `reminder_store.py` | tables `task`, `reminder_job`, `reminder_run`, `delivery_outbox`, `reminder_delivery_audit` | draft, await, activate, cancel, complete, snooze, materialize, lease, mark sent, release, purge |
| Scheduler and delivery worker | `reminder_worker.py` | `_quiesced_epochs`, the lease in hand | `run_once` of both, the poll loop |
| Reminder schedule | `reminder_schedule.py` | none | `next_occurrence`, `resolve_local_time`, `quiet_hours_available_at` |
| Action confirmations | `action_confirmation.py` | table `action_confirmation` | `create`, `resolve`, `consume` |
| Application service | `application_service.py` | none of its own; in-flight handlers | message, command, callback and confirmation handlers |
| Memory store and extraction runs | `memory.py` | `memory`, `memory_revision`, `memory_extraction_run` | ensure, claim, complete, fail, retry, recover, gate, update, delete |
| Memory extraction | `memory_extraction.py` | a lock in memory | process, retry, drain after delivery, drain for a lane |
| Sessions, finalizer, deletion | `session_store.py`, `session_summary.py`, `session_deletion.py` | `session`, `transcript_turn`, `session_summary` | begin and append turns, finalize, delete a turn |
| Router and personas | `telegram_router.py`, `persona_store.py`, `personas.py` | `conversation`, `persona_session`, `persona`, `persona_version` | route, switch, reload the catalog |
| State database | `sqlite_schema.py` | the schema version and all tables | open, ten migrations |
| Providers and OAuth | `xai_provider.py`, `codex_provider.py`, `oauth_credentials.py`, `linux_oauth_credentials.py` | the credential on disk, an inter-process lock, cached access | refresh, save, lock |
| Web search loop | `web_search.py` | none that survives an answer | bounded tool loop |
| Transport and runtime | `aiogram_adapter.py`, `runtime.py`, `__main__.py`, `__init__.py` | none | polling, wiring, command line |
| Text | `context_builder.py`, `telegram_presentation.py`, `reminder_parser.py` | none | pure functions |
| Tools | `encrypted_export.py`, `security_audit.py`, `live_smoke.py`, `telegram_e2e*.py`, `telethon_e2e.py`, `read_only_network.py` | none | run by hand |

How they interact.  Everything durable goes through one SQLite file; each store
opens its own connection, and almost every public method is one
`BEGIN IMMEDIATE` transaction.  Updates are handled on the event loop;
provider calls, extraction and finalizing run in worker threads
(`asyncio.to_thread`).  The reminder loop is a task of the same event loop.
`ResetCoordinator` fences the others: it raises the owner's epoch and closes the
profile, and every epoch-checked write refuses a stale epoch.

Hard behaviours, with their lines, are listed under `hazards` in `PROJECT.json`:
leases that expire under a slow send, sends whose answer is lost, crashes between
two transactions of one operation, owner commands during an await, resets that let
row ids be reused, materialisation of an occurrence that a snooze already occupies,
a rule whose search finds no date, retries that pass a time window, extraction
workers that take each other's claims, retries whose budget was read before,
messages that cross, refresh tokens that the server rotates while the answer may be
lost, a lock object shared by two threads, and prompts that name a row by an id
which is given out again.

What makes each component correct:

* reminder store: its tables agree with each other, an occurrence is emitted
  once and none is skipped, a settled run stays settled, attempts are bounded;
* delivery worker: it sends only what is still wanted, records what was sent,
  and every run settles;
* lifecycle: nothing of an earlier life is acted on, and a reset ends;
* schedule: a cursor emits exactly the dates its rule says, and nothing is
  available in quiet hours;
* confirmations: a button takes effect once, with the decision first made, on
  what its prompt showed;
* extraction and sessions: a session closes only when all its exchanges are
  extracted, no turn is lost by a close, every failure leaves it closable;
* routing: one lane per chat and persona version, no switch is lost;
* OAuth: one caller at a time refreshes, a refresh never overwrites a newer
  credential, and the stored refresh token is one the server still takes.

## 2. The modules

| Module | Models | State |
|---|---|---|
| `OwnerLifecycle` | the lifecycle fence and `ResetCoordinator.reset` | `profile`, and `reset`: the step that the running call executes next |
| `ReminderSchedule` | `next_occurrence`, `resolve_local_time`, `quiet_hours_available_at` and the cursor of one job that uses them | `rule`, `anchor`, `zone`, `quiet` of the job; `cursor`, `status`, `emitted`, `runs` |
| `ReminderStore` (extends `OwnerLifecycle`) | every writing method of `SQLiteReminderStore` but those on the profile's policy, one action per transaction | `task`, `job`, `run`, `outbox` are the tables, keyed as the code's unique keys; `issued` is every lease ever returned, `audit` the audit table, `now` the clock |
| `RunLedger` | abstract specification: a run is opened, settles once with a final outcome, and a closed task has no open run | `ledger`, `closed` |
| `ReminderDelivery` (extends `ReminderStore`) | the poll loop over the store: the worker cut at its await, Telegram, crashes, resets | `worker`, `quiesced`, `inflight`, `accepted`, `abandons` |
| `ActionConfirmation` | the receipts: `create` with its clean-up, `resolve` | `conf` is the table, `acted` every resolution a caller was given, `minted` numbers the tokens |
| `ReminderActions` (extends `ReminderStore`, instantiates `ActionConfirmation`) | the reminder handlers of the application service, cut at their awaits and between their transactions | `loop`: what the running segment still has to do; `parsing`, `chat`, `born`, `done` |
| `OwnerCommands` (extends `ActionConfirmation`) | `/remember`, `/forget` and `/new`: prompt, callback, deed and answer | `memory`, `sessions`, `active` are the rows a deed touches; `shown`: what each prompt named; `loop`, `closing`: the deed of the running segment and of the threads; `answers`, `cut`: how each ended |
| `SessionStore` (extends `OwnerLifecycle`) | sessions, turns, extraction runs, summaries, automatic memories: every transaction on them, and what a reset purges | `lanes`, `session`, `turn`, `runs`, `summary` are the tables keyed by row id; `memory` counts the batches stored per provenance |
| `SessionLedger` | abstract specification: a session is opened and closed once, an exchange of an open session is owed until it is settled or dropped, and nothing is owed by a closed session | `open`, `owed` |
| `SessionMemory` (extends `SessionStore`) | who works on these tables: message handlers, the confirmed `/new`, start-up recovery and the extraction job, with the coordinator's lock and crashes | `at`: the step of each actor and what it remembers; `lock`; `sent`, `closes`, `faults`, `crashes` count what is bounded |
| `OAuthRefresh` | the credential at rest on both backends, its lock, `get_access_token`, the device login, and the server that rotates tokens | `stored`, `owner` (of the system's lock), `descriptor` (of each process's lock object), `call` (step and memory of each caller), `requests`, `valid`, `grants` |
| `MCReminderStore`, `MCReminderDelivery`, `MCReminderActions`, `MCReminderSchedule`, `MCOAuthRefresh` | plans, calendars, callers and bounds for TLC | |
| `ReminderStoreProofs`, `ReminderScheduleProofs`, `ReminderDeliveryProofs`, `ReminderActionsProofs`, `OwnerCommandsProofs`, `SessionStoreProofs`, `SessionMemoryProofs`, `OAuthRefreshProofs` | the theorems | |

Correspondence.  A row is a record with the columns that a decision reads.  A
method that raises rolls its transaction back and one that finds its work done
writes nothing, so both are the absence of a step.  A task and its only job
share an id; a run and its outbox row share the key `<<task, scheduled_for>>`,
the code's `UNIQUE(job_id, scheduled_for)`.  `NextTaskId` reuses ids after a
purge, as SQLite does for an `INTEGER PRIMARY KEY`.  In `ReminderStore` the
calendar is a constant: a plan lists the instants its rule gives, one of which
may be `Unresolvable` (a local time the zone skips or repeats), and its `last`
says whether the search behind the last of them ends or raises.  `materialize_due`
is one action over a whole batch of `PollLimit` due jobs, so a job that raises
takes the batch with it.

`ReminderSchedule` computes what the plans take as given: dates are counted from
a first day, the lengths of the months repeat, and a zone changes its offset
once.  Its property compares the search of the code, which goes from occurrence
to occurrence and through UTC and back, with the set of dates the rule describes.

In `ReminderStore` the callers are the most general ones: any lease ever issued
may be marked or released at any time, in any number.  `ReminderDelivery`
narrows them to the loop of the program, and its property `StoreContract` says
that it stays within them, so what is proved of the store holds in the loop.
`ReminderActions` narrows them in the other direction: the owner acts only by
pressing a button whose receipt the handlers created.  A handler is a chain of
segments on one event loop; inside a segment no other handler runs, but the
process may die between two transactions, a transaction may raise, and a reset,
called from another thread, may step in.  `KeepsStoreContract` and
`KeepsReceiptContract` say that the composition is a behaviour of both parts.

`OwnerCommands` does the same for the two commands that destroy something.  The
decision and the deed are two transactions with no await between them, so
`loop` holds the token whose deed is next; the close runs in a thread, so
`closing` is a set.  A record is numbered for ever, its row id is not: this tells
what a prompt showed from what its id finds later.  Of a session the model, as
the code, knows only the id.

The sessions are layered the same way.  In `SessionStore` any operation may come at
any time with arguments read at any earlier time: a worker with an exchange of an
earlier life, a close with turns that were summarised long ago.  A retry, in
particular, looks at the status of its row and at nothing else: the budget is no
part of the transaction (`memory.py:1008`).  Ids are reused as SQLite reuses them,
those of turns already when a session closes.  `SessionMemory` narrows the callers
to the program's: a handler is cut where it awaits, an extraction job runs in a
thread and is cut at every database access, the coordinator's jobs hold its lock and
the finalizer's do not.  A retry is three accesses after a failure (`JobChecks`
twice, for `process_with_retry` and for the read of `retry_extraction_run`, then
`JobRetries`) and two for a run that a list shows as failed (`TakeRun`).  Updates
are handled as concurrent tasks of one loop (the aiogram default), so `LoopFree`
lets a handler go on only where no other one is between two statements without an
await.  Its property `KeepsSessionContract` is `SessionSpec`.  No command calls
`reset()` or `delete_turn`, so the composition has neither; `SessionStore` has both.
`OAuthRefresh` cuts a call where another thread or process can step in: around the
lock, around the request, between the temporary file and its rename, and between the
two halves of `__exit__`.  The lock object of a process and the lock of the
operating system are two variables, because two threads share the first.  The server
hands out numbered refresh tokens, exchanges one at most once, or keeps it, or
refuses it; a request may be handled after its caller has given up.  A request to
Telegram that is lost is, in `ReminderDelivery`, one that stays in flight for good,
as nothing obliges Telegram to accept it.  The actions whose name has a suffix
(`Finish_LeavesClaimed`, ...) are faulty variants that no specification uses; they
document which mistake each property would reveal.

## 3. The runs

| Run | Question | Bounds |
|---|---|---|
| `store` | do the tables agree, is the invariant inductive in fact, is the store a ledger | one task of any of seven plans, or two tasks that fall due together under a poll limit of one; two attempts, two epochs, clock 0..4 |
| `delivery` | is only what is wanted sent, is what was sent recorded, does every run settle and every due job advance but for named exceptions, does every reset end | one task of any of four plans, one snooze token, two attempts, a lease shorter than a slow send, two epochs, clock 0..3, one crash or failed write |
| `reminder_actions` | does a task do what the owner decided, through crashes, replays and a reset, within both contracts | one task, two tokens, two epochs, one attempt, TTL 1, clock 0..3 |
| `commands` | is a prompt good for one decision and one deed, on what it showed, and is it answered | two tokens, three records, two sessions, TTL 1, clock 0..2, two epochs, one crash or failed operation |
| `session_store` | what does a close leave behind, what is learned how often, are the tables a ledger of exchanges | one lane, two sessions, two turns, two runs, two claims, two epochs |
| `session_memory` | who works on which run, what uses up its budget and is that final, does everybody end, is the contract kept | two handlers, one `/new`, two messages, two sessions, a budget of two, one failure, one crash, one epoch |
| `oauth` | does the lock exclude, does the stored token live, does every call end | both backends, two threads of one process and a login in another, an access token of two ticks, skew, lock timeout and device code of one, clock 0..1, three grants, one crash or failed access |
| `schedule` | does the cursor emit the rule, is quiet time quiet, when does the search fail | every legal rule over days of four ticks, weeks of three days and months of 3, 2, 4 and 2, intervals to 3, five anchors, four zones, three settings of quiet hours, twelve days |
| `poison`, `forgets_other`, `stolen_claim`, `wrong_lane` | statements of the documentation, a prompt or a test that the code does not meet | as small as the counterexample allows |

One task is enough for the properties of a row, because no transaction reads
another task's rows except `lease_delivery`, which takes the first of several,
and `materialize_due`, which takes a batch in order.  For these the `store` run
adds two tasks: `FewPairs` lets a second one exist only with plans that fall due
at the same time, one overdue earlier and one that raises, in the first life and
before any snooze, where the order of the batch is all that is new.  Two tokens
are a prompt and a further button of one task, enough for two decisions that
contradict each other, and in `commands` two prompts for one record or one
session.  One tick of TTL lets every receipt expire and be cleaned up within the clock.
Two attempts distinguish the first, the last and one beyond; two epochs let a
lease survive a reset and meet a row with the same id; the clocks pass every
deadline and lease of the plans (in `delivery`, the deadline of `Night` and the
leases of `Once`).  Three records let an id be freed and given out
to a record that is younger than the prompt.  Symmetry is not
used: ids and times are ordered, and it is unsound under fairness.
`CHECK_DEADLOCK FALSE`
because the clock, the epochs, the ids and the messages are bounded: the models
end when they are used up, and a completed job of `ReminderSchedule` is done.

In `oauth` two threads of one process are what shares a lock object, and a third
caller elsewhere is what the operating system's lock is for; both credentials a
start can find are initial states, an access token that is fresh and one tick before
it needs a refresh, and three grants are that one, its rotation and a login's or a
second rotation.  One fault at every step is every single crash and every single
failed load or save.  In `schedule` four anchors lie on the first, second and last
day of a week and a month and the fifth in the second month, from which every other
month has two days: a rule that asks there for the third or fourth day finds none,
and the search raises.  A month is shorter than some `monthday`, and the changes of
the offset fall on dates of the rules; the search of nine days just covers the
largest interval of weeks, as the code's 3660 days cover its 365 weeks, and the four
tries of months are one cycle of their lengths.

In `delivery` each plan is there for one thing: `Once` is retried to the end of its
attempts, `Night` is overdue before, as quiet hours put it off, `Late` stands at the
instant at which a snooze pressed at time 0 comes back, and `NoSuchDay` raises.  So
both exceptions of `DueJobsAdvance` occur: a job whose instant a snooze's run has
already, and a batch that raises.  Without either of them named, TLC finds the
property violated; and without the second, `RunSettlesOrStrands`, because a snooze's
run waits behind the rule that raises.

Two messages and one close are enough for `session_memory`: two handlers and the
finalizer are all that can hold the same run at once, and the second message is what
meets a crashed, failed or crossed first one, or a second session.  A budget of two
tells the first claim from the last; `stolen_claim` uses the real three.
`MaxClaims` lies above what the budget and the recoveries allow, so it cuts nothing
off there.  One failure does not bring a stale retry and the end of a budget
together without the finalizer; with two, and with the lock dropped, TLC finds
`ExhaustedStays` violated, and its theorem is for any number of them.  In
`session_store` two turns are one exchange, and all ids come back after the close
and after the reset.

Fairness (`LiveDeliverySpec`).  The clock runs; `run_reminder_loop` polls for ever,
catching what a poll raises, so the scheduler and the worker's steps are weakly
fair; `port.send` ends because the HTTP client has a timeout, so `WorkerStep`, which
contains both outcomes, is fair as a whole; the statements of a `reset()` in
progress follow one another.  Nothing is asked of the owner, of Telegram, or of
crashes.  A scheduler whose poll raises has polled (`SchedulerRests`), as the loop
goes on after it.  `LiveCommandSpec` is weakly fair to the deed of a running
segment, which has no await before it, and to the finalizer's thread, whose provider
has a timeout; nobody presses a button by fairness.  `LiveOAuthSpec` is weakly fair
to the clock and to each caller's own steps, with the request's timeout among them;
the server owes nothing.  `LiveMemorySpec` is weakly fair to every actor's own
steps: threads run, a handler goes on when its await ends, and a provider's request
ends, if only by its timeout.  It asks nothing of the lock beyond that: an actor
that waits for it is served because its holders end and the messages are bounded.

### What the violations say

* `poison`: a monthly rule that never meets its day again makes
  `_next_monthly` raise (`reminder_schedule.py:246`).  `materialize_due` rolls the
  whole batch back, the loop swallows the error before it delivers anything, and
  the job is due again at the next poll: no reminder is delivered any more until that
  task is cancelled.
* `forgets_other`: `/forget` deletes by id, and SQLite gives the highest id
  out again.  With two prompts for one record the second confirmation deletes
  what was remembered in between, which its owner was never shown.
* `stolen_claim`: finalizer and coordinator fail each other's claims of one run
  until its budget is used up, although the provider works.  The gate counts
  such a run for ever, so the conversation can no longer be closed.
* `wrong_lane`: `process_after_delivery` compares a session id with a lane id.
  From the second session on the hand-over is refused, the handler swallows the
  error, and what was said is learned only when the next message or `/new` comes.

### Observations without a run

Met while modelling.  No run checks them: for most, nothing in the repository
promises the contrary or no command reaches them yet; where a document or a test
says otherwise, the entry quotes it.

* A crash during the last attempt of a delivery strands the run:
  `lease_delivery` filters `attempt < MAX_DELIVERY_ATTEMPTS`
  (`reminder_store.py:520`).  `RunSettlesOrStrands` allows for exactly this.
* A retry ignores the quiet hours that the first delivery honoured
  (`reminder_store.py:745`).
* A second message before the first answer leaves the first run without an
  exchange (`session_store.py:517`); it fails to the end of its budget and blocks
  every `/new`.  `ExhaustedHasCause` names it as one of the causes.
* Two threads of one process share the lock object of the credential, and the second
  is refused at once instead of waiting (`linux_oauth_credentials.py:322`): its
  request to the provider fails.  `implementation-notes.md:192` counts one refresh
  under concurrent reads as tested, and `test_oauth_lifecycle.py:111` expects both
  readers to get the new token; the test gives them a lock of `threading`, which
  waits, and not the file's.  `CallsEnd` takes the refusal for an end of the call,
  not for a success.
* With the finalizer a retry can pass its budget.  `retry_extraction_run` compares
  the attempts of a row it read before (`memory.py:475`), its transaction only the
  status (`:1027`).  While a confirmed `/new` works on the run without the lock, its
  last attempt may fail in between; the stale retry puts the run back to `pending`,
  and it is claimed once more than the budget allows.  `implementation-notes.md:63`
  says that `failed` returns to `pending` only within the bounded retry budget.
  `ExhaustedStays` says the same and holds as long as no `/new` is confirmed;
  without that condition TLC violates it in the bounds of `session_memory`.
* A refresh whose answer is lost, or whose save fails, leaves a token the server has
  already exchanged; only a new login helps.  `StoredTokenLives` states it as the
  one exception.
* A rule's first occurrence is its anchor, on whatever day that is, and a
  `monthday` later in the anchor's own month is skipped.  When the clocks go back,
  the end of the quiet hours is looked for in wall time, so a delivery may be put
  off past an earlier instant that was allowed.
* A confirmed deed whose handler dies is not repeated: its receipt is spent and
  later presses are told that it was resolved (`application_service.py:723`).
  A store that raises in a confirmed close is answered as "already closed" (`:801`).
  Session ids start again after a reset, so an old prompt for `/new` closes the new
  life's session of its id; `ClosesWhatWasAsked` is about ids for that reason.
* A reset that fails between its two transactions leaves the profile closed, and
  every later `reset()` refuses (`reset_coordinator.py:56`).  A reset leaves
  `action_confirmation` alone while task ids start again, so an old button acts
  on a new task (`:108`).  A request that waits for the parser during a reset
  writes its draft into the new life (`application_service.py:1491`).  An
  extraction read before a reset can complete the new life's run of the same id,
  because the epoch compared is the row's (`memory.py:250`).  No command calls
  `reset()`.
* The audit's only event, `external_commit_after_reset`, is also written when
  the owner cancelled the task during the send (`reminder_store.py:691`).
* A snooze on the exact instant of the next occurrence makes the scheduler skip
  that job for ever (`reminder_store.py:426`).  `CursorExact` does not see it, because
  the cursor merely stays; `DueJobsAdvance` names it (`OwnedBySnooze`).
* A reminder button whose handler died between decision and action acts when it
  is pressed again, even after it expired (`action_confirmation.py:151`).
* An answer and its extraction run are two transactions
  (`application_service.py:482`, `:505`).  A crash or a close in between leaves
  an exchange without a run, which the gate does not miss.
* `delete_turn` removes memories by turn id, and a closed session's turn ids are
  used again (`session_deletion.py:53`).  For the same reason the comparison of turn
  ids in `finalize` cannot tell a turn from a later one with its id.  No command
  calls it.

## 4. The proofs

All theorems hold for every set of plans and tokens, every number of tasks, records,
callers, attempts and epochs, every lease, timeout and retry time.  They
assume only the ASSUMEs of the modules (`PlanAssumption`, `PolicyAssumption`,
`NullAssumption`, `BoundAssumption`, `MaxEpochAssumption`,
`ConfirmationAssumption`, `DecisionAssumption`, `ActionAssumption`,
`CommandAssumption`, `SessionAssumption`, `ActorAssumption`, `CallerAssumption`,
`BackendAssumption`, `TimeAssumption`, `AbandonAssumption`, `CalendarAssumption`,
`ScheduleAssumption`, `SearchAssumption`), which TLC evaluates in the runs.

Two of these say something of the code's surroundings.  `ScheduleAssumption` puts an
offset of a zone within a day of UTC, as Python does for every `utcoffset`.
`SearchAssumption` says that the two searches look far enough: an interval is at
most 365 (`reminder_schedule.py:40`), so the 3660 days of the weekly search (`:215`)
hold a whole step of weeks, and the 1200 months of the monthly one (`:238`) reach a
month as long as any the rule ever reaches.  In the Gregorian calendar a rule that
meets only Februaries steps by whole years and has seen all of them after 400
steps; any other meets its longest month within a few.

For `ReminderStore!Spec`, `ReminderStoreProofs` proves type correctness, and the
lemmas on `Upsert` and the row operators the rest uses.  It goes on, action by
action, with the parts of the invariant, and combines them:  `StoreInvariant` is
inductive, and the theorems `TablesAgree`, `FinishedIsQuiet`, `LeasesAreCounted`,
`ResetLeavesNoRow`, `OutcomesAreFinal` and `StoreImplementsLedger` follow.

Why the invariant is needed.  `LeasesCounted` alone is not inductive: after a
reset the ids start again, and a lease of the old life would be taken for one of
a row that happens to have the same key.  `LeaseFence` adds that a lease of the
current epoch exists only while its row does, and `ResetFence` that a profile
reopens only over empty tables, which is also what makes
`NoRowOfAnotherEpoch` inductive.  `OutcomeIsFinal` needs `RunOutboxAgree`: a
late lease is refused because of its outbox row, so the run is safe only as long
as the two rows tell one story.  The refinement needs `FinishedTaskIsQuiet` and
`TaskJobAgree`, without which a scheduler step might open a run of a closed task.
`CursorExact` needs a fact of its own (`CursorInv`): a draft has emitted nothing,
so that `activate`, which sets the count back to 0, forgets no run
(`CursorIsExact`).

`ReminderScheduleProofs` proves what the plans of `ReminderStore` take as given, for
every calendar, rule, anchor, zone with one change of its offset, and quiet hours.
`EmitsTheRule` is not inductive: it takes the runs and the cursor together as the
first walls of the rule and does not say that the cursor is the last of them, on
which it depends what comes next.  `ScheduleInv`, which TLC checked before it was
proved, says that the runs are at as many walls as were counted (`CountedRuns`),
that these are the first ones of the rule (`InitialSegment`), and that the cursor is
at the first wall after them while the count has room for it (`CursorNext`).  A step
keeps it because the code's search goes from a wall of the rule to the next one with
none between (`FollowingStep`, from `WeeklyFinds` and `MonthlyFinds`), and because a
wall that the zone resolves is found again from the instant (`ResolveBack`).
`SearchesFind` is the same argument from the other side: with `SearchAssumption`, a
monthly search that fails has seen every length the rule can meet.  `QuietHoursKept`
rests on what the end of the quiet hours is (`QuietEndFacts`, `AvailableFacts`).
`ScheduleAscends` needs that a wall further on, taken back through the zone, is a
later instant also when the clocks go back (`ResolveOrder`).  Together with
`FirstOccurrence`, by which the first search of a job never raises, it justifies two
conjuncts of `PlanAssumption`, with two limits: the zone changes its offset once,
and the two modules are not composed.

The lengths of the months are data, and the induction over them that a recursive
function needs is done with sets: a nonempty set of naturals has a least element
(`LeastOf`), hence a set closed under successor is all of them (`SetInduction`).
From it follows that `FirstDay` is the function its equation describes
(`FirstDayEquation`), that months follow one another and that every date is in
exactly one.

The compositions inherit it.  `ReminderDeliveryProofs` shows that each step of
the loop is a step of the store or leaves its tables alone (`LoopKeepsStore`),
hence `StoreInvariant` holds in the loop, and the loop implements `RunLedger`
(`LoopImplementsLedger`); with it, that only open runs are sent
(`SendsAreWanted`), and that every accepted message has a lease of its own, so
`LeasesCounted` bounds the messages (`MessagesAreBounded`).  `DeliveredIsTrue`
needs that a `sent` row carries the lease of an accepted message (`SentWasAccepted`):
only the worker's mark, made after the accepted send of the same lease, turns a row to
`sent`, and no other step moves a row that is.  `AcceptedLeavesATrace` says of the
mark itself that it finds the row of its lease or leaves the lease in the audit.
`DeliveryTypes` is the loop's type correctness, which contains that every lease in
the worker's hand, under way or accepted was issued by the store.

`ReminderActionsProofs` shows that the reminder handlers refine both the store and
the receipts, hence `RunLedger` (`HandlersImplementLedger`), and `SnoozedOnce`.  The
two properties of the tasks and their buttons need a history that neither store
keeps (`HistoryOK`): tokens keep the epoch they were issued in, and an effect of the
present life names a task that is still there.  `RunsOnlyIfConfirmed` is not
inductive either: a task may become completed without having been active, by a
button that was offered while it was.  `AllVouched` adds that a button that
completes a task was offered only for one already vouched for, and that a run
belongs to such a task, because the delivery worker offers its buttons without a
look at the task.  `EffectsLast` holds because every table step either empties the
tables of an ended life or moves a task later in its life (`TasksMove`) and keeps
its runs (`RunsMove`).

What holds of the receipts holds behind the handlers (`ButtonsDecideOnce`); that an
effect follows the decision is a further step.  `ButtonsDoOneThing` says that all the
effects of a button, over replays, crashes between decision and action, expiry and
resets, are one action with one decision.  It is stated for the proof alone
(`OneThingPerButton`) and needs `EffectsTold`: an effect, and the one the running
segment is about to have, carries the decision its token was told, and the action
of its receipt as long as that exists.  `ActionsTypes` is the type correctness.

`OwnerCommandsProofs` proves the receipts and then the commands that use them.
`OneDecision` is not inductive, because `resolve` reads only the row; the invariant
of the receipts adds that an existing row shows the decision its callers were told.
`OneDeedPerReceipt` needs to know besides that the deed of the running segment,
those of the threads and those that ended are of different tokens, each of which was
told its decision (`InOneHand`): a token enters `loop` only with its first
resolution.  `ForgottenIsGone`, that a record answered as deleted never comes back,
is proved (`ForgottenForEver`) and has no run: whether it was the right record is
the question of `forgets_other`.  It needs `RecordsApart`: a record is under one id,
and a receipt that would still find what its prompt showed has that id.

`OAuthRefreshProofs` proves that the lock excludes, for any number of processes and
threads and on both backends.  That the stored token lives is not inductive.
`OAuthInv` adds that a reader exchanges the very state that is stored
(`CredsKnown`, which needs `SoleHolder`: nobody else can save meanwhile), that a
request is awaited by the reader that sent it or its token is spoiled (`Awaited`),
and that what a login was granted is nobody else's (`TokensApart`), so the server
cannot retire it for another's request.  `RenewalsChain` follows from the first.

`SessionStoreProofs` proves `SessionInvariant` inductive, for any number of
lanes, sessions, turns, runs, claims and epochs.  Its parts need one another:
`LearnedOnce` survives a late `Activate` only because an exchange has one run
(`OneRunPerExchange`), which in turn holds only because an open profile has no
row of an earlier life (`RowsOfThisLife`: the unique key contains the epoch, so
it alone would allow a second run); `ClosedIsComplete` is what keeps a late
worker out of a closed session, and `ActiveHasNoSummary` what keeps a session
from being closed twice.  From it follow `NothingUnsummarised` and the
refinement `SessionsImplementLedger`: a settled exchange is never owed again,
and no exchange of a closed session is.

`SessionMemoryProofs` carries this into the program.  Each step of an actor is one
transaction of the tables or leaves them alone (`MemoryKeepsContract`):  because
every write checks its rows again, the arguments an actor remembered from before an
await only have to be well formed, which is `MemoryTypeOK`.  A stale retry is such a
step too: the contract leaves the budget to its callers.  So what is proved of the
tables holds there, for instance `MemoryLearnsOnce`, and the program implements
`SessionLedger` (`ProgramImplementsLedger`).  `SoleWorker`, which is about the one
process that holds the lock in its memory, is not inductive, because it does not
mention the lock; `LockHeld` adds that whoever is inside a list and is no finalizer
holds the lock, and that the lock has one holder (`OneWorker`).  One lemma says of
each kind of actor that it only moves itself, by a well-formed row (`Moves`), and
one that a move keeps the invariant.

`QuietReleases` (`QuietMeansReleased`) needs to say who will come to a claimed
run while nobody works on it.  `Claimed`: unless a failure was lost or a budget
is used up, every claimed run is in the hands of an actor, or start-up still has
it ahead, on its list or in a later lane.  That survives start-up's steps only
because the list it took before its awaits is still what the table holds
(`BootView`), which in turn holds because nobody else is at work until start-up
is over (`BootAlone`): `build_runtime` drains before polling begins.

`ExhaustionHasCause` (`ExhaustedHasCause`) is an argument about order.
`InOrder`: while nothing failed and no session was closed, whoever reads, asks
the model or gives up has its run claimed and works on the exchange of the run's
own row (`InForce`), gives up only a run without an exchange, and a run's user
turn already has a turn behind it (`Noted`).  Turns only grow at the end, so a
run that had no exchange when it failed can never get one, and the reverse.

`BudgetIsFinal` (`ExhaustedStays`) cannot rest on the transaction, which does not
look at the budget.  `ChecksHold` says that without a close the check still holds
when it is used: whoever stands before the transaction of a retry has a run that is
failed and below its budget (`ChecksHoldStep`), because every other step on a run is
made under the lock, which that actor holds.  With a close that is false, so the
other proofs do without it.  For `QuietReleases` a budget is used up for good only
when no actor is about to put its run back (`Spent`).

Only model-checked: the six properties that need fairness (`RunSettlesOrStrands`,
`DueJobsAdvance`, `ResetCompletesOrRaised`, `ConfirmedIsAnswered`, `ComesToRest`,
`CallsEnd`), because liveness and ENABLED are out of the prover's reach, and the four
violations.  Every other property of a passing run is stated by a theorem.  No
theorem says what a recursive definition computes by an induction principle of the
library, which takes an operator as its parameter; where one was needed, it is the
induction over sets described above.

## 5. What is left

In this order:

1. `ConversationRouting`: lanes, compare-and-set switches, persona versions.
2. `MemoryVersions`: updates and versions of a memory, relationships, and what is
   selected for a prompt.
3. `SharedConnection`: two threads on one SQLite connection.
4. `SchemaMigration`, `WebSearchLoop`.
5. The forget and close tokens composed with `SessionMemory`, and
   `ReminderSchedule` in the place of the plans of `ReminderStore`.

## 6. Not modelled

Prompt assembly, presentation, the shape checks of the model's answers and the
inference requests are text functions and single calls without state.  The web
search loop counts rounds in local variables of one handler.  The runtime only wires
objects, apart from the choice of the credential backend, the login and the recovery
at start-up.  The live test tools, the export and the security audit are run by
hand.  The compare-and-set of a persona switch has no await between its read and its
write on one event loop.  The profile's policy columns, `transcript_failure` and the
codecs of the columns are abstracted.  Versions of memories and relationships, the
migrations and the sharing of one connection by threads are left to the plan.  The
clock of the models never goes back; the code has no handling for a clock that does.
