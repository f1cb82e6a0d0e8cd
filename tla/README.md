# Formal models of ha-analysis

TLA+ models of `src/src/ha_analysis` — the library and the commands that read a
Home Assistant installation, and, once their owner has enabled control, act on
it — with the TLC runs that check them and the TLAPS proofs about them.

The question behind all of it: **what can be relied on when the owner's
commands, several operations, an agent's tool calls, a crash or a full disk
come between any two steps of this code?** The program has no daemon and no
database. Each command is a process, the shared state is three small files, an
append-only journal, a keyring, and `os.environ`; there are next to no locks.
Unit tests run each operation alone, from beginning to end.

## 1. Inventory

| Part | Source | State it keeps | Operations | Talks to |
|---|---|---|---|---|
| Direct control | `control.py` `ControlRuntime` | none between calls; per call a binding (endpoint + token), a deadline, an operation id | `invoke`, `resolve`, `find`, `list_actions`, `enable_control`, `disable_control`, `control_status` | settings, keyring, trust, journal, Home Assistant |
| Trust | `control.py` `TrustStore` | `control-trust.json`: disabled, or one binding | `enable`, `disable`, `status` | written by control and by every lifecycle command |
| Lifecycle | `management.py`, `settings.py`, `secret_store.py` | `settings.json`; one keyring entry per origin | `setup`, `login`, `logout`, `status` | trust (invalidated at the end) |
| Operation journal | `control.py` `OperationJournal` | `operations.jsonl` | `record` | appended to by all processes |
| Household operator | `household_operator.py` | per turn: `stop`, `mutations_blocked`, `_seen_mutations`, receipts, deadline | `run`; seven tools | agent SDK (event loop, callbacks), control, profile |
| Household profile | `household_profile.py` | `household.json`: model, aliases, facts, routines per origin | `set_*`, `forget`, reads | read by turns, written by commands |
| Process environment | `amplifier_agent_adapter.py`, `household_operator.py` | `os.environ`, `_ENVIRONMENT_LOCK`, `_OPERATOR_TURN_LOCK` | scopes for the SDK | every reader of `os.environ` |
| Home Assistant transport | `live.py`, `control.py` | none; one deadline per session | states, services, registries, POST | network |
| Analysis | `api.py` | none; per call resolutions, entities, diagnostics | `inspect_live_entities`, `check_connection`, `find_entities`, `offline_analyze`, `interpret_evidence`, `serialize_result` | keyring, transport, redaction, a model |
| Redaction, origins | `redaction.py`, `origins.py` | none | pure functions | everybody |
| Command lines, rendering, retired interfaces | `cli.py`, `control_cli.py`, `presentation.py`, `manifest.py`, `control_journal.py`, `trusted_approval.py` | none | one call per process | the runtimes |

What is hard, and what has to hold:

* **Direct control.** Endpoint, token and trust come from three stores, at
  three times, thrice per operation; the owner changes them with commands of
  several steps. A token must go to the home that issued it only; a request
  must rest on facts confirmed after its intent was durable; a request may be
  lost, late, or applied after its caller gave up, and the answer and the
  journal must be true all the same.
* **Lifecycle and trust.** A reported revocation holds. Commands wait at a
  prompt for as long as the owner likes, while others run.
* **Journal.** Short writes, unsynced lines, a size limit checked by writers
  that do not exclude each other.
* **Household turn.** A model, which may ask for anything in any order, drives
  real effects: nothing twice, nothing after a failure, nothing after an
  incomplete effect, and a verdict that agrees with the receipts.
* **Targets.** A name, a device or an area is resolved in four registries read
  one after the other, each target is looked at on its own before and after the
  request, and the home does not stand still meanwhile: the request must go to
  what was meant, once, and the reported effect must be what was seen.
* **Analysis.** Requests fail one by one; what is answered must stay in step
  with what was asked. Nothing secret reaches a model or the output, whichever
  sink's redaction fails.
* **Environment.** `os.environ` is global, and replaced in several steps.
* **Documents.** Every reader at every instant, and after every kill, finds a
  whole document. Updates of the profile read, change and write it without a
  lock.

`PROJECT.json` lists the hazards one by one, each at its line.

## 2. Modules

```
 ControlRuntime      extends  LocalState, OperationJournal             implements  Dispatch
 HomeCommands        extends  LocalState, TargetedCall, AnalysisRuntime
 TargetedCall        extends  HomeStates
 AnalysisRuntime     extends  HomeStates, Redaction
 HouseholdProfile    extends  OwnerDocument                            implements  OwnerDocument
 HouseholdTurn       relies on what Dispatch promises
 RuntimeEnvironment, RegistrySession   stand by themselves
```

`*_proofs` hold the theorems; `HouseholdProfile_proofs` also those of
`OwnerDocument`, and `HomeCommands_proofs` those of `Redaction` and
`AnalysisRuntime`.

**`LocalState`** — settings, keyring and trust under the owner's commands. One
action per access: `setup` is `SaveSettings`, `Invalidate`; `login` is
`ReadForLogin`, `StoreToken` (or `RejectToken`), `Invalidate`; `logout` is
`ReadForLogout`, `DeleteToken`, `Invalidate`; `enable-control` is
`EnableReadSettings`, `EnableRecheckOrigin`, `EnableReadKeyring`, `Grant`;
`disable-control` is `Disable`. `CrashAdmin` kills a command between two of
them. The settings are replaced atomically (see `OwnerDocument`), so a save is
one step. `revoked` is a history variable.

**`OperationJournal`** — `record()` as check of the size, `write`, `fsync`.
Records are pairs of an operation and a note; each counts one unit of size.

**`ControlRuntime`** — extends these two. `pc` names the access an operation makes
next. The reads `settings`, `recheck`, `keyring`, `trust` (`_endpoint`,
`credential_for`, `TrustStore.status`) happen in three passes that `phase`
tells apart: *bind*, *before* the journal write, *after* it. `Deny` is
`_refuse`, which journals the refusal, up to the intent, and a bare return from
then on. `Post` attempts once; `Answer` and `Apply` are independent, so a
request can be applied before, after or without the answer. `Crash` kills one
process, `LosePower` all of them. `since` is a history variable: which of the
three facts were true at some instant since the intent was durable.

**`Dispatch`** — the abstract contract of `invoke`: intent on record, then at
most one request, then an answer that never claims more than is known. The
refinement mapping (`Stage`, and the durable intents as `log`) is at the end of
`ControlRuntime`.

**`HouseholdTurn`** — the handlers of `_TurnState`. A handler runs undisturbed
on the event loop until `_settle` sleeps, the one suspension in any handler;
`running` is the handler that has the loop. `Invoke` and `RoutineStep` are
`invoke` and the loop of `run_routine`, `Settle` one look of `_settle`,
`Terminal`, `SdkFails`, `TurnLost` and `DrainEnds` are the ways out of
`_run_async` and `_consume_turn`, `Verdict` is `result()`. A dispatch is one
step with the outcomes that `Dispatch` allows: the operation inside is
synchronous. `width` is how many handlers the SDK has under way at a time.
`sent` is a history variable.

**`RuntimeEnvironment`** — `interpret` and `run` as the steps that take locks
and rewrite `os.environ`; `clear()` and `update()` are two steps, as they are
for a thread that does not hold the lock.

**`OwnerDocument`** — one document and its writers: create the temporary file
exclusively, write, fsync, replace, chmod, and the cleanup of the except
clauses. `UniqueNames = TRUE` is `HouseholdProfile._write` and
`TrustStore._write`, whose temporary names carry a uuid; `FALSE` is
`save_settings`, whose names carry the process identity, for writers that have
the same one.

**`HouseholdProfile`** — `_mutate` over `OwnerDocument`: `ReadDocument`,
`Change` (`set_*` and `configure_model` set a record, perhaps in place of
another; `forget` drops one), the accesses of `_write` (`Store`), and `Abandon`
for what ends an update without a write. A record is named by the save that set
it. `overlapped` is a history variable: the saves that another update, which
had read before them, has overtaken.

**`HomeStates`** — Home Assistant as its readers find it: states, members of
groups, the registries of entities, devices and areas, and whether it answers.
An entry of the entity registry is listed or not, and disabled or not.
One request sees one instant; `ChangeEntry`, `MoveDevice`, `RenameArea`,
`ChangeState`, `Regroup` and `FallSilent` fall between any two. It is not under
`src/`, and marked external in the map.

**`TargetedCall`** — the part of `ControlRuntime` that `ControlRuntime.tla`
leaves open: `invoke`, `resolve`, `find` and `list_actions` with the catalog,
the selectors (`ReadEntities`, `ReadDevices`, `ReadAreas` are the lists of one
registry session, joined as `live.py` joins them and projected as
`live.py:203-235` projects them: `Projection` drops `disabled_by`, so that
`IsDisabled`, the filter of `control.py:742`, keeps everything), `_resolve` and
`_resolve_for_service` (`Settle`), `_preflight` (`LookBefore`, `Compare`),
`_post`, `_observe` and `_effect`. Groups are looked into if they are of the
domains group, light or fan (`Inspected`); of others the code does not read the
members. `FanOutWarned` is the warning that is given with one of them. Trust, journal and deadline are a verdict
here, in `Begin` and `Send`; `ControlRuntime.tla` has their accesses.
`ever`, `always`, `moved`, `regrouped` and `shown` are history variables. `CallSpec`
is one such call by itself, while the home takes any step at any instant.
`Sorted` and `Listed` give a set of entities as a sequence, by `Rank`, the place
of an entity's id among all (targets), or in the order of the registry (what is
returned to the caller).

**`AnalysisRuntime`** — the five operations of `api.py` from request to printed
text: validation, credential, one request per target (`ReadEntity`) or one in
all, redaction at each sink, the model, `serialize_result`. `asked`, `seen`,
`redirected` and `raw` are history variables. `strays` is whether a request
holds targets that are no strings, which get no resolution (`api.py:497`). `AnalysisSpec` is one analysis by
itself, while the home takes any step at any instant.

**`Redaction`** — `redact` and, to hold it against, a definition by places
(`Secrets`, `Redacts`). A document is the flat set of its nodes, each with its
place, the labels of the keys and items on the way to it (`IsDocument`); a key
is the set of its words. `_redact` is a recursive function over the nodes
(`TreeStep` makes a node's value out of those of its parts, `CountStep` the
count), not a RECURSIVE operator, so that it can be reasoned about; and because
documents are flat, "the deepest node at which two walks differ" can be said.

**`HomeCommands`** — one process runs one of the owner's commands, one call or
one analysis, the latter two against a home that changes while it is read.
`CommandSpec` states this for any inputs; the runs start it from chosen ones.

**`RegistrySession`** — `list_display_entities` and `_websocket_commands` of
`live.py`: `Lookup` is `_resolve_addresses`, `Refused` and `Connected` the loop
of `_connect`, `Handshake` the TLS wrap, `ReceiveHeaders` is `_read_headers`
and the check of the upgrade, `ReadBuffered` and `ReceiveFrame` the two halves
of `_read_exact`, `Hear` what the session does with a frame. `Await` is
`_remaining` with the socket's timeout set to it; `Send` is `_send`. A message
is two cells, so that it can be cut; more cells would only repeat the cut.
`Say` is the server, which says what it likes but answers a command under the
id that came with it, and cannot answer what it was not asked.

`MC*` modules instantiate these for TLC; the `.cfg` files name the bounds.
Operators whose comment begins with *Mutant* are plausible mistakes: each
property is checked to fail when one of them replaces the definition it varies.

## 3. Runs

| Run | Instance | What it shows |
|---|---|---|
| `control_homes` | 2 homes, 3 tokens, 1 operation, 1 command at a time; trust writes fail, lines tear | `CredentialScoped`: what talks to a home holds a token of this home. `PostAuthorised`: a request leaves only after endpoint, token and trust were each seen current since the intent was durable |
| `control_journal` | 1 home, 2 operations, limit 1, kills, power loss | `JournalTruth`, `JournalBounded`, `AnswersHonest`, the refinement `ImplementsContract`, and `Terminates` |
| `intent_torn` | 1 operation, short writes | **violation** of `IntentBeforeEffect` |
| `home_commands` | 2 homes, 3 tokens, 2 commands of the owner; one call or one analysis, 4 entities (2 of them groups), at most 2 targets, 1 change of the home | `KeyringScoped`, `TrustScoped`, `RevocationHolds` when the trust file can be written; `TargetsSound`, `EffectHonest`, `InspectionFaithful`, `SecretsKept`, `CommandEnds` |
| `disabled_selected` | the same, the home stands still | **violation** of `DisabledLeftOut` |
| `trust_write_fails` | 1 command, trust writes fail | **violation** of `RevocationHolds` |
| `household_turn` | 4 calls, one or two at a time, 2 mutations of which 1 settles, 1 routine, budget 3 | `NeverRepeated`, `FailureStops`, `IncompleteStops` one at a time; `ResultHonest`, `TurnEnds` in both cases |
| `documents` | 2 writers, 2 updates of the profile each, own names | `WholeDocument`, `SuccessIsStored`, `NoLitter`, `UpdatesCompose` |
| `settings_name` | 2 writers, 2 saves each, one name | **violation** of `WholeDocument` |
| `environment` | 2 interpretations, 2 household runs, 2 providers | `OwnerRestored`, `AgentScoped`, `TurnsAreOwners`, `CallsEnd` |
| `registry_session` | deadline 2, 2 addresses, 1 or 2 commands, 6 messages, plain and TLS | `StreamWhole`, `ResultsBelong`, `TokenAsked`, `NothingSentLate`, `EndsInTime`, `SocketsClosed`, `SessionEnds` |
| `environment_refusal` | 1 of each | **violation** of `RefusalHonest` |

*Why these bounds.* Two homes are what is needed to mix up tokens, and two
tokens of one home to replace one; properties of one operation against the
owner need one operation, whose 14 accesses interleave with any number of
commands in a row. Properties of the journal need two writers: one that checks
the size while the other appends, one whose fsync covers the other's line; the
limit of 1 is passed by the first intent. Homes and the journal are not
combined in one run, because no step of a command touches the journal; the
proofs below cover the combination. A turn needs four calls to exceed a budget
of three, two mutations (one settles, one does not) and a routine of both, so
that repetition can come from either tool; more routines only reorder them. Two
handlers at a time are enough to have one asleep while another runs. Two saves
of a writer let its second update build on the other's first, and on its own.
`documents` has a temporary name per save; what it shows does not hold of
`save_settings` (`settings.py:107`), of which `settings_name` speaks.
Two threads of each kind contend for each lock, with equal and with
different providers. A session of two commands needs five messages; a sixth is
one repeated or out of place. A deadline of 2 leaves an instant before it, one
between two accesses, and one after; two addresses, one to fail.

`home_commands` starts in one of six *scenes*, one per kind of command
(`MCHomeCommands`). A scene leaves open what its command reads and gives one
value to what it never reads: selection has every registry made of four kinds
of entries and a still state, the effect has every presence and every group and
a still registry. Four entities are one in the service's domain, one outside
and two groups, which can share members or lie in one another. The selection
makes the first of them disabled, too, and `ChangeEntry` any of them; with `MaxTargets = 2` and `Limit = 1` a selector can find too
much. One change of the home is one between any two reads. With two changes
during the reading of one registry the join can name a place where an entity
never was (it leaves the area, then its device arrives); `SelectionExact` says
so by its hypothesis `moved <= 1`, and makes no claim there. A look is one of
six: the wished state and attribute, the attribute otherwise or missing, off,
unknown, secret. Documents nest at most four levels, with secrets in a whole
word, in a part of one, under a list, under another secret, and for one caller
only.

*Deadlock* is not checked where the system stops by design: commands,
operations, turns, saves, calls and sessions all come to an end.

## 4. Fairness

* `ControlRuntime`: weak fairness of each operation's own next step. Processes
  are scheduled, and every access returns: files and keyring because they are
  local, network accesses because each has a timeout or the deadline of
  `_remaining`. Nothing is assumed of the owner or of Home Assistant:
  `Terminates` holds though `Apply` may never happen.
* `HouseholdTurn`: weak fairness of the running or woken handler (one event
  loop, every handler step returns) and of the clock; strong fairness of
  `late /\ TurnLost`, the `wait_for` timer, which fires when the loop is next
  free, not continuously enabled because other handlers take the loop; strong
  fairness of `DrainEnds`, an **assumption about the SDK**: after `cancel()` it
  sends a terminal event or falls silent for five seconds. The drain loop has
  no deadline of its own (`household_operator.py:424`), so an SDK that goes on
  sending events keeps it.
* `RegistrySession`: weak fairness of the clock and of the timeout of the access
  in progress; none of the server or the network.
* `RuntimeEnvironment`: weak fairness per thread; the turns of the SDK end.
* `HomeCommands`: weak fairness of the call or analysis under way. Its requests
  return though the home may have fallen silent for good: `_bounded_read` and
  the timeouts of `live.py` end the wait, and every read of the models can fail.

## 5. Assumptions about the environment

* The owner enters at a login a token of the home that the login is for
  (`StoreToken`). The code cannot check it; `KeyringScoped` says that the code
  adds no confusion of its own.
* Files and keyring are the owner's, changed by this program alone. At the
  start they may be whatever earlier commands can leave behind, an interrupted
  command included.
* `rename` is atomic, and durable once it has returned, though no writer syncs
  the directory; `fsync` covers the lines that others wrote before.
* A 2xx answer means that Home Assistant ran the service; a service it ran or
  did not run may each end in another status, or in no answer.
* A response that is malformed is a read that has failed.
* The SDK is not part of this repository. `obedient` says that it honours
  `tool_error_policy="stop"`, with which the agent is created; `IncompleteStops`
  needs it, the other properties of a turn do not. `width` is how many handlers
  it overlaps: `NeverRepeated`, `FailureStops` and `IncompleteStops` are for one
  at a time, the rest for either. With two,
  `NeverRepeated` and `FailureStops` do not hold, because a routine that wakes
  from its settling sleep does not look at `stop`, `mutations_blocked` and
  `_seen_mutations` again (`household_operator.py:299`).

## 6. Proofs

All theorems are proved from the specification and the named `ASSUME`s of the
modules, for every value of the constants; a further assumption is in the
theorem's statement.

**`LocalState_proofs`.** `LocalInv` strengthens the properties by what each
command carries: a command at `grant` holds a token that its endpoint's origin
issued. Without it `TrustScoped` is not inductive: the write of the trust file
would not be known to be scoped. `LocalTypes` (the type
invariant, which in the runs is a part of `CommandTypeOK`), `KeyringStaysScoped`,
`TrustStaysScoped`, and `RevocationStands` (assuming that the trust file can be
written; the run `trust_write_fails` shows the need).

**`ControlRuntime_proofs`.** `CallInv` relates program counter, phase, what is
held and seen, and `since`: a held token is of the held origin; at each point
of the third pass, the facts read so far in it are in `since`; what is seen
while it is compared equals what is held. From it, `Types`,
`CredentialStaysScoped` and `PostsAreAuthorised`, with any number of operations
and commands, failing trust writes and torn lines included.

Second, the journal. `AuditInv` relates journal, program counter and
request: whoever is past the journalling of its intent has it in `durable`;
who is before it has no request and no completion on record; a record that is
being synced is in `lines`. From it, assuming whole records
(`TornTails = FALSE`): `JournalIsTrue`, `AnswersAreHonest`, `IntentComesFirst`
and `Implementation`, that every step of `ControlRuntime` is a step or a
stutter of `Dispatch`. The assumption is needed: `intent_torn`.
`JournalStaysBounded` holds with torn lines too; it counts the writers between
check and append, and needs `Ops` finite.

**`HouseholdProfile_proofs`.** First the document: with `UniqueNames`, `DocInv` says that a temporary
name leads to its own inode only, that a writer past `finish` has a whole file,
and that only whole files have been the document. `DocumentStaysWhole`,
`SuccessIsTrue`, `DirectoryStaysClean`. Then the profile.
`ProfileIsDocument`: updates of the profile take the steps of `OwnerDocument` or
none, so that all of the above holds of them.
`UpdatesCompose` is about the document; what the document will be is settled
when an update begins, so `ProfileInv` says of every update that has begun
(`SaveKnows`) that what it will write is right (`Right`) about all that had been
stored when it read: each record is in it, or was dropped by a stored update, or
is what this one drops. Storing it then leaves unsaid only what it has
overtaken. `ProfileTypes` and `UpdatesStand`, with `UniqueNames`: a save must
store its own file.

**`RuntimeEnvironment_proofs`.** `EnvInv`: who is between lock and release
holds the lock; what it saved is the owner's environment; and the environment
is a function of where the holder is; it includes the type invariant
`EnvTypeOK`, which no run repeats. `OwnerIsRestored`, `AgentsStayScoped`,
`TurnsStayOwners`.

**`RegistrySession_proofs`.** `TimeInv` says where timeouts come from: whatever
the session waits for ends at the deadline, but for a handshake of
`_websocket_commands`, which began before the deadline with a timeout no longer
than it. `DeadlineIsKept`, `SocketsStayClosed`, and `NothingIsLate`, which
follows from `_send` alone. `StreamInv` says that what the client has read, what
it holds in its buffer and what is on its way are, put together, what the server
has said, cut into whole messages; with it `MessageInv` and `ResultInv` say
where in that text the session is, and that the server cannot have answered a
command that it was not asked. `StreamStaysWhole`, `ResultsAreTheirs`,
`TokenIsAskedFor` (with `TokenInv`: no token is out before the request for it
was read) and `SessionTypes`, for any cut of the stream, number of commands and
behaviour of the server.

**`HouseholdTurn_proofs`.** `TurnInv` says where every handler is and what it
still knows: who runs, that the others are asleep or have not begun, whose
receipt is the open one, which mutations are behind a routine and which ahead.
`TurnTypes`; `MutationsOnce`, `NothingAfterFailure` and `NothingAfterIncomplete`,
in which a handler that wakes finds the turn as it left it, because it is alone
(their hypothesis `width = 1` is that of the properties); and `VerdictIsHonest`
for handlers that overlap as well, because the verdict is computed from all
receipts. Routines are assumed to have a step (`household_profile.py:259`).

**`TargetedCall_proofs`.** About `CallSpec`: one call, in a home of any number
of entities in which any change can fall between any two accesses, of which the
call of `HomeCommands` is a part (`CommandsAreCalls`). `CallInv` has these parts. `OrderInv`: what
each step comes after. `ReadInv`: while registries are read, and if no more
than one change has fallen into the reading, the lists read so far together
with the home as it is now select what the selector meant at some instant
(`Witnessed`). This is the argument of `SelectionExact`: a single change
touches one list only, so a mixture of lists from before and after it is the
home before it, or the home after it. `ProjectionKeeps`: the filter for disabled
entities never drops what the projection returns, so what is selected is what is
meant, disabled or not. `LookInv`: the groups looked at are those
of the first targets, as they are now unless one changed, and before the
request all were looked at and compared. `SeenInv`: each observation is the
status of a look that its target has shown since the request. From it,
`TargetsAreSound`, `EffectIsHonest` and `CallTypes`. `ReachedOnce`, the second
part of `TargetsSound`, says two things: a plain target is not a direct member
of a target group, because that is refused; and of two targets that reach the
same entity in any way, through nested or shared groups too, one is a group
(`PlainReaches`), of which the caller is warned.

**`HomeCommands_proofs`.** First one analysis (`AnalysisSpec`), for any request,
in any home. `AnalysisInv`: resolutions and tokens stay in step (`TokensInv`);
targets are asked for in their order, and after a redirect none is (`TurnsInv`);
what is given as absent was absent (`AbsentInv`), what was not resolved is
reported (`ReportInv`), and the entities are those of the resolved targets in
ascending order, each as it was seen (`EntitiesInv`, which is what makes
`InspectionFaithful` inductive: the list of entities and that of resolutions
grow in two steps of the code). From it, `InspectionIsFaithful`.

Then secrets. `RedactTakesSecretsOut` is about `redact` alone and any document:
its walk takes out exactly the outermost values under sensitive keys, and counts
them. Induction over documents is not available, so the argument is one by a
least counterexample: the outcome by places satisfies the equation of the walk
at each node (`TreeIsWalk`, `CountIsWalk`, from `OpenOfParts` and
`SecretsOfParts`, which relate a node to its parts), and among the nodes at
which it and the walk differ there would be one with fewest nodes below it
(`DeepestNode`), whose parts agree, and so itself. `SumOfSizes` does the same for
the sum over the parts. `RedactSettles`: what redact has made of a document it
leaves as it is. Everything that `api.py` redacts is a document: entities
(`EntityIsDocument`), what is found, summaries, the evidence, what a model says
if it got clean evidence. `SecretsInv` adds to `SecretsKept` what the steps on
the way carry: at the model its input is the evidence without its secrets and
`removed` their number, at the end the result is one that a further redaction
does not change (`StaysClean`), and what was not redacted is empty. From it,
`SecretsAreKept`, and with the count `CommandTypes`. TLC has checked `SecretsInv`
on `home_commands` too.

Then the composition: `CommandsAreCalls`, that the process of a command line
implements `CallSpec` and `LocalSpec`, and `CommandsAreSound`, in which all these
promises are those of one process. A call that sends its request changes the
home, which no step of `AnalysisSpec` does; so `CommandSpec` is no
`AnalysisSpec`, and `CommandInv` carries the invariant of the analysis over that
step by what `CommandStart` says: the analysis is at rest then.

Assumptions on the constants are those that the modules name, and TLC evaluates
each. Of `AnalysisAssumption`, that `Documents` are documents is what
`require_json` ensures; `KeysAssumption` says that the words of six field
names of `api.py` are strings, a fact the provers lack.

*Only model-checked:* liveness (`Terminates`, `TurnEnds`, `CallsEnd`,
`SessionEnds`, `CommandEnds`), which is beyond the prover, with `ENABLED`. Every
invariant and action property of a passing run has its theorem; those about
records, temporary names and handlers carry the hypothesis that their property
or run states.

## 7. Findings

* **A revocation can be reported and not happen** (`trust_write_fails`).
  `_invalidate_control_trust` ignores every `OSError`. `SMART_TOOL.md:43`
  promises that every successful setup, login or logout disables control; if
  the trust file is readable but cannot be replaced (a full disk), it stays
  enabled. A changed configuration makes it useless as long as it differs; a
  setup or login that restores the granted connection finds it in force.
* **A torn intent counts as recorded** (`intent_torn`). `record()` ignores how
  much `os.write` wrote, against `SMART_TOOL.md:146`.
* **The temporary name of the settings is not unique** (`settings_name`).
  Two writers with one process identity (threads; processes in different PID
  namespaces over one home directory) can promote a half-written file,
  against `settings.py:10`.
* **A household run can be refused for credentials that are there**
  (`environment_refusal`): `run()` looks at `os.environ` before it takes the
  lock under which an interpretation replaces it.
* **Selectors find disabled entities** (`disabled_selected`). The filter of
  `control.py:742` looks for `disabled_by`, which the projection of `live.py`
  has left out. A disabled entity is selected by name, label, device and area:
  it can make a name ambiguous that one enabled entity has, it counts against
  the limit of targets, and an invocation that selects it is refused, because
  it has no state. `TargetsSound` says what the code does, `DisabledLeftOut`
  what the filter is written for.

Also shown, by proof instead of a run (`KeyCountIsNeverTold`): the offline
summary describes an object by its `key_count` (`api.py:621`), and `redact` takes
the word *key* in a name for a secret, so the count never reaches the output,
whatever the evidence.

Two things that the models show and that no document of the repository denies:
of two updates of the profile that overlap, the later write undoes the earlier
one, though both report success; and handlers that overlap in a turn can repeat
a mutation (section 5).

## 8. Not modelled, and why

* What a value looks like: the patterns of `has_credential_material` and
  `safe_text`, selectors and data that are malformed in detail, sizes of
  responses. A value is shaped like a credential or is not, a request is
  understood or is not.
* What a state is: it is the expected one, another, unknown, or shaped like a
  credential. A scene's state is a time stamp and so never the `on` that
  `scene.turn_on` expects (`_expected_state`): its readback is `partial`, or
  `unverified` while the state is unknown, never `observed`.
* The connection, trust, journal and deadline inside `TargetedCall` and
  `AnalysisRuntime`: one verdict each. Their accesses are in `ControlRuntime`
  and `LocalState`; the selection does not depend on how they interleave,
  because it reads none of their state.
* The daemon threads that an abandoned read or lookup leaves behind
  (`control.py:1220`, `live.py:385`): they end with the process, which runs one
  command.
* Formats, schemas, wording, time stamps, argument parsing, help and exit codes
  (`cli.py`, `control_cli.py`, `presentation.py`, `manifest.py`), host
  normalisation (`origins.py`), the parsing of a provider's answer, and retired
  interfaces (`control_journal.py`, `trusted_approval.py`): no state, or no
  behaviour that depends on order or failure.
* File modes, symbolic links and path checks: a failed check is a failed
  access, which every read and write of the models can be.

## 9. What could follow

Everything of section 2 is written, and the proofs of section 6 are done. Left:

1. A reader thread beside `RuntimeEnvironment`, which finds the directories of
   `settings.py` without the lock.
