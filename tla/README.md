# Verification of the ScreenCast restore extension

The repository extends the ScreenCast portal with `source_label`,
`restore_policy`, `restore_match_rules` and `restore_failure`, as patches to
xdg-desktop-portal, its COSMIC and Hyprland backends, libportal and OBS Studio,
and as a mock portal with tests (`src/screencast-portal-mock`). This directory
holds TLA+ models of that code, what TLC checks of them, and theorems that TLAPS
proves.

Short names used below for the sources, all under `src/`:

| Name | File |
| --- | --- |
| C | `patches/xdg-desktop-portal-cosmic/0001-screencast-implement-restore_policy-with-rescue.patch` |
| X | `patches/xdg-desktop-portal/0001-screencast-add-source_label-and-restore_policy.patch` |
| L | `patches/libportal/0001-remote-add-source_label-and-restore_policy-to-screencast-API.patch` |
| O | `patches/obs-studio/0001-linux-pipewire-send-source_label-and-restore_policy.patch` |
| H | `patches/xdg-desktop-portal-hyprland/0001-screencast-display-source_label-in-share-picker.patch` |
| P, R, S | `screencast-portal-mock/src/portal.rs`, `records.rs`, `scenario.rs` |
| HA, B, OB, TH | `screencast-portal-mock/src/handle.rs`, `bus.rs`, `obs.rs`; `tests/helpers.rs` |

The patches are the implementation: there is no other copy of the patched
programs in the repository. Code that a patch only shows as context is modelled
as far as the patch shows it; the comments in the modules say where.

## Inventory

### How the parts interact

```
OBS (O) -> libportal (L) -> xdg-desktop-portal (X) -> COSMIC backend (C)
  client      policy object      tokens, policy         SelectSources, Start
                                                        |  toplevels, pending_rescues
tests -> mock portal (P, R, S): stands in for X and C   +- Wayland thread
                                                        +- picker dialog
```

Every arrow is a D-Bus method whose answer comes later as a `Response` signal.
A client gives a `restore_token` and a policy to `SelectSources`. The front end
turns the token into restore data, or applies the policy itself. The backend
keeps the data and the policy's action for `source_unavailable` in the session
until `Start`, which restores, waits, asks or fails.

### Components

**COSMIC backend: SelectSources and Start** (C 826-1120). State: `SessionData`
(persisted sources, action, rules) behind a mutex; per Start, where it is, the
sources it will capture, its one-shot channel. Hard: a Start runs concurrently
with other Starts and with the Wayland thread, may be cancelled at every await,
times out after 30 s, and makes its new token from a window list that is later
than the one it matched. Correct when: nothing outside the saved application is
captured unasked; the picker opens under skip and error for consent only; the
token names what is captured; a restore never changes a saved mode.

**COSMIC backend: Wayland thread** (C 1990-2110). State: `toplevels`,
`pending_rescues` (at most `MAX_PENDING_RESCUES`). Operations:
`update_output_toplevels` (publish the list, copy it, drain the pending
rescues), `check_or_rescue` (called by a Start). Hard: two mutexes, taken in
different places, a snapshot between them. Correct when: no wake-up is lost, no
entry is dropped while its Start waits, the limit holds, nobody blocks for ever.

**COSMIC backend: window matching** (C 170-480). Pure: identifier, application
and title, aliases, application, by mode. Hard: order of preference; the unit
tests exercise a candidate-wise copy of the decision. Correct when: both forms
agree, unattended matches stay in the application, and a window that opens never
makes the result worse.

**COSMIC backend: restore token** (C 93-170, 480-700). Conversion between
captures and restore data in three versions, stored as parallel vectors. Correct
when: a token stands for its capture, a stored token comes back as it was, and
an older version never restores more, nor asks where the newest would not.

**COSMIC backend: picker dialog** (C 1230-1960). State: four vectors, three of
them parallel, and two maps. Operations: the messages of `update_msg`. Hard:
messages are queued, so that a second click may arrive before the dialog shows
what the first did. Correct when: what is shared is what is shown.

**Labels and rules** (C 480-700, L 343, X 140, H 23-87, R 202-330, O, OB). The
same label and the same rule lines are limited, parsed and cleaned by up to four
programs in three languages. Correct when: what one lets through no other
refuses, and all of them read the same.

**xdg-desktop-portal: policy and tokens** (X 140-533). State: the permission
store, the session's restore data and failure reason. Operations: option
validation, look-up, deletion and replacement of tokens, failure responses.
Hard: look-up and deletion are two calls; a token is consumed at SelectSources,
and restored only by a later Start. Correct when: a picker opens for a reason
the user allowed, and a client is told to discard no token that still works.

**libportal** (L). State: `XdpRestorePolicy`, `CreateCall`. Operations: setters,
getters, the wire form; the call, whose options go out after two answers. Correct
when: what getters said at the call is what the portal does.

**OBS client** (O, and its model in OB). State: a source's settings, the saved
token among them. Operations: options by portal version, keep or discard the token
after a failure. Correct when: the plugin and the model that the tests use send
the same, and no source fails for ever without a word.

**Mock portal** (P, R). State: a counter, records of calls, `closed_sessions`,
`pending_source_unavailable`, each behind a mutex. Operations: `CreateSession`,
`SelectSources`, `Start`, each of which spawns a task that answers. Hard: tasks
run concurrently, and a response, the closing of its session and the `Closed`
signal are three steps. Correct when: every request is answered, a policy
failure fails one request and closes its session.

**Mock scenarios** (S). What the mock answers; some keep state (the rescue
scenario has a channel that one Start takes).

**Harness** (B, HA, TH). State: the private bus, the recorded calls as a test
sees them, a deadline. Operations: start, kill, `wait_for_calls`, assertions, and
the tests' helper client. Hard: the response and the method's return may arrive
in either order; a call may be recorded while the waiter sleeps. Correct when: the
waiter tells the truth, the client gets through, the assertions mean what they
are used for.

**Packaging and documentation.** Nix files and texts, without state.

`PROJECT.json` lists the components with their status, the hazards at their
lines, and which property covers which.

## Modules

| Module | Models | State and actions |
| --- | --- | --- |
| `StartContract` | the abstract Start | Per session: where it is, what was settled, the answer |
| `RestoreActions` | R 21-169, X 160-277, C 709-729 | Operators: the wire policy and its three resolvers |
| `Positions` | C 1618-1634, OB 174-202 | Operators: what a filter leaves of a list |
| `MatchRules` | O, OB, R, C, X 190-218 | Operators: alias lines and `restore_match_rules` in five programs |
| `SourceLabel` | L 343, X 140, C 682-708, H 23-87 | Operators: the label in four programs |
| `PolicyBuilder` | L 66-277 | `XdpRestorePolicy`; one action per setter |
| `ScreencastCall` | L 188-413 | libportal's call, with the policy object in use meanwhile |
| `ToplevelMatch` | C 98-477 | Operators: the matching of a saved window and of a whole token |
| `WindowArrivals` | the same, over time | A saved window and a list that windows are added to |
| `RestoreToken` | C 115-174, 480-640 | Operators: the token made from a capture, its stored forms and their decoding |
| `CosmicScreenCast` | C 826-1120, 1990-2110 | SelectSources, Start, Wayland thread; composes the three operator modules |
| `CosmicPicker` | C 1230-1960 | The dialog; one action per message |
| `ObsClient` | O, OB | Operators: the options of the plugin and of its model |
| `RestoreSystem` | X 300-533, O, C 826-990 | OBS sources, front end, permission store, and the backend in outline |
| `MockPortal` | P 140-420, S | Methods, tasks and scenarios of the mock; uses `RestoreActions` |
| `MockExchange` | B, HA, OB, TH, R | A whole test: harness, client and waiter around `MockPortal` |
| `MC...` | | Values of the constants for TLC |
| `...Proofs` | | Theorems about the module of the same name; `ScreencastCallProofs` also about `PolicyBuilder` and `SourceLabel`, `CosmicScreenCastProofs` about `RestoreToken`, `MockPortalProofs` about `MockExchange`, `ObsClient` and `MatchRules` |
| `SharedProofs` | | Theorems about `RestoreActions` and `Positions`, and the induction on which others rest |

A definition has the name of the code it stands for where there is one
(`ResolveToplevel`, `NeedsConsentWith`, `FireResponse`). The `map` of
`PROJECT.json` gives the lines of each. Definitions under a comment "Mutant" are
plausible bugs: each property is shown to fail when one of them replaces the
definition that follows it.

**How `CosmicScreenCast` follows the code.** Steps end where the code gives up a
lock or awaits. `Restore` copies the list under the lock and tries the immediate
restore. `Check` and `Register` are the two halves of `check_or_rescue`: the
`toplevels` lock is held from one to the other (`toplevelsLock`), and `Register`
needs `pending_rescues`, which the Wayland thread holds through a drain
(`wl = "draining"`). `UpdateToplevels`, `TakeSnapshot`, `BeginDrain`, `DrainOne`
and `EndDrain` are the lock operations of `update_output_toplevels`. A drain
looks at its entries in any order, which covers the order of the vector. The
channel of a call is empty, holds a message, or is closed, and it closes when
the receiver is dropped: after `Receive`, at the end of the failing statement
(`Fail`), or when the request is cancelled.

**The abstract Start.** `StartContract` says what a client may rely on: what
SelectSources has settled (`terms`) decides whether a Start may ask, restore or
fail, and how it answers. `CosmicScreenCast` maps to it by hiding the locks, the
window lists, the channels and the drain: every place between `restoring` and
`failing` is one decision. `RestoreSystem` maps to it as its clients see it, with
the session's answer forgotten when the client has heard it. So the contract is
kept twice: by the backend under every interleaving of its threads, and by the
chain of programs that share the work of one policy.

**How `RestoreSystem` follows the code.** `SelectSource` takes the options that
`PluginOptions` gives and the validators accept. `LookupPersistent` and
`DeletePersistent` are the front end's two calls to the store. Data that is found and
deleted but then turns out not to be of the type of `restore_data` is "malformed": the
token is reported as `token_consumed` and goes on as one without data. The check
itself is not in the patch, its outcome is (X 526-532). `ApplyPolicy` is the front end's
answer, or not, to a token without data; `BackendSelect` is the decoding in
COSMIC's SelectSources. In the backend's Start, windows come and go, so that
`Restore`, `OpenPicker` and `NoRescue` are open wherever the policy and the data
leave them open; `CosmicScreenCast` says which is taken. `StoreToken` is code
around the patch: a restored session stores its new data under the token it came
with, any other under a new one.

**How `MockExchange` follows the code.** The client subscribes, calls, takes the
return and finds its response in its stream, as the tests' helpers do; returns
and responses are sent by two tasks. `wait_for_calls` counts under the lock,
compares the deadline without it, and sleeps: three steps of `waiter`. Assertions
are operators on the recorded calls.

**How `ScreencastCall` follows the code.** The call copies the policy; the version
(if not known yet) and CreateSession are asked for; then `SelectSources` sends.
The setters of `PolicyBuilder` interleave with all of it.

**Abstractions.** Strings (application ids, titles, patterns) are members of
small sets, and the regex search is a relation `Matches` between patterns and
titles: properties depend on which titles match, never on how. A window handle
is the record of its window. The picker of `CosmicScreenCast` returns one window
with a mode and rules, one output, or a dismissal; `CosmicPicker` has the whole
selection. A line of alias text is a sequence of white space, prefixes and
patterns, and a label a sequence of characters with their lengths in bytes.
Setting up the streams is not part of the patch: it succeeds or fails. A session
has one Start: nothing in the patch keeps state from one Start to the next but
the session data, which the client may set again before it. In the mock, what a
handler does before it first awaits is one step, since nothing else can see the
difference. A scenario is a record of how its `on_select_sources` and `on_start`
turn out (`SlowResponse` and `OldPortal` differ from others in delay and version
only). Two have state: whether `FailThenSucceed` has been called, and the
receiver and controller of `ExternallyTriggeredRescue`.

## Runs

| Run | Instance | Shows |
| --- | --- | --- |
| `cosmic_race` | 2 Starts, one place among the pending rescues, 3 lists, 2 tokens, fair | `NoLostRescue`, `WaiterIsRegistered`, `PendingBounded`, `StartProgresses`, `TypeOK` through races, time-outs and cancellations |
| `cosmic_restore` | 1 Start; exact, alias, output and two-window tokens; 4 lists; 1 output; 5 policies; client rules or none; stored data also with an unreadable rule before the others | `UnattendedStaysInApp`, `PickerOnlyForConsent`, `TokenStandsForCapture`, `RestoreKeepsMode`, `TokenComesBack`, and the refinement `KeepsContract` |
| `cosmic_skip` | as `cosmic_restore` | a skip carries no `restore_failure` (finding) |
| `restore_system` | 2 OBS sources, one token they may both begin with, one issued; every entry of the store; revocations | `PickerWithReason`, `InvalidMeansGone`, `UselessTokenIsReported`, `TypeOK`, and the refinement `KeepsContract` |
| `kept_token` | the same | a token that is to be kept is gone from the store (finding) |
| `window_arrivals` | 3 identifiers, 3 applications, 3 titles, 2 patterns, lists of up to 3 windows, every mode | `ListAgreesWithCandidates`, `AutoStaysInApp`, `ArrivalOnlyImproves` |
| `screencast_call` | all 4 reasons, a known and an unknown action; portals of version 5 and 6; 9 labels around the limit | `SentAsRead`, `ResolversAgree`, `PickersShowTheLabel` |
| `mock_portal` | 3 requests, 9 scenarios, fair | `TypeOK`, `UnavailabilityUsedOnce`, `PolicyNeedsToken`, `RescueAnswersOne`, `EveryRequestAnswered`, `FailureClosesSession` |
| `mock_late_start` | 4 requests | a Start after a policy failure may be accepted (finding) |
| `mock_exchange` | one session of 3 requests; OBS with 21 alias texts, or a client with arrays of its own; 3 kinds of scenario; fair | `ClosedHeardIsRefused`, `RecordedAsConfigured`, `NoPromptsIsEnough`, `WaitTellsTruth`, `WaitReturns`, `ClientGetsThrough`, `PluginAndModelAgree`, `MockAndCosmicAgree` |
| `picker` | 2 windows, 1 output, up to 2 alias rows, both selection kinds | `VectorsParallel`, `ModesAsShown`, `SharedAsShown`, `SingleMeansOne` |
| `picker_default` | the same | a picked window without aliases is saved in app mode although the client sent rules (finding) |

**Bounds.** Two Starts are what a race for the lock, the last place or the drain
takes; the protocol theorems remove the bound. `MAX_PENDING_RESCUES` is 1 in the
runs so that two Starts already fill it. Window lists are those in which the
saved window is present, is back under a new identifier, has a neighbour that an
any-application alias reaches, or is missing; `window_arrivals` takes all lists
up to three windows, which is two candidates that compete for a rule and one
that does not. The mock's three requests are a session and two concurrent calls
on it, and a stray session handle makes three concurrent calls possible without
one; the violation takes four. In `mock_exchange` three requests are the whole of
what the tests' client does, and `Expected` 1 is reached or not, before and after
the deadline. `MaxRows` 2 and `MaxRules` 1 in the picker let a row be cut off;
`MaxRules` 2 elsewhere lets an array reach the limit and pass it. `MaxLabel` is 4,
with labels at it, over it, and over it only until they are cleaned. A value of
3 or 7 stands for every action beyond the enumeration: the code compares with the
known values only.

Two sources are what it takes for one to consume a token between the other's
look-up and its deletion. `restore_system` bounds the tokens that are issued to
one (`NewTokens`), beside the one that both sources may begin with; a session
that would need another one ends without. Sessions are not bounded: the sources
may go on for ever. `silent` counts failures in a row and would pass 2 if the
property did not hold.

A symmetry set (`Clients`) is used in `restore_system` and `kept_token` alone,
which check no liveness and no action of which singles a source out.

**Deadlock** is checked except in `window_arrivals`, the mock (`mock_portal`,
`mock_late_start`, `mock_exchange`) and the picker: there the list is full, every
request is answered, the test is over, the dialog is closed.

**Fairness.** `CosmicScreenCast!FairSpec` asks weak fairness of each Start's own
steps and of the Wayland thread once it has begun an update. The executor polls
a woken future, the timer fires after 30 s, and `update_output_toplevels` is a
plain function that runs to its end. The compositor, the user and the clients
owe nothing, so that `UpdateToplevels`, `Pick`, `Cancel` and `SelectSources` are
not fair: `StartProgresses` holds with no window ever opening. In
`MockPortal!FairSpec` every spawned task is run by tokio until it ends or waits for
the rescue's trigger. The test owes the rescue nothing: `UseController` is not
fair, and `EveryRequestAnswered` exempts a Start that waits while the test still
holds its controller. In `MockExchange!ExchangeSpec` the client, the waiter and
the tasks are driven by the runtime and the clock moves; nothing makes a test
begin, trigger its rescue or kill its bus, so that `ClientGetsThrough` and
`WaitReturns` hold with and without them.

## Theorems

All of them hold for every value of the constants that satisfies the named
assumptions: any number of Starts, sources and requests, any window lists,
tokens, policies, settings and limits. The assumptions type the constants, keep
the special values (`Absent`, `NoToken`, `NoRequest`...) apart from the others,
and state three facts of the code around the models: tokens are fresh UUIDs, so
that no two are the same (`RestoreSystemAssumption`); rules that reach a Start
have passed the decoder's, the option parser's or the picker's limit
(`CosmicAssumption`); an array on the bus has entries of three fields
(`SetupsAssumption`); a label is a text, a sequence of characters
(`CallAssumption`). TLC evaluates each assumption on the runs.

Every safety property and every action property that a passing run checks is a
theorem.

**The COSMIC backend** (`CosmicScreenCastProofs`), from five inductive invariants.

- `TypeInv` is `TypeOK` with `ReadyInv`: a Start about to capture has a capture,
  one that waits has saved sources and a policy other than prompt. `TypeOK`
  alone is not inductive, since `Finish` makes a token of the capture and `Fail`
  answers by the action.
- `ProtocolInv` is why no wake-up is lost (`RescueNeverLost`). `NoLostRescue`
  speaks of the time between updates only. Its strengthening follows a list
  through the update: from the snapshot to the end of the drain the snapshot is
  the current list (`WaylandInv`); a Start that holds the lock has just found its
  token stuck on the current list, and that list cannot change meanwhile
  (`CheckedInv`, `LockInv`); a waiter is registered, in the vector or in the
  drain, and during a drain those in the vector, which the drain has pushed back,
  are stuck on the list (`RescueInv`). The step that needs the lock across
  both halves of `check_or_rescue` is `Register`: without it, a list published
  between the halves would be one that the waiter was never compared with.
- `LimitInv` counts what is in the vector and in the drain together. A Start
  registers when no drain is on, after counting the live entries, and a drain
  puts back no more than it took (`PendingNeverOverflows`).
- `CaptureInv` relates token, capture and picker: an unasked capture stands for
  the saved token (`UnattendedInv`, with `AutoMatchStaysInApp` below it), the
  picker was opened for a token that reaches beyond its application
  (`ConsentInv`), and a token is made from its capture (`TokenInv`, with
  `TokenForCapture`). Messages in the channel carry the same facts from the
  Wayland thread to the Start.
- `RulesInv` says that no capture and no token has more rules than the limit. The
  decoder cuts rules off at the limit, so that a longer list would not come back
  as it was (`TokensComeBack`). Pairs that another version of the backend has stored
  and this one cannot read (`Unreadable`) are skipped before the limit counts
  (`RulesComeBackBehind`). That an older form restores no more is a fact
  about the conversion alone (`OlderDataRestoresNoMore`).

`BackendKeepsContract` is the refinement: under the mapping above every step of
the backend is a step of `StartContract` or a stutter. The actions of the Wayland
thread and the steps between two places of a decision stutter (`Stutters`,
`DecidesOn`). The steps that decide need the inductive invariants: that there is
something to restore when a Start captures unasked or fails by policy is
`ReadyInv`, and that an alias asks for consent when a picker opens under skip or
error is `ConsentInv`, which also covers what the Wayland thread has put in the
channel.

**Matching** (`ToplevelMatchProofs`, `WindowArrivalsProofs`). The least position
of a non-empty set exists (well-founded induction on the naturals), an unattended
match stays in the application, consent takes an any-application alias, and a
token is made for exactly its capture. For lists of any length, the list-wise and
the candidate-wise decisions agree, and, as an action property, a window that
opens only improves the match (`ArrivalsOnlyImprove`): a new window stands behind
all others, so that what was first stays first (`FirstStays`), and what has no
match yet finds it first (`FirstIsNew`).

**The picker** (`CosmicPickerProofs`). Four of the five parts of the invariant are
the properties themselves or nearly so. `ModeInv` is stronger than `ModesAsShown`:
the map of modes has an entry for every selected window, without which
`SetRescueMode` could leave the vector behind. `OneInv` is `SingleMeansOne` as a
disjunction, since a click on an output and one on a window clear different parts.
`SharedAsShown` rests on `VectorsParallel`: rules are written by position.

**The token's life** (`RestoreSystemProofs`). `RestoreInvariant` has six parts.
`SessionInv` and `LookupInv` say what a session knows at each place, and that one
without data goes on only under prompt; they give `PickerOnlyWithReason` and most
of the refinement `ChainKeepsContract`. `OwnInv` says that an issued token is kept
by one source, in its settings or in an answer it has not heard, and that tokens
to come are nobody's. `GoneInv` needs it: another source's success writes the
store, but never at this source's token. `InvalidTokenIsGone` is `GoneInv` at the
answer, and `SilentInv` is the cycle behind `UselessTokenReported`: after a failure
without a word the token has nothing behind it until the source hears of it.

**The mock and its harness** (`MockPortalProofs`). `UnavailabilityIsUsedOnce` counts
(`CountInv`): the failed Starts of a session, with the action left for one, never
outnumber its calls whose task has run. `UnavailabilityUsedOnce` counts all calls,
and is not inductive: a task that runs late adds an action without adding a call.
`PolicyInv` names for each failure, and for each action left for a Start, a call that
asks for it when the scenario's reason comes up; `RescueInv` says that the Starts the
rescue has answered are one or none.

`ExchangeRefinesPortal` shows that a whole test, with its client, its waiter and the
death of its bus, is a behaviour of `MockPortal`, so that all of this holds in every
test. On top of it, `ClosureInv` and `ClientInv` follow a failed request to the
client's next call (`ClosedHeardMeansRefused`), `WaitInv` the counter of
`wait_for_calls` through its three steps (`WaitIsTruthful`), and `RecordInv` and
`CallInv` what is recorded (`RecordIsAsConfigured`, `NoPromptsSuffices`).

`RefusalIsAskedFor` joins the two. `CauseInv` says that a closed session, a client
that waits for `Closed` and a refused one all go back to a request that a policy
has failed; `PolicyInv` names the call behind that failure, and `RecordInv` says
that it is the client's own. So a client is turned away only if its rules cannot be
read, or if its call had a token and asked to fail for just the reason that the
scenario brings: never under `NormalSession`, whatever the order of the tasks.

What is sent and read is proved of texts and arrays of any length. The plugin and
its model are compared line by line, without exception (`LineCompared`): either both
make no rule of a line, or the same, or the plugin's pattern keeps white space beyond
ASCII at an end, which no pattern of the model does. So their rules differ if, and
only if, the plugin sends such a pattern (`PluginDiffersInWhiteSpace`); everything else
they send is the same. A filter leaves entries of the list at positions that it
selects, and so the rules of a text are recorded as they are, and COSMIC reads an
array as the mock does (`ArrayReadAlike`). `TypedRulesReachCosmic` follows the
aliases to the end: what trimming leaves begins with no white space (`TrimLeaves`),
so that COSMIC, which trims again, finds every typed rule usable as it is.
`CosmicUsesTheFirst` says what the limit does to any array: only the last usable
entries are cut off.

**Lists and induction** (`SharedProofs`). `ChosenKeepsOrder` is what a reader expects
of `Chosen`: every selected entry, no other, in the order of the list. It counts the
selected positions below one (`NthIn`, `NthIs`, `LaterHasMoreBelow`). The library's
induction rules take a predicate, which the provers cannot instantiate; stated with
a set (`ClosedSetHasAll`: a set that has 0 and the successor of each member has every
natural number) induction is a lemma like another, proved from the least number of
the complement. With it, a recursive function over the prefixes of a sequence has
the values it is given step by step (`FoldExists`).

**Labels** (`ScreencastCallProofs`). COSMIC cuts a cleaned label back until it fits;
Hyprland adds characters up until one does not. `BothCutToTheLongest` shows by
induction on the characters that both leave the longest prefix of the cleaned label
that fits, which is unique because bytes only grow (`BytesGrow`, `LongestCutIsOne`).
A label never gets longer by cleaning (`CleanedIsShorter`), so that neither picker
shortens one that libportal and the front end accept (`LabelWithinLimitIsWhole`).
`PickersShowAlike` is the property of the run; what is inductive is that a call that
was let through has a label within the limit (`LabelInv`).

**Policies** (`SharedProofs`, `ScreencastCallProofs`). The three resolvers
agree on every policy that the validators accept, and so on every policy that
libportal builds (`BuilderTypeCorrect` and `WireMeansGetters` say what the object
holds and what the wire makes of it). `SentMeansRead` is about the call: what is
inductive is that the call's copy means what the getters said
(`CopyMeansGiven`), which holds because no setter reaches the copy.

**Written for proof.** The filters of `MatchRules` and `CosmicPicker` are defined by
positions (`Chosen`) and not by `SelectSeq` or `FlattenSeq`, whose recursion the
provers cannot follow; `ChosenIsFilter` in `MCCosmicPicker` has TLC check that
`Chosen` leaves what `SelectSeq` would, for all selections of up to five entries.
`SourceLabel` has a recursive function where it could have a fold (`BytesUpto`,
`TextUpto`), so that a proof can speak of every prefix of a label.

**Only model-checked.** Liveness (`StartProgresses`, `EveryRequestAnswered`,
`FailureClosesSession`, `ClientGetsThrough`, `WaitReturns`), which the provers
cannot reach.

## Findings

1. `mock_late_start`: the mock sends the response of a failed request before it
   marks the session closed (P 263), so a client that reacts at once may have a
   later Start accepted. Its README says such sessions reject later Starts.
   `ClosedHeardIsRefused` shows that a client that waits for `Closed` is safe.
2. `cosmic_skip`: a Start that COSMIC skips ends as `Cancelled`, with no results
   (C 977). DESIGN.md says skip includes `restore_failure`.
3. `picker_default`: the picker gives windows without aliases app mode (C 1525),
   so that the title default for client rules is never used. DESIGN.md says
   those windows default to title.
4. `kept_token`: the front end deletes a token at SelectSources (X 519-524). When
   Start then fails as `source_unavailable` with `token_invalid` false, OBS keeps
   a token that the store has no more. `UselessTokenIsReported` shows that this
   mends itself: the next attempt is answered `token_not_found`, and the token
   goes.

Noticed, and without a run of their own: a Start that the mock skips is answered
with empty results as well (P 331), where its README promises
`restore_failure`; libportal turns an unknown action into prompt (L 66), where
DESIGN.md counts unknown as absent; libportal refuses a label of more than 256
bytes (L 347), where DESIGN.md says it truncates (and X 149 says it must reject).

## Not modelled

- `parse_alias_text` and `suggest_project_aliases` (C) edit the text of the dialog;
  `CosmicPicker` takes their results as given.
- Transient permissions (X) live in a table around the patch. `RestoreSystem` has
  the persistent ones.
- `OpenPipeWireRemote` and the properties of the mock, `ObsProcess` and
  `handle.rs`'s accessors have no state.
- What OBS does when its settings are updated while `select_source` reads the
  rules (O 198) depends on threads of code outside the repository.
- Packaging and documentation.

## Plan

Done: the COSMIC backend with its matching, tokens and picker; the restore policy
in its four implementations; the front end's token store with OBS and the backend
around it; libportal's call; the mock portal and its harness; an abstract Start
with two refinements; proofs of all safety and action properties, of both
refinements and of the exchange's refinement of the mock.

Left: what a client gets as the result of a Start that no policy failed, from the
scenario's point of view (the streams and tokens of its results are not modelled);
and the hazards that `PROJECT.json` lists without a property, which lie in code
around the patches or are accepted behaviour.
