----------------------------- MODULE MockExchange -----------------------------
(***************************************************************************)
(* A test with the mock portal: the harness starts the portal on a private *)
(* bus, a client runs one session with it, and the test waits for recorded *)
(* calls and makes assertions about them.                                  *)
(*                                                                         *)
(* The client is OBS, or a program with options of its own.  It does what  *)
(* the tests' helpers do: subscribe to Response and Closed, call, take the *)
(* method's return, find the Response of its request among those that have *)
(* come, and after a failure by policy wait for Closed.  Response and the  *)
(* return are sent by two tasks and arrive in either order.                *)
(***************************************************************************)
EXTENDS MockPortal, ObsClient

CONSTANTS
  Setups,       \* what a test may set up: the client's settings or its own options, the
                \* portal's version and scenario
  Expected      \* the number of calls wait_for_calls is given

OptionsOf(test) ==
  IF test.own = Absent THEN SelectSourcesOptions(test.settings, test.version) ELSE test.own

\* The portal parses every option before it looks at the session.
IsMalformed(options) == options.rules # Absent /\ ~ MockAccepts(options.rules)

Parsed(options) ==
  [options EXCEPT !.rules = IF @ = Absent THEN Absent ELSE MockRules(@)]

\* A source's restore action is one of RestoreAction, and its aliases are lines of text; a policy
\* that is there is not one that is missing.
ASSUME SetupsAssumption ==
  /\ Expected \in Nat
  /\ \A test \in Setups :
       /\ test.scenario \in Scenarios
       /\ ~ IsMalformed(OptionsOf(test)) => Parsed(OptionsOf(test)) \in SelectCalls
       /\ test.version \in Nat
       /\ test.settings.action \in Known /\ Absent # DefaultOnly(test.settings.action)
       /\ test.settings.aliases \in Seq(Seq(Pieces))
       /\ test.own = Absent \/ test.own.rules \in {Absent} \cup Seq(Entry)

VARIABLES
  setup,    \* this test's setup
  bus,      \* "down", "serving", "failed" or "killed"
  client,   \* where the client is
  stream,   \* requests whose Response is in the client's message stream
  waiter    \* wait_for_calls

harnessVars  == <<setup, bus, client, stream, waiter>>
exchangeVars == <<vars, harnessVars>>

IsObs == setup.own = Absent

Options == OptionsOf(setup)

ExchangeInit ==
  /\ Init
  /\ setup \in Setups
  /\ scenario = setup.scenario
  /\ bus = "down"
  /\ client = [at |-> "idle", step |-> "create", session |-> Stray, request |-> NoRequest]
  /\ stream = {}
  /\ waiter = [at |-> "idle", count |-> 0, late |-> FALSE, woken |-> 0]

\* PrivateBus::spawn, connect and MockPortal::start: the harness serves, or reports an error.
StartPortal ==
  /\ bus = "down"
  /\ bus' \in {"serving", "failed"}
  /\ UNCHANGED <<vars, setup, client, stream, waiter>>

\* The daemon is killed: nothing reaches the client any more.
Kill ==
  /\ bus = "serving"
  /\ bus' = "killed"
  /\ UNCHANGED <<vars, setup, client, stream, waiter>>

(***************************************************************************)
(* The client.                                                             *)
(***************************************************************************)
ClientIs(at) == bus = "serving" /\ client.at = at

Subscribe ==
  /\ ClientIs("idle")
  /\ client' = [client EXCEPT !.at = "subscribed"]
  /\ stream' = {}
  /\ UNCHANGED <<vars, setup, bus, waiter>>

Malformed  == IsMalformed(Options)
ParsedCall == Parsed(Options)

Called ==
  /\ client' = [client EXCEPT !.at = "called", !.request = counter]
  /\ UNCHANGED <<setup, bus, stream, waiter>>

Refused ==
  /\ client' = [client EXCEPT !.at = "refused"]
  /\ UNCHANGED <<setup, bus, stream, waiter>>

CallCreateSession ==
  /\ ClientIs("subscribed") /\ client.step = "create"
  /\ CreateSession
  /\ Called

CallSelectSources ==
  /\ ClientIs("subscribed") /\ client.step = "select"
  /\ \/ ~ Malformed /\ SelectSources(client.session, ParsedCall) /\ Called
     \/ Malformed /\ RejectSelectSources(client.session) /\ Refused

CallStart ==
  /\ ClientIs("subscribed") /\ client.step = "start"
  /\ \/ Start(client.session) /\ Called
     \/ IsClosed(client.session) /\ UNCHANGED vars /\ Refused

TakeReturn ==
  /\ ClientIs("called")
  /\ client' = [client EXCEPT !.at = "waiting"]
  /\ UNCHANGED <<vars, setup, bus, stream, waiter>>

Answered == ClientIs("waiting") /\ client.request \in stream

After(at, step, session) ==
  /\ client' = [client EXCEPT !.at = at, !.step = step, !.session = session]
  /\ UNCHANGED <<vars, setup, bus, stream, waiter>>

TakeResponse ==
  /\ Answered
  /\ LET policy == reply[client.request].policy
     IN  \/ client.step = "create" /\ After("idle", "select", client.request)
         \/ client.step # "create" /\ policy /\ After("closing", client.step, client.session)
         \/ client.step = "select" /\ ~ policy /\ After("idle", "start", client.session)
         \/ client.step = "start" /\ ~ policy /\ After("ended", "start", client.session)

\* After a failure by policy the client waits for Closed, and tries to start all the same.
HearClosed ==
  /\ ClientIs("closing")
  /\ client.session \in signals
  /\ After("idle", "start", client.session)

\* The streams of a dead bus end.
LoseBus ==
  /\ bus = "killed"
  /\ client.at \notin {"lost", "ended", "refused"}
  /\ client' = [client EXCEPT !.at = "lost"]
  /\ UNCHANGED <<vars, setup, bus, stream, waiter>>

(***************************************************************************)
(* The portal's tasks, the Responses they emit going to the client.        *)
(***************************************************************************)
\* Mutant: the client subscribes when the method has returned.
SubscribedOnReturn == client.at = "waiting"

Subscribed == client.at \in {"subscribed", "called", "waiting"}

EmitResponse(r) ==
  /\ FireResponse(r)
  /\ stream' = IF bus = "serving" /\ Subscribed THEN stream \cup {r} ELSE stream
  /\ UNCHANGED <<setup, bus, client, waiter>>

SilentTask(r) ==
  /\ \/ CreateTask(r) \/ SelectSucceeds(r) \/ SelectUnavailable(r) \/ SelectFails(r)
     \/ StartTask(r) \/ ScenarioStarts(r) \/ TakeReceiver(r) \/ Rescued(r)
     \/ MarkSessionClosed(r) \/ FireSessionClosed(r)
  /\ UNCHANGED harnessVars

TestTriggers == UseController /\ UNCHANGED harnessVars

(***************************************************************************)
(* wait_for_calls.                                                         *)
(***************************************************************************)
Waiter(at, wait) ==
  /\ waiter.at = at
  /\ waiter' = wait
  /\ UNCHANGED <<vars, setup, bus, client, stream>>

BeginWait ==
  /\ bus \in {"serving", "killed"}
  /\ Waiter("idle", [waiter EXCEPT !.at = "counting", !.woken = Len(calls)])

\* The calls' lock is held to count, and not for the comparison with the deadline.
Count ==
  Waiter("counting", [waiter EXCEPT !.count = Len(calls),
                                    !.at = IF Len(calls) >= Expected THEN "ok" ELSE "counted"])

CheckDeadline ==
  Waiter("counted", [waiter EXCEPT !.at = IF waiter.late THEN "timeout" ELSE "sleeping"])

\* Mutant: past the deadline nothing is counted any more.
WakeToDeadline == IF waiter.late THEN "counted" ELSE "counting"

AfterSleep == "counting"

\* Mutant: the deadline is computed inside the loop.
RestartedDeadline == FALSE

KeptDeadline == waiter.late

Wake ==
  Waiter("sleeping",
         [waiter EXCEPT !.at = AfterSleep, !.late = KeptDeadline, !.woken = Len(calls)])

DeadlinePasses ==
  /\ waiter.at \in {"counting", "counted", "sleeping"}
  /\ ~ waiter.late
  /\ waiter' = [waiter EXCEPT !.late = TRUE]
  /\ UNCHANGED <<vars, setup, bus, client, stream>>

(***************************************************************************)
(* The handle's assertions, about the calls recorded at this moment.       *)
(***************************************************************************)
Call(i) == request[calls[i]].call

AssertSourceLabel(i, expected) == Call(i).label = expected
AssertNoSourceLabel(i)         == Call(i).label = Absent

AssertRestoreDefaultAction(i, expected) ==
  Call(i).policy # Absent /\ ParseRestorePolicy(Call(i).policy).default = expected

AssertRestoreReasonAction(i, reason, expected) ==
  /\ Call(i).policy # Absent
  /\ reason \in DOMAIN ParseRestorePolicy(Call(i).policy).actions
  /\ ParseRestorePolicy(Call(i).policy).actions[reason] = expected

AssertNoRestorePolicy(i) == Call(i).policy = Absent

AssertRestoreMatchRules(i, expected) == Call(i).rules = expected
AssertNoRestoreMatchRules(i)         == Call(i).rules = Absent

AssertNoPrompts == \A i \in DOMAIN calls : ~ AssertRestoreDefaultAction(i, Prompt)

(***************************************************************************)
(* Steps and fairness.  The runtime drives the tasks, the client and the   *)
(* waiter, and the clock moves; tests owe neither a trigger nor a kill.    *)
(***************************************************************************)
ClientSteps ==
  \/ Subscribe \/ CallCreateSession \/ CallSelectSources \/ CallStart
  \/ TakeReturn \/ TakeResponse \/ HearClosed \/ LoseBus

WaiterSteps == BeginWait \/ Count \/ CheckDeadline \/ Wake

ExchangeNext ==
  \/ StartPortal \/ Kill
  \/ Subscribe \/ CallCreateSession \/ CallSelectSources \/ CallStart
  \/ TakeReturn \/ TakeResponse \/ HearClosed \/ LoseBus
  \/ \E r \in Requests : EmitResponse(r) \/ SilentTask(r)
  \/ TestTriggers
  \/ BeginWait \/ Count \/ CheckDeadline \/ Wake \/ DeadlinePasses

ExchangeSpec ==
  /\ ExchangeInit /\ [][ExchangeNext]_exchangeVars
  /\ WF_exchangeVars(ClientSteps)
  /\ WF_exchangeVars(WaiterSteps) /\ WF_exchangeVars(DeadlinePasses)
  /\ \A r \in Requests : WF_exchangeVars(EmitResponse(r) \/ SilentTask(r))

(***************************************************************************)
(* Properties.                                                             *)
(***************************************************************************)

\* The client never waits for a Response that has come too early or went elsewhere: it gets to the
\* end, is refused or loses the bus, unless its Start waits for the test.
ClientGetsThrough ==
  client.at = "subscribed" ~>
    \/ client.at \in {"idle", "ended", "refused", "lost"}
    \/ \E r \in Requests : client.request = r /\ Waits(r)

\* A client that has waited for Closed is never let in again: only a client that does not wait can
\* have its Start accepted in a session that failed.
ClosedHeardIsRefused ==
  (client.step = "start" /\ client.at \in {"called", "waiting", "ended"} /\ client.request # NoRequest) =>
    \A r \in AcceptedIn(client.session) : r < client.request => ~ reply[r].policy

\* Once its SelectSources has returned, a client's call is there for the assertions, and they find in
\* it what the source is configured to send, whichever version the portal has.
RecordedAsConfigured ==
  (IsObs /\ client.step = "select" /\ client.at = "waiting") =>
    \E i \in DOMAIN calls :
      /\ calls[i] = client.request
      /\ LET settings == setup.settings
             extended == setup.version >= ExtensionVersion
             rules    == ParseRestoreMatchRulesText(settings.aliases)
         IN  /\ IF extended /\ settings.name # "" THEN AssertSourceLabel(i, settings.name)
                ELSE AssertNoSourceLabel(i)
             /\ IF extended /\ settings.token # "" THEN AssertRestoreDefaultAction(i, settings.action)
                ELSE AssertNoRestorePolicy(i)
             /\ IF extended /\ settings.token # "" /\ rules # <<>>
                THEN AssertRestoreMatchRules(i, rules) ELSE AssertNoRestoreMatchRules(i)

\* assert_no_prompts looks at default actions only.  For OBS that is enough: if it passes, no failure
\* of a token OBS gave a portal of version 6 leads to a prompt.
NoPromptsIsEnough ==
  (IsObs /\ setup.version >= ExtensionVersion /\ AssertNoPrompts) =>
    \A i \in DOMAIN calls, reason \in Reasons :
      /\ HadRestoreToken(calls[i]) => ActionOf(calls[i], reason) # Prompt
      /\ \A action \in Known : ~ AssertRestoreReasonAction(i, reason, action)

\* wait_for_calls tells the truth: it succeeds only with the calls there, and times out only if they
\* were not there when it last woke up; a call recorded during its sleep is not missed.
WaitTellsTruth ==
  /\ waiter.at = "ok" => Len(calls) >= Expected
  /\ waiter.at = "timeout" => waiter.woken < Expected /\ waiter.count < Expected

\* It always returns, whatever becomes of the bus.
WaitReturns == waiter.at = "counting" ~> waiter.at \in {"ok", "timeout"}

EndsWide(pattern) == pattern # <<>> /\ "wide" \in {pattern[1], pattern[Len(pattern)]}

SendsEndsWide(options) ==
  /\ options.rules # Absent
  /\ \E i \in DOMAIN options.rules : EndsWide(options.rules[i].pattern)

AgreeButForWhiteSpace(plugin, model) ==
  /\ plugin.token = model.token /\ plugin.label = model.label /\ plugin.policy = model.policy
  /\ plugin.rules # model.rules <=> SendsEndsWide(plugin)

\* The plugin and the mock crate's model of it send the same, whatever the alias text, but for one
\* difference: the plugin's g_strstrip leaves white space beyond ASCII where the model's trim does
\* not.  Their rules differ if, and only if, the plugin sends a pattern with such a space at an end.
PluginAndModelAgree ==
  AgreeButForWhiteSpace(PluginOptions(setup.settings, setup.version),
                        SelectSourcesOptions(setup.settings, setup.version))

\* What the mock records of an array it accepts is what COSMIC would go by, but for the rules COSMIC
\* cannot use and those beyond its limit: a test against the mock tells how COSMIC reads the array.
MockAndCosmicAgree ==
  LET entries == Options.rules
  IN  (entries # Absent /\ MockAccepts(entries)) =>
        LET usable == Usable(MockRules(entries))
        IN  CosmicRules(entries) = SubSeq(usable, 1, Min({Len(usable), MaxRules}))
==============================================================================
