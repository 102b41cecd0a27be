------------------------------ MODULE MockPortal ------------------------------
(***************************************************************************)
(* The mock ScreenCast portal.  A D-Bus method of the portal checks its    *)
(* arguments, takes an id from a shared counter, registers the request     *)
(* object and spawns a task; the task asks the Scenario for an outcome,    *)
(* emits Response on the request object and, when a restore policy made    *)
(* the request fail, marks the session closed and emits Closed on it.      *)
(* Tasks run concurrently and share closed_sessions and                    *)
(* pending_source_unavailable, each behind its own mutex.                  *)
(*                                                                         *)
(* A request, and the session a CreateSession makes, is known by its id.   *)
(* The portal runs one scenario.  What a client can tell scenarios apart   *)
(* by is how on_select_sources and on_start turn out; delays, streams and  *)
(* tokens are left out.  ExternallyTriggeredRescue has state: its on_start *)
(* takes a receiver and waits for the test, which holds the controller.    *)
(***************************************************************************)
EXTENDS RestoreActions, Sequences, FiniteSets

(***************************************************************************)
(* The scenarios.  select says which calls of on_select_sources fail, with *)
(* reason; start is what on_start returns, or Rescue.                      *)
(***************************************************************************)
Result == [code : 0..2, failure : BOOLEAN]

Success   == [code |-> 0, failure |-> FALSE]
Cancelled == [code |-> 1, failure |-> FALSE]
Errors    == [code |-> 2, failure |-> FALSE]
Failure   == [code |-> 2, failure |-> TRUE]
Rescue    == [code |-> 3, failure |-> FALSE]

Scenario == [select : {"ok", "fails", "fails_first"}, reason : Reasons,
             start : Result \cup {Rescue}]

Selecting(result) == [select |-> "ok", reason |-> "token_not_found", start |-> result]
Failing(why, result) == [select |-> "fails", reason |-> why, start |-> result]

NormalSession          == Selecting(Success)
UserCancels            == Selecting(Cancelled)
ErrorWithoutFlag       == Selecting(Errors)
MultiSource            == Selecting(Failure)
FailThenSucceed        == [NormalSession EXCEPT !.select = "fails_first"]
RestoreTokenFails(why) == Failing(why, Success)
DelayedRestore(why)    == Failing(why, Success)
ExternallyTriggeredRescue(why) == Failing(why, Rescue)

CONSTANTS
  MaxRequests,  \* bound on the ids handed out
  Stray,        \* a session handle no CreateSession returned
  SelectCalls,  \* what SelectSources calls may carry, as parsed: token, policy and the rest
  Scenarios,    \* the scenarios a test may start the portal with
  Triggers,     \* start results a test may send through the controller
  NoRequest

ASSUME MockAssumption ==
  /\ MaxRequests \in Nat
  /\ Stray \notin Nat
  /\ \A call \in SelectCalls : call.policy = Absent \/ IsWirePolicy(call.policy)
  /\ Scenarios \subseteq Scenario
  /\ Triggers \subseteq Result

Requests == 0..(MaxRequests - 1)
Handles  == Requests \cup {Stray}

\* The arguments of a request: a CreateSession or Start, and a SelectSources.
Plain     == [kind : {"create", "start"}, session : Handles]
Selection == [kind : {"select"}, session : Handles, call : SelectCalls]

ASSUME NoRequestAssumption ==
  NoRequest \notin Plain /\ \A selection \in Selection : NoRequest # selection

VARIABLES
  counter,      \* next id
  request,      \* the arguments of each accepted request
  task,         \* where the task of each request is
  reply,        \* the response a task is about to emit or has emitted
  registered,   \* sessions the object server has an object for
  closed,       \* closed_sessions
  unavailable,  \* pending_source_unavailable: handles to actions
  calls,        \* the recorded SelectSources calls, in order
  signals,      \* sessions whose Closed signal has been emitted
  scenario,     \* the scenario of this portal
  selected,     \* on_select_sources has been called
  receiver,     \* the rescue's receiver is still there to take
  trigger       \* what the test has sent, Held while it keeps the controller

vars == <<counter, request, task, reply, registered, closed, unavailable, calls, signals,
          scenario, selected, receiver, trigger>>

rescueVars == <<receiver, trigger>>
scenarioVars == <<scenario, selected, rescueVars>>

Reply == [code : 0..2, failure : BOOLEAN, policy : BOOLEAN]
None  == [code |-> 0, failure |-> FALSE, policy |-> FALSE]
Held  == [code |-> 3, failure |-> FALSE]

Init ==
  /\ counter = 0
  /\ request = [r \in Requests |-> NoRequest]
  /\ task = [r \in Requests |-> "none"]
  /\ reply = [r \in Requests |-> None]
  /\ registered = {}
  /\ closed = {}
  /\ unavailable = [s \in {} |-> Prompt]
  /\ calls = <<>>
  /\ signals = {}
  /\ scenario \in Scenarios
  /\ selected = FALSE
  /\ receiver = TRUE
  /\ trigger = Held

(***************************************************************************)
(* The methods.  What a handler does before its first await is one step;   *)
(* the await, the registration of the request object and the spawn only    *)
(* delay the task.                                                         *)
(***************************************************************************)
Accept(fields) ==
  /\ counter < MaxRequests
  /\ counter' = counter + 1
  /\ request' = [request EXCEPT ![counter] = fields]
  /\ task' = [task EXCEPT ![counter] = "spawned"]

CreateSession ==
  /\ Accept([kind |-> "create", session |-> counter])
  /\ registered' = registered \cup {counter}
  /\ UNCHANGED <<reply, closed, unavailable, calls, signals, scenarioVars>>

IsClosed(s) == s \in closed

SelectSources(s, call) ==
  /\ ~ IsClosed(s)
  /\ Accept([kind |-> "select", session |-> s, call |-> call])
  /\ calls' = Append(calls, counter)
  /\ UNCHANGED <<reply, registered, closed, unavailable, signals, scenarioVars>>

\* A refused SelectSources has used an id up: options that do not parse, or a closed session.
RejectSelectSources(s) ==
  /\ counter < MaxRequests
  /\ counter' = counter + 1
  /\ UNCHANGED <<request, task, reply, registered, closed, unavailable, calls, signals, scenarioVars>>

\* A refused Start has not, and leaves no trace.
Start(s) ==
  /\ ~ IsClosed(s)
  /\ Accept([kind |-> "start", session |-> s])
  /\ UNCHANGED <<reply, registered, closed, unavailable, calls, signals, scenarioVars>>

(***************************************************************************)
(* The tasks.                                                              *)
(***************************************************************************)
Spawned(r, kind) == task[r] = "spawned" /\ request[r].kind = kind

WillFire(r, code, failure, policy) ==
  /\ reply' = [reply EXCEPT ![r] = [code |-> code, failure |-> failure, policy |-> policy]]
  /\ task' = [task EXCEPT ![r] = "firing"]

CreateTask(r) ==
  /\ Spawned(r, "create")
  /\ WillFire(r, 0, FALSE, FALSE)
  /\ UNCHANGED <<counter, request, registered, closed, unavailable, calls, signals, scenarioVars>>

\* The policy counts only in a call that has a restore token.
DefaultPolicy == [default |-> Absent, actions |-> <<>>]

HadRestoreToken(r) == request[r].call.token # Absent

PolicyOf(r) ==
  IF request[r].call.policy = Absent THEN DefaultPolicy ELSE request[r].call.policy

\* Mutant: the policy counts without a token.
ActionWithoutToken(r, reason) == MockAction(PolicyOf(r), reason)

ActionOf(r, reason) ==
  IF HadRestoreToken(r) THEN MockAction(PolicyOf(r), reason) ELSE Prompt

Put(f, key, value) == [k \in DOMAIN f \cup {key} |-> IF k = key THEN value ELSE f[k]]

\* on_select_sources: "ok", or the reason of its failure.
OnSelectSources ==
  IF scenario.select = "fails" \/ (scenario.select = "fails_first" /\ ~ selected)
  THEN scenario.reason ELSE "ok"

Selects(r) ==
  /\ Spawned(r, "select")
  /\ selected' = TRUE
  /\ UNCHANGED <<counter, request, registered, closed, calls, signals, scenario, rescueVars>>

SelectSucceeds(r) ==
  /\ Selects(r)
  /\ OnSelectSources = "ok"
  /\ WillFire(r, 0, FALSE, FALSE)
  /\ UNCHANGED unavailable

\* An unavailable source surfaces at Start, if the call had a token; the selection succeeds.
SelectUnavailable(r) ==
  /\ Selects(r)
  /\ OnSelectSources = "source_unavailable"
  /\ unavailable' = IF HadRestoreToken(r)
                    THEN Put(unavailable, request[r].session, ActionOf(r, "source_unavailable"))
                    ELSE unavailable
  /\ WillFire(r, 0, FALSE, FALSE)

\* Every other reason is settled at once.
SelectFails(r) ==
  /\ Selects(r)
  /\ OnSelectSources \notin {"ok", "source_unavailable"}
  /\ LET action == ActionOf(r, OnSelectSources)
     IN  IF action = Prompt THEN WillFire(r, 0, FALSE, FALSE)
                            ELSE WillFire(r, action, TRUE, TRUE)
  /\ UNCHANGED unavailable

\* Mutant: it stays behind.
PeekAction(s) == unavailable

\* The action left by SelectSources is taken out, and settles this Start.
TakeAction(s) == [k \in DOMAIN unavailable \ {s} |-> unavailable[k]]

StartTask(r) ==
  /\ Spawned(r, "start")
  /\ LET s      == request[r].session
         action == IF s \in DOMAIN unavailable THEN unavailable[s] ELSE Prompt
     IN  /\ unavailable' = TakeAction(s)
         /\ \/ action = Prompt /\ task' = [task EXCEPT ![r] = "starting"] /\ UNCHANGED reply
            \/ action = Skip /\ WillFire(r, 1, FALSE, TRUE)
            \/ action = Error /\ WillFire(r, 2, TRUE, TRUE)
  /\ UNCHANGED <<counter, request, registered, closed, calls, signals, scenarioVars>>

ScenarioStarts(r) ==
  /\ task[r] = "starting"
  /\ scenario.start # Rescue
  /\ WillFire(r, scenario.start.code, scenario.start.failure, FALSE)
  /\ UNCHANGED <<counter, request, registered, closed, unavailable, calls, signals, scenarioVars>>

\* Mutant: the receiver is left in its place.
BorrowReceiver == receiver

TakenReceiver == FALSE

\* The rescue's receiver is taken once; a second Start panics, and its task is gone.
TakeReceiver(r) ==
  /\ task[r] = "starting"
  /\ scenario.start = Rescue
  /\ task' = [task EXCEPT ![r] = IF receiver THEN "awaiting" ELSE "panicked"]
  /\ receiver' = TakenReceiver
  /\ UNCHANGED <<counter, request, reply, registered, closed, unavailable, calls, signals,
                 scenario, selected, trigger>>

\* The test uses its controller, which is then gone, or drops it: a cancelled response.  The
\* channel keeps what is sent before the Start has come.
UseController ==
  /\ scenario.start = Rescue
  /\ trigger = Held
  /\ trigger' \in Triggers \cup {Cancelled}
  /\ UNCHANGED <<counter, request, task, reply, registered, closed, unavailable, calls, signals,
                 scenario, selected, receiver>>

Rescued(r) ==
  /\ task[r] = "awaiting"
  /\ trigger # Held
  /\ WillFire(r, trigger.code, trigger.failure, FALSE)
  /\ UNCHANGED <<counter, request, registered, closed, unavailable, calls, signals, scenarioVars>>

(***************************************************************************)
(* fire_response, mark_session_closed, fire_session_closed, in the order   *)
(* the tasks call them.                                                    *)
(***************************************************************************)
\* Mutants: the session is not marked closed; it is not closed at all.
SignalAfterResponse(r) == IF reply[r].policy THEN "signalling" ELSE "ended"
EndAfterResponse(r)    == "ended"

AfterResponse(r) == IF reply[r].policy THEN "closing" ELSE "ended"

\* Mutant: the emitter is looked up on the session's object, not the request's.
MayFireOnSession(r) == task[r] = "firing" /\ request[r].session \in registered

MayFire(r) == task[r] = "firing"

FireResponse(r) ==
  /\ MayFire(r)
  /\ task' = [task EXCEPT ![r] = AfterResponse(r)]
  /\ UNCHANGED <<counter, request, reply, registered, closed, unavailable, calls, signals, scenarioVars>>

MarkSessionClosed(r) ==
  /\ task[r] = "closing"
  /\ closed' = closed \cup {request[r].session}
  /\ task' = [task EXCEPT ![r] = "signalling"]
  /\ UNCHANGED <<counter, request, reply, registered, unavailable, calls, signals, scenarioVars>>

\* No object, no signal.
FireSessionClosed(r) ==
  /\ task[r] = "signalling"
  /\ signals' = signals \cup ({request[r].session} \cap registered)
  /\ task' = [task EXCEPT ![r] = "ended"]
  /\ UNCHANGED <<counter, request, reply, registered, closed, unavailable, calls, scenarioVars>>

TaskSteps(r) ==
  \/ CreateTask(r) \/ SelectSucceeds(r) \/ SelectUnavailable(r) \/ SelectFails(r)
  \/ StartTask(r) \/ ScenarioStarts(r) \/ TakeReceiver(r) \/ Rescued(r)
  \/ FireResponse(r) \/ MarkSessionClosed(r) \/ FireSessionClosed(r)

\* Clients use handles they made, or a stray one.
Next ==
  \/ CreateSession
  \/ UseController
  \/ \E s \in registered \cup {Stray} :
       \/ \E call \in SelectCalls : SelectSources(s, call)
       \/ RejectSelectSources(s) \/ Start(s)
  \/ \E r \in Requests :
       \/ CreateTask(r) \/ SelectSucceeds(r) \/ SelectUnavailable(r) \/ SelectFails(r)
       \/ StartTask(r) \/ ScenarioStarts(r) \/ TakeReceiver(r) \/ Rescued(r)
       \/ FireResponse(r) \/ MarkSessionClosed(r) \/ FireSessionClosed(r)

Spec == Init /\ [][Next]_vars

\* The runtime runs every spawned task to its end, or to where it waits for the test.  The test
\* owes the rescue nothing: UseController is not fair.
FairSpec == Spec /\ \A r \in Requests : WF_vars(TaskSteps(r))

(***************************************************************************)
(* Properties.                                                             *)
(***************************************************************************)
Fired(r) == task[r] \in {"closing", "signalling", "ended"}

\* A policy failure of session s that its client has been told of.
FailedByPolicy(r, s) == Fired(r) /\ request[r].session = s /\ reply[r].policy

AcceptedIn(s) == {r \in Requests : request[r] # NoRequest /\ request[r].session = s}

StartsIn(s) == {r \in AcceptedIn(s) : request[r].kind = "start"}

\* Every variable stays in its type.
TypeOK ==
  /\ counter \in 0..MaxRequests
  /\ \A r \in Requests :
       \/ request[r] = NoRequest
       \/ request[r].kind \in {"create", "start"} /\ request[r].session \in Handles
       \/ /\ request[r].kind = "select" /\ request[r].session \in Handles
          /\ request[r].call \in SelectCalls
  /\ task \in [Requests -> {"none", "spawned", "starting", "awaiting", "panicked", "firing",
                            "closing", "signalling", "ended"}]
  /\ reply \in [Requests -> Reply]
  /\ registered \subseteq Requests
  /\ closed \subseteq Handles /\ signals \subseteq Handles
  /\ DOMAIN unavailable \subseteq Handles
  /\ \A s \in DOMAIN unavailable : unavailable[s] \in Known
  /\ \A i \in DOMAIN calls : calls[i] \in Requests
  /\ scenario \in Scenarios
  /\ selected \in BOOLEAN /\ receiver \in BOOLEAN
  /\ trigger \in Triggers \cup {Cancelled, Held}

\* An action left behind by SelectSources fails at most one Start: there are never more failed
\* Starts of a session than SelectSources calls with a token in it.
UnavailabilityUsedOnce ==
  \A s \in Handles :
    Cardinality({r \in AcceptedIn(s) : request[r].kind = "start" /\ reply[r].policy})
      + (IF s \in DOMAIN unavailable THEN 1 ELSE 0)
      <= Cardinality({r \in AcceptedIn(s) : request[r].kind = "select" /\ HadRestoreToken(r)})

\* A policy never fails a request that gave no token, and never the picker's way out: a request
\* fails by policy only under a scenario that fails, and with the response code of the action that
\* some call of its session with a token asked for when just that reason comes up.
PolicyNeedsToken ==
  \A r \in Requests :
    reply[r].policy =>
      /\ scenario.select # "ok" /\ reply[r].code # Prompt
      /\ \E q \in AcceptedIn(request[r].session) :
           /\ request[q].kind = "select" /\ HadRestoreToken(q)
           /\ MockAction(PolicyOf(q), scenario.reason) = reply[r].code

Waits(r) == task[r] = "awaiting" /\ trigger = Held

\* Every accepted request gets its Response, unless it is the Start that waits for a test which
\* still holds its controller, or a second Start of the rescue.  A trigger sent before the Start
\* came is not lost.
EveryRequestAnswered ==
  \A r \in Requests : task[r] # "none" ~> (Fired(r) \/ Waits(r) \/ task[r] = "panicked")

\* The rescue answers one Start: a request is lost to a panic only after another Start, of any
\* session, has got the receiver, and no two Starts ever get it.
RescueAnswersOne ==
  LET asked == {r \in Requests :
                  /\ scenario.start = Rescue /\ request[r] # NoRequest
                  /\ request[r].kind = "start" /\ ~ reply[r].policy
                  /\ task[r] \in {"awaiting", "firing", "ended"}}
  IN  /\ Cardinality(asked) <= 1
      /\ \A r \in Requests : task[r] = "panicked" => asked # {}

\* A session failed by policy ends up refusing calls, even if its client never reacts.
FailureClosesSession ==
  \A r \in Requests :
    (Fired(r) /\ reply[r].policy) ~> \E s \in closed : r \in AcceptedIn(s)

\* Mock README: skip and error responses "reject later Start calls for that session".  Later is
\* after the client has received the response.
LaterStartRejected ==
  [][\A s \in Handles :
       (\E r \in Requests : FailedByPolicy(r, s)) => StartsIn(s)' = StartsIn(s)]_vars

==============================================================================
