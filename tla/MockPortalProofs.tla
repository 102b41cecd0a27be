--------------------------- MODULE MockPortalProofs ---------------------------
(***************************************************************************)
(* The mock portal, for any number of requests, any calls, scenarios and   *)
(* triggers, and its tasks in any order; then a whole test around it, with *)
(* any setup, and OBS's options in its plugin and in its model.            *)
(***************************************************************************)
EXTENDS MockExchange, SharedProofs, FiniteSetTheorems, SequenceTheorems,
        WellFoundedInduction

Stages == {"none", "spawned", "starting", "awaiting", "panicked", "firing", "closing", "signalling",
           "ended"}

\* A task that has not got to its response.
Unanswered == {"none", "spawned", "starting", "awaiting", "panicked"}

TypeInv ==
  /\ counter \in 0..MaxRequests
  /\ request \in [Requests -> Plain \cup Selection \cup {NoRequest}]
  /\ task \in [Requests -> Stages]
  /\ reply \in [Requests -> Reply]
  /\ registered \subseteq Requests
  /\ closed \subseteq Handles /\ signals \subseteq Handles
  /\ DOMAIN unavailable \subseteq Handles
  /\ \A s \in DOMAIN unavailable : unavailable[s] \in Known
  /\ calls \in Seq(Requests)
  /\ scenario \in Scenarios
  /\ selected \in BOOLEAN /\ receiver \in BOOLEAN
  /\ trigger \in Triggers \cup {Cancelled, Held}

\* Ids are used once, a task has its request, and what it answers follows from how far it is.
TaskInv ==
  \A r \in Requests :
    /\ request[r] = NoRequest <=> task[r] = "none"
    /\ r >= counter => task[r] = "none"
    /\ task[r] \in {"starting", "awaiting", "panicked"} => request[r].kind = "start"
    /\ task[r] \in Unanswered => ~ reply[r].policy
    /\ task[r] \in {"closing", "signalling"} => reply[r].policy
    /\ reply[r].policy => request[r].kind \in {"select", "start"}

\* A call of session s that has a token, and what it asks for when the scenario's reason comes up.
Tokened(q, s) == q \in AcceptedIn(s) /\ request[q].kind = "select" /\ HadRestoreToken(q)

AsksFor(s, action) ==
  /\ scenario.select # "ok"
  /\ \E q \in Requests : Tokened(q, s) /\ MockAction(PolicyOf(q), scenario.reason) = action

\* Both the failures and the actions left for a Start come from calls with a token.
PolicyInv ==
  /\ \A r \in Requests :
       reply[r].policy => reply[r].code # Prompt /\ AsksFor(request[r].session, reply[r].code)
  /\ \A s \in DOMAIN unavailable : AsksFor(s, unavailable[s])

\* The failed Starts of a session, and the calls that can have left an action: those whose task has
\* run.
FailedStarts(s) == {r \in AcceptedIn(s) : request[r].kind = "start" /\ reply[r].policy}
RunCalls(s)     == {r \in AcceptedIn(s) : /\ request[r].kind = "select" /\ HadRestoreToken(r)
                                          /\ task[r] # "spawned"}
Left(s)         == IF s \in DOMAIN unavailable THEN 1 ELSE 0

CountInv == \A s \in Handles : Cardinality(FailedStarts(s)) + Left(s) <= Cardinality(RunCalls(s))

\* The Starts that the rescue has answered, or will: none while the receiver is there, then one.
Asked == {r \in Requests :
            /\ scenario.start = Rescue /\ request[r] # NoRequest
            /\ request[r].kind = "start" /\ ~ reply[r].policy
            /\ task[r] \in {"awaiting", "firing", "ended"}}

RescueInv ==
  /\ receiver => Asked = {}
  /\ ~ receiver => \E r \in Requests : Asked = {r}
  /\ \A r \in Requests : task[r] = "panicked" => ~ receiver

IInv == TypeInv /\ TaskInv /\ PolicyInv /\ CountInv /\ RescueInv

(***************************************************************************)
(* The initial states.                                                     *)
(***************************************************************************)
LEMMA InitInv == Init => IInv
<1> SUFFICES ASSUME Init PROVE IInv
  OBVIOUS
<1> USE MockAssumption, NoRequestAssumption DEF Init
<1>1. TypeInv
  <2>1. /\ counter \in 0..MaxRequests
        /\ request \in [Requests -> Plain \cup Selection \cup {NoRequest}]
        /\ task \in [Requests -> Stages]
        /\ reply \in [Requests -> Reply]
    BY DEF Stages, Reply, None
  <2>2. /\ DOMAIN unavailable \subseteq Handles
        /\ \A s \in DOMAIN unavailable : unavailable[s] \in Known
    OBVIOUS
  <2>3. calls \in Seq(Requests)
    BY DEF Init
  <2>4. /\ registered \subseteq Requests
        /\ closed \subseteq Handles /\ signals \subseteq Handles
        /\ scenario \in Scenarios
        /\ selected \in BOOLEAN /\ receiver \in BOOLEAN
        /\ trigger \in Triggers \cup {Cancelled, Held}
    OBVIOUS
  <2> QED BY <2>1, <2>2, <2>3, <2>4 DEF TypeInv
<1>2. TaskInv
  BY DEF TaskInv, Unanswered, None, Requests
<1>3. PolicyInv
  BY DEF PolicyInv, None
<1>4. CountInv
  <2> SUFFICES ASSUME NEW s \in Handles
               PROVE  Cardinality(FailedStarts(s)) + Left(s) <= Cardinality(RunCalls(s))
    BY DEF CountInv
  <2>1. FailedStarts(s) = {} /\ RunCalls(s) = {}
    BY DEF FailedStarts, RunCalls, AcceptedIn
  <2>2. Left(s) = 0
    BY DEF Left
  <2> QED BY <2>1, <2>2, FS_EmptySet
<1>5. RescueInv
  BY DEF RescueInv, Asked
<1> QED BY <1>1, <1>2, <1>3, <1>4, <1>5 DEF IInv

(***************************************************************************)
(* A method accepts a request: an id that was free gets its arguments, and *)
(* its task is spawned.                                                    *)
(***************************************************************************)
Accepts(fields) ==
  /\ counter \in Requests
  /\ request[counter] = NoRequest /\ task[counter] = "none" /\ reply[counter].policy = FALSE
  /\ fields # NoRequest
  /\ counter' = counter + 1 /\ counter' \in 0..MaxRequests
  /\ request' \in [Requests -> Plain \cup Selection \cup {NoRequest}]
  /\ task' \in [Requests -> Stages]
  /\ request'[counter] = fields /\ task'[counter] = "spawned"
  /\ \A r \in Requests : r # counter => request'[r] = request[r] /\ task'[r] = task[r]

LEMMA AcceptStep ==
  ASSUME TypeInv, TaskInv, NEW fields \in Plain \cup Selection, Accept(fields)
  PROVE  Accepts(fields)
<1> USE MockAssumption, NoRequestAssumption
<1>1. counter \in Requests /\ counter' = counter + 1 /\ counter' \in 0..MaxRequests
  BY DEF TypeInv, Accept, Requests
<1>2. task[counter] = "none" /\ request[counter] = NoRequest /\ reply[counter].policy = FALSE
  BY <1>1 DEF TypeInv, TaskInv, Requests, Unanswered, Reply
<1>3. fields # NoRequest
  OBVIOUS
<1>4. /\ request' \in [Requests -> Plain \cup Selection \cup {NoRequest}]
      /\ request'[counter] = fields
      /\ \A r \in Requests : r # counter => request'[r] = request[r]
  BY <1>1 DEF Accept, TypeInv
<1>5. /\ task' \in [Requests -> Stages]
      /\ task'[counter] = "spawned"
      /\ \A r \in Requests : r # counter => task'[r] = task[r]
  BY <1>1 DEF Accept, TypeInv, Stages
<1> QED BY <1>1, <1>2, <1>3, <1>4, <1>5 DEF Accepts

\* The three methods that accept a request, and what they have in common.
Method ==
  \E fields \in Plain \cup Selection :
    /\ fields.kind \in {"create", "start", "select"}
    /\ Accept(fields)
    /\ registered' \in {registered, registered \cup {counter}}
    /\ calls' \in {calls, Append(calls, counter)}
    /\ UNCHANGED <<reply, closed, unavailable, signals, scenarioVars>>

LEMMA MethodStep ==
  ASSUME TypeInv, NEW s \in registered \cup {Stray},
         \/ CreateSession
         \/ Start(s)
         \/ \E call \in SelectCalls : SelectSources(s, call)
  PROVE  Method
<1>1. s \in Handles
  BY DEF TypeInv, Handles
<1>2. ASSUME CreateSession PROVE Method
  <2>1. counter \in Handles
    BY <1>2, MockAssumption DEF CreateSession, Accept, TypeInv, Handles, Requests
  <2> DEFINE fields == [kind |-> "create", session |-> counter]
  <2>2. fields \in Plain /\ fields.kind = "create"
    BY <2>1 DEF Plain
  <2>3. Accept(fields)
    BY <1>2 DEF CreateSession
  <2>4. /\ registered' = registered \cup {counter} /\ calls' = calls
        /\ UNCHANGED <<reply, closed, unavailable, signals, scenarioVars>>
    BY <1>2 DEF CreateSession
  <2> HIDE DEF fields
  <2> QED BY <2>2, <2>3, <2>4 DEF Method
<1>3. ASSUME Start(s) PROVE Method
  <2> DEFINE fields == [kind |-> "start", session |-> s]
  <2>2. fields \in Plain /\ fields.kind = "start"
    BY <1>1 DEF Plain
  <2>3. Accept(fields)
    BY <1>3 DEF Start
  <2>4. /\ registered' = registered /\ calls' = calls
        /\ UNCHANGED <<reply, closed, unavailable, signals, scenarioVars>>
    BY <1>3 DEF Start
  <2> HIDE DEF fields
  <2> QED BY <2>2, <2>3, <2>4 DEF Method
<1>4. ASSUME NEW call \in SelectCalls, SelectSources(s, call) PROVE Method
  <2> DEFINE fields == [kind |-> "select", session |-> s, call |-> call]
  <2>2. fields \in Selection /\ fields.kind = "select"
    BY <1>1 DEF Selection
  <2>3. Accept(fields)
    BY <1>4 DEF SelectSources
  <2>4. /\ registered' = registered /\ calls' = Append(calls, counter)
        /\ UNCHANGED <<reply, closed, unavailable, signals, scenarioVars>>
    BY <1>4 DEF SelectSources
  <2> HIDE DEF fields
  <2> QED BY <2>2, <2>3, <2>4 DEF Method
<1> QED BY <1>2, <1>3, <1>4


\* A request of its type, and what is known of one by its kind.
LEMMA RequestTyped ==
  ASSUME TypeInv, TaskInv, NEW r \in Requests, task[r] # "none"
  PROVE  /\ request[r] # NoRequest /\ request[r] \in Plain \cup Selection
         /\ request[r].session \in Handles
         /\ request[r].kind = "select" => request[r] \in Selection
<1>1. request[r] # NoRequest /\ request[r] \in Plain \cup Selection
  BY DEF TypeInv, TaskInv
<1>2. request[r].session \in Handles
  BY <1>1 DEF Plain, Selection
<1>3. request[r].kind = "select" => request[r] \in Selection
  BY <1>1 DEF Plain
<1> QED BY <1>1, <1>2, <1>3

(***************************************************************************)
(* A task moves on, with or without settling its response.                 *)
(***************************************************************************)
Moves(r, stage) ==
  /\ task' \in [Requests -> Stages]
  /\ task'[r] = stage
  /\ \A q \in Requests : q # r => task'[q] = task[q]

Answers(r, answer) ==
  /\ Moves(r, "firing")
  /\ reply' \in [Requests -> Reply]
  /\ reply'[r] = answer
  /\ \A q \in Requests : q # r => reply'[q] = reply[q]

LEMMA MoveStep ==
  ASSUME TypeInv, NEW r \in Requests, NEW stage \in Stages, task' = [task EXCEPT ![r] = stage]
  PROVE  Moves(r, stage)
BY DEF TypeInv, Moves

LEMMA AnswerStep ==
  ASSUME TypeInv, NEW r \in Requests, NEW answer \in Reply,
         reply' = [reply EXCEPT ![r] = answer], task' = [task EXCEPT ![r] = "firing"]
  PROVE  Answers(r, answer)
<1>1. Moves(r, "firing")
  BY MoveStep DEF Stages
<1>2. reply \in [Requests -> Reply]
  BY DEF TypeInv
<1> QED BY <1>1, <1>2 DEF Answers

\* What a call asks for is an action, and other than the picker only with a token.
LEMMA ActionTyped ==
  ASSUME TypeInv, TaskInv, NEW r \in Requests, request[r] \in Selection, NEW reason \in Reasons
  PROVE  /\ ActionOf(r, reason) \in Known
         /\ HadRestoreToken(r) /\ scenario.select # "ok" /\ reason = scenario.reason
              => AsksFor(request[r].session, ActionOf(r, reason))
         /\ ~ HadRestoreToken(r) => ActionOf(r, reason) = Prompt
<1>1. request[r].call \in SelectCalls /\ request[r].kind = "select"
  BY DEF Selection
<1>2. request[r] # NoRequest
  BY NoRequestAssumption
<1>3. IsWirePolicy(DefaultPolicy)
  BY DEF IsWirePolicy, DefaultPolicy
<1>4. IsWirePolicy(PolicyOf(r))
  BY <1>1, <1>3, MockAssumption DEF PolicyOf
<1>5. MockAction(PolicyOf(r), reason) \in Known
  BY <1>4, ResolversAgreeOnTheWire
<1>6. ActionOf(r, reason) \in Known
  BY <1>5 DEF ActionOf, Known
<1>7. ASSUME HadRestoreToken(r), scenario.select # "ok", reason = scenario.reason
      PROVE  AsksFor(request[r].session, ActionOf(r, reason))
  <2>1. Tokened(r, request[r].session)
    BY <1>1, <1>2, <1>7 DEF Tokened, AcceptedIn
  <2>2. ActionOf(r, reason) = MockAction(PolicyOf(r), reason)
    BY <1>7 DEF ActionOf
  <2> QED BY <1>7, <2>1, <2>2 DEF AsksFor
<1> QED BY <1>6, <1>7 DEF ActionOf

(***************************************************************************)
(* What each action does to the variables it changes, within their types.  *)
(***************************************************************************)
Frame == UNCHANGED <<counter, request, registered, calls, scenario>>

LEMMA MethodTyped ==
  ASSUME TypeInv, TaskInv, Method
  PROVE  TypeInv' /\ TaskInv'
<1>1. PICK fields \in Plain \cup Selection :
        /\ fields.kind \in {"create", "start", "select"}
        /\ Accept(fields)
        /\ registered' \in {registered, registered \cup {counter}}
        /\ calls' \in {calls, Append(calls, counter)}
        /\ UNCHANGED <<reply, closed, unavailable, signals, scenarioVars>>
  BY DEF Method
<1>2. Accepts(fields)
  BY <1>1, AcceptStep
<1>3. registered' \subseteq Requests
  BY <1>1, <1>2 DEF TypeInv, Accepts
<1>4. calls' \in Seq(Requests)
  BY <1>1, <1>2 DEF TypeInv, Accepts
<1>5. TypeInv'
  BY <1>1, <1>2, <1>3, <1>4 DEF TypeInv, Accepts, scenarioVars, rescueVars
<1>6. TaskInv'
  <2> SUFFICES ASSUME NEW r \in Requests
               PROVE  /\ request'[r] = NoRequest <=> task'[r] = "none"
                      /\ r >= counter' => task'[r] = "none"
                      /\ task'[r] \in {"starting", "awaiting", "panicked"}
                           => request'[r].kind = "start"
                      /\ task'[r] \in Unanswered => ~ reply'[r].policy
                      /\ task'[r] \in {"closing", "signalling"} => reply'[r].policy
                      /\ reply'[r].policy => request'[r].kind \in {"select", "start"}
    BY DEF TaskInv
  <2>1. reply' = reply
    BY <1>1
  <2>2. CASE r = counter
    BY <1>2, <2>1, <2>2, MockAssumption DEF Accepts, Requests
  <2>3. CASE r # counter
    <3>1. request'[r] = request[r] /\ task'[r] = task[r]
      BY <1>2, <2>3 DEF Accepts
    <3>2. r >= counter' => r >= counter
      BY <1>2, MockAssumption DEF Accepts, Requests
    <3> QED BY <2>1, <3>1, <3>2 DEF TaskInv
  <2> QED BY <2>2, <2>3
<1> QED BY <1>5, <1>6


LEMMA TaskKept ==
  ASSUME TaskInv, Frame, NEW r \in Requests, NEW stage \in Stages \ {"none"}, Moves(r, stage),
         task[r] # "none",
         \A q \in Requests : q # r => reply'[q] = reply[q],
         stage \in {"starting", "awaiting", "panicked"} => request[r].kind = "start",
         stage \in Unanswered => ~ reply'[r].policy,
         stage \in {"closing", "signalling"} => reply'[r].policy,
         reply'[r].policy => request[r].kind \in {"select", "start"}
  PROVE  TaskInv'
<1> SUFFICES ASSUME NEW q \in Requests
             PROVE  /\ request'[q] = NoRequest <=> task'[q] = "none"
                    /\ q >= counter' => task'[q] = "none"
                    /\ task'[q] \in {"starting", "awaiting", "panicked"}
                         => request'[q].kind = "start"
                    /\ task'[q] \in Unanswered => ~ reply'[q].policy
                    /\ task'[q] \in {"closing", "signalling"} => reply'[q].policy
                    /\ reply'[q].policy => request'[q].kind \in {"select", "start"}
  BY DEF TaskInv
<1>1. request' = request /\ counter' = counter
  BY DEF Frame
<1>2. CASE q = r
  BY <1>1, <1>2 DEF Moves, TaskInv
<1>3. CASE q # r
  BY <1>1, <1>3 DEF Moves, TaskInv
<1> QED BY <1>2, <1>3

\* A task that settles its response.
LEMMA AnswerTyped ==
  ASSUME TypeInv, TaskInv, Frame, NEW r \in Requests, NEW answer \in Reply,
         Answers(r, answer), task[r] # "none",
         answer.policy => request[r].kind \in {"select", "start"},
         DOMAIN unavailable' \subseteq Handles,
         \A s \in DOMAIN unavailable' : unavailable'[s] \in Known,
         selected' \in BOOLEAN,
         UNCHANGED <<closed, signals, rescueVars>>
  PROVE  TypeInv' /\ TaskInv'
<1>1. TypeInv'
  BY DEF TypeInv, Frame, Answers, Moves, rescueVars
<1>2. Moves(r, "firing") /\ \A q \in Requests : q # r => reply'[q] = reply[q]
  BY DEF Answers
<1>3. reply'[r].policy => request[r].kind \in {"select", "start"}
  BY DEF Answers
<1>4. TaskInv'
  BY <1>2, <1>3, TaskKept DEF Stages, Unanswered
<1> QED BY <1>1, <1>4

\* A response that no policy had a say in, and one that a policy made a failure.
Quietly(r)  == \E answer \in Reply : Answers(r, answer) /\ ~ answer.policy
ByPolicy(r) == \E answer \in Reply : Answers(r, answer) /\ answer.policy

\* The tasks that answer without the help of a policy.
Quiet(r) == CreateTask(r) \/ SelectSucceeds(r) \/ ScenarioStarts(r) \/ Rescued(r)

LEMMA QuietStep ==
  ASSUME TypeInv, TaskInv, NEW r \in Requests, Quiet(r)
  PROVE  /\ Frame /\ unavailable' = unavailable /\ TypeInv' /\ TaskInv'
         /\ Quietly(r)
         /\ receiver' = receiver
         /\ task[r] \in Unanswered \ {"none"}
         /\ request[r].kind # "start" \/ scenario.start # Rescue \/ task[r] = "awaiting"
<1> DEFINE Done == /\ Frame /\ unavailable' = unavailable /\ TypeInv' /\ TaskInv'
                   /\ Quietly(r)
                   /\ receiver' = receiver
                   /\ task[r] \in Unanswered \ {"none"}
                   /\ request[r].kind # "start" \/ scenario.start # Rescue \/ task[r] = "awaiting"
<1>1. ASSUME NEW answer \in Reply, (answer.policy) = FALSE,
             reply' = [reply EXCEPT ![r] = answer], task' = [task EXCEPT ![r] = "firing"],
             Frame, unavailable' = unavailable, selected' \in BOOLEAN,
             UNCHANGED <<closed, signals, rescueVars>>,
             task[r] \in Unanswered \ {"none"},
             request[r].kind # "start" \/ scenario.start # Rescue \/ task[r] = "awaiting"
      PROVE  Done
  <2>1. Answers(r, answer)
    BY <1>1, AnswerStep
  <2>2. task[r] # "none"
    BY <1>1
  <2>3. /\ DOMAIN unavailable' \subseteq Handles
        /\ \A s \in DOMAIN unavailable' : unavailable'[s] \in Known
    BY <1>1 DEF TypeInv
  <2>4. TypeInv' /\ TaskInv'
    BY <1>1, <2>1, <2>2, <2>3, AnswerTyped
  <2>5. receiver' = receiver
    BY <1>1 DEF rescueVars
  <2> QED BY <1>1, <2>1, <2>4, <2>5 DEF Quietly
<1>2. scenario.start \in Result \cup {Rescue}
  BY MockAssumption DEF TypeInv, Scenario
<1>3. CASE CreateTask(r)
  <2> DEFINE answer == [code |-> 0, failure |-> FALSE, policy |-> FALSE]
  <2>1. reply' = [reply EXCEPT ![r] = answer] /\ task' = [task EXCEPT ![r] = "firing"]
    BY <1>3 DEF CreateTask, WillFire
  <2>2. answer \in Reply /\ (answer.policy) = FALSE
    BY DEF Reply
  <2>3. Frame /\ unavailable' = unavailable
    BY <1>3 DEF CreateTask, Frame, scenarioVars
  <2>4. selected' \in BOOLEAN /\ UNCHANGED <<closed, signals, rescueVars>>
    BY <1>3 DEF CreateTask, scenarioVars, TypeInv
  <2>5. task[r] \in Unanswered \ {"none"} /\ request[r].kind # "start"
    BY <1>3 DEF CreateTask, Spawned, Unanswered
  <2> HIDE DEF answer
  <2> QED BY <1>1, <2>1, <2>2, <2>3, <2>4, <2>5
<1>4. CASE SelectSucceeds(r)
  <2> DEFINE answer == [code |-> 0, failure |-> FALSE, policy |-> FALSE]
  <2>1. reply' = [reply EXCEPT ![r] = answer] /\ task' = [task EXCEPT ![r] = "firing"]
    BY <1>4 DEF SelectSucceeds, WillFire
  <2>2. answer \in Reply /\ (answer.policy) = FALSE
    BY DEF Reply
  <2>3. Frame /\ unavailable' = unavailable
    BY <1>4 DEF SelectSucceeds, Selects, Frame
  <2>4. selected' \in BOOLEAN /\ UNCHANGED <<closed, signals, rescueVars>>
    BY <1>4 DEF SelectSucceeds, Selects
  <2>5. task[r] \in Unanswered \ {"none"} /\ request[r].kind # "start"
    BY <1>4 DEF SelectSucceeds, Selects, Spawned, Unanswered
  <2> HIDE DEF answer
  <2> QED BY <1>1, <2>1, <2>2, <2>3, <2>4, <2>5
<1>5. CASE ScenarioStarts(r)
  <2> DEFINE answer == [code |-> scenario.start.code, failure |-> scenario.start.failure,
                        policy |-> FALSE]
  <2>1. reply' = [reply EXCEPT ![r] = answer] /\ task' = [task EXCEPT ![r] = "firing"]
    BY <1>5 DEF ScenarioStarts, WillFire
  <2>2. scenario.start \in Result /\ scenario.start # Rescue
    BY <1>2, <1>5 DEF ScenarioStarts
  <2>3. answer \in Reply /\ (answer.policy) = FALSE
    BY <2>2 DEF Reply, Result
  <2>4. Frame /\ unavailable' = unavailable
    BY <1>5 DEF ScenarioStarts, Frame, scenarioVars
  <2>5. selected' \in BOOLEAN /\ UNCHANGED <<closed, signals, rescueVars>>
    BY <1>5 DEF ScenarioStarts, scenarioVars, TypeInv
  <2>6. task[r] \in Unanswered \ {"none"}
    BY <1>5 DEF ScenarioStarts, Unanswered
  <2> HIDE DEF answer
  <2> QED BY <1>1, <2>1, <2>2, <2>3, <2>4, <2>5, <2>6
<1>6. CASE Rescued(r)
  <2> DEFINE answer == [code |-> trigger.code, failure |-> trigger.failure, policy |-> FALSE]
  <2>1. reply' = [reply EXCEPT ![r] = answer] /\ task' = [task EXCEPT ![r] = "firing"]
    BY <1>6 DEF Rescued, WillFire
  <2>2. trigger \in Result
    <3>1. Cancelled \in Result
      BY DEF Cancelled, Result
    <3> QED BY <1>6, <3>1, MockAssumption DEF Rescued, TypeInv
  <2>3. answer \in Reply /\ (answer.policy) = FALSE
    BY <2>2 DEF Reply, Result
  <2>4. Frame /\ unavailable' = unavailable
    BY <1>6 DEF Rescued, Frame, scenarioVars
  <2>5. selected' \in BOOLEAN /\ UNCHANGED <<closed, signals, rescueVars>>
    BY <1>6 DEF Rescued, scenarioVars, TypeInv
  <2>6. task[r] \in Unanswered \ {"none"} /\ task[r] = "awaiting"
    BY <1>6 DEF Rescued, Unanswered
  <2> HIDE DEF answer
  <2> QED BY <1>1, <2>1, <2>3, <2>4, <2>5, <2>6
<1> QED BY <1>3, <1>4, <1>5, <1>6 DEF Quiet

LEMMA SelectUnavailableStep ==
  ASSUME TypeInv, TaskInv, NEW r \in Requests, SelectUnavailable(r)
  PROVE  /\ Frame /\ TypeInv' /\ TaskInv' /\ receiver' = receiver
         /\ Quietly(r)
         /\ task[r] = "spawned" /\ request[r].kind = "select" /\ request[r] \in Selection
         /\ scenario.select # "ok" /\ scenario.reason = "source_unavailable"
         /\ HadRestoreToken(r) =>
              unavailable' = Put(unavailable, request[r].session, ActionOf(r, "source_unavailable"))
         /\ ~ HadRestoreToken(r) => unavailable' = unavailable
<1> DEFINE answer == [code |-> 0, failure |-> FALSE, policy |-> FALSE]
<1>1. /\ Frame /\ receiver' = receiver /\ selected' \in BOOLEAN
      /\ UNCHANGED <<closed, signals, rescueVars>>
      /\ task[r] = "spawned" /\ request[r].kind = "select"
      /\ reply' = [reply EXCEPT ![r] = answer] /\ task' = [task EXCEPT ![r] = "firing"]
  BY DEF SelectUnavailable, Selects, Spawned, Frame, rescueVars, WillFire
<1>2. answer \in Reply /\ (answer.policy) = FALSE
  BY DEF Reply
<1> HIDE DEF answer
<1>3. Answers(r, answer)
  BY <1>1, <1>2, AnswerStep
<1>4. request[r] \in Selection /\ request[r].session \in Handles /\ task[r] # "none"
  BY <1>1, RequestTyped
<1>5. /\ HadRestoreToken(r) =>
           unavailable' = Put(unavailable, request[r].session, ActionOf(r, "source_unavailable"))
      /\ ~ HadRestoreToken(r) => unavailable' = unavailable
  BY DEF SelectUnavailable
<1>6. ActionOf(r, "source_unavailable") \in Known
  BY <1>4, ActionTyped DEF Reasons
<1>7. /\ DOMAIN unavailable' \subseteq Handles
      /\ \A s \in DOMAIN unavailable' : unavailable'[s] \in Known
  BY <1>4, <1>5, <1>6 DEF TypeInv, Put
<1>8. TypeInv' /\ TaskInv'
  BY <1>1, <1>2, <1>3, <1>4, <1>7, AnswerTyped
<1>9. scenario.select # "ok" /\ scenario.reason = "source_unavailable"
  BY DEF SelectUnavailable, OnSelectSources
<1> QED BY <1>1, <1>2, <1>3, <1>4, <1>5, <1>8, <1>9 DEF Quietly

LEMMA SelectFailsStep ==
  ASSUME TypeInv, TaskInv, NEW r \in Requests, SelectFails(r)
  PROVE  /\ Frame /\ TypeInv' /\ TaskInv' /\ receiver' = receiver /\ unavailable' = unavailable
         /\ task[r] = "spawned" /\ request[r].kind = "select"
         /\ Quietly(r) \/ ByPolicy(r)
         /\ (reply'[r]).policy =>
              reply'[r].code # Prompt /\ AsksFor(request[r].session, reply'[r].code)
<1> DEFINE action == ActionOf(r, OnSelectSources)
           quiet  == [code |-> 0, failure |-> FALSE, policy |-> FALSE]
           failed == [code |-> action, failure |-> TRUE, policy |-> TRUE]
<1>1. /\ Frame /\ receiver' = receiver /\ selected' \in BOOLEAN
      /\ UNCHANGED <<closed, signals, rescueVars>> /\ unavailable' = unavailable
      /\ task[r] = "spawned" /\ request[r].kind = "select"
      /\ task' = [task EXCEPT ![r] = "firing"]
      /\ \/ reply' = [reply EXCEPT ![r] = quiet]
         \/ action # Prompt /\ reply' = [reply EXCEPT ![r] = failed]
  BY DEF SelectFails, Selects, Spawned, Frame, rescueVars, WillFire
<1>2. /\ OnSelectSources \in Reasons
      /\ scenario.select # "ok" /\ OnSelectSources = scenario.reason
  BY MockAssumption DEF SelectFails, OnSelectSources, TypeInv, Scenario
<1>3. request[r] \in Selection /\ task[r] # "none"
  BY <1>1, RequestTyped
<1>4. action \in 0..2
  BY <1>2, <1>3, ActionTyped DEF Known, Prompt, Skip, Error
<1>5. action # Prompt => AsksFor(request[r].session, action)
  BY <1>2, <1>3, ActionTyped
<1>6. /\ DOMAIN unavailable' \subseteq Handles
      /\ \A s \in DOMAIN unavailable' : unavailable'[s] \in Known
  BY <1>1 DEF TypeInv
<1> HIDE DEF action
<1>7. /\ quiet \in Reply /\ (quiet.policy) = FALSE
      /\ failed \in Reply /\ (failed.policy) = TRUE /\ failed.code = action
  BY <1>4 DEF Reply
<1> HIDE DEF quiet, failed
<1>8. CASE reply' = [reply EXCEPT ![r] = quiet]
  <2>1. Answers(r, quiet)
    BY <1>1, <1>7, <1>8, AnswerStep
  <2>2. TypeInv' /\ TaskInv'
    BY <1>1, <1>3, <1>6, <1>7, <2>1, AnswerTyped
  <2>3. reply'[r] = quiet
    BY <2>1 DEF Answers
  <2> QED BY <1>1, <1>7, <2>1, <2>2, <2>3 DEF Quietly
<1>9. CASE action # Prompt /\ reply' = [reply EXCEPT ![r] = failed]
  <2>1. Answers(r, failed)
    BY <1>1, <1>7, <1>9, AnswerStep
  <2>2. TypeInv' /\ TaskInv'
    BY <1>1, <1>3, <1>6, <1>7, <2>1, AnswerTyped
  <2>3. reply'[r] = failed
    BY <2>1 DEF Answers
  <2> QED BY <1>1, <1>5, <1>7, <1>9, <2>1, <2>2, <2>3 DEF ByPolicy
<1> QED BY <1>1, <1>8, <1>9


\* A Start takes the action left for its session: the picker, or a failure by policy.
LEMMA StartTaskStep ==
  ASSUME TypeInv, TaskInv, NEW r \in Requests, StartTask(r)
  PROVE  /\ Frame /\ TypeInv' /\ TaskInv' /\ receiver' = receiver
         /\ task[r] = "spawned" /\ request[r].kind = "start"
         /\ unavailable' = TakeAction(request[r].session)
         /\ \/ Moves(r, "starting") /\ reply' = reply
            \/ /\ ByPolicy(r) /\ request[r].session \in DOMAIN unavailable
               /\ reply'[r].code = unavailable[request[r].session] /\ reply'[r].code # Prompt
<1> DEFINE s == request[r].session
           skipped == [code |-> 1, failure |-> FALSE, policy |-> TRUE]
           failed  == [code |-> 2, failure |-> TRUE, policy |-> TRUE]
           Done == \/ Moves(r, "starting") /\ reply' = reply
                   \/ /\ ByPolicy(r) /\ s \in DOMAIN unavailable
                      /\ reply'[r].code = unavailable[s] /\ reply'[r].code # Prompt
<1>1. /\ Frame /\ receiver' = receiver /\ selected' \in BOOLEAN
      /\ UNCHANGED <<closed, signals, rescueVars>>
      /\ task[r] = "spawned" /\ request[r].kind = "start"
      /\ unavailable' = TakeAction(s)
  BY DEF StartTask, Spawned, Frame, scenarioVars, rescueVars, TypeInv
<1>2. \/ task' = [task EXCEPT ![r] = "starting"] /\ reply' = reply
      \/ /\ s \in DOMAIN unavailable /\ unavailable[s] = 1
         /\ task' = [task EXCEPT ![r] = "firing"] /\ reply' = [reply EXCEPT ![r] = skipped]
      \/ /\ s \in DOMAIN unavailable /\ unavailable[s] = 2
         /\ task' = [task EXCEPT ![r] = "firing"] /\ reply' = [reply EXCEPT ![r] = failed]
  BY DEF StartTask, WillFire, Prompt, Skip, Error
<1>3. task[r] # "none"
  BY <1>1
<1>4. /\ DOMAIN unavailable' \subseteq Handles
      /\ \A h \in DOMAIN unavailable' : unavailable'[h] \in Known
  BY <1>1 DEF TypeInv, TakeAction
<1>5. /\ skipped \in Reply /\ (skipped.policy) = TRUE /\ skipped.code = 1
      /\ failed \in Reply /\ (failed.policy) = TRUE /\ failed.code = 2
  BY DEF Reply
<1> HIDE DEF skipped, failed
<1>6. ASSUME NEW answer \in Reply, (answer.policy) = TRUE, answer.code \in {1, 2},
             task' = [task EXCEPT ![r] = "firing"], reply' = [reply EXCEPT ![r] = answer],
             s \in DOMAIN unavailable, unavailable[s] = answer.code
      PROVE  TypeInv' /\ TaskInv' /\ Done
  <2>1. Answers(r, answer)
    BY <1>6, AnswerStep
  <2>2. TypeInv' /\ TaskInv'
    BY <1>1, <1>3, <1>4, <1>6, <2>1, AnswerTyped
  <2>3. reply'[r] = answer
    BY <2>1 DEF Answers
  <2> QED BY <1>6, <2>1, <2>2, <2>3 DEF ByPolicy, Prompt
<1>7. ASSUME task' = [task EXCEPT ![r] = "starting"], reply' = reply
      PROVE  TypeInv' /\ TaskInv' /\ Done
  <2>1. Moves(r, "starting")
    BY <1>7, MoveStep DEF Stages
  <2>2. TypeInv'
    BY <1>1, <1>4, <1>7, <2>1 DEF TypeInv, Frame, Moves, rescueVars
  <2>3. ~ reply'[r].policy
    BY <1>1, <1>7 DEF TaskInv, Unanswered
  <2>4. TaskInv'
    BY <1>1, <1>3, <1>7, <2>1, <2>3, TaskKept DEF Stages
  <2> QED BY <1>7, <2>1, <2>2, <2>4
<1>8. TypeInv' /\ TaskInv' /\ Done
  <2> HIDE DEF Done, s
  <2>1. CASE task' = [task EXCEPT ![r] = "starting"] /\ reply' = reply
    BY <1>7, <2>1
  <2>2. CASE /\ s \in DOMAIN unavailable /\ unavailable[s] = 1
             /\ task' = [task EXCEPT ![r] = "firing"] /\ reply' = [reply EXCEPT ![r] = skipped]
    BY <1>5, <1>6, <2>2
  <2>3. CASE /\ s \in DOMAIN unavailable /\ unavailable[s] = 2
             /\ task' = [task EXCEPT ![r] = "firing"] /\ reply' = [reply EXCEPT ![r] = failed]
    BY <1>5, <1>6, <2>3
  <2> QED BY <1>2, <2>1, <2>2, <2>3
<1> QED BY <1>1, <1>8

LEMMA TakeReceiverStep ==
  ASSUME TypeInv, TaskInv, NEW r \in Requests, TakeReceiver(r)
  PROVE  /\ Frame /\ TypeInv' /\ TaskInv' /\ reply' = reply /\ unavailable' = unavailable
         /\ task[r] = "starting" /\ scenario.start = Rescue /\ ~ receiver'
         /\ receiver => Moves(r, "awaiting")
         /\ ~ receiver => Moves(r, "panicked")
<1>1. /\ Frame /\ reply' = reply /\ unavailable' = unavailable
      /\ task[r] = "starting" /\ scenario.start = Rescue /\ receiver' = FALSE
      /\ UNCHANGED <<closed, signals, selected, trigger>>
  BY DEF TakeReceiver, TakenReceiver, Frame
<1>2. /\ receiver => Moves(r, "awaiting")
      /\ ~ receiver => Moves(r, "panicked")
  BY MoveStep DEF TakeReceiver, Stages
<1>3. task' \in [Requests -> Stages]
  BY <1>2 DEF Moves
<1>4. TypeInv'
  BY <1>1, <1>3 DEF TypeInv, Frame
<1>5. request[r].kind = "start" /\ ~ reply'[r].policy
  BY <1>1 DEF TaskInv, Unanswered
<1>6. task[r] # "none"
  BY <1>1
<1>7. TaskInv'
  <2>1. CASE receiver
    BY <1>1, <1>2, <1>5, <1>6, <2>1, TaskKept DEF Stages
  <2>2. CASE ~ receiver
    BY <1>1, <1>2, <1>5, <1>6, <2>2, TaskKept DEF Stages
  <2> QED BY <2>1, <2>2
<1> QED BY <1>1, <1>2, <1>4, <1>7

\* The three steps that follow: the response, the mark, the signal.
Fires(r) == FireResponse(r) \/ MarkSessionClosed(r) \/ FireSessionClosed(r)

LEMMA FireStep ==
  ASSUME TypeInv, TaskInv, NEW r \in Requests, Fires(r)
  PROVE  /\ Frame /\ TypeInv' /\ TaskInv' /\ reply' = reply /\ unavailable' = unavailable
         /\ receiver' = receiver
         /\ task[r] \in {"firing", "closing", "signalling"}
         /\ task[r] # "firing" => reply[r].policy
         /\ \E stage \in {"closing", "signalling", "ended"} :
              /\ Moves(r, stage)
              /\ ~ reply[r].policy => stage = "ended"
<1>1. /\ Frame /\ reply' = reply /\ unavailable' = unavailable /\ receiver' = receiver
      /\ UNCHANGED <<selected, trigger>>
      /\ task[r] \in {"firing", "closing", "signalling"}
  BY DEF Fires, FireResponse, MarkSessionClosed, FireSessionClosed, MayFire, Frame,
         scenarioVars, rescueVars
<1>2. task[r] # "firing" => reply[r].policy
  BY <1>1 DEF TaskInv
<1>3. task[r] # "none"
  BY <1>1
<1>4. request[r].session \in Handles
  BY <1>3, RequestTyped
<1>5. closed' \subseteq Handles /\ signals' \subseteq Handles
  BY <1>4 DEF Fires, FireResponse, MarkSessionClosed, FireSessionClosed, TypeInv
<1>6. PICK stage \in {"closing", "signalling", "ended"} :
        /\ task' = [task EXCEPT ![r] = stage]
        /\ ~ reply[r].policy => stage = "ended"
        /\ stage \in {"closing", "signalling"} => reply[r].policy
  BY <1>2 DEF Fires, FireResponse, MarkSessionClosed, FireSessionClosed, AfterResponse
<1>7. Moves(r, stage)
  BY <1>6, MoveStep DEF Stages
<1>8. TypeInv'
  BY <1>1, <1>5, <1>7 DEF TypeInv, Frame, Moves
<1>9. reply'[r].policy => request[r].kind \in {"select", "start"}
  BY <1>1 DEF TaskInv
<1>10. TaskInv'
  BY <1>1, <1>3, <1>6, <1>7, <1>9, TaskKept DEF Stages, Unanswered
<1> QED BY <1>1, <1>2, <1>6, <1>7, <1>8, <1>10

\* The steps of no task: a refused call uses an id up, and the test uses its controller.
Aside == UseController \/ \E s \in registered \cup {Stray} : RejectSelectSources(s)

LEMMA AsideStep ==
  ASSUME TypeInv, TaskInv, Aside
  PROVE  /\ TypeInv' /\ TaskInv'
         /\ UNCHANGED <<request, task, reply, unavailable, scenario, receiver>>
<1>1. UNCHANGED <<request, task, reply, unavailable, scenario, receiver>>
  BY DEF Aside, UseController, RejectSelectSources, scenarioVars, rescueVars
<1>2. counter' \in counter..MaxRequests
  BY MockAssumption DEF Aside, UseController, RejectSelectSources, TypeInv
<1>3. trigger' \in Triggers \cup {Cancelled, Held}
  BY DEF Aside, UseController, RejectSelectSources, scenarioVars, rescueVars, TypeInv
<1>4. UNCHANGED <<registered, closed, calls, signals, selected>>
  BY DEF Aside, UseController, RejectSelectSources, scenarioVars
<1>5. TypeInv'
  BY <1>1, <1>2, <1>3, <1>4, MockAssumption DEF TypeInv
<1>6. TaskInv'
  BY <1>1, <1>2, MockAssumption DEF TypeInv, TaskInv, Requests
<1> QED BY <1>1, <1>5, <1>6

\* The steps of Next, by what they have in common.
LEMMA Steps ==
  ASSUME TypeInv, TaskInv, [Next]_vars
  PROVE  \/ Method \/ Aside \/ UNCHANGED vars
         \/ \E r \in Requests : \/ Quiet(r) \/ SelectUnavailable(r) \/ SelectFails(r)
                                \/ StartTask(r) \/ TakeReceiver(r) \/ Fires(r)
<1>1. ASSUME NEW s \in registered \cup {Stray},
             (\E call \in SelectCalls : SelectSources(s, call)) \/ Start(s)
      PROVE  Method
  BY <1>1, MethodStep
<1>2. CASE CreateSession
  BY <1>2, MethodStep
<1> QED BY <1>1, <1>2 DEF Next, Aside, Quiet, Fires


\* What the invariants are about keeps its meaning while requests keep their arguments, and the
\* portal its scenario.
Remembers ==
  /\ \A r \in Requests : request[r] # NoRequest => request'[r] = request[r]
  /\ scenario' = scenario

LEMMA StepRemembers ==
  ASSUME TypeInv, TaskInv, [Next]_vars
  PROVE  TypeInv' /\ TaskInv' /\ Remembers
<1>1. CASE Method
  <2>1. PICK fields \in Plain \cup Selection : Accept(fields)
    BY <1>1 DEF Method
  <2>2. Accepts(fields)
    BY <2>1, AcceptStep
  <2>3. Remembers
    BY <1>1, <2>2 DEF Method, scenarioVars, Accepts, Remembers
  <2> QED BY <1>1, <2>3, MethodTyped
<1>2. CASE Aside
  BY <1>2, AsideStep DEF Remembers
<1>3. CASE UNCHANGED vars
  BY <1>3 DEF vars, scenarioVars, rescueVars, TypeInv, TaskInv, Remembers
<1>4. ASSUME NEW r \in Requests,
             \/ Quiet(r) \/ SelectUnavailable(r) \/ SelectFails(r)
             \/ StartTask(r) \/ TakeReceiver(r) \/ Fires(r)
      PROVE  TypeInv' /\ TaskInv' /\ Remembers
  <2>1. Frame /\ TypeInv' /\ TaskInv'
    BY <1>4, QuietStep, SelectUnavailableStep, SelectFailsStep, StartTaskStep, TakeReceiverStep,
       FireStep
  <2> QED BY <2>1 DEF Frame, Remembers
<1> QED BY <1>1, <1>2, <1>3, <1>4, Steps

(***************************************************************************)
(* Policies fail only what a call with a token asked to fail.              *)
(***************************************************************************)
\* AsksFor, with the requests and the scenario it is about as arguments.
Asks(accepted, given, s, action) ==
  /\ given.select # "ok"
  /\ \E q \in Requests :
       /\ accepted[q] # NoRequest /\ accepted[q].session = s
       /\ accepted[q].kind = "select" /\ accepted[q].call.token # Absent
       /\ MockAction(IF accepted[q].call.policy = Absent THEN DefaultPolicy
                                                         ELSE accepted[q].call.policy,
                     given.reason) = action

LEMMA AsksIsAsksFor == \A s, action : AsksFor(s, action) <=> Asks(request, scenario, s, action)
BY DEF AsksFor, Asks, Tokened, AcceptedIn, HadRestoreToken, PolicyOf

LEMMA PolicyInvRead ==
  PolicyInv <=> /\ \A r \in Requests :
                     reply[r].policy =>
                       /\ reply[r].code # Prompt
                       /\ Asks(request, scenario, request[r].session, reply[r].code)
                /\ \A s \in DOMAIN unavailable : Asks(request, scenario, s, unavailable[s])
BY AsksIsAsksFor DEF PolicyInv

LEMMA AsksKept ==
  ASSUME Remembers, NEW s, NEW action, Asks(request, scenario, s, action)
  PROVE  Asks(request', scenario', s, action)
BY DEF Remembers, Asks

LEMMA PolicyStep ==
  ASSUME TypeInv, TaskInv, PolicyInv, [Next]_vars
  PROVE  PolicyInv'
<1> DEFINE Failed(r) == reply'[r].policy =>
                          /\ reply'[r].code # Prompt
                          /\ Asks(request', scenario', request'[r].session, reply'[r].code)
           Leaves(s) == Asks(request', scenario', s, unavailable'[s])
<1>2. TypeInv' /\ TaskInv' /\ Remembers
  BY StepRemembers
<1>3. /\ \A r \in Requests :
           reply[r].policy => /\ reply[r].code # Prompt
                              /\ Asks(request, scenario, request[r].session, reply[r].code)
      /\ \A s \in DOMAIN unavailable : Asks(request, scenario, s, unavailable[s])
  BY PolicyInvRead
<1>4. ASSUME NEW r \in Requests, reply'[r] = reply[r] PROVE Failed(r)
  <2>1. reply[r].policy => request[r].kind \in {"select", "start"} /\ task[r] \notin Unanswered
    BY DEF TaskInv
  <2>2. reply[r].policy => request[r] # NoRequest
    BY <2>1 DEF TaskInv, Unanswered
  <2>3. reply[r].policy => request'[r] = request[r]
    BY <1>2, <2>2 DEF Remembers
  <2> QED BY <1>2, <1>3, <1>4, <2>3, AsksKept
<1>5. ASSUME NEW s \in DOMAIN unavailable, unavailable'[s] = unavailable[s] PROVE Leaves(s)
  BY <1>2, <1>3, <1>5, AsksKept
<1>6. ASSUME UNCHANGED <<reply, unavailable>>
      PROVE  (\A r \in Requests : Failed(r)) /\ \A s \in DOMAIN unavailable' : Leaves(s)
  <2> HIDE DEF Failed, Leaves
  <2> QED BY <1>4, <1>5, <1>6
<1>7. ASSUME NEW r \in Requests, Quietly(r), unavailable' = unavailable
      PROVE  (\A q \in Requests : Failed(q)) /\ \A s \in DOMAIN unavailable' : Leaves(s)
  <2>1. ~ reply'[r].policy /\ \A q \in Requests : q # r => reply'[q] = reply[q]
    BY <1>7 DEF Quietly, Answers
  <2>2. Failed(r)
    BY <2>1
  <2> HIDE DEF Failed, Leaves
  <2> QED BY <1>4, <1>5, <1>7, <2>1, <2>2
<1>8. ASSUME NEW r \in Requests, SelectUnavailable(r)
      PROVE  (\A q \in Requests : Failed(q)) /\ \A s \in DOMAIN unavailable' : Leaves(s)
  <2>1. ~ reply'[r].policy /\ \A q \in Requests : q # r => reply'[q] = reply[q]
    BY <1>8, SelectUnavailableStep DEF Quietly, Answers
  <2>2. Failed(r)
    BY <2>1
  <2>3. CASE ~ HadRestoreToken(r)
    <3>1. unavailable' = unavailable
      BY <1>8, <2>3, SelectUnavailableStep
    <3> HIDE DEF Failed, Leaves
    <3> QED BY <1>4, <1>5, <2>1, <2>2, <3>1
  <2>4. CASE HadRestoreToken(r)
    <3> DEFINE s0 == request[r].session
               action == ActionOf(r, "source_unavailable")
    <3>1. unavailable' = Put(unavailable, s0, action)
      BY <1>8, <2>4, SelectUnavailableStep
    <3>2. Asks(request, scenario, s0, action)
      <4>1. /\ request[r] \in Selection
            /\ scenario.select # "ok" /\ scenario.reason = "source_unavailable"
        BY <1>8, SelectUnavailableStep
      <4>2. AsksFor(s0, action)
        BY <2>4, <4>1, ActionTyped DEF Reasons
      <4> QED BY <4>2, AsksIsAsksFor
    <3> HIDE DEF s0, action
    <3>3. unavailable'[s0] = action
      BY <3>1 DEF Put
    <3>4. Leaves(s0)
      BY <1>2, <3>2, <3>3, AsksKept
    <3>5. \A s \in DOMAIN unavailable' : s # s0 => s \in DOMAIN unavailable
                                                   /\ unavailable'[s] = unavailable[s]
      BY <3>1 DEF Put
    <3> HIDE DEF Failed, Leaves
    <3> QED BY <1>4, <1>5, <2>1, <2>2, <3>4, <3>5
  <2> QED BY <2>3, <2>4
<1>9. ASSUME NEW r \in Requests, SelectFails(r)
      PROVE  (\A q \in Requests : Failed(q)) /\ \A s \in DOMAIN unavailable' : Leaves(s)
  <2>1. \A q \in Requests : q # r => reply'[q] = reply[q]
    BY <1>9, SelectFailsStep DEF Quietly, ByPolicy, Answers
  <2>2. Failed(r)
    <3>1. (reply'[r]).policy => reply'[r].code # Prompt /\ AsksFor(request[r].session, reply'[r].code)
      BY <1>9, SelectFailsStep
    <3>2. (reply'[r]).policy =>
            /\ reply'[r].code # Prompt
            /\ Asks(request, scenario, request[r].session, reply'[r].code)
      BY <3>1, AsksIsAsksFor
    <3>3. request' = request /\ scenario' = scenario
      BY <1>9, SelectFailsStep DEF Frame
    <3> QED BY <3>2, <3>3
  <2>3. unavailable' = unavailable
    BY <1>9, SelectFailsStep
  <2> HIDE DEF Failed, Leaves
  <2> QED BY <1>4, <1>5, <2>1, <2>2, <2>3
<1>10. ASSUME NEW r \in Requests, StartTask(r)
       PROVE  (\A q \in Requests : Failed(q)) /\ \A s \in DOMAIN unavailable' : Leaves(s)
  <2>1. \A q \in Requests : q # r => reply'[q] = reply[q]
    BY <1>10, StartTaskStep DEF ByPolicy, Answers
  <2>2. request' = request /\ scenario' = scenario
    BY <1>10, StartTaskStep DEF Frame
  <2>3. Failed(r)
    <3>1. CASE reply' = reply
      <4> HIDE DEF Failed
      <4> QED BY <1>4, <3>1
    <3>2. CASE request[r].session \in DOMAIN unavailable
               /\ reply'[r].code = unavailable[request[r].session] /\ reply'[r].code # Prompt
      BY <1>3, <2>2, <3>2
    <3> QED BY <1>10, <3>1, <3>2, StartTaskStep
  <2>4. \A s \in DOMAIN unavailable' : s \in DOMAIN unavailable /\ unavailable'[s] = unavailable[s]
    BY <1>10, StartTaskStep DEF TakeAction
  <2> HIDE DEF Failed, Leaves
  <2> QED BY <1>4, <1>5, <2>1, <2>3, <2>4
<1>11. (\A r \in Requests : Failed(r)) /\ \A s \in DOMAIN unavailable' : Leaves(s)
  <2> HIDE DEF Failed, Leaves
  <2>1. CASE Method
    BY <1>6, <2>1 DEF Method
  <2>2. CASE Aside
    BY <1>6, <2>2, AsideStep
  <2>3. CASE UNCHANGED vars
    BY <1>6, <2>3 DEF vars
  <2>4. ASSUME NEW r \in Requests, Quiet(r)
        PROVE  (\A q \in Requests : Failed(q)) /\ \A s \in DOMAIN unavailable' : Leaves(s)
    BY <1>7, <2>4, QuietStep
  <2>5. ASSUME NEW r \in Requests, TakeReceiver(r) \/ Fires(r)
        PROVE  (\A q \in Requests : Failed(q)) /\ \A s \in DOMAIN unavailable' : Leaves(s)
    BY <1>6, <2>5, TakeReceiverStep, FireStep
  <2> QED BY <1>8, <1>9, <1>10, <2>1, <2>2, <2>3, <2>4, <2>5, Steps
<1>12. /\ \A r \in Requests :
            reply'[r].policy => /\ reply'[r].code # Prompt
                                /\ Asks(request', scenario', request'[r].session, reply'[r].code)
       /\ \A s \in DOMAIN unavailable' : Asks(request', scenario', s, unavailable'[s])
  BY <1>11
<1>13. (PolicyInv <=> /\ \A r \in Requests :
                           reply[r].policy =>
                             /\ reply[r].code # Prompt
                             /\ Asks(request, scenario, request[r].session, reply[r].code)
                      /\ \A s \in DOMAIN unavailable : Asks(request, scenario, s, unavailable[s]))'
  BY PolicyInvRead, PTL
<1> QED BY <1>12, <1>13


(***************************************************************************)
(* An action is used once.                                                 *)
(***************************************************************************)
LEMMA SubsetsFinite ==
  ASSUME NEW S, S \subseteq Requests
  PROVE  IsFiniteSet(S) /\ Cardinality(S) \in Nat
<1>1. IsFiniteSet(Requests)
  BY MockAssumption, FS_Interval DEF Requests
<1>2. IsFiniteSet(S)
  BY <1>1, FS_Subset
<1> QED BY <1>2, FS_CardinalityType

\* The count, over sets: nothing is added to the failures, nothing taken from the calls.
LEMMA CountKept ==
  ASSUME NEW F \in SUBSET Requests, NEW R \in SUBSET Requests,
         NEW F1 \in SUBSET F, NEW R1 \in SUBSET Requests, R \subseteq R1,
         NEW l \in {0, 1}, NEW l1 \in {0, 1}, l1 <= l,
         Cardinality(F) + l <= Cardinality(R)
  PROVE  Cardinality(F1) + l1 <= Cardinality(R1)
<1>1. Cardinality(F1) <= Cardinality(F) /\ Cardinality(R) <= Cardinality(R1)
  BY SubsetsFinite, FS_Subset
<1>2. /\ Cardinality(F) \in Nat /\ Cardinality(R) \in Nat
      /\ Cardinality(F1) \in Nat /\ Cardinality(R1) \in Nat
  BY SubsetsFinite
<1> QED BY <1>1, <1>2

\* One more call has run, and may have left an action.
LEMMA CountCall ==
  ASSUME NEW F \in SUBSET Requests, NEW R \in SUBSET Requests, NEW r \in Requests, r \notin R,
         NEW l \in {0, 1}, NEW l1 \in {0, 1},
         Cardinality(F) + l <= Cardinality(R)
  PROVE  Cardinality(F) + l1 <= Cardinality(R \cup {r})
<1>1. Cardinality(R \cup {r}) = Cardinality(R) + 1
  BY SubsetsFinite, FS_AddElement
<1>2. Cardinality(F) \in Nat /\ Cardinality(R) \in Nat
  BY SubsetsFinite
<1> QED BY <1>1, <1>2

\* The action left is taken, and one more Start has failed.
LEMMA CountStart ==
  ASSUME NEW F \in SUBSET Requests, NEW R \in SUBSET Requests, NEW r \in Requests, r \notin F,
         Cardinality(F) + 1 <= Cardinality(R)
  PROVE  Cardinality(F \cup {r}) + 0 <= Cardinality(R)
<1>1. Cardinality(F \cup {r}) = Cardinality(F) + 1
  BY SubsetsFinite, FS_AddElement
<1>2. Cardinality(F) \in Nat /\ Cardinality(R) \in Nat
  BY SubsetsFinite
<1> QED BY <1>1, <1>2

LEMMA CountStep ==
  ASSUME TypeInv, TaskInv, CountInv, [Next]_vars
  PROVE  CountInv'
<1> SUFFICES ASSUME NEW s \in Handles
             PROVE  Cardinality(FailedStarts(s)') + Left(s)' <= Cardinality(RunCalls(s)')
  BY DEF CountInv
<1> DEFINE Goal == Cardinality(FailedStarts(s)') + Left(s)' <= Cardinality(RunCalls(s)')
<1>1. Cardinality(FailedStarts(s)) + Left(s) <= Cardinality(RunCalls(s))
  BY DEF CountInv
<1>2. /\ FailedStarts(s) \in SUBSET Requests /\ RunCalls(s) \in SUBSET Requests
      /\ FailedStarts(s)' \in SUBSET Requests /\ RunCalls(s)' \in SUBSET Requests
  BY DEF FailedStarts, RunCalls, AcceptedIn
<1>3. Left(s) \in {0, 1} /\ Left(s)' \in {0, 1}
  BY DEF Left
<1>4. ASSUME FailedStarts(s)' \subseteq FailedStarts(s), RunCalls(s) \subseteq RunCalls(s)',
             Left(s)' <= Left(s)
      PROVE  Goal
  BY <1>1, <1>2, <1>3, <1>4, CountKept
<1>5. ASSUME Method PROVE Goal
  <2>1. PICK fields \in Plain \cup Selection : Accept(fields)
    BY <1>5 DEF Method
  <2>2. Accepts(fields)
    BY <2>1, AcceptStep
  <2>3. reply' = reply /\ unavailable' = unavailable
    BY <1>5 DEF Method
  <2>4. FailedStarts(s)' \subseteq FailedStarts(s)
    BY <2>2, <2>3 DEF Accepts, FailedStarts, AcceptedIn
  <2>5. RunCalls(s) \subseteq RunCalls(s)'
    BY <2>2 DEF Accepts, RunCalls, AcceptedIn, HadRestoreToken
  <2>6. Left(s)' <= Left(s)
    BY <2>3 DEF Left
  <2> QED BY <1>4, <2>4, <2>5, <2>6
<1>6. ASSUME NEW r \in Requests, request' = request, task[r] # "none",
             \A q \in Requests : q # r => reply'[q] = reply[q] /\ task'[q] = task[q],
             reply'[r].policy /\ request[r].kind = "start" => reply[r].policy,
             task'[r] # "spawned", Left(s)' <= Left(s)
      PROVE  Goal
  <2>1. FailedStarts(s)' \subseteq FailedStarts(s)
    BY <1>6 DEF FailedStarts, AcceptedIn
  <2>2. RunCalls(s) \subseteq RunCalls(s)'
    BY <1>6 DEF RunCalls, AcceptedIn, HadRestoreToken
  <2> QED BY <1>4, <1>6, <2>1, <2>2
<1>7. ASSUME UNCHANGED <<request, task, reply, unavailable>> PROVE Goal
  <2>1. /\ FailedStarts(s)' = FailedStarts(s) /\ RunCalls(s)' = RunCalls(s)
        /\ Left(s)' = Left(s)
    BY <1>7 DEF FailedStarts, RunCalls, AcceptedIn, HadRestoreToken, Left
  <2> QED BY <1>1, <2>1
<1>8. ASSUME unavailable' = unavailable PROVE Left(s)' <= Left(s)
  BY <1>8 DEF Left
<1>9. ASSUME NEW r \in Requests, Quiet(r) PROVE Goal
  <2>1. /\ request' = request /\ unavailable' = unavailable /\ task[r] # "none"
    BY <1>9, QuietStep DEF Frame
  <2>2. /\ \A q \in Requests : q # r => reply'[q] = reply[q] /\ task'[q] = task[q]
        /\ ~ reply'[r].policy /\ task'[r] # "spawned"
    BY <1>9, QuietStep DEF Quietly, Answers, Moves
  <2> HIDE DEF Goal
  <2> QED BY <1>6, <1>8, <2>1, <2>2
<1>10. ASSUME NEW r \in Requests, SelectFails(r) PROVE Goal
  <2>1. /\ request' = request /\ unavailable' = unavailable
        /\ task[r] # "none" /\ request[r].kind # "start"
    BY <1>10, SelectFailsStep DEF Frame
  <2>2. /\ \A q \in Requests : q # r => reply'[q] = reply[q] /\ task'[q] = task[q]
        /\ task'[r] # "spawned"
    BY <1>10, SelectFailsStep DEF Quietly, ByPolicy, Answers, Moves
  <2> HIDE DEF Goal
  <2> QED BY <1>6, <1>8, <2>1, <2>2
<1>11. ASSUME NEW r \in Requests, TakeReceiver(r) \/ Fires(r) PROVE Goal
  <2>1. /\ request' = request /\ reply' = reply /\ unavailable' = unavailable
        /\ task[r] # "none"
    BY <1>11, TakeReceiverStep, FireStep DEF Frame
  <2>2. /\ \A q \in Requests : q # r => task'[q] = task[q]
        /\ task'[r] # "spawned"
    BY <1>11, TakeReceiverStep, FireStep DEF Moves
  <2> HIDE DEF Goal
  <2> QED BY <1>6, <1>8, <2>1, <2>2
<1>12. ASSUME NEW r \in Requests, SelectUnavailable(r) PROVE Goal
  <2>1. /\ request' = request /\ task[r] = "spawned"
        /\ request[r].kind = "select" /\ request[r] # NoRequest
    BY <1>12, SelectUnavailableStep, RequestTyped DEF Frame
  <2>2. /\ \A q \in Requests : q # r => reply'[q] = reply[q] /\ task'[q] = task[q]
        /\ ~ reply'[r].policy /\ task'[r] # "spawned"
    BY <1>12, SelectUnavailableStep DEF Quietly, Answers, Moves
  <2>3. CASE HadRestoreToken(r) /\ request[r].session = s
    <3>1. FailedStarts(s)' \subseteq FailedStarts(s)
      BY <2>1, <2>2 DEF FailedStarts, AcceptedIn
    <3>2. RunCalls(s) \cup {r} \subseteq RunCalls(s)'
      BY <2>1, <2>2, <2>3 DEF RunCalls, AcceptedIn, HadRestoreToken
    <3>3. r \notin RunCalls(s)
      BY <2>1 DEF RunCalls
    <3> DEFINE R == RunCalls(s) \cup {r}
    <3>4. Cardinality(FailedStarts(s)) + Left(s)' <= Cardinality(R)
      BY <1>1, <1>2, <1>3, <3>3, CountCall
    <3>5. R \in SUBSET Requests
      BY <1>2
    <3>6. Left(s)' <= Left(s)'
      BY <1>3
    <3> HIDE DEF R, Goal
    <3>7. R \subseteq RunCalls(s)'
      BY <3>2 DEF R
    <3> QED BY <1>2, <1>3, <3>1, <3>4, <3>5, <3>6, <3>7, CountKept DEF Goal
  <2>4. CASE ~ (HadRestoreToken(r) /\ request[r].session = s)
    <3>1. s \in DOMAIN unavailable' => s \in DOMAIN unavailable
      BY <1>12, <2>4, SelectUnavailableStep DEF Put
    <3>2. Left(s)' <= Left(s)
      BY <3>1 DEF Left
    <3>3. task[r] # "none"
      BY <2>1
    <3> HIDE DEF Goal
    <3> QED BY <1>6, <2>1, <2>2, <3>2, <3>3
  <2> QED BY <2>3, <2>4
<1>13. ASSUME NEW r \in Requests, StartTask(r) PROVE Goal
  <2>1. /\ request' = request /\ task[r] = "spawned"
        /\ request[r].kind = "start" /\ request[r] # NoRequest
        /\ unavailable' = TakeAction(request[r].session)
    BY <1>13, StartTaskStep, RequestTyped DEF Frame
  <2>2. Left(s)' <= Left(s)
    BY <2>1 DEF Left, TakeAction
  <2>3. CASE Moves(r, "starting") /\ reply' = reply
    <3>1. /\ \A q \in Requests : q # r => reply'[q] = reply[q] /\ task'[q] = task[q]
          /\ task'[r] # "spawned" /\ task[r] # "none"
      BY <2>1, <2>3 DEF Moves
    <3> HIDE DEF Goal
    <3> QED BY <1>6, <2>1, <2>2, <2>3, <3>1
  <2>4. CASE ByPolicy(r) /\ request[r].session \in DOMAIN unavailable
    <3>1. /\ \A q \in Requests : q # r => reply'[q] = reply[q] /\ task'[q] = task[q]
          /\ task'[r] # "spawned" /\ task[r] # "none"
      BY <2>1, <2>4 DEF ByPolicy, Answers, Moves
    <3>2. ~ reply[r].policy
      BY <2>1 DEF TaskInv, Unanswered
    <3>3. CASE request[r].session # s
      <4>1. FailedStarts(s)' \subseteq FailedStarts(s)
        BY <2>1, <3>1, <3>3 DEF FailedStarts, AcceptedIn
      <4>2. RunCalls(s) \subseteq RunCalls(s)'
        BY <2>1, <3>1 DEF RunCalls, AcceptedIn, HadRestoreToken
      <4> QED BY <1>4, <2>2, <4>1, <4>2
    <3>4. CASE request[r].session = s
      <4>1. Left(s) = 1 /\ Left(s)' = 0
        BY <2>1, <2>4, <3>4 DEF Left, TakeAction
      <4> DEFINE F == FailedStarts(s) \cup {r}
      <4>2. FailedStarts(s)' \subseteq F
        BY <2>1, <3>1 DEF FailedStarts, AcceptedIn
      <4>3. r \notin FailedStarts(s)
        BY <3>2 DEF FailedStarts
      <4>4. RunCalls(s) \subseteq RunCalls(s)'
        BY <2>1, <3>1 DEF RunCalls, AcceptedIn, HadRestoreToken
      <4>5. Cardinality(F) + 0 <= Cardinality(RunCalls(s))
        BY <1>1, <1>2, <4>1, <4>3, CountStart
      <4>6. F \in SUBSET Requests
        BY <1>2
      <4> HIDE DEF F, Goal
      <4>7. Cardinality(F) + 0 <= Cardinality(RunCalls(s)) => Goal
        BY <1>2, <4>1, <4>2, <4>4, <4>6, CountKept DEF Goal
      <4> QED BY <4>5, <4>7
    <3> QED BY <3>3, <3>4
  <2> QED BY <1>13, <2>3, <2>4, StartTaskStep
<1> HIDE DEF Goal
<1>14. Goal
  <2>1. CASE Aside
    BY <1>7, <2>1, AsideStep
  <2>2. CASE UNCHANGED vars
    BY <1>7, <2>2 DEF vars
  <2>3. ASSUME NEW r \in Requests,
               \/ Quiet(r) \/ SelectUnavailable(r) \/ SelectFails(r)
               \/ StartTask(r) \/ TakeReceiver(r) \/ Fires(r)
        PROVE  Goal
    BY <1>9, <1>10, <1>11, <1>12, <1>13, <2>3
  <2> QED BY <1>5, <2>1, <2>2, <2>3, Steps
<1> QED BY <1>14 DEF Goal


(***************************************************************************)
(* The rescue.                                                             *)
(***************************************************************************)
\* The rescue keeps its one Start, and nobody else gets the receiver.
LEMMA RescueKept ==
  ASSUME RescueInv, Asked' = Asked, receiver' = receiver,
         \A r \in Requests : task'[r] = "panicked" => task[r] = "panicked"
  PROVE  RescueInv'
BY DEF RescueInv

LEMMA RescueStep ==
  ASSUME TypeInv, TaskInv, RescueInv, [Next]_vars
  PROVE  RescueInv'
<1>1. CASE Method
  <2>1. PICK fields \in Plain \cup Selection : Accept(fields)
    BY <1>1 DEF Method
  <2>2. Accepts(fields)
    BY <2>1, AcceptStep
  <2>3. reply' = reply /\ scenario' = scenario /\ receiver' = receiver
    BY <1>1 DEF Method, scenarioVars, rescueVars
  <2>4. Asked' = Asked
    <3>1. ASSUME NEW r \in Requests PROVE r \in Asked' <=> r \in Asked
      BY <2>2, <2>3 DEF Accepts, Asked
    <3> QED BY <3>1 DEF Asked
  <2>5. \A r \in Requests : task'[r] = "panicked" => task[r] = "panicked"
    BY <2>2 DEF Accepts
  <2> QED BY <2>3, <2>4, <2>5, RescueKept
<1>2. ASSUME UNCHANGED <<request, task, reply, unavailable, scenario, receiver>>
      PROVE  RescueInv'
  BY <1>2 DEF RescueInv, Asked
<1>3. ASSUME NEW r \in Requests, request' = request, scenario' = scenario, receiver' = receiver,
             \A q \in Requests : q # r => reply'[q] = reply[q] /\ task'[q] = task[q],
             task'[r] # "panicked",
             r \in Asked' <=> r \in Asked
      PROVE  RescueInv'
  <2>1. ASSUME NEW q \in Requests PROVE q \in Asked' <=> q \in Asked
    BY <1>3 DEF Asked
  <2>2. Asked' = Asked
    BY <2>1 DEF Asked
  <2>3. \A q \in Requests : task'[q] = "panicked" => task[q] = "panicked"
    BY <1>3
  <2> QED BY <1>3, <2>2, <2>3, RescueKept
<1>4. ASSUME NEW r \in Requests, Quiet(r) PROVE RescueInv'
  <2>1. /\ request' = request /\ scenario' = scenario /\ receiver' = receiver
        /\ request[r].kind # "start" \/ scenario.start # Rescue \/ task[r] = "awaiting"
    BY <1>4, QuietStep DEF Frame
  <2>2. /\ \A q \in Requests : q # r => reply'[q] = reply[q] /\ task'[q] = task[q]
        /\ ~ reply'[r].policy /\ task'[r] = "firing"
    BY <1>4, QuietStep DEF Quietly, Answers, Moves
  <2>3. task[r] \in Unanswered /\ ~ reply[r].policy
    BY <1>4, QuietStep DEF TaskInv
  <2>4. r \in Asked' <=> r \in Asked
    BY <2>1, <2>2, <2>3 DEF Asked
  <2> QED BY <1>3, <2>1, <2>2, <2>4
<1>5. ASSUME NEW r \in Requests, SelectUnavailable(r) \/ SelectFails(r) PROVE RescueInv'
  <2>1. /\ request' = request /\ scenario' = scenario /\ receiver' = receiver
        /\ request[r].kind # "start"
    BY <1>5, SelectUnavailableStep, SelectFailsStep DEF Frame
  <2>2. /\ \A q \in Requests : q # r => reply'[q] = reply[q] /\ task'[q] = task[q]
        /\ task'[r] = "firing"
    BY <1>5, SelectUnavailableStep, SelectFailsStep DEF Quietly, ByPolicy, Answers, Moves
  <2>3. r \in Asked' <=> r \in Asked
    BY <2>1 DEF Asked
  <2> QED BY <1>3, <2>1, <2>2, <2>3
<1>6. ASSUME NEW r \in Requests, StartTask(r) PROVE RescueInv'
  <2>1. /\ request' = request /\ scenario' = scenario /\ receiver' = receiver
        /\ task[r] = "spawned"
    BY <1>6, StartTaskStep DEF Frame
  <2>2. /\ \A q \in Requests : q # r => reply'[q] = reply[q] /\ task'[q] = task[q]
        /\ task'[r] = "starting" \/ (task'[r] = "firing" /\ reply'[r].policy)
    BY <1>6, StartTaskStep DEF ByPolicy, Answers, Moves
  <2>3. r \notin Asked' /\ r \notin Asked
    BY <2>1, <2>2 DEF Asked
  <2> QED BY <1>3, <2>1, <2>2, <2>3
<1>7. ASSUME NEW r \in Requests, Fires(r) PROVE RescueInv'
  <2>1. /\ request' = request /\ scenario' = scenario /\ receiver' = receiver /\ reply' = reply
        /\ task[r] \in {"firing", "closing", "signalling"}
        /\ task[r] # "firing" => reply[r].policy
    BY <1>7, FireStep DEF Frame
  <2>2. /\ \A q \in Requests : q # r => task'[q] = task[q]
        /\ task'[r] \in {"closing", "signalling", "ended"}
        /\ ~ reply[r].policy => task'[r] = "ended"
    BY <1>7, FireStep DEF Moves
  <2>3. r \in Asked' <=> r \in Asked
    BY <2>1, <2>2 DEF Asked
  <2> QED BY <1>3, <2>1, <2>2, <2>3
<1>8. ASSUME NEW r \in Requests, TakeReceiver(r) PROVE RescueInv'
  <2>1. /\ request' = request /\ scenario' = scenario /\ reply' = reply
        /\ task[r] = "starting" /\ scenario.start = Rescue /\ ~ receiver'
    BY <1>8, TakeReceiverStep DEF Frame
  <2>2. request[r] # NoRequest /\ request[r].kind = "start" /\ ~ reply[r].policy
    BY <2>1 DEF TaskInv, Unanswered
  <2>3. CASE receiver
    <3>1. Moves(r, "awaiting")
      BY <1>8, <2>3, TakeReceiverStep
    <3>2. r \in Asked'
      BY <2>1, <2>2, <3>1 DEF Moves, Asked
    <3>3. ASSUME NEW q \in Requests, q # r PROVE q \in Asked' <=> q \in Asked
      BY <2>1, <3>1, <3>3 DEF Moves, Asked
    <3>4. Asked = {}
      BY <2>3 DEF RescueInv
    <3>5. Asked' \subseteq Requests
      BY DEF Asked
    <3>6. Asked' = {r}
      BY <3>2, <3>3, <3>4, <3>5
    <3> QED BY <2>1, <3>6 DEF RescueInv
  <2>4. CASE ~ receiver
    <3>1. Moves(r, "panicked")
      BY <1>8, <2>4, TakeReceiverStep
    <3>2. ASSUME NEW q \in Requests PROVE q \in Asked' <=> q \in Asked
      BY <2>1, <3>1 DEF Moves, Asked
    <3>3. Asked' = Asked
      BY <3>2 DEF Asked
    <3> QED BY <2>1, <2>4, <3>3 DEF RescueInv
  <2> QED BY <2>3, <2>4
<1>9. CASE Aside
  BY <1>2, <1>9, AsideStep
<1>10. CASE UNCHANGED vars
  BY <1>2, <1>10 DEF vars, scenarioVars, rescueVars
<1>11. ASSUME NEW r \in Requests,
              \/ Quiet(r) \/ SelectUnavailable(r) \/ SelectFails(r)
              \/ StartTask(r) \/ TakeReceiver(r) \/ Fires(r)
       PROVE  RescueInv'
  BY <1>4, <1>5, <1>6, <1>7, <1>8, <1>11
<1> QED BY <1>1, <1>9, <1>10, <1>11, Steps

(***************************************************************************)
(* The theorems.                                                           *)
(***************************************************************************)
\* The invariant holds in every reachable state.
THEOREM MockInvariant == Spec => []IInv
<1>1. ASSUME IInv, [Next]_vars PROVE IInv'
  <2>1. TypeInv /\ TaskInv /\ PolicyInv /\ CountInv /\ RescueInv
    BY <1>1 DEF IInv
  <2>2. TypeInv' /\ TaskInv'
    BY <1>1, <2>1, StepRemembers
  <2>3. PolicyInv'
    BY <1>1, <2>1, PolicyStep
  <2>4. CountInv'
    BY <1>1, <2>1, CountStep
  <2>5. RescueInv'
    BY <1>1, <2>1, RescueStep
  <2> QED BY <2>2, <2>3, <2>4, <2>5 DEF IInv
<1> QED BY InitInv, <1>1, PTL DEF Spec

LEMMA TypeFollows == IInv => TypeOK
<1> SUFFICES ASSUME IInv PROVE TypeOK
  OBVIOUS
<1>1. TypeInv
  BY DEF IInv
<1>2. ASSUME NEW r \in Requests
      PROVE  \/ request[r] = NoRequest
             \/ request[r].kind \in {"create", "start"} /\ request[r].session \in Handles
             \/ /\ request[r].kind = "select" /\ request[r].session \in Handles
                /\ request[r].call \in SelectCalls
  <2>1. request[r] \in Plain \cup Selection \cup {NoRequest}
    BY <1>1 DEF TypeInv
  <2> QED BY <2>1 DEF Plain, Selection
<1>3. \A i \in DOMAIN calls : calls[i] \in Requests
  BY <1>1 DEF TypeInv
<1> QED BY <1>1, <1>2, <1>3 DEF TypeInv, TypeOK, Stages

\* Every variable of the portal stays in its type: a recorded call, a closed session and an action
\* left for a Start always belong to a handle and an id the portal has given out.
THEOREM TypeCorrect == Spec => []TypeOK
BY MockInvariant, TypeFollows, PTL

LEMMA UseFollows == IInv => UnavailabilityUsedOnce
<1> SUFFICES ASSUME IInv, NEW s \in Handles
             PROVE  Cardinality({r \in AcceptedIn(s) : request[r].kind = "start" /\ reply[r].policy})
                      + (IF s \in DOMAIN unavailable THEN 1 ELSE 0)
                      <= Cardinality({r \in AcceptedIn(s) :
                                        request[r].kind = "select" /\ HadRestoreToken(r)})
  BY DEF UnavailabilityUsedOnce
<1> DEFINE All == {r \in AcceptedIn(s) : request[r].kind = "select" /\ HadRestoreToken(r)}
<1>1. Cardinality(FailedStarts(s)) + Left(s) <= Cardinality(RunCalls(s))
  BY DEF IInv, CountInv
<1>2. RunCalls(s) \subseteq All /\ All \subseteq Requests
  BY DEF RunCalls, AcceptedIn
<1>3. FailedStarts(s) \subseteq Requests
  BY DEF FailedStarts, AcceptedIn
<1>4. Left(s) \in {0, 1}
  BY DEF Left
<1>5. Cardinality(FailedStarts(s)) + Left(s) <= Cardinality(All)
  <2> HIDE DEF All
  <2>1. Left(s) <= Left(s)
    BY <1>4
  <2>2. RunCalls(s) \in SUBSET Requests /\ All \in SUBSET Requests
    BY <1>2
  <2> QED BY <1>1, <1>2, <1>3, <1>4, <2>1, <2>2, CountKept
<1> QED BY <1>5 DEF FailedStarts, Left

\* A source reported missing fails at most one Start: however SelectSources and Start tasks
\* overlap, the failed Starts of a session, with the action that still waits for one, never
\* outnumber the calls of that session that had a token.
THEOREM UnavailabilityIsUsedOnce == Spec => []UnavailabilityUsedOnce
BY MockInvariant, UseFollows, PTL

LEMMA PolicyFollows == IInv => PolicyNeedsToken
<1> SUFFICES ASSUME IInv, NEW r \in Requests, reply[r].policy
             PROVE  /\ scenario.select # "ok" /\ reply[r].code # Prompt
                    /\ \E q \in AcceptedIn(request[r].session) :
                         /\ request[q].kind = "select" /\ HadRestoreToken(q)
                         /\ MockAction(PolicyOf(q), scenario.reason) = reply[r].code
  BY DEF PolicyNeedsToken
<1>1. reply[r].code # Prompt /\ AsksFor(request[r].session, reply[r].code)
  BY DEF IInv, PolicyInv
<1> QED BY <1>1 DEF AsksFor, Tokened

\* A request fails by policy only under a scenario that fails, and in a session where a call with a
\* token asked for that outcome when the scenario's reason comes up.
THEOREM PolicyHasToken == Spec => []PolicyNeedsToken
BY MockInvariant, PolicyFollows, PTL

LEMMA RescueFollows == IInv => RescueAnswersOne
<1> SUFFICES ASSUME IInv PROVE RescueAnswersOne
  OBVIOUS
<1>1. RescueInv
  BY DEF IInv
<1>2. Cardinality(Asked) <= 1
  <2>1. CASE receiver
    <3>1. Asked = {}
      BY <1>1, <2>1 DEF RescueInv
    <3>2. Cardinality(Asked) = 0
      BY <3>1, FS_EmptySet
    <3> QED BY <3>2
  <2>2. CASE ~ receiver
    <3>1. PICK r \in Requests : Asked = {r}
      BY <1>1, <2>2 DEF RescueInv
    <3>2. Cardinality(Asked) = 1
      BY <3>1, FS_Singleton
    <3> QED BY <3>2
  <2> QED BY <2>1, <2>2 DEF IInv, TypeInv
<1>3. \A r \in Requests : task[r] = "panicked" => Asked # {}
  BY <1>1 DEF RescueInv
<1> QED BY <1>2, <1>3 DEF RescueAnswersOne, Asked

\* The rescue answers one Start, and a Start is lost to a panic only after that one.
THEOREM RescueIsForOne == Spec => []RescueAnswersOne
BY MockInvariant, RescueFollows, PTL

(***************************************************************************)
(* A test's exchange with the portal.  The client is where it says, and    *)
(* its session is one the portal has made, once the portal has.            *)
(***************************************************************************)
Client == [at : {"idle", "subscribed", "called", "waiting", "closing", "refused", "ended", "lost"},
           step : {"create", "select", "start"},
           session : Handles, request : Requests \cup {NoRequest}]

HarnessInv ==
  /\ setup \in Setups
  /\ client \in Client
  /\ stream \subseteq Requests
  /\ client.session \in registered \cup {Stray}
  /\ client.at \in {"called", "waiting"} => client.request \in Requests
  /\ (client.step = "create" /\ client.at \in {"called", "waiting"})
       => client.request \in registered

LEMMA InitHarness == ExchangeInit => HarnessInv
BY DEF ExchangeInit, HarnessInv, Client, Handles

\* A step that has nothing to do with the portal.
Outside ==
  \/ StartPortal \/ Kill \/ Subscribe \/ TakeReturn \/ TakeResponse \/ HearClosed \/ LoseBus
  \/ /\ ClientIs("subscribed") /\ client.step = "start" /\ IsClosed(client.session)
     /\ UNCHANGED vars /\ Refused
  \/ BeginWait \/ Count \/ CheckDeadline \/ Wake \/ DeadlinePasses
  \/ UNCHANGED exchangeVars

LEMMA OutsideStep ==
  ASSUME HarnessInv, Outside
  PROVE  UNCHANGED vars /\ HarnessInv'
<1>1. UNCHANGED vars
  BY DEF Outside, StartPortal, Kill, Subscribe, TakeReturn, TakeResponse, HearClosed, LoseBus, After,
         BeginWait, Count, CheckDeadline, Wake, Waiter, DeadlinePasses, exchangeVars
<1>2. registered' = registered
  BY <1>1 DEF vars
<1>3. CASE StartPortal \/ Kill \/ BeginWait \/ Count \/ CheckDeadline \/ Wake \/ DeadlinePasses
           \/ UNCHANGED exchangeVars
  <2>1. UNCHANGED <<setup, client, stream>>
    BY <1>3 DEF StartPortal, Kill, BeginWait, Count, CheckDeadline, Wake, Waiter, DeadlinePasses,
                exchangeVars, harnessVars
  <2> QED BY <1>1, <1>2, <2>1 DEF HarnessInv
<1>4. CASE Subscribe
  BY <1>1, <1>2, <1>4 DEF Subscribe, HarnessInv, Client
<1>5. CASE TakeReturn
  BY <1>1, <1>2, <1>5 DEF TakeReturn, ClientIs, HarnessInv, Client
<1>6. CASE LoseBus
  BY <1>1, <1>2, <1>6 DEF LoseBus, HarnessInv, Client
<1>7. CASE Refused
  BY <1>1, <1>2, <1>7 DEF Refused, HarnessInv, Client
<1>8. CASE HearClosed
  BY <1>1, <1>2, <1>8 DEF HearClosed, After, HarnessInv, Client
<1>9. CASE TakeResponse
  <2>1. client.at = "waiting" /\ client.request \in Requests
    BY <1>9 DEF TakeResponse, Answered, ClientIs, HarnessInv
  <2>2. \/ client.step = "create" /\ After("idle", "select", client.request)
        \/ After("closing", client.step, client.session)
        \/ After("idle", "start", client.session)
        \/ After("ended", "start", client.session)
    BY <1>9 DEF TakeResponse
  <2>3. CASE client.step = "create" /\ After("idle", "select", client.request)
    <3>1. client.request \in registered /\ client.request \in Handles
      BY <2>1, <2>3 DEF HarnessInv, Handles
    <3> QED BY <1>1, <1>2, <2>1, <2>3, <3>1 DEF After, HarnessInv, Client
  <2>4. CASE After("closing", client.step, client.session)
    BY <1>1, <1>2, <2>4 DEF After, HarnessInv, Client
  <2>5. CASE After("idle", "start", client.session) \/ After("ended", "start", client.session)
    BY <1>1, <1>2, <2>5 DEF After, HarnessInv, Client
  <2> QED BY <2>2, <2>3, <2>4, <2>5
<1> QED BY <1>1, <1>3, <1>4, <1>5, <1>6, <1>7, <1>8, <1>9 DEF Outside

\* A call that the portal accepts: the request is the client's.
Calls(fields) ==
  /\ ClientIs("subscribed")
  /\ fields \in Plain \cup Selection /\ Accept(fields) /\ Called
  /\ UNCHANGED <<reply, closed, unavailable, signals, scenarioVars>>
  /\ \/ /\ client.step = "create" /\ fields.kind = "create"
        /\ registered' = registered \cup {counter} /\ calls' = calls
     \/ /\ client.step = "select" /\ fields.kind = "select" /\ fields.call = ParsedCall
        /\ registered' = registered /\ calls' = Append(calls, counter)
     \/ /\ client.step = "start" /\ fields.kind = "start" /\ ~ IsClosed(client.session)
        /\ registered' = registered /\ calls' = calls

LEMMA CallStep ==
  ASSUME TypeInv, TaskInv, HarnessInv,
         \/ CallCreateSession
         \/ CallSelectSources /\ ~ Malformed
         \/ CallStart /\ Start(client.session) /\ Called
  PROVE  Next /\ \E fields \in Plain \cup Selection : Calls(fields)
<1>1. client.session \in registered \cup {Stray} /\ client.session \in Handles
  BY DEF HarnessInv, Client
<1>2. CASE CallCreateSession
  <2> DEFINE fields == [kind |-> "create", session |-> counter]
  <2>1. counter \in Handles
    BY <1>2, MockAssumption DEF CallCreateSession, CreateSession, Accept, TypeInv, Handles, Requests
  <2>2. fields \in Plain /\ fields.kind = "create"
    BY <2>1 DEF Plain
  <2>3. Accept(fields)
    BY <1>2 DEF CallCreateSession, CreateSession
  <2>4. Calls(fields)
    <3> HIDE DEF fields
    <3> QED BY <1>2, <2>2, <2>3 DEF CallCreateSession, CreateSession, Calls
  <2>5. Next
    BY <1>2 DEF CallCreateSession, Next
  <2> HIDE DEF fields
  <2> QED BY <2>2, <2>4, <2>5
<1>3. CASE CallSelectSources /\ ~ Malformed
  <2> DEFINE fields == [kind |-> "select", session |-> client.session, call |-> ParsedCall]
  <2>1. ParsedCall \in SelectCalls
    BY <1>3, SetupsAssumption DEF HarnessInv, Malformed, ParsedCall, Options
  <2>2. fields \in Selection /\ fields.kind = "select" /\ fields.call = ParsedCall
    BY <1>1, <2>1 DEF Selection
  <2>3. Accept(fields)
    BY <1>3 DEF CallSelectSources, SelectSources
  <2>4. Calls(fields)
    <3> HIDE DEF fields
    <3> QED BY <1>3, <2>2, <2>3 DEF CallSelectSources, SelectSources, Calls
  <2>5. SelectSources(client.session, ParsedCall)
    BY <1>3 DEF CallSelectSources
  <2>6. Next
    BY <1>1, <2>1, <2>5 DEF Next
  <2> HIDE DEF fields
  <2> QED BY <2>2, <2>4, <2>6
<1>4. CASE CallStart /\ Start(client.session) /\ Called
  <2> DEFINE fields == [kind |-> "start", session |-> client.session]
  <2>1. fields \in Plain /\ fields.kind = "start"
    BY <1>1 DEF Plain
  <2>2. Start(client.session) /\ Called /\ ClientIs("subscribed") /\ client.step = "start"
    BY <1>4 DEF CallStart
  <2>3. Accept(fields)
    BY <2>2 DEF Start
  <2>4. Calls(fields)
    <3> HIDE DEF fields
    <3> QED BY <2>1, <2>2, <2>3 DEF Start, Calls
  <2>5. Next
    BY <1>1, <2>2 DEF Next
  <2> HIDE DEF fields
  <2> QED BY <2>1, <2>4, <2>5
<1> QED BY <1>2, <1>3, <1>4

\* A call whose options the portal cannot parse.
RefusedCall == Malformed /\ RejectSelectSources(client.session) /\ Refused

\* A step of the portal that is none of the client's.
Inside ==
  \/ \E r \in Requests : EmitResponse(r) \/ SilentTask(r)
  \/ TestTriggers

LEMMA ExchangeSteps ==
  ASSUME [ExchangeNext]_exchangeVars
  PROVE  \/ Outside \/ Inside \/ RefusedCall
         \/ CallCreateSession
         \/ CallSelectSources /\ ~ Malformed
         \/ CallStart /\ Start(client.session) /\ Called
<1>1. CASE CallStart
  BY <1>1 DEF CallStart, Outside
<1>2. CASE CallSelectSources
  BY <1>2 DEF CallSelectSources, RefusedCall
<1> QED BY <1>1, <1>2 DEF ExchangeNext, Outside, Inside


LEMMA CallHarness ==
  ASSUME TypeInv, TaskInv, HarnessInv, NEW fields \in Plain \cup Selection, Calls(fields)
  PROVE  HarnessInv'
<1>1. counter \in Requests
  BY AcceptStep DEF Calls, Accepts
<1>2. /\ client' = [client EXCEPT !.at = "called", !.request = counter]
      /\ UNCHANGED <<setup, stream>>
      /\ registered \subseteq registered'
      /\ client.step = "create" => counter \in registered'
  BY DEF Calls, Called
<1>3. client \in Client /\ client.session \in registered \cup {Stray}
  BY DEF HarnessInv
<1>4. /\ client' \in Client /\ client'.session = client.session
      /\ client'.request = counter /\ client'.step = client.step
  BY <1>1, <1>2, <1>3 DEF Client
<1> QED BY <1>1, <1>2, <1>3, <1>4 DEF HarnessInv

LEMMA InsideStep ==
  ASSUME TypeInv, TaskInv, HarnessInv, Inside
  PROVE  Next /\ HarnessInv'
<1>1. CASE TestTriggers
  <2>1. Next
    BY <1>1 DEF TestTriggers, Next
  <2>2. UNCHANGED <<setup, client, stream>> /\ registered' = registered
    BY <1>1 DEF TestTriggers, UseController, harnessVars
  <2> QED BY <2>1, <2>2 DEF HarnessInv
<1>2. ASSUME NEW r \in Requests, EmitResponse(r) \/ SilentTask(r) PROVE Next /\ HarnessInv'
  <2>1. Next
    BY <1>2 DEF EmitResponse, SilentTask, Next
  <2>2. \/ Quiet(r) \/ SelectUnavailable(r) \/ SelectFails(r)
        \/ StartTask(r) \/ TakeReceiver(r) \/ Fires(r)
    BY <1>2 DEF EmitResponse, SilentTask, Quiet, Fires
  <2>3. registered' = registered
    BY <2>2, QuietStep, SelectUnavailableStep, SelectFailsStep, StartTaskStep, TakeReceiverStep,
       FireStep DEF Frame
  <2>4. UNCHANGED <<setup, client>> /\ stream' \in {stream, stream \cup {r}}
    BY <1>2 DEF EmitResponse, SilentTask, harnessVars
  <2> QED BY <2>1, <2>3, <2>4 DEF HarnessInv
<1> QED BY <1>1, <1>2 DEF Inside

LEMMA RefusedHarness ==
  ASSUME HarnessInv, RefusedCall
  PROVE  Next /\ HarnessInv'
<1>1. Next
  BY DEF RefusedCall, HarnessInv, Next
<1>2. /\ client' = [client EXCEPT !.at = "refused"]
      /\ UNCHANGED <<setup, stream>> /\ registered' = registered
  BY DEF RefusedCall, Refused, RejectSelectSources
<1> QED BY <1>1, <1>2 DEF HarnessInv, Client

\* Every step of the exchange is one of the portal, or leaves the portal alone.
LEMMA HarnessStep ==
  ASSUME TypeInv, TaskInv, HarnessInv, [ExchangeNext]_exchangeVars
  PROVE  [Next]_vars /\ HarnessInv'
<1>1. CASE Outside
  BY <1>1, OutsideStep
<1>2. CASE Inside
  BY <1>2, InsideStep
<1>3. CASE RefusedCall
  BY <1>3, RefusedHarness
<1>4. CASE \/ CallCreateSession
           \/ CallSelectSources /\ ~ Malformed
           \/ CallStart /\ Start(client.session) /\ Called
  BY <1>4, CallStep, CallHarness
<1> QED BY <1>1, <1>2, <1>3, <1>4, ExchangeSteps

LEMMA ExchangeInvariant == ExchangeSpec => [](TypeInv /\ TaskInv /\ HarnessInv)
<1>1. ExchangeInit => TypeInv /\ TaskInv /\ HarnessInv
  BY InitInv, InitHarness DEF ExchangeInit, IInv
<1>2. TypeInv /\ TaskInv /\ HarnessInv /\ [ExchangeNext]_exchangeVars
        => (TypeInv /\ TaskInv /\ HarnessInv)'
  BY HarnessStep, StepRemembers
<1> QED BY <1>1, <1>2, PTL DEF ExchangeSpec

\* A test drives the portal through behaviours of the portal only: whatever clients, options and
\* scenarios it sets up, a kill of the bus included, the exchange implements the portal's
\* specification, and with it keeps all that is proved of the portal above.
THEOREM ExchangeRefinesPortal == ExchangeSpec => Spec
<1>1. ExchangeInit => Init
  BY DEF ExchangeInit
<1>2. TypeInv /\ TaskInv /\ HarnessInv /\ [ExchangeNext]_exchangeVars => [Next]_vars
  BY HarnessStep
<1> QED BY <1>1, <1>2, ExchangeInvariant, PTL DEF ExchangeSpec, Spec


(***************************************************************************)
(* A session whose Closed has been emitted is one that refuses calls.      *)
(***************************************************************************)
ClosureInv ==
  /\ signals \subseteq closed
  /\ \A r \in Requests : task[r] = "signalling" => request[r].session \in closed

LEMMA ClosureStep ==
  ASSUME TypeInv, TaskInv, ClosureInv, [Next]_vars
  PROVE  ClosureInv'
<1>1. CASE Method
  <2>1. PICK fields \in Plain \cup Selection : Accept(fields)
    BY <1>1 DEF Method
  <2>2. Accepts(fields)
    BY <2>1, AcceptStep
  <2>3. signals' = signals /\ closed' = closed
    BY <1>1 DEF Method
  <2> QED BY <2>2, <2>3 DEF Accepts, ClosureInv
<1>2. CASE Aside
  BY <1>2, AsideStep DEF Aside, UseController, RejectSelectSources, ClosureInv
<1>3. CASE UNCHANGED vars
  BY <1>3 DEF vars, ClosureInv
<1>4. ASSUME NEW r \in Requests, request' = request, Moves(r, task'[r]),
             task'[r] # "signalling", UNCHANGED <<closed, signals>>
      PROVE  ClosureInv'
  BY <1>4 DEF Moves, ClosureInv
<1>5. ASSUME NEW r \in Requests,
             \/ Quiet(r) \/ SelectUnavailable(r) \/ SelectFails(r) \/ StartTask(r) \/ TakeReceiver(r)
      PROVE  ClosureInv'
  <2>1. request' = request /\ Moves(r, task'[r]) /\ task'[r] # "signalling"
    <3>1. CASE Quiet(r)
      BY <3>1, QuietStep DEF Quietly, Answers, Moves, Frame
    <3>2. CASE SelectUnavailable(r)
      BY <3>2, SelectUnavailableStep DEF Quietly, Answers, Moves, Frame
    <3>3. CASE SelectFails(r)
      BY <3>3, SelectFailsStep DEF Quietly, ByPolicy, Answers, Moves, Frame
    <3>4. CASE StartTask(r)
      BY <3>4, StartTaskStep DEF ByPolicy, Answers, Moves, Frame
    <3>5. CASE TakeReceiver(r)
      BY <3>5, TakeReceiverStep DEF Moves, Frame
    <3> QED BY <1>5, <3>1, <3>2, <3>3, <3>4, <3>5
  <2>2. UNCHANGED <<closed, signals>>
    BY <1>5 DEF Quiet, CreateTask, SelectSucceeds, SelectUnavailable, SelectFails, Selects,
                StartTask, ScenarioStarts, TakeReceiver, Rescued
  <2> QED BY <1>4, <2>1, <2>2
<1>6. ASSUME NEW r \in Requests, FireResponse(r) PROVE ClosureInv'
  <2>1. request' = request /\ Moves(r, task'[r]) /\ UNCHANGED <<closed, signals>>
    BY <1>6, FireStep DEF Fires, FireResponse, Frame, Moves
  <2>2. task'[r] # "signalling"
    BY <1>6 DEF FireResponse, AfterResponse, TypeInv
  <2> QED BY <1>4, <2>1, <2>2
<1>7. ASSUME NEW r \in Requests, MarkSessionClosed(r) PROVE ClosureInv'
  <2>1. request' = request /\ Moves(r, task'[r])
    BY <1>7, FireStep DEF Fires, Frame, Moves
  <2>2. closed' = closed \cup {request[r].session} /\ signals' = signals
    BY <1>7 DEF MarkSessionClosed
  <2> QED BY <2>1, <2>2 DEF Moves, ClosureInv
<1>8. ASSUME NEW r \in Requests, FireSessionClosed(r) PROVE ClosureInv'
  <2>1. request' = request /\ Moves(r, task'[r])
    BY <1>8, FireStep DEF Fires, Frame, Moves
  <2>2. /\ closed' = closed /\ task[r] = "signalling" /\ task'[r] = "ended"
        /\ signals' = signals \cup ({request[r].session} \cap registered)
    BY <1>8 DEF FireSessionClosed, TypeInv
  <2> QED BY <2>1, <2>2 DEF Moves, ClosureInv
<1>9. ASSUME NEW r \in Requests, Fires(r) PROVE ClosureInv'
  BY <1>6, <1>7, <1>8, <1>9 DEF Fires
<1> QED BY <1>1, <1>2, <1>3, <1>5, <1>9, Steps

(***************************************************************************)
(* Requests that are not the client's present one have been answered, and  *)
(* what a policy made of them, the client knows.                           *)
(***************************************************************************)
ClientInv ==
  /\ \A r \in stream : Fired(r)
  /\ client.at \notin {"lost", "refused"} =>
       \A r \in Requests :
         request[r] # NoRequest => Fired(r) \/ (client.at \in {"called", "waiting"} /\ r = client.request)
  /\ client.at \in {"idle", "subscribed"} =>
       \A r \in Requests : reply[r].policy => client.step = "start" /\ client.session \in closed
  /\ client.at \in {"called", "waiting", "ended"} =>
       \A r \in Requests : reply[r].policy => r = client.request
  /\ (client.step = "create" /\ client.at \in {"called", "waiting"})
       => request[client.request].kind = "create"

LEMMA InitClient == ExchangeInit => ClosureInv /\ ClientInv
BY DEF ExchangeInit, Init, None, ClosureInv, ClientInv

LEMMA OutsideClient ==
  ASSUME TypeInv, TaskInv, HarnessInv, ClosureInv, ClientInv, Outside
  PROVE  ClientInv'
<1>1. UNCHANGED <<request, task, reply, closed>>
  BY OutsideStep DEF vars
<1>2. \A r \in Requests : Fired(r)' <=> Fired(r)
  BY <1>1 DEF Fired
<1>3. client \in Client /\ stream \subseteq Requests
  BY DEF HarnessInv
<1>4. CASE StartPortal \/ Kill \/ BeginWait \/ Count \/ CheckDeadline \/ Wake \/ DeadlinePasses
           \/ UNCHANGED exchangeVars
  <2>1. UNCHANGED <<client, stream>>
    BY <1>4 DEF StartPortal, Kill, BeginWait, Count, CheckDeadline, Wake, Waiter, DeadlinePasses,
                exchangeVars, harnessVars
  <2> QED BY <1>1, <1>2, <1>3, <2>1 DEF ClientInv
<1>5. CASE Subscribe
  <2>1. client.at = "idle" /\ client' = [client EXCEPT !.at = "subscribed"] /\ stream' = {}
    BY <1>5 DEF Subscribe, ClientIs
  <2> QED BY <1>1, <1>2, <1>3, <2>1 DEF ClientInv, Client
<1>6. CASE TakeReturn
  <2>1. client.at = "called" /\ client' = [client EXCEPT !.at = "waiting"] /\ stream' = stream
    BY <1>6 DEF TakeReturn, ClientIs
  <2> QED BY <1>1, <1>2, <1>3, <2>1 DEF ClientInv, Client
<1>7. CASE LoseBus \/ Refused
  <2>1. PICK at \in {"lost", "refused"} : client' = [client EXCEPT !.at = at] /\ stream' = stream
    BY <1>7 DEF LoseBus, Refused
  <2> QED BY <1>1, <1>2, <1>3, <2>1 DEF ClientInv, Client
<1>8. CASE HearClosed
  <2>1. /\ client.at = "closing" /\ client.session \in closed /\ stream' = stream
        /\ client' = [client EXCEPT !.at = "idle", !.step = "start", !.session = client.session]
    BY <1>8 DEF HearClosed, ClientIs, After, ClosureInv
  <2> QED BY <1>1, <1>2, <1>3, <2>1 DEF ClientInv, Client
<1>9. CASE TakeResponse
  <2>1. /\ client.at = "waiting" /\ client.request \in stream /\ client.request \in Requests
        /\ stream' = stream
    BY <1>3, <1>9 DEF TakeResponse, Answered, ClientIs, After
  <2>2. \A r \in Requests : request[r] # NoRequest => Fired(r)
    BY <2>1 DEF ClientInv
  <2>3. \A r \in Requests : reply[r].policy => r = client.request
    BY <2>1 DEF ClientInv
  <2>4. client.step = "create" => ~ reply[client.request].policy
    BY <2>1 DEF ClientInv, TaskInv
  <2>5. \/ client.step = "create" /\ After("idle", "select", client.request)
        \/ client.step # "create" /\ After("closing", client.step, client.session)
        \/ /\ ~ reply[client.request].policy
           /\ After("idle", "start", client.session)
        \/ After("ended", "start", client.session)
    BY <1>9 DEF TakeResponse
  <2>6. CASE client.step = "create" /\ After("idle", "select", client.request)
    BY <1>1, <1>2, <1>3, <2>1, <2>2, <2>3, <2>4, <2>6 DEF After, ClientInv, Client
  <2>7. CASE client.step # "create" /\ After("closing", client.step, client.session)
    BY <1>1, <1>2, <1>3, <2>1, <2>2, <2>7 DEF After, ClientInv, Client
  <2>8. CASE ~ reply[client.request].policy /\ After("idle", "start", client.session)
    BY <1>1, <1>2, <1>3, <2>1, <2>2, <2>3, <2>8 DEF After, ClientInv, Client
  <2>9. CASE After("ended", "start", client.session)
    BY <1>1, <1>2, <1>3, <2>1, <2>2, <2>3, <2>9 DEF After, ClientInv, Client
  <2> QED BY <2>5, <2>6, <2>7, <2>8, <2>9
<1> QED BY <1>4, <1>5, <1>6, <1>7, <1>8, <1>9 DEF Outside

\* The session that a Start is accepted in has no failure: it would be closed.
LEMMA CallClient ==
  ASSUME TypeInv, TaskInv, HarnessInv, ClientInv,
         NEW fields \in Plain \cup Selection, Calls(fields)
  PROVE  ClientInv'
<1>1. Accepts(fields)
  BY AcceptStep DEF Calls
<1>2. /\ client' = [client EXCEPT !.at = "called", !.request = counter]
      /\ client.at = "subscribed"
      /\ UNCHANGED <<stream, reply>>
      /\ client.step = "create" => fields.kind = "create"
      /\ client.step = "start" => client.session \notin closed
  BY DEF Calls, Called, ClientIs, IsClosed
<1>3. client \in Client /\ stream \subseteq Requests
  BY DEF HarnessInv
<1>4. counter \in Requests /\ task[counter] = "none"
  BY <1>1 DEF Accepts
<1>5. /\ client' \in Client /\ client'.at = "called" /\ client'.request = counter
      /\ client'.step = client.step
  BY <1>2, <1>3, <1>4 DEF Client
<1>6. \A r \in Requests : Fired(r) => Fired(r)'
  BY <1>1 DEF Accepts, Fired
<1>7. \A r \in Requests : ~ reply[r].policy
  BY <1>2 DEF ClientInv
<1>8. \A r \in Requests : request'[r] # NoRequest => Fired(r)' \/ r = counter
  BY <1>1, <1>2, <1>6 DEF Accepts, ClientInv
<1>9. request'[counter].kind = fields.kind
  BY <1>1 DEF Accepts
<1> QED BY <1>2, <1>3, <1>5, <1>6, <1>7, <1>8, <1>9 DEF ClientInv

LEMMA InsideClient ==
  ASSUME TypeInv, TaskInv, HarnessInv, ClientInv, Inside
  PROVE  ClientInv'
<1>1. CASE TestTriggers
  <2>1. UNCHANGED <<client, stream, request, task, reply, closed>>
    BY <1>1 DEF TestTriggers, UseController, harnessVars
  <2> QED BY <2>1 DEF ClientInv, Fired
<1>2. ASSUME NEW r \in Requests, EmitResponse(r) \/ SilentTask(r) PROVE ClientInv'
  <2>1. \/ Quiet(r) \/ SelectUnavailable(r) \/ SelectFails(r)
        \/ StartTask(r) \/ TakeReceiver(r) \/ Fires(r)
    BY <1>2 DEF EmitResponse, SilentTask, Quiet, Fires
  <2>2. /\ request' = request /\ Moves(r, task'[r]) /\ task[r] # "none"
        /\ \A q \in Requests : q # r => reply'[q] = reply[q]
        /\ Fires(r) => reply' = reply /\ task'[r] \in {"closing", "signalling", "ended"}
        /\ Fired(r) => Fires(r)
    BY <2>1, QuietStep, SelectUnavailableStep, SelectFailsStep, StartTaskStep, TakeReceiverStep,
       FireStep
    DEF Quietly, ByPolicy, Answers, Moves, Frame, Fired, Unanswered
  <2>3. closed \subseteq closed' /\ client' = client /\ stream' \in {stream, stream \cup {r}}
    BY <1>2 DEF EmitResponse, FireResponse, SilentTask, harnessVars,
                CreateTask, SelectSucceeds, SelectUnavailable, SelectFails, Selects, StartTask,
                ScenarioStarts, TakeReceiver, Rescued, MarkSessionClosed, FireSessionClosed
  <2>4. r \in stream' => r \in stream \/ Fires(r)
    BY <1>2 DEF EmitResponse, SilentTask, Fires, harnessVars
  <2>5. \A q \in Requests : Fired(q) => Fired(q)'
    BY <2>2 DEF Moves, Fired
  <2>6. Fires(r) => Fired(r)'
    BY <2>2 DEF Fired
  <2>7. stream \subseteq Requests
    BY DEF HarnessInv
  <2>8. \A q \in stream' : Fired(q)'
    BY <2>3, <2>4, <2>5, <2>6, <2>7 DEF ClientInv
  <2>9. ASSUME client.at \notin {"lost", "refused"}, ~ Fires(r)
        PROVE  client.at \in {"called", "waiting"} /\ r = client.request
    <3>1. request[r] # NoRequest /\ ~ Fired(r)
      BY <2>2, <2>9 DEF TaskInv
    <3> QED BY <2>9, <3>1 DEF ClientInv
  <2>10. CASE Fires(r)
    BY <2>2, <2>3, <2>5, <2>8, <2>10 DEF ClientInv
  <2>11. CASE ~ Fires(r)
    <3>1. client.at \in {"called", "waiting"} =>
            \A q \in Requests : reply'[q].policy => q = client.request
      BY <2>2, <2>9, <2>11 DEF ClientInv
    <3>2. client.at \notin {"idle", "subscribed", "ended", "closing"}
      BY <2>9, <2>11
    <3> QED BY <2>2, <2>3, <2>5, <2>8, <3>1, <3>2 DEF ClientInv
  <2> QED BY <2>10, <2>11
<1> QED BY <1>1, <1>2 DEF Inside

LEMMA ClientStep ==
  ASSUME TypeInv, TaskInv, HarnessInv, ClosureInv, ClientInv, [ExchangeNext]_exchangeVars
  PROVE  ClientInv'
<1>1. CASE RefusedCall
  <2>1. /\ client' = [client EXCEPT !.at = "refused"]
        /\ UNCHANGED <<stream, request, task, reply, closed>>
    BY <1>1 DEF RefusedCall, Refused, RejectSelectSources
  <2>2. client'.at = "refused"
    BY <2>1 DEF HarnessInv, Client
  <2> QED BY <2>1, <2>2 DEF ClientInv, Fired
<1>2. CASE \/ CallCreateSession
           \/ CallSelectSources /\ ~ Malformed
           \/ CallStart /\ Start(client.session) /\ Called
  BY <1>2, CallStep, CallClient
<1> QED BY <1>1, <1>2, OutsideClient, InsideClient, ExchangeSteps


(***************************************************************************)
(* The record of calls, and the wait for it.                               *)
(***************************************************************************)
\* What is recorded is what the client's setup comes to.
RecordInv ==
  /\ \A i \in DOMAIN calls : request[calls[i]] # NoRequest /\ request[calls[i]].kind = "select"
  /\ \A r \in Requests :
       request[r] # NoRequest /\ request[r].kind = "select" => request[r].call = ParsedCall

\* The portal's own steps leave the record alone.
LEMMA RecordStays ==
  ASSUME TypeInv, TaskInv, HarnessInv, Outside \/ Inside \/ RefusedCall
  PROVE  UNCHANGED <<request, calls>> /\ setup' = setup
<1>1. CASE Outside
  <2>1. UNCHANGED <<request, calls>>
    BY <1>1, OutsideStep DEF vars
  <2>2. setup' = setup
    BY <1>1 DEF Outside, StartPortal, Kill, Subscribe, TakeReturn, TakeResponse, HearClosed, LoseBus,
                Refused, After, BeginWait, Count, CheckDeadline, Wake, Waiter, DeadlinePasses,
                exchangeVars, harnessVars
  <2> QED BY <2>1, <2>2
<1>2. CASE RefusedCall
  BY <1>2 DEF RefusedCall, RejectSelectSources, Refused
<1>3. CASE TestTriggers
  BY <1>3 DEF TestTriggers, UseController, harnessVars
<1>4. ASSUME NEW r \in Requests, EmitResponse(r) \/ SilentTask(r)
      PROVE  UNCHANGED <<request, calls>> /\ setup' = setup
  <2>1. \/ Quiet(r) \/ SelectUnavailable(r) \/ SelectFails(r)
        \/ StartTask(r) \/ TakeReceiver(r) \/ Fires(r)
    BY <1>4 DEF EmitResponse, SilentTask, Quiet, Fires
  <2>2. Frame
    BY <2>1, QuietStep, SelectUnavailableStep, SelectFailsStep, StartTaskStep, TakeReceiverStep,
       FireStep
  <2>3. setup' = setup
    BY <1>4 DEF EmitResponse, SilentTask, harnessVars
  <2> QED BY <2>2, <2>3 DEF Frame
<1> QED BY <1>1, <1>2, <1>3, <1>4 DEF Inside

LEMMA RecordStep ==
  ASSUME TypeInv, TaskInv, HarnessInv, RecordInv, [ExchangeNext]_exchangeVars
  PROVE  RecordInv'
<1>1. CASE Outside \/ Inside \/ RefusedCall
  <2>1. UNCHANGED <<request, calls>> /\ setup' = setup
    BY <1>1, RecordStays
  <2>2. ParsedCall' = ParsedCall
    BY <2>1 DEF ParsedCall, Options
  <2> QED BY <2>1, <2>2 DEF RecordInv
<1>2. CASE \/ CallCreateSession
           \/ CallSelectSources /\ ~ Malformed
           \/ CallStart /\ Start(client.session) /\ Called
  <2>1. PICK fields \in Plain \cup Selection : Calls(fields)
    BY <1>2, CallStep
  <2>2. Accepts(fields)
    BY <2>1, AcceptStep DEF Calls
  <2>3. ParsedCall' = ParsedCall
    <3>1. setup' = setup
      BY <2>1 DEF Calls, Called
    <3> QED BY <3>1 DEF ParsedCall, Options
  <2>4. /\ fields.kind = "select" => fields.call = ParsedCall
        /\ calls' = calls \/ (calls' = Append(calls, counter) /\ fields.kind = "select")
    BY <2>1 DEF Calls
  <2>5. ASSUME NEW r \in Requests, request'[r] # NoRequest, request'[r].kind = "select"
        PROVE  request'[r].call = ParsedCall
    BY <2>2, <2>4, <2>5 DEF Accepts, RecordInv
  <2>6. calls \in Seq(Requests)
    BY DEF TypeInv
  <2>7. \A i \in DOMAIN calls : request'[calls[i]] = request[calls[i]]
    <3> SUFFICES ASSUME NEW i \in DOMAIN calls PROVE request'[calls[i]] = request[calls[i]]
      OBVIOUS
    <3>1. calls[i] \in Requests /\ request[calls[i]] # NoRequest
      BY <2>6 DEF RecordInv
    <3> QED BY <2>2, <3>1 DEF Accepts
  <2>8. \A i \in DOMAIN calls' : \/ i \in DOMAIN calls /\ calls'[i] = calls[i]
                                 \/ calls'[i] = counter /\ fields.kind = "select"
    <3>1. CASE calls' = calls
      BY <3>1
    <3>2. CASE calls' = Append(calls, counter) /\ fields.kind = "select"
      BY <2>6, <3>2
    <3> QED BY <2>4, <3>1, <3>2
  <2>9. \A i \in DOMAIN calls' : request'[calls'[i]] # NoRequest /\ request'[calls'[i]].kind = "select"
    BY <2>2, <2>7, <2>8 DEF Accepts, RecordInv
  <2> QED BY <2>3, <2>5, <2>9 DEF RecordInv
<1> QED BY <1>1, <1>2, ExchangeSteps

\* A call that is counted stays; the deadline is looked at after a count.
Waiting == [at : {"idle", "counting", "counted", "sleeping", "ok", "timeout"},
            count : Nat, late : BOOLEAN, woken : Nat]

WaitInv ==
  /\ waiter \in Waiting
  /\ waiter.at \in {"counting", "counted"} => waiter.woken <= Len(calls)
  /\ waiter.at = "counted" => waiter.woken <= waiter.count /\ waiter.count < Expected
  /\ waiter.at = "ok" => Expected <= Len(calls)
  /\ waiter.at = "timeout" => waiter.woken < Expected /\ waiter.count < Expected

LEMMA WaitStep ==
  ASSUME TypeInv, TaskInv, HarnessInv, WaitInv, [ExchangeNext]_exchangeVars
  PROVE  WaitInv'
<1> USE SetupsAssumption
<1>1. Len(calls) \in Nat
  BY DEF TypeInv
<1>2. CASE BeginWait
  <2>1. /\ waiter' = [waiter EXCEPT !.at = "counting", !.woken = Len(calls)]
        /\ calls' = calls /\ waiter \in Waiting
    BY <1>2 DEF BeginWait, Waiter, vars, WaitInv
  <2>2. waiter' \in Waiting /\ waiter'.at = "counting" /\ waiter'.woken = Len(calls)
    BY <1>1, <2>1 DEF Waiting
  <2> QED BY <1>1, <2>1, <2>2 DEF WaitInv
<1>3. CASE Count
  <2> DEFINE at == IF Len(calls) >= Expected THEN "ok" ELSE "counted"
  <2>1. /\ waiter' = [waiter EXCEPT !.count = Len(calls), !.at = at]
        /\ calls' = calls /\ waiter.at = "counting" /\ waiter \in Waiting
    BY <1>3 DEF Count, Waiter, vars, WaitInv
  <2>2. /\ waiter' \in Waiting /\ waiter'.at = at
        /\ waiter'.count = Len(calls) /\ waiter'.woken = waiter.woken
    BY <1>1, <2>1 DEF Waiting
  <2> QED BY <1>1, <2>1, <2>2 DEF WaitInv
<1>4. CASE CheckDeadline
  <2> DEFINE at == IF waiter.late THEN "timeout" ELSE "sleeping"
  <2>1. /\ waiter' = [waiter EXCEPT !.at = at]
        /\ calls' = calls /\ waiter.at = "counted" /\ waiter \in Waiting
    BY <1>4 DEF CheckDeadline, Waiter, vars, WaitInv
  <2>2. at \in {"timeout", "sleeping"}
    OBVIOUS
  <2> HIDE DEF at
  <2>3. /\ waiter' \in Waiting /\ waiter'.at = at
        /\ waiter'.count = waiter.count /\ waiter'.woken = waiter.woken
    BY <2>1, <2>2 DEF Waiting
  <2>4. waiter.woken \in Nat /\ waiter.count \in Nat
    BY <2>1 DEF Waiting
  <2> QED BY <1>1, <2>1, <2>2, <2>3, <2>4 DEF WaitInv
<1>5. CASE Wake
  <2>1. /\ waiter' = [waiter EXCEPT !.at = "counting", !.late = waiter.late, !.woken = Len(calls)]
        /\ calls' = calls /\ waiter \in Waiting
    BY <1>5 DEF Wake, Waiter, vars, AfterSleep, KeptDeadline, WaitInv
  <2>2. waiter' \in Waiting /\ waiter'.at = "counting" /\ waiter'.woken = Len(calls)
    BY <1>1, <2>1 DEF Waiting
  <2> QED BY <1>1, <2>1, <2>2 DEF WaitInv
<1>6. CASE DeadlinePasses
  <2>1. waiter' = [waiter EXCEPT !.late = TRUE] /\ calls' = calls /\ waiter \in Waiting
    BY <1>6 DEF DeadlinePasses, vars, WaitInv
  <2>2. /\ waiter' \in Waiting /\ waiter'.at = waiter.at
        /\ waiter'.count = waiter.count /\ waiter'.woken = waiter.woken
    BY <2>1 DEF Waiting
  <2> QED BY <2>1, <2>2 DEF WaitInv
<1>7. ASSUME waiter' = waiter, Len(calls) <= Len(calls'), Len(calls') \in Nat PROVE WaitInv'
  BY <1>1, <1>7 DEF WaitInv, Waiting
<1>8. CASE Inside \/ RefusedCall \/ (Outside /\ waiter' = waiter)
  <2>1. calls' = calls
    BY <1>8, RecordStays
  <2>2. waiter' = waiter
    BY <1>8 DEF Inside, EmitResponse, SilentTask, TestTriggers, RefusedCall, Refused, harnessVars
  <2> QED BY <1>1, <1>7, <2>1, <2>2
<1>9. CASE \/ CallCreateSession
           \/ CallSelectSources /\ ~ Malformed
           \/ CallStart /\ Start(client.session) /\ Called
  <2>1. PICK fields \in Plain \cup Selection : Calls(fields)
    BY <1>9, CallStep
  <2>2. calls' \in {calls, Append(calls, counter)} /\ waiter' = waiter
    BY <2>1 DEF Calls, Called
  <2>3. Len(calls) <= Len(calls') /\ Len(calls') \in Nat
    BY <1>1, <2>2 DEF TypeInv
  <2> QED BY <1>7, <2>2, <2>3
<1>10. Outside => \/ BeginWait \/ Count \/ CheckDeadline \/ Wake \/ DeadlinePasses
                  \/ waiter' = waiter
  BY DEF Outside, StartPortal, Kill, Subscribe, TakeReturn, TakeResponse, HearClosed, LoseBus,
         Refused, After, exchangeVars, harnessVars
<1> QED BY <1>2, <1>3, <1>4, <1>5, <1>6, <1>8, <1>9, <1>10, ExchangeSteps

(***************************************************************************)
(* What holds of every exchange.                                           *)
(***************************************************************************)
EInv == TypeInv /\ TaskInv /\ HarnessInv /\ ClosureInv /\ ClientInv /\ RecordInv /\ WaitInv

THEOREM ExchangeInvariantHolds == ExchangeSpec => []EInv
<1>1. ExchangeInit => EInv
  <2> SUFFICES ASSUME ExchangeInit PROVE EInv
    OBVIOUS
  <2>1. TypeInv /\ TaskInv /\ HarnessInv /\ ClosureInv /\ ClientInv
    BY InitInv, InitHarness, InitClient DEF ExchangeInit, IInv
  <2>2. RecordInv
    BY DEF ExchangeInit, Init, RecordInv
  <2>3. WaitInv
    <3>1. waiter = [at |-> "idle", count |-> 0, late |-> FALSE, woken |-> 0]
      BY DEF ExchangeInit
    <3>2. waiter \in Waiting /\ waiter.at = "idle"
      BY <3>1 DEF Waiting
    <3> QED BY <3>2 DEF WaitInv
  <2> QED BY <2>1, <2>2, <2>3 DEF EInv
<1>2. EInv /\ [ExchangeNext]_exchangeVars => EInv'
  BY HarnessStep, StepRemembers, ClosureStep, ClientStep, RecordStep, WaitStep DEF EInv
<1> QED BY <1>1, <1>2, PTL DEF ExchangeSpec

LEMMA HeardFollows == EInv => ClosedHeardIsRefused
<1> SUFFICES ASSUME EInv,
                    client.step = "start", client.at \in {"called", "waiting", "ended"},
                    client.request # NoRequest,
                    NEW r \in AcceptedIn(client.session), r < client.request
             PROVE  ~ reply[r].policy
  BY DEF ClosedHeardIsRefused
<1>1. r \in Requests /\ client.request \in Requests
  BY DEF EInv, HarnessInv, Client, AcceptedIn
<1>2. r # client.request
  BY <1>1, MockAssumption DEF Requests
<1> QED BY <1>1, <1>2 DEF EInv, ClientInv

\* A client that waits for Closed after a failure by policy is never let in again: no Start of it is
\* accepted in a session that has failed.
THEOREM ClosedHeardMeansRefused == ExchangeSpec => []ClosedHeardIsRefused
BY ExchangeInvariantHolds, HeardFollows, PTL

LEMMA WaitFollows == EInv => WaitTellsTruth
BY SetupsAssumption DEF EInv, WaitInv, Waiting, WaitTellsTruth, TypeInv

\* wait_for_calls succeeds only with the calls there, and times out only if they were not there when
\* it last woke up.
THEOREM WaitIsTruthful == ExchangeSpec => []WaitTellsTruth
BY ExchangeInvariantHolds, WaitFollows, PTL


(***************************************************************************)
(* What OBS sends.                                                         *)
(***************************************************************************)
\* OBS sends a default action and nothing else, and only with a token.
LEMMA ObsSends ==
  ASSUME HarnessInv, IsObs, setup.version >= ExtensionVersion
  PROVE  /\ ParsedCall.policy = Absent
              \/ ParsedCall.policy = DefaultOnly(setup.settings.action)
         /\ ParsedCall.token # Absent => ParsedCall.policy = DefaultOnly(setup.settings.action)
<1> DEFINE settings == setup.settings
           options  == SelectSourcesOptions(settings, setup.version)
<1>1. Options = options
  BY DEF Options, OptionsOf, IsObs
<1>2. /\ options.token = OrAbsent(settings.token # "", settings.token)
      /\ options.policy = OrAbsent(settings.token # "", DefaultOnly(settings.action))
      /\ options = [token |-> options.token, label |-> options.label,
                    policy |-> options.policy, rules |-> options.rules]
  BY DEF SelectSourcesOptions
<1> HIDE DEF options
<1>3. ParsedCall.token = options.token /\ ParsedCall.policy = options.policy
  BY <1>1, <1>2 DEF ParsedCall, Parsed
<1>4. CASE settings.token = ""
  BY <1>2, <1>3, <1>4 DEF OrAbsent
<1>5. CASE settings.token # ""
  BY <1>2, <1>3, <1>5 DEF OrAbsent
<1> QED BY <1>4, <1>5

\* What a default action without further actions is to the portal.
LEMMA DefaultOnlyMeans ==
  ASSUME NEW action \in Known, NEW reason
  PROVE  /\ ParseRestorePolicy(DefaultOnly(action)).default = action
         /\ reason \notin DOMAIN ParseRestorePolicy(DefaultOnly(action)).actions
         /\ MockAction(DefaultOnly(action), reason) = action
<1>1. /\ DefaultOnly(action).default = action
      /\ DOMAIN DefaultOnly(action).actions = {}
  BY DEF DefaultOnly
<1>2. ParseRestorePolicy(DefaultOnly(action)).default = action
  BY <1>1 DEF ParseRestorePolicy
<1>3. DOMAIN ParseRestorePolicy(DefaultOnly(action)).actions = {}
  BY <1>1 DEF ParseRestorePolicy
<1>4. action # Absent
  BY RestoreActionsAssumption DEF Known, Prompt, Skip, Error
<1> QED BY <1>2, <1>3, <1>4 DEF MockAction, ActionFor

LEMMA NoPromptsFollows == EInv => NoPromptsIsEnough
<1> SUFFICES ASSUME EInv, IsObs, setup.version >= ExtensionVersion, AssertNoPrompts,
                    NEW i \in DOMAIN calls, NEW reason \in Reasons
             PROVE  /\ HadRestoreToken(calls[i]) => ActionOf(calls[i], reason) # Prompt
                    /\ \A action \in Known : ~ AssertRestoreReasonAction(i, reason, action)
  BY DEF NoPromptsIsEnough
<1> DEFINE r == calls[i]
           chosen == setup.settings.action
<1>1. r \in Requests
  BY DEF EInv, TypeInv
<1>2. request[r].call = ParsedCall
  BY <1>1 DEF EInv, RecordInv
<1>3. /\ ParsedCall.policy = Absent \/ ParsedCall.policy = DefaultOnly(chosen)
      /\ ParsedCall.token # Absent => ParsedCall.policy = DefaultOnly(chosen)
  BY ObsSends DEF EInv
<1>4. chosen \in Known /\ Absent # DefaultOnly(chosen)
  BY SetupsAssumption DEF EInv, HarnessInv
<1>5. /\ ParseRestorePolicy(DefaultOnly(chosen)).default = chosen
      /\ reason \notin DOMAIN ParseRestorePolicy(DefaultOnly(chosen)).actions
      /\ MockAction(DefaultOnly(chosen), reason) = chosen
  BY <1>4, DefaultOnlyMeans
<1>6. Call(i) = ParsedCall
  BY <1>2 DEF Call
<1>7. ParsedCall.policy = DefaultOnly(chosen) => chosen # Prompt
  BY <1>4, <1>5, <1>6 DEF AssertNoPrompts, AssertRestoreDefaultAction
<1>8. ASSUME HadRestoreToken(r) PROVE ActionOf(r, reason) # Prompt
  <2>1. ParsedCall.policy = DefaultOnly(chosen)
    BY <1>2, <1>3, <1>8 DEF HadRestoreToken
  <2>2. PolicyOf(r) = DefaultOnly(chosen)
    BY <1>2, <1>4, <2>1 DEF PolicyOf
  <2>3. ActionOf(r, reason) = chosen
    BY <1>5, <1>8, <2>2 DEF ActionOf
  <2> QED BY <1>7, <2>1, <2>3
<1>9. ASSUME NEW action \in Known PROVE ~ AssertRestoreReasonAction(i, reason, action)
  BY <1>3, <1>5, <1>6 DEF AssertRestoreReasonAction
<1> QED BY <1>8, <1>9

\* assert_no_prompts is enough for OBS: where it passes, no failure of a token leads to a prompt.
THEOREM NoPromptsSuffices == ExchangeSpec => []NoPromptsIsEnough
BY ExchangeInvariantHolds, NoPromptsFollows, PTL

(***************************************************************************)
(* Trimming, with one kind of white space and with more.                   *)
(***************************************************************************)
\* A set of positions of a line has a least and a greatest.
LEMMA MinExists ==
  ASSUME NEW S \in SUBSET Nat, S # {}
  PROVE  Min(S) \in S /\ \A y \in S : Min(S) <= y
<1> DEFINE R == {ss \in Nat \X Nat : ss[1] < ss[2]}
<1>1. IsWellFoundedOn(R, Nat)
  BY NatLessThanWellFounded DEF OpToRel
<1>2. PICK x \in S : \A y \in S : ~ (<<y, x>> \in R)
  BY <1>1, WFMin
<1>3. ASSUME NEW y \in S PROVE x <= y
  <2>1. <<y, x>> \in Nat \X Nat /\ <<y, x>> \notin R
    BY <1>2
  <2> QED BY <2>1
<1> QED BY <1>2, <1>3 DEF Min

LEMMA MaxExists ==
  ASSUME NEW n \in Nat, NEW S \in SUBSET (1..n), S # {}
  PROVE  Max(S) \in S /\ \A y \in S : y <= Max(S)
<1> DEFINE Bounds == {b \in Nat : \A x \in S : x <= b}
           R == {ss \in Nat \X Nat : ss[1] < ss[2]}
<1>1. n \in Bounds
  OBVIOUS
<1>2. IsWellFoundedOn(R, Nat)
  BY NatLessThanWellFounded DEF OpToRel
<1>3. PICK b \in Bounds : \A c \in Bounds : ~ (<<c, b>> \in R)
  BY <1>1, <1>2, WFMin
<1>4. b \in Nat /\ \A x \in S : x <= b
  BY <1>3
<1>5. b \in S
  <2> SUFFICES ASSUME b \notin S PROVE FALSE
    OBVIOUS
  <2>0. PICK x \in S : x \in 1..n
    OBVIOUS
  <2>1. b - 1 \in Nat /\ \A y \in S : y <= b - 1
    <3>1. 1 <= b
      BY <1>4, <2>0
    <3>2. ASSUME NEW y \in S PROVE y <= b - 1
      <4>1. y \in 1..n /\ y <= b /\ y # b
        BY <1>4
      <4> QED BY <1>4, <4>1
    <3> QED BY <1>4, <3>1, <3>2
  <2>2. b - 1 \in Bounds
    BY <2>1
  <2>3. <<b - 1, b>> \in R
    BY <1>4, <2>1
  <2> QED BY <1>3, <2>2, <2>3
<1>6. \A x \in S : b >= x
  BY <1>4
<1>7. Max(S) \in S /\ \A x \in S : Max(S) >= x
  BY <1>5, <1>6 DEF Max
<1> QED BY <1>7

Ink(line, spaces) == {i \in DOMAIN line : line[i] \notin spaces}

FirstInk(line, spaces) == Min(Ink(line, spaces))

LastInk(line, spaces) == Max(Ink(line, spaces))

\* A line with anything but white space is cut to what is between its first and its last.
LEMMA TrimCuts ==
  ASSUME NEW line \in Seq(Pieces), NEW spaces, Ink(line, spaces) # {}
  PROVE  LET left  == Trim(line, spaces)
             first == FirstInk(line, spaces)
             last  == LastInk(line, spaces)
         IN  /\ first \in Ink(line, spaces) /\ last \in Ink(line, spaces)
             /\ \A i \in Ink(line, spaces) : first <= i /\ i <= last
             /\ left = SubSeq(line, first, last)
             /\ left \in Seq(Pieces) /\ left # <<>>
             /\ left[1] = line[first] /\ left[Len(left)] = line[last]
<1> DEFINE ink   == Ink(line, spaces)
           first == FirstInk(line, spaces)
           last  == LastInk(line, spaces)
           left  == Trim(line, spaces)
<1>1. ink \in SUBSET (1..Len(line)) /\ Len(line) \in Nat /\ ink \in SUBSET Nat
  BY DEF Ink
<1>2. left = SubSeq(line, first, last)
  BY DEF Trim, Ink, FirstInk, LastInk
<1>3. /\ first \in ink /\ last \in ink
      /\ \A i \in ink : first <= i /\ i <= last
  BY <1>1, MinExists, MaxExists DEF FirstInk, LastInk
<1> HIDE DEF ink, first, last, left
<1>4. first \in 1..Len(line) /\ last \in 1..Len(line) /\ first <= last
  BY <1>1, <1>3
<1>5. \A i \in first..last : i \in DOMAIN line /\ line[i] \in Pieces
  BY <1>1, <1>4
<1>6. /\ left \in Seq(Pieces)
      /\ Len(left) = IF first <= last THEN last - first + 1 ELSE 0
      /\ \A i \in 1..(last - first + 1) : left[i] = line[first + i - 1]
  <2>1. first \in Int /\ last \in Int
    BY <1>4
  <2> QED BY <1>2, <1>5, <2>1, SubSeqProperties
<1>7. left[1] = line[first] /\ left[Len(left)] = line[last] /\ left # <<>>
  <2>1. Len(left) = last - first + 1
    BY <1>4, <1>6
  <2>2. 1 \in 1..(last - first + 1) /\ last - first + 1 \in 1..(last - first + 1)
    BY <1>4
  <2>3. first + 1 - 1 = first /\ first + (last - first + 1) - 1 = last
    BY <1>4
  <2>4. left # <<>>
    BY <1>4, <2>1
  <2> QED BY <1>6, <2>1, <2>2, <2>3, <2>4
<1> QED BY <1>2, <1>3, <1>6, <1>7 DEF ink, first, last, left

\* What is left of a line has no white space at its ends; nothing is left of white space.
LEMMA TrimEnds ==
  ASSUME NEW line \in Seq(Pieces), NEW spaces
  PROVE  LET left == Trim(line, spaces)
         IN  /\ left \in Seq(Pieces)
             /\ left = <<>> <=> Ink(line, spaces) = {}
             /\ left # <<>> => left[1] \notin spaces /\ left[Len(left)] \notin spaces
<1>1. CASE Ink(line, spaces) = {}
  BY <1>1 DEF Trim, Ink
<1>2. CASE Ink(line, spaces) # {}
  <2>1. /\ Trim(line, spaces) \in Seq(Pieces) /\ Trim(line, spaces) # <<>>
        /\ Trim(line, spaces)[1] = line[FirstInk(line, spaces)]
        /\ Trim(line, spaces)[Len(Trim(line, spaces))] = line[LastInk(line, spaces)]
        /\ FirstInk(line, spaces) \in Ink(line, spaces)
        /\ LastInk(line, spaces) \in Ink(line, spaces)
    BY <1>2, TrimCuts
  <2>2. \A i \in Ink(line, spaces) : line[i] \notin spaces
    BY DEF Ink
  <2> QED BY <1>2, <2>1, <2>2
<1> QED BY <1>1, <1>2

\* More kinds of white space make no difference where they are not at the ends.
LEMMA TrimAgain ==
  ASSUME NEW line \in Seq(Pieces), NEW some, NEW all, some \subseteq all,
         Trim(line, some) # <<>>, Trim(line, some)[1] \notin all,
         Trim(line, some)[Len(Trim(line, some))] \notin all
  PROVE  Trim(line, all) = Trim(line, some)
<1> DEFINE first == FirstInk(line, some)
           last  == LastInk(line, some)
           others == FirstInk(line, all)
           final  == LastInk(line, all)
<1>1. Ink(line, all) \subseteq Ink(line, some) /\ Ink(line, some) \subseteq Nat
  BY DEF Ink
<1>2. Ink(line, some) # {}
  BY TrimEnds
<1>3. /\ first \in Ink(line, some) /\ last \in Ink(line, some)
      /\ \A i \in Ink(line, some) : first <= i /\ i <= last
      /\ Trim(line, some) = SubSeq(line, first, last)
      /\ Trim(line, some)[1] = line[first]
      /\ Trim(line, some)[Len(Trim(line, some))] = line[last]
  BY <1>2, TrimCuts
<1>4. first \in Ink(line, all) /\ last \in Ink(line, all)
  BY <1>3 DEF Ink
<1>5. /\ others \in Ink(line, all) /\ final \in Ink(line, all)
      /\ \A i \in Ink(line, all) : others <= i /\ i <= final
      /\ Trim(line, all) = SubSeq(line, others, final)
  BY <1>4, TrimCuts
<1>6. others = first /\ final = last
  <2>1. first \in Nat /\ last \in Nat /\ others \in Nat /\ final \in Nat
    BY <1>1, <1>3, <1>5
  <2>2. others <= first /\ last <= final /\ first <= others /\ final <= last
    BY <1>1, <1>3, <1>4, <1>5
  <2> HIDE DEF first, last, others, final
  <2> QED BY <2>1, <2>2
<1> QED BY <1>3, <1>5, <1>6

\* A line that does not end in white space keeps its end.
LEMMA TrimKeepsEnd ==
  ASSUME NEW line \in Seq(Pieces), NEW spaces, line # <<>>, line[Len(line)] \notin spaces
  PROVE  LET left == Trim(line, spaces)
         IN  left # <<>> /\ left[Len(left)] = line[Len(line)]
<1> DEFINE last == LastInk(line, spaces)
<1>1. Len(line) \in Nat /\ Len(line) >= 1 /\ DOMAIN line = 1..Len(line)
  OBVIOUS
<1>2. Len(line) \in Ink(line, spaces)
  BY <1>1 DEF Ink
<1>3. /\ last \in Ink(line, spaces) /\ Len(line) <= last
      /\ Trim(line, spaces) # <<>>
      /\ Trim(line, spaces)[Len(Trim(line, spaces))] = line[last]
  BY <1>2, TrimCuts
<1>4. last \in 1..Len(line)
  BY <1>1, <1>3 DEF Ink
<1>5. last = Len(line)
  <2>1. Len(line) <= last
    BY <1>3
  <2> HIDE DEF last
  <2>2. last \in Int /\ Len(line) \in Int /\ last <= Len(line)
    BY <1>1, <1>4
  <2> QED BY <2>1, <2>2
<1> QED BY <1>3, <1>5

\* What a line comes to, by its pattern.
LEMMA RuleShape ==
  ASSUME NEW line \in Seq(Pieces), NEW spaces
  PROVE  LET prefixed == line # <<>> /\ line[1] \in DOMAIN ScopeOfPrefix
             pattern  == IF prefixed THEN Trim(Tail(line), spaces) ELSE line
             rule     == RuleOfLine(line, spaces)
         IN  /\ rule \in LineRule \cup {Absent}
             /\ rule = Absent <=> pattern = <<>>
             /\ rule # Absent => rule.pattern = pattern
<1> DEFINE prefixed == line # <<>> /\ line[1] \in DOMAIN ScopeOfPrefix
           pattern  == IF prefixed THEN Trim(Tail(line), spaces) ELSE line
           scope    == IF prefixed THEN ScopeOfPrefix[line[1]] ELSE "same_app"
           rule     == RuleOfLine(line, spaces)
<1>1. rule = IF pattern = <<>> THEN Absent ELSE TitleRegex(pattern, scope)
  BY DEF RuleOfLine
<1>2. pattern \in Seq(Pieces)
  <2>1. CASE prefixed
    <3>1. Tail(line) \in Seq(Pieces)
      BY <2>1, HeadTailProperties
    <3> QED BY <2>1, <3>1, TrimEnds
  <2>2. CASE ~ prefixed
    BY <2>2
  <2> QED BY <2>1, <2>2
<1>3. scope \in {"same_app", "any_app"}
  BY DEF ScopeOfPrefix
<1> HIDE DEF pattern, scope, prefixed
<1>4. TitleRegex(pattern, scope) \in LineRule /\ TitleRegex(pattern, scope).pattern = pattern
  BY <1>2, <1>3 DEF TitleRegex, LineRule
<1>5. Absent \notin LineRule
  BY MatchRulesAssumption
<1> HIDE DEF rule
<1>6. /\ rule \in LineRule \cup {Absent}
      /\ rule = Absent <=> pattern = <<>>
      /\ rule # Absent => rule.pattern = pattern
  <2>1. CASE pattern = <<>>
    BY <1>1, <2>1
  <2>2. CASE pattern # <<>>
    BY <1>1, <1>4, <1>5, <2>2
  <2> QED BY <2>1, <2>2
<1> QED BY <1>6 DEF rule, pattern, prefixed

LEMMA NoRuleOfNothing == ASSUME NEW spaces PROVE RuleOfLine(<<>>, spaces) = Absent
BY DEF RuleOfLine

\* The model's trim leaves no white space of any kind at the ends of a pattern.
LEMMA ModelEnds ==
  ASSUME NEW line \in Seq(Pieces),
         line # <<>> => line[1] \notin WhiteSpace /\ line[Len(line)] \notin WhiteSpace,
         RuleOfLine(line, WhiteSpace) # Absent
  PROVE  ~ EndsWide(RuleOfLine(line, WhiteSpace).pattern)
<1> DEFINE prefixed == line # <<>> /\ line[1] \in DOMAIN ScopeOfPrefix
           pattern  == IF prefixed THEN Trim(Tail(line), WhiteSpace) ELSE line
<1>1. RuleOfLine(line, WhiteSpace).pattern = pattern
  BY RuleShape
<1>2. pattern # <<>> => pattern[1] \notin WhiteSpace /\ pattern[Len(pattern)] \notin WhiteSpace
  <2>1. CASE prefixed
    <3>1. Tail(line) \in Seq(Pieces)
      BY <2>1, HeadTailProperties
    <3> QED BY <2>1, <3>1, TrimEnds
  <2>2. CASE ~ prefixed
    BY <2>2
  <2> QED BY <2>1, <2>2
<1> HIDE DEF pattern
<1> QED BY <1>1, <1>2 DEF EndsWide, WhiteSpace

\* A line that begins and ends with no white space: both come to the same rule of it, unless OBS
\* leaves some after its prefix.
LEMMA RulesCompared ==
  ASSUME NEW line \in Seq(Pieces)
  PROVE  LET plugin == RuleOfLine(line, {"ascii"})
             model  == RuleOfLine(line, WhiteSpace)
         IN  /\ plugin = Absent => model = Absent
             /\ plugin # Absent /\ ~ EndsWide(plugin.pattern) => model = plugin
<1> DEFINE plugin == RuleOfLine(line, {"ascii"})
           model  == RuleOfLine(line, WhiteSpace)
           prefixed == line # <<>> /\ line[1] \in DOMAIN ScopeOfPrefix
           left   == Trim(Tail(line), {"ascii"})
           less   == Trim(Tail(line), WhiteSpace)
<1>1. CASE ~ prefixed
  BY <1>1 DEF RuleOfLine
<1>2. CASE prefixed
  <2>1. Tail(line) \in Seq(Pieces)
    BY <1>2, HeadTailProperties
  <2>2. left # <<>> => left[1] \notin {"ascii"} /\ left[Len(left)] \notin {"ascii"}
    BY <2>1, TrimEnds
  <2>3. left = <<>> => less = <<>>
    <3>1. Ink(Tail(line), WhiteSpace) \subseteq Ink(Tail(line), {"ascii"})
      BY DEF Ink, WhiteSpace
    <3>2. left = <<>> => Ink(Tail(line), {"ascii"}) = {}
      BY <2>1, TrimEnds
    <3>3. Ink(Tail(line), WhiteSpace) = {} => less = <<>>
      BY <2>1, TrimEnds
    <3> QED BY <3>1, <3>2, <3>3
  <2>4. left # <<>> /\ ~ EndsWide(left) => less = left
    <3> SUFFICES ASSUME left # <<>>, ~ EndsWide(left) PROVE less = left
      OBVIOUS
    <3>1. left[1] \notin WhiteSpace /\ left[Len(left)] \notin WhiteSpace
      BY <2>2 DEF EndsWide, WhiteSpace
    <3>2. {"ascii"} \subseteq WhiteSpace
      BY DEF WhiteSpace
    <3> QED BY <2>1, <3>1, <3>2, TrimAgain
  <2>5. /\ plugin = Absent <=> left = <<>>
        /\ plugin # Absent => plugin.pattern = left
        /\ model = Absent <=> less = <<>>
    BY <1>2, RuleShape
  <2>6. left = less => plugin = model
    BY DEF RuleOfLine
  <2> HIDE DEF left, less, plugin, model
  <2>7. /\ plugin = Absent => model = Absent
        /\ plugin # Absent /\ ~ EndsWide(plugin.pattern) => model = plugin
    BY <2>3, <2>4, <2>5, <2>6
  <2> QED BY <2>7 DEF plugin, model
<1> QED BY <1>1, <1>2

\* White space beyond ASCII at an end of a line that OBS has stripped stays at an end of its pattern.
LEMMA WideStays ==
  ASSUME NEW line \in Seq(Pieces), line # <<>>, line[1] = "wide" \/ line[Len(line)] = "wide"
  PROVE  LET plugin == RuleOfLine(line, {"ascii"})
         IN  plugin # Absent /\ EndsWide(plugin.pattern)
<1> DEFINE plugin == RuleOfLine(line, {"ascii"})
           prefixed == line # <<>> /\ line[1] \in DOMAIN ScopeOfPrefix
           left   == Trim(Tail(line), {"ascii"})
<1>1. CASE ~ prefixed
  <2>1. plugin # Absent /\ plugin.pattern = line
    BY <1>1, RuleShape
  <2> HIDE DEF plugin
  <2>2. plugin # Absent /\ EndsWide(plugin.pattern)
    BY <2>1 DEF EndsWide
  <2> QED BY <2>2 DEF plugin
<1>2. CASE prefixed
  <2>1. line[1] # "wide" /\ line[Len(line)] = "wide"
    BY <1>2 DEF ScopeOfPrefix
  <2>2. /\ Tail(line) \in Seq(Pieces) /\ Len(Tail(line)) = Len(line) - 1
        /\ \A i \in 1..Len(Tail(line)) : Tail(line)[i] = line[i + 1]
    BY HeadTailProperties
  <2>3. Len(line) \in Nat /\ Len(line) > 1
    BY <2>1
  <2>4. Tail(line) # <<>> /\ Tail(line)[Len(Tail(line))] = "wide"
    <3>1. Len(line) - 1 \in 1..Len(Tail(line)) /\ (Len(line) - 1) + 1 = Len(line)
      BY <2>2, <2>3
    <3>2. Tail(line)[Len(line) - 1] = line[Len(line)]
      BY <2>2, <3>1
    <3> QED BY <2>1, <2>2, <3>1, <3>2
  <2>5. left # <<>> /\ left[Len(left)] = "wide"
    BY <2>2, <2>4, TrimKeepsEnd
  <2>6. plugin # Absent /\ plugin.pattern = left
    BY <1>2, <2>5, RuleShape
  <2> HIDE DEF plugin, left
  <2>7. plugin # Absent /\ EndsWide(plugin.pattern)
    BY <2>5, <2>6 DEF EndsWide
  <2> QED BY <2>7 DEF plugin
<1> QED BY <1>1, <1>2

\* One line in OBS and in the model of it: no rule in both, the same rule, or one that OBS sends
\* with white space beyond ASCII at an end of its pattern.
LEMMA LineCompared ==
  ASSUME NEW line \in Seq(Pieces)
  PROVE  LET plugin == RuleOfLine(Trim(line, {"ascii"}), {"ascii"})
             model  == RuleOfLine(Trim(line, WhiteSpace), WhiteSpace)
         IN  /\ plugin = Absent => model = Absent
             /\ plugin # Absent /\ ~ EndsWide(plugin.pattern) => model = plugin
             /\ model # Absent => ~ EndsWide(model.pattern)
<1> DEFINE some   == {"ascii"}
           cut    == Trim(line, some)
           whole  == Trim(line, WhiteSpace)
           plugin == RuleOfLine(cut, some)
           model  == RuleOfLine(whole, WhiteSpace)
<1>1. cut \in Seq(Pieces) /\ whole \in Seq(Pieces)
  BY TrimEnds
<1>2. cut # <<>> => cut[1] \notin some /\ cut[Len(cut)] \notin some
  BY TrimEnds
<1>3. cut = <<>> => whole = <<>>
  <2>1. Ink(line, WhiteSpace) \subseteq Ink(line, some)
    BY DEF Ink, WhiteSpace
  <2>2. cut = <<>> => Ink(line, some) = {}
    BY TrimEnds
  <2>3. Ink(line, WhiteSpace) = {} => whole = <<>>
    BY TrimEnds
  <2> QED BY <2>1, <2>2, <2>3
<1>4. cut # <<>> /\ cut[1] # "wide" /\ cut[Len(cut)] # "wide" => whole = cut
  BY <1>2, TrimAgain DEF WhiteSpace
<1>5. whole # <<>> => whole[1] \notin WhiteSpace /\ whole[Len(whole)] \notin WhiteSpace
  BY TrimEnds
<1> HIDE DEF cut, whole
<1>6. model # Absent => ~ EndsWide(model.pattern)
  BY <1>1, <1>5, ModelEnds
<1>7. CASE cut = <<>>
  <2>1. plugin = Absent /\ model = Absent
    BY <1>3, <1>7, NoRuleOfNothing
  <2> QED BY <2>1 DEF cut, whole
<1>8. CASE cut # <<>> /\ cut[1] # "wide" /\ cut[Len(cut)] # "wide"
  <2>1. whole = cut
    BY <1>4, <1>8
  <2>2. /\ plugin = Absent => model = Absent
        /\ plugin # Absent /\ ~ EndsWide(plugin.pattern) => model = plugin
    BY <1>1, <2>1, RulesCompared
  <2> QED BY <1>6, <2>2 DEF cut, whole
<1>9. CASE cut # <<>> /\ (cut[1] = "wide" \/ cut[Len(cut)] = "wide")
  <2>1. plugin # Absent /\ EndsWide(plugin.pattern)
    BY <1>1, <1>9, WideStays
  <2> QED BY <1>6, <2>1 DEF cut, whole
<1> QED BY <1>7, <1>8, <1>9

\* The rules of a whole text, as a line by line filter leaves them.
LEMMA PresentRules ==
  ASSUME NEW n \in Nat, NEW rules, DOMAIN rules = 1..n, \A i \in 1..n : rules[i] \in LineRule \cup {Absent}
  PROVE  /\ Present(rules) \in Seq(LineRule)
         /\ \A j \in DOMAIN Present(rules) :
              \E i \in 1..n : rules[i] # Absent /\ Present(rules)[j] = rules[i]
         /\ \A i \in 1..n :
              rules[i] # Absent => \E j \in DOMAIN Present(rules) : Present(rules)[j] = rules[i]
<1> DEFINE S == {i \in DOMAIN rules : rules[i] # Absent}
           left == Present(rules)
<1>1. left = Chosen(rules, S)
  BY DEF Present
<1>2. S \in SUBSET (1..n) /\ \A i \in S : rules[i] # Absent
  OBVIOUS
<1>3. \A i \in 1..n : rules[i] # Absent => i \in S
  OBVIOUS
<1> HIDE DEF S, left
<1>4. /\ Cardinality(S) \in Nat /\ DOMAIN left = 1..Cardinality(S) /\ Len(left) = Cardinality(S)
      /\ \A j \in DOMAIN left : Nth(S, j) \in S /\ left[j] = rules[Nth(S, j)]
  <2>1. S \in SUBSET (1..n)
    BY <1>2
  <2>2. /\ Cardinality(S) \in Nat /\ Len(Chosen(rules, S)) = Cardinality(S)
        /\ DOMAIN Chosen(rules, S) = 1..Cardinality(S)
        /\ \A j \in DOMAIN Chosen(rules, S) :
             Nth(S, j) \in S /\ Chosen(rules, S)[j] = rules[Nth(S, j)]
    BY <2>1, ChosenFrom
  <2> QED BY <1>1, <2>2
<1>5. left \in Seq(LineRule)
  <2>1. \A j \in 1..Cardinality(S) : left[j] \in LineRule
    BY <1>2, <1>4
  <2>2. left = [j \in 1..Cardinality(S) |-> left[j]]
    BY <1>1, <1>4 DEF Chosen
  <2> QED BY <1>4, <2>1, <2>2
<1>6. ASSUME NEW i \in 1..n, rules[i] # Absent PROVE \E j \in DOMAIN left : left[j] = rules[i]
  <2> DEFINE j == Cardinality(Below(S, i)) + 1
  <2>1. i \in S
    BY <1>3, <1>6
  <2>2. j \in 1..Cardinality(S) /\ Nth(S, j) = i
    BY <1>2, <2>1, NthIs
  <2> HIDE DEF j
  <2> QED BY <1>4, <2>2
<1>7. \A j \in DOMAIN left : \E i \in 1..n : rules[i] # Absent /\ left[j] = rules[i]
  BY <1>2, <1>4
<1> QED BY <1>5, <1>6, <1>7 DEF left

\* The rules of a text differ if, and only if, one that OBS sends has such white space at an end.
LEMMA TextCompared ==
  ASSUME NEW text \in Seq(Seq(Pieces))
  PROVE  LET plugin == AddRestoreMatchRules(text)
             model  == ParseRestoreMatchRulesText(text)
         IN  /\ plugin \in Seq(LineRule) /\ model \in Seq(LineRule)
             /\ plugin # model <=> \E i \in DOMAIN plugin : EndsWide(plugin[i].pattern)
<1> DEFINE n == Len(text)
           ofPlugin(i) == RuleOfLine(Trim(text[i], {"ascii"}), {"ascii"})
           ofModel(i) == RuleOfLine(Trim(text[i], WhiteSpace), WhiteSpace)
           here == [i \in DOMAIN text |-> ofPlugin(i)]
           there == [i \in DOMAIN text |-> ofModel(i)]
           plugin == AddRestoreMatchRules(text)
           model == ParseRestoreMatchRulesText(text)
<1>1. n \in Nat /\ DOMAIN text = 1..n /\ \A i \in 1..n : text[i] \in Seq(Pieces)
  OBVIOUS
<1>2. plugin = Present(here) /\ model = Present(there)
  BY DEF AddRestoreMatchRules, ParseRestoreMatchRulesText
<1>3. ASSUME NEW i \in 1..n
      PROVE  /\ ofPlugin(i) \in LineRule \cup {Absent} /\ ofModel(i) \in LineRule \cup {Absent}
             /\ ofPlugin(i) = Absent => ofModel(i) = Absent
             /\ ofPlugin(i) # Absent /\ ~ EndsWide(ofPlugin(i).pattern) => ofModel(i) = ofPlugin(i)
             /\ ofModel(i) # Absent => ~ EndsWide(ofModel(i).pattern)
  <2>1. text[i] \in Seq(Pieces)
    BY <1>1
  <2>2. Trim(text[i], {"ascii"}) \in Seq(Pieces) /\ Trim(text[i], WhiteSpace) \in Seq(Pieces)
    BY <2>1, TrimEnds
  <2>3. ofPlugin(i) \in LineRule \cup {Absent} /\ ofModel(i) \in LineRule \cup {Absent}
    BY <2>2, RuleShape
  <2> QED BY <2>1, <2>3, LineCompared
<1> HIDE DEF n, ofPlugin, ofModel
<1>4. /\ DOMAIN here = 1..n /\ DOMAIN there = 1..n
      /\ \A i \in 1..n : here[i] = ofPlugin(i) /\ there[i] = ofModel(i)
  BY <1>1
<1>5. (\A i \in 1..n : here[i] = there[i]) => here = there
  BY <1>1
<1> HIDE DEF here, there, plugin, model
<1>6. /\ plugin \in Seq(LineRule)
      /\ \A j \in DOMAIN plugin : \E i \in 1..n : here[i] # Absent /\ plugin[j] = here[i]
      /\ \A i \in 1..n : here[i] # Absent => \E j \in DOMAIN plugin : plugin[j] = here[i]
  <2>1. \A i \in 1..n : here[i] \in LineRule \cup {Absent}
    BY <1>3, <1>4
  <2>2. /\ Present(here) \in Seq(LineRule)
        /\ \A j \in DOMAIN Present(here) :
             \E i \in 1..n : here[i] # Absent /\ Present(here)[j] = here[i]
        /\ \A i \in 1..n :
             here[i] # Absent => \E j \in DOMAIN Present(here) : Present(here)[j] = here[i]
    BY <1>1, <1>4, <2>1, PresentRules
  <2> QED BY <1>2, <2>2
<1>7. /\ model \in Seq(LineRule)
      /\ \A j \in DOMAIN model : \E i \in 1..n : there[i] # Absent /\ model[j] = there[i]
  <2>1. \A i \in 1..n : there[i] \in LineRule \cup {Absent}
    BY <1>3, <1>4
  <2>2. /\ Present(there) \in Seq(LineRule)
        /\ \A j \in DOMAIN Present(there) :
             \E i \in 1..n : there[i] # Absent /\ Present(there)[j] = there[i]
        /\ \A i \in 1..n :
             there[i] # Absent => \E j \in DOMAIN Present(there) : Present(there)[j] = there[i]
    BY <1>1, <1>4, <2>1, PresentRules
  <2> QED BY <1>2, <2>2
<1>8. ASSUME \A j \in DOMAIN plugin : ~ EndsWide(plugin[j].pattern) PROVE plugin = model
  <2>1. ASSUME NEW i \in 1..n PROVE here[i] = there[i]
    <3>1. CASE here[i] = Absent
      BY <1>3, <1>4, <3>1
    <3>2. CASE here[i] # Absent
      <4>1. ~ EndsWide(here[i].pattern)
        BY <1>6, <1>8, <3>2
      <4> QED BY <1>3, <1>4, <3>2, <4>1
    <3> QED BY <3>1, <3>2
  <2> QED BY <1>2, <1>5, <2>1
<1>9. ASSUME NEW j \in DOMAIN plugin, EndsWide(plugin[j].pattern) PROVE plugin # model
  <2> SUFFICES ASSUME plugin = model PROVE FALSE
    OBVIOUS
  <2>1. PICK i \in 1..n : there[i] # Absent /\ model[j] = there[i]
    BY <1>7
  <2>2. ~ EndsWide(there[i].pattern)
    BY <1>3, <1>4, <2>1
  <2> QED BY <1>9, <2>1, <2>2
<1>10. plugin # model <=> \E i \in DOMAIN plugin : EndsWide(plugin[i].pattern)
  BY <1>8, <1>9
<1> QED BY <1>6, <1>7, <1>10 DEF plugin, model

\* What the plugin sends, option by option.
LEMMA PluginSends ==
  ASSUME NEW settings, NEW version \in Nat
  PROVE  LET plugin   == PluginOptions(settings, version)
             added    == AddRestoreMatchRules(settings.aliases)
             extended == version >= ExtensionVersion
             restoring == extended /\ settings.token # ""
         IN  /\ plugin.token = OrAbsent(settings.token # "", settings.token)
             /\ plugin.label = OrAbsent(extended /\ settings.name # "", settings.name)
             /\ plugin.policy = OrAbsent(restoring, DefaultOnly(settings.action))
             /\ plugin.rules = OrAbsent(restoring /\ added # <<>>, added)
<1> DEFINE token    == OrAbsent(settings.token # "", settings.token)
           label    == OrAbsent(settings.name # "", settings.name)
           policy   == DefaultOnly(settings.action)
           added    == AddRestoreMatchRules(settings.aliases)
           rules    == OrAbsent(added # <<>>, added)
           base     == [NoOptions EXCEPT !.token = token]
           labelled == [base EXCEPT !.label = label]
           full     == [labelled EXCEPT !.policy = policy, !.rules = rules]
           plugin   == PluginOptions(settings, version)
<1>1. plugin = IF version < ExtensionVersion THEN base
               ELSE IF settings.token = "" THEN labelled ELSE full
  BY DEF PluginOptions
<1>2. version < ExtensionVersion <=> ~ (version >= ExtensionVersion)
  BY DEF ExtensionVersion
<1>3. label = OrAbsent(settings.name # "", settings.name)
  OBVIOUS
<1>4. rules = IF added # <<>> THEN added ELSE Absent
  BY DEF OrAbsent
<1> HIDE DEF token, label, policy, added, rules
<1>5. base.token = token /\ base.label = Absent /\ base.policy = Absent /\ base.rules = Absent
  BY DEF NoOptions
<1>6. /\ labelled.token = token /\ labelled.label = label /\ labelled.policy = Absent
      /\ labelled.rules = Absent
  BY DEF NoOptions
<1>7. full.token = token /\ full.label = label /\ full.policy = policy /\ full.rules = rules
  BY DEF NoOptions
<1> HIDE DEF base, labelled, full, plugin
<1>8. /\ plugin.token = token
      /\ plugin.label = IF version >= ExtensionVersion THEN label ELSE Absent
      /\ plugin.policy = IF version >= ExtensionVersion /\ settings.token # "" THEN policy ELSE Absent
      /\ plugin.rules = IF version >= ExtensionVersion /\ settings.token # "" THEN rules ELSE Absent
  <2>1. CASE version < ExtensionVersion
    BY <1>1, <1>2, <1>5, <2>1
  <2>2. CASE version >= ExtensionVersion /\ settings.token = ""
    BY <1>1, <1>2, <1>6, <2>2
  <2>3. CASE version >= ExtensionVersion /\ settings.token # ""
    BY <1>1, <1>2, <1>7, <2>3
  <2> QED BY <1>2, <2>1, <2>2, <2>3
<1> QED BY <1>3, <1>4, <1>8 DEF OrAbsent, token, policy, added, plugin

\* For any settings, whatever the alias text, and any version of the portal, the plugin, in C, and
\* the mock crate's model of it, in Rust, send the same token, label and policy; their rules differ
\* if, and only if, the plugin sends a pattern with white space beyond ASCII at an end.
THEOREM PluginDiffersInWhiteSpace ==
  ASSUME NEW settings, settings.aliases \in Seq(Seq(Pieces)), NEW version \in Nat
  PROVE  AgreeButForWhiteSpace(PluginOptions(settings, version),
                               SelectSourcesOptions(settings, version))
<1> DEFINE plugin    == PluginOptions(settings, version)
           model     == SelectSourcesOptions(settings, version)
           added     == AddRestoreMatchRules(settings.aliases)
           parsed    == ParseRestoreMatchRulesText(settings.aliases)
           restoring == version >= ExtensionVersion /\ settings.token # ""
<1>1. /\ model.token = plugin.token /\ model.label = plugin.label /\ model.policy = plugin.policy
      /\ model.rules = OrAbsent(restoring /\ parsed # <<>>, parsed)
  BY PluginSends DEF SelectSourcesOptions
<1>2. plugin.rules = OrAbsent(restoring /\ added # <<>>, added)
  BY PluginSends
<1>3. /\ added \in Seq(LineRule) /\ parsed \in Seq(LineRule)
      /\ added # parsed <=> \E i \in DOMAIN added : EndsWide(added[i].pattern)
  BY TextCompared
<1>4. added # Absent /\ parsed # Absent
  BY <1>3, MatchRulesAssumption
<1> HIDE DEF plugin, model, added, parsed, restoring
<1>5. plugin.rules # model.rules <=> SendsEndsWide(plugin)
  <2>1. CASE ~ restoring
    BY <1>1, <1>2, <2>1 DEF OrAbsent, SendsEndsWide
  <2>2. CASE restoring /\ added = <<>>
    <3>1. parsed = <<>>
      BY <1>3, <2>2
    <3> QED BY <1>1, <1>2, <2>2, <3>1 DEF OrAbsent, SendsEndsWide
  <2>3. CASE restoring /\ added # <<>>
    <3>1. plugin.rules = added
      BY <1>2, <2>3 DEF OrAbsent
    <3>2. model.rules # added <=> parsed # added
      BY <1>1, <1>4, <2>3 DEF OrAbsent
    <3> QED BY <1>3, <1>4, <3>1, <3>2 DEF SendsEndsWide
  <2> QED BY <2>1, <2>2, <2>3
<1> QED BY <1>1, <1>5 DEF AgreeButForWhiteSpace, plugin, model

LEMMA AgreementFollows == EInv => PluginAndModelAgree
BY PluginDiffersInWhiteSpace, SetupsAssumption DEF EInv, HarnessInv, PluginAndModelAgree

\* So it is in every test, whatever its alias text and whoever sends.
THEOREM PluginAgreesWithModel == ExchangeSpec => []PluginAndModelAgree
BY ExchangeInvariantHolds, AgreementFollows, PTL

(***************************************************************************)
(* Alias rules, typed or sent, as the mock records them and as COSMIC      *)
(* would use them.                                                         *)
(***************************************************************************)
\* A rule that OBS makes of a line names its scope in full, and is recorded as it is.
LEMMA TypedRule ==
  ASSUME NEW line, NEW spaces, RuleOfLine(line, spaces) # Absent
  PROVE  LET rule == RuleOfLine(line, spaces)
         IN  DOMAIN rule = {"kind", "pattern", "scope"} /\ [rule EXCEPT !.scope = MockScope(rule)] = rule
<1>1. PICK pattern : \E scope \in Scopes : RuleOfLine(line, spaces) = TitleRegex(pattern, scope)
  <2>1. \A prefix \in DOMAIN ScopeOfPrefix : ScopeOfPrefix[prefix] \in Scopes
    BY DEF ScopeOfPrefix, Scopes
  <2>2. "same_app" \in Scopes
    BY DEF Scopes
  <2> QED BY <2>1, <2>2 DEF RuleOfLine
<1> PICK scope \in Scopes : RuleOfLine(line, spaces) = TitleRegex(pattern, scope)
  BY <1>1
<1>2. MockScope(TitleRegex(pattern, scope)) = scope
  BY MatchRulesAssumption DEF MockScope, TitleRegex, ScopeNamed, Scopes
<1>3. [TitleRegex(pattern, scope) EXCEPT !.scope = scope] = TitleRegex(pattern, scope)
  BY DEF TitleRegex
<1>4. DOMAIN TitleRegex(pattern, scope) = {"kind", "pattern", "scope"}
  BY DEF TitleRegex
<1> QED BY <1>2, <1>3, <1>4

LEMMA TypedRules ==
  ASSUME NEW text \in Seq(Seq(Pieces))
  PROVE  LET rules == ParseRestoreMatchRulesText(text)
         IN  /\ Len(rules) \in Nat /\ DOMAIN rules = 1..Len(rules)
             /\ \A j \in DOMAIN rules : DOMAIN rules[j] = {"kind", "pattern", "scope"}
             /\ MockRules(rules) = rules
<1> DEFINE found == [i \in DOMAIN text |-> RuleOfLine(Trim(text[i], WhiteSpace), WhiteSpace)]
           S     == {i \in DOMAIN found : found[i] # Absent}
           rules == Chosen(found, S)
<1>1. S \in SUBSET (1..Len(text)) /\ Len(text) \in Nat
  OBVIOUS
<1>2. ASSUME NEW i \in S
      PROVE  /\ DOMAIN found[i] = {"kind", "pattern", "scope"}
             /\ [found[i] EXCEPT !.scope = MockScope(found[i])] = found[i]
  BY TypedRule
<1>3. ParseRestoreMatchRulesText(text) = rules
  BY DEF ParseRestoreMatchRulesText, Present
<1> HIDE DEF found, S
<1>4. /\ Cardinality(S) \in Nat /\ Len(rules) = Cardinality(S)
      /\ DOMAIN rules = 1..Cardinality(S)
      /\ \A j \in DOMAIN rules : Nth(S, j) \in S /\ rules[j] = found[Nth(S, j)]
  BY <1>1, ChosenFrom
<1>5. rules = [j \in DOMAIN rules |-> rules[j]]
  BY DEF Chosen
<1> HIDE DEF rules
<1>6. \A j \in DOMAIN rules : /\ DOMAIN rules[j] = {"kind", "pattern", "scope"}
                              /\ [rules[j] EXCEPT !.scope = MockScope(rules[j])] = rules[j]
  BY <1>2, <1>4
<1>7. MockRules(rules) = rules
  BY <1>5, <1>6 DEF MockRules
<1> QED BY <1>3, <1>4, <1>6, <1>7

\* What the mock records of an array it accepts is, rule by rule, what COSMIC goes by.
LEMMA ArrayAgrees ==
  ASSUME NEW n \in Nat, NEW entries, DOMAIN entries = 1..n, MockAccepts(entries),
         \A i \in 1..n : DOMAIN entries[i] = {"kind", "pattern", "scope"}
  PROVE  LET usable == Usable(MockRules(entries))
         IN  CosmicRules(entries) = SubSeq(usable, 1, Min({Len(usable), MaxRules}))
<1> DEFINE mock == MockRules(entries)
           S  == {i \in DOMAIN entries : CosmicUses(entries[i])}
           S2 == {i \in DOMAIN mock : CosmicUses(mock[i])}
           c  == Cardinality(S)
           m  == Min({c, MaxRules})
           theirs == Chosen(entries, S)
           ours   == Chosen(mock, S)
           T == {ours[i] : i \in 1..m}
           cut == SubSeq(ours, 1, m)
<1>1. ASSUME NEW i \in 1..n
      PROVE  /\ mock[i] = [entries[i] EXCEPT !.scope = CosmicScope(entries[i])]
             /\ CosmicUses(mock[i]) <=> CosmicUses(entries[i])
  <2> DEFINE e == entries[i]
  <2>1. MockReads(e) /\ DOMAIN e = {"kind", "pattern", "scope"}
    BY DEF MockAccepts
  <2>2. mock[i] = [e EXCEPT !.scope = MockScope(e)]
    BY DEF MockRules
  <2> HIDE DEF e
  <2>3. MockScope(e) = CosmicScope(e)
    BY <2>1 DEF MockScope, CosmicScope, MockReads, IsString
  <2>4. CosmicScope(e) \in Scopes
    BY <2>1 DEF CosmicScope, MockReads, IsString, ScopeNamed, Scopes
  <2>5. /\ mock[i].kind = e.kind /\ mock[i].pattern = e.pattern
        /\ mock[i].scope = CosmicScope(e)
    BY <2>1, <2>2, <2>3
  <2>6. CosmicScope(mock[i]) = CosmicScope(e)
    BY <2>4, <2>5, MatchRulesAssumption DEF CosmicScope, IsString, ScopeNamed, Scopes
  <2>7. CosmicUses(mock[i]) <=> CosmicUses(e)
    BY <2>5, <2>6 DEF CosmicUses
  <2> QED BY <2>2, <2>3, <2>7 DEF e
<1>2. DOMAIN mock = 1..n
  BY DEF MockRules
<1> HIDE DEF mock
<1>3. S2 = S /\ S \in SUBSET (1..n)
  BY <1>1, <1>2
<1>4. Usable(entries) = theirs /\ Usable(mock) = ours
  BY <1>3 DEF Usable
<1> HIDE DEF S, S2
<1>5. /\ c \in Nat /\ Len(theirs) = c /\ Len(ours) = c
      /\ DOMAIN theirs = 1..c /\ DOMAIN ours = 1..c
      /\ \A j \in 1..c : /\ Nth(S, j) \in 1..n
                         /\ theirs[j] = entries[Nth(S, j)] /\ ours[j] = mock[Nth(S, j)]
  BY <1>3, ChosenFrom
<1> HIDE DEF c, theirs, ours
<1>6. m \in Nat /\ m <= c
  <2>1. {c, MaxRules} \in SUBSET Nat
    BY <1>5, MatchRulesAssumption
  <2> QED BY <2>1, MinExists
<1> HIDE DEF m
<1>7. CosmicRules(entries) = [i \in 1..m |-> [theirs[i] EXCEPT !.scope = CosmicScope(theirs[i])]]
  BY <1>4, <1>5 DEF CosmicRules, m
<1>8. cut = [i \in 1..m |-> ours[i]]
  <2>1. \A i \in 1..m : ours[i] \in T
    OBVIOUS
  <2> HIDE DEF T
  <2>2. m \in Int /\ 1 \in Int
    BY <1>6
  <2>3. /\ cut \in Seq(T)
        /\ Len(cut) = IF 1 <= m THEN m - 1 + 1 ELSE 0
        /\ \A i \in 1..(m - 1 + 1) : cut[i] = ours[1 + i - 1]
    BY <2>1, <2>2, SubSeqProperties
  <2>4. Len(cut) = m
    BY <1>6, <2>3
  <2>5. \A i \in 1..m : cut[i] = ours[i]
    <3>1. \A i \in 1..m : i \in 1..(m - 1 + 1) /\ 1 + i - 1 = i
      BY <1>6
    <3> QED BY <2>3, <3>1
  <2>6. cut = [i \in 1..Len(cut) |-> cut[i]]
    BY <2>3
  <2> HIDE DEF cut
  <2> QED BY <2>4, <2>5, <2>6
<1>9. ASSUME NEW i \in 1..m
      PROVE  [theirs[i] EXCEPT !.scope = CosmicScope(theirs[i])] = ours[i]
  <2>1. i \in 1..c
    BY <1>5, <1>6
  <2> QED BY <1>1, <1>5, <2>1
<1>10. CosmicRules(entries) = cut
  BY <1>7, <1>8, <1>9
<1>11. m = Min({Len(ours), MaxRules})
  BY <1>5 DEF m
<1> QED BY <1>4, <1>10, <1>11 DEF mock

\* A client's call, once it has been let in, is in the record.
CallInv ==
  (client.step = "select" /\ client.at \in {"called", "waiting"})
    => \E i \in DOMAIN calls : calls[i] = client.request

LEMMA CallRecorded ==
  ASSUME TypeInv, TaskInv, HarnessInv, CallInv, [ExchangeNext]_exchangeVars
  PROVE  CallInv'
<1>0. client \in Client
  BY DEF HarnessInv
<1>1. CASE Outside
  <2>1. calls' = calls
    BY <1>1, OutsideStep DEF vars
  <2>2. \/ client' = client
        \/ client'.at \notin {"called", "waiting"}
        \/ /\ client.at = "called" /\ client'.step = client.step
           /\ client'.request = client.request
    <3>1. CASE TakeReturn
      BY <1>0, <3>1 DEF TakeReturn, ClientIs, Client
    <3>2. CASE \/ StartPortal \/ Kill \/ BeginWait \/ Count \/ CheckDeadline \/ Wake
               \/ DeadlinePasses \/ UNCHANGED exchangeVars
      BY <3>2 DEF StartPortal, Kill, BeginWait, Count, CheckDeadline, Wake, Waiter, DeadlinePasses,
                  exchangeVars, harnessVars
    <3>3. CASE Subscribe \/ LoseBus \/ Refused \/ HearClosed \/ TakeResponse
      BY <1>0, <3>3 DEF Subscribe, LoseBus, Refused, HearClosed, TakeResponse, After, Client
    <3> QED BY <1>1, <3>1, <3>2, <3>3 DEF Outside
  <2> QED BY <2>1, <2>2 DEF CallInv
<1>2. CASE Inside
  <2>1. UNCHANGED <<request, calls>>
    BY <1>2, RecordStays
  <2>2. client' = client
    BY <1>2 DEF Inside, EmitResponse, SilentTask, TestTriggers, harnessVars
  <2> QED BY <2>1, <2>2 DEF CallInv
<1>3. CASE RefusedCall
  <2>1. client'.at = "refused"
    BY <1>0, <1>3 DEF RefusedCall, Refused, Client
  <2> QED BY <2>1 DEF CallInv
<1>4. CASE \/ CallCreateSession
           \/ CallSelectSources /\ ~ Malformed
           \/ CallStart /\ Start(client.session) /\ Called
  <2>1. PICK fields \in Plain \cup Selection : Calls(fields)
    BY <1>4, CallStep
  <2>2. client'.step = client.step /\ client'.request = counter
    BY <1>0, <2>1 DEF Calls, Called, Client
  <2>3. client.step = "select" => calls' = Append(calls, counter)
    BY <2>1 DEF Calls
  <2>4. ASSUME calls' = Append(calls, counter)
        PROVE  \E i \in DOMAIN calls' : calls'[i] = counter
    <3>1. calls \in Seq(Requests)
      BY DEF TypeInv
    <3>2. Len(calls) + 1 \in DOMAIN Append(calls, counter)
      BY <3>1
    <3>3. Append(calls, counter)[Len(calls) + 1] = counter
      BY <3>1
    <3> QED BY <2>4, <3>2, <3>3
  <2> QED BY <2>2, <2>3, <2>4 DEF CallInv
<1> QED BY <1>1, <1>2, <1>3, <1>4, ExchangeSteps

\* A rule's policy comes out of the mock's parser as OBS sent it.
LEMMA PolicyRead ==
  ASSUME NEW action \in Known
  PROVE  ParseRestorePolicy(DefaultOnly(action)).default = action
BY DEF ParseRestorePolicy, DefaultOnly

LEMMA RecordFollows == EInv /\ CallInv => RecordedAsConfigured
<1> SUFFICES ASSUME EInv, CallInv, IsObs, client.step = "select", client.at = "waiting"
             PROVE  RecordedAsConfigured
  BY DEF RecordedAsConfigured
<1> DEFINE settings == setup.settings
           extended == setup.version >= ExtensionVersion
           rules    == ParseRestoreMatchRulesText(settings.aliases)
           sent     == SelectSourcesOptions(settings, setup.version)
           restoring == extended /\ settings.token # ""
<1>1. PICK i \in DOMAIN calls : calls[i] = client.request
  BY DEF CallInv
<1>2. Call(i) = ParsedCall
  <2>1. calls[i] \in Requests
    BY DEF EInv, TypeInv
  <2> QED BY <2>1 DEF EInv, RecordInv, Call
<1>3. ParsedCall = Parsed(sent)
  BY DEF ParsedCall, Options, OptionsOf, IsObs
<1>4. /\ settings.action \in Known /\ Absent # DefaultOnly(settings.action)
      /\ settings.aliases \in Seq(Seq(Pieces))
  BY SetupsAssumption DEF EInv, HarnessInv
<1>5. MockRules(rules) = rules
  BY <1>4, TypedRules
<1> HIDE DEF settings, rules
<1>6. /\ sent.label = OrAbsent(extended /\ settings.name # "", settings.name)
      /\ sent.policy = OrAbsent(restoring, DefaultOnly(settings.action))
      /\ sent.rules = OrAbsent(restoring /\ rules # <<>>, rules)
      /\ DOMAIN sent = {"token", "label", "policy", "rules"}
  BY DEF SelectSourcesOptions, rules
<1> HIDE DEF sent, extended
<1>7. /\ Call(i).label = sent.label /\ Call(i).policy = sent.policy
      /\ Call(i).rules = IF sent.rules = Absent THEN Absent ELSE MockRules(sent.rules)
  BY <1>2, <1>3, <1>6 DEF Parsed
<1>8. IF extended /\ settings.name # "" THEN AssertSourceLabel(i, settings.name)
      ELSE AssertNoSourceLabel(i)
  BY <1>6, <1>7 DEF OrAbsent, AssertSourceLabel, AssertNoSourceLabel
<1>9. IF extended /\ settings.token # "" THEN AssertRestoreDefaultAction(i, settings.action)
      ELSE AssertNoRestorePolicy(i)
  BY <1>4, <1>6, <1>7, PolicyRead DEF OrAbsent, AssertRestoreDefaultAction, AssertNoRestorePolicy
<1>10. IF extended /\ settings.token # "" /\ rules # <<>>
       THEN AssertRestoreMatchRules(i, rules) ELSE AssertNoRestoreMatchRules(i)
  BY <1>5, <1>6, <1>7 DEF OrAbsent, AssertRestoreMatchRules, AssertNoRestoreMatchRules
<1> QED BY <1>1, <1>8, <1>9, <1>10 DEF RecordedAsConfigured, settings, extended, rules

\* For any settings of OBS and any version: when SelectSources returns, the call is in the record, and
\* the handle's assertions find in it what the source is configured to send, typed aliases included.
THEOREM RecordIsAsConfigured == ExchangeSpec => []RecordedAsConfigured
<1>1. ExchangeInit => CallInv
  BY DEF ExchangeInit, CallInv
<1>2. EInv /\ CallInv /\ [ExchangeNext]_exchangeVars => CallInv'
  BY CallRecorded DEF EInv
<1> QED BY <1>1, <1>2, ExchangeInvariantHolds, RecordFollows, PTL DEF ExchangeSpec

LEMMA ArrayFollows == EInv => MockAndCosmicAgree
<1> SUFFICES ASSUME EInv, Options.rules # Absent, MockAccepts(Options.rules)
             PROVE  LET usable == Usable(MockRules(Options.rules))
                    IN  CosmicRules(Options.rules) = SubSeq(usable, 1, Min({Len(usable), MaxRules}))
  BY DEF MockAndCosmicAgree
<1> DEFINE entries == Options.rules
<1>1. setup \in Setups
  BY DEF EInv, HarnessInv
<1>2. /\ Len(entries) \in Nat /\ DOMAIN entries = 1..Len(entries)
      /\ \A i \in DOMAIN entries : DOMAIN entries[i] = {"kind", "pattern", "scope"}
  <2>1. CASE setup.own = Absent
    <3> DEFINE typed == ParseRestoreMatchRulesText(setup.settings.aliases)
    <3>1. setup.settings.aliases \in Seq(Seq(Pieces))
      BY <1>1, SetupsAssumption
    <3>2. /\ Len(typed) \in Nat /\ DOMAIN typed = 1..Len(typed)
          /\ \A j \in DOMAIN typed : DOMAIN typed[j] = {"kind", "pattern", "scope"}
      BY <3>1, TypedRules
    <3>3. entries = Absent \/ entries = typed
      BY <2>1 DEF Options, OptionsOf, SelectSourcesOptions, OrAbsent
    <3> HIDE DEF typed
    <3> QED BY <3>2, <3>3
  <2>2. CASE setup.own # Absent
    <3>1. entries \in Seq(Entry)
      BY <1>1, <2>2, SetupsAssumption DEF Options, OptionsOf
    <3>2. \A e \in Entry : DOMAIN e = {"kind", "pattern", "scope"}
      BY DEF Entry
    <3> QED BY <3>1, <3>2
  <2> QED BY <2>1, <2>2
<1> HIDE DEF entries
<1>3. MockAccepts(entries)
  BY DEF entries
<1>4. LET usable == Usable(MockRules(entries))
      IN  CosmicRules(entries) = SubSeq(usable, 1, Min({Len(usable), MaxRules}))
  BY <1>2, <1>3, ArrayAgrees
<1> QED BY <1>4 DEF entries

\* For any array, typed or a client's own, and any limit: what the mock records of it and what COSMIC
\* goes by are the same rules.
THEOREM ArrayReadAlike == ExchangeSpec => []MockAndCosmicAgree
BY ExchangeInvariantHolds, ArrayFollows, PTL

(***************************************************************************)
(* Aliases on their way from the text to the portal.                       *)
(***************************************************************************)
\* What trimming leaves of a line is part of it, and begins with no white space.
LEMMA TrimLeaves ==
  ASSUME NEW line \in Seq(Pieces)
  PROVE  LET left == Trim(line, WhiteSpace)
         IN  /\ left \in Seq(Pieces)
             /\ \A i \in DOMAIN left : \E k \in DOMAIN line : left[i] = line[k]
             /\ left # <<>> => left[1] \notin WhiteSpace
<1> DEFINE ink == {i \in DOMAIN line : line[i] \notin WhiteSpace}
<1>1. Trim(line, WhiteSpace) = IF ink = {} THEN <<>> ELSE SubSeq(line, Min(ink), Max(ink))
  BY DEF Trim
<1>2. ink \in SUBSET (1..Len(line)) /\ Len(line) \in Nat /\ ink \in SUBSET Nat
  OBVIOUS
<1>3. \A i \in ink : line[i] \notin WhiteSpace
  OBVIOUS
<1>4. CASE ink = {}
  BY <1>1, <1>4
<1>5. CASE ink # {}
  <2> HIDE DEF ink
  <2> DEFINE m == Min(ink)
             n == Max(ink)
             left == SubSeq(line, m, n)
  <2>1. m \in ink /\ n \in ink /\ m <= n
    BY <1>2, <1>5, MinExists, MaxExists
  <2>3. Trim(line, WhiteSpace) = left
    BY <1>1, <1>5
  <2>4. line[m] \notin WhiteSpace
    BY <1>3, <2>1
  <2> HIDE DEF m, n
  <2>2. m \in 1..Len(line) /\ n \in 1..Len(line) /\ m \in Int /\ n \in Int
    BY <1>2, <2>1
  <2>5. \A i \in m..n : i \in DOMAIN line /\ line[i] \in Pieces
    BY <1>2, <2>2
  <2>6. /\ left \in Seq(Pieces) /\ DOMAIN left = 1..(n - m + 1)
        /\ \A i \in 1..(n - m + 1) : left[i] = line[m + i - 1]
    <3>1. left \in Seq(Pieces) /\ Len(left) = n - m + 1
      BY <2>1, <2>2, <2>5, SubSeqProperties
    <3>2. \A i \in 1..(n - m + 1) : left[i] = line[m + i - 1]
      BY <2>1, <2>2, <2>5, SubSeqProperties
    <3> HIDE DEF left
    <3>3. DOMAIN left = 1..Len(left)
      BY <3>1
    <3> QED BY <3>1, <3>2, <3>3
  <2> HIDE DEF left
  <2>7. ASSUME NEW i \in DOMAIN left PROVE \E k \in DOMAIN line : left[i] = line[k]
    <3>1. m + i - 1 \in m..n /\ left[i] = line[m + i - 1]
      BY <2>2, <2>6
    <3> QED BY <2>5, <3>1
  <2>8. left[1] = line[m]
    <3>1. 1 \in 1..(n - m + 1) /\ m + 1 - 1 = m
      BY <2>1, <2>2
    <3> QED BY <2>6, <3>1
  <2> QED BY <2>3, <2>4, <2>6, <2>7, <2>8
<1> QED BY <1>4, <1>5

\* A text that begins with no white space is not trimmed away.
LEMMA InkStays ==
  ASSUME NEW text \in Seq(Pieces), text # <<>>, text[1] \notin WhiteSpace
  PROVE  Trim(text, WhiteSpace) # <<>>
<1> DEFINE ink == {i \in DOMAIN text : text[i] \notin WhiteSpace}
           m == Min(ink)
           n == Max(ink)
<1>1. 1 \in ink
  OBVIOUS
<1>2. ink \in SUBSET (1..Len(text)) /\ Len(text) \in Nat /\ ink \in SUBSET Nat
  OBVIOUS
<1>3. Trim(text, WhiteSpace) = SubSeq(text, m, n)
  BY <1>1 DEF Trim
<1> HIDE DEF ink
<1>4. m \in ink /\ n \in ink /\ m <= n
  BY <1>1, <1>2, MinExists, MaxExists
<1> HIDE DEF m, n
<1>5. m \in 1..Len(text) /\ n \in 1..Len(text) /\ m \in Int /\ n \in Int
  BY <1>2, <1>4
<1>6. \A i \in m..n : i \in DOMAIN text /\ text[i] \in Pieces
  BY <1>2, <1>5
<1>7. Len(SubSeq(text, m, n)) = n - m + 1
  BY <1>4, <1>5, <1>6, SubSeqProperties
<1> QED BY <1>3, <1>4, <1>5, <1>7

\* The mock reads the rule of a line, and COSMIC uses it as it is.
ReadAndUsed(rule) ==
  /\ MockReads(rule) /\ CosmicUses(rule)
  /\ [rule EXCEPT !.scope = CosmicScope(rule)] = rule

LEMMA TypedRuleUsed ==
  ASSUME NEW line \in Seq(Pieces), \A i \in DOMAIN line : line[i] \notin Broken,
         RuleOfLine(Trim(line, WhiteSpace), WhiteSpace) # Absent
  PROVE  ReadAndUsed(RuleOfLine(Trim(line, WhiteSpace), WhiteSpace))
<1> DEFINE left == Trim(line, WhiteSpace)
           prefixed == left # <<>> /\ left[1] \in DOMAIN ScopeOfPrefix
           pattern  == IF prefixed THEN Trim(Tail(left), WhiteSpace) ELSE left
           scope == IF prefixed THEN ScopeOfPrefix[left[1]] ELSE "same_app"
<1>1. /\ pattern # <<>>
      /\ RuleOfLine(left, WhiteSpace) = TitleRegex(pattern, scope)
  BY DEF RuleOfLine
<1>2. scope \in Scopes
  BY DEF ScopeOfPrefix, Scopes
<1>3. /\ left \in Seq(Pieces)
      /\ \A i \in DOMAIN left : \E k \in DOMAIN line : left[i] = line[k]
      /\ left # <<>> => left[1] \notin WhiteSpace
  BY TrimLeaves
<1> HIDE DEF left, scope
<1>4. \A i \in DOMAIN left : left[i] \notin Broken
  BY <1>3
<1>5. /\ pattern \in Seq(Pieces) /\ pattern[1] \notin WhiteSpace
      /\ \A i \in DOMAIN pattern : pattern[i] \notin Broken
  <2>1. CASE ~ prefixed
    BY <1>1, <1>3, <1>4, <2>1
  <2>2. CASE prefixed
    <3> DEFINE tail == Tail(left)
    <3>1. tail \in Seq(Pieces) /\ \A i \in DOMAIN tail : i + 1 \in DOMAIN left /\ tail[i] = left[i + 1]
      <4>1. /\ tail \in Seq(Pieces) /\ Len(tail) = Len(left) - 1
            /\ \A i \in 1..Len(tail) : tail[i] = left[i + 1]
        BY <1>3, <2>2, HeadTailProperties
      <4>2. \A i \in DOMAIN tail : i \in 1..Len(tail) /\ i + 1 \in DOMAIN left
        BY <1>3, <4>1
      <4> QED BY <4>1, <4>2
    <3>2. pattern = Trim(tail, WhiteSpace)
      BY <2>2
    <3> HIDE DEF tail, prefixed
    <3>3. /\ pattern \in Seq(Pieces)
          /\ \A i \in DOMAIN pattern : \E k \in DOMAIN tail : pattern[i] = tail[k]
          /\ pattern # <<>> => pattern[1] \notin WhiteSpace
      BY <3>1, <3>2, TrimLeaves
    <3> HIDE DEF pattern
    <3> QED BY <1>1, <1>4, <3>1, <3>3
  <2> QED BY <2>1, <2>2
<1> HIDE DEF pattern
<1> DEFINE rule == TitleRegex(pattern, scope)
<1>6. /\ rule.kind = "title_regex" /\ rule.pattern = pattern /\ rule.scope = scope
      /\ [rule EXCEPT !.scope = scope] = rule
  BY DEF TitleRegex
<1>7. IsString("title_regex") /\ IsString(pattern) /\ IsString(scope)
  BY <1>2, <1>5, MatchRulesAssumption DEF IsString, Scopes
<1>8. ScopeNamed(scope) = scope /\ scope # "unknown" /\ scope # NotString
  BY <1>2, <1>7 DEF ScopeNamed, Scopes, IsString
<1> HIDE DEF rule
<1>9. MockReads(rule)
  BY <1>6, <1>7, <1>8 DEF MockReads
<1>10. CosmicScope(rule) = scope
  BY <1>6, <1>7, <1>8 DEF CosmicScope
<1>11. Trim(pattern, WhiteSpace) # <<>>
  BY <1>1, <1>5, InkStays
<1>12. Compiles(pattern)
  BY <1>5 DEF Compiles
<1>13. CosmicUses(rule)
  BY <1>6, <1>7, <1>8, <1>10, <1>11, <1>12 DEF CosmicUses
<1>14. ReadAndUsed(rule)
  BY <1>6, <1>9, <1>10, <1>13 DEF ReadAndUsed
<1> QED BY <1>1, <1>14 DEF rule, left

\* Aliases reach the portal as they were typed: of a text of any length, without a broken pattern,
\* the mock accepts the rules, and COSMIC uses all of them as they are if there are no more than the
\* front end lets through, which is so for a text with no more lines than that.
THEOREM TypedRulesReachCosmic ==
  ASSUME NEW text \in Seq(Seq(Pieces)),
         \A i \in DOMAIN text : \A k \in DOMAIN text[i] : text[i][k] \notin Broken
  PROVE  LET rules == ParseRestoreMatchRulesText(text)
         IN  /\ MockAccepts(rules)
             /\ FrontEndAccepts(rules) => CosmicRules(rules) = rules
             /\ Len(text) <= MaxRules => FrontEndAccepts(rules)
<1> DEFINE found == [i \in DOMAIN text |-> RuleOfLine(Trim(text[i], WhiteSpace), WhiteSpace)]
           S     == {i \in DOMAIN found : found[i] # Absent}
           rules == Chosen(found, S)
           n     == Cardinality(S)
<1>1. S \in SUBSET (1..Len(text)) /\ Len(text) \in Nat
  OBVIOUS
<1>2. ASSUME NEW i \in S PROVE ReadAndUsed(found[i])
  <2>1. text[i] \in Seq(Pieces) /\ found[i] # Absent
    OBVIOUS
  <2> QED BY <2>1, TypedRuleUsed
<1>3. ParseRestoreMatchRulesText(text) = rules
  BY DEF ParseRestoreMatchRulesText, Present
<1> HIDE DEF found, S
<1>4. /\ n \in Nat /\ Len(rules) = n /\ DOMAIN rules = 1..n
      /\ \A j \in DOMAIN rules : Nth(S, j) \in S /\ rules[j] = found[Nth(S, j)]
  BY <1>1, ChosenFrom
<1>5. rules = [j \in 1..n |-> rules[j]]
  BY DEF Chosen
<1>6. n <= Len(text)
  <2>1. IsFiniteSet(1..Len(text)) /\ Cardinality(1..Len(text)) = Len(text)
    BY <1>1, UptoCount
  <2> QED BY <1>1, <2>1, FS_Subset
<1> HIDE DEF rules, n
<1>7. \A j \in 1..n : ReadAndUsed(rules[j])
  BY <1>2, <1>4
<1>8. MockAccepts(rules)
  BY <1>4, <1>7 DEF MockAccepts, ReadAndUsed
<1>9. ASSUME FrontEndAccepts(rules) PROVE CosmicRules(rules) = rules
  <2>1. n <= MaxRules /\ MaxRules \in Nat
    BY <1>4, <1>9, MatchRulesAssumption DEF FrontEndAccepts
  <2>2. {j \in DOMAIN rules : CosmicUses(rules[j])} = 1..n
    BY <1>4, <1>7 DEF ReadAndUsed
  <2>3. Usable(rules) = rules
    BY <1>4, <1>5, <2>2, ChosenWhole DEF Usable
  <2>4. Min({Len(rules), MaxRules}) = n
    BY <1>4, <2>1 DEF Min
  <2>5. CosmicRules(rules) = [j \in 1..n |-> [rules[j] EXCEPT !.scope = CosmicScope(rules[j])]]
    BY <2>3, <2>4 DEF CosmicRules
  <2>6. \A j \in 1..n : [rules[j] EXCEPT !.scope = CosmicScope(rules[j])] = rules[j]
    BY <1>7 DEF ReadAndUsed
  <2> QED BY <1>5, <2>5, <2>6
<1>10. Len(text) <= MaxRules => FrontEndAccepts(rules)
  BY <1>1, <1>4, <1>6, MatchRulesAssumption DEF FrontEndAccepts
<1> QED BY <1>3, <1>8, <1>9, <1>10

\* COSMIC's limit cuts off the last rules only: of any array it uses the first usable entries, in
\* their order, one for one and up to the limit; none that comes before a used one is passed over.
THEOREM CosmicUsesTheFirst ==
  ASSUME NEW n \in Nat, NEW entries, DOMAIN entries = 1..n
  PROVE  LET used == CosmicRules(entries)
             S == {i \in DOMAIN entries : CosmicUses(entries[i])}
             m == Min({Cardinality(S), MaxRules})
         IN  /\ m \in 0..MaxRules /\ DOMAIN used = 1..m
             /\ m < MaxRules => m = Cardinality(S)
             /\ \A j \in 1..m :
                  LET i == Nth(S, j)
                  IN  /\ i \in S
                      /\ used[j] = [entries[i] EXCEPT !.scope = CosmicScope(entries[i])]
                      /\ \A k \in S : k < i => \E l \in 1..(j - 1) : Nth(S, l) = k
<1> DEFINE S == {i \in DOMAIN entries : CosmicUses(entries[i])}
           c == Cardinality(S)
           m == Min({c, MaxRules})
           usable == Chosen(entries, S)
<1>1. S \in SUBSET (1..n)
  OBVIOUS
<1> HIDE DEF S
<1>2. /\ c \in Nat /\ Len(usable) = c
      /\ \A j \in 1..c : Nth(S, j) \in S /\ usable[j] = entries[Nth(S, j)]
  BY <1>1, ChosenFrom
<1>3. /\ \A k \in S : \E j \in 1..c : Nth(S, j) = k
      /\ \A i, j \in 1..c : i < j => Nth(S, i) < Nth(S, j)
  BY <1>1, ChosenKeepsOrder
<1>4. /\ m \in Nat /\ m <= c /\ m <= MaxRules /\ MaxRules \in Nat
      /\ m < MaxRules => m = c
  BY <1>2, MatchRulesAssumption DEF Min
<1>5. CosmicRules(entries) =
        [j \in 1..m |-> [usable[j] EXCEPT !.scope = CosmicScope(usable[j])]]
  BY <1>2 DEF CosmicRules, Usable, S
<1> HIDE DEF c, m, usable
<1>6. ASSUME NEW j \in 1..m
      PROVE  /\ Nth(S, j) \in S
             /\ CosmicRules(entries)[j] =
                  [entries[Nth(S, j)] EXCEPT !.scope = CosmicScope(entries[Nth(S, j)])]
             /\ \A k \in S : k < Nth(S, j) => \E l \in 1..(j - 1) : Nth(S, l) = k
  <2>1. j \in 1..c /\ c \in Nat /\ j \in Nat
    BY <1>2, <1>4
  <2>2. ASSUME NEW k \in S, k < Nth(S, j) PROVE \E l \in 1..(j - 1) : Nth(S, l) = k
    <3>1. PICK l \in 1..c : Nth(S, l) = k
      BY <1>3
    <3>2. k \in Nat /\ Nth(S, j) \in Nat
      <4>1. \A i \in S : i \in Nat
        BY <1>1
      <4> QED BY <1>2, <2>1, <2>2, <4>1
    <3>3. l # j
      BY <2>2, <3>1, <3>2
    <3>4. ~ (j < l)
      <4>1. ASSUME j < l PROVE Nth(S, j) < k
        BY <1>3, <2>1, <3>1, <4>1
      <4>2. ~ (Nth(S, j) < k)
        BY <2>2, <3>2
      <4> QED BY <4>1, <4>2
    <3>5. l \in 1..(j - 1)
      BY <2>1, <3>3, <3>4
    <3> QED BY <3>1, <3>5
  <2> QED BY <1>2, <1>5, <2>1, <2>2
<1>7. m \in 0..MaxRules /\ DOMAIN CosmicRules(entries) = 1..m /\ (m < MaxRules => m = c)
  BY <1>4, <1>5
<1>8. \A j \in 1..m : LET i == Nth(S, j)
                     IN  /\ i \in S
                         /\ CosmicRules(entries)[j] =
                              [entries[i] EXCEPT !.scope = CosmicScope(entries[i])]
                         /\ \A k \in S : k < i => \E l \in 1..(j - 1) : Nth(S, l) = k
  BY <1>6
<1>9. m = Min({Cardinality(S), MaxRules}) /\ c = Cardinality(S)
  BY DEF c, m
<1> HIDE DEF m
<1> QED BY <1>7, <1>8, <1>9 DEF S

(***************************************************************************)
(* Why a test's client is turned away.                                     *)
(***************************************************************************)
SomeFailed == \E r \in Requests : reply[r].policy

\* What a policy has failed stays failed, and only such a failure closes a session.
LEMMA FailureStays ==
  ASSUME TypeInv, TaskInv, [Next]_vars
  PROVE  /\ SomeFailed => SomeFailed'
         /\ closed' = closed \/ SomeFailed
<1>1. CASE Method
  BY <1>1 DEF Method, SomeFailed
<1>2. CASE Aside
  <2>1. closed' = closed
    BY <1>2 DEF Aside, UseController, RejectSelectSources
  <2> QED BY <1>2, <2>1, AsideStep DEF SomeFailed
<1>3. CASE UNCHANGED vars
  BY <1>3 DEF vars, SomeFailed
<1>4. ASSUME NEW r \in Requests,
             \/ Quiet(r) \/ SelectUnavailable(r) \/ SelectFails(r)
             \/ StartTask(r) \/ TakeReceiver(r)
      PROVE  /\ SomeFailed => SomeFailed'
             /\ closed' = closed \/ SomeFailed
  <2>1. task[r] \in Unanswered /\ \A q \in Requests : q # r => reply'[q] = reply[q]
    BY <1>4, QuietStep, SelectUnavailableStep, SelectFailsStep, StartTaskStep, TakeReceiverStep
    DEF Quietly, ByPolicy, Answers, Unanswered
  <2>2. ~ reply[r].policy
    BY <2>1 DEF TaskInv
  <2>3. closed' = closed
    BY <1>4 DEF Quiet, CreateTask, SelectSucceeds, SelectUnavailable, SelectFails, Selects,
                StartTask, ScenarioStarts, TakeReceiver, Rescued
  <2> QED BY <2>1, <2>2, <2>3 DEF SomeFailed
<1>5. ASSUME NEW r \in Requests, Fires(r)
      PROVE  /\ SomeFailed => SomeFailed'
             /\ closed' = closed \/ SomeFailed
  <2>1. reply' = reply
    BY <1>5, FireStep
  <2>2. closed' = closed \/ task[r] = "closing"
    BY <1>5 DEF Fires, FireResponse, MarkSessionClosed, FireSessionClosed
  <2>3. task[r] = "closing" => reply[r].policy
    BY DEF TaskInv
  <2> QED BY <2>1, <2>2, <2>3 DEF SomeFailed
<1> QED BY <1>1, <1>2, <1>3, <1>4, <1>5, Steps

\* A closed session, a client that waits for Closed and one that is refused have the same cause.
CauseInv ==
  /\ closed # {} => SomeFailed
  /\ client.at = "closing" => SomeFailed
  /\ client.at = "refused" => Malformed \/ SomeFailed

LEMMA CauseStep ==
  ASSUME TypeInv, TaskInv, HarnessInv, CauseInv, [ExchangeNext]_exchangeVars
  PROVE  CauseInv'
<1>0. client \in Client
  BY DEF HarnessInv
<1>1. (SomeFailed => SomeFailed') /\ (closed' = closed \/ SomeFailed)
  BY HarnessStep, FailureStays
<1>2. closed' # {} => SomeFailed'
  BY <1>1 DEF CauseInv
<1>3. CASE Outside
  <2>1. UNCHANGED <<request, reply, closed>> /\ setup' = setup
    BY <1>3, OutsideStep, RecordStays DEF vars
  <2>2. Malformed' = Malformed
    BY <2>1 DEF Malformed, Options
  <2>3. \/ client' = client
        \/ client'.at \notin {"closing", "refused"}
        \/ client'.at = "closing" /\ SomeFailed
        \/ client'.at = "refused" /\ SomeFailed
    <3>1. CASE \/ StartPortal \/ Kill \/ BeginWait \/ Count \/ CheckDeadline \/ Wake
               \/ DeadlinePasses \/ UNCHANGED exchangeVars
      BY <3>1 DEF StartPortal, Kill, BeginWait, Count, CheckDeadline, Wake, Waiter, DeadlinePasses,
                  exchangeVars, harnessVars
    <3>2. CASE Subscribe \/ TakeReturn \/ HearClosed \/ LoseBus
      BY <1>0, <3>2 DEF Subscribe, TakeReturn, LoseBus, HearClosed, After, Client
    <3>3. CASE TakeResponse
      <4>1. client.request \in Requests
        BY <3>3 DEF TakeResponse, Answered, ClientIs, HarnessInv
      <4>2. client'.at \in {"idle", "ended"} \/ (client'.at = "closing" /\ reply[client.request].policy)
        BY <1>0, <3>3 DEF TakeResponse, After, Client
      <4> QED BY <4>1, <4>2 DEF SomeFailed
    <3>4. CASE Refused /\ IsClosed(client.session)
      <4>1. client'.at = "refused"
        BY <1>0, <3>4 DEF Refused, Client
      <4> QED BY <3>4, <4>1 DEF IsClosed, CauseInv
    <3> QED BY <1>3, <3>1, <3>2, <3>3, <3>4 DEF Outside
  <2> QED BY <1>1, <1>2, <2>2, <2>3 DEF CauseInv
<1>4. CASE Inside
  <2>1. setup' = setup
    BY <1>4, RecordStays
  <2>2. Malformed' = Malformed
    BY <2>1 DEF Malformed, Options
  <2>3. client' = client
    BY <1>4 DEF Inside, EmitResponse, SilentTask, TestTriggers, harnessVars
  <2> QED BY <1>1, <1>2, <2>2, <2>3 DEF CauseInv
<1>5. CASE RefusedCall
  <2>1. setup' = setup
    BY <1>5, RecordStays
  <2>2. Malformed'
    BY <1>5, <2>1 DEF RefusedCall, Malformed, Options
  <2>3. client'.at = "refused"
    BY <1>0, <1>5 DEF RefusedCall, Refused, Client
  <2> QED BY <1>2, <2>2, <2>3 DEF CauseInv
<1>6. CASE \/ CallCreateSession
           \/ CallSelectSources /\ ~ Malformed
           \/ CallStart /\ Start(client.session) /\ Called
  <2>1. client'.at = "called"
    BY <1>0, <1>6, CallStep DEF Calls, Called, Client
  <2> QED BY <1>2, <2>1 DEF CauseInv
<1> QED BY <1>3, <1>4, <1>5, <1>6, ExchangeSteps

\* The scenario fails calls, and the client's asked for something else than the picker then.
AsksToFail ==
  /\ scenario.select # "ok" /\ ParsedCall.token # Absent
  /\ MockAction(IF ParsedCall.policy = Absent THEN DefaultPolicy ELSE ParsedCall.policy,
                scenario.reason) # Prompt

RefusalHasCause ==
  /\ client.at = "closing" => AsksToFail
  /\ client.at = "refused" => Malformed \/ AsksToFail

LEMMA CauseFollows == EInv /\ PolicyInv /\ CauseInv => RefusalHasCause
<1> SUFFICES ASSUME EInv, PolicyInv, CauseInv, SomeFailed PROVE AsksToFail
  BY DEF CauseInv, RefusalHasCause
<1>1. PICK r \in Requests : reply[r].policy
  BY DEF SomeFailed
<1>2. reply[r].code # Prompt /\ AsksFor(request[r].session, reply[r].code)
  BY <1>1 DEF PolicyInv
<1>3. PICK q \in Requests : /\ Tokened(q, request[r].session)
                            /\ MockAction(PolicyOf(q), scenario.reason) = reply[r].code
  BY <1>2 DEF AsksFor
<1>4. request[q] # NoRequest /\ request[q].kind = "select" /\ HadRestoreToken(q)
  BY <1>3 DEF Tokened, AcceptedIn
<1>5. request[q].call = ParsedCall
  BY <1>4 DEF EInv, RecordInv
<1> QED BY <1>2, <1>3, <1>4, <1>5 DEF AsksFor, HadRestoreToken, PolicyOf, AsksToFail

\* A client is made to wait for Closed only if it has itself asked for it: its call had a token, the
\* scenario fails such calls, and the policy of the call says skip or error for just that reason.  A
\* client is refused only then, or because its rules cannot be read.  So no test is turned away under
\* a scenario that never fails, nor without a token, nor under prompt, whatever the order of events.
THEOREM RefusalIsAskedFor == ExchangeSpec => []RefusalHasCause
<1>1. ExchangeInit => CauseInv
  BY DEF ExchangeInit, Init, CauseInv
<1>2. EInv /\ CauseInv /\ [ExchangeNext]_exchangeVars => CauseInv'
  BY CauseStep DEF EInv
<1>3. IInv => PolicyInv
  BY DEF IInv
<1> QED BY <1>1, <1>2, <1>3, ExchangeInvariantHolds, ExchangeRefinesPortal, MockInvariant,
           CauseFollows, PTL DEF ExchangeSpec
==============================================================================
