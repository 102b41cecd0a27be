------------------------ MODULE CosmicScreenCastProofs ------------------------
(***************************************************************************)
(* Theorems about the COSMIC backend, for any number of Starts, any window *)
(* lists, tokens, policies and any MAX_PENDING_RESCUES.                    *)
(***************************************************************************)
EXTENDS CosmicScreenCast, ToplevelMatchProofs, SharedProofs, FiniteSetTheorems

(***************************************************************************)
(* Types.                                                                  *)
(***************************************************************************)

\* What a restore of a saved token captures is a capture, with the saved modes.
LEMMA RestoredCaptureType ==
  ASSUME NEW c \in Calls, NEW infos \in Seq(Window),
         session[c].src \in Sources, Resolvable(c, infos)
  PROVE  /\ RestoredCapture(c, infos) \in Capture
         /\ Len(RestoredCapture(c, infos).windows) = Len(session[c].src.windows)
         /\ DOMAIN RestoredCapture(c, infos).modes = DOMAIN session[c].src.windows
         /\ \A i \in DOMAIN session[c].src.windows :
              RestoredCapture(c, infos).modes[i] = session[c].src.windows[i].mode
<1> DEFINE src   == session[c].src
           modes == [i \in DOMAIN src.windows |-> src.windows[i].mode]
           rules == [i \in DOMAIN src.windows |-> src.windows[i].rules]
<1>1. CapturedWindows(src, infos) \in Seq(Window)
  BY CapturedWindowsType DEF Resolvable
<1>2. Len(CapturedWindows(src, infos)) = Len(src.windows)
  BY CapturedWindowsType DEF Resolvable
<1>3. src.windows \in Seq(Saved) /\ src.outputs \in SUBSET OutputNames
  BY DEF Sources
<1>4. ASSUME NEW i \in DOMAIN src.windows
      PROVE  src.windows[i].mode \in Nat /\ src.windows[i].rules \in Seq(Rule)
  <2>1. src.windows[i] \in Saved
    BY <1>3
  <2> QED BY <2>1 DEF Saved
<1>5. modes \in Seq(Nat) /\ rules \in Seq(Seq(Rule))
  <2>1. Len(src.windows) \in Nat /\ DOMAIN src.windows = 1..Len(src.windows)
    BY <1>3
  <2>2. modes \in [1..Len(src.windows) -> Nat] /\ rules \in [1..Len(src.windows) -> Seq(Rule)]
    BY <1>4, <2>1
  <2>3. modes \in Seq(Nat)
    BY <2>1, <2>2, FunctionIsSequence
  <2>4. rules \in Seq(Seq(Rule))
    BY <2>1, <2>2, FunctionIsSequence
  <2> QED BY <2>3, <2>4
<1>6. RestoredCapture(c, infos)
        = [outputs |-> src.outputs, windows |-> CapturedWindows(src, infos),
           modes |-> modes, rules |-> rules]
  BY DEF RestoredCapture
<1>7. RestoredCapture(c, infos) \in Capture
  BY <1>1, <1>3, <1>5, <1>6 DEF Capture
<1> QED BY <1>2, <1>6, <1>7

\* The responses a Start can give.
LEMMA AnswerType ==
  ASSUME TypeOK, NEW c \in Calls, NEW token \in Sources \cup {NoToken},
         \/ Answer(c, "cancelled", FALSE, NoToken)
         \/ Answer(c, "other", TRUE, NoToken)
         \/ Answer(c, "other", FALSE, NoToken)
         \/ Answer(c, "success", FALSE, token)
  PROVE  answer' \in [Calls -> Response]
<1>1. /\ [code |-> "cancelled", failure |-> FALSE, token |-> NoToken] \in Response
      /\ [code |-> "other", failure |-> TRUE, token |-> NoToken] \in Response
      /\ [code |-> "other", failure |-> FALSE, token |-> NoToken] \in Response
      /\ [code |-> "success", failure |-> FALSE, token |-> token] \in Response
  BY DEF Response
<1>2. PICK r \in Response : answer' = [answer EXCEPT ![c] = r]
  BY <1>1 DEF Answer
<1>3. answer \in [Calls -> Response]
  BY DEF TypeOK
<1> QED BY <1>2, <1>3

\* TypeOK is inductive once a Start about to capture has its capture, and one that is about to be
\* rescued or failed has saved sources and a policy other than prompt.
ReadyInv ==
  \A c \in Calls :
    /\ pc[c] = "capturing" => capture[c] \in Capture
    /\ pc[c] \in {"checking", "registering", "waiting", "failing"} =>
         session[c].src # NoSource /\ session[c].action # Prompt
    /\ chan[c].state \in {"open", "sources", "consent"} => pc[c] \in {"waiting", "failing"}
    /\ chan[c].state = "sources" => chan[c].sources \in Capture

TypeInv == TypeOK /\ ReadyInv

\* The types hold at the start.
LEMMA InitType == Init => TypeInv
<1> SUFFICES ASSUME Init PROVE TypeInv
  OBVIOUS
<1>1. TypeOK
  <2>1. /\ Unanswered \in Response
        /\ NoMessage \in Message
        /\ [src |-> NoSource, action |-> Prompt, rules |-> <<>>] \in SessionData
    BY DEF Unanswered, NoMessage, Response, Message, SessionData, Known, Prompt
  <2> QED BY <2>1 DEF Init, TypeOK, Places
<1>2. ReadyInv
  BY DEF Init, ReadyInv, NoMessage
<1> QED BY <1>1, <1>2 DEF TypeInv

\* Every step keeps the types, and what a Start needs before it captures, waits or fails.
LEMMA StepType == TypeInv /\ [Next]_vars => TypeInv'
<1> SUFFICES ASSUME TypeInv, [Next]_vars PROVE TypeInv'
  OBVIOUS
<1> USE CosmicAssumption DEF TypeInv
<1>1. ASSUME NEW c \in Calls, SelectSources(c) PROVE TypeInv'
  <2>1. PICK restore \in Tokens \cup {NoSource}, policy \in Policies, ext \in ExtRules :
          session' = [session EXCEPT ![c] =
            [src    |-> IF restore = NoSource THEN session[c].src ELSE restore,
             action |-> CosmicAction(policy, "source_unavailable"),
             rules  |-> ext]]
    BY <1>1 DEF SelectSources
  <2>2. CosmicAction(policy, "source_unavailable") \in Known
    BY ResolversAgreeOnTheWire DEF Reasons
  <2>3. session' \in [Calls -> SessionData]
    BY <2>1, <2>2 DEF TypeOK, SessionData
  <2>4. TypeOK'
    BY <1>1, <2>3 DEF SelectSources, TypeOK, waylandVars
  <2>5. ReadyInv'
    BY <1>1, <2>1 DEF SelectSources, TypeOK, ReadyInv
  <2> QED BY <2>4, <2>5
<1>2. ASSUME NEW c \in Calls, RefuseSources(c) PROVE TypeInv'
  <2>1. pc' \in [Calls -> Places] /\ answer' \in [Calls -> Response]
    BY <1>2 DEF RefuseSources, TypeOK, Places, Response
  <2>2. TypeOK'
    BY <1>2, <2>1 DEF RefuseSources, TypeOK, waylandVars
  <2>3. ReadyInv'
    BY <1>2 DEF RefuseSources, TypeOK, ReadyInv
  <2> QED BY <2>2, <2>3
<1>3. ASSUME NEW c \in Calls, Begin(c) PROVE TypeInv'
  BY <1>3 DEF Begin, TypeOK, ReadyInv, Places, waylandVars, startVars
<1>4. ASSUME NEW c \in Calls, Restore(c) PROVE TypeInv'
  <2>1. session[c].src # NoSource /\ Resolvable(c, toplevels) =>
          RestoredCapture(c, toplevels) \in Capture
    BY RestoredCaptureType DEF TypeOK, SessionData
  <2>2. pc' \in [Calls -> Places]
    BY <1>4 DEF Restore, GoAsk, GoCapture, TypeOK, Places
  <2>3. capture' \in [Calls -> Capture \cup {NoCapture}]
    BY <1>4, <2>1 DEF Restore, GoAsk, GoCapture, TypeOK
  <2>4. asked' \in [Calls -> BOOLEAN]
    BY <1>4 DEF Restore, GoAsk, GoCapture, TypeOK
  <2>5. TypeOK'
    BY <1>4, <2>2, <2>3, <2>4 DEF Restore, TypeOK, waylandVars
  <2>6. ReadyInv'
    BY <1>4, <2>1 DEF Restore, GoAsk, GoCapture, TypeOK, ReadyInv
  <2> QED BY <2>5, <2>6
<1>5. ASSUME NEW c \in Calls, Check(c) PROVE TypeInv'
  <2>1. Resolvable(c, toplevels) => RestoredCapture(c, toplevels) \in Capture
    BY <1>5, RestoredCaptureType DEF Check, TypeOK, ReadyInv, SessionData
  <2>2. pc' \in [Calls -> Places]
    BY <1>5 DEF Check, GoAsk, GoCapture, TypeOK, Places
  <2>3. capture' \in [Calls -> Capture \cup {NoCapture}]
    BY <1>5, <2>1 DEF Check, GoAsk, GoCapture, TypeOK
  <2>4. asked' \in [Calls -> BOOLEAN]
    BY <1>5 DEF Check, GoAsk, GoCapture, TypeOK
  <2>5. TypeOK'
    BY <1>5, <2>2, <2>3, <2>4 DEF Check, HoldToplevels, TypeOK, waylandVars
  <2>6. ReadyInv'
    BY <1>5, <2>1 DEF Check, GoAsk, GoCapture, HoldToplevels, TypeOK, ReadyInv
  <2> QED BY <2>5, <2>6
<1>6. ASSUME NEW c \in Calls, Register(c) PROVE TypeInv'
  <2>1. pc' \in [Calls -> Places]
    <3>1. pc' = [pc EXCEPT ![c] = "failing"] \/ pc' = [pc EXCEPT ![c] = "waiting"]
      BY <1>6 DEF Register
    <3> QED BY <3>1 DEF TypeOK, Places
  <2>2. chan' \in [Calls -> Message]
    <3>1. chan \in [Calls -> Message]
      BY DEF TypeOK
    <3>2. [state |-> "open", sources |-> NoCapture] \in Message
      BY DEF Message
    <3>3. UNCHANGED chan \/ chan' = [chan EXCEPT ![c] = [state |-> "open", sources |-> NoCapture]]
      BY <1>6 DEF Register
    <3> QED BY <3>1, <3>2, <3>3
  <2>3. pending' \subseteq Calls
    BY <1>6 DEF Register, TypeOK
  <2>4. TypeOK'
    BY <1>6, <2>1, <2>2, <2>3 DEF Register, TypeOK, waylandVars, startVars
  <2>5. ReadyInv'
    BY <1>6 DEF Register, TypeOK, ReadyInv, startVars
  <2> QED BY <2>4, <2>5
<1>7. ASSUME NEW c \in Calls, Receive(c) PROVE TypeInv'
  <2>1. /\ pc' \in [Calls -> Places] /\ asked' \in [Calls -> BOOLEAN]
        /\ capture' \in [Calls -> Capture \cup {NoCapture}]
    BY <1>7 DEF Receive, GoAsk, GoCapture, TypeOK, ReadyInv, Places
  <2>2. chan' \in [Calls -> Message]
    BY <1>7 DEF Receive, Dropped, TypeOK, Message
  <2>3. TypeOK'
    BY <1>7, <2>1, <2>2 DEF Receive, TypeOK, waylandVars
  <2>4. ReadyInv'
    BY <1>7 DEF Receive, GoAsk, GoCapture, Dropped, TypeOK, ReadyInv
  <2> QED BY <2>3, <2>4
<1>8. ASSUME NEW c \in Calls, Timeout(c) PROVE TypeInv'
  BY <1>8 DEF Timeout, TypeOK, ReadyInv, Places, waylandVars, startVars
<1>9. ASSUME NEW c \in Calls, Fail(c) PROVE TypeInv'
  <2>1. pc' \in [Calls -> Places]
    BY <1>9 DEF Fail, Answer, TypeOK, Places
  <2>2. answer' \in [Calls -> Response]
    BY <1>9, AnswerType DEF Fail
  <2>3. chan' \in [Calls -> Message]
    BY <1>9 DEF Fail, Dropped, TypeOK, Message
  <2>4. TypeOK'
    BY <1>9, <2>1, <2>2, <2>3 DEF Fail, TypeOK, waylandVars
  <2>5. ReadyInv'
    BY <1>9 DEF Fail, Answer, Dropped, TypeOK, ReadyInv
  <2> QED BY <2>4, <2>5
<1>10. ASSUME NEW c \in Calls, Pick(c) PROVE TypeInv'
  <2>1. capture' \in [Calls -> Capture \cup {NoCapture}]
        /\ (pc'[c] = "capturing" => capture'[c] \in Capture)
    <3>1. \A i \in DOMAIN toplevels : toplevels[i] \in Window
      BY DEF TypeOK
    <3>2. \/ capture' = capture /\ pc'[c] = "done"
          \/ \E i \in DOMAIN toplevels, m \in PickModes, r \in PickRules :
               capture' = [capture EXCEPT ![c] = [outputs |-> {}, windows |-> <<toplevels[i]>>,
                                                  modes |-> <<m>>, rules |-> <<r>>]]
          \/ \E o \in outputs :
               capture' = [capture EXCEPT ![c] =
                 [outputs |-> {o}, windows |-> <<>>, modes |-> <<>>, rules |-> <<>>]]
      BY <1>10 DEF Pick, Answer, TypeOK
    <3>3. \/ capture' = capture /\ pc'[c] = "done"
          \/ \E cap \in Capture : capture' = [capture EXCEPT ![c] = cap]
      <4>1. ASSUME NEW i \in DOMAIN toplevels, NEW m \in PickModes, NEW r \in PickRules
            PROVE  [outputs |-> {}, windows |-> <<toplevels[i]>>,
                    modes |-> <<m>>, rules |-> <<r>>] \in Capture
        BY <3>1 DEF Capture
      <4>2. ASSUME NEW o \in outputs
            PROVE  [outputs |-> {o}, windows |-> <<>>, modes |-> <<>>, rules |-> <<>>] \in Capture
        BY DEF Capture, TypeOK
      <4> QED BY <3>2, <4>1, <4>2
    <3> QED BY <3>3 DEF TypeOK
  <2>2. pc' \in [Calls -> Places]
    BY <1>10 DEF Pick, Answer, TypeOK, Places
  <2>3. answer' \in [Calls -> Response]
    BY <1>10, AnswerType DEF Pick, TypeOK
  <2>4. TypeOK'
    BY <1>10, <2>1, <2>2, <2>3 DEF Pick, TypeOK, waylandVars
  <2>5. ReadyInv'
    BY <1>10, <2>1 DEF Pick, Answer, TypeOK, ReadyInv
  <2> QED BY <2>4, <2>5
<1>11. ASSUME NEW c \in Calls, Finish(c) PROVE TypeInv'
  <2>1. pc' \in [Calls -> Places]
    BY <1>11 DEF Finish, Answer, TypeOK, Places
  <2> DEFINE token == TokenFor(capture[c], session[c].src, session[c].rules, toplevels, outputs)
  <2>2. token \in Sources \cup {NoToken}
    <3>1. capture[c] \in Capture /\ toplevels \in Seq(Window)
      BY <1>11 DEF Finish, TypeOK, ReadyInv
    <3>2. session[c] \in SessionData
      BY DEF TypeOK
    <3>3. session[c].src \in Tokens \cup {NoSource} /\ session[c].rules \in ExtRules \cup {<<>>}
      BY <3>2 DEF SessionData
    <3>4. session[c].src \in Sources \cup {NoSource}
      BY <3>3
    <3>5. session[c].rules \in Seq(Rule)
      <4>1. <<>> \in Seq(Rule) /\ ExtRules \subseteq Seq(Rule)
        OBVIOUS
      <4> QED BY <3>3, <4>1, Zenon
    <3> QED BY <3>1, <3>4, <3>5, TokenForCapture
  <2>3. answer' \in [Calls -> Response]
    <3> HIDE DEF token
    <3>1. Answer(c, "success", FALSE, token) \/ Answer(c, "other", FALSE, NoToken)
      BY <1>11 DEF Finish, token
    <3> QED BY <2>2, <3>1, AnswerType
  <2>4. TypeOK'
    BY <1>11, <2>1, <2>3 DEF Finish, TypeOK, waylandVars
  <2>5. ReadyInv'
    BY <1>11 DEF Finish, Answer, TypeOK, ReadyInv
  <2> QED BY <2>4, <2>5
<1>12. ASSUME NEW c \in Calls, Cancel(c) PROVE TypeInv'
  <2>1. pc' \in [Calls -> Places] /\ chan' \in [Calls -> Message]
    BY <1>12 DEF Cancel, Dropped, TypeOK, Places, Message
  <2>2. TypeOK'
    BY <1>12, <2>1 DEF Cancel, TypeOK, waylandVars, startVars
  <2>3. ReadyInv'
    BY <1>12 DEF Cancel, Dropped, TypeOK, ReadyInv, startVars
  <2> QED BY <2>2, <2>3
<1>13. ASSUME NEW c \in Calls, DrainOne(c) PROVE TypeInv'
  <2>1. IsOpen(c) /\ Resolvable(c, snapshot) => RestoredCapture(c, snapshot) \in Capture
    BY RestoredCaptureType DEF IsOpen, TypeOK, ReadyInv, SessionData
  <2>2. chan' \in [Calls -> Message]
    <3>1. chan \in [Calls -> Message]
      BY DEF TypeOK
    <3>2. PICK message \in Message : UNCHANGED chan \/ chan' = [chan EXCEPT ![c] = message]
      <4> DEFINE sent    == [state |-> "sources", sources |-> RestoredCapture(c, snapshot)]
                 consent == [state |-> "consent", sources |-> NoCapture]
      <4>1. consent \in Message
        BY DEF Message
      <4>2. CASE IsOpen(c) /\ Resolvable(c, snapshot)
        <5>1. sent \in Message
          BY <2>1, <4>2 DEF Message
        <5>2. chan' = [chan EXCEPT ![c] = sent]
          BY <1>13, <4>2 DEF DrainOne, Send
        <5> QED BY <5>1, <5>2
      <4>3. CASE ~ (IsOpen(c) /\ Resolvable(c, snapshot))
        <5>1. UNCHANGED chan \/ chan' = [chan EXCEPT ![c] = consent]
          BY <1>13, <4>3 DEF DrainOne, Send
        <5> QED BY <4>1, <5>1
      <4> QED BY <4>2, <4>3
    <3> QED BY <3>1, <3>2
  <2>3. pending' \subseteq Calls /\ draining' \subseteq Calls
    BY <1>13 DEF DrainOne, KeepWaiting, TypeOK
  <2>4. TypeOK'
    BY <1>13, <2>2, <2>3 DEF DrainOne, TypeOK, startVars
  <2>5. ReadyInv'
    BY <1>13, <2>1 DEF DrainOne, IsOpen, Send, TypeOK, ReadyInv, startVars
  <2> QED BY <2>4, <2>5
<1>14. CASE UpdateToplevels
  BY <1>14 DEF UpdateToplevels, TypeOK, ReadyInv, startVars
<1>15. CASE TakeSnapshot
  BY <1>15 DEF TakeSnapshot, TypeOK, ReadyInv, startVars
<1>16. CASE BeginDrain
  BY <1>16 DEF BeginDrain, TypeOK, ReadyInv, startVars
<1>17. CASE EndDrain
  BY <1>17 DEF EndDrain, TypeOK, ReadyInv, startVars
<1>18. CASE OutputsChange
  BY <1>18 DEF OutputsChange, TypeOK, ReadyInv, waylandVars, startVars
<1>19. CASE UNCHANGED vars
  BY <1>19 DEF vars, TypeOK, ReadyInv
<1> QED BY <1>1, <1>2, <1>3, <1>4, <1>5, <1>6, <1>7, <1>8, <1>9, <1>10, <1>11, <1>12, <1>13,
           <1>14, <1>15, <1>16, <1>17, <1>18, <1>19 DEF Next

\* Every variable keeps its type: in particular whatever is captured is a capture, its windows,
\* modes and rules of the right kind, and every token handed out decodes again as saved sources.
THEOREM TypeCorrect == Spec => []TypeOK
<1>1. TypeInv => TypeOK
  BY DEF TypeInv
<1> QED BY <1>1, InitType, StepType, PTL DEF Spec

(***************************************************************************)
(* The rescue protocol: no waiting Start is lost.  The invariant that      *)
(* carries it says what the lock protects (a Start that registers has      *)
(* found its token stuck on the list as it is) and how far the Wayland     *)
(* thread has come (its snapshot is the list; an entry it has pushed back  *)
(* is stuck on it; an entry still to be looked at is in draining).         *)
(***************************************************************************)

\* Neither restorable nor in need of consent, whatever outputs are connected.
Stuck(src, infos) ==
  src.outputs = {} =>
    /\ \E i \in DOMAIN src.windows : ResolveToplevel(src.windows[i], infos).kind # "auto"
    /\ ~ NeedsConsentWith(src, infos)

LockInv == \A c \in Calls : toplevelsLock = c <=> pc[c] = "registering"

WaylandInv ==
  /\ wl # "draining" => draining = {}
  /\ wl \in {"snapped", "draining"} => snapshot = toplevels

CheckedInv == \A c \in Calls : pc[c] = "registering" => Stuck(session[c].src, toplevels)

RescueInv ==
  \A c \in Calls :
    (pc[c] = "waiting" /\ chan[c].state = "open") =>
      /\ c \in pending \cup draining
      /\ wl = "idle" => Stuck(session[c].src, toplevels)
      /\ wl = "draining" /\ c \in pending => Stuck(session[c].src, toplevels)

ProtocolInv == LockInv /\ WaylandInv /\ CheckedInv /\ RescueInv

\* A token that neither resolves nor needs consent over a list, and names no output, is stuck on it.
LEMMA StuckWhenUnresolvable ==
  ASSUME NEW c \in Calls, NEW infos, ~ Resolvable(c, infos), ~ Consentable(c, infos)
  PROVE  Stuck(session[c].src, infos)
BY DEF Resolvable, Consentable, Stuck, ResolvesTo

\* The protocol between Starts and the Wayland thread holds at the start.
LEMMA InitProtocol == Init => ProtocolInv
BY CosmicAssumption DEF Init, ProtocolInv, LockInv, WaylandInv, CheckedInv, RescueInv

\* Every step of a Start, of the Wayland thread or of the outputs keeps the protocol.
LEMMA StepProtocol == TypeInv /\ ProtocolInv /\ [Next]_vars => ProtocolInv'
<1> SUFFICES ASSUME TypeInv, ProtocolInv, [Next]_vars PROVE ProtocolInv'
  OBVIOUS
<1> USE CosmicAssumption
    DEF TypeInv, TypeOK, ProtocolInv, LockInv, WaylandInv, CheckedInv, RescueInv,
        waylandVars, startVars
<1>1. ASSUME NEW c \in Calls, SelectSources(c) PROVE ProtocolInv'
  <2>1. pc[c] = "idle" /\ UNCHANGED pc /\ \A d \in Calls \ {c} : session'[d] = session[d]
    BY <1>1 DEF SelectSources
  <2> QED BY <1>1, <2>1 DEF SelectSources
<1>2. ASSUME NEW c \in Calls, RefuseSources(c) PROVE ProtocolInv'
  BY <1>2 DEF RefuseSources
<1>3. ASSUME NEW c \in Calls, Begin(c) PROVE ProtocolInv'
  BY <1>3 DEF Begin
<1>4. ASSUME NEW c \in Calls, Restore(c) PROVE ProtocolInv'
  BY <1>4 DEF Restore, GoAsk, GoCapture
<1>5. ASSUME NEW c \in Calls, Check(c) PROVE ProtocolInv'
  BY <1>5, StuckWhenUnresolvable DEF Check, GoAsk, GoCapture, HoldToplevels
<1>6. ASSUME NEW c \in Calls, Register(c) PROVE ProtocolInv'
  <2>1. LockInv' /\ WaylandInv' /\ CheckedInv'
    BY <1>6 DEF Register
  <2>2. ASSUME NEW d \in Calls, pc'[d] = "waiting", chan'[d].state = "open"
        PROVE  Stuck(session[d].src, toplevels) \/ wl # "idle"
    BY <1>6, <2>2 DEF Register, IsOpen
  <2>3. ASSUME NEW d \in Calls, pc'[d] = "waiting", chan'[d].state = "open"
        PROVE  d \in pending'
    BY <1>6, <2>3 DEF Register, IsOpen
  <2> QED BY <1>6, <2>1, <2>2, <2>3 DEF Register
<1>7. ASSUME NEW c \in Calls, Receive(c) PROVE ProtocolInv'
  BY <1>7 DEF Receive, GoAsk, GoCapture, Dropped
<1>8. ASSUME NEW c \in Calls, Timeout(c) PROVE ProtocolInv'
  BY <1>8 DEF Timeout
<1>9. ASSUME NEW c \in Calls, Fail(c) PROVE ProtocolInv'
  BY <1>9 DEF Fail, Answer, Dropped
<1>10. ASSUME NEW c \in Calls, Pick(c) PROVE ProtocolInv'
  BY <1>10 DEF Pick, Answer
<1>11. ASSUME NEW c \in Calls, Finish(c) PROVE ProtocolInv'
  BY <1>11 DEF Finish, Answer
<1>12. ASSUME NEW c \in Calls, Cancel(c) PROVE ProtocolInv'
  BY <1>12 DEF Cancel, Dropped
<1>13. ASSUME NEW c \in Calls, DrainOne(c) PROVE ProtocolInv'
  <2>1. LockInv' /\ WaylandInv' /\ CheckedInv'
    BY <1>13 DEF DrainOne, MayDrain
  <2>2. ASSUME NEW d \in Calls, pc'[d] = "waiting", chan'[d].state = "open", d # c
        PROVE  /\ d \in pending' \cup draining'
               /\ wl' = "draining" /\ d \in pending' => Stuck(session'[d].src, toplevels')
    BY <1>13, <2>2 DEF DrainOne, Send, KeepWaiting
  <2>3. ASSUME pc'[c] = "waiting", chan'[c].state = "open"
        PROVE  c \in pending' /\ Stuck(session'[c].src, toplevels')
    <3>1. IsOpen(c) /\ ~ Resolvable(c, snapshot) /\ ~ Consentable(c, snapshot) /\ KeepWaiting(c)
      BY <1>13, <2>3 DEF DrainOne, Send, IsOpen
    <3>2. Stuck(session[c].src, snapshot)
      BY <3>1, StuckWhenUnresolvable
    <3> QED BY <1>13, <3>1, <3>2 DEF DrainOne, MayDrain, KeepWaiting
  <2>4. wl' = "draining"
    BY <1>13 DEF DrainOne, MayDrain
  <2> QED BY <2>1, <2>2, <2>3, <2>4
<1>14. CASE UpdateToplevels
  <2>1. \A c \in Calls : pc[c] # "registering"
    BY <1>14 DEF UpdateToplevels
  <2> QED BY <1>14, <2>1 DEF UpdateToplevels
<1>15. CASE TakeSnapshot
  BY <1>15 DEF TakeSnapshot
<1>16. CASE BeginDrain
  BY <1>16 DEF BeginDrain
<1>17. CASE EndDrain
  BY <1>17 DEF EndDrain
<1>18. CASE OutputsChange
  BY <1>18 DEF OutputsChange
<1>19. CASE UNCHANGED vars
  BY <1>19 DEF vars
<1> QED BY <1>1, <1>2, <1>3, <1>4, <1>5, <1>6, <1>7, <1>8, <1>9, <1>10, <1>11, <1>12, <1>13,
           <1>14, <1>15, <1>16, <1>17, <1>18, <1>19 DEF Next

\* The protocol holds in every state that the portal reaches.
LEMMA ProtocolCorrect == Spec => [](TypeInv /\ ProtocolInv)
BY InitType, StepType, InitProtocol, StepProtocol, PTL DEF Spec

\* A waiting Start with an empty channel has its entry in pending_rescues or in the drain.
THEOREM WaitersRegistered == Spec => []WaiterIsRegistered
<1>1. ProtocolInv => WaiterIsRegistered
  BY DEF ProtocolInv, RescueInv, WaiterIsRegistered, Waiters, IsOpen
<1> QED BY <1>1, ProtocolCorrect, PTL

\* No lost wake-up, for any number of Starts: between two updates of the window list nobody waits
\* for windows that are there.
THEOREM RescueNeverLost == Spec => []NoLostRescue
<1>1. ProtocolInv => NoLostRescue
  BY DEF ProtocolInv, RescueInv, NoLostRescue, Waiters, IsOpen, Stuck, Resolvable, Consentable,
         ResolvesTo
<1> QED BY <1>1, ProtocolCorrect, PTL

(***************************************************************************)
(* The limit on pending rescues.  An entry moves between the vector and    *)
(* the drain, so it is their union that is bounded.                        *)
(***************************************************************************)
Held == pending \cup draining

LimitInv == IsFiniteSet(Held) /\ Cardinality(Held) <= MaxPending

\* Every step keeps the limit: only Register adds to the entries held, and it counts them first.
LEMMA StepLimit ==
  ASSUME TypeInv, ProtocolInv, LimitInv, [Next]_vars
  PROVE  LimitInv'
<1>1. CASE Held' \subseteq Held
  BY <1>1, FS_Subset, FS_CardinalityType, CosmicAssumption DEF LimitInv
<1>2. ASSUME NEW c \in Calls, Register(c) PROVE LimitInv'
  <2> DEFINE live == {p \in pending : IsOpen(p)}
  <2>1. draining = {} /\ draining' = {}
    BY <1>2 DEF Register, ProtocolInv, WaylandInv, waylandVars
  <2>2. live \subseteq Held /\ IsFiniteSet(live)
    BY FS_Subset DEF Held, LimitInv
  <2>3. CASE IsFull(live)
    <3>1. pending' = live
      BY <1>2, <2>3 DEF Register
    <3> QED BY <1>1, <2>1, <2>2, <3>1 DEF Held
  <2>4. CASE ~ IsFull(live)
    <3>1. Held' = live \cup {c}
      BY <1>2, <2>1, <2>4 DEF Register, Held
    <3>2. Cardinality(live) < MaxPending /\ Cardinality(live) \in Nat
      BY <2>2, <2>4, FS_CardinalityType, CosmicAssumption DEF IsFull
    <3> HIDE DEF live
    <3>3. IsFiniteSet(live \cup {c})
      BY <2>2, FS_AddElement
    <3>4. Cardinality(live \cup {c}) <= Cardinality(live) + 1
      BY <2>2, <3>2, FS_AddElement
    <3>5. Cardinality(live \cup {c}) \in Nat
      BY <3>3, FS_CardinalityType
    <3> QED BY <3>1, <3>2, <3>3, <3>4, <3>5, CosmicAssumption DEF LimitInv
  <2> QED BY <2>3, <2>4
<1>3. ASSUME NEW c \in Calls, DrainOne(c) PROVE LimitInv'
  <2>1. Held' \subseteq Held
    BY <1>3 DEF DrainOne, KeepWaiting, Held
  <2> QED BY <1>1, <2>1
<1>4. CASE BeginDrain
  <2>1. Held' \subseteq Held
    BY <1>4 DEF BeginDrain, Held
  <2> QED BY <1>1, <2>1
<1>5. CASE UNCHANGED <<pending, draining>>
  <2>1. Held' = Held
    BY <1>5 DEF Held
  <2> QED BY <1>1, <2>1
<1>6. ASSUME NEW c \in Calls,
             \/ SelectSources(c) \/ RefuseSources(c) \/ Begin(c) \/ Restore(c) \/ Check(c)
             \/ Receive(c) \/ Timeout(c) \/ Fail(c) \/ Pick(c) \/ Finish(c) \/ Cancel(c)
      PROVE  UNCHANGED <<pending, draining>>
  BY <1>6 DEF SelectSources, RefuseSources, Begin, Restore, Check, Receive, Timeout, Fail, Pick,
              Finish, Cancel, waylandVars
<1>7. UpdateToplevels \/ TakeSnapshot \/ EndDrain \/ OutputsChange \/ UNCHANGED vars
        => UNCHANGED <<pending, draining>>
  BY DEF UpdateToplevels, TakeSnapshot, EndDrain, OutputsChange, waylandVars, vars
<1> QED BY <1>2, <1>3, <1>4, <1>5, <1>6, <1>7 DEF Next

\* The vector, and with it the drain, holds at most MAX_PENDING_RESCUES entries, whatever the
\* order of registrations, timeouts and drains.
THEOREM PendingNeverOverflows == Spec => []PendingBounded
<1>1. Init => LimitInv
  BY FS_EmptySet, CosmicAssumption DEF Init, LimitInv, Held
<1>2. TypeInv /\ ProtocolInv /\ LimitInv /\ [Next]_vars => LimitInv'
  BY StepLimit
<1>3. LimitInv => PendingBounded
  BY DEF LimitInv, Held, PendingBounded
<1> QED BY <1>1, <1>2, <1>3, ProtocolCorrect, PTL DEF Spec

(***************************************************************************)
(* What is captured unattended.                                            *)
(***************************************************************************)


\* A capture that stands for saved sources: window by window the saved window or one of its
\* application, in the saved mode.
StandsFor(cap, src) ==
  /\ Len(cap.windows) = Len(src.windows)
  /\ \A i \in DOMAIN cap.windows :
       \/ cap.windows[i].id = src.windows[i].id
       \/ src.windows[i].app # NoAppId /\ cap.windows[i].app = src.windows[i].app
  /\ DOMAIN cap.windows \subseteq DOMAIN cap.modes
  /\ \A i \in DOMAIN cap.windows : cap.modes[i] = src.windows[i].mode

UnattendedInv ==
  \A c \in Calls :
    /\ chan[c].state = "sources" => StandsFor(chan[c].sources, session[c].src)
    /\ (capture[c] # NoCapture /\ ~ asked[c]) => StandsFor(capture[c], session[c].src)
    /\ pc[c] = "asking" => asked[c]
    /\ pc[c] = "idle" => capture[c] = NoCapture

ConsentInv ==
  \A c \in Calls :
    /\ chan[c].state = "consent" => ReachesBeyond(session[c].src)
    /\ (asked[c] /\ session[c].src # NoSource /\ session[c].action # Prompt) =>
         ReachesBeyond(session[c].src)
    /\ pc[c] = "idle" => ~ asked[c]

TokenInv ==
  \A c \in Calls :
    answer[c].token # NoToken =>
      /\ pc[c] = "done" /\ capture[c] # NoCapture
      /\ MadeFrom(answer[c].token, capture[c])

CaptureInv == UnattendedInv /\ ConsentInv /\ TokenInv

\* A capture restored from a token stands for it: each window is the saved one or of its application.
LEMMA RestoredStandsFor ==
  ASSUME NEW c \in Calls, NEW infos \in Seq(Window),
         session[c].src \in Sources, Resolvable(c, infos)
  PROVE  StandsFor(RestoredCapture(c, infos), session[c].src)
<1> DEFINE src == session[c].src
           cap == RestoredCapture(c, infos)
<1>1. /\ cap \in Capture
      /\ Len(cap.windows) = Len(src.windows)
      /\ DOMAIN cap.modes = DOMAIN src.windows
      /\ \A i \in DOMAIN src.windows : cap.modes[i] = src.windows[i].mode
  BY RestoredCaptureType
<1>2. cap.windows \in Seq(Window) /\ src.windows \in Seq(Saved)
  BY <1>1 DEF Capture, Sources
<1>3. DOMAIN cap.windows = DOMAIN src.windows
  BY <1>1, <1>2
<1>4. ASSUME NEW i \in DOMAIN src.windows
      PROVE  \/ cap.windows[i].id = src.windows[i].id
             \/ src.windows[i].app # NoAppId /\ cap.windows[i].app = src.windows[i].app
  <2>1. src.windows[i] \in Saved
    BY <1>2
  <2>2. ResolveToplevel(src.windows[i], infos).kind = "auto"
    BY DEF Resolvable, ResolvesTo
  <2>3. PICK k \in DOMAIN infos :
          /\ ResolveToplevel(src.windows[i], infos) = Matched(infos[k])
          /\ infos[k].id = src.windows[i].id \/ SameApp(src.windows[i], infos[k])
    BY <2>1, <2>2, AutoMatchStaysInApp
  <2>4. cap.windows[i] = infos[k]
    BY <2>3 DEF RestoredCapture, CapturedWindows, Matched
  <2> QED BY <2>3, <2>4 DEF SameApp
<1> HIDE DEF src, cap
<1>5. StandsFor(cap, src)
  BY <1>1, <1>3, <1>4 DEF StandsFor
<1> QED BY <1>5 DEF src, cap

\* A token that needs consent has a title-mode window with an alias that reaches beyond its application.
LEMMA ConsentReachesBeyond ==
  ASSUME NEW c \in Calls, NEW infos \in Seq(Window),
         session[c].src \in Sources, Consentable(c, infos)
  PROVE  ReachesBeyond(session[c].src)
<1>1. PICK i \in DOMAIN session[c].src.windows :
        ResolveToplevel(session[c].src.windows[i], infos).kind = "consent"
  BY DEF Consentable, NeedsConsentWith
<1>2. session[c].src.windows[i] \in Saved
  BY DEF Sources
<1> QED BY <1>1, <1>2, ConsentNeedsAnyApp DEF ReachesBeyond

\* Nothing is captured, asked or handed out at the start.
LEMMA InitCapture == Init => CaptureInv
BY DEF Init, NoMessage, Unanswered, CaptureInv, UnattendedInv, ConsentInv, TokenInv

\* Every step keeps the relation between the saved token, the capture, the picker and the new token.
LEMMA StepCapture == TypeInv /\ CaptureInv /\ [Next]_vars => CaptureInv'
<1> SUFFICES ASSUME TypeInv, CaptureInv, [Next]_vars PROVE CaptureInv'
  OBVIOUS
<1> USE CosmicAssumption
    DEF TypeInv, TypeOK, CaptureInv, waylandVars, startVars
<1>a. \A c \in Calls : session[c].src \in Sources \cup {NoSource}
  BY DEF SessionData
<1>b. toplevels \in Seq(Window) /\ snapshot \in Seq(Window)
  OBVIOUS
<1>1. ASSUME NEW c \in Calls, SelectSources(c) PROVE CaptureInv'
  <2>1. pc[c] = "idle" /\ UNCHANGED pc /\ \A d \in Calls \ {c} : session'[d] = session[d]
    BY <1>1 DEF SelectSources
  <2>2. UnattendedInv'
    BY <1>1, <2>1 DEF SelectSources, UnattendedInv, ReadyInv
  <2>3. ConsentInv'
    BY <1>1, <2>1 DEF SelectSources, ConsentInv, ReadyInv
  <2>4. TokenInv'
    BY <1>1 DEF SelectSources, TokenInv
  <2> QED BY <2>2, <2>3, <2>4
<1>2. ASSUME NEW c \in Calls, RefuseSources(c) PROVE CaptureInv'
  <2>1. answer'[c].token = NoToken
    BY <1>2 DEF RefuseSources
  <2>2. TokenInv'
    BY <1>2, <2>1 DEF RefuseSources, TokenInv
  <2>3. UnattendedInv' /\ ConsentInv'
    BY <1>2 DEF RefuseSources, UnattendedInv, ConsentInv
  <2> QED BY <2>2, <2>3
<1>3. ASSUME NEW c \in Calls, Begin(c) PROVE CaptureInv'
  BY <1>3 DEF Begin, UnattendedInv, ConsentInv, TokenInv
<1>4. ASSUME NEW c \in Calls, Restore(c) PROVE CaptureInv'
  <2>1. session[c].src # NoSource /\ Resolvable(c, toplevels) =>
          StandsFor(RestoredCapture(c, toplevels), session[c].src)
    BY <1>a, <1>b, RestoredStandsFor
  <2>2. UnattendedInv'
    BY <1>4, <2>1 DEF Restore, GoAsk, GoCapture, UnattendedInv
  <2>3. ConsentInv'
    BY <1>4 DEF Restore, GoAsk, GoCapture, ConsentInv
  <2>4. TokenInv'
    BY <1>4 DEF Restore, GoAsk, GoCapture, TokenInv
  <2> QED BY <2>2, <2>3, <2>4
<1>5. ASSUME NEW c \in Calls, Check(c) PROVE CaptureInv'
  <2>1. session[c].src \in Sources
    BY <1>5, <1>a DEF Check, ReadyInv
  <2>2. Resolvable(c, toplevels) => StandsFor(RestoredCapture(c, toplevels), session[c].src)
    BY <1>b, <2>1, RestoredStandsFor
  <2>3. Consentable(c, toplevels) => ReachesBeyond(session[c].src)
    BY <1>b, <2>1, ConsentReachesBeyond
  <2>4. UnattendedInv'
    BY <1>5, <2>2 DEF Check, GoAsk, GoCapture, UnattendedInv
  <2>5. ConsentInv'
    BY <1>5, <2>3 DEF Check, GoAsk, GoCapture, ConsentInv
  <2>6. TokenInv'
    BY <1>5 DEF Check, GoAsk, GoCapture, TokenInv
  <2> QED BY <2>4, <2>5, <2>6
<1>6. ASSUME NEW c \in Calls, Register(c) PROVE CaptureInv'
  BY <1>6 DEF Register, UnattendedInv, ConsentInv, TokenInv
<1>7. ASSUME NEW c \in Calls, Receive(c) PROVE CaptureInv'
  <2>1. UnattendedInv'
    BY <1>7 DEF Receive, GoAsk, GoCapture, Dropped, UnattendedInv
  <2>2. ConsentInv'
    BY <1>7 DEF Receive, GoAsk, GoCapture, Dropped, ConsentInv
  <2>3. TokenInv'
    BY <1>7 DEF Receive, GoAsk, GoCapture, TokenInv
  <2> QED BY <2>1, <2>2, <2>3
<1>8. ASSUME NEW c \in Calls, Timeout(c) PROVE CaptureInv'
  BY <1>8 DEF Timeout, UnattendedInv, ConsentInv, TokenInv
<1>9. ASSUME NEW c \in Calls, Fail(c) PROVE CaptureInv'
  <2>1. answer'[c].token = NoToken
    BY <1>9 DEF Fail, Answer
  <2>2. UnattendedInv' /\ ConsentInv'
    BY <1>9 DEF Fail, Answer, Dropped, UnattendedInv, ConsentInv
  <2>3. TokenInv'
    BY <1>9, <2>1 DEF Fail, Answer, TokenInv
  <2> QED BY <2>2, <2>3
<1>10. ASSUME NEW c \in Calls, Pick(c) PROVE CaptureInv'
  <2>1. pc[c] = "asking" /\ answer'[c].token = NoToken
    BY <1>10 DEF Pick, Answer, TokenInv
  <2>2. /\ pc'[c] \in {"done", "capturing"} /\ UNCHANGED <<session, chan, asked>>
        /\ \A d \in Calls \ {c} :
             capture'[d] = capture[d] /\ pc'[d] = pc[d] /\ answer'[d] = answer[d]
    BY <1>10 DEF Pick, Answer
  <2>3. UnattendedInv'
    BY <2>1, <2>2 DEF UnattendedInv
  <2>4. ConsentInv'
    BY <2>2 DEF ConsentInv
  <2>5. TokenInv'
    BY <2>1, <2>2 DEF TokenInv
  <2> QED BY <2>3, <2>4, <2>5
<1>11. ASSUME NEW c \in Calls, Finish(c) PROVE CaptureInv'
  <2> DEFINE token == TokenFor(capture[c], session[c].src, session[c].rules, toplevels, outputs)
  <2>1. token # NoToken => MadeFrom(token, capture[c])
    <3>1. capture[c] \in Capture
      BY <1>11 DEF Finish, ReadyInv
    <3>2. session[c].rules \in Seq(Rule)
      <4>1. session[c].rules \in ExtRules \cup {<<>>}
        BY DEF SessionData
      <4>2. <<>> \in Seq(Rule) /\ ExtRules \subseteq Seq(Rule)
        OBVIOUS
      <4> QED BY <4>1, <4>2, Zenon
    <3> SUFFICES ASSUME token # NoToken PROVE MadeFrom(token, capture[c])
      OBVIOUS
    <3>0. session[c].src \in Sources \cup {NoSource}
      BY <1>a
    <3> QED BY <1>b, <3>0, <3>1, <3>2, TokenForCapture
  <2> HIDE DEF token
  <2>2. \/ answer'[c].token = NoToken
        \/ answer'[c].token = token
    BY <1>11 DEF Finish, Answer, token
  <2>3. /\ pc'[c] = "done" /\ UNCHANGED <<session, chan, asked, capture>>
        /\ \A d \in Calls \ {c} : pc'[d] = pc[d] /\ answer'[d] = answer[d]
    BY <1>11 DEF Finish, Answer
  <2>a. capture[c] # NoCapture
    BY <1>11 DEF Finish, ReadyInv
  <2>4. TokenInv'
    BY <2>1, <2>2, <2>3, <2>a DEF TokenInv
  <2>5. UnattendedInv' /\ ConsentInv'
    BY <2>3 DEF UnattendedInv, ConsentInv
  <2> QED BY <2>4, <2>5
<1>12. ASSUME NEW c \in Calls, Cancel(c) PROVE CaptureInv'
  BY <1>12 DEF Cancel, Dropped, UnattendedInv, ConsentInv, TokenInv
<1>13. ASSUME NEW c \in Calls, DrainOne(c) PROVE CaptureInv'
  <2>1. IsOpen(c) => session[c].src \in Sources
    BY <1>a DEF IsOpen, ReadyInv
  <2>2. IsOpen(c) /\ Resolvable(c, snapshot) =>
          StandsFor(RestoredCapture(c, snapshot), session[c].src)
    BY <1>b, <2>1, RestoredStandsFor
  <2>3. IsOpen(c) /\ Consentable(c, snapshot) => ReachesBeyond(session[c].src)
    BY <1>b, <2>1, ConsentReachesBeyond
  <2>4. UnattendedInv'
    BY <1>13, <2>2 DEF DrainOne, Send, UnattendedInv
  <2>5. ConsentInv'
    BY <1>13, <2>3 DEF DrainOne, Send, ConsentInv
  <2>6. TokenInv'
    BY <1>13 DEF DrainOne, TokenInv
  <2> QED BY <2>4, <2>5, <2>6
<1>14. UpdateToplevels \/ TakeSnapshot \/ BeginDrain \/ EndDrain \/ OutputsChange
         \/ UNCHANGED vars
       => UNCHANGED <<session, pc, chan, capture, asked, answer>>
  BY DEF UpdateToplevels, TakeSnapshot, BeginDrain, EndDrain, OutputsChange, vars
<1>15. CASE UNCHANGED <<session, pc, chan, capture, asked, answer>>
  BY <1>15 DEF UnattendedInv, ConsentInv, TokenInv
<1> QED BY <1>1, <1>2, <1>3, <1>4, <1>5, <1>6, <1>7, <1>8, <1>9, <1>10, <1>11, <1>12, <1>13,
           <1>14, <1>15 DEF Next

\* That relation holds in every state that the portal reaches.
LEMMA CaptureCorrect == Spec => [](TypeInv /\ CaptureInv)
BY InitType, StepType, InitCapture, StepCapture, PTL DEF Spec

\* The confidentiality boundary of the whole portal: whatever windows open, close and are renamed
\* while Starts wait, nothing outside the saved windows' applications is captured unasked.
THEOREM UnattendedStaysInside == Spec => []UnattendedStaysInApp
<1>1. CaptureInv => UnattendedStaysInApp
  BY DEF CaptureInv, UnattendedInv, StandsFor, UnattendedStaysInApp
<1> QED BY <1>1, CaptureCorrect, PTL

\* Under skip and error the user is asked only because of an alias for any application.
THEOREM PickerNeedsAnyAppAlias == Spec => []PickerOnlyForConsent
<1>1. CaptureInv => PickerOnlyForConsent
  BY DEF CaptureInv, ConsentInv, ReachesBeyond, PickerOnlyForConsent
<1> QED BY <1>1, CaptureCorrect, PTL

\* A token handed out stands for exactly what was captured.
THEOREM TokensStandForCaptures == Spec => []TokenStandsForCapture
<1>1. CaptureInv => TokenStandsForCapture
  BY DEF CaptureInv, TokenInv, MadeFrom, TokenStandsForCapture
<1> QED BY <1>1, CaptureCorrect, PTL

\* A token made from an unattended restore keeps every saved mode, on any desktop: restoring again
\* and again never widens the user's choice.
THEOREM RestoresKeepModes == Spec => []RestoreKeepsMode
<1>1. TypeInv /\ CaptureInv => RestoreKeepsMode
  <2> SUFFICES ASSUME TypeInv, CaptureInv, NEW c \in Calls,
                      answer[c].token # NoToken, ~ asked[c],
                      NEW i \in DOMAIN answer[c].token.windows
               PROVE  answer[c].token.windows[i].mode = session[c].src.windows[i].mode
    BY DEF RestoreKeepsMode
  <2>1. pc[c] = "done" /\ MadeFrom(answer[c].token, capture[c])
    BY DEF CaptureInv, TokenInv
  <2>2. StandsFor(capture[c], session[c].src)
    BY DEF CaptureInv, UnattendedInv, TokenInv
  <2> QED BY <2>1, <2>2 DEF MadeFrom, StandsFor
<1> QED BY <1>1, CaptureCorrect, PTL

(***************************************************************************)
(* Tokens come back.  No list of rules is longer than the limit: not the   *)
(* saved ones, which were decoded, nor the client's nor the picker's, and  *)
(* so not those of a capture or of a new token, which decodes to itself.   *)
(***************************************************************************)
ShortSource(src)  == \A i \in DOMAIN src.windows : Len(src.windows[i].rules) <= MaxRules
ShortCapture(cap) == \A i \in DOMAIN cap.rules : Len(cap.rules[i]) <= MaxRules

RulesInv ==
  \A c \in Calls :
    /\ chan[c].sources # NoCapture => ShortCapture(chan[c].sources)
    /\ capture[c] # NoCapture => ShortCapture(capture[c])
    /\ answer[c].token # NoToken => ShortSource(answer[c].token)

\* A function on an initial segment is as long as the segment.
LEMMA ColumnLen ==
  ASSUME NEW m \in Nat, NEW column, column = [i \in 1..m |-> column[i]]
  PROVE  Len(column) = m
<1> DEFINE S == {column[i] : i \in 1..m}
<1>1. column \in [1..m -> S]
  OBVIOUS
<1> HIDE DEF S
<1> QED BY <1>1, FunctionIsSequence

\* The pairs that are zipped from the columns of a list are its entries.
LEMMA ZippedColumns ==
  ASSUME NEW list \in Seq(Rule),
         NEW patterns, patterns = [k \in DOMAIN list |-> list[k].pattern],
         NEW scopes, scopes = [k \in DOMAIN list |-> list[k].scope]
  PROVE  Zipped(patterns, scopes) = list
<1> DEFINE n == Len(list)
<1>1. n \in Nat /\ DOMAIN list = 1..n
  OBVIOUS
<1>2. Len(patterns) = n /\ Len(scopes) = n
  BY <1>1, ColumnLen
<1> HIDE DEF n
<1>3. Zipped(patterns, scopes) = [k \in 1..n |-> [pattern |-> patterns[k], scope |-> scopes[k]]]
  BY <1>2 DEF Zipped
<1>4. ASSUME NEW k \in 1..n PROVE [pattern |-> patterns[k], scope |-> scopes[k]] = list[k]
  <2>1. list[k] \in Rule
    BY <1>1
  <2>2. patterns[k] = list[k].pattern /\ scopes[k] = list[k].scope
    BY <1>1
  <2> QED BY <2>1, <2>2 DEF Rule
<1>5. list = [k \in 1..n |-> list[k]]
  BY <1>1
<1> QED BY <1>3, <1>4, <1>5

\* As many rules as the limit lets through are all of them.
LEMMA WithinLimit ==
  ASSUME NEW list \in Seq(Rule), Len(list) <= MaxRules
  PROVE  [k \in 1..UpToLimit(Len(list)) |-> list[k]] = list
<1> DEFINE n == Len(list)
<1>1. n \in Nat /\ list = [k \in 1..n |-> list[k]] /\ n <= MaxRules /\ MaxRules \in Nat
  BY TokenAssumption
<1> HIDE DEF n
<1>2. n >= MaxRules => n = MaxRules
  BY <1>1
<1>3. UpToLimit(n) = n
  BY <1>2 DEF UpToLimit
<1> QED BY <1>1, <1>3 DEF n

\* What is stored is read again, rule by rule, as long as the limit was respected.
LEMMA RulesComeBack ==
  ASSUME NEW list \in Seq(Rule), Len(list) <= MaxRules,
         NEW patterns, patterns = [k \in DOMAIN list |-> list[k].pattern],
         NEW scopes, scopes = [k \in DOMAIN list |-> list[k].scope]
  PROVE  ZippedRules(patterns, scopes) = list
<1> DEFINE n == Len(list)
<1>1. n \in Nat /\ DOMAIN list = 1..n /\ list = [k \in 1..n |-> list[k]]
  OBVIOUS
<1>2. {k \in DOMAIN list : list[k] \in Rule} = 1..n
  BY <1>1
<1> HIDE DEF n
<1>3. Chosen(list, 1..n) = list
  BY <1>1, ChosenWhole
<1>4. ZippedRules(patterns, scopes) = [k \in 1..UpToLimit(Len(list)) |-> list[k]]
  BY <1>2, <1>3, ZippedColumns DEF ZippedRules
<1> QED BY <1>4, WithinLimit

\* All positions but the first, in their order.
LEMMA NthAfterFirst ==
  ASSUME NEW n \in Nat
  PROVE  /\ Cardinality(2..(n + 1)) = n
         /\ \A j \in 1..n : Nth(2..(n + 1), j) = j + 1
<1> DEFINE S == 2..(n + 1)
<1>1. Cardinality(S) = n
  <2>1. 2 \in Int /\ n + 1 \in Int
    OBVIOUS
  <2>2. Cardinality(2..(n + 1)) = IF 2 > n + 1 THEN 0 ELSE (n + 1) - 2 + 1
    BY <2>1, FS_Interval
  <2> QED BY <2>2
<1>2. ASSUME NEW j \in 1..n PROVE Nth(S, j) = j + 1
  <2>1. S \in SUBSET (1..(n + 1)) /\ n + 1 \in Nat /\ j + 1 \in S /\ 2 \in Int /\ j \in Int
    OBVIOUS
  <2>2. Below(S, j + 1) = 2..j
    BY DEF Below
  <2>3. Cardinality(2..j) = IF 2 > j THEN 0 ELSE j - 2 + 1
    BY <2>1, FS_Interval
  <2>4. Cardinality(2..j) + 1 = j
    BY <2>3
  <2> HIDE DEF S
  <2>5. Nth(S, Cardinality(Below(S, j + 1)) + 1) = j + 1
    BY <2>1, NthIs
  <2> QED BY <2>2, <2>4, <2>5
<1> QED BY <1>1, <1>2

\* The columns that StoredData makes of a window's rules, with something stored before them.
AreColumns(list, patterns, scopes) ==
  /\ patterns = [k \in DOMAIN list |-> list[k].pattern]
  /\ scopes = [k \in DOMAIN list |-> list[k].scope]

Behind(x, column) == <<x>> \o column

Skipped(p, s) == [pattern |-> p, scope |-> s] \notin Rule

\* A pair that is no rule, before the stored ones, is skipped and takes none of their places.
LEMMA RulesComeBackBehind ==
  ASSUME NEW list \in Seq(Rule), Len(list) <= MaxRules,
         NEW patterns, NEW scopes, AreColumns(list, patterns, scopes),
         NEW p, NEW s, Skipped(p, s)
  PROVE  ZippedRules(Behind(p, patterns), Behind(s, scopes)) = list
<1> DEFINE n == Len(list)
           first == [pattern |-> p, scope |-> s]
           more == <<p>> \o patterns
           others == <<s>> \o scopes
           pairs == Zipped(more, others)
<1>0. /\ patterns = [k \in DOMAIN list |-> list[k].pattern]
      /\ scopes = [k \in DOMAIN list |-> list[k].scope]
  BY DEF AreColumns
<1>1. n \in Nat /\ DOMAIN list = 1..n /\ list = [k \in 1..n |-> list[k]]
  OBVIOUS
<1>2. Len(patterns) = n /\ Len(scopes) = n
  BY <1>0, <1>1, ColumnLen
<1>3. /\ Len(more) = n + 1 /\ more[1] = p
      /\ \A k \in 1..n : more[k + 1] = list[k].pattern
  <2> DEFINE A == {list[k].pattern : k \in 1..n} \cup {p}
  <2>1. patterns \in [1..n -> A]
    BY <1>0, <1>1
  <2>2. <<p>> \in Seq(A) /\ Len(<<p>>) = 1 /\ <<p>>[1] = p
    OBVIOUS
  <2> HIDE DEF A, n
  <2>3. patterns \in Seq(A)
    BY <1>1, <2>1
  <2>4. /\ Len(more) = 1 + n
        /\ \A i \in 1..(1 + n) : more[i] = IF i <= 1 THEN <<p>>[i] ELSE patterns[i - 1]
    BY <1>2, <2>2, <2>3, ConcatProperties
  <2> HIDE DEF more
  <2>5. ASSUME NEW k \in 1..n PROVE more[k + 1] = list[k].pattern
    <3>1. k + 1 \in 1..(1 + n) /\ ~ (k + 1 <= 1) /\ (k + 1) - 1 = k
      BY <1>1
    <3>2. patterns[k] = list[k].pattern
      BY <1>0, <1>1
    <3> QED BY <2>4, <3>1, <3>2
  <2>6. 1 \in 1..(1 + n) /\ 1 + n = n + 1
    BY <1>1
  <2> QED BY <2>2, <2>4, <2>5, <2>6
<1>4. /\ Len(others) = n + 1 /\ others[1] = s
      /\ \A k \in 1..n : others[k + 1] = list[k].scope
  <2> DEFINE A == {list[k].scope : k \in 1..n} \cup {s}
  <2>1. scopes \in [1..n -> A]
    BY <1>0, <1>1
  <2>2. <<s>> \in Seq(A) /\ Len(<<s>>) = 1 /\ <<s>>[1] = s
    OBVIOUS
  <2> HIDE DEF A, n
  <2>3. scopes \in Seq(A)
    BY <1>1, <2>1
  <2>4. /\ Len(others) = 1 + n
        /\ \A i \in 1..(1 + n) : others[i] = IF i <= 1 THEN <<s>>[i] ELSE scopes[i - 1]
    BY <1>2, <2>2, <2>3, ConcatProperties
  <2> HIDE DEF others
  <2>5. ASSUME NEW k \in 1..n PROVE others[k + 1] = list[k].scope
    <3>1. k + 1 \in 1..(1 + n) /\ ~ (k + 1 <= 1) /\ (k + 1) - 1 = k
      BY <1>1
    <3>2. scopes[k] = list[k].scope
      BY <1>0, <1>1
    <3> QED BY <2>4, <3>1, <3>2
  <2>6. 1 \in 1..(1 + n) /\ 1 + n = n + 1
    BY <1>1
  <2> QED BY <2>2, <2>4, <2>5, <2>6
<1> HIDE DEF n, more, others
<1>5. pairs = [k \in 1..(n + 1) |-> [pattern |-> more[k], scope |-> others[k]]]
  <2>1. Len(more) <= Len(others) /\ Len(more) = n + 1
    BY <1>1, <1>3, <1>4
  <2> QED BY <2>1 DEF Zipped
<1>6. pairs[1] = first /\ DOMAIN pairs = 1..(n + 1)
  <2>1. 1 \in 1..(n + 1)
    BY <1>1
  <2> QED BY <1>3, <1>4, <1>5, <2>1
<1>7. ASSUME NEW k \in 1..n PROVE pairs[k + 1] = list[k] /\ list[k] \in Rule
  <2>1. k + 1 \in 1..(n + 1)
    BY <1>1
  <2>2. list[k] \in Rule
    BY <1>1
  <2>3. pairs[k + 1] = [pattern |-> list[k].pattern, scope |-> list[k].scope]
    BY <1>3, <1>4, <1>5, <2>1
  <2> QED BY <2>2, <2>3 DEF Rule
<1> HIDE DEF pairs
<1>8. {k \in DOMAIN pairs : pairs[k] \in Rule} = 2..(n + 1)
  <2>1. ASSUME NEW k \in 2..(n + 1) PROVE k \in DOMAIN pairs /\ pairs[k] \in Rule
    <3>1. k - 1 \in 1..n /\ (k - 1) + 1 = k /\ k \in 1..(n + 1)
      BY <1>1
    <3> QED BY <1>6, <1>7, <3>1
  <2>2. ASSUME NEW k \in DOMAIN pairs, pairs[k] \in Rule PROVE k \in 2..(n + 1)
    <3>1. k \in 1..(n + 1) /\ k # 1
      BY <1>6, <2>2 DEF Skipped
    <3> QED BY <1>1, <3>1
  <2> QED BY <2>1, <2>2
<1>9. Chosen(pairs, 2..(n + 1)) = list
  <2>1. \A j \in 1..n : pairs[Nth(2..(n + 1), j)] = list[j]
    BY <1>1, <1>7, NthAfterFirst
  <2>2. Chosen(pairs, 2..(n + 1)) = [j \in 1..n |-> pairs[Nth(2..(n + 1), j)]]
    BY <1>1, NthAfterFirst DEF Chosen
  <2> QED BY <1>1, <2>1, <2>2
<1>10. ZippedRules(more, others) = [k \in 1..UpToLimit(Len(list)) |-> list[k]]
  BY <1>8, <1>9 DEF ZippedRules, pairs
<1> QED BY <1>10, WithinLimit DEF more, others, Behind

\* Stored data has a row of six columns for each window.
HasColumns(stored, tok) ==
  LET Is(column) == DOMAIN column = DOMAIN tok.windows /\ Len(column) = Len(tok.windows)
  IN  /\ Is(stored.ids) /\ Is(stored.apps) /\ Is(stored.titles)
      /\ Is(stored.modes) /\ Is(stored.patterns) /\ Is(stored.scopes)

HasRow(stored, tok, i) ==
  /\ stored.ids[i] = tok.windows[i].id /\ stored.apps[i] = tok.windows[i].app
  /\ stored.titles[i] = tok.windows[i].title /\ stored.modes[i] = tok.windows[i].mode
  /\ stored.patterns[i] = [k \in DOMAIN tok.windows[i].rules |-> tok.windows[i].rules[k].pattern]
  /\ stored.scopes[i] = [k \in DOMAIN tok.windows[i].rules |-> tok.windows[i].rules[k].scope]

LEMMA StoredColumns ==
  ASSUME NEW tok \in Sources, NEW version
  PROVE  /\ StoredData(tok, version).version = version
         /\ StoredData(tok, version).outputs = tok.outputs
         /\ HasColumns(StoredData(tok, version), tok)
         /\ \A i \in DOMAIN tok.windows : HasRow(StoredData(tok, version), tok, i)
<1> DEFINE n == Len(tok.windows)
           stored == StoredData(tok, version)
<1>1. DOMAIN tok.windows = 1..n /\ n \in Nat
  BY DEF Sources
<1> HIDE DEF n
<1>2. /\ stored.version = version /\ stored.outputs = tok.outputs
      /\ stored.ids = [i \in 1..n |-> tok.windows[i].id]
      /\ stored.apps = [i \in 1..n |-> tok.windows[i].app]
      /\ stored.titles = [i \in 1..n |-> tok.windows[i].title]
      /\ stored.modes = [i \in 1..n |-> tok.windows[i].mode]
      /\ stored.patterns = [i \in 1..n |-> [k \in DOMAIN tok.windows[i].rules
                                             |-> tok.windows[i].rules[k].pattern]]
      /\ stored.scopes = [i \in 1..n |-> [k \in DOMAIN tok.windows[i].rules
                                            |-> tok.windows[i].rules[k].scope]]
  BY <1>1 DEF StoredData
<1> HIDE DEF stored
<1>3. /\ DOMAIN stored.ids = 1..n /\ stored.ids = [i \in 1..n |-> stored.ids[i]]
      /\ DOMAIN stored.apps = 1..n /\ stored.apps = [i \in 1..n |-> stored.apps[i]]
      /\ DOMAIN stored.titles = 1..n /\ stored.titles = [i \in 1..n |-> stored.titles[i]]
  BY <1>2
<1>4. /\ DOMAIN stored.modes = 1..n /\ stored.modes = [i \in 1..n |-> stored.modes[i]]
      /\ DOMAIN stored.patterns = 1..n /\ stored.patterns = [i \in 1..n |-> stored.patterns[i]]
      /\ DOMAIN stored.scopes = 1..n /\ stored.scopes = [i \in 1..n |-> stored.scopes[i]]
  BY <1>2
<1>5. Len(stored.ids) = n /\ Len(stored.apps) = n /\ Len(stored.titles) = n
  BY <1>1, <1>3, ColumnLen
<1>6. Len(stored.modes) = n /\ Len(stored.patterns) = n /\ Len(stored.scopes) = n
  BY <1>1, <1>4, ColumnLen
<1>7. HasColumns(stored, tok)
  BY <1>1, <1>3, <1>4, <1>5, <1>6 DEF HasColumns, n
<1>8. \A i \in DOMAIN tok.windows : HasRow(stored, tok, i)
  BY <1>1, <1>2 DEF HasRow
<1> QED BY <1>2, <1>7, <1>8 DEF stored

\* Data with the rows of a token is decoded to it, if each row of rules is.
LEMMA DecodesColumns ==
  ASSUME NEW tok \in Sources, NEW stored, stored.version = 3, stored.outputs = tok.outputs,
         HasColumns(stored, tok),
         \A i \in DOMAIN tok.windows :
           /\ stored.ids[i] = tok.windows[i].id /\ stored.apps[i] = tok.windows[i].app
           /\ stored.titles[i] = tok.windows[i].title /\ stored.modes[i] = tok.windows[i].mode
           /\ ZippedRules(stored.patterns[i], stored.scopes[i]) = tok.windows[i].rules
  PROVE  Decoded(stored) = tok
<1>1. tok.windows \in Seq(Saved) /\ DOMAIN tok.windows = 1..Len(tok.windows)
  BY DEF Sources
<1>2. Decodable(stored) /\ DOMAIN stored.ids = DOMAIN tok.windows
  BY DEF Decodable, HasColumns
<1>3. ASSUME NEW i \in DOMAIN tok.windows
      PROVE  [id |-> stored.ids[i], app |-> stored.apps[i], title |-> stored.titles[i],
              mode |-> stored.modes[i], rules |-> ZippedRules(stored.patterns[i], stored.scopes[i])]
               = tok.windows[i]
  <2>1. tok.windows[i] \in Saved
    BY <1>1
  <2> QED BY <2>1 DEF Saved
<1>4. Decoded(stored)
        = [outputs |-> stored.outputs,
           windows |-> [i \in DOMAIN stored.ids |->
             [id |-> stored.ids[i], app |-> stored.apps[i], title |-> stored.titles[i],
              mode |-> stored.modes[i],
              rules |-> ZippedRules(stored.patterns[i], stored.scopes[i])]]]
  BY <1>2 DEF Decoded
<1>5. Decoded(stored) = [outputs |-> tok.outputs, windows |-> [i \in DOMAIN tok.windows |-> tok.windows[i]]]
  BY <1>2, <1>3, <1>4
<1>6. tok = [outputs |-> tok.outputs, windows |-> tok.windows]
  BY DEF Sources
<1>7. tok.windows = [i \in DOMAIN tok.windows |-> tok.windows[i]]
  BY <1>1
<1> QED BY <1>5, <1>6, <1>7

\* The rules of a window are a list within the limit.
LEMMA WindowRules ==
  ASSUME NEW tok \in Sources, ShortSource(tok), NEW i \in DOMAIN tok.windows
  PROVE  tok.windows[i].rules \in Seq(Rule) /\ Len(tok.windows[i].rules) <= MaxRules
<1>1. tok.windows[i] \in Saved
  BY DEF Sources
<1> QED BY <1>1 DEF Saved, ShortSource

LEMMA DecodesToItself ==
  ASSUME NEW tok \in Sources, ShortSource(tok)
  PROVE  Decoded(StoredData(tok, 3)) = tok
<1> DEFINE stored == StoredData(tok, 3)
<1>1. /\ stored.version = 3 /\ stored.outputs = tok.outputs /\ HasColumns(stored, tok)
      /\ \A i \in DOMAIN tok.windows : HasRow(stored, tok, i)
  BY StoredColumns
<1> HIDE DEF stored
<1>2. ASSUME NEW i \in DOMAIN tok.windows
      PROVE  /\ HasRow(stored, tok, i)
             /\ ZippedRules(stored.patterns[i], stored.scopes[i]) = tok.windows[i].rules
  <2> DEFINE list     == tok.windows[i].rules
             patterns == [k \in DOMAIN list |-> list[k].pattern]
             scopes   == [k \in DOMAIN list |-> list[k].scope]
  <2>1. stored.patterns[i] = patterns /\ stored.scopes[i] = scopes
    BY <1>1 DEF HasRow
  <2>2. list \in Seq(Rule) /\ Len(list) <= MaxRules
    BY WindowRules
  <2>3. ZippedRules(patterns, scopes) = list
    <3> HIDE DEF list
    <3> QED BY <2>2, RulesComeBack
  <2>4. HasRow(stored, tok, i)
    BY <1>1
  <2>5. ZippedRules(stored.patterns[i], stored.scopes[i]) = list
    <3> HIDE DEF list
    <3> QED BY <2>1, <2>3
  <2> QED BY <2>4, <2>5
<1>3. Decoded(stored) = tok
  BY <1>1, <1>2, DecodesColumns DEF HasRow
<1> QED BY <1>3 DEF stored

LEMMA DecodesBehind ==
  ASSUME NEW tok \in Sources, ShortSource(tok), NEW pair \in Unreadable
  PROVE  Decoded(Before(pair, StoredData(tok, 3))) = tok
<1> DEFINE old == StoredData(tok, 3)
           stored == Before(pair, old)
<1>1. /\ old.version = 3 /\ old.outputs = tok.outputs /\ HasColumns(old, tok)
      /\ \A i \in DOMAIN tok.windows : HasRow(old, tok, i)
  BY StoredColumns
<1>2. /\ stored.version = old.version /\ stored.outputs = old.outputs /\ stored.ids = old.ids
      /\ stored.apps = old.apps /\ stored.titles = old.titles /\ stored.modes = old.modes
      /\ stored.patterns = [i \in DOMAIN old.patterns |-> <<pair.pattern>> \o old.patterns[i]]
      /\ stored.scopes = [i \in DOMAIN old.scopes |-> <<pair.scope>> \o old.scopes[i]]
  BY DEF Before, StoredData
<1> HIDE DEF old, stored
<1>3. DOMAIN tok.windows = 1..Len(tok.windows) /\ Len(tok.windows) \in Nat
  BY DEF Sources
<1>4. HasColumns(stored, tok)
  <2>1. /\ DOMAIN stored.patterns = 1..Len(tok.windows) /\ DOMAIN stored.scopes = 1..Len(tok.windows)
        /\ stored.patterns = [i \in 1..Len(tok.windows) |-> stored.patterns[i]]
        /\ stored.scopes = [i \in 1..Len(tok.windows) |-> stored.scopes[i]]
    BY <1>1, <1>2, <1>3 DEF HasColumns
  <2>2. Len(stored.patterns) = Len(tok.windows) /\ Len(stored.scopes) = Len(tok.windows)
    BY <1>3, <2>1, ColumnLen
  <2> QED BY <1>1, <1>2, <1>3, <2>1, <2>2 DEF HasColumns
<1>5. ASSUME NEW i \in DOMAIN tok.windows
      PROVE  ZippedRules(stored.patterns[i], stored.scopes[i]) = tok.windows[i].rules
  <2> DEFINE list     == tok.windows[i].rules
             patterns == [k \in DOMAIN list |-> list[k].pattern]
             scopes   == [k \in DOMAIN list |-> list[k].scope]
  <2>1. i \in DOMAIN old.patterns /\ i \in DOMAIN old.scopes
    BY <1>1 DEF HasColumns
  <2>2. stored.patterns[i] = <<pair.pattern>> \o patterns /\ stored.scopes[i] = <<pair.scope>> \o scopes
    <3>1. old.patterns[i] = patterns /\ old.scopes[i] = scopes
      BY <1>1 DEF HasRow
    <3> HIDE DEF patterns, scopes
    <3>2. stored.patterns[i] = <<pair.pattern>> \o old.patterns[i]
      BY <1>2, <2>1
    <3>3. stored.scopes[i] = <<pair.scope>> \o old.scopes[i]
      BY <1>2, <2>1
    <3> QED BY <3>1, <3>2, <3>3
  <2>3. list \in Seq(Rule) /\ Len(list) <= MaxRules
    BY WindowRules
  <2>4. Skipped(pair.pattern, pair.scope)
    BY CosmicAssumption DEF Skipped
  <2>5. AreColumns(list, patterns, scopes)
    BY DEF AreColumns
  <2>6. ZippedRules(Behind(pair.pattern, patterns), Behind(pair.scope, scopes)) = list
    <3> HIDE DEF list, patterns, scopes
    <3> QED BY <2>3, <2>4, <2>5, RulesComeBackBehind
  <2> QED BY <2>2, <2>6 DEF Behind
<1>6. ASSUME NEW i \in DOMAIN tok.windows
      PROVE  /\ stored.ids[i] = tok.windows[i].id /\ stored.apps[i] = tok.windows[i].app
             /\ stored.titles[i] = tok.windows[i].title /\ stored.modes[i] = tok.windows[i].mode
             /\ ZippedRules(stored.patterns[i], stored.scopes[i]) = tok.windows[i].rules
  BY <1>1, <1>2, <1>5 DEF HasRow
<1>7. Decoded(stored) = tok
  BY <1>1, <1>2, <1>4, <1>6, DecodesColumns
<1> QED BY <1>7 DEF stored, old

\* A window of which less was stored never asks, and is restored only where the whole one would be.
LEMMA OlderWindow ==
  ASSUME NEW infos, NEW saved, NEW older,
         older.id = saved.id, older.rules = <<>>,
         \/ older.mode = ExactMode
         \/ older.app = saved.app /\ older.title = saved.title /\ older.mode = saved.mode
  PROVE  /\ ResolveToplevel(older, infos).kind # "consent"
         /\ ResolveToplevel(older, infos).kind = "auto" => ResolveToplevel(saved, infos).kind = "auto"
<1> DEFINE exact  == {k \in DOMAIN infos : infos[k].id = saved.id}
           titled == {k \in DOMAIN infos : SameAppAndTitle(saved, infos[k])}
           inApp  == {k \in DOMAIN infos : SameApp(saved, infos[k])}
<1>1. TitleRegexResult(older, infos) = NoMatch
  BY DEF TitleRegexResult
<1>2. CASE exact # {}
  <2>1. /\ ResolveToplevel(older, infos) = Matched(infos[Least(exact)])
        /\ ResolveToplevel(saved, infos) = Matched(infos[Least(exact)])
    BY <1>2 DEF ResolveToplevel
  <2> QED BY <2>1 DEF Matched
<1>3. CASE exact = {} /\ older.mode = ExactMode
  <2>1. ResolveToplevel(older, infos) = NoMatch
    BY <1>3 DEF ResolveToplevel, ExactMode, TitleMode
  <2> QED BY <2>1 DEF NoMatch
<1>4. CASE /\ exact = {} /\ older.mode # ExactMode
           /\ older.app = saved.app /\ older.title = saved.title /\ older.mode = saved.mode
  <2>1. /\ {k \in DOMAIN infos : SameAppAndTitle(older, infos[k])} = titled
        /\ {k \in DOMAIN infos : SameApp(older, infos[k])} = inApp
        /\ {k \in DOMAIN infos : infos[k].id = older.id} = exact
    BY <1>4 DEF SameAppAndTitle, SameApp
  <2> HIDE DEF exact, titled, inApp
  <2>2. CASE titled # {}
    <3>1. /\ ResolveToplevel(older, infos) = Matched(infos[Least(titled)])
          /\ ResolveToplevel(saved, infos) = Matched(infos[Least(titled)])
      BY <1>4, <2>1, <2>2 DEF ResolveToplevel, exact, titled
    <3> QED BY <3>1 DEF Matched
  <2>3. CASE titled = {} /\ saved.mode = TitleMode
    <3>1. ResolveToplevel(older, infos) = TitleRegexResult(older, infos)
      BY <1>4, <2>1, <2>3 DEF ResolveToplevel, exact, titled, ExactMode, TitleMode
    <3> QED BY <1>1, <3>1 DEF NoMatch
  <2>4. CASE titled = {} /\ saved.mode # TitleMode
    <3>1. /\ ResolveToplevel(older, infos)
               = IF inApp # {} THEN Matched(infos[Least(inApp)]) ELSE NoMatch
          /\ ResolveToplevel(saved, infos)
               = IF inApp # {} THEN Matched(infos[Least(inApp)]) ELSE NoMatch
      BY <1>4, <2>1, <2>4 DEF ResolveToplevel, exact, titled, inApp
    <3>2. Matched(infos[Least(inApp)]).kind = "auto" /\ NoMatch.kind = "none"
      BY DEF Matched, NoMatch
    <3> QED BY <3>1, <3>2
  <2> QED BY <2>2, <2>3, <2>4
<1> QED BY <1>2, <1>3, <1>4

LEMMA OlderDataRestoresNoMore ==
  ASSUME NEW tok \in Sources, NEW version \in {1, 2}, NEW infos, NEW outs
  PROVE  /\ ResolvesTo(Decoded(StoredData(tok, version)), infos, outs)
              => ResolvesTo(tok, infos, outs)
         /\ ~ NeedsConsentWith(Decoded(StoredData(tok, version)), infos)
<1> DEFINE stored == StoredData(tok, version)
           old == Decoded(stored)
<1>1. /\ stored.version = version /\ stored.outputs = tok.outputs /\ HasColumns(stored, tok)
      /\ \A i \in DOMAIN tok.windows : HasRow(stored, tok, i)
  BY StoredColumns
<1> HIDE DEF stored
<1>2. Decodable(stored) /\ DOMAIN stored.ids = DOMAIN tok.windows
  BY <1>1 DEF Decodable, HasColumns
<1>3. /\ old.outputs = tok.outputs /\ DOMAIN old.windows = DOMAIN tok.windows
      /\ \A i \in DOMAIN tok.windows :
           old.windows[i] =
             [id    |-> stored.ids[i],
              app   |-> IF version = 1 THEN NoAppId ELSE stored.apps[i],
              title |-> IF version = 1 THEN NoTitle ELSE stored.titles[i],
              mode  |-> IF version = 1 THEN ExactMode ELSE stored.modes[i],
              rules |-> <<>>]
  BY <1>1, <1>2 DEF Decoded
<1>4. ASSUME NEW i \in DOMAIN tok.windows
      PROVE  /\ ResolveToplevel(old.windows[i], infos).kind # "consent"
             /\ ResolveToplevel(old.windows[i], infos).kind = "auto"
                  => ResolveToplevel(tok.windows[i], infos).kind = "auto"
  <2>1. /\ old.windows[i].id = tok.windows[i].id /\ old.windows[i].rules = <<>>
        /\ \/ old.windows[i].mode = ExactMode
           \/ /\ old.windows[i].app = tok.windows[i].app
              /\ old.windows[i].title = tok.windows[i].title
              /\ old.windows[i].mode = tok.windows[i].mode
    <3>1. HasRow(stored, tok, i)
      BY <1>1
    <3> HIDE DEF old
    <3>2. CASE version = 1
      <4>1. old.windows[i] = [id |-> stored.ids[i], app |-> NoAppId, title |-> NoTitle,
                              mode |-> ExactMode, rules |-> <<>>]
        BY <1>3, <3>2
      <4> QED BY <3>1, <4>1 DEF HasRow
    <3>3. CASE version = 2
      <4>1. old.windows[i] = [id |-> stored.ids[i], app |-> stored.apps[i],
                              title |-> stored.titles[i], mode |-> stored.modes[i],
                              rules |-> <<>>]
        BY <1>3, <3>3
      <4> QED BY <3>1, <4>1 DEF HasRow
    <3> QED BY <3>2, <3>3
  <2> HIDE DEF old
  <2> QED BY <2>1, OlderWindow
<1> HIDE DEF old
<1>5. ResolvesTo(old, infos, outs) => ResolvesTo(tok, infos, outs)
  BY <1>3, <1>4 DEF ResolvesTo
<1>6. ~ NeedsConsentWith(old, infos)
  BY <1>3, <1>4 DEF NeedsConsentWith
<1> QED BY <1>5, <1>6 DEF old, stored

\* A new token has the rules of the capture, or the client's.
LEMMA TokenIsShort ==
  ASSUME NEW cap \in Capture, NEW src, NEW ext, Len(ext) <= MaxRules, NEW infos, NEW outs,
         ShortCapture(cap), TokenFor(cap, src, ext, infos, outs) # NoToken
  PROVE  ShortSource(TokenFor(cap, src, ext, infos, outs))
<1> DEFINE n == Len(cap.windows)
           tok == TokenFor(cap, src, ext, infos, outs)
           rules == Resize(cap.rules, n, ext)
<1>1. \A i \in 1..n : Len(rules[i]) <= MaxRules
  BY DEF ShortCapture, Resize
<1> HIDE DEF rules
<1>2. /\ DOMAIN tok.windows = 1..n
      /\ \A i \in 1..n : tok.windows[i].rules = IF rules[i] = <<>> THEN ext ELSE rules[i]
  BY DEF TokenFor, rules
<1> HIDE DEF tok
<1>3. ShortSource(tok)
  BY <1>1, <1>2 DEF ShortSource
<1> QED BY <1>3 DEF tok

LEMMA RestoredIsShort ==
  ASSUME NEW c \in Calls, session[c] \in SessionData, session[c].src # NoSource, NEW infos
  PROVE  ShortCapture(RestoredCapture(c, infos))
<1>1. session[c].src \in Tokens
  BY DEF SessionData
<1>2. \A i \in DOMAIN session[c].src.windows : Len(session[c].src.windows[i].rules) <= MaxRules
  BY <1>1, CosmicAssumption
<1>3. RestoredCapture(c, infos).rules
        = [i \in DOMAIN session[c].src.windows |-> session[c].src.windows[i].rules]
  BY DEF RestoredCapture
<1> QED BY <1>2, <1>3 DEF ShortCapture

LEMMA InitRules == Init => RulesInv
BY DEF Init, NoMessage, Unanswered, RulesInv

\* No step makes a list of rules longer.
LEMMA StepRules == TypeInv /\ RulesInv /\ [Next]_vars => RulesInv'
<1> SUFFICES ASSUME TypeInv, RulesInv, [Next]_vars PROVE RulesInv'
  OBVIOUS
<1> USE DEF TypeInv, TypeOK, waylandVars, startVars
<1>0. \A c \in Calls : session[c] \in SessionData
  OBVIOUS
<1>1. ASSUME NEW c \in Calls, SelectSources(c) PROVE RulesInv'
  BY <1>1 DEF SelectSources, RulesInv
<1>2. ASSUME NEW c \in Calls, RefuseSources(c) PROVE RulesInv'
  <2>1. answer'[c].token = NoToken
    BY <1>2 DEF RefuseSources
  <2> QED BY <1>2, <2>1 DEF RefuseSources, RulesInv
<1>3. ASSUME NEW c \in Calls, Begin(c) PROVE RulesInv'
  BY <1>3 DEF Begin, RulesInv
<1>4. ASSUME NEW c \in Calls, Restore(c) PROVE RulesInv'
  <2>1. session[c].src # NoSource => ShortCapture(RestoredCapture(c, toplevels))
    BY <1>0, RestoredIsShort
  <2> QED BY <1>4, <2>1 DEF Restore, GoAsk, GoCapture, RulesInv
<1>5. ASSUME NEW c \in Calls, Check(c) PROVE RulesInv'
  <2>1. session[c].src # NoSource
    BY <1>5 DEF Check, ReadyInv
  <2>2. ShortCapture(RestoredCapture(c, toplevels))
    BY <1>0, <2>1, RestoredIsShort
  <2> QED BY <1>5, <2>2 DEF Check, GoAsk, GoCapture, RulesInv
<1>6. ASSUME NEW c \in Calls, Register(c) PROVE RulesInv'
  BY <1>6 DEF Register, RulesInv
<1>7. ASSUME NEW c \in Calls, Receive(c) PROVE RulesInv'
  <2>1. chan[c].state = "sources" => chan[c].sources # NoCapture
    BY CosmicAssumption DEF ReadyInv
  <2> QED BY <1>7, <2>1 DEF Receive, GoAsk, GoCapture, Dropped, RulesInv
<1>8. ASSUME NEW c \in Calls, Timeout(c) PROVE RulesInv'
  BY <1>8 DEF Timeout, RulesInv
<1>9. ASSUME NEW c \in Calls, Fail(c) PROVE RulesInv'
  <2>1. answer'[c].token = NoToken
    BY <1>9 DEF Fail, Answer
  <2> QED BY <1>9, <2>1 DEF Fail, Answer, Dropped, RulesInv
<1>10. ASSUME NEW c \in Calls, Pick(c) PROVE RulesInv'
  <2>1. capture'[c] = capture[c] \/ ShortCapture(capture'[c])
    <3>1. CASE UNCHANGED capture
      BY <3>1
    <3>2. CASE \E i \in DOMAIN toplevels, m \in PickModes, r \in PickRules :
                 capture' = [capture EXCEPT ![c] =
                   [outputs |-> {}, windows |-> <<toplevels[i]>>, modes |-> <<m>>, rules |-> <<r>>]]
      <4>1. PICK i \in DOMAIN toplevels, m \in PickModes, r \in PickRules :
                 capture' = [capture EXCEPT ![c] =
                   [outputs |-> {}, windows |-> <<toplevels[i]>>, modes |-> <<m>>, rules |-> <<r>>]]
        BY <3>2
      <4>2. capture'[c].rules = <<r>>
        BY <4>1
      <4>3. Len(r) <= MaxRules
        BY CosmicAssumption
      <4> QED BY <4>2, <4>3 DEF ShortCapture
    <3>3. CASE \E o \in outputs : capture' = [capture EXCEPT ![c] =
                  [outputs |-> {o}, windows |-> <<>>, modes |-> <<>>, rules |-> <<>>]]
      <4>1. capture'[c].rules = <<>>
        BY <3>3
      <4> QED BY <4>1 DEF ShortCapture
    <3> QED BY <1>10, <3>1, <3>2, <3>3 DEF Pick
  <2>2. /\ answer'[c].token = NoToken \/ answer' = answer
        /\ chan' = chan
        /\ \A d \in Calls \ {c} : capture'[d] = capture[d] /\ answer'[d] = answer[d]
    BY <1>10 DEF Pick, Answer
  <2> QED BY <2>1, <2>2 DEF RulesInv
<1>11. ASSUME NEW c \in Calls, Finish(c) PROVE RulesInv'
  <2> DEFINE token == TokenFor(capture[c], session[c].src, session[c].rules, toplevels, outputs)
  <2>1. token # NoToken => ShortSource(token)
    <3>1. capture[c] \in Capture
      BY <1>11 DEF Finish, ReadyInv
    <3>2. ShortCapture(capture[c])
      BY <3>1, CosmicAssumption DEF RulesInv
    <3>3. Len(session[c].rules) <= MaxRules
      <4>1. session[c].rules \in ExtRules \cup {<<>>}
        BY <1>0 DEF SessionData
      <4>2. Len(<<>>) <= MaxRules
        BY TokenAssumption
      <4> QED BY <4>1, <4>2, CosmicAssumption
    <3> QED BY <3>1, <3>2, <3>3, TokenIsShort
  <2> HIDE DEF token
  <2>2. \/ answer'[c].token = NoToken
        \/ answer'[c].token = token
    BY <1>11 DEF Finish, Answer, token
  <2>3. /\ UNCHANGED <<chan, capture>>
        /\ \A d \in Calls \ {c} : answer'[d] = answer[d]
    BY <1>11 DEF Finish, Answer
  <2> QED BY <2>1, <2>2, <2>3 DEF RulesInv
<1>12. ASSUME NEW c \in Calls, Cancel(c) PROVE RulesInv'
  BY <1>12 DEF Cancel, Dropped, RulesInv
<1>13. ASSUME NEW c \in Calls, DrainOne(c) PROVE RulesInv'
  <2>1. IsOpen(c) => session[c].src # NoSource
    BY DEF IsOpen, ReadyInv
  <2>2. IsOpen(c) => ShortCapture(RestoredCapture(c, snapshot))
    BY <1>0, <2>1, RestoredIsShort
  <2> QED BY <1>13, <2>2 DEF DrainOne, Send, RulesInv
<1>14. UpdateToplevels \/ TakeSnapshot \/ BeginDrain \/ EndDrain \/ OutputsChange
         \/ UNCHANGED vars
       => UNCHANGED <<chan, capture, answer>>
  BY DEF UpdateToplevels, TakeSnapshot, BeginDrain, EndDrain, OutputsChange, vars
<1>15. CASE UNCHANGED <<chan, capture, answer>>
  BY <1>15 DEF RulesInv
<1> QED BY <1>1, <1>2, <1>3, <1>4, <1>5, <1>6, <1>7, <1>8, <1>9, <1>10, <1>11, <1>12, <1>13,
           <1>14, <1>15 DEF Next

\* A token handed out is decoded to itself in a later session, whatever its windows, rules and
\* limit, also past a rule that cannot be read any more; what older versions stored of it restores
\* nothing more, and never asks.
THEOREM TokensComeBack == Spec => []TokenComesBack
<1>1. TypeInv /\ RulesInv => TokenComesBack
  <2> SUFFICES ASSUME TypeInv, RulesInv, NEW c \in Calls, answer[c].token # NoToken
               PROVE  LET tok == answer[c].token
                      IN  /\ Decoded(StoredData(tok, 3)) = tok
                          /\ \A pair \in Unreadable : Decoded(Before(pair, StoredData(tok, 3))) = tok
                          /\ \A version \in {1, 2} :
                               LET old == Decoded(StoredData(tok, version))
                               IN  /\ ResolvesTo(old, toplevels, outputs)
                                        => ResolvesTo(tok, toplevels, outputs)
                                   /\ ~ NeedsConsentWith(old, toplevels)
    BY DEF TokenComesBack
  <2>1. answer[c].token \in Sources
    BY DEF TypeInv, TypeOK, Response
  <2>2. ShortSource(answer[c].token)
    BY DEF RulesInv
  <2>3. Decoded(StoredData(answer[c].token, 3)) = answer[c].token
    BY <2>1, <2>2, DecodesToItself
  <2>4. ASSUME NEW version \in {1, 2}
        PROVE  /\ ResolvesTo(Decoded(StoredData(answer[c].token, version)), toplevels, outputs)
                    => ResolvesTo(answer[c].token, toplevels, outputs)
               /\ ~ NeedsConsentWith(Decoded(StoredData(answer[c].token, version)), toplevels)
    BY <2>1, OlderDataRestoresNoMore
  <2>5. \A pair \in Unreadable : Decoded(Before(pair, StoredData(answer[c].token, 3))) = answer[c].token
    BY <2>1, <2>2, DecodesBehind
  <2> QED BY <2>3, <2>4, <2>5
<1>2. Spec => [](TypeInv /\ RulesInv)
  BY InitType, StepType, InitRules, StepRules, PTL DEF Spec
<1> QED BY <1>1, <1>2, PTL

(***************************************************************************)
(* The COSMIC backend implements the contract of a Start, for any number   *)
(* of Starts, any window lists, tokens and policies.                       *)
(*                                                                         *)
(* The mapping hides the locks, the lists, the channels and the drain: a   *)
(* step of the Wayland thread, and a step of a Start that only moves on    *)
(* within its decision, leave the contract's variables alone.              *)
(***************************************************************************)

\* The refinement mapping.
PlaceBar  == [c \in Calls |-> ContractAt(c)]
TermsBar  == [c \in Calls |-> ContractTerms(c)]
AnswerBar == [c \in Calls |-> [code |-> answer[c].code, failure |-> answer[c].failure]]

\* The contract's actions are the backend's.
LEMMA SameActions ==
  /\ Contract!Known = Known
  /\ Contract!Prompt = Prompt /\ Contract!Skip = Skip /\ Contract!Error = Error
BY DEF Contract!Known, Contract!Prompt, Contract!Skip, Contract!Error, Known, Prompt, Skip, Error

\* A Start whose data is a saved source has something to restore, and is what its session says.
TermsTyped == \A c \in Calls : ContractTerms(c) \in Contract!Terms

LEMMA TermsType == TypeInv => TermsTyped
<1> SUFFICES ASSUME TypeInv, NEW c \in Calls PROVE ContractTerms(c) \in Contract!Terms
  BY DEF TermsTyped
<1>1. session[c] \in SessionData
  BY DEF TypeInv, TypeOK
<1>2. session[c].action \in Known
  BY <1>1 DEF SessionData
<1>3. (session[c].src # NoSource) \in BOOLEAN
      /\ (session[c].src # NoSource /\ ReachesBeyond(session[c].src)) \in BOOLEAN
  BY DEF ReachesBeyond
<1> DEFINE restoring == session[c].src # NoSource
           consent   == session[c].src # NoSource /\ ReachesBeyond(session[c].src)
<1>4. ContractTerms(c) = [restoring |-> restoring, action |-> session[c].action, consent |-> consent]
  BY DEF ContractTerms
<1>5. restoring \in BOOLEAN /\ consent \in BOOLEAN
  BY <1>3
<1> HIDE DEF restoring, consent
<1> QED BY <1>2, <1>4, <1>5, SameActions DEF Contract!Terms

\* A step that moves one Start moves that Start in the contract, from and to the places they map to.
LEMMA PlaceMoves ==
  ASSUME TypeInv, NEW c \in Calls, NEW place \in Places, pc' = [pc EXCEPT ![c] = place]
  PROVE  /\ Contract!Move(c, ContractAt(c), ContractAt(c)')
         /\ pc'[c] = place
<1>1. pc \in [Calls -> Places]
  BY DEF TypeInv, TypeOK
<1>2. pc'[c] = place /\ \A d \in Calls : d # c => pc'[d] = pc[d]
  BY <1>1
<1>3. \A d \in Calls : d # c => ContractAt(d)' = ContractAt(d)
  BY <1>2 DEF ContractAt
<1>4. PlaceBar' = [PlaceBar EXCEPT ![c] = ContractAt(c)'] /\ PlaceBar[c] = ContractAt(c)
  BY <1>3 DEF PlaceBar
<1> QED BY <1>2, <1>4 DEF Contract!Move, PlaceBar

\* A step that answers one Start answers it in the contract.
LEMMA AnswerMoves ==
  ASSUME TypeInv, NEW c \in Calls, NEW code, NEW failure, NEW token,
         answer' = [answer EXCEPT ![c] = [code |-> code, failure |-> failure, token |-> token]]
  PROVE  AnswerBar' = [AnswerBar EXCEPT ![c] = [code |-> code, failure |-> failure]]
<1>1. answer \in [Calls -> Response]
  BY DEF TypeInv, TypeOK
<1>2. /\ answer'[c].code = code /\ answer'[c].failure = failure
      /\ \A d \in Calls : d # c => answer'[d] = answer[d]
  BY <1>1
<1> QED BY <1>2 DEF AnswerBar

\* The contract begins where the backend does.
LEMMA InitKeeps == Init => Contract!Init
<1> SUFFICES ASSUME Init PROVE Contract!Init
  OBVIOUS
<1>1. PlaceBar = [c \in Calls |-> "selecting"]
  BY DEF Init, PlaceBar, ContractAt
<1>2. TermsBar \in [Calls -> Contract!Terms]
  BY InitType, TermsType DEF TermsBar, TermsTyped
<1>3. AnswerBar = [c \in Calls |-> Contract!NoAnswer]
  BY DEF Init, Unanswered, AnswerBar, Contract!NoAnswer
<1> QED BY <1>1, <1>2, <1>3 DEF Contract!Init, PlaceBar, TermsBar, AnswerBar

\* What leaves the session and the answer alone leaves the terms and the answer of the contract alone.
LEMMA SameTerms == session' = session => TermsBar' = TermsBar
BY DEF TermsBar, ContractTerms

LEMMA SameAnswer == answer' = answer => AnswerBar' = AnswerBar
BY DEF AnswerBar

\* A step within a decision, or of another thread, is none of the contract's.
LEMMA Stutters ==
  ASSUME PlaceBar' = PlaceBar, session' = session, answer' = answer
  PROVE  UNCHANGED Contract!contractVars
<1>1. TermsBar' = TermsBar /\ AnswerBar' = AnswerBar
  BY SameTerms, SameAnswer
<1> QED BY <1>1 DEF Contract!contractVars, PlaceBar, TermsBar, AnswerBar

LEMMA DecidesOn ==
  ASSUME TypeInv, NEW c \in Calls, NEW place \in Deciding, pc' = [pc EXCEPT ![c] = place],
         pc[c] \in Deciding
  PROVE  PlaceBar' = PlaceBar
<1>1. pc \in [Calls -> Places]
  BY DEF TypeInv, TypeOK
<1>2. pc'[c] = place /\ \A d \in Calls : d # c => pc'[d] = pc[d]
  BY <1>1
<1>3. \A d \in Calls : ContractAt(d)' = ContractAt(d)
  BY <1>2 DEF ContractAt, Deciding
<1> QED BY <1>3 DEF PlaceBar

\* The decision to capture what the token stands for.
LEMMA GrantKeeps ==
  ASSUME TypeInv, NEW c \in Calls, NEW sources, GoCapture(c, sources),
         pc[c] \in Deciding, session[c].src # NoSource, session' = session, answer' = answer
  PROVE  Contract!Grant(c)
<1>1. Contract!Move(c, ContractAt(c), ContractAt(c)') /\ pc'[c] = "capturing"
  BY PlaceMoves DEF GoCapture, Places
<1>2. ContractAt(c) = "deciding" /\ ContractAt(c)' = "granted"
  BY <1>1 DEF ContractAt, Deciding
<1>3. TermsBar' = TermsBar /\ AnswerBar' = AnswerBar
  BY SameTerms, SameAnswer
<1>4. TermsBar[c].restoring
  BY DEF TermsBar, ContractTerms
<1> QED BY <1>1, <1>2, <1>3, <1>4 DEF Contract!Grant, TermsBar, AnswerBar

\* The decision to ask: without saved sources, under prompt, or for consent.
LEMMA AskKeeps ==
  ASSUME TypeInv, NEW c \in Calls, GoAsk(c), pc[c] \in Deciding,
         \/ session[c].src = NoSource
         \/ session[c].action = Prompt
         \/ ReachesBeyond(session[c].src),
         session' = session, answer' = answer
  PROVE  Contract!Ask(c)
<1>1. Contract!Move(c, ContractAt(c), ContractAt(c)') /\ pc'[c] = "asking"
  BY PlaceMoves DEF GoAsk, Places
<1>2. ContractAt(c) = "deciding" /\ ContractAt(c)' = "asking"
  BY <1>1 DEF ContractAt, Deciding
<1>3. TermsBar' = TermsBar /\ AnswerBar' = AnswerBar
  BY SameTerms, SameAnswer
<1>4. (TermsBar[c].restoring /\ TermsBar[c].action # Contract!Prompt) => TermsBar[c].consent
  BY SameActions DEF TermsBar, ContractTerms
<1> QED BY <1>1, <1>2, <1>3, <1>4 DEF Contract!Ask, TermsBar, AnswerBar

\* An answer, as the contract sees it.
LEMMA AnswerReplies ==
  ASSUME TypeInv, NEW c \in Calls, NEW code, NEW failure, NEW token, Answer(c, code, failure, token)
  PROVE  /\ Contract!Move(c, ContractAt(c), "done")
         /\ Contract!Reply(c, code, failure)
<1>1. Contract!Move(c, ContractAt(c), ContractAt(c)') /\ pc'[c] = "done"
  BY PlaceMoves DEF Answer, Places
<1>2. ContractAt(c)' = "done"
  BY <1>1 DEF ContractAt, Deciding
<1>3. AnswerBar' = [AnswerBar EXCEPT ![c] = [code |-> code, failure |-> failure]]
  BY AnswerMoves DEF Answer
<1> QED BY <1>1, <1>2, <1>3 DEF Contract!Reply, AnswerBar

\* Every step of the backend is a step of the contract, or none.
LEMMA StepKeeps ==
  TypeInv /\ CaptureInv /\ [Next]_vars => [Contract!Next]_(Contract!contractVars)
<1> SUFFICES ASSUME TypeInv, CaptureInv, [Next]_vars
             PROVE  (\E c \in Calls :
                       \/ Contract!Select(c) \/ Contract!Refuse(c) \/ Contract!Begin(c)
                       \/ Contract!Ask(c) \/ Contract!Grant(c) \/ Contract!FailByPolicy(c)
                       \/ Contract!Dismiss(c) \/ Contract!Finish(c) \/ Contract!Cancel(c))
                    \/ UNCHANGED Contract!contractVars
  BY DEF Contract!Next
<1> USE DEF waylandVars, startVars
<1>1. ASSUME NEW c \in Calls, SelectSources(c) PROVE Contract!Select(c)
  <2>1. pc' = pc /\ answer' = answer /\ ContractAt(c) = "selecting"
    BY <1>1 DEF SelectSources, ContractAt
  <2>2. PlaceBar' = PlaceBar /\ PlaceBar[c] = "selecting"
    BY <2>1 DEF PlaceBar, ContractAt
  <2>3. Contract!Move(c, "selecting", "selecting")
    <3>1. PlaceBar = [PlaceBar EXCEPT ![c] = "selecting"]
      BY <2>2 DEF PlaceBar
    <3> QED BY <2>2, <3>1 DEF Contract!Move, PlaceBar
  <2>4. ContractTerms(c)' \in Contract!Terms
    <3>1. TypeInv'
      BY StepType
    <3>2. TermsTyped'
      BY <3>1, TermsType, PTL
    <3> QED BY <3>2 DEF TermsTyped
  <2>5. TermsBar' = [TermsBar EXCEPT ![c] = ContractTerms(c)']
    <3>1. \A d \in Calls : d # c => session'[d] = session[d]
      BY <1>1 DEF SelectSources, TypeInv, TypeOK
    <3>2. \A d \in Calls : d # c => ContractTerms(d)' = ContractTerms(d)
      BY <3>1 DEF ContractTerms
    <3> QED BY <3>2 DEF TermsBar
  <2>6. AnswerBar' = AnswerBar
    BY <2>1, SameAnswer
  <2> QED BY <2>3, <2>4, <2>5, <2>6 DEF Contract!Select, Contract!SetTerms, TermsBar, AnswerBar
<1>2. ASSUME NEW c \in Calls, RefuseSources(c) PROVE Contract!Refuse(c)
  <2>1. pc[c] = "idle" /\ pc' = [pc EXCEPT ![c] = "refused"] /\ session' = session
    BY <1>2 DEF RefuseSources
  <2>2. Contract!Move(c, ContractAt(c), ContractAt(c)') /\ pc'[c] = "refused"
    BY <2>1, PlaceMoves DEF Places
  <2>3. ContractAt(c) = "selecting" /\ ContractAt(c)' = "refused"
    BY <2>1, <2>2 DEF ContractAt, Deciding
  <2>4. PICK action \in {Skip, Error} :
          answer' = [answer EXCEPT ![c] =
            [code |-> IF action = Skip THEN "cancelled" ELSE "other",
             failure |-> action = Error, token |-> NoToken]]
    BY <1>2 DEF RefuseSources
  <2> DEFINE reply == [code |-> IF action = Skip THEN "cancelled" ELSE "other",
                       failure |-> action = Error, token |-> NoToken]
  <2>5. \/ answer' = [answer EXCEPT ![c] = [code |-> "cancelled", failure |-> FALSE, token |-> NoToken]]
        \/ answer' = [answer EXCEPT ![c] = [code |-> "other", failure |-> TRUE, token |-> NoToken]]
    <3>1. CASE action = Skip
      <4>1. (action = Error) = FALSE
        BY <3>1 DEF Skip, Error
      <4>2. reply = [code |-> "cancelled", failure |-> FALSE, token |-> NoToken]
        BY <3>1, <4>1
      <4> QED BY <2>4, <4>2
    <3>2. CASE action = Error
      <4>1. (action = Error) = TRUE /\ action # Skip
        BY <3>2 DEF Skip, Error
      <4>2. reply = [code |-> "other", failure |-> TRUE, token |-> NoToken]
        BY <4>1
      <4> QED BY <2>4, <4>2
    <3> QED BY <3>1, <3>2
  <2>6. \/ AnswerBar' = [AnswerBar EXCEPT ![c] = [code |-> "cancelled", failure |-> FALSE]]
        \/ AnswerBar' = [AnswerBar EXCEPT ![c] = [code |-> "other", failure |-> TRUE]]
    BY <2>5, AnswerMoves
  <2>7. TermsBar' = TermsBar
    BY <2>1, SameTerms
  <2> QED BY <2>2, <2>3, <2>6, <2>7
          DEF Contract!Refuse, Contract!Reply, TermsBar, AnswerBar
<1>3. ASSUME NEW c \in Calls, Begin(c) PROVE Contract!Begin(c)
  <2>1. Contract!Move(c, ContractAt(c), ContractAt(c)') /\ pc'[c] = "restoring"
    BY <1>3, PlaceMoves DEF Begin, Places
  <2>2. ContractAt(c) = "selecting" /\ ContractAt(c)' = "deciding"
    BY <1>3, <2>1 DEF Begin, ContractAt, Deciding
  <2>3. TermsBar' = TermsBar /\ AnswerBar' = AnswerBar
    BY <1>3, SameTerms, SameAnswer DEF Begin
  <2> QED BY <2>1, <2>2, <2>3 DEF Contract!Begin, TermsBar, AnswerBar
<1>4. ASSUME NEW c \in Calls, Restore(c)
      PROVE  Contract!Ask(c) \/ Contract!Grant(c) \/ UNCHANGED Contract!contractVars
  <2>1. pc[c] \in Deciding /\ session' = session /\ answer' = answer
    BY <1>4 DEF Restore, Deciding
  <2>2. CASE GoAsk(c) /\ (session[c].src = NoSource \/ session[c].action = Prompt)
    BY <2>1, <2>2, AskKeeps
  <2>3. CASE session[c].src # NoSource /\ GoCapture(c, RestoredCapture(c, toplevels))
    BY <2>1, <2>3, GrantKeeps
  <2>4. CASE pc' = [pc EXCEPT ![c] = "checking"]
    BY <2>1, <2>4, DecidesOn, Stutters DEF Deciding
  <2> QED BY <1>4, <2>2, <2>3, <2>4 DEF Restore
<1>5. ASSUME NEW c \in Calls, Check(c)
      PROVE  Contract!Ask(c) \/ Contract!Grant(c) \/ UNCHANGED Contract!contractVars
  <2>1. pc[c] \in Deciding /\ session' = session /\ answer' = answer
    BY <1>5 DEF Check, Deciding
  <2>2. session[c].src # NoSource /\ session[c].src \in Sources
    BY <1>5, CosmicAssumption DEF Check, TypeInv, TypeOK, ReadyInv, SessionData
  <2>3. CASE GoCapture(c, RestoredCapture(c, toplevels))
    BY <2>1, <2>2, <2>3, GrantKeeps
  <2>4. CASE GoAsk(c) /\ Consentable(c, toplevels)
    <3>1. toplevels \in Seq(Window)
      BY CosmicAssumption DEF TypeInv, TypeOK
    <3>2. ReachesBeyond(session[c].src)
      BY <2>2, <2>4, <3>1, ConsentReachesBeyond
    <3> QED BY <2>1, <2>4, <3>2, AskKeeps
  <2>5. CASE pc' = [pc EXCEPT ![c] = "registering"]
    BY <2>1, <2>5, DecidesOn, Stutters DEF Deciding
  <2> QED BY <1>5, <2>3, <2>4, <2>5 DEF Check
<1>6. ASSUME NEW c \in Calls, Register(c) PROVE UNCHANGED Contract!contractVars
  <2>1. pc[c] \in Deciding /\ session' = session /\ answer' = answer
    BY <1>6 DEF Register, Deciding
  <2>2. pc' = [pc EXCEPT ![c] = "failing"] \/ pc' = [pc EXCEPT ![c] = "waiting"]
    BY <1>6 DEF Register
  <2> QED BY <2>1, <2>2, DecidesOn, Stutters DEF Deciding
<1>7. ASSUME NEW c \in Calls, Receive(c) PROVE Contract!Ask(c) \/ Contract!Grant(c)
  <2>1. pc[c] \in Deciding /\ session' = session /\ answer' = answer
    BY <1>7 DEF Receive, Deciding
  <2>2. session[c].src # NoSource
    BY <1>7 DEF Receive, TypeInv, ReadyInv
  <2>3. CASE GoCapture(c, chan[c].sources)
    BY <2>1, <2>2, <2>3, GrantKeeps
  <2>4. CASE chan[c].state = "consent" /\ GoAsk(c)
    <3>1. ReachesBeyond(session[c].src)
      BY <2>4 DEF CaptureInv, ConsentInv
    <3> QED BY <2>1, <2>4, <3>1, AskKeeps
  <2> QED BY <1>7, <2>3, <2>4 DEF Receive
<1>8. ASSUME NEW c \in Calls, Timeout(c) PROVE UNCHANGED Contract!contractVars
  BY <1>8, DecidesOn, Stutters DEF Timeout, Deciding
<1>9. ASSUME NEW c \in Calls, Fail(c) PROVE Contract!FailByPolicy(c)
  <2>1. ContractAt(c) = "deciding" /\ session[c].src # NoSource /\ session' = session
    BY <1>9 DEF Fail, ContractAt, Deciding, TypeInv, ReadyInv
  <2>2. TermsBar[c].restoring /\ TermsBar[c].action = session[c].action /\ TermsBar' = TermsBar
    BY <2>1, SameTerms DEF TermsBar, ContractTerms
  <2>3. CASE session[c].action = Skip /\ Answer(c, "cancelled", FALSE, NoToken)
    <3>1. Contract!Move(c, "deciding", "done") /\ Contract!Reply(c, "cancelled", FALSE)
      BY <2>1, <2>3, AnswerReplies
    <3> QED BY <2>2, <2>3, <3>1, SameActions DEF Contract!FailByPolicy, TermsBar
  <2>4. CASE session[c].action = Error /\ Answer(c, "other", TRUE, NoToken)
    <3>1. Contract!Move(c, "deciding", "done") /\ Contract!Reply(c, "other", TRUE)
      BY <2>1, <2>4, AnswerReplies
    <3> QED BY <2>2, <2>4, <3>1, SameActions DEF Contract!FailByPolicy, TermsBar
  <2> QED BY <1>9, <2>3, <2>4 DEF Fail
<1>10. ASSUME NEW c \in Calls, Pick(c) PROVE Contract!Dismiss(c) \/ Contract!Grant(c)
  <2>1. ContractAt(c) = "asking" /\ session' = session
    BY <1>10 DEF Pick, ContractAt, Deciding
  <2>2. TermsBar' = TermsBar
    BY <2>1, SameTerms
  <2>3. CASE Answer(c, "cancelled", FALSE, NoToken)
    <3>1. Contract!Move(c, "asking", "done") /\ Contract!Reply(c, "cancelled", FALSE)
      BY <2>1, <2>3, AnswerReplies
    <3> QED BY <2>2, <3>1 DEF Contract!Dismiss, TermsBar
  <2>4. CASE pc' = [pc EXCEPT ![c] = "capturing"] /\ answer' = answer
    <3>1. Contract!Move(c, ContractAt(c), ContractAt(c)') /\ pc'[c] = "capturing"
      BY <2>4, PlaceMoves DEF Places
    <3>2. ContractAt(c)' = "granted"
      BY <3>1 DEF ContractAt, Deciding
    <3>3. AnswerBar' = AnswerBar
      BY <2>4, SameAnswer
    <3> QED BY <2>1, <2>2, <3>1, <3>2, <3>3 DEF Contract!Grant, TermsBar, AnswerBar
  <2> QED BY <1>10, <2>3, <2>4 DEF Pick
<1>11. ASSUME NEW c \in Calls, Finish(c) PROVE Contract!Finish(c)
  <2>1. ContractAt(c) = "granted" /\ session' = session
    BY <1>11 DEF Finish, ContractAt, Deciding
  <2>2. TermsBar' = TermsBar
    BY <2>1, SameTerms
  <2>3. \E token : Answer(c, "success", FALSE, token) \/ Answer(c, "other", FALSE, token)
    BY <1>11 DEF Finish
  <2>4. /\ Contract!Move(c, "granted", "done")
        /\ Contract!Reply(c, "success", FALSE) \/ Contract!Reply(c, "other", FALSE)
    BY <2>1, <2>3, AnswerReplies
  <2> QED BY <2>2, <2>4 DEF Contract!Finish, TermsBar
<1>12. ASSUME NEW c \in Calls, Cancel(c) PROVE Contract!Cancel(c)
  <2>1. ContractAt(c) \in {"deciding", "asking", "granted"}
    BY <1>12 DEF Cancel, ContractAt, Deciding
  <2>2. Contract!Move(c, ContractAt(c), ContractAt(c)') /\ pc'[c] = "cancelled"
    BY <1>12, PlaceMoves DEF Cancel, Places
  <2>3. ContractAt(c)' = "cancelled"
    BY <2>2 DEF ContractAt, Deciding
  <2>4. TermsBar' = TermsBar /\ AnswerBar' = AnswerBar
    BY <1>12, SameTerms, SameAnswer DEF Cancel
  <2>5. PlaceBar[c] = ContractAt(c)
    BY DEF PlaceBar
  <2> QED BY <2>1, <2>2, <2>3, <2>4, <2>5 DEF Contract!Cancel, PlaceBar, TermsBar, AnswerBar
<1>13. ASSUME pc' = pc, session' = session, answer' = answer
       PROVE  UNCHANGED Contract!contractVars
  BY <1>13, Stutters DEF PlaceBar, ContractAt
<1>14. ASSUME NEW c \in Calls, DrainOne(c) PROVE UNCHANGED Contract!contractVars
  BY <1>13, <1>14 DEF DrainOne
<1>15. CASE UpdateToplevels \/ TakeSnapshot \/ BeginDrain \/ EndDrain \/ OutputsChange
  BY <1>13, <1>15 DEF UpdateToplevels, TakeSnapshot, BeginDrain, EndDrain, OutputsChange
<1>16. CASE UNCHANGED vars
  BY <1>13, <1>16 DEF vars
<1> QED BY <1>1, <1>2, <1>3, <1>4, <1>5, <1>6, <1>7, <1>8, <1>9, <1>10, <1>11, <1>12,
           <1>14, <1>15, <1>16 DEF Next

\* The backend implements the contract: for any number of Starts, lists, tokens and policies, whatever the
\* Wayland thread does meanwhile, a Start asks, captures and fails only as the contract allows.
THEOREM BackendKeepsContract == Spec => KeepsContract
BY InitKeeps, StepKeeps, CaptureCorrect, PTL DEF Spec, KeepsContract, Contract!Spec

=================================================================================
