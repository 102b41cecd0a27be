--------------------------- MODULE CosmicScreenCast ---------------------------
(***************************************************************************)
(* The COSMIC portal backend: SelectSources and Start of its ScreenCast    *)
(* interface, and the thread that follows the compositor's window list.    *)
(*                                                                         *)
(* A Start whose saved sources are unavailable registers a pending rescue  *)
(* and waits, at most 30 s, on a one-shot channel.  The Wayland thread     *)
(* publishes every new window list and then drains the pending rescues.    *)
(* The two meet at two mutexes:                                            *)
(*   toplevels        held by a Start across its check and registration    *)
(*                    (variable toplevelsLock); the Wayland thread takes   *)
(*                    it for single assignments and copies, so it is never *)
(*                    seen holding it;                                     *)
(*   pending_rescues  held by the Wayland thread for a whole drain (wl =   *)
(*                    "draining"); a Start takes it for its last step.     *)
(*                                                                         *)
(* One session has one call, its Start; SelectSources precedes it.         *)
(***************************************************************************)
EXTENDS RestoreToken, RestoreActions, FiniteSets

CONSTANTS
  Calls,        \* the Start calls, each on a session of its own
  Lists,        \* the window lists the compositor may present
  Tokens,       \* the persisted sources that restore data may decode to
  Policies,     \* restore policies a client may send
  ExtRules,     \* the restore_match_rules a client may send, each a sequence of rules
  PickModes,    \* rescue modes the picker may return
  PickRules,    \* alias rules the picker may return for one window
  Unreadable,   \* stored pairs that are no rule to this version of the backend
  MaxPending,   \* MAX_PENDING_RESCUES
  NoCall, NoCapture

ASSUME CosmicAssumption ==
  /\ Lists \subseteq Seq(Window)
  /\ Tokens \subseteq Sources
  /\ \A p \in Policies : IsWirePolicy(p)
  /\ ExtRules \subseteq Seq(Rule)
  /\ PickRules \subseteq Seq(Rule)
  /\ PickModes \subseteq Nat
  /\ \A src \in Tokens : \A i \in DOMAIN src.windows : Len(src.windows[i].rules) <= MaxRules
  /\ \A rules \in ExtRules \cup PickRules : Len(rules) <= MaxRules
  /\ \A pair \in Unreadable : [pattern |-> pair.pattern, scope |-> pair.scope] \notin Rule
  /\ MaxPending \in Nat
  /\ NoCall \notin Calls
  /\ NoCapture \notin Capture

VARIABLES
  toplevels,      \* WaylandHelperInner.toplevels
  outputs,        \* names of the connected outputs (output_infos)
  toplevelsLock,  \* the Start inside check_or_rescue, or NoCall
  pending,        \* pending_rescues: the calls with an entry in the vector
  wl,             \* where the Wayland thread is in update_output_toplevels
  snapshot,       \* its toplevel_snapshot
  draining,       \* entries it drained and has not looked at yet
  session,        \* SessionData of each call's session
  pc,             \* where each Start is
  chan,           \* the one-shot channel of each call's rescue
  capture,        \* the sources a Start is going to capture
  asked,          \* whether the picker was shown to the user
  answer          \* the response of each Start

waylandVars == <<toplevels, snapshot, wl, draining>>
startVars   == <<session, asked, capture, answer>>
vars == <<toplevels, outputs, toplevelsLock, pending, wl, snapshot, draining,
          session, pc, chan, capture, asked, answer>>

SessionData == [src : Tokens \cup {NoSource}, action : Known, rules : ExtRules \cup {<<>>}]
Places      == {"idle", "refused", "restoring", "checking", "registering", "waiting", "failing",
                "asking", "capturing", "done", "cancelled"}
Message     == [state : {"none", "open", "sources", "consent", "closed"},
                sources : Capture \cup {NoCapture}]
Response    == [code : {"none", "success", "cancelled", "other"}, failure : BOOLEAN,
                token : Sources \cup {NoToken}]

Unanswered == [code |-> "none", failure |-> FALSE, token |-> NoToken]
NoMessage  == [state |-> "none", sources |-> NoCapture]

Init ==
  /\ toplevels \in Lists
  /\ outputs \in SUBSET OutputNames
  /\ toplevelsLock = NoCall
  /\ pending = {}
  /\ wl = "idle"
  /\ snapshot = toplevels
  /\ draining = {}
  /\ session = [c \in Calls |-> [src |-> NoSource, action |-> Prompt, rules |-> <<>>]]
  /\ pc = [c \in Calls |-> "idle"]
  /\ chan = [c \in Calls |-> NoMessage]
  /\ capture = [c \in Calls |-> NoCapture]
  /\ asked = [c \in Calls |-> FALSE]
  /\ answer = [c \in Calls |-> Unanswered]

(***************************************************************************)
(* SelectSources.  The sources of an earlier call stay when this one has   *)
(* no restore data, or has data that does not decode under the             *)
(* token_not_found action prompt: NoSource stands for both.                *)
(***************************************************************************)
SelectSources(c) ==
  /\ pc[c] = "idle"
  /\ \E restore \in Tokens \cup {NoSource}, policy \in Policies, ext \in ExtRules :
       session' = [session EXCEPT ![c] =
         [src    |-> IF restore = NoSource THEN @.src ELSE restore,
          action |-> CosmicAction(policy, "source_unavailable"),
          rules  |-> ext]]
  /\ UNCHANGED <<waylandVars, outputs, toplevelsLock, pending, pc, chan, capture,
                 asked, answer>>

\* Undecodable data under skip or error: the early return, before any field is assigned.  The
\* front end closes a session whose SelectSources was refused.
RefuseSources(c) ==
  /\ pc[c] = "idle"
  /\ pc' = [pc EXCEPT ![c] = "refused"]
  /\ \E policy \in Policies :
       LET action == CosmicAction(policy, "token_not_found")
       IN  /\ action \in {Skip, Error}
           /\ answer' = [answer EXCEPT ![c] =
                [code |-> IF action = Skip THEN "cancelled" ELSE "other",
                 failure |-> action = Error, token |-> NoToken]]
  /\ UNCHANGED <<waylandVars, outputs, toplevelsLock, pending, session, chan, capture, asked>>

(***************************************************************************)
(* Start.                                                                  *)
(***************************************************************************)
Resolvable(c, infos)  == ResolvesTo(session[c].src, infos, outputs)
Consentable(c, infos) == NeedsConsentWith(session[c].src, infos)

RestoredCapture(c, infos) ==
  LET saved == session[c].src.windows
  IN  [outputs |-> session[c].src.outputs,
       windows |-> CapturedWindows(session[c].src, infos),
       modes   |-> [i \in DOMAIN saved |-> saved[i].mode],
       rules   |-> [i \in DOMAIN saved |-> saved[i].rules]]

Begin(c) ==
  /\ pc[c] = "idle"
  /\ pc' = [pc EXCEPT ![c] = "restoring"]
  /\ UNCHANGED <<waylandVars, outputs, toplevelsLock, pending, startVars, chan>>

GoCapture(c, sources) ==
  /\ capture' = [capture EXCEPT ![c] = sources]
  /\ pc' = [pc EXCEPT ![c] = "capturing"]
  /\ UNCHANGED asked

GoAsk(c) ==
  /\ asked' = [asked EXCEPT ![c] = TRUE]
  /\ pc' = [pc EXCEPT ![c] = "asking"]
  /\ UNCHANGED capture

\* The immediate restore, over a copy of the list taken under the toplevels lock.
Restore(c) ==
  /\ pc[c] = "restoring"
  /\ toplevelsLock = NoCall
  /\ \/ session[c].src = NoSource /\ GoAsk(c)
     \/ session[c].src # NoSource /\ Resolvable(c, toplevels)
          /\ GoCapture(c, RestoredCapture(c, toplevels))
     \/ session[c].src # NoSource /\ ~ Resolvable(c, toplevels)
          /\ session[c].action = Prompt /\ GoAsk(c)
     \/ session[c].src # NoSource /\ ~ Resolvable(c, toplevels)
          /\ session[c].action # Prompt
          /\ pc' = [pc EXCEPT ![c] = "checking"] /\ UNCHANGED <<capture, asked>>
  /\ UNCHANGED <<waylandVars, outputs, toplevelsLock, pending, session, chan, answer>>

\* Mutant: the check works on a copy of the list.
ReleaseToplevels(c) == toplevelsLock' = NoCall

\* The lock taken for the check is kept for the registration.
HoldToplevels(c) == toplevelsLock' = c

\* check_or_rescue, first half: the list is checked again with the lock held.
Check(c) ==
  /\ pc[c] = "checking"
  /\ toplevelsLock = NoCall
  /\ \/ /\ Resolvable(c, toplevels)
        /\ GoCapture(c, RestoredCapture(c, toplevels))
        /\ UNCHANGED toplevelsLock
     \/ /\ ~ Resolvable(c, toplevels) /\ Consentable(c, toplevels)
        /\ GoAsk(c)
        /\ UNCHANGED toplevelsLock
     \/ /\ ~ Resolvable(c, toplevels) /\ ~ Consentable(c, toplevels)
        /\ HoldToplevels(c)
        /\ pc' = [pc EXCEPT ![c] = "registering"]
        /\ UNCHANGED <<capture, asked>>
  /\ UNCHANGED <<waylandVars, outputs, pending, session, chan, answer>>

\* A sender is closed once its receiver is dropped.
IsOpen(p) == chan[p].state = "open"

\* Mutant: one entry too many.
IsOverfull(live) == Cardinality(live) > MaxPending

IsFull(live) == Cardinality(live) >= MaxPending

\* Second half: the dead entries go, and the call enters unless the vector is full.
Register(c) ==
  /\ pc[c] = "registering"
  /\ wl # "draining"
  /\ toplevelsLock' = NoCall
  /\ LET live == {p \in pending : IsOpen(p)}
     IN  IF IsFull(live)
         THEN /\ pending' = live
              /\ pc' = [pc EXCEPT ![c] = "failing"]
              /\ UNCHANGED chan
         ELSE /\ pending' = live \cup {c}
              /\ pc' = [pc EXCEPT ![c] = "waiting"]
              /\ chan' = [chan EXCEPT ![c] = [state |-> "open", sources |-> NoCapture]]
  /\ UNCHANGED <<waylandVars, outputs, startVars>>

Dropped == [state |-> "closed", sources |-> NoCapture]

\* The receiver yields what the Wayland thread sent.
Receive(c) ==
  /\ pc[c] = "waiting"
  /\ \/ chan[c].state = "sources" /\ GoCapture(c, chan[c].sources)
     \/ chan[c].state = "consent" /\ GoAsk(c)
  /\ chan' = [chan EXCEPT ![c] = Dropped]
  /\ UNCHANGED <<waylandVars, outputs, toplevelsLock, pending, session, answer>>

\* Mutant: a Start that has waited in vain opens the picker.
TimeoutAsks(c) ==
  /\ pc[c] = "waiting"
  /\ IsOpen(c)
  /\ GoAsk(c)
  /\ UNCHANGED <<waylandVars, outputs, toplevelsLock, pending, session, chan, answer>>

\* tokio's timeout polls the receiver before the clock, so it fires on an empty channel
\* only; the receiver lives until the end of the statement (Fail).
Timeout(c) ==
  /\ pc[c] = "waiting"
  /\ IsOpen(c)
  /\ pc' = [pc EXCEPT ![c] = "failing"]
  /\ UNCHANGED <<waylandVars, outputs, toplevelsLock, pending, startVars, chan>>

Answer(c, code, failure, token) ==
  /\ pc' = [pc EXCEPT ![c] = "done"]
  /\ answer' = [answer EXCEPT ![c] = [code |-> code, failure |-> failure, token |-> token]]

\* No rescue: skip ends as cancelled, error as other with a restore_failure.
Fail(c) ==
  /\ pc[c] = "failing"
  /\ \/ session[c].action = Skip /\ Answer(c, "cancelled", FALSE, NoToken)
     \/ session[c].action = Error /\ Answer(c, "other", TRUE, NoToken)
  /\ chan' = [chan EXCEPT ![c] = Dropped]
  /\ UNCHANGED <<waylandVars, outputs, toplevelsLock, pending, session, capture, asked>>

\* The user picks one current window or one output, or dismisses the picker.
Pick(c) ==
  /\ pc[c] = "asking"
  /\ \/ Answer(c, "cancelled", FALSE, NoToken) /\ UNCHANGED capture
     \/ /\ \/ \E i \in DOMAIN toplevels, m \in PickModes, r \in PickRules :
                capture' = [capture EXCEPT ![c] =
                  [outputs |-> {}, windows |-> <<toplevels[i]>>, modes |-> <<m>>, rules |-> <<r>>]]
           \/ \E o \in outputs :
                capture' = [capture EXCEPT ![c] =
                  [outputs |-> {o}, windows |-> <<>>, modes |-> <<>>, rules |-> <<>>]]
        /\ pc' = [pc EXCEPT ![c] = "capturing"]
        /\ UNCHANGED answer
  /\ UNCHANGED <<waylandVars, outputs, toplevelsLock, pending, session, chan, asked>>

(***************************************************************************)
(* Success: the new restore data is made from the window list as it is     *)
(* now, and missing when a captured window or output has gone.             *)
(***************************************************************************)
\* Setting up the streams (not part of the patch) may fail, as Other.
Finish(c) ==
  /\ pc[c] = "capturing"
  /\ toplevelsLock = NoCall
  /\ \/ Answer(c, "success", FALSE,
               TokenFor(capture[c], session[c].src, session[c].rules, toplevels, outputs))
     \/ Answer(c, "other", FALSE, NoToken)
  /\ UNCHANGED <<waylandVars, outputs, toplevelsLock, pending, session, chan, capture, asked>>

\* The request is closed by its caller: the future is dropped at an await, its receiver too.
Cancel(c) ==
  /\ pc[c] \in {"waiting", "asking", "capturing"}
  /\ pc' = [pc EXCEPT ![c] = "cancelled"]
  /\ chan' = [chan EXCEPT ![c] = Dropped]
  /\ UNCHANGED <<waylandVars, outputs, toplevelsLock, pending, startVars>>

(***************************************************************************)
(* The Wayland thread: update_output_toplevels.                            *)
(***************************************************************************)
UpdateToplevels ==
  /\ wl = "idle"
  /\ toplevelsLock = NoCall
  /\ toplevels' \in Lists
  /\ wl' = "updated"
  /\ UNCHANGED <<snapshot, draining, outputs, toplevelsLock, pending, startVars, pc, chan>>

TakeSnapshot ==
  /\ wl = "updated"
  /\ toplevelsLock = NoCall
  /\ snapshot' = toplevels
  /\ wl' = "snapped"
  /\ UNCHANGED <<toplevels, draining, outputs, toplevelsLock, pending, startVars, pc, chan>>

BeginDrain ==
  /\ wl = "snapped"
  /\ draining' = pending
  /\ pending' = {}
  /\ wl' = "draining"
  /\ UNCHANGED <<toplevels, snapshot, outputs, toplevelsLock, startVars, pc, chan>>

\* sender.send fails, and is ignored, when the receiver has gone since is_closed.
Send(c, message) == chan' = [chan EXCEPT ![c] = message]

\* Mutant: toplevels is locked again while pending_rescues is held.
MayDrainRelocking == wl = "draining" /\ toplevelsLock = NoCall

MayDrain == wl = "draining"

\* Mutant: an entry without a match is not pushed back.
ForgetWaiting(c) == UNCHANGED pending

KeepWaiting(c) == pending' = pending \cup {c}

DrainOne(c) ==
  /\ MayDrain
  /\ c \in draining
  /\ draining' = draining \ {c}
  /\ \/ ~ IsOpen(c) /\ UNCHANGED <<chan, pending>>
     \/ /\ IsOpen(c) /\ Resolvable(c, snapshot)
        /\ Send(c, [state |-> "sources", sources |-> RestoredCapture(c, snapshot)])
        /\ UNCHANGED pending
     \/ /\ IsOpen(c) /\ ~ Resolvable(c, snapshot) /\ Consentable(c, snapshot)
        /\ Send(c, [state |-> "consent", sources |-> NoCapture])
        /\ UNCHANGED pending
     \/ /\ IsOpen(c) /\ ~ Resolvable(c, snapshot) /\ ~ Consentable(c, snapshot)
        /\ KeepWaiting(c)
        /\ UNCHANGED chan
  /\ UNCHANGED <<toplevels, snapshot, wl, outputs, toplevelsLock, startVars, pc>>

EndDrain ==
  /\ wl = "draining"
  /\ draining = {}
  /\ wl' = "idle"
  /\ UNCHANGED <<toplevels, snapshot, draining, outputs, toplevelsLock, pending, startVars,
                 pc, chan>>

\* Outputs come and go without a drain.
OutputsChange ==
  /\ outputs' \in SUBSET OutputNames
  /\ UNCHANGED <<waylandVars, toplevelsLock, pending, startVars, pc, chan>>

(***************************************************************************)
(* Steps and fairness.  A Start is driven to its next await by the         *)
(* executor, the 30 s timer fires, and the Wayland thread finishes an      *)
(* update it has begun.  Clients, the user, the compositor and the         *)
(* outputs owe nothing.                                                    *)
(***************************************************************************)
StartSteps(c) ==
  Restore(c) \/ Check(c) \/ Register(c) \/ Receive(c) \/ Timeout(c) \/ Fail(c) \/ Finish(c)

WaylandSteps == TakeSnapshot \/ BeginDrain \/ (\E c \in Calls : DrainOne(c)) \/ EndDrain

Next ==
  \/ \E c \in Calls :
       \/ SelectSources(c) \/ RefuseSources(c) \/ Begin(c)
       \/ Restore(c) \/ Check(c) \/ Register(c)
       \/ Receive(c) \/ Timeout(c) \/ Fail(c)
       \/ Pick(c) \/ Finish(c) \/ Cancel(c)
       \/ DrainOne(c)
  \/ UpdateToplevels \/ TakeSnapshot \/ BeginDrain \/ EndDrain
  \/ OutputsChange

Spec == Init /\ [][Next]_vars

FairSpec == Spec /\ WF_vars(WaylandSteps) /\ \A c \in Calls : WF_vars(StartSteps(c))

(***************************************************************************)
(* Properties.                                                             *)
(***************************************************************************)
Waiters == {c \in Calls : pc[c] = "waiting" /\ IsOpen(c)}

\* Every variable stays in its type.
TypeOK ==
  /\ toplevels \in Lists /\ snapshot \in Lists
  /\ outputs \subseteq OutputNames
  /\ toplevelsLock \in Calls \cup {NoCall}
  /\ pending \subseteq Calls /\ draining \subseteq Calls
  /\ wl \in {"idle", "updated", "snapped", "draining"}
  /\ session \in [Calls -> SessionData]
  /\ pc \in [Calls -> Places]
  /\ chan \in [Calls -> Message]
  /\ capture \in [Calls -> Capture \cup {NoCapture}]
  /\ asked \in [Calls -> BOOLEAN]
  /\ answer \in [Calls -> Response]

\* No lost wake-up: while the Wayland thread is between updates, no waiting Start could have
\* its windows restored, or be asked for consent, with the list as it is.  It would sit there
\* until the next window event or its timeout.  Tokens with outputs are left out: an output
\* that reappears causes no drain.
NoLostRescue ==
  wl = "idle" =>
    \A c \in Waiters :
      session[c].src.outputs = {} =>
        ~ Resolvable(c, toplevels) /\ ~ Consentable(c, toplevels)

\* A waiting Start with an empty channel is known to the Wayland thread: its sender is in the
\* vector or among the entries being drained, and so is never dropped unsent.
WaiterIsRegistered == Waiters \subseteq pending \cup draining

\* The vector, the entries being drained with it, never exceeds MAX_PENDING_RESCUES.
PendingBounded == Cardinality(pending \cup draining) <= MaxPending

\* The confidentiality boundary: what is captured without asking the user is, window by window,
\* the saved window itself or a window of the saved, non-empty, application.
UnattendedStaysInApp ==
  \A c \in Calls :
    (capture[c] # NoCapture /\ ~ asked[c]) =>
      LET saved == session[c].src.windows
          got   == capture[c].windows
      IN  /\ Len(got) = Len(saved)
          /\ \A i \in DOMAIN got :
               \/ got[i].id = saved[i].id
               \/ saved[i].app # NoAppId /\ got[i].app = saved[i].app

\* An alias, of a window in title mode, that leaves the application.
ReachesBeyond(src) ==
  \E i \in DOMAIN src.windows :
    /\ src.windows[i].mode = TitleMode
    /\ \E r \in DOMAIN src.windows[i].rules : src.windows[i].rules[r].scope = "any_app"

\* Under skip and error the picker opens only for a token with an alias that reaches beyond the
\* application.
PickerOnlyForConsent ==
  \A c \in Calls :
    (asked[c] /\ session[c].src # NoSource /\ session[c].action # Prompt) =>
      ReachesBeyond(session[c].src)

\* The restore data of a successful Start stands for exactly what was captured: it names
\* the captured outputs and windows, in order, whatever came and went while the streams were set up.
TokenStandsForCapture ==
  \A c \in Calls :
    answer[c].token # NoToken =>
      LET tok == answer[c].token
      IN  /\ tok.outputs = capture[c].outputs
          /\ Len(tok.windows) = Len(capture[c].windows)
          /\ \A i \in DOMAIN tok.windows : tok.windows[i].id = capture[c].windows[i].id

\* Windows restored unattended keep their saved rescue mode, so that a token restored again and
\* again never widens what the user once chose for the window.
RestoreKeepsMode ==
  \A c \in Calls :
    (answer[c].token # NoToken /\ ~ asked[c]) =>
      \A i \in DOMAIN answer[c].token.windows :
        answer[c].token.windows[i].mode = session[c].src.windows[i].mode

\* DESIGN.md on skip: "Return response=1, include restore_failure".  A Start that ends as
\* cancelled without having asked the user was skipped by policy.
SkipReportsFailure ==
  \A c \in Calls :
    (pc[c] = "done" /\ answer[c].code = "cancelled" /\ ~ asked[c]) => answer[c].failure

\* A pair that another version of the backend stores before the rules of each window.
Before(pair, stored) ==
  [stored EXCEPT !.patterns = [i \in DOMAIN @ |-> <<pair.pattern>> \o @[i]],
                 !.scopes = [i \in DOMAIN @ |-> <<pair.scope>> \o @[i]]]

\* A token handed out comes back: decoded in a later session it stands for the same sources, rule by
\* rule, and a rule that this version cannot read costs it none of the others, not even at the limit.
\* What older versions stored of it restores nothing that it would not, and never asks.
TokenComesBack ==
  \A c \in Calls :
    answer[c].token # NoToken =>
      LET tok == answer[c].token
      IN  /\ Decoded(StoredData(tok, 3)) = tok
          /\ \A pair \in Unreadable : Decoded(Before(pair, StoredData(tok, 3))) = tok
          /\ \A version \in {1, 2} :
               LET old == Decoded(StoredData(tok, version))
               IN  /\ ResolvesTo(old, toplevels, outputs) => ResolvesTo(tok, toplevels, outputs)
                   /\ ~ NeedsConsentWith(old, toplevels)

Deciding == {"restoring", "checking", "registering", "waiting", "failing"}

\* The contract's view of a call: what happens to locks, lists and channels is one decision.
ContractAt(c) ==
  IF pc[c] = "idle" THEN "selecting"
  ELSE IF pc[c] \in Deciding THEN "deciding"
  ELSE IF pc[c] = "capturing" THEN "granted"
  ELSE pc[c]

ContractTerms(c) ==
  [restoring |-> session[c].src # NoSource,
   action    |-> session[c].action,
   consent   |-> session[c].src # NoSource /\ ReachesBeyond(session[c].src)]

Contract ==
  INSTANCE StartContract WITH
    Sessions <- Calls,
    at       <- [c \in Calls |-> ContractAt(c)],
    terms    <- [c \in Calls |-> ContractTerms(c)],
    answer   <- [c \in Calls |-> [code |-> answer[c].code, failure |-> answer[c].failure]]

\* The backend implements the contract of a Start: under every interleaving with the Wayland thread,
\* it asks, captures and fails only as the policy and the token allow, and answers once.
KeepsContract == Contract!Spec

\* A Start answers, or has the picker open, or was cancelled, in bounded time: the two locks
\* never block each other, and no Start waits for ever on its channel.
StartProgresses ==
  \A c \in Calls :
    pc[c] = "restoring" ~> pc[c] \in {"asking", "done", "cancelled"}
==============================================================================
