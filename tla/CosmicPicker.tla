----------------------------- MODULE CosmicPicker -----------------------------
(***************************************************************************)
(* The COSMIC picker: update_msg over the Args of an open dialog.  The     *)
(* selection is four vectors, three of them parallel; the rescue mode of a *)
(* window lives both in a vector and in the map the radio buttons show;    *)
(* alias rows are edited apart and turned into rules by Share.  Messages   *)
(* may name any window of the dialog, selected or not: two clicks can be   *)
(* queued before the next view.                                            *)
(***************************************************************************)
EXTENDS RestoreToken, Positions, SequencesExt

CONSTANTS
  Shown,         \* the dialog's windows (Args.toplevels), a sequence
  Seeds,         \* Args.restore_alias_seeds: records [app, title, rules]
  Suggested,     \* windows for which suggest_project_aliases finds a project, to its pattern
  Blank, Bad,    \* an alias row with no pattern, and with one that does not compile
  ClientRules,   \* the restore_match_rules of the session, for the token
  MaxRows        \* bound on the alias rows of a window

ASSUME PickerAssumption ==
  /\ Shown \in Seq(Window)
  /\ MaxRows \in Nat
  /\ {Blank, Bad} \cap Patterns = {}
  /\ DOMAIN Seeds \subseteq Nat /\ \A k \in DOMAIN Seeds : Seeds[k].rules \in Seq(Rule)
  /\ \A w \in DOMAIN Suggested : Suggested[w] \in Patterns

Windows == {Shown[k] : k \in DOMAIN Shown}
Row     == [pattern : Patterns \cup {Blank, Bad}, scope : Scopes]

VARIABLES
  multiple, \* Args.multiple, set by the client's SelectSources
  sources,  \* Args.capture_sources
  modeOf,   \* Args.rescue_mode_selections
  rows,     \* Args.rescue_alias_rows
  dialog    \* "open", "shared" or "cancelled"

vars == <<multiple, sources, modeOf, rows, dialog>>

Empty == [outputs |-> {}, windows |-> <<>>, modes |-> <<>>, rules |-> <<>>]
Nowhere == [w \in {} |-> <<>>]

Init ==
  /\ multiple \in BOOLEAN
  /\ sources = Empty
  /\ modeOf = Nowhere
  /\ rows = Nowhere
  /\ dialog = "open"

Put(f, key, value) == [k \in DOMAIN f \cup {key} |-> IF k = key THEN value ELSE f[k]]
Drop(f, key)       == [k \in DOMAIN f \ {key} |-> f[k]]

IsEmpty == sources.outputs = {} /\ sources.windows = <<>>

\* initial_alias_rows: the first seed of the window's application, else of its title, else the
\* suggested project.
InitialAliasRows(w) ==
  LET byApp   == {k \in DOMAIN Seeds : Seeds[k].app # NoAppId /\ Seeds[k].app = w.app
                                          /\ Seeds[k].rules # <<>>}
      byTitle == {k \in DOMAIN Seeds : Seeds[k].title # NoTitle /\ Seeds[k].title = w.title
                                           /\ Seeds[k].rules # <<>>}
  IN  IF byApp # {} THEN Seeds[Least(byApp)].rules
      ELSE IF byTitle # {} THEN Seeds[Least(byTitle)].rules
      ELSE IF w \in DOMAIN Suggested
           THEN <<[pattern |-> Suggested[w], scope |-> "same_app"]>>
           ELSE <<>>

(***************************************************************************)
(* Messages.                                                               *)
(***************************************************************************)

\* Mutant: the modes are left alone.
WithoutKeepingModes(src, k) ==
  [src EXCEPT !.windows = RemoveAt(@, k), !.rules = RemoveAt(@, k)]

\* The same index leaves the three parallel vectors.
Without(src, k) ==
  [src EXCEPT !.windows = RemoveAt(@, k), !.modes = RemoveAt(@, k), !.rules = RemoveAt(@, k)]

Deselect(w) ==
  /\ dialog = "open"
  /\ \E k \in DOMAIN sources.windows :
       /\ sources.windows[k] = w
       /\ sources' = Without(sources, k)
  /\ modeOf' = Drop(modeOf, w)
  /\ UNCHANGED <<multiple, rows, dialog>>

\* Mutant: a second source never replaces the first.
NeverReplaces == FALSE

\* Without multiple, a new selection replaces the old one.
Replaces == ~ multiple /\ ~ IsEmpty

\* The mode follows the suggestion, not the rows, which may be older.
SelectToplevel(w) ==
  /\ dialog = "open"
  /\ \A k \in DOMAIN sources.windows : sources.windows[k] # w
  /\ LET old     == IF Replaces THEN Empty ELSE sources
         oldMode == IF Replaces THEN Nowhere ELSE modeOf
         mode    == IF w \in DOMAIN oldMode THEN oldMode[w]
                    ELSE IF InitialAliasRows(w) = <<>> THEN AppMode ELSE TitleMode
     IN  /\ rows' = IF w \in DOMAIN rows THEN rows ELSE Put(rows, w, InitialAliasRows(w))
         /\ modeOf' = Put(oldMode, w, mode)
         /\ sources' = [old EXCEPT !.windows = Append(@, w), !.modes = Append(@, mode),
                                   !.rules = Append(@, <<>>)]
  /\ UNCHANGED <<multiple, dialog>>

\* The output toggle, older than the patch: it clears the selection, not the map of modes.
SelectOutput(o) ==
  /\ dialog = "open"
  /\ sources' = IF o \in sources.outputs
                THEN [sources EXCEPT !.outputs = @ \ {o}]
                ELSE [(IF Replaces THEN Empty ELSE sources) EXCEPT !.outputs = @ \cup {o}]
  /\ UNCHANGED <<multiple, modeOf, rows, dialog>>

\* Mutant: the radio button changes the map only.
KeepModes(w, m) == sources.modes

\* The vector has the mode of the map, where the window is selected.
UpdateModes(w, m) ==
  [k \in DOMAIN sources.modes |-> IF sources.windows[k] = w THEN m ELSE sources.modes[k]]

SetRescueMode(w, m) ==
  /\ dialog = "open"
  /\ modeOf' = Put(modeOf, w, m)
  /\ sources' = [sources EXCEPT !.modes = UpdateModes(w, m)]
  /\ UNCHANGED <<multiple, rows, dialog>>

RowsOf(w) == IF w \in DOMAIN rows THEN rows[w] ELSE <<>>

AddRescueAlias(w) ==
  /\ dialog = "open"
  /\ Len(RowsOf(w)) < MaxRows
  /\ rows' = Put(rows, w, Append(RowsOf(w), [pattern |-> Blank, scope |-> "same_app"]))
  /\ UNCHANGED <<multiple, sources, modeOf, dialog>>

RemoveRescueAlias(w) ==
  /\ dialog = "open"
  /\ w \in DOMAIN rows
  /\ \E k \in DOMAIN rows[w] : rows' = Put(rows, w, RemoveAt(rows[w], k))
  /\ UNCHANGED <<multiple, sources, modeOf, dialog>>

SetRescueAlias(w) ==
  /\ dialog = "open"
  /\ w \in DOMAIN rows
  /\ \E k \in DOMAIN rows[w] :
       \/ \E p \in Patterns \cup {Blank, Bad} : rows' = [rows EXCEPT ![w][k].pattern = p]
       \/ \E scope \in Scopes : rows' = [rows EXCEPT ![w][k].scope = scope]
  /\ UNCHANGED <<multiple, sources, modeOf, dialog>>

(***************************************************************************)
(* Share: the rows become rules, blank ones dropped, at most MaxRules; one *)
(* that does not compile makes the whole list an error.                    *)
(***************************************************************************)
\* The filled-in rows, in order.
Filled(list) == Chosen(list, {k \in DOMAIN list : list[k].pattern # Blank})

Kept(list) == SubSeq(Filled(list), 1, Least({Len(Filled(list)), MaxRules}))

IsInvalid(list) == \E k \in DOMAIN Kept(list) : Kept(list)[k].pattern = Bad

AliasRowsToRules(list) == IF IsInvalid(list) THEN <<>> ELSE Kept(list)

\* Mutant: the rules of the last Share stay.
StaleAliases == sources

SyncCaptureAliases ==
  [sources EXCEPT !.rules =
     [k \in DOMAIN sources.windows |-> AliasRowsToRules(RowsOf(sources.windows[k]))]]

HasInvalidAliases ==
  \E k \in DOMAIN sources.windows : IsInvalid(RowsOf(sources.windows[k]))

\* An empty selection or an invalid row leaves the dialog open, its rules synced all the same.
Share ==
  /\ dialog = "open"
  /\ sources' = SyncCaptureAliases
  /\ dialog' = IF IsEmpty \/ HasInvalidAliases THEN "open" ELSE "shared"
  /\ UNCHANGED <<multiple, modeOf, rows>>

Cancel ==
  /\ dialog = "open"
  /\ dialog' = "cancelled"
  /\ UNCHANGED <<multiple, sources, modeOf, rows>>

Next ==
  \/ \E w \in Windows :
       \/ SelectToplevel(w) \/ Deselect(w)
       \/ \E m \in {ExactMode, AppMode, TitleMode} : SetRescueMode(w, m)
       \/ AddRescueAlias(w) \/ RemoveRescueAlias(w) \/ SetRescueAlias(w)
  \/ \E o \in OutputNames : SelectOutput(o)
  \/ Share \/ Cancel

Spec == Init /\ [][Next]_vars

(***************************************************************************)
(* Properties.                                                             *)
(***************************************************************************)

\* The three window vectors stay parallel, so that removing one index from each never misses, and
\* the token pairs every window with its own mode and rules.
VectorsParallel ==
  /\ Len(sources.modes) = Len(sources.windows)
  /\ Len(sources.rules) = Len(sources.windows)
  /\ \A j, k \in DOMAIN sources.windows : sources.windows[j] = sources.windows[k] => j = k

\* The mode that would be shared is the one the radio buttons show.
ModesAsShown ==
  \A k \in DOMAIN sources.windows : sources.modes[k] = modeOf[sources.windows[k]]

\* Without multiple the dialog never holds, and so never shares, more than one source.
SingleMeansOne ==
  ~ multiple => Cardinality(sources.outputs) + Len(sources.windows) <= 1

\* What is shared is what the dialog shows: something is selected, no pattern is broken, and each
\* window has exactly its filled-in rows, up to the limit.
SharedAsShown ==
  dialog = "shared" =>
    /\ ~ IsEmpty
    /\ \A k \in DOMAIN sources.windows :
         LET filled == Filled(RowsOf(sources.windows[k]))
         IN  /\ Len(sources.rules[k]) = Least({Len(filled), MaxRules})
             /\ \A j \in DOMAIN sources.rules[k] :
                  sources.rules[k][j] = filled[j] /\ filled[j].pattern # Bad

\* DESIGN.md: with external restore_match_rules and no per-window rules, COSMIC "defaults their
\* rescue mode to title".  A window selected for the first time, without alias rows, and shared as
\* it is would so be saved in title mode.
ClientRulesDefaultToTitle ==
  [][\A w \in Windows :
       (ClientRules # <<>> /\ sources'.windows = Append(sources.windows, w)
          /\ w \notin DOMAIN modeOf /\ rows'[w] = <<>>)
       => LET token == TokenFor(sources', NoSource, ClientRules, Shown, OutputNames)
          IN  token.windows[Len(token.windows)].mode = TitleMode]_vars
==============================================================================
