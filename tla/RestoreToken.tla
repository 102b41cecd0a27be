----------------------------- MODULE RestoreToken -----------------------------
(***************************************************************************)
(* PersistedCaptureSources::from_capture_sources: the restore data a       *)
(* successful Start hands out, from what is captured and from the window   *)
(* list of that moment; and the form in which it is stored and read again. *)
(***************************************************************************)
EXTENDS ToplevelMatch, Positions

CONSTANTS
  OutputNames,  \* names of the outputs that may be connected
  NoSource,     \* no persisted sources
  NoToken,      \* no restore data
  NoTitle,      \* the empty title
  MaxRules      \* MAX_RESTORE_MATCH_RULES

Sources == [outputs : SUBSET OutputNames, windows : Seq(Saved)]

\* CaptureSources: its three window vectors are parallel; a handle is the record of its window.
Capture == [outputs : SUBSET OutputNames, windows : Seq(Window),
            modes : Seq(Nat), rules : Seq(Seq(Rule))]

ASSUME TokenAssumption ==
  /\ NoSource \notin Sources
  /\ NoToken \notin Sources
  /\ MaxRules \in Nat

\* Mutant: any window will do.
PositionOfAny(id, infos) == DOMAIN infos

PositionOf(id, infos) == {k \in DOMAIN infos : infos[k].id = id}

\* Mutant: the modes at hand are overwritten.
Refill(seq, n, fill) == [i \in 1..n |-> fill]

Resize(seq, n, fill) == [i \in 1..n |-> IF i \in DOMAIN seq THEN seq[i] ELSE fill]

SavedModes(src) ==
  IF src = NoSource THEN <<>> ELSE [i \in DOMAIN src.windows |-> src.windows[i].mode]

(***************************************************************************)
(* src is what the session had persisted, ext the client's match rules.    *)
(* The modes of the capture win over those of src; a window without rules  *)
(* takes the client's.  A window that has left the list, or an output that *)
(* has gone, leaves no token at all.                                       *)
(***************************************************************************)
TokenFor(cap, src, ext, infos, outs) ==
  LET n     == Len(cap.windows)
      found == \A i \in 1..n : PositionOf(cap.windows[i].id, infos) # {}
      modes == Resize(IF cap.modes # <<>> THEN cap.modes ELSE SavedModes(src),
                      n, IF ext = <<>> THEN AppMode ELSE TitleMode)
      rules == Resize(cap.rules, n, ext)
      Info(i) == infos[Least(PositionOf(cap.windows[i].id, infos))]
  IN  IF cap.outputs \subseteq outs /\ found
      THEN [outputs |-> cap.outputs,
            windows |-> [i \in 1..n |->
              [id |-> Info(i).id, app |-> Info(i).app, title |-> Info(i).title,
               mode |-> modes[i], rules |-> IF rules[i] = <<>> THEN ext ELSE rules[i]]]]
      ELSE NoToken

(***************************************************************************)
(* The data as it is stored, in parallel vectors.  Version 1 has the       *)
(* outputs and identifiers only, version 2 no rules.                       *)
(***************************************************************************)
StoredData(tok, version) ==
  LET Column(field) == [i \in DOMAIN tok.windows |-> tok.windows[i][field]]
      RuleColumn(field) ==
        [i \in DOMAIN tok.windows |->
           [k \in DOMAIN tok.windows[i].rules |-> tok.windows[i].rules[k][field]]]
  IN  [version |-> version, outputs |-> tok.outputs, ids |-> Column("id"),
       apps |-> Column("app"), titles |-> Column("title"), modes |-> Column("mode"),
       patterns |-> RuleColumn("pattern"), scopes |-> RuleColumn("scope")]

\* Mutant: one rule is lost at the limit.
BelowLimit(n) == IF n >= MaxRules THEN MaxRules - 1 ELSE n

UpToLimit(n) == IF n >= MaxRules THEN MaxRules ELSE n

\* zip: as many pairs as the shorter vector has.
Zipped(patterns, scopes) ==
  LET n == IF Len(patterns) <= Len(scopes) THEN Len(patterns) ELSE Len(scopes)
  IN  [k \in 1..n |-> [pattern |-> patterns[k], scope |-> scopes[k]]]

\* A pair that is no Rule, because its scope is unknown or its pattern does not compile, is skipped
\* and takes no place.
ZippedRules(patterns, scopes) ==
  LET pairs == Zipped(patterns, scopes)
      rules == Chosen(pairs, {k \in DOMAIN pairs : pairs[k] \in Rule})
  IN  [k \in 1..UpToLimit(Len(rules)) |-> rules[k]]

\* Data of another length or version is not decoded: it counts as token_not_found.
Decodable(stored) ==
  /\ stored.version \in 1..3
  /\ stored.version >= 2 =>
       Len(stored.ids) = Len(stored.apps) /\ Len(stored.ids) = Len(stored.titles)
         /\ Len(stored.ids) = Len(stored.modes)
  /\ stored.version = 3 =>
       Len(stored.ids) = Len(stored.patterns) /\ Len(stored.ids) = Len(stored.scopes)

Decoded(stored) ==
  IF ~ Decodable(stored) THEN NoSource
  ELSE [outputs |-> stored.outputs,
        windows |-> [i \in DOMAIN stored.ids |->
          [id    |-> stored.ids[i],
           app   |-> IF stored.version = 1 THEN NoAppId ELSE stored.apps[i],
           title |-> IF stored.version = 1 THEN NoTitle ELSE stored.titles[i],
           mode  |-> IF stored.version = 1 THEN ExactMode ELSE stored.modes[i],
           rules |-> IF stored.version < 3 THEN <<>>
                     ELSE ZippedRules(stored.patterns[i], stored.scopes[i])]]]
==============================================================================
