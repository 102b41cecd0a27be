------------------------------ MODULE SourceLabel ------------------------------
(***************************************************************************)
(* source_label on its way to a picker: libportal and the front end limit  *)
(* it, and the COSMIC and Hyprland backends clean and cut it, one in Rust  *)
(* and one in C++.                                                         *)
(*                                                                         *)
(* A label is a sequence of characters; a character is a record of its     *)
(* length in bytes and of whether it is a control or bidi character.  The  *)
(* bus carries valid UTF-8 only.  An empty label is no label.              *)
(***************************************************************************)
EXTENDS Positions, FiniteSetsExt

CONSTANT MaxLabel   \* SOURCE_LABEL_MAX_BYTES: 256

ASSUME SourceLabelAssumption == MaxLabel \in Nat

Char == [bytes : 1..4, control : BOOLEAN]

\* The bytes of the first n characters, for each n.
BytesUpto(label) ==
  LET sum[n \in 0..Len(label)] == IF n = 0 THEN 0 ELSE sum[n - 1] + label[n].bytes
  IN  sum

Bytes(label) == BytesUpto(label)[Len(label)]

\* Mutant: libportal counts characters.
CountsCharacters(label) == Len(label) <= MaxLabel

LibportalAccepts(label) == Bytes(label) <= MaxLabel

ValidateSourceLabel(label) == Bytes(label) <= MaxLabel

Cleaned(label) == Chosen(label, {k \in DOMAIN label : ~ label[k].control})

\* COSMIC: cleaned, then cut back to a character boundary.
SanitizeLabel(label) ==
  LET cleaned == Cleaned(label)
      Upto(n) == SubSeq(cleaned, 1, n)
  IN  Upto(Max({n \in 0..Len(cleaned) : Bytes(Upto(n)) <= MaxLabel}))

\* Hyprland: character by character, until one does not fit.  Mutant: those that do not fit are left
\* out, and shorter ones after them taken.
TakeWhatFits(text, ch) ==
  IF ch.control \/ text.full \/ Bytes(text.label) + ch.bytes > MaxLabel THEN text
  ELSE [text EXCEPT !.label = Append(@, ch)]

TakeChar(text, ch) ==
  IF ch.control \/ text.full THEN text
  ELSE IF Bytes(text.label) + ch.bytes > MaxLabel THEN [text EXCEPT !.full = TRUE]
  ELSE [text EXCEPT !.label = Append(@, ch)]

EmptyText == [label |-> <<>>, full |-> FALSE]

\* The text that the first n characters leave, for each n.
TextUpto(label) ==
  LET text[n \in 0..Len(label)] ==
        IF n = 0 THEN EmptyText ELSE TakeChar(text[n - 1], label[n])
  IN  text

SanitizeSourceLabel(label) == TextUpto(label)[Len(label)].label
==============================================================================
