--------------------------- MODULE MCSuggestions ---------------------------
(***************************************************************************)
(* Values for TLC: a note has one of two bodies and one of two titles.     *)
(* With the second body its first title is a URL with a slug, and its      *)
(* second is fine.  Fewer titles give fewer texts.                         *)
(***************************************************************************)
EXTENDS Suggestions

CONSTANTS prose, bookmark, first, second

MCText(b, t) == [body |-> b, title |-> t]

MCFine        == Text \cap {MCText(bookmark, second)}
MCSluggable   == {MCText(bookmark, first)}
MCGeneratable == Text \cap {MCText(prose, first), MCText(prose, second)}
=============================================================================
