------------------------------ MODULE Listing ------------------------------
(***************************************************************************)
(* A listing of the Joplin Data API while the user goes on working.  Pages *)
(* are addressed by offset, and a saved item moves to the end, as in       *)
(* /notes?order_by=updated_time&order_dir=ASC.  Joplin is not part of the  *)
(* repository: this is how joplin_client.py and services.py use it.        *)
(*                                                                         *)
(* Items are named by their place when the program starts.                 *)
(***************************************************************************)
EXTENDS Integers, Sequences

CONSTANTS
  MaxItems,     (* items there can be                                      *)
  PageLimit,    (* joplin.page_limit                                       *)
  MaxChanges    (* bound: changes made to the library                      *)

ASSUME ListingAssumption ==
  /\ MaxItems \in Nat
  /\ PageLimit \in Nat \ {0}
  /\ MaxChanges \in Nat

VARIABLES listing, changes

Items == 1 .. MaxItems

ListingInit ==
  /\ \E n \in 0 .. MaxItems : listing = [i \in 1 .. n |-> i]
  /\ changes = 0

\* What GET ...?page=p answers now, and whether it says has_more.
Page(p) ==
  SubSeq(listing, (p - 1) * PageLimit + 1,
         IF p * PageLimit < Len(listing) THEN p * PageLimit ELSE Len(listing))

HasMore(p) == p * PageLimit < Len(listing)

Listed == {listing[i] : i \in DOMAIN listing}

Without(i) == SubSeq(listing, 1, i - 1) \o SubSeq(listing, i + 1, Len(listing))

Changed ==
  /\ changes < MaxChanges
  /\ changes' = changes + 1

\* The item at place i is saved, the item at place i is removed, x is created.
Save(i) == Changed /\ listing' = Append(Without(i), listing[i])
Remove(i) == Changed /\ listing' = Without(i)
Create(x) == Changed /\ x \notin Listed /\ listing' = Append(listing, x)
=============================================================================
