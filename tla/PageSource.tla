----------------------------- MODULE PageSource -----------------------------
(***************************************************************************)
(* What the indexer assumes of a listing (module SyncService takes it for  *)
(* granted): it is handed the pages one after the other, each as it stands *)
(* when it is handed over, to the last one or to the page cap, unless the  *)
(* listing fails.                                                          *)
(***************************************************************************)
EXTENDS Listing

CONSTANT MaxPages   (* _MAX_PAGES; see ClientAssumption *)

VARIABLES status, page, given

Init ==
  /\ ListingInit
  /\ status = "idle"
  /\ page = 1
  /\ given = <<>>

Open ==
  /\ status # "open"
  /\ status' = "open"
  /\ page' = 1
  /\ given' = <<>>
  /\ UNCHANGED <<listing, changes>>

Last == ~HasMore(page) \/ page = MaxPages

Give ==
  /\ status = "open"
  /\ given' = given \o Page(page)
  /\ status' = IF Last THEN "done" ELSE "open"
  /\ page' = IF Last THEN page ELSE page + 1
  /\ UNCHANGED <<listing, changes>>

Fail ==
  /\ status = "open"
  /\ status' = "failed"
  /\ UNCHANGED <<listing, changes, page, given>>

Change ==
  /\ \/ \E i \in DOMAIN listing : Save(i) \/ Remove(i)
     \/ \E x \in Items : Create(x)
  /\ UNCHANGED <<status, page, given>>

Next == Open \/ Give \/ Fail \/ Change

Spec == Init /\ [][Next]_<<listing, changes, status, page, given>>
=============================================================================
