------------------------------- MODULE Client -------------------------------
(***************************************************************************)
(* One listing as the sidecar runs it: JoplinClient._paginate over         *)
(* _request, retry_with_backoff under it, and services._chunked with the   *)
(* caller's transaction above it.                                          *)
(*                                                                         *)
(* A step is what happens between two awaits: an answer is checked, its    *)
(* items go into the chunk buffer, every full chunk is written, and the    *)
(* next page is asked for.  An answer that Joplin sent and the network     *)
(* lost is a failed attempt.                                               *)
(***************************************************************************)
EXTENDS Listing, FiniteSets

CONSTANTS
  MaxPages,     (* _MAX_PAGES                                              *)
  MaxRetries    (* joplin.max_retries                                      *)

ASSUME ClientAssumption ==
  /\ MaxPages \in Nat \ {0}
  /\ MaxRetries \in Nat

VARIABLES
  at,           (* "idle", awaiting an answer, awaiting the backoff, or    *)
                (* over: "done" or "raised"                                *)
  page,         (* of _paginate                                            *)
  attempt,      (* of retry_with_backoff: failures of this request         *)
  buf,          (* of _chunked                                             *)
  written,      (* what the caller has committed                           *)
  started,      (* history: the items listed when the listing was opened   *)
  touched,      (* history: the items changed since                        *)
  behind        (* history: changes since to items already given           *)

Given == written \o buf

history == <<started, touched, behind>>
vars == <<listing, changes, at, page, attempt, buf, written, started, touched, behind>>

TypeOK ==
  /\ listing \in Seq(Items) /\ changes \in 0 .. MaxChanges
  /\ at \in {"idle", "asking", "sleeping", "done", "raised"}
  /\ page \in 1 .. MaxPages
  /\ attempt \in 0 .. MaxRetries + 1
  /\ at \in {"asking", "sleeping"} => attempt <= MaxRetries
  /\ buf \in Seq(Items) /\ written \in Seq(Items)
  /\ started \subseteq Items /\ touched \subseteq Items /\ behind \in Nat

Init ==
  /\ ListingInit
  /\ at = "idle"
  /\ page = 1 /\ attempt = 0
  /\ buf = <<>> /\ written = <<>>
  /\ started = {} /\ touched = {} /\ behind = 0

-----------------------------------------------------------------------------

\* The size every caller passes to _chunked.
ChunkSize == PageLimit

Open ==
  /\ at \in {"idle", "done", "raised"}
  /\ at' = "asking"
  /\ page' = 1 /\ attempt' = 0
  /\ buf' = <<>> /\ written' = <<>>
  /\ started' = Listed /\ touched' = {} /\ behind' = 0
  /\ UNCHANGED <<listing, changes>>

\* Mutant: a chunk is handed on when it has grown beyond its size.
Chunked_OneTooLate(items) == ((Len(items) - 1) \div ChunkSize) * ChunkSize

\* How many of the buffered items are handed on in full chunks.
Chunked(items) == (Len(items) \div ChunkSize) * ChunkSize

\* Mutant: the page cap is one page short.
Last_BeforeCap == ~HasMore(page) \/ page + 1 >= MaxPages

Last == ~HasMore(page) \/ page = MaxPages

\* 2xx: the items are yielded into the buffer; after the last page it is flushed.
Answered ==
  LET items == buf \o Page(page)
      full == IF Last THEN Len(items) ELSE Chunked(items)
  IN  /\ at = "asking"
      /\ written' = written \o SubSeq(items, 1, full)
      /\ buf' = SubSeq(items, full + 1, Len(items))
      /\ at' = IF Last THEN "done" ELSE "asking"
      /\ page' = IF Last THEN page ELSE page + 1
      /\ attempt' = 0
      /\ UNCHANGED <<listing, changes, history>>

\* Any other status, and any exception that is not transient, is raised at once.
Refused ==
  /\ at = "asking"
  /\ at' = "raised"
  /\ UNCHANGED <<listing, changes, page, attempt, buf, written, history>>

\* Mutant: a failed attempt is not counted.
TransientError_NotCounted ==
  /\ at = "asking"
  /\ at' = "sleeping"
  /\ UNCHANGED <<listing, changes, page, attempt, buf, written, history>>

\* Mutant: one retry more than configured.
TransientError_OneMore ==
  /\ at = "asking"
  /\ attempt' = attempt + 1
  /\ at' = IF attempt' > MaxRetries + 1 THEN "raised" ELSE "sleeping"
  /\ UNCHANGED <<listing, changes, page, buf, written, history>>

\* Mutant: a failed attempt moves on to the next page.
TransientError_SkipsPage ==
  /\ at = "asking"
  /\ attempt' = attempt + 1
  /\ at' = IF attempt' > MaxRetries THEN "raised" ELSE "sleeping"
  /\ page' = IF Last THEN page ELSE page + 1
  /\ UNCHANGED <<listing, changes, buf, written, history>>

\* Connect and read timeouts, refused and dropped connections.
TransientError ==
  /\ at = "asking"
  /\ attempt' = attempt + 1
  /\ at' = IF attempt' > MaxRetries THEN "raised" ELSE "sleeping"
  /\ UNCHANGED <<listing, changes, page, buf, written, history>>

\* Mutant: a retry starts the listing again and keeps what it has.
Retry_FromPageOne ==
  /\ at = "sleeping"
  /\ at' = "asking"
  /\ page' = 1
  /\ UNCHANGED <<listing, changes, attempt, buf, written, history>>

\* The backoff is over: the same page is asked for again.
Retry ==
  /\ at = "sleeping"
  /\ at' = "asking"
  /\ UNCHANGED <<listing, changes, page, attempt, buf, written, history>>

-----------------------------------------------------------------------------
(* The user works in Joplin meanwhile.                                     *)

IsGiven(x) == \E i \in DOMAIN Given : Given[i] = x

Touch(x) ==
  /\ touched' = touched \cup {x}
  /\ behind' = IF IsGiven(x) THEN behind + 1 ELSE behind
  /\ UNCHANGED <<at, page, attempt, buf, written, started>>

Change ==
  \/ \E i \in DOMAIN listing : (Save(i) \/ Remove(i)) /\ Touch(listing[i])
  \/ \E x \in Items : Create(x) /\ Touch(x)

Next == Open \/ Answered \/ Refused \/ TransientError \/ Retry \/ Change

Spec == Init /\ [][Next]_vars

\* Every request ends (the client sets connect and read timeouts) and a sleep is
\* over after its delay.  Nothing makes an attempt succeed.
FairSpec ==
  Spec /\ WF_vars(Answered \/ Refused \/ TransientError) /\ WF_vars(Retry)

-----------------------------------------------------------------------------
(* Properties                                                              *)

\* The refinement mapping: what the callers of _paginate can tell apart.
Status == CASE at = "idle" -> "idle"
            [] at \in {"asking", "sleeping"} -> "open"
            [] at = "done" -> "done"
            [] at = "raised" -> "failed"

\* joplin_client.py:174-190, logging_config.py:292-310, services.py:237-244: under
\* retries, backoff and chunking a listing is still the plain page source the
\* indexer is written for: no attempt skips, repeats or reorders a page.
Source == INSTANCE PageSource WITH status <- Status, given <- Given

ImplementsSource == Source!Spec

Complete == at = "done" /\ (page < MaxPages \/ ~HasMore(page))

\* services.py:315 pages by offset through an order every save changes: the items
\* a complete listing misses, though nobody touched them, are no more than the
\* changes made to items it had been given.
MissedOnlyBehindAMove ==
  Complete =>
    Cardinality({x \in started \ touched : ~IsGiven(x)}) <= behind

\* The counterpart: no item is handed to the indexer twice unless it was saved
\* while the listing ran, so no row is stamped by an older copy of an item.
TwiceOnlyIfMoved ==
  \A i, j \in DOMAIN Given : Given[i] = Given[j] /\ i # j => Given[i] \in touched

\* services.py:234-235: while a page is awaited, and when the listing has failed,
\* everything received has been handed on and committed.
ReceivedIsWritten == at \in {"asking", "sleeping", "raised"} => buf = <<>>

\* A listing ends, with every attempt failing and with the library changing.
EveryListingEnds == at \in {"asking", "sleeping"} ~> at \in {"done", "raised"}
=============================================================================
