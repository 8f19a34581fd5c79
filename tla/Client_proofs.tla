---------------------------- MODULE Client_proofs ----------------------------
(***************************************************************************)
(* For every number of items, page size, page cap, retry budget and number *)
(* of changes: the types, that everything received is committed before the *)
(* next await, that the client implements PageSource, what a listing by    *)
(* offset may miss or repeat while the library changes, and in how many    *)
(* steps it is over.                                                       *)
(***************************************************************************)
EXTENDS Client, FiniteSetTheorems, SequenceTheorems, TLAPS

\* Multiplying out one page.
LEMMA PageStart ==
  ASSUME NEW p \in Nat \ {0}
  PROVE  /\ (p - 1) * PageLimit \in Nat
         /\ p * PageLimit \in Nat
         /\ p * PageLimit = (p - 1) * PageLimit + PageLimit
<1>1. PICK q \in Nat : p = q + 1
  BY p - 1 \in Nat
<1>2. q * PageLimit \in Nat /\ PageLimit \in Nat
  BY ListingAssumption
<1>3. (q + 1) * PageLimit = q * PageLimit + PageLimit
  BY ListingAssumption
<1>4. p - 1 = q
  BY <1>1
<1> QED
  BY <1>1, <1>2, <1>3, <1>4

\* A page holds items, and a page that is not the last is full.
LEMMA PageType ==
  ASSUME listing \in Seq(Items), NEW p \in Nat \ {0}
  PROVE  /\ Page(p) \in Seq(Items)
         /\ HasMore(p) => Len(Page(p)) = PageLimit
<1> DEFINE first == (p - 1) * PageLimit
           last == p * PageLimit
<1>1. first \in Nat /\ last = first + PageLimit /\ last \in Nat
  BY PageStart
<1>2. PageLimit \in Nat /\ PageLimit > 0
  BY ListingAssumption
<1>3. Page(p) = SubSeq(listing, first + 1, IF last < Len(listing) THEN last ELSE Len(listing))
  BY DEF Page
<1>4. HasMore(p) <=> last < Len(listing)
  BY DEF HasMore
<1> HIDE DEF first, last
<1>5. CASE last < Len(listing)
  BY <1>1, <1>2, <1>3, <1>4, <1>5
<1>6. CASE ~(last < Len(listing))
  BY <1>1, <1>2, <1>3, <1>4, <1>6
<1> QED
  BY <1>5, <1>6

\* What the library does keeps the listing a sequence of items.
LEMMA ChangeType ==
  ASSUME TypeOK, NEW i \in DOMAIN listing
  PROVE  /\ listing[i] \in Items
         /\ Without(i) \in Seq(Items)
         /\ Append(Without(i), listing[i]) \in Seq(Items)
<1>1. i \in 1 .. Len(listing) /\ listing[i] \in Items
  BY DEF TypeOK
<1>2. /\ SubSeq(listing, 1, i - 1) \in Seq(Items)
      /\ SubSeq(listing, i + 1, Len(listing)) \in Seq(Items)
  BY <1>1 DEF TypeOK
<1>3. Without(i) \in Seq(Items)
  BY <1>2 DEF Without
<1> QED
  BY <1>1, <1>3

\* With an empty buffer an answer hands on exactly its page, and keeps none of it:
\* the chunks are as long as the pages.
LEMMA AnswerIsWritten ==
  ASSUME TypeOK, ReceivedIsWritten, Answered
  PROVE  /\ written' = written \o Page(page) /\ buf' = <<>>
         /\ written' \in Seq(Items)
<1> DEFINE items == buf \o Page(page)
           full == IF Last THEN Len(items) ELSE Chunked(items)
<1>1. page \in Nat \ {0} /\ listing \in Seq(Items)
  BY ClientAssumption DEF TypeOK
<1>2. Page(page) \in Seq(Items) /\ (HasMore(page) => Len(Page(page)) = PageLimit)
  BY <1>1, PageType
<1>3. items = Page(page)
  BY <1>2, ConcatEmptySeq DEF Answered, ReceivedIsWritten
<1>4. full = Len(Page(page))
  <2>1. CASE Last
    BY <2>1, <1>3
  <2>2. CASE ~Last
    <3>1. Len(items) = PageLimit
      BY <2>2, <1>2, <1>3 DEF Last
    <3>2. (PageLimit \div PageLimit) * PageLimit = PageLimit
      BY ListingAssumption
    <3> QED
      BY <2>2, <3>1, <3>2, <1>3 DEF Chunked, ChunkSize
  <2> QED
    BY <2>1, <2>2
<1>5. /\ written' = written \o SubSeq(items, 1, full)
      /\ buf' = SubSeq(items, full + 1, Len(items))
  BY DEF Answered
<1> HIDE DEF items, full
<1>6. /\ written' = written \o SubSeq(Page(page), 1, Len(Page(page)))
      /\ buf' = SubSeq(Page(page), Len(Page(page)) + 1, Len(Page(page)))
  BY <1>3, <1>4, <1>5
<1>7. Len(Page(page)) \in Nat
  BY <1>2
<1>8. buf' = <<>>
  BY <1>6, <1>7, SubSeqEmpty
<1>9. written' = written \o Page(page)
  BY <1>2, <1>6, SubSeqFull
<1> QED
  BY <1>2, <1>8, <1>9, ConcatProperties DEF TypeOK

-----------------------------------------------------------------------------

Inv == TypeOK /\ ReceivedIsWritten

LEMMA InitInv == Init => Inv
<1> SUFFICES ASSUME Init PROVE Inv
  OBVIOUS
<1>1. PICK n \in 0 .. MaxItems : listing = [i \in 1 .. n |-> i]
  BY DEF Init, ListingInit
<1>2. listing \in Seq(Items)
  <2>1. n \in Nat /\ \A i \in 1 .. n : i \in Items
    BY <1>1, ListingAssumption DEF Items
  <2> QED
    BY <2>1, <1>1, SeqDef
<1>3. <<>> \in Seq(Items)
  OBVIOUS
<1> QED
  BY <1>2, <1>3, ListingAssumption, ClientAssumption
     DEF Init, ListingInit, Inv, TypeOK, ReceivedIsWritten

LEMMA NextInv == Inv /\ [Next]_vars => Inv'
<1> SUFFICES ASSUME Inv, [Next]_vars PROVE Inv'
  OBVIOUS
<1> USE ListingAssumption, ClientAssumption DEF Inv, history
<1>0. <<>> \in Seq(Items) /\ Listed \subseteq Items
  BY DEF TypeOK, Listed
<1>1. CASE Open
  BY <1>0, <1>1 DEF Open, TypeOK, ReceivedIsWritten
<1>2. CASE Answered
  <2>1. written' \in Seq(Items) /\ buf' = <<>>
    BY <1>2, AnswerIsWritten
  <2>2. page' \in 1 .. MaxPages
    BY <1>2 DEF Answered, Last, TypeOK
  <2>3. /\ at' \in {"asking", "done"} /\ attempt' = 0
        /\ UNCHANGED <<listing, changes, started, touched, behind>>
    BY <1>2 DEF Answered
  <2> QED
    BY <1>0, <2>1, <2>2, <2>3 DEF TypeOK, ReceivedIsWritten
<1>3. CASE Refused
  BY <1>3 DEF Refused, TypeOK, ReceivedIsWritten
<1>4. CASE TransientError
  BY <1>4 DEF TransientError, TypeOK, ReceivedIsWritten
<1>5. CASE Retry
  BY <1>5 DEF Retry, TypeOK, ReceivedIsWritten
<1>6. CASE Change
  <2>1. /\ listing' \in Seq(Items)
        /\ touched' \subseteq Items
        /\ changes' \in 0 .. MaxChanges
        /\ behind' \in Nat
        /\ UNCHANGED <<at, page, attempt, buf, written, started>>
    <3>1. ASSUME NEW i \in DOMAIN listing, Save(i) \/ Remove(i), Touch(listing[i])
          PROVE  <2>1!1 /\ <2>1!2 /\ <2>1!3 /\ <2>1!4 /\ <2>1!5
      <4>1. listing' \in Seq(Items) /\ changes' \in 0 .. MaxChanges
        <5>1. changes' = changes + 1 /\ changes < MaxChanges
          BY <3>1 DEF Save, Remove, Changed
        <5>2. listing' = Append(Without(i), listing[i]) \/ listing' = Without(i)
          BY <3>1 DEF Save, Remove
        <5>3. TypeOK
          OBVIOUS
        <5>4. Without(i) \in Seq(Items) /\ Append(Without(i), listing[i]) \in Seq(Items)
          BY <5>3, ChangeType
        <5>5. changes' \in 0 .. MaxChanges
          BY <5>1 DEF TypeOK
        <5> QED
          BY <5>2, <5>4, <5>5
      <4>2. listing[i] \in Items
        BY ChangeType
      <4> QED
        BY <3>1, <4>1, <4>2 DEF Touch, TypeOK
    <3>2. ASSUME NEW x \in Items, Create(x), Touch(x)
          PROVE  <2>1!1 /\ <2>1!2 /\ <2>1!3 /\ <2>1!4 /\ <2>1!5
      BY <3>2, AppendProperties DEF Create, Changed, Touch, TypeOK
    <3> QED
      BY <1>6, <3>1, <3>2 DEF Change
  <2> QED
    BY <2>1 DEF TypeOK, ReceivedIsWritten
<1>7. CASE UNCHANGED vars
  BY <1>7 DEF vars, TypeOK, ReceivedIsWritten
<1> QED
  BY <1>1, <1>2, <1>3, <1>4, <1>5, <1>6, <1>7 DEF Next

\* The types of the client, for all constants.
THEOREM TypeCorrect == Spec => []TypeOK
<1>1. Inv => TypeOK
  BY DEF Inv
<1> QED
  BY InitInv, NextInv, <1>1, PTL DEF Spec

\* Pages and chunks coincide (services.py passes page_limit for both), so whatever
\* has been received is committed whenever the client waits and when it has failed.
THEOREM NothingReceivedIsLost == Spec => []ReceivedIsWritten
<1>1. Inv => ReceivedIsWritten
  BY DEF Inv
<1> QED
  BY InitInv, NextInv, <1>1, PTL DEF Spec

-----------------------------------------------------------------------------
(* Refinement                                                              *)

LEMMA RefinesInit == Init => Source!Init
  BY ConcatEmptySeq, EmptySeq
     DEF Init, ListingInit, Source!Init, Source!ListingInit, Source!Items, Items, Status, Given

\* A step of the client is a step of PageSource, or one it does not see: the
\* attempts and sleeps of a request, which leave page and items as they are.
LEMMA RefinesNext ==
  Inv /\ [Next]_vars =>
    [Source!Next]_<<listing, changes, Status, page, Given>>
<1> SUFFICES ASSUME Inv, [Next]_vars
             PROVE  \/ Source!Next
                    \/ UNCHANGED <<listing, changes, Status, page, Given>>
  OBVIOUS
<1> USE DEF Inv, history
<1>0. buf \in Seq(Items) /\ written \in Seq(Items)
  BY DEF TypeOK
<1>1. CASE Open
  <2>1. Status # "open" /\ Status' = "open"
    BY <1>1 DEF Open, Status
  <2>2. Given' = <<>>
    BY <1>1, ConcatEmptySeq, EmptySeq DEF Open, Given
  <2>3. Source!Open
    BY <1>1, <2>1, <2>2 DEF Open, Source!Open
  <2> QED
    BY <2>3 DEF Source!Next
<1>2. CASE Answered
  <2>1. written' = written \o Page(page) /\ buf' = <<>> /\ written' \in Seq(Items)
    BY <1>2, AnswerIsWritten
  <2>2. buf = <<>>
    BY <1>2 DEF Answered, ReceivedIsWritten
  <2>3. Given = written /\ Given' = written'
    BY <1>0, <2>1, <2>2, ConcatEmptySeq DEF Given
  <2>4. Given' = Given \o Page(page)
    BY <2>1, <2>3
  <2>5. Status = "open" /\ Status' = IF Last THEN "done" ELSE "open"
    BY <1>2 DEF Answered, Status
  <2>6. Source!Last <=> Last
    BY DEF Source!Last, Last, Source!HasMore, HasMore
  <2>7. Source!Page(page) = Page(page)
    BY DEF Source!Page, Page
  <2>8. Source!Give
    BY <1>2, <2>4, <2>5, <2>6, <2>7 DEF Answered, Source!Give
  <2> QED
    BY <2>8 DEF Source!Next
<1>3. CASE Refused
  <2>1. Status = "open" /\ Status' = "failed" /\ Given' = Given
    BY <1>3 DEF Refused, Status, Given
  <2>2. Source!Fail
    BY <1>3, <2>1 DEF Refused, Source!Fail
  <2> QED
    BY <2>2 DEF Source!Next
<1>4. CASE TransientError
  <2>1. Given' = Given /\ UNCHANGED <<listing, changes, page>>
    BY <1>4 DEF TransientError, Given
  <2>2. Status = "open"
    BY <1>4 DEF TransientError, Status
  <2>3. CASE at' = "raised"
    <3>1. Status' = "failed"
      BY <2>3 DEF Status
    <3>2. Source!Fail
      BY <2>1, <2>2, <3>1 DEF Source!Fail
    <3> QED
      BY <3>2 DEF Source!Next
  <2>4. CASE at' = "sleeping"
    BY <2>1, <2>2, <2>4 DEF Status
  <2> QED
    BY <1>4, <2>3, <2>4 DEF TransientError
<1>5. CASE Retry
  BY <1>5 DEF Retry, Status, Given
<1>6. CASE Change
  <2>1. UNCHANGED <<page, Status, Given>>
    BY <1>6 DEF Change, Touch, Status, Given
  <2>2. \/ \E i \in DOMAIN listing : Save(i) \/ Remove(i)
        \/ \E x \in Items : Create(x)
    BY <1>6 DEF Change
  <2>3. \/ \E i \in DOMAIN listing : Source!Save(i) \/ Source!Remove(i)
        \/ \E x \in Source!Items : Source!Create(x)
    BY <2>2 DEF Save, Remove, Create, Changed, Without, Listed, Items, Source!Save,
      Source!Remove, Source!Create, Source!Changed, Source!Without, Source!Listed, Source!Items
  <2>4. Source!Change
    BY <2>1, <2>3 DEF Source!Change
  <2> QED
    BY <2>4 DEF Source!Next
<1>7. CASE UNCHANGED vars
  BY <1>7 DEF vars, Status, Given
<1> QED
  BY <1>1, <1>2, <1>3, <1>4, <1>5, <1>6, <1>7 DEF Next

\* _paginate over retrying requests under _chunked implements the page source that
\* SyncService is written for.
THEOREM Implements == Spec => ImplementsSource
<1> QED
  BY InitInv, NextInv, RefinesInit, RefinesNext, PTL
     DEF Spec, ImplementsSource, Source!Spec

-----------------------------------------------------------------------------
(* What the pages are, and what a change does to the listing.              *)

\* The places a page is read from.
LEMMA PagePlaces ==
  ASSUME listing \in Seq(Items), NEW p \in Nat \ {0}
  PROVE  /\ \A k \in DOMAIN Page(p) : \E i \in DOMAIN listing :
              i = (p - 1) * PageLimit + k /\ i <= p * PageLimit /\ Page(p)[k] = listing[i]
         /\ \A i \in DOMAIN listing : (p - 1) * PageLimit < i /\ i <= p * PageLimit =>
              \E k \in DOMAIN Page(p) : Page(p)[k] = listing[i]
<1>. DEFINE first == (p - 1) * PageLimit
            end   == p * PageLimit
            last  == IF end < Len(listing) THEN end ELSE Len(listing)
<1>1. first \in Nat /\ end \in Nat
  BY PageStart
<1>2. Page(p) = SubSeq(listing, first + 1, last)
  BY DEF Page
<1>. HIDE DEF first, end
<1>3. /\ last \in Int /\ last <= end /\ last <= Len(listing)
      /\ \A i \in first + 1 .. last : i \in 1 .. Len(listing) /\ listing[i] \in Items
  BY <1>1
<1>4. \A i \in DOMAIN listing : i <= end => i <= last
  BY <1>1
<1>. HIDE DEF last
<1>5. /\ DOMAIN Page(p) = 1 .. last - first
      /\ \A k \in 1 .. last - first : Page(p)[k] = listing[first + k]
  <2>1. /\ Page(p) \in Seq(Items)
        /\ Len(Page(p)) = IF first + 1 <= last THEN last - (first + 1) + 1 ELSE 0
        /\ \A k \in 1 .. last - (first + 1) + 1 : Page(p)[k] = listing[first + 1 + k - 1]
    BY <1>1, <1>2, <1>3, SubSeqProperties
  <2>2. DOMAIN Page(p) = 1 .. Len(Page(p))
    BY <2>1
  <2>. QED
    BY <1>1, <1>3, <2>1, <2>2
<1>6. ASSUME NEW k \in DOMAIN Page(p)
      PROVE  \E i \in DOMAIN listing : i = first + k /\ i <= end /\ Page(p)[k] = listing[i]
  <2>1. first + k \in first + 1 .. last
    BY <1>1, <1>3, <1>5
  <2>. QED
    BY <1>1, <1>3, <1>5, <2>1
<1>7. ASSUME NEW i \in DOMAIN listing, first < i, i <= end
      PROVE  \E k \in DOMAIN Page(p) : Page(p)[k] = listing[i]
  <2>1. i \in Nat /\ i - first \in 1 .. last - first /\ first + (i - first) = i
    BY <1>1, <1>3, <1>4, <1>7
  <2>. QED
    BY <1>5, <2>1
<1>. QED
  BY <1>6, <1>7 DEF first, end

\* Taking the item at place i out moves every later one forward by a place.
LEMMA WithoutPlaces ==
  ASSUME listing \in Seq(Items), NEW i \in DOMAIN listing
  PROVE  /\ Without(i) \in Seq(Items) /\ Len(Without(i)) = Len(listing) - 1
         /\ \A j \in 1 .. Len(listing) - 1 :
              Without(i)[j] = IF j < i THEN listing[j] ELSE listing[j + 1]
<1>. DEFINE n == Len(listing)
            a == SubSeq(listing, 1, i - 1)
            b == SubSeq(listing, i + 1, n)
<1>1. i \in 1 .. n /\ n \in Nat /\ \A j \in 1 .. n : listing[j] \in Items
  OBVIOUS
<1>2. /\ a \in Seq(Items) /\ Len(a) = i - 1
      /\ \A j \in 1 .. i - 1 : a[j] = listing[j]
  <2>1. /\ a \in Seq(Items) /\ Len(a) = IF 1 <= i - 1 THEN i - 1 - 1 + 1 ELSE 0
        /\ \A j \in 1 .. i - 1 - 1 + 1 : a[j] = listing[1 + j - 1]
    BY <1>1, SubSeqProperties
  <2>. QED
    BY <1>1, <2>1
<1>3. /\ b \in Seq(Items) /\ Len(b) = n - i
      /\ \A j \in 1 .. n - i : b[j] = listing[i + j]
  <2>1. /\ b \in Seq(Items) /\ Len(b) = IF i + 1 <= n THEN n - (i + 1) + 1 ELSE 0
        /\ \A j \in 1 .. n - (i + 1) + 1 : b[j] = listing[i + 1 + j - 1]
    BY <1>1, SubSeqProperties
  <2>. QED
    BY <1>1, <2>1
<1>. HIDE DEF a, b, n
<1>4. /\ a \o b \in Seq(Items) /\ Len(a \o b) = n - 1
      /\ \A j \in 1 .. n - 1 : (a \o b)[j] = IF j <= i - 1 THEN a[j] ELSE b[j - (i - 1)]
  <2>1. /\ a \o b \in Seq(Items) /\ Len(a \o b) = Len(a) + Len(b)
        /\ \A j \in 1 .. Len(a) + Len(b) : (a \o b)[j] = IF j <= Len(a) THEN a[j] ELSE b[j - Len(a)]
    BY <1>2, <1>3, ConcatProperties
  <2>2. Len(a) + Len(b) = n - 1
    BY <1>1, <1>2, <1>3
  <2>. QED
    BY <1>2, <2>1, <2>2
<1>5. ASSUME NEW j \in 1 .. n - 1
      PROVE  (a \o b)[j] = IF j < i THEN listing[j] ELSE listing[j + 1]
  <2>1. CASE j < i
    BY <1>1, <1>2, <1>4, <2>1
  <2>2. CASE ~(j < i)
    <3>1. j - (i - 1) \in 1 .. n - i /\ i + (j - (i - 1)) = j + 1 /\ ~(j <= i - 1)
      BY <1>1, <2>2
    <3>. QED
      BY <1>3, <1>4, <2>2, <3>1
  <2>. QED
    BY <2>1, <2>2
<1>6. Without(i) = a \o b
  BY DEF Without, a, b, n
<1>7. /\ Without(i) \in Seq(Items) /\ Len(Without(i)) = n - 1
      /\ \A j \in 1 .. n - 1 : Without(i)[j] = IF j < i THEN listing[j] ELSE listing[j + 1]
  <2>1. a \o b \in Seq(Items) /\ Len(a \o b) = n - 1
    BY <1>4
  <2>2. \A j \in 1 .. n - 1 : (a \o b)[j] = IF j < i THEN listing[j] ELSE listing[j + 1]
    BY <1>5
  <2>. QED
    BY <1>6, <2>1, <2>2
<1>. QED
  BY <1>7 DEF n

-----------------------------------------------------------------------------
(* Where the items are, while the listing is read.                         *)

\* The places before the next page: all that a listing will not ask for again.
Offset == IF at = "done" THEN page * PageLimit ELSE (page - 1) * PageLimit

Front == {listing[i] : i \in {j \in DOMAIN listing : j <= Offset}}

\* The untouched items that were shifted over the offset without being given.
Passed == {x \in Front : x \in started \ touched /\ ~IsGiven(x)}

\* No item is listed twice, and what was touched comes after what was not.
Distinct == \A i, j \in DOMAIN listing : listing[i] = listing[j] => i = j

TouchedLast ==
  \A i, j \in DOMAIN listing : i < j /\ listing[i] \in touched => listing[j] \in touched

\* But for what was touched, the listing holds what it held when it was opened.
StartedListed ==
  /\ started \ touched \subseteq Listed
  /\ started = {} \/ Listed \ touched \subseteq started

GivenInFront == \A x \in Items : IsGiven(x) => x \in touched \/ x \in Front

FewPassed == Cardinality(Passed) <= behind

\* A listing that ended before the cap ended behind all that was not touched.
EndReached ==
  at = "done" /\ page < MaxPages =>
    \A i \in DOMAIN listing : listing[i] \in touched \/ i <= Offset

PlacesInv ==
  /\ Distinct /\ TouchedLast /\ StartedListed
  /\ GivenInFront /\ FewPassed /\ EndReached
  /\ TwiceOnlyIfMoved

LEMMA OffsetType ==
  ASSUME TypeOK
  PROVE  Offset \in Nat
<1>1. page \in Nat \ {0}
  BY ClientAssumption DEF TypeOK
<1>. QED
  BY <1>1, PageStart DEF Offset

LEMMA PassedFinite ==
  ASSUME TypeOK
  PROVE  IsFiniteSet(Passed) /\ Cardinality(Passed) \in Nat
<1>1. IsFiniteSet(Items)
  BY ListingAssumption, FS_Interval DEF Items
<1>2. Passed \in SUBSET Items
  BY DEF Passed, TypeOK
<1>. QED
  BY <1>1, <1>2, FS_Subset, FS_CardinalityType

\* A change takes x out of place i, if it was listed, and puts it at the end, if it
\* still exists; the others close up.
Moved(i, x) ==
  /\ listing' \in Seq(Items)
  /\ \A k \in DOMAIN listing : listing[k] = x <=> k = i
  /\ \A j \in DOMAIN listing' : listing'[j] = x => j = Len(listing')
  /\ \A j \in DOMAIN listing' : listing'[j] # x =>
       /\ (IF j < i THEN j ELSE j + 1) \in DOMAIN listing
       /\ listing'[j] = listing[IF j < i THEN j ELSE j + 1]
  /\ \A k \in DOMAIN listing \ {i} :
       /\ (IF k < i THEN k ELSE k - 1) \in DOMAIN listing'
       /\ listing'[IF k < i THEN k ELSE k - 1] = listing[k]

LEMMA ChangeMoves ==
  ASSUME TypeOK, Distinct, Change
  PROVE  \E i \in Nat \ {0}, x \in Items : Moved(i, x) /\ Touch(x)
<1>. DEFINE n == Len(listing)
<1>0. listing \in Seq(Items) /\ n \in Nat /\ DOMAIN listing = 1 .. n
  BY DEF TypeOK
<1>1. ASSUME NEW i \in DOMAIN listing, Save(i), Touch(listing[i])
      PROVE  \E k \in Nat \ {0}, x \in Items : Moved(k, x) /\ Touch(x)
  <2>. DEFINE x == listing[i]
  <2>1. i \in 1 .. n /\ x \in Items
    BY <1>0
  <2>2. /\ Without(i) \in Seq(Items) /\ Len(Without(i)) = n - 1
        /\ \A j \in 1 .. n - 1 : Without(i)[j] = IF j < i THEN listing[j] ELSE listing[j + 1]
    BY <1>0, WithoutPlaces
  <2>3. /\ listing' \in Seq(Items) /\ Len(listing') = n
        /\ \A j \in 1 .. n - 1 : listing'[j] = IF j < i THEN listing[j] ELSE listing[j + 1]
        /\ listing'[n] = x
    <3>1. listing' = Append(Without(i), x)
      BY <1>1 DEF Save
    <3>2. /\ listing' \in Seq(Items) /\ Len(listing') = n - 1 + 1
          /\ \A j \in 1 .. n - 1 : listing'[j] = Without(i)[j]
          /\ listing'[n - 1 + 1] = x
      BY <2>1, <2>2, <3>1, AppendProperties
    <3>3. n - 1 + 1 = n
      BY <1>0
    <3>. QED
      BY <2>2, <3>2, <3>3
  <2>4. DOMAIN listing' = 1 .. n
    BY <2>3
  <2>5. \A k \in 1 .. n : listing[k] = x <=> k = i
    BY <1>0, <2>1 DEF Distinct
  <2>. HIDE DEF n, x
  <2>6. \A j \in 1 .. n : listing'[j] = x => j = n
    <3>. SUFFICES ASSUME NEW j \in 1 .. n, j # n PROVE listing'[j] # x
      OBVIOUS
    <3>1. j \in 1 .. n - 1 /\ j + 1 \in 1 .. n /\ (j < i => j # i) /\ (~(j < i) => j + 1 # i)
      BY <1>0, <2>1
    <3>. QED
      BY <2>3, <2>5, <3>1
  <2>7. ASSUME NEW j \in 1 .. n, listing'[j] # x
        PROVE  /\ (IF j < i THEN j ELSE j + 1) \in 1 .. n
               /\ listing'[j] = listing[IF j < i THEN j ELSE j + 1]
    <3>1. j # n
      BY <2>3, <2>7
    <3>2. j \in 1 .. n - 1 /\ j + 1 \in 1 .. n
      BY <1>0, <3>1
    <3>. QED
      BY <2>3, <3>2
  <2>8. ASSUME NEW k \in (1 .. n) \ {i}
        PROVE  /\ (IF k < i THEN k ELSE k - 1) \in 1 .. n
               /\ listing'[IF k < i THEN k ELSE k - 1] = listing[k]
    <3>1. CASE k < i
      <4>1. k \in 1 .. n - 1
        BY <1>0, <2>1, <3>1
      <4>. QED
        BY <2>3, <3>1, <4>1
    <3>2. CASE ~(k < i)
      <4>1. k - 1 \in 1 .. n - 1 /\ ~(k - 1 < i) /\ k - 1 + 1 = k /\ k - 1 \in 1 .. n
        BY <1>0, <2>1, <3>2
      <4>. QED
        BY <2>3, <3>2, <4>1
    <3>. QED
      BY <3>1, <3>2
  <2>9. Moved(i, x)
    BY <1>0, <2>3, <2>4, <2>5, <2>6, <2>7, <2>8 DEF Moved
  <2>. QED
    BY <1>0, <1>1, <2>1, <2>9 DEF x
<1>2. ASSUME NEW i \in DOMAIN listing, Remove(i), Touch(listing[i])
      PROVE  \E k \in Nat \ {0}, x \in Items : Moved(k, x) /\ Touch(x)
  <2>. DEFINE x == listing[i]
  <2>1. i \in 1 .. n /\ x \in Items
    BY <1>0
  <2>2. /\ listing' \in Seq(Items) /\ Len(listing') = n - 1
        /\ \A j \in 1 .. n - 1 : listing'[j] = IF j < i THEN listing[j] ELSE listing[j + 1]
    BY <1>0, <1>2, WithoutPlaces DEF Remove
  <2>4. DOMAIN listing' = 1 .. n - 1
    BY <2>2
  <2>5. \A k \in 1 .. n : listing[k] = x <=> k = i
    BY <1>0, <2>1 DEF Distinct
  <2>. HIDE DEF n, x
  <2>6. \A j \in 1 .. n - 1 : /\ listing'[j] # x
                              /\ (IF j < i THEN j ELSE j + 1) \in 1 .. n
                              /\ listing'[j] = listing[IF j < i THEN j ELSE j + 1]
    <3>. SUFFICES ASSUME NEW j \in 1 .. n - 1
                  PROVE  /\ listing'[j] # x
                         /\ (IF j < i THEN j ELSE j + 1) \in 1 .. n
                         /\ listing'[j] = listing[IF j < i THEN j ELSE j + 1]
      OBVIOUS
    <3>1. j \in 1 .. n /\ j + 1 \in 1 .. n /\ (j < i => j # i) /\ (~(j < i) => j + 1 # i)
      BY <1>0, <2>1
    <3>. QED
      BY <2>2, <2>5, <3>1
  <2>8. ASSUME NEW k \in (1 .. n) \ {i}
        PROVE  /\ (IF k < i THEN k ELSE k - 1) \in 1 .. n - 1
               /\ listing'[IF k < i THEN k ELSE k - 1] = listing[k]
    <3>1. CASE k < i
      <4>1. k \in 1 .. n - 1
        BY <1>0, <2>1, <3>1
      <4>. QED
        BY <2>2, <3>1, <4>1
    <3>2. CASE ~(k < i)
      <4>1. k - 1 \in 1 .. n - 1 /\ ~(k - 1 < i) /\ k - 1 + 1 = k
        BY <1>0, <2>1, <3>2
      <4>. QED
        BY <2>2, <3>2, <4>1
    <3>. QED
      BY <3>1, <3>2
  <2>9. Moved(i, x)
    BY <1>0, <2>2, <2>4, <2>5, <2>6, <2>8 DEF Moved
  <2>. QED
    BY <1>0, <1>2, <2>1, <2>9 DEF x
<1>3. ASSUME NEW x \in Items, Create(x), Touch(x)
      PROVE  \E k \in Nat \ {0}, y \in Items : Moved(k, y) /\ Touch(y)
  <2>1. /\ listing' \in Seq(Items) /\ Len(listing') = n + 1
        /\ \A j \in 1 .. n : listing'[j] = listing[j]
        /\ listing'[n + 1] = x
    BY <1>0, <1>3, AppendProperties DEF Create
  <2>2. DOMAIN listing' = 1 .. n + 1
    BY <2>1
  <2>3. \A k \in 1 .. n : listing[k] # x
    BY <1>0, <1>3 DEF Create, Listed
  <2>. HIDE DEF n
  <2>4. Moved(n + 1, x)
    <3>1. \A k \in 1 .. n : k < n + 1 /\ k # n + 1 /\ k \in 1 .. n + 1
      BY <1>0
    <3>2. \A j \in 1 .. n + 1 : j \in 1 .. n \/ j = n + 1
      BY <1>0
    <3>3. \A j \in 1 .. n + 1 : listing'[j] = x <=> j = n + 1
      BY <2>1, <2>3, <3>1, <3>2
    <3>. QED
      BY <1>0, <2>1, <2>2, <2>3, <3>1, <3>2, <3>3 DEF Moved
  <2>. QED
    BY <1>0, <1>3, <2>4
<1>. QED
  BY <1>1, <1>2, <1>3 DEF Change

\* What a change leaves of the two orders, of what was listed and of what was given.
LEMMA ChangeKeepsPlaces ==
  ASSUME TypeOK, PlacesInv, Change
  PROVE  (Distinct /\ TouchedLast /\ StartedListed /\ GivenInFront /\ EndReached /\ TwiceOnlyIfMoved)'
<1>. USE DEF PlacesInv
<1>1. PICK i \in Nat \ {0}, x \in Items : Moved(i, x) /\ Touch(x)
  BY ChangeMoves
<1>2. /\ touched' = touched \cup {x}
      /\ UNCHANGED <<at, page, attempt, buf, written, started>>
  BY <1>1 DEF Touch
<1>3. Offset' = Offset /\ Offset \in Nat
  BY <1>2, OffsetType DEF Offset
<1>4. DOMAIN listing = 1 .. Len(listing) /\ Len(listing) \in Nat
  BY DEF TypeOK
<1>5. DOMAIN listing' = 1 .. Len(listing') /\ Len(listing') \in Nat
  BY <1>1 DEF Moved
<1>. DEFINE from(j) == IF j < i THEN j ELSE j + 1
            to(k)   == IF k < i THEN k ELSE k - 1
<1>6. \A j \in DOMAIN listing' : listing'[j] # x =>
        from(j) \in DOMAIN listing /\ listing'[j] = listing[from(j)]
  BY <1>1 DEF Moved
<1>7. \A k \in DOMAIN listing \ {i} : to(k) \in DOMAIN listing' /\ listing'[to(k)] = listing[k]
  BY <1>1 DEF Moved
<1>8. \A j \in DOMAIN listing' : listing'[j] = x => j = Len(listing')
  BY <1>1 DEF Moved
<1>9. \A k \in DOMAIN listing : listing[k] = x <=> k = i
  BY <1>1 DEF Moved
<1>10. \A j \in Nat, k \in Nat : /\ (j < k => from(j) < from(k))
                                 /\ j <= from(j) /\ to(k) <= k /\ (from(j) = from(k) => j = k)
  BY <1>1
<1>. HIDE DEF from, to
<1>11. Distinct'
  <2>. SUFFICES ASSUME NEW j \in DOMAIN listing', NEW k \in DOMAIN listing', listing'[j] = listing'[k]
                PROVE  j = k
    BY DEF Distinct
  <2>1. CASE listing'[j] = x
    BY <1>8, <2>1
  <2>2. CASE listing'[j] # x
    <3>1. from(j) = from(k)
      BY <1>6, <2>2 DEF Distinct
    <3>. QED
      BY <1>5, <1>10, <3>1
  <2>. QED
    BY <2>1, <2>2
<1>12. TouchedLast'
  <2>. SUFFICES ASSUME NEW j \in DOMAIN listing', NEW k \in DOMAIN listing', j < k,
                       listing'[j] \in touched'
                PROVE  listing'[k] \in touched'
    BY DEF TouchedLast
  <2>1. listing'[j] # x
    BY <1>5, <1>8
  <2>2. CASE listing'[k] = x
    BY <1>2, <2>2
  <2>3. CASE listing'[k] # x
    <3>1. listing[from(j)] \in touched /\ from(j) < from(k)
      BY <1>2, <1>5, <1>6, <1>10, <2>1
    <3>. QED
      BY <1>2, <1>6, <2>1, <2>3, <3>1 DEF TouchedLast
  <2>. QED
    BY <2>2, <2>3
<1>13. StartedListed'
  <2>1. ASSUME NEW z \in started' \ touched'
        PROVE  z \in Listed'
    <3>1. PICK k \in DOMAIN listing : listing[k] = z
      BY <1>2 DEF StartedListed, Listed
    <3>2. k # i
      BY <1>2, <1>9, <3>1
    <3>. QED
      BY <1>7, <3>1, <3>2 DEF Listed
  <2>2. ASSUME NEW z \in Listed' \ touched', started # {}
        PROVE  z \in started
    <3>1. PICK j \in DOMAIN listing' : listing'[j] = z
      BY DEF Listed
    <3>2. z \in Listed \ touched
      BY <1>2, <1>6, <3>1 DEF Listed
    <3>. QED
      BY <2>2, <3>2 DEF StartedListed
  <2>. QED
    BY <1>2, <2>1, <2>2 DEF StartedListed
<1>14. \A z \in Items : IsGiven(z)' <=> IsGiven(z)
  BY <1>2 DEF IsGiven, Given
<1>15. GivenInFront'
  <2>. SUFFICES ASSUME NEW z \in Items, IsGiven(z), z \notin touched'
                PROVE  z \in Front'
    BY <1>14 DEF GivenInFront
  <2>1. PICK k \in DOMAIN listing : k <= Offset /\ listing[k] = z
    BY <1>2 DEF GivenInFront, Front
  <2>2. k # i
    BY <1>2, <1>9, <2>1
  <2>3. to(k) \in DOMAIN listing' /\ listing'[to(k)] = z /\ to(k) <= k
    BY <1>4, <1>7, <1>10, <2>1, <2>2
  <2>4. to(k) <= Offset
    BY <1>3, <1>4, <1>5, <2>1, <2>3
  <2>. QED
    BY <1>3, <2>3, <2>4 DEF Front
<1>16. EndReached'
  <2>. SUFFICES ASSUME at = "done", page < MaxPages, NEW j \in DOMAIN listing', listing'[j] \notin touched'
                PROVE  j <= Offset
    BY <1>2, <1>3 DEF EndReached
  <2>1. from(j) \in DOMAIN listing /\ listing[from(j)] \notin touched
    BY <1>2, <1>6
  <2>2. from(j) <= Offset
    BY <2>1 DEF EndReached
  <2>. QED
    BY <1>3, <1>4, <1>5, <1>10, <2>1, <2>2
<1>17. TwiceOnlyIfMoved'
  BY <1>2 DEF TwiceOnlyIfMoved, Given
<1>. QED
  BY <1>11, <1>12, <1>13, <1>15, <1>16, <1>17

\* A change shifts at most one item over the offset: one that was not touched, so that
\* all before it were not either.  If what changed had been given, this is counted; if
\* not, it was itself among those passed over.
LEMMA ChangeKeepsFewPassed ==
  ASSUME TypeOK, PlacesInv, Change
  PROVE  FewPassed'
<1>. USE DEF PlacesInv
<1>1. PICK i \in Nat \ {0}, x \in Items : Moved(i, x) /\ Touch(x)
  BY ChangeMoves
<1>2. /\ touched' = touched \cup {x}
      /\ behind' = IF IsGiven(x) THEN behind + 1 ELSE behind
      /\ UNCHANGED <<at, page, attempt, buf, written, started>>
  BY <1>1 DEF Touch
<1>3. Offset' = Offset /\ Offset \in Nat /\ behind \in Nat
  BY <1>2, OffsetType DEF Offset, TypeOK
<1>4. DOMAIN listing = 1 .. Len(listing) /\ Len(listing) \in Nat
  BY DEF TypeOK
<1>5. DOMAIN listing' = 1 .. Len(listing') /\ Len(listing') \in Nat
  BY <1>1 DEF Moved
<1>6. \A z : IsGiven(z)' <=> IsGiven(z)
  BY <1>2 DEF IsGiven, Given
<1>. DEFINE next == Offset + 1
            y    == listing[next]
<1>7. IsFiniteSet(Passed) /\ Cardinality(Passed) \in Nat /\ Cardinality(Passed) <= behind
  BY PassedFinite DEF FewPassed
\* Who is passed over now was so before, or is the next one.
<1>8. ASSUME NEW z \in Passed'
      PROVE  /\ z # x
             /\ z \in Passed \/ (i <= Offset /\ next \in DOMAIN listing /\ z = y /\ z \notin touched)
  <2>1. PICK j \in DOMAIN listing' : j <= Offset /\ listing'[j] = z
    BY <1>3 DEF Passed, Front
  <2>2. z \in started /\ z \notin touched /\ z # x /\ ~IsGiven(z)
    BY <1>2, <1>6 DEF Passed
  <2>3. CASE j < i
    <3>1. j \in DOMAIN listing /\ listing[j] = z
      BY <1>1, <2>1, <2>2, <2>3 DEF Moved
    <3>. QED
      BY <2>1, <2>2, <3>1 DEF Passed, Front
  <2>4. CASE ~(j < i)
    <3>1. j + 1 \in DOMAIN listing /\ listing[j + 1] = z
      BY <1>1, <2>1, <2>2, <2>4 DEF Moved
    <3>2. CASE j + 1 <= Offset
      BY <2>2, <3>1, <3>2 DEF Passed, Front
    <3>3. CASE ~(j + 1 <= Offset)
      <4>1. j = Offset /\ i <= Offset
        BY <1>1, <1>3, <1>5, <2>1, <2>4, <3>3
      <4>. QED
        BY <2>2, <3>1, <4>1
    <3>. QED
      BY <3>2, <3>3
  <2>. QED
    BY <2>3, <2>4
<1>9. CASE ~(i <= Offset /\ next \in DOMAIN listing /\ y \notin touched)
  <2>1. Passed' \in SUBSET Passed
    BY <1>8, <1>9
  <2>2. Cardinality(Passed') <= Cardinality(Passed) /\ Cardinality(Passed') \in Nat
    BY <1>7, <2>1, FS_Subset, FS_CardinalityType
  <2>. QED
    BY <1>2, <1>3, <1>7, <2>2 DEF FewPassed
<1>10. CASE i <= Offset /\ next \in DOMAIN listing /\ y \notin touched
  <2>1. i \in DOMAIN listing /\ i < next
    BY <1>1, <1>3, <1>4, <1>10
  <2>2. listing[i] = x /\ x \notin touched
    BY <1>1, <1>10, <2>1 DEF Moved, TouchedLast
  <2>. DEFINE rest == Passed \ {x}
  <2>3. IsFiniteSet(rest) /\ Cardinality(rest) = IF x \in Passed THEN Cardinality(Passed) - 1 ELSE Cardinality(Passed)
    BY <1>7, FS_RemoveElement
  <2>4. /\ IsFiniteSet(rest \cup {y}) /\ Cardinality(rest \cup {y}) \in Nat
        /\ Cardinality(rest \cup {y}) <= Cardinality(rest) + 1
    <3>1. IsFiniteSet(rest \cup {y})
             /\ Cardinality(rest \cup {y}) = IF y \in rest THEN Cardinality(rest) ELSE Cardinality(rest) + 1
      BY <2>3, FS_AddElement
    <3>2. Cardinality(rest) \in Nat /\ Cardinality(rest \cup {y}) \in Nat
      BY <2>3, <3>1, FS_CardinalityType
    <3>. QED
      BY <3>1, <3>2
  <2>5. Passed' \in SUBSET (rest \cup {y})
    BY <1>8
  <2>6. Cardinality(Passed') <= Cardinality(rest \cup {y}) /\ Cardinality(Passed') \in Nat
    BY <2>4, <2>5, FS_Subset, FS_CardinalityType
  <2>. HIDE DEF rest
  <2>7. CASE IsGiven(x)
    <3>1. Cardinality(rest) \in Nat /\ Cardinality(rest) <= Cardinality(Passed)
      BY <1>7, <2>3, FS_CardinalityType
    <3>. QED
      BY <1>2, <1>3, <1>7, <2>4, <2>6, <2>7, <3>1 DEF FewPassed
  <2>8. CASE ~IsGiven(x) /\ started # {}
    <3>1. x \in started
      BY <2>1, <2>2, <2>8 DEF StartedListed, Listed
    <3>2. x \in Passed
      BY <1>10, <2>1, <2>2, <2>8, <3>1 DEF Passed, Front
    <3>. QED
      BY <1>2, <1>3, <1>7, <2>3, <2>4, <2>6, <2>8, <3>2 DEF FewPassed
  <2>9. CASE started = {}
    <3>1. Passed' = {}
      BY <1>2, <2>9 DEF Passed
    <3>2. behind' \in Nat
      BY <1>2, <1>3
    <3>. QED
      BY <3>1, <3>2, FS_EmptySet DEF FewPassed
  <2>. QED
    BY <2>7, <2>8, <2>9
<1>. QED
  BY <1>9, <1>10

\* An answer gives what stands between its offset and the next, and that is all that
\* comes into the front: none of it was given before unless it was touched.
LEMMA AnswerKeepsPlaces ==
  ASSUME Inv, PlacesInv, Answered
  PROVE  PlacesInv'
<1>. USE DEF Inv, PlacesInv
<1>1. /\ at = "asking" /\ page \in Nat \ {0} /\ listing \in Seq(Items)
      /\ buf = <<>> /\ written \in Seq(Items) /\ behind \in Nat
  BY ClientAssumption DEF Answered, TypeOK, ReceivedIsWritten
<1>2. /\ UNCHANGED <<listing, started, touched, behind>>
      /\ at' = IF Last THEN "done" ELSE "asking"
      /\ page' = IF Last THEN page ELSE page + 1
  BY DEF Answered, history
<1>. DEFINE p   == Page(page)
            end == page * PageLimit
<1>3. Offset = (page - 1) * PageLimit /\ Offset' = end /\ Offset \in Nat /\ end \in Nat /\ Offset <= end
  <2>1. page + 1 - 1 = page
    BY <1>1
  <2>2. Offset' = end
    <3>1. CASE Last
      BY <1>2, <3>1 DEF Offset
    <3>2. CASE ~Last
      <4>1. at' # "done" /\ page' - 1 = page
        BY <1>1, <1>2, <3>2
      <4>. QED
        BY <4>1 DEF Offset
    <3>. QED
      BY <3>1, <3>2
  <2>. QED
    BY <1>1, <2>2, PageStart, ListingAssumption DEF Offset
<1>4. /\ p \in Seq(Items)
      /\ \A k \in DOMAIN p : \E i \in DOMAIN listing : i = Offset + k /\ i <= end /\ p[k] = listing[i]
      /\ \A i \in DOMAIN listing : Offset < i /\ i <= end => \E k \in DOMAIN p : p[k] = listing[i]
  BY <1>1, <1>3, PageType, PagePlaces
<1>5. Given = written /\ Given' = written \o p
  <2>1. written' = written \o p /\ buf' = <<>> /\ written' \in Seq(Items)
    BY AnswerIsWritten
  <2>. QED
    BY <1>1, <2>1, ConcatEmptySeq DEF Given
<1>. HIDE DEF p, end
<1>. DEFINE n == Len(written)
<1>6. /\ n \in Nat /\ Len(p) \in Nat /\ DOMAIN p = 1 .. Len(p) /\ DOMAIN written = 1 .. n
      /\ DOMAIN Given' = 1 .. n + Len(p)
      /\ \A j \in 1 .. n + Len(p) : Given'[j] = IF j <= n THEN written[j] ELSE p[j - n]
  BY <1>1, <1>4, <1>5, ConcatProperties
<1>. HIDE DEF n
<1>7. \A j \in 1 .. n : j \in DOMAIN Given' /\ Given'[j] = written[j]
  BY <1>6
<1>8. \A k \in 1 .. Len(p) : n + k \in DOMAIN Given' /\ Given'[n + k] = p[k]
  BY <1>6
<1>9. \A j \in DOMAIN Given' : j \in 1 .. n \/ (j - n \in 1 .. Len(p) /\ Given'[j] = p[j - n] /\ j = n + (j - n))
  BY <1>6
<1>10. DOMAIN listing \subseteq Nat
  BY <1>1
<1>11. \A z : IsGiven(z)' <=> IsGiven(z) \/ \E k \in DOMAIN p : p[k] = z
  <2>. SUFFICES ASSUME NEW z
                PROVE  (\E j \in DOMAIN Given' : Given'[j] = z)
                         <=> (\E j \in 1 .. n : written[j] = z) \/ \E k \in 1 .. Len(p) : p[k] = z
    BY <1>5, <1>6 DEF IsGiven
  <2>. QED
    BY <1>7, <1>8, <1>9
<1>12. \A z \in Front' : z \in Front \/ \E k \in DOMAIN p : p[k] = z
  <2>. SUFFICES ASSUME NEW i \in DOMAIN listing, i <= end
                PROVE  listing[i] \in Front \/ \E k \in DOMAIN p : p[k] = listing[i]
    BY <1>2, <1>3 DEF Front
  <2>1. CASE i <= Offset
    BY <2>1 DEF Front
  <2>2. CASE Offset < i
    BY <1>4, <2>2
  <2>. QED
    BY <1>3, <1>10, <2>1, <2>2
<1>13. Front \subseteq Front' /\ \A k \in DOMAIN p : p[k] \in Front'
  <2>1. \A i \in DOMAIN listing : i <= Offset => i <= end
    BY <1>3, <1>10
  <2>. QED
    BY <1>2, <1>3, <1>4, <2>1 DEF Front
<1>14. (Distinct /\ TouchedLast /\ StartedListed)'
  BY <1>2 DEF Distinct, TouchedLast, StartedListed, Listed
<1>15. GivenInFront'
  BY <1>2, <1>11, <1>13 DEF GivenInFront
<1>16. FewPassed'
  <2>1. Passed' \in SUBSET Passed
    BY <1>2, <1>11, <1>12 DEF Passed
  <2>2. IsFiniteSet(Passed) /\ Cardinality(Passed) \in Nat /\ Cardinality(Passed) <= behind
    BY PassedFinite DEF FewPassed
  <2>3. Cardinality(Passed') <= Cardinality(Passed) /\ Cardinality(Passed') \in Nat
    BY <2>1, <2>2, FS_Subset, FS_CardinalityType
  <2>. QED
    BY <1>1, <1>2, <2>2, <2>3 DEF FewPassed
<1>17. EndReached'
  <2>. SUFFICES ASSUME at' = "done", page' < MaxPages, NEW i \in DOMAIN listing
                PROVE  i <= end
    BY <1>2, <1>3 DEF EndReached
  <2>1. Last /\ page' = page
    BY <1>2
  <2>2. ~HasMore(page)
    BY <1>1, <2>1, ClientAssumption DEF Last
  <2>. QED
    BY <1>1, <1>3, <2>2 DEF HasMore, end
<1>18. TwiceOnlyIfMoved'
  <2>. SUFFICES ASSUME NEW i \in DOMAIN Given', NEW j \in DOMAIN Given',
                       Given'[i] = Given'[j], i # j, Given'[i] \notin touched
                PROVE  FALSE
    BY <1>2 DEF TwiceOnlyIfMoved
  \* What was given before stands in front of the page.
  <2>1. ASSUME NEW k \in DOMAIN p, NEW l \in 1 .. n, p[k] = written[l], p[k] \notin touched
        PROVE  FALSE
    <3>1. p[k] \in Items
      BY <1>4, <1>6
    <3>2. IsGiven(p[k])
      BY <1>5, <1>6, <2>1 DEF IsGiven
    <3>3. PICK a \in DOMAIN listing : a <= Offset /\ listing[a] = p[k]
      BY <2>1, <3>1, <3>2 DEF GivenInFront, Front
    <3>4. PICK b \in DOMAIN listing : b = Offset + k /\ p[k] = listing[b]
      BY <1>4
    <3>5. a = b
      BY <3>3, <3>4 DEF Distinct
    <3>. QED
      BY <1>3, <1>6, <1>10, <3>3, <3>4, <3>5
  <2>2. CASE i \in 1 .. n /\ j \in 1 .. n
    BY <1>2, <1>5, <1>6, <1>7, <2>2 DEF TwiceOnlyIfMoved
  <2>3. CASE i \in 1 .. n /\ j \notin 1 .. n
    <3>1. j - n \in DOMAIN p /\ p[j - n] = written[i] /\ p[j - n] \notin touched
      BY <1>6, <1>7, <1>9, <2>3
    <3>. QED
      BY <2>1, <2>3, <3>1
  <2>4. CASE i \notin 1 .. n /\ j \in 1 .. n
    <3>1. i - n \in DOMAIN p /\ p[i - n] = written[j] /\ p[i - n] \notin touched
      BY <1>6, <1>7, <1>9, <2>4
    <3>. QED
      BY <2>1, <2>4, <3>1
  <2>5. CASE i \notin 1 .. n /\ j \notin 1 .. n
    <3>1. /\ i - n \in DOMAIN p /\ j - n \in DOMAIN p /\ p[i - n] = p[j - n]
          /\ i = n + (i - n) /\ j = n + (j - n)
      BY <1>6, <1>9, <2>5
    <3>2. PICK a \in DOMAIN listing : a = Offset + (i - n) /\ p[i - n] = listing[a]
      BY <1>4, <3>1
    <3>3. PICK b \in DOMAIN listing : b = Offset + (j - n) /\ p[j - n] = listing[b]
      BY <1>4, <3>1
    <3>4. a = b
      BY <3>1, <3>2, <3>3 DEF Distinct
    <3>5. i - n \in Nat /\ j - n \in Nat
      BY <1>6, <3>1
    <3>6. i - n = j - n
      BY <1>3, <3>2, <3>3, <3>4, <3>5
    <3>. QED
      BY <3>1, <3>6
  <2>. QED
    BY <2>2, <2>3, <2>4, <2>5
<1>. QED
  BY <1>14, <1>15, <1>16, <1>17, <1>18

\* A listing that is opened has given nothing and has everything ahead of it.
LEMMA NothingGiven ==
  ASSUME TypeOK', Distinct', touched' = {}, behind' = 0, Given' = <<>>, page' = 1, at' # "done",
         started' \subseteq Listed', started' = {} \/ Listed' \subseteq started'
  PROVE  PlacesInv'
<1>1. DOMAIN listing' \subseteq Nat \ {0}
  BY DEF TypeOK
<1>2. Offset' = 0
  <2>1. (1 - 1) * PageLimit = 0
    BY ListingAssumption
  <2>. QED
    BY <2>1 DEF Offset
<1>3. Front' = {} /\ Passed' = {}
  BY <1>1, <1>2 DEF Front, Passed
<1>4. \A z : ~IsGiven(z)'
  BY DEF IsGiven
<1>5. TouchedLast' /\ StartedListed' /\ EndReached'
  BY DEF TouchedLast, StartedListed, EndReached
<1>6. GivenInFront' /\ TwiceOnlyIfMoved'
  BY <1>4 DEF GivenInFront, TwiceOnlyIfMoved
<1>7. FewPassed'
  BY <1>3, FS_EmptySet DEF FewPassed
<1>. QED
  BY <1>5, <1>6, <1>7 DEF PlacesInv

LEMMA PlacesInit ==
  ASSUME Init
  PROVE  PlacesInv
<1>1. PICK n \in 0 .. MaxItems : listing = [i \in 1 .. n |-> i]
  BY DEF Init, ListingInit
<1>2. Distinct /\ DOMAIN listing \subseteq Nat \ {0}
  BY <1>1 DEF Distinct
<1>3. Given = <<>>
  BY ConcatEmptySeq, EmptySeq DEF Init, Given
<1>4. Offset = 0
  <2>1. (1 - 1) * PageLimit = 0
    BY ListingAssumption
  <2>. QED
    BY <2>1 DEF Offset, Init
<1>5. Front = {} /\ Passed = {}
  BY <1>2, <1>4 DEF Front, Passed
<1>6. \A z : ~IsGiven(z)
  BY <1>3 DEF IsGiven
<1>7. TouchedLast /\ StartedListed /\ EndReached
  BY DEF Init, TouchedLast, StartedListed, EndReached
<1>8. GivenInFront /\ TwiceOnlyIfMoved
  BY <1>3, <1>6 DEF GivenInFront, TwiceOnlyIfMoved
<1>9. FewPassed
  BY <1>5, FS_EmptySet DEF Init, FewPassed
<1>. QED
  BY <1>2, <1>7, <1>8, <1>9 DEF PlacesInv

\* The places survive every step; a request that fails or waits moves nothing.
LEMMA PlacesStep ==
  ASSUME Inv, PlacesInv, [Next]_vars
  PROVE  PlacesInv'
<1>1. CASE Open
  <2>1. TypeOK'
    BY NextInv DEF Inv
  <2>2. /\ Given' = <<>> /\ touched' = {} /\ behind' = 0 /\ page' = 1 /\ at' = "asking"
        /\ listing' = listing /\ started' = Listed /\ Listed' = Listed
    BY <1>1, ConcatEmptySeq, EmptySeq DEF Open, Given, Listed
  <2>3. Distinct'
    BY <2>2 DEF PlacesInv, Distinct
  <2>. QED
    BY <2>1, <2>2, <2>3, NothingGiven
<1>2. CASE Answered
  BY <1>2, AnswerKeepsPlaces
<1>3. CASE Change
  BY <1>3, ChangeKeepsPlaces, ChangeKeepsFewPassed DEF Inv, PlacesInv
<1>4. ASSUME UNCHANGED <<listing, page, buf, written, started, touched, behind>>, at' = "done" <=> at = "done"
      PROVE  PlacesInv'
  <2>1. Offset' = Offset /\ Given' = Given /\ Listed' = Listed
    BY <1>4 DEF Offset, Given, Listed
  <2>2. Front' = Front /\ Passed' = Passed
    BY <1>4, <2>1 DEF Front, Passed, IsGiven
  <2>3. (Distinct /\ TouchedLast /\ StartedListed)'
    BY <1>4, <2>1 DEF PlacesInv, Distinct, TouchedLast, StartedListed
  <2>4. (GivenInFront /\ FewPassed)'
    BY <1>4, <2>1, <2>2 DEF PlacesInv, GivenInFront, FewPassed, IsGiven
  <2>5. EndReached'
    BY <1>4, <2>1 DEF PlacesInv, EndReached
  <2>6. TwiceOnlyIfMoved'
    BY <1>4, <2>1 DEF PlacesInv, TwiceOnlyIfMoved
  <2>. QED
    BY <2>3, <2>4, <2>5, <2>6 DEF PlacesInv
<1>5. CASE Refused
  BY <1>4, <1>5 DEF Refused, history
<1>6. CASE TransientError
  BY <1>4, <1>6 DEF TransientError, history
<1>7. CASE Retry
  BY <1>4, <1>7 DEF Retry, history
<1>8. CASE UNCHANGED vars
  BY <1>4, <1>8 DEF vars
<1>. QED
  BY <1>1, <1>2, <1>3, <1>5, <1>6, <1>7, <1>8 DEF Next

\* services.py:315 and joplin_client.py:174-190: a complete listing misses, of what
\* nobody touched, no more items than changes were made to items it had been given.
THEOREM MissesAreBounded == Spec => []MissedOnlyBehindAMove
<1>1. Inv /\ PlacesInv => MissedOnlyBehindAMove
  <2>. SUFFICES ASSUME Inv, PlacesInv, Complete
                PROVE  Cardinality({x \in started \ touched : ~IsGiven(x)}) <= behind
    BY DEF MissedOnlyBehindAMove
  <2>. DEFINE missed == {x \in started \ touched : ~IsGiven(x)}
  <2>1. page \in Nat \ {0} /\ at = "done" /\ listing \in Seq(Items) /\ behind \in Nat
    BY ClientAssumption DEF Inv, TypeOK, Complete
  <2>2. \A i \in DOMAIN listing : listing[i] \in touched \/ i <= Offset
    <3>1. CASE page < MaxPages
      BY <2>1, <3>1 DEF PlacesInv, EndReached
    <3>2. CASE ~HasMore(page)
      <4>1. Offset = page * PageLimit /\ Offset \in Nat
        BY <2>1, PageStart DEF Offset
      <4>. QED
        BY <2>1, <3>2, <4>1 DEF HasMore
    <3>. QED
      BY <3>1, <3>2 DEF Complete
  <2>3. missed \in SUBSET Passed
    BY <2>2 DEF PlacesInv, StartedListed, Listed, Passed, Front
  <2>4. IsFiniteSet(Passed) /\ Cardinality(Passed) \in Nat /\ Cardinality(Passed) <= behind
    BY PassedFinite DEF Inv, PlacesInv, FewPassed
  <2>5. Cardinality(missed) <= Cardinality(Passed) /\ Cardinality(missed) \in Nat
    BY <2>3, <2>4, FS_Subset, FS_CardinalityType
  <2>. QED
    BY <2>1, <2>4, <2>5
<1>. QED
  BY InitInv, NextInv, PlacesInit, PlacesStep, <1>1, PTL DEF Spec

\* joplin_client.py:174-190 again: no item is handed to the indexer twice unless it
\* was saved while the listing ran.
THEOREM TwiceIsExplained == Spec => []TwiceOnlyIfMoved
<1>1. PlacesInv => TwiceOnlyIfMoved
  BY DEF PlacesInv
<1>. QED
  BY InitInv, NextInv, PlacesInit, PlacesStep, <1>1, PTL DEF Spec

-----------------------------------------------------------------------------
(* A listing ends                                                          *)

UnderWay == at \in {"asking", "sleeping"}

\* The steps a listing can still take: for every attempt that is left of this page and of
\* the pages up to the cap, a request and a sleep.
AttemptsLeft == 2 * (MaxRetries - attempt) + (IF at = "asking" THEN 1 ELSE 2)
PageWork     == 2 * MaxRetries + 2
ListingLeft  ==
  IF UnderWay THEN (MaxPages - page) * PageWork + AttemptsLeft ELSE 0

\* joplin_client.py:58, 174-190, logging_config.py:292-310: neither attempts that keep
\* failing nor a library that grows while it is read make a listing go on for ever.  Each
\* step of it leaves less to do, what the user does leaves what is left alone, and at
\* most MaxPages pages are asked for MaxRetries + 1 times each.
ListingShrinks ==
  /\ [](ListingLeft \in 0 .. MaxPages * PageWork /\ (ListingLeft = 0 <=> ~UnderWay))
  /\ [][UnderWay =>
          (Change /\ ListingLeft' = ListingLeft) \/ ListingLeft' < ListingLeft]_vars

\* One page less is worth all attempts at it.
LEMMA OnePageLess ==
  ASSUME NEW p \in Nat, p < MaxPages
  PROVE  /\ (MaxPages - p) * PageWork \in Nat /\ (MaxPages - (p + 1)) * PageWork \in Nat
         /\ (MaxPages - p) * PageWork = (MaxPages - (p + 1)) * PageWork + PageWork
<1>1. PageWork \in Nat /\ MaxPages \in Nat
  BY ClientAssumption DEF PageWork
<1>2. \A k, w \in Nat : k * w \in Nat /\ (k + 1) * w \in Nat /\ (k + 1) * w = k * w + w
  BY SMTT(30)
<1>3. PICK k \in Nat : k = MaxPages - (p + 1)
  BY <1>1
<1>4. MaxPages - p = k + 1
  BY <1>1, <1>3
<1>. QED
  BY <1>1, <1>2, <1>3, <1>4

\* The number is one, and it is within its bound.
LEMMA ListingIsCounted ==
  ASSUME TypeOK
  PROVE  ListingLeft \in 0 .. MaxPages * PageWork
         /\ (ListingLeft = 0 <=> ~UnderWay)
<1>. USE DEF UnderWay
<1>1. /\ page \in 1 .. MaxPages /\ MaxPages \in Nat /\ MaxRetries \in Nat
      /\ PageWork \in Nat /\ PageWork = 2 * MaxRetries + 2
  BY ClientAssumption DEF TypeOK, PageWork
<1>2. \A k, n, w \in Nat : k < n => k * w \in Nat /\ n * w \in Nat /\ k * w + w <= n * w
  <2>. SUFFICES ASSUME NEW k \in Nat, NEW n \in Nat, NEW w \in Nat, k < n
                PROVE  k * w \in Nat /\ n * w \in Nat /\ k * w + w <= n * w
    OBVIOUS
  <2>1. PICK d \in Nat : n = k + 1 + d
    BY n - (k + 1) \in Nat
  <2>2. k * w \in Nat /\ d * w \in Nat /\ n * w \in Nat
    OBVIOUS
  <2>3. (k + 1 + d) * w = k * w + w + d * w
    BY SMTT(30)
  <2>. QED
    BY <2>1, <2>2, <2>3
<1>3. /\ (MaxPages - page) * PageWork \in Nat /\ MaxPages * PageWork \in Nat
      /\ (MaxPages - page) * PageWork + PageWork <= MaxPages * PageWork
  <2>. MaxPages - page \in Nat /\ MaxPages - page < MaxPages
    BY <1>1
  <2>. QED
    BY <1>1, <1>2
<1>4. UnderWay => AttemptsLeft \in 1 .. PageWork
  BY <1>1 DEF TypeOK, AttemptsLeft
<1>. HIDE DEF AttemptsLeft, PageWork
<1>5. CASE UnderWay
  BY <1>1, <1>3, <1>4, <1>5 DEF ListingLeft
<1>6. CASE ~UnderWay
  BY <1>1, <1>3, <1>6 DEF ListingLeft
<1>. QED
  BY <1>5, <1>6

\* For every page size, page cap, retry budget and number of changes: the safety half of
\* EveryListingEnds.
THEOREM ListingsAreBounded == Spec => ListingShrinks
<1>. USE DEF UnderWay
<1>1. ASSUME TypeOK, TypeOK', Next, UnderWay, ~Change
      PROVE  ListingLeft' < ListingLeft
  <2>1. /\ page \in 1 .. MaxPages /\ MaxPages \in Nat /\ MaxRetries \in Nat /\ attempt \in 0 .. MaxRetries
        /\ PageWork \in Nat /\ PageWork = 2 * MaxRetries + 2 /\ PageWork' = PageWork
    BY <1>1, ClientAssumption DEF TypeOK, PageWork
  <2>2. ListingLeft \in Nat /\ ListingLeft # 0
    <3>. MaxPages * PageWork \in Nat
      BY <2>1
    <3>. QED
      BY <1>1, ListingIsCounted
  <2>3. CASE ~UnderWay'
    BY <2>2, <2>3 DEF ListingLeft
  <2>4. (MaxPages - page) * PageWork \in Nat
    <3>. MaxPages - page \in Nat
      BY <2>1
    <3>. QED
      BY <2>1
  <2>5. CASE Answered /\ UnderWay'
    <3>1. at = "asking" /\ at' = "asking" /\ page' = page + 1 /\ attempt' = 0 /\ page # MaxPages
      BY <2>5 DEF Answered, Last
    <3>2. /\ (MaxPages - (page + 1)) * PageWork \in Nat
          /\ (MaxPages - page) * PageWork = (MaxPages - (page + 1)) * PageWork + PageWork
      BY <2>1, <3>1, OnePageLess
    <3>3. AttemptsLeft = 2 * (MaxRetries - attempt) + 1 /\ AttemptsLeft' = 2 * MaxRetries + 1
      BY <2>1, <3>1 DEF AttemptsLeft
    <3>4. ListingLeft' = (MaxPages - (page + 1)) * PageWork + AttemptsLeft'
      BY <2>1, <3>1 DEF ListingLeft
    <3>5. ListingLeft = (MaxPages - page) * PageWork + AttemptsLeft
      BY <3>1 DEF ListingLeft
    <3>. QED
      BY <2>1, <3>2, <3>3, <3>4, <3>5
  <2>6. CASE (TransientError \/ Retry) /\ UnderWay'
    <3>1. /\ page' = page
          /\ \/ at = "asking" /\ at' = "sleeping" /\ attempt' = attempt + 1
             \/ at = "sleeping" /\ at' = "asking" /\ attempt' = attempt
      BY <2>6 DEF TransientError, Retry
    <3>2. AttemptsLeft' = AttemptsLeft - 1 /\ AttemptsLeft \in Int
      <4>1. CASE at = "asking"
        BY <2>1, <3>1, <4>1 DEF AttemptsLeft
      <4>2. CASE at = "sleeping"
        BY <2>1, <3>1, <4>2 DEF AttemptsLeft
      <4>. QED
        BY <3>1, <4>1, <4>2
    <3>3. /\ ListingLeft = (MaxPages - page) * PageWork + AttemptsLeft
          /\ ListingLeft' = (MaxPages - page) * PageWork + AttemptsLeft'
      BY <1>1, <2>1, <2>6, <3>1 DEF ListingLeft
    <3>. QED
      BY <2>4, <3>2, <3>3
  <2>7. ~Open
    BY <1>1 DEF Open
  <2>. QED
    BY <1>1, <2>3, <2>5, <2>6, <2>7 DEF Next, Refused
<1>2. Change => ListingLeft' = ListingLeft
  BY DEF Change, Touch, ListingLeft, AttemptsLeft, PageWork
<1>3. Inv /\ Inv' /\ [Next]_vars
        => [UnderWay =>
              (Change /\ ListingLeft' = ListingLeft) \/ ListingLeft' < ListingLeft]_vars
  BY <1>1, <1>2 DEF Inv
<1>4. Inv => /\ ListingLeft \in 0 .. MaxPages * PageWork
             /\ ListingLeft = 0 <=> ~UnderWay
  BY ListingIsCounted DEF Inv
<1>. QED
  BY <1>3, <1>4, InitInv, NextInv, PTL DEF Spec, ListingShrinks
=============================================================================
