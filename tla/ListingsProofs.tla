---------------------------- MODULE ListingsProofs ----------------------------
(***************************************************************************)
(* Proofs about Listings, for every page size, page limit and number of    *)
(* rows.                                                                   *)
(***************************************************************************)
EXTENDS Listings, TLAPS

\* An undisturbed offset walk has only passed pages that lie before the
\* wanted row.
OffsetInv ==
  style = "offset" /\ stayed /\ ~shifted /\ ~degraded =>
    /\ result = "pending" => place > (page - 1) * MAX_PAGE_SIZE
    /\ result = "undefined" => place > MaxPages * MAX_PAGE_SIZE

\* A keyset walk has only passed rows before the wanted one, whatever was
\* removed.
KeysetInv ==
  style = "keyset" /\ stayed =>
    /\ result = "pending" => place > cursor
    /\ result = "undefined" => Reckoned > PageCap

SingleInv ==
  style = "single" /\ stayed /\ result = "undefined" => place > Clamped(Reckoned)

ListInv ==
  /\ TypeOK
  /\ stayed => IsPresent
  /\ OffsetInv
  /\ KeysetInv
  /\ SingleInv

\* What is asked for is a page of at least one row.
LEMMA Limit ==
  ASSUME limit \in Limits \cup {NoLimit}
  PROVE  /\ ListLimit \in Nat \ {0} /\ Reckoned = ListLimit
         /\ Clamped(ListLimit) \in 1..PageCap /\ Clamped(ListLimit) <= ListLimit
         /\ Clamped(ListLimit) < ListLimit => Reckoned > PageCap
<1>1. ListLimit \in Nat \ {0} /\ Reckoned = ListLimit
  BY ConstantsAssumption DEF ListLimit, Reckoned
<1> QED BY <1>1, ConstantsAssumption DEF Clamped

\* Page arithmetic: pages up to the reported count hold every row.
LEMMA PagesHoldAllRows ==
  ASSUME NEW n \in Nat, NEW size \in Nat \ {0}, NEW k \in Nat,
         k >= (n + size - 1) \div size
  PROVE  k * size >= n
<1> DEFINE q == (n + size - 1) \div size
           r == (n + size - 1) % size
<1>1. q \in Int /\ r \in 0..(size - 1) /\ n + size - 1 = size * q + r
  OBVIOUS
<1>2. k \in Int /\ k >= q
  OBVIOUS
<1> HIDE DEF q, r
<1>3. size * q >= n
  BY <1>1
<1>4. k * size = size * q + (k - q) * size
  BY <1>1, <1>2
<1>5. (k - q) * size >= 0
  <2>1. k - q \in Nat /\ size \in Nat
    BY <1>1, <1>2
  <2> QED BY <2>1
<1> QED BY <1>1, <1>2, <1>3, <1>4, <1>5

LEMMA InitList == Init => ListInv
<1> SUFFICES ASSUME Init
             PROVE  ListInv
  OBVIOUS
<1> USE ConstantsAssumption DEF Init, IsPresent, Absent
<1>1. TypeOK
  <2>1. style \in {"offset", "keyset", "single"} /\ limit \in Limits \cup {NoLimit}
    BY Zenon
  <2>2. total \in 0..MaxRows /\ place \in 0..total /\ page \in 1..MaxPages /\ cursor \in 0..total
    BY SMT
  <2>3. result \in {"pending", "found", "undefined"}
    BY Zenon
  <2>4. shifted \in BOOLEAN /\ degraded \in BOOLEAN /\ stayed \in BOOLEAN
    BY Zenon
  <2> QED BY <2>1, <2>2, <2>3, <2>4, Zenon DEF TypeOK
<1>2. (page - 1) * MAX_PAGE_SIZE = 0
  OBVIOUS
<1>3. stayed => place > 0
  BY <1>1 DEF TypeOK
<1>4. result = "pending" /\ cursor = 0
  OBVIOUS
<1> HIDE DEF Init
<1> QED BY <1>1, <1>2, <1>3, <1>4 DEF ListInv, OffsetInv, KeysetInv, SingleInv

LEMMA OffsetStep ==
  ASSUME ListInv, FetchPage
  PROVE  ListInv'
<1> USE ConstantsAssumption DEF ListInv, TypeOK, IsPresent, Absent
<1>1. PICK readable \in BOOLEAN :
        /\ \/ OnPage /\ result' = "found" /\ UNCHANGED page
           \/ ~OnPage /\ IsLast(readable) /\ result' = "undefined" /\ UNCHANGED page
           \/ ~OnPage /\ ~IsLast(readable) /\ page' = page + 1 /\ UNCHANGED result
        /\ degraded' = (degraded \/ ~readable)
  BY DEF FetchPage
<1>2. /\ result = "pending" /\ style = "offset"
      /\ UNCHANGED <<style, limit, total, place, cursor, shifted, stayed>>
  BY DEF FetchPage, serverVars
<1>3. KeysetInv' /\ SingleInv' /\ (stayed => IsPresent)'
  BY <1>2 DEF KeysetInv, SingleInv
<1>4. CASE OnPage /\ result' = "found" /\ UNCHANGED page
  BY <1>1, <1>2, <1>3, <1>4 DEF OffsetInv
<1>5. CASE ~OnPage /\ IsLast(readable) /\ result' = "undefined" /\ UNCHANGED page
  <2>1. ASSUME stayed, ~shifted, ~degraded, readable
        PROVE  place > MaxPages * MAX_PAGE_SIZE
    <3>1. place > page * MAX_PAGE_SIZE
      BY <1>2, <1>5, <2>1 DEF OnPage, Among, OffsetInv
    <3>2. ~(page >= TotalPages(readable))
      BY <2>1, <3>1, PagesHoldAllRows DEF TotalPages
    <3>3. page = MaxPages
      BY <1>5, <3>2 DEF IsLast
    <3> QED BY <3>1, <3>3
  <2>2. OffsetInv'
    BY <1>1, <1>2, <1>5, <2>1 DEF OffsetInv
  <2>3. TypeOK'
    BY <1>1, <1>2, <1>5
  <2> QED BY <1>3, <2>2, <2>3
<1>6. CASE ~OnPage /\ ~IsLast(readable) /\ page' = page + 1 /\ UNCHANGED result
  <2>1. page' \in 1..MaxPages
    BY <1>6 DEF IsLast
  <2>2. stayed /\ ~shifted /\ ~degraded => place > page * MAX_PAGE_SIZE
    BY <1>2, <1>6 DEF OnPage, Among, OffsetInv
  <2>3. OffsetInv'
    BY <1>1, <1>2, <1>6, <2>2 DEF OffsetInv
  <2>4. TypeOK'
    BY <1>1, <1>2, <1>6, <2>1
  <2> QED BY <1>3, <2>3, <2>4
<1> QED BY <1>1, <1>4, <1>5, <1>6

LEMMA KeysetStep ==
  ASSUME ListInv, FetchAfter
  PROVE  ListInv'
<1> USE DEF ListInv, TypeOK, IsPresent, Absent
<1>1. /\ style = "keyset" /\ result = "pending"
      /\ UNCHANGED <<style, limit, total, place, page, shifted, degraded, stayed>>
      /\ cursor' = PageEnd
      /\ result' = IF Among(cursor + 1, PageEnd) THEN "found"
                   ELSE IF PageEnd - cursor < Reckoned THEN "undefined" ELSE "pending"
  BY DEF FetchAfter, serverVars
<1> DEFINE n == Clamped(ListLimit)
<1>2. n \in 1..PageCap /\ Reckoned \in Nat /\ (n < Reckoned => Reckoned > PageCap) /\ n <= Reckoned
  BY Limit, ConstantsAssumption
<1>3. PageEnd = IF cursor + n <= total THEN cursor + n ELSE total
  BY DEF PageEnd
<1> HIDE DEF n
<1>4. PageEnd \in 0..total
  BY <1>2, <1>3, ConstantsAssumption
<1>5. result' \in {"pending", "found", "undefined"}
  BY <1>1
<1>6. TypeOK'
  BY <1>1, <1>4, <1>5
<1>7. ASSUME stayed, ~Among(cursor + 1, PageEnd)
      PROVE  place > PageEnd /\ (PageEnd - cursor < Reckoned => Reckoned > PageCap)
  <2>1. place > cursor /\ place <= total
    BY <1>1, <1>7 DEF KeysetInv
  <2>2. place > PageEnd
    BY <1>4, <1>7, <2>1, ConstantsAssumption DEF Among
  <2>3. PageEnd = cursor + n
    BY <1>2, <1>3, <2>1, <2>2
  <2> QED BY <1>2, <2>2, <2>3, ConstantsAssumption
<1>8. KeysetInv'
  <2>1. CASE Among(cursor + 1, PageEnd)
    BY <1>1, <2>1 DEF KeysetInv
  <2>2. CASE ~Among(cursor + 1, PageEnd)
    <3>1. Reckoned' = Reckoned
      BY <1>1 DEF Reckoned
    <3> QED BY <1>1, <1>7, <2>2, <3>1 DEF KeysetInv
  <2> QED BY <2>1, <2>2
<1> QED BY <1>1, <1>6, <1>8 DEF OffsetInv, SingleInv

LEMMA SingleStep ==
  ASSUME ListInv, HasEntitlement
  PROVE  ListInv'
<1> USE DEF ListInv, TypeOK, IsPresent, Absent
<1>1. /\ style = "single" /\ result = "pending"
      /\ UNCHANGED <<style, limit, total, place, page, cursor, shifted, degraded, stayed>>
      /\ result' = IF Among(1, Clamped(ListLimit)) THEN "found" ELSE "undefined"
  BY DEF HasEntitlement, serverVars
<1>2. Reckoned = ListLimit /\ Clamped(ListLimit) \in 1..PageCap
  BY Limit
<1>3. TypeOK'
  BY <1>1
<1>4. Clamped(Reckoned)' = Clamped(Reckoned)
  BY <1>1 DEF Reckoned, Clamped
<1>5. stayed /\ ~Among(1, Clamped(ListLimit)) => place > Clamped(ListLimit)
  BY <1>2, ConstantsAssumption DEF Among
<1>6. SingleInv'
  BY <1>1, <1>2, <1>4, <1>5 DEF SingleInv
<1> QED BY <1>1, <1>3, <1>6 DEF OffsetInv, KeysetInv

LEMMA InsertStep ==
  ASSUME ListInv, NEW n \in 1..MaxRows, Insert(n)
  PROVE  ListInv'
<1> USE ConstantsAssumption DEF ListInv, TypeOK, IsPresent, Absent
<1>1. /\ result = "pending" /\ UNCHANGED <<style, limit, page, result, shifted, degraded, stayed>>
      /\ total < MaxRows /\ n \in 1..(total + 1) /\ total' = total + 1
      /\ cursor' = IF n <= cursor THEN cursor + 1 ELSE cursor
  BY DEF Insert
<1>2. /\ IsPresent => place' = IF n <= place THEN place + 1 ELSE place
      /\ ~IsPresent => place' \in {Absent, n}
  BY DEF Insert
<1>3. place' \in 0..total' /\ (stayed => place' >= place)
  BY <1>1, <1>2
<1>4. TypeOK'
  BY <1>1, <1>3
<1>5. stayed' => IsPresent'
  BY <1>1, <1>3
<1>6. OffsetInv'
  <2>1. (page - 1) * MAX_PAGE_SIZE \in Int
    OBVIOUS
  <2> QED BY <1>1, <1>3, <2>1 DEF OffsetInv
<1>7. KeysetInv'
  BY <1>1, <1>2 DEF KeysetInv
<1>8. SingleInv'
  BY <1>1 DEF SingleInv
<1> QED BY <1>4, <1>5, <1>6, <1>7, <1>8

LEMMA RemoveStep ==
  ASSUME ListInv, NEW n \in 1..MaxRows, Remove(n)
  PROVE  ListInv'
<1> USE ConstantsAssumption DEF ListInv, TypeOK, IsPresent, Absent
<1>1. /\ result = "pending" /\ UNCHANGED <<style, limit, page, result, degraded>>
      /\ n \in 1..total /\ total' = total - 1
      /\ place' = IF n = place THEN Absent ELSE IF n < place THEN place - 1 ELSE place
      /\ cursor' = IF n <= cursor THEN cursor - 1 ELSE cursor
      /\ shifted' = (shifted \/ n < place) /\ stayed' = (stayed /\ n # place)
  BY DEF Remove
<1>2. TypeOK'
  BY <1>1
<1>3. stayed' => IsPresent'
  <2>1. stayed' => stayed /\ n # place
    BY <1>1
  <2>2. stayed' => place' \in {place, place - 1} /\ (n < place => place > 1)
    BY <1>1, <2>1
  <2>3. stayed' /\ ~(n < place) => place' = place
    BY <1>1, <2>1
  <2> QED BY <1>1, <2>1, <2>2, <2>3
<1>4. OffsetInv'
  <2>1. stayed' /\ ~shifted' => stayed /\ ~shifted /\ place' = place
    <3>1. shifted \in BOOLEAN /\ stayed \in BOOLEAN
      OBVIOUS
    <3>2. stayed' /\ ~shifted' => stayed /\ n # place /\ ~shifted /\ ~(n < place)
      BY <1>1, <3>1, Zenon
    <3> QED BY <1>1, <3>2
  <2> QED BY <1>1, <2>1 DEF OffsetInv
<1>5. KeysetInv'
  <2>1. stayed' => stayed /\ n # place
    BY <1>1
  <2>2. place > cursor /\ n # place => place' > cursor'
    BY <1>1
  <2> QED BY <1>1, <2>1, <2>2 DEF KeysetInv
<1>6. SingleInv'
  BY <1>1 DEF SingleInv
<1> QED BY <1>2, <1>3, <1>4, <1>5, <1>6

LEMMA NextList ==
  ASSUME ListInv, [Next]_vars
  PROVE  ListInv'
<1>1. CASE FetchPage
  BY <1>1, OffsetStep
<1>2. CASE FetchAfter
  BY <1>2, KeysetStep
<1>3. CASE HasEntitlement
  BY <1>3, SingleStep
<1>4. ASSUME NEW n \in 1..MaxRows, Insert(n) \/ Remove(n)
      PROVE  ListInv'
  BY <1>4, InsertStep, RemoveStep
<1>5. CASE UNCHANGED vars
  BY <1>5 DEF vars, ListInv, TypeOK, IsPresent, OffsetInv, KeysetInv, SingleInv, Reckoned, Clamped
<1> QED BY <1>1, <1>2, <1>3, <1>4, <1>5 DEF Next

\* Type correctness of Listings.
THEOREM TypeCorrect == Spec => []TypeOK
<1>1. ListInv => TypeOK
  BY DEF ListInv
<1> QED BY <1>1, InitList, NextList, PTL DEF Spec

\* findMachineByFingerprint misses a machine that was there throughout only
\* for one of the three reasons FindsWhatStays names.
THEOREM WalkFindsWhatStays == Spec => []FindsWhatStays
<1>1. ListInv => FindsWhatStays
  BY DEF ListInv, OffsetInv, FindsWhatStays
<1> QED BY <1>1, InitList, NextList, PTL DEF Spec

\* A keyset walk and hasEntitlement miss nothing that was there throughout,
\* but beyond the server's largest page or the page that was asked for.
THEOREM AbsenceIsAuthoritative == Spec => []NotFoundIsAuthoritative
<1>1. ListInv => NotFoundIsAuthoritative
  BY DEF ListInv, KeysetInv, SingleInv, NotFoundIsAuthoritative
<1> QED BY <1>1, InitList, NextList, PTL DEF Spec
=============================================================================
