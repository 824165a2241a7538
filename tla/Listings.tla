------------------------------- MODULE Listings -------------------------------
(***************************************************************************)
(* How src/client.ts reads lists while rows come and go, in the three      *)
(* styles of the API: the offset pages findMachineByFingerprint walks, the *)
(* keyset pages of processes, components and artifacts, walked by a caller *)
(* who takes a short page for the last, and the one page of entitlements   *)
(* behind hasEntitlement.  Only the rows a request matches are counted;    *)
(* of those only the wanted one is told apart, by its place in the order.  *)
(***************************************************************************)
EXTENDS Integers

CONSTANTS
  MAX_PAGE_SIZE, \* what the client asks for of its own accord
  PageCap,       \* the server's largest page
  DefaultPage,   \* its page when the request names no limit
  MaxPages,      \* opts.maxPages, or its default
  Limits,        \* opts.limit of a keyset page or of hasEntitlement
  NoLimit,
  MaxRows        \* bound: most rows a request matches

ASSUME ConstantsAssumption ==
  /\ PageCap \in Nat \ {0}
  /\ MAX_PAGE_SIZE \in 1..PageCap
  /\ DefaultPage \in 1..PageCap
  /\ MaxPages \in Nat \ {0}
  /\ Limits \subseteq (Nat \ {0}) \cup {NoLimit}
  /\ NoLimit \notin Nat
  /\ MaxRows \in Nat

VARIABLES
  style,     \* of the list that is read
  limit,     \* what the caller asked for; an offset walk has no say in it
  total,     \* rows the request matches
  place,     \* 1-based place of the wanted row among them
  page,      \* the offset page to fetch next
  cursor,    \* rows up to and including the one the keyset cursor names
  result,    \* what the reader was told
  shifted,   \* ghost: a row before the wanted one was removed meanwhile
  degraded,  \* ghost: an answer's `meta.page` could not be read
  stayed     \* ghost: the wanted row has been there all the time

serverVars == <<total, place>>
vars == <<style, limit, total, place, page, cursor, result, shifted, degraded, stayed>>

Absent == 0
IsPresent == place # Absent
Among(first, last) == first <= place /\ place <= last

Init ==
  /\ style \in {"offset", "keyset", "single"}
  /\ limit \in IF style = "offset" THEN {NoLimit} ELSE Limits
  /\ total \in 0..MaxRows
  /\ place \in 0..total
  /\ page = 1
  /\ cursor = 0
  /\ result = "pending"
  /\ shifted = FALSE
  /\ degraded = FALSE
  /\ stayed = IsPresent

-----------------------------------------------------------------------------
(* The offset walk.                                                        *)

\* meta.page.totalPages, the ceiling of total / size; readOffsetPageMeta
\* falls back to 1 when it cannot read it.
TotalPages(readable) ==
  IF readable THEN (total + MAX_PAGE_SIZE - 1) \div MAX_PAGE_SIZE ELSE 1

\* Mutant: the remainder of the last page is forgotten.
IsLastRoundedDown(readable) ==
  page >= (IF readable THEN total \div MAX_PAGE_SIZE ELSE 1) \/ page >= MaxPages

\* Mutant: the walk follows the server's page count without a bound.
IsLastUnbounded(readable) == page >= TotalPages(readable)

\* The page just read ends the walk.
IsLast(readable) == page >= TotalPages(readable) \/ page >= MaxPages

OnPage == Among((page - 1) * MAX_PAGE_SIZE + 1, page * MAX_PAGE_SIZE)

\* findMachineByFingerprint, one turn of its loop: the request, the exact
\* comparison of every row's fingerprint, the early returns.
FetchPage ==
  /\ style = "offset"
  /\ result = "pending"
  /\ \E readable \in BOOLEAN :
       /\ \/ OnPage /\ result' = "found" /\ UNCHANGED page
          \/ ~OnPage /\ IsLast(readable) /\ result' = "undefined" /\ UNCHANGED page
          \/ ~OnPage /\ ~IsLast(readable) /\ page' = page + 1 /\ UNCHANGED result
       /\ degraded' = (degraded \/ ~readable)
  /\ UNCHANGED <<style, limit, serverVars, cursor, shifted, stayed>>

-----------------------------------------------------------------------------
(* The keyset walk and the single page.                                    *)

\* ListOptions.limit: the page size the caller reckons with.
Reckoned == IF limit = NoLimit THEN MAX_PAGE_SIZE ELSE limit

\* Mutant: no limit is sent unless the caller names one.
ListLimitOmitted == IF limit = NoLimit THEN DefaultPage ELSE limit

\* The limit that is sent, `opts.limit ?? MAX_PAGE_SIZE`.
ListLimit == IF limit = NoLimit THEN MAX_PAGE_SIZE ELSE limit

\* The server clamps it.
Clamped(n) == IF n <= PageCap THEN n ELSE PageCap

\* The last row of the page after the cursor.
PageEnd ==
  IF cursor + Clamped(ListLimit) <= total THEN cursor + Clamped(ListLimit) ELSE total

\* listMachineProcesses, listComponents or listReleaseArtifacts, called with
\* the last id of the page before: a page shorter than what was asked for is
\* the last.
FetchAfter ==
  /\ style = "keyset"
  /\ result = "pending"
  /\ cursor' = PageEnd
  /\ result' = IF Among(cursor + 1, PageEnd) THEN "found"
               ELSE IF PageEnd - cursor < Reckoned THEN "undefined" ELSE "pending"
  /\ UNCHANGED <<style, limit, serverVars, page, shifted, degraded, stayed>>

\* hasEntitlement: listEntitlements has no second page.
HasEntitlement ==
  /\ style = "single"
  /\ result = "pending"
  /\ result' = IF Among(1, Clamped(ListLimit)) THEN "found" ELSE "undefined"
  /\ UNCHANGED <<style, limit, serverVars, page, cursor, shifted, degraded, stayed>>

-----------------------------------------------------------------------------
(* Meanwhile.                                                              *)

\* A row the request matches is created; where it comes depends on the
\* order of the list.  It may be the wanted one, while there is none.
Insert(n) ==
  /\ result = "pending"
  /\ total < MaxRows
  /\ n \in 1..(total + 1)
  /\ total' = total + 1
  /\ \/ IsPresent /\ place' = IF n <= place THEN place + 1 ELSE place
     \/ ~IsPresent /\ place' \in {Absent, n}
  /\ cursor' = IF n <= cursor THEN cursor + 1 ELSE cursor
  /\ UNCHANGED <<style, limit, page, result, shifted, degraded, stayed>>

\* A row before, after or at the wanted one's place is removed.
Remove(n) ==
  /\ result = "pending"
  /\ n \in 1..total
  /\ total' = total - 1
  /\ place' = IF n = place THEN Absent
              ELSE IF n < place THEN place - 1 ELSE place
  /\ cursor' = IF n <= cursor THEN cursor - 1 ELSE cursor
  /\ shifted' = (shifted \/ n < place)
  /\ stayed' = (stayed /\ n # place)
  /\ UNCHANGED <<style, limit, page, result, degraded>>

Next ==
  \/ FetchPage \/ FetchAfter \/ HasEntitlement
  \/ \E n \in 1..MaxRows : Insert(n) \/ Remove(n)

Spec == Init /\ [][Next]_vars

-----------------------------------------------------------------------------
TypeOK ==
  /\ style \in {"offset", "keyset", "single"}
  /\ limit \in Limits \cup {NoLimit}
  /\ total \in 0..MaxRows
  /\ place \in 0..total
  /\ page \in 1..MaxPages
  /\ cursor \in 0..total
  /\ result \in {"pending", "found", "undefined"}
  /\ shifted \in BOOLEAN
  /\ degraded \in BOOLEAN
  /\ stayed \in BOOLEAN

\* A machine that is on the license during the whole offset walk is found,
\* however many others are created meanwhile, unless it lies beyond the pages
\* the walk is allowed, an answer had no readable meta, or the removal of a
\* row before it shifted it onto a page already read
\* (findMachineByFingerprint).
FindsWhatStays ==
  style = "offset" /\ result = "undefined" /\ stayed =>
    shifted \/ degraded \/ place > MaxPages * MAX_PAGE_SIZE

\* A keyset walk misses nothing that stays, whatever is removed around it,
\* unless the caller asked for more than the server's largest page and took
\* a full page for a short one (ListOptions.limit); and a `false` of
\* hasEntitlement holds below the page it reads.
NotFoundIsAuthoritative ==
  result = "undefined" /\ stayed =>
    /\ style = "keyset" => Reckoned > PageCap
    /\ style = "single" => place > Clamped(Reckoned)
=============================================================================
