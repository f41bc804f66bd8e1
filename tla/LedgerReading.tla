--------------------------- MODULE LedgerReading ---------------------------
(***************************************************************************)
(* How the MRP service reads SCM's inventory ledger, for its ledger view   *)
(* and for the CSV export: page by page, newest entry first, each page a   *)
(* request of its own, while SCM goes on writing entries.  SCM answers a   *)
(* page with two statements, a COUNT and a SELECT with LIMIT and OFFSET.   *)
(*                                                                         *)
(* An entry is the instant it was stamped with; no two have the same.      *)
(***************************************************************************)
EXTENDS Integers, FiniteSets

CONSTANTS
    Writers,        \* SCM requests that record entries
    Limit,          \* entries of a page (100 in the code)
    MaxEntries,     \* bound: entries stamped
    MaxReadings,    \* bound: readings begun
    NoStamp         \* a writer that has not stamped an entry

VARIABLES
    ledger,      \* the instants of the entries committed
    clock,       \* entries stamped so far
    stamp,       \* the entry each writer has stamped and not yet written
    reader,      \* where the reading stands: "idle", "count", "find", "next", "done"
    page, total, \* the page asked for, the rows SCM counted for it
    found,       \* the entries of that page
    rows,        \* the rows read so far, repeated ones included
    listed,      \* the entries they show
    before,      \* the ledger when the reading began (history)
    counted,     \* the ledger when SCM last counted it (history)
    readings     \* readings begun

writing == <<ledger, clock, stamp>>
reading == <<reader, page, total, found, rows, listed, before, counted, readings>>
vars == <<writing, reading>>

Init ==
    /\ ledger = {} /\ clock = 0 /\ stamp = [w \in Writers |-> NoStamp]
    /\ reader = "idle" /\ page = 1 /\ total = 0 /\ found = {} /\ rows = 0 /\ listed = {}
    /\ before = {} /\ counted = {} /\ readings = 0

-----------------------------------------------------------------------------
(* An entry is stamped and then inserted: of two requests the later one may *)
(* come first.                                                              *)

RecordEntry(w) ==
    /\ stamp[w] = NoStamp
    /\ clock < MaxEntries
    /\ clock' = clock + 1
    /\ stamp' = [stamp EXCEPT ![w] = clock + 1]
    /\ UNCHANGED <<ledger, reading>>

CreateEntry(w) ==
    /\ stamp[w] # NoStamp
    /\ ledger' = ledger \cup {stamp[w]}
    /\ stamp' = [stamp EXCEPT ![w] = NoStamp]
    /\ UNCHANGED <<clock, reading>>

-----------------------------------------------------------------------------
(* The reading. *)

GetInventoryLedger ==
    /\ reader = "idle"
    /\ readings < MaxReadings
    /\ readings' = readings + 1
    /\ reader' = "count"
    /\ page' = 1 /\ rows' = 0 /\ listed' = {} /\ before' = ledger
    /\ UNCHANGED <<total, found, counted, writing>>

(* SCM serves the page: its handler, its repository. *)
ListEntries ==
    /\ reader = "count"
    /\ reader' = "find"
    /\ total' = Cardinality(ledger) /\ counted' = ledger
    /\ UNCHANGED <<page, found, rows, listed, before, readings, writing>>

\* The newest entry comes first.
Place(e) == Cardinality({x \in ledger : x >= e})
Paginate == {e \in ledger : (page - 1) * Limit < Place(e) /\ Place(e) <= page * Limit}
FindEntries ==
    /\ reader = "find"
    /\ reader' = "next"
    /\ found' = Paginate
    /\ UNCHANGED <<page, total, rows, listed, before, counted, readings, writing>>

(* More pages are expected as long as the page is below their number,       *)
(* rounded up.                                                              *)
RoundedDown == page < total \div Limit
HasMore == page < (total + Limit - 1) \div Limit
NextPage ==
    /\ reader = "next"
    /\ rows' = rows + Cardinality(found) /\ listed' = listed \cup found
    /\ IF HasMore /\ found # {}
       THEN reader' = "count" /\ page' = page + 1
       ELSE reader' = "done" /\ UNCHANGED page
    /\ UNCHANGED <<total, found, before, counted, readings, writing>>

(* The view takes a page of what was read, the export all of it. *)
AnswerReading ==
    /\ reader = "done"
    /\ reader' = "idle"
    /\ UNCHANGED <<page, total, found, rows, listed, before, counted, readings, writing>>

(* A page that SCM does not deliver fails the reading. *)
ReadingFails ==
    /\ reader \in {"count", "find"}
    /\ reader' = "idle"
    /\ UNCHANGED <<page, total, found, rows, listed, before, counted, readings, writing>>

Next ==
    \/ \E w \in Writers : RecordEntry(w) \/ CreateEntry(w)
    \/ GetInventoryLedger \/ ListEntries \/ FindEntries \/ NextPage \/ AnswerReading \/ ReadingFails

Spec == Init /\ [][Next]_vars

-----------------------------------------------------------------------------
(* Entries are instants, a page has at most Limit of them. *)
Entries == 1..MaxEntries
TypeOK ==
    /\ ledger \subseteq 1..clock /\ clock \in 0..MaxEntries
    /\ stamp \in [Writers -> Entries \cup {NoStamp}]
    /\ reader \in {"idle", "count", "find", "next", "done"}
    /\ page \in 1..(MaxEntries + 1) /\ total \in 0..MaxEntries
    /\ found \cup listed \subseteq ledger /\ Cardinality(found) <= Limit
    /\ rows \in 0..(page * Limit)
    /\ before \subseteq ledger /\ counted \subseteq ledger
    /\ readings \in 0..MaxReadings

(* A reading that completes invents nothing, misses no more entries than     *)
(* were written since SCM counted the last page, and repeats no more than    *)
(* were written since it began (inventory_service.go:163-185, pagination.go: *)
(* 46-74): OFFSET counts from the newest entry, so a new entry pushes an old *)
(* one to the next page, and off the last page when it comes between the     *)
(* COUNT and the SELECT.                                                     *)
EntriesListed ==
    reader = "done" =>
      /\ listed \subseteq ledger
      /\ Cardinality(before \ listed) <= Cardinality(ledger \ counted)
      /\ rows - Cardinality(listed) <= Cardinality(ledger \ before)
=============================================================================
