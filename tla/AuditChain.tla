----------------------------- MODULE AuditChain -----------------------------
(***************************************************************************)
(* ComprehensiveAuditService of src/services/comprehensive_audit_service.  *)
(* py: every entry is signed together with the checksum of the one before, *)
(* and a compliance report verifies the chain of what its query returned.  *)
(* log() is synchronous and has no lock; callers may be threads.  A        *)
(* checksum stands for its entry; what else it covers is left out.         *)
(***************************************************************************)
EXTENDS Naturals, Sequences, FiniteSets

CONSTANTS Threads,     \* callers of log()
          MaxEntries,  \* bound on the entries begun
          LastTime     \* bound on the clock

ASSUME AuditAssumption == MaxEntries \in Nat /\ LastTime \in Nat

VARIABLES
    now,         \* the clock
    last,        \* _last_checksum
    log,         \* _entries
    entry,       \* entry[t]: what thread t is logging, or NoEntry
    begun,       \* entries begun so far
    overlapped   \* history: two calls of log() were under way at once

auditVars == <<now, last, log, entry, begun, overlapped>>

NoEntry == [id |-> 0]
NoChecksum == 0
Entries == [id : 1..MaxEntries, time : 0..LastTime, previous : 0..MaxEntries,
            signed : 0..MaxEntries, step : {"new", "signed", "linked"}]

AuditTypeOK == /\ now \in 0..LastTime
               /\ last \in 0..MaxEntries
               /\ log \in Seq(Entries)
               /\ entry \in [Threads -> Entries \cup {NoEntry}]
               /\ begun \in 0..MaxEntries
               /\ overlapped \in BOOLEAN

AuditInit == /\ now = 0
             /\ last = NoChecksum
             /\ log = <<>>
             /\ entry = [t \in Threads |-> NoEntry]
             /\ begun = 0
             /\ overlapped = FALSE

Tick == /\ now < LastTime
        /\ now' = now + 1
        /\ UNCHANGED <<last, log, entry, begun, overlapped>>

\* log(): the entry, its time stamp and the checksum it follows.
Create(t) ==
    /\ entry[t] = NoEntry
    /\ begun < MaxEntries
    /\ begun' = begun + 1
    /\ entry' = [entry EXCEPT ![t] = [id |-> begun', time |-> now, previous |-> last,
                                      signed |-> NoChecksum, step |-> "new"]]
    /\ overlapped' = (overlapped \/ \E u \in Threads : entry[u] # NoEntry)
    /\ UNCHANGED <<now, last, log>>

\* compute_checksum(entry, self._last_checksum) reads the checksum once more.
Sign(t) ==
    /\ entry[t] # NoEntry /\ entry[t].step = "new"
    /\ entry' = [entry EXCEPT ![t].signed = last, ![t].step = "signed"]
    /\ UNCHANGED <<now, last, log, begun, overlapped>>

FaultyNextLink(e) == e.previous   \* the chain does not move on
NextLink(e) == e.id

Link(t) ==
    /\ entry[t] # NoEntry /\ entry[t].step = "signed"
    /\ last' = NextLink(entry[t])
    /\ entry' = [entry EXCEPT ![t].step = "linked"]
    /\ UNCHANGED <<now, log, begun, overlapped>>

StoreEntry(t) ==
    /\ entry[t] # NoEntry /\ entry[t].step = "linked"
    /\ log' = Append(log, entry[t])
    /\ entry' = [entry EXCEPT ![t] = NoEntry]
    /\ UNCHANGED <<now, last, begun, overlapped>>

\* The process is restarted: the log, in memory, goes with the chain.
Restart == /\ last' = NoChecksum
           /\ log' = <<>>
           /\ entry' = [t \in Threads |-> NoEntry]
           /\ overlapped' = FALSE
           /\ UNCHANGED <<now, begun>>

AuditNext == Tick \/ Restart \/ \E t \in Threads : Create(t) \/ Sign(t) \/ Link(t) \/ StoreEntry(t)

AuditSpec == AuditInit /\ [][AuditNext]_auditVars

-----------------------------------------------------------------------------
(* verify_chain() and what generate_compliance_report() gives it *)

Intact(e, i, chain) == /\ e.signed = e.previous
                       /\ i = 1 \/ e.previous = chain[i - 1].id
Verified(chain) == \A i \in 1..Len(chain) : Intact(chain[i], i, chain)

\* query() of a period in the order it has by default, which the report keeps:
\* the latest first, and those of one instant as they were logged.
InPeriod(from, to) == {i \in 1..Len(log) : log[i].time \in from..to}
Ahead(i, j) == \/ log[i].time > log[j].time
               \/ log[i].time = log[j].time /\ i < j
Place(I, i) == Cardinality({j \in I : Ahead(j, i)}) + 1
AtPlace(I, k) == CHOOSE i \in I : Place(I, i) = k
ReportPage == 10000
Reported(from, to) ==
    LET I == InPeriod(from, to)
        size == IF Cardinality(I) < ReportPage THEN Cardinality(I) ELSE ReportPage
    IN  [k \in 1..size |-> log[AtPlace(I, k)]]

-----------------------------------------------------------------------------
(* Properties. *)

\* As long as no two calls of log() overlapped, the log is a chain; and yet a
\* report calls it intact only if all its entries are of one instant, because
\* the chain it is given runs backwards.
ReportsReadBackwards ==
    ~overlapped =>
        /\ Verified(log)
        /\ \A from \in 0..LastTime : \A to \in from..LastTime :
               LET report == Reported(from, to)
               IN  Verified(report) <=>
                       \A i, j \in 1..Len(report) : report[i].time = report[j].time
=============================================================================
