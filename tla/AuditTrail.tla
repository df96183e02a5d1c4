----------------------------- MODULE AuditTrail -----------------------------
(***************************************************************************)
(* What the rest of the gateway relies on of the audit log                 *)
(* (src/src/audit.rs): a growing set of records, part of which no power    *)
(* loss can remove.  Gateway writes its records with Audit; AuditLog is    *)
(* the file behind it and implements TrailSpec.                            *)
(***************************************************************************)
EXTENDS FiniteSets

VARIABLES
    log,            \* the records in the file
    synced          \* those a power loss cannot remove

trailVars == <<log, synced>>

AllAuditResults == {"ok", "lost", "unsynced"}

TrailInit ==
    /\ log = {}
    /\ synced = {}

(* One call of persist_record: the record is in the file and synced; or    *)
(* nothing of it was written; or it was written and a sync failed.  A sync *)
(* covers what earlier calls left unsynced.                                *)
Audit(record, result) ==
    \/ /\ result = "ok"
       /\ log' = log \cup {record}
       /\ synced' = log'
    \/ /\ result = "unsynced"
       /\ log' = log \cup {record}
       /\ UNCHANGED synced
    \/ /\ result = "lost"
       /\ UNCHANGED trailVars

(* Any of the unsynced records may happen to be on the disk.               *)
TrailPowerLoss ==
    /\ log' \in {synced \cup lucky : lucky \in SUBSET (log \ synced)}
    /\ synced' = log'

TrailNext(records) ==
    \/ \E record \in records, result \in AllAuditResults : Audit(record, result)
    \/ TrailPowerLoss

TrailSpec(records) == TrailInit /\ [][TrailNext(records)]_trailVars
=============================================================================
