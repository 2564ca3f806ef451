------------------------------ MODULE WriterLock ------------------------------
(***************************************************************************)
(* The navigation writer lock (navigation/writer_lock.py), the one lock    *)
(* every process that writes navigation data takes: the annotation Worker, *)
(* the navigation plan executor and the dataset reset.  It is an flock on  *)
(* one file plus marker files beside it.  The flock dies with the last     *)
(* process that holds the descriptor - a child that inherited it keeps it  *)
(* - and a marker survives every process: a writer that could not remove   *)
(* its marker leaves the lock quarantined until an operator clears it.     *)
(***************************************************************************)
EXTENDS Integers, Sequences, FiniteSets

CONSTANTS Writers,    \* the processes that take the lock
          MaxMarkers  \* bound on the quarantine markers ever created

ASSUME WritersAssumption == "nobody" \notin Writers

VARIABLES holder,     \* who holds the flock: a writer, a writer's orphan, nobody
          markers,    \* the marker files
          recoveries  \* number of quarantine markers created so far

lockVars == <<holder, markers, recoveries>>

Nobody == [who |-> "nobody", child |-> FALSE]
HeldBy(w) == [who |-> w, child |-> FALSE]
Orphaned(w) == [who |-> w, child |-> TRUE]
ActiveMarker(w) == [kind |-> "active", who |-> w, ref |-> 0]
QuarantineMarker(n) == [kind |-> "quarantine", who |-> "recovery", ref |-> n]

Marker == [kind: {"active"}, who: Writers, ref: {0}]
          \cup [kind: {"quarantine"}, who: {"recovery"}, ref: 1 .. MaxMarkers]

LockInit == holder = Nobody /\ markers = {} /\ recoveries = 0

(* navigation_writer_quarantine_present: any marker keeps writers out.     *)
QuarantinePresent == markers # {}

(* Mutant: the marker of a dead writer is not looked at.                   *)
AcquireOverMarker(w) ==
    /\ holder = Nobody
    /\ holder' = HeldBy(w)
    /\ markers' = markers \cup {ActiveMarker(w)}
    /\ UNCHANGED recoveries

(* navigation_writer_lock, entry: wait for the flock, refuse when a marker *)
(* is present, create the active marker.                                   *)
Acquire(w) ==
    /\ holder = Nobody
    /\ ~QuarantinePresent
    /\ holder' = HeldBy(w)
    /\ markers' = markers \cup {ActiveMarker(w)}
    /\ UNCHANGED recoveries

(* The refused entry: the flock is released again and the caller gets      *)
(* NavigationWriterQuarantined.                                            *)
Refused(w) == holder = Nobody /\ QuarantinePresent /\ UNCHANGED lockVars

(* navigation_writer_lock, exit.  safe is the handle's safe_to_clear: it   *)
(* is FALSE once quarantine_active_writer() was called for a process group *)
(* whose death could not be verified (subprocess_runner).                  *)
Release(w, safe) ==
    /\ holder = HeldBy(w)
    /\ holder' = Nobody
    /\ markers' = IF safe THEN markers \ {ActiveMarker(w)} ELSE markers
    /\ UNCHANGED recoveries

(* The process dies inside the lock.  A child that inherited the           *)
(* descriptor keeps the flock; the active marker stays in either case.     *)
WriterDies(w, childAlive) ==
    /\ holder = HeldBy(w)
    /\ holder' = IF childAlive THEN Orphaned(w) ELSE Nobody
    /\ UNCHANGED <<markers, recoveries>>

(* The orphaned child ends and its descriptor is closed with it.           *)
OrphanExits ==
    /\ holder.child
    /\ holder' = Nobody
    /\ UNCHANGED <<markers, recoveries>>

(* ensure_navigation_writer_quarantine with n new recovery references.     *)
EnsureQuarantine(n) ==
    /\ recoveries + n <= MaxMarkers
    /\ recoveries' = recoveries + n
    /\ markers' = markers
                  \cup {QuarantineMarker(k) : k \in recoveries + 1 .. recoveries + n}
    /\ UNCHANGED holder

(* navigation_writer_quarantine_clearance: the flock is taken without      *)
(* waiting, the markers must be exactly the ones the operator recorded,    *)
(* and exactly those are unlinked.                                         *)
Clearable(expected) == holder = Nobody /\ markers = expected
ClearMarkers(expected) ==
    /\ Clearable(expected)
    /\ markers' = markers \ expected
    /\ UNCHANGED <<holder, recoveries>>
=============================================================================
