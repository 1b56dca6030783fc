------------------------------ MODULE Journal ------------------------------
(***************************************************************************)
(* The lease journal as the engine sees it: what a replay of the file      *)
(* would return.  Lease IDs are fresh at every Fetch, so a lease has at    *)
(* most one fetch record and every closing record for it comes later: the  *)
(* order of the records carries no information and Live is a function of   *)
(* two sets.                                                               *)
(*                                                                         *)
(* Append writes one frame and fsyncs it.  When it returns an error the    *)
(* frame may be absent, whole (the fsync failed after the write) or torn   *)
(* (the write was short).  Append does not cut a torn frame off, so the    *)
(* frames written after it are out of reach of a replay, which stops at    *)
(* the first bad frame; reopening the file truncates it there.             *)
(***************************************************************************)
EXTENDS Records

CONSTANT HasJournal   \* EngineConfig.Journal # nil

ASSUME JournalAssumption == HasJournal \in BOOLEAN

VARIABLES
  opened,   \* fetch records a replay would return
  closed,   \* closing records a replay would return
  tail      \* "torn" when a torn frame lies in front of the write offset

journalVars == <<opened, closed, tail>>

CloseOp == {"ack", "expire", "dead_letter", "stale"}

CloseRecord == [op : CloseOp, id : Lease]

JournalTypeOK ==
  /\ opened \subseteq LeaseRecord
  /\ closed \subseteq CloseRecord
  /\ tail \in {"intact", "torn"}

JournalInit ==
  /\ opened = {}
  /\ closed = {}
  /\ tail = "intact"

Live == { r \in opened : r.id \notin Ids(closed) }

Replayable == HasJournal /\ tail = "intact"

(* Append of an OpFetch record, and of a closing record, that returns nil. *)
AppendFetch(r) ==
  /\ opened' = IF Replayable THEN opened \cup {r} ELSE opened
  /\ UNCHANGED <<closed, tail>>

AppendClose(op, l) ==
  /\ closed' = IF Replayable THEN closed \cup {[op |-> op, id |-> l]} ELSE closed
  /\ UNCHANGED <<opened, tail>>

(* Append that returns an error and leaves nothing, or half a frame. *)
AppendNothing == HasJournal /\ UNCHANGED journalVars

AppendHalf == HasJournal /\ tail' = "torn" /\ UNCHANGED <<opened, closed>>

(* Opening the file: replay, then truncate at the first bad frame. *)
OpenJournal == tail' = "intact" /\ UNCHANGED <<opened, closed>>

(* Compaction: one fetch record per open lease is left.  No engine calls   *)
(* it; the step is here for Wal, which implements this module.             *)
CompactJournal ==
  /\ opened' = Live
  /\ closed' = {}
  /\ tail' = "intact"

JournalNext ==
  \/ \E r \in opened' : AppendFetch(r)
  \/ \E c \in closed' : AppendClose(c.op, c.id)
  \/ AppendHalf
  \/ OpenJournal
  \/ CompactJournal

=============================================================================
