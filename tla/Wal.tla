-------------------------------- MODULE Wal --------------------------------
(***************************************************************************)
(* wal.Log: the journal as a file of frames, through short writes, failed  *)
(* fsyncs, compactions that stop half way, deaths of the process and       *)
(* losses of power.                                                        *)
(*                                                                         *)
(* A frame is a whole record, or Torn: anything at which replay stops (a   *)
(* short frame, an implausible length, a wrong checksum, bytes that do not *)
(* decode).  The write position is always the end of the file: Open seeks  *)
(* there, writes move it, and Compact reopens with O_APPEND.  (The replay  *)
(* in Compact moves it too, but never to a place before the first torn     *)
(* frame, and behind that frame nothing is ever read.  Reads do not fail   *)
(* here: a replay in Compact that met a read error would leave the         *)
(* position where it stopped.)                                             *)
(*                                                                         *)
(* A Log has no lock of its own.  Its callers run one operation at a time, *)
(* the engine by holding its mutex; stage is where that operation stands.  *)
(***************************************************************************)
EXTENDS Records, Sequences, FiniteSetsExt, Functions

CloseOp == {"ack", "expire", "dead_letter", "stale"}

CONSTANTS
  Fetched,      \* the lease records Fetch may journal, one per lease
  ClosedBy,     \* the closing operations they use
  MaxFrames,    \* bound on the frames of a file
  MaxFaults,    \* bound on the failing calls of a behaviour
  MaxCrashes    \* bound on its crashes and power losses

ASSUME WalAssumption ==
  /\ Fetched \subseteq LeaseRecord
  /\ \A l \in Lease : \E r \in Fetched : r.id = l
  /\ \A r, s \in Fetched : r.id = s.id => r = s
  /\ ClosedBy \subseteq CloseOp

VARIABLES
  file,      \* the frames of the file at Log.path
  temp,      \* the frames of the file at Log.path + ".compact"
  synced,    \* frames of file that are on stable storage
  replaced,  \* journals whose renaming away is not on stable storage yet
  handle,    \* Log.file: "open", "shut" (not nil, but closed), "nil"; "none"
  stage,     \* where the operation under way stands
  pending,   \* the record that Append has written and not yet fsynced: a set
  poisoned,  \* history: a Write failed half way and the process lives on
  faults, crashes,
  status     \* history: what the callers of Append know of each lease

fileVars == <<file, temp, synced, replaced>>
callVars == <<handle, stage, pending, poisoned>>
budgetVars == <<faults, crashes>>
vars == <<fileVars, callVars, budgetVars, status>>

Torn == [op |-> "torn"]

FetchFrame(r) == [op |-> "fetch", lease |-> r]

Frame == { FetchFrame(r) : r \in Fetched } \cup [op : ClosedBy, id : Lease]

(***************************************************************************)
(* A lease ID is drawn ("new"), its fetch record is appended ("fetching"), *)
(* the append is acknowledged ("open"), a closing record is appended       *)
(* ("closing") and acknowledged ("closed").                                *)
(***************************************************************************)
Status == {"new", "fetching", "open", "closing", "closed"}

(***************************************************************************)
(* "sync" Append has written and is about to fsync; Compact is about to    *)
(* "close" the live handle, to "rename", to "reopen".                      *)
(***************************************************************************)
Stage == {"idle", "sync", "close", "rename", "reopen"}

WalTypeOK ==
  /\ file \in Seq(Frame \cup {Torn})
  /\ temp \in Seq(Frame)
  /\ synced \in 0 .. Len(file)
  /\ \A old \in replaced : /\ old.file \in Seq(Frame \cup {Torn})
                           /\ old.synced \in 0 .. Len(old.file)
  /\ handle \in {"none", "open", "shut", "nil"}
  /\ stage \in Stage
  /\ stage \in {"sync", "close"} => handle = "open"
  /\ pending \subseteq Frame
  /\ poisoned \in BOOLEAN
  /\ status \in [Lease -> Status]

WalInit ==
  /\ file = <<>>
  /\ temp = <<>>
  /\ synced = 0
  /\ replaced = {}
  /\ handle = "none"
  /\ stage = "idle"
  /\ pending = {}
  /\ poisoned = FALSE
  /\ faults = 0
  /\ crashes = 0
  /\ status = [l \in Lease |-> "new"]

Fault ==
  /\ faults < MaxFaults
  /\ faults' = faults + 1
  /\ UNCHANGED crashes

NoFault == UNCHANGED budgetVars

-----------------------------------------------------------------------------
(* Reading *)

(* The frames in front of the first torn one. *)
Replay(f) ==
  IF Torn \in Range(f) THEN SubSeq(f, 1, Min({ i \in DOMAIN f : f[i] = Torn }) - 1)
                       ELSE f

LeaseOf(frame) == IF frame.op = "fetch" THEN frame.lease.id ELSE frame.id

(* Mutant of Fold: an acknowledgement is the only record that closes. *)
FoldAcks(live, frame) ==
  { r \in live : frame.op = "ack" => r.id # frame.id }
    \cup { x.lease : x \in { y \in {frame} : y.op = "fetch" } }

(* One turn of the loop in Live. *)
Fold(live, frame) ==
  { r \in live : r.id # LeaseOf(frame) }
    \cup { x.lease : x \in { y \in {frame} : y.op = "fetch" } }

LiveOf(f) ==
  LET records == Replay(f)
      live[n \in 0 .. Len(records)] ==
        IF n = 0 THEN {} ELSE Fold(live[n - 1], records[n])
  IN  live[Len(records)]

-----------------------------------------------------------------------------
(* Open and Close *)

(* Mutant of Open: synced is not cut back with the file. *)
OpenKeepsSynced ==
  /\ handle \in {"none", "nil"}
  /\ file' = Replay(file)
  /\ handle' = "open"
  /\ poisoned' = FALSE
  /\ UNCHANGED <<temp, synced, replaced, stage, pending, budgetVars, status>>

Open ==
  /\ handle \in {"none", "nil"}
  /\ file' = Replay(file)
  /\ synced' = Min({synced, Len(Replay(file))})
  /\ handle' = "open"
  /\ poisoned' = FALSE
  /\ UNCHANGED <<temp, replaced, stage, pending, budgetVars, status>>

Close ==
  /\ stage = "idle"
  /\ handle \in {"open", "shut"}
  /\ handle' = "nil"
  /\ UNCHANGED <<fileVars, stage, pending, poisoned, budgetVars, status>>

-----------------------------------------------------------------------------
(* Append.  On a handle that is closed it fails and changes nothing.       *)

(* The engine fetches a lease once and closes it afterwards. *)
Due(frame) ==
  /\ Len(file) < MaxFrames
  /\ IF frame.op = "fetch" THEN status[frame.lease.id] = "new"
                           ELSE status[frame.id] \in {"fetching", "open", "closing"}

Note(frame, fetch, close) ==
  status' = [status EXCEPT ![LeaseOf(frame)] =
               IF frame.op = "fetch" THEN fetch ELSE close]

AppendWrite(frame) ==
  /\ stage = "idle" /\ handle = "open"
  /\ Due(frame)
  /\ file' = Append(file, frame)
  /\ stage' = "sync"
  /\ pending' = {frame}
  /\ Note(frame, "fetching", "closing")
  /\ UNCHANGED <<temp, synced, replaced, handle, poisoned, budgetVars>>

(* Write returns an error, with nothing or a part of the frame written. *)
AppendWriteFails(frame) ==
  /\ stage = "idle" /\ handle = "open"
  /\ Due(frame)
  /\ Fault
  /\ \/ UNCHANGED <<file, poisoned>>
     \/ file' = Append(file, Torn) /\ poisoned' = TRUE
  /\ Note(frame, "fetching", "closing")
  /\ UNCHANGED <<temp, synced, replaced, handle, stage, pending>>

(* What a nil from Append promises.  After a Write that failed half way it *)
(* promises nothing: see the run on torn appends.                          *)
Acknowledge ==
  IF poisoned THEN UNCHANGED status
  ELSE \E frame \in pending : Note(frame, "open", "closed")

(* fsync puts the whole file, and an earlier rename, on stable storage. *)
AppendSync ==
  /\ stage = "sync"
  /\ synced' = Len(file)
  /\ replaced' = {}
  /\ Acknowledge
  /\ stage' = "idle"
  /\ pending' = {}
  /\ UNCHANGED <<file, temp, handle, poisoned, budgetVars>>

AppendSyncFails ==
  /\ stage = "sync"
  /\ Fault
  /\ stage' = "idle"
  /\ pending' = {}
  /\ UNCHANGED <<fileVars, handle, poisoned, status>>

-----------------------------------------------------------------------------
(* Compact.  The temporary file is read by nobody until it is renamed and  *)
(* is truncated by the next compaction, so that the loop which fills it is *)
(* one step, and an error or a crash in it leaves the state as it was.     *)

(* Replay, Live, and the temporary file written, fsynced and closed.  The  *)
(* leases are sorted by ID, which is any order here.                       *)
CompactCopy ==
  /\ stage = "idle" /\ handle = "open"
  /\ LET frames == { FetchFrame(r) : r \in LiveOf(file) }
     IN  temp' \in Bijection(1 .. Cardinality(frames), frames)
  /\ stage' = "close"
  /\ UNCHANGED <<file, synced, replaced, handle, pending, poisoned, budgetVars,
                 status>>

(* The live handle goes before the rename; an error closes it as well. *)
CompactClose ==
  /\ stage = "close"
  /\ handle' = "shut"
  /\ \/ NoFault /\ stage' = "rename" /\ UNCHANGED temp
     \/ Fault /\ stage' = "idle" /\ temp' = <<>>
  /\ UNCHANGED <<file, synced, replaced, pending, poisoned, status>>

(* Mutant of CompactRename: the temporary file was not fsynced. *)
CompactRenameUnsynced ==
  /\ stage = "rename"
  /\ replaced' = replaced \cup {[file |-> file, synced |-> synced]}
  /\ file' = temp
  /\ synced' = 0
  /\ temp' = <<>>
  /\ stage' = "reopen"
  /\ poisoned' = FALSE
  /\ UNCHANGED <<handle, pending, budgetVars, status>>

CompactRename ==
  /\ stage = "rename"
  /\ replaced' = replaced \cup {[file |-> file, synced |-> synced]}
  /\ file' = temp
  /\ synced' = Len(temp)
  /\ temp' = <<>>
  /\ stage' = "reopen"
  /\ poisoned' = FALSE
  /\ UNCHANGED <<handle, pending, budgetVars, status>>

CompactReopen ==
  /\ stage = "reopen"
  /\ handle' = "open"
  /\ stage' = "idle"
  /\ UNCHANGED <<fileVars, pending, poisoned, budgetVars, status>>

(* The rename or the reopening fails: the log is left with a closed file. *)
CompactStrands ==
  /\ stage \in {"rename", "reopen"}
  /\ Fault
  /\ stage' = "idle"
  /\ UNCHANGED <<fileVars, handle, pending, poisoned, status>>

-----------------------------------------------------------------------------
(* The end of the process, and of the machine *)

Die ==
  /\ handle # "none"
  /\ crashes < MaxCrashes
  /\ crashes' = crashes + 1
  /\ handle' = "none"
  /\ stage' = "idle"
  /\ pending' = {}
  /\ poisoned' = FALSE
  /\ UNCHANGED <<temp, faults>>

(* What was written stays, the part of a frame that was on its way too. *)
Crash ==
  /\ Die
  /\ UNCHANGED <<file, synced, replaced, status>>

CrashInWrite(frame) ==
  /\ stage = "idle" /\ handle = "open"
  /\ Due(frame)
  /\ Die
  /\ file' = Append(file, Torn)
  /\ Note(frame, "fetching", "closing")
  /\ UNCHANGED <<synced, replaced>>

(* The journals a loss of power may leave at Log.path: frames that were    *)
(* not fsynced are whole, torn or gone, and a rename that no later fsync   *)
(* followed may be undone.                                                 *)
Left(f, n) ==
  { SubSeq(f, 1, k) \o rest : k \in n .. Len(f), rest \in {<<>>, <<Torn>>} }

Survivors ==
  Left(file, synced) \cup UNION { Left(old.file, old.synced) : old \in replaced }

PowerLoss ==
  /\ Die
  /\ file' \in Survivors
  /\ synced' = Len(file')
  /\ replaced' = {}
  /\ UNCHANGED status

-----------------------------------------------------------------------------

Compact ==
  \/ CompactCopy \/ CompactClose \/ CompactRename \/ CompactReopen \/ CompactStrands

WalNext ==
  \/ Open \/ Close
  \/ \E frame \in Frame : AppendWrite(frame) \/ AppendWriteFails(frame)
  \/ AppendSync \/ AppendSyncFails
  \/ Compact
  \/ Crash \/ PowerLoss \/ \E frame \in Frame : CrashInWrite(frame)

WalSpec == WalInit /\ [][WalNext]_vars

-----------------------------------------------------------------------------

(* What Append has acknowledged survives whatever happens next, power loss *)
(* at any step of a compaction included: each journal that can be left at  *)
(* the path replays to an open lease for every acknowledged fetch that     *)
(* nobody tried to close, with the task and deadline it was written with,  *)
(* and to none for an acknowledged close.                                  *)
AcknowledgedSurvives ==
  \A f \in Survivors, r \in Fetched :
    /\ status[r.id] = "open" => r \in LiveOf(f)
    /\ status[r.id] \in {"new", "closed"} => r \notin LiveOf(f)

LeaseJournal == INSTANCE Journal WITH
  HasJournal <- TRUE,
  opened <- { x.lease : x \in { y \in Range(Replay(file)) : y.op = "fetch" } },
  closed <- { y \in Range(Replay(file)) : y.op \in CloseOp },
  tail <- IF Torn \in Range(file) THEN "torn" ELSE "intact"

(* Until power is lost the file does what the engine was checked against:  *)
(* a failed Append leaves nothing, a whole frame or half a frame; records  *)
(* behind half a frame are out of reach; the fold Live is the difference   *)
(* of two sets; and Compact changes nothing but the closed history, at     *)
(* its one step that replaces the file.                                    *)
ImplementsJournal ==
  /\ LeaseJournal!JournalInit
  /\ [][PowerLoss \/ LeaseJournal!JournalNext]_(LeaseJournal!journalVars)

=============================================================================
