------------------------------- MODULE Aliases -------------------------------
(***************************************************************************)
(* The subscriber database of src/aliases.c, kept by several processes that *)
(* share one data_dir: the checksum file, the subscriber file, downloaded   *)
(* under a lock file, and the table each process builds from them.          *)
(*                                                                         *)
(* A file, a download and a table are known by the version of the server's  *)
(* data they hold: 0 is no file or a table without subscribers, Junk what   *)
(* is not, or not all of, a JSON file.  The checksum file holds the digest  *)
(* of the subscriber file of its version; it is downloaded in the same way, *)
(* under a lock of its own, which is here one step with its outcome.        *)
(*                                                                         *)
(* A process stops wherever it looks at, or changes, what the others share; *)
(* it may crash there too.  Ages are flags that time sets: a file, the last *)
(* fetch of a process, a lock nobody touches any more.  Both timers are     *)
(* configured (stale_minutes, reload_minutes > 0), and both URLs.           *)
(***************************************************************************)
EXTENDS Naturals

CONSTANTS
  Procs,        \* the processes, each with a pid of its own
  ATTEMPTS,     \* ALIAS_DOWNLOAD_ATTEMPTS
  HasLocal,     \* there is a local_subscriber_file with records
  MaxPub,       \* bound: versions the server publishes
  MaxFaults     \* bound: crashes, spoilt transfers, deleted files, outages

ASSUME AliasesAssumption ==
  /\ ATTEMPTS \in Nat \ {0}
  /\ HasLocal \in BOOLEAN
  /\ MaxPub \in Nat \ {0}
  /\ MaxFaults \in Nat

VARIABLES
  pub,       \* external: what the server has, per file
  up,        \* external: the server can be reached
  disk,      \* the files in data_dir
  old,       \* the subscriber file is stale_minutes old
  lock,      \* the owner of the subscriber file's lock file, if there is one
  lockOld,   \* nobody has touched it for ALIAS_DOWNLOAD_LOCK_STALE_SEC
  tmp,       \* path.<pid>.tmp
  at,        \* where each process is
  forced,    \* force_subscriber
  want,      \* the digest read from the checksum file, 0 for none
  attempt,   \* number of the attempt
  fetched,   \* aliases_download has returned 1
  built,     \* what aliases_build has read
  table,     \* the table in memory, Null before the first
  recent,    \* last_fetch_time is less than stale_minutes ago
  newer,     \* the subscriber file is newer than its recorded mtime
  faults

locks  == <<lock, lockOld>>
files  == <<disk, old, locks, tmp>>
locals == <<forced, want, attempt, fetched, built>>
mem    == <<table, recent, newer>>
vars   == <<pub, up, files, at, locals, mem, faults>>

Files == {"checksum", "subscriber"}

Junk == MaxPub + 1

Null == MaxPub + 2

\* The lock file is not there, or its pid is that of a process that is gone.
None == "none"
Dead == "dead"

Places == {"down", "idle", "download", "check", "acquire", "steal", "create", "wait", "backoff",
           "attempt", "curl", "rename", "failed",
           "load", "record"}

TypeOK ==
  /\ pub \in [Files -> 1..MaxPub]
  /\ up \in BOOLEAN
  /\ disk \in [Files -> 0..Junk]
  /\ old \in BOOLEAN
  /\ lock \in Procs \union {None, Dead}
  /\ lockOld \in BOOLEAN
  /\ tmp \in [Procs -> 0..Junk]
  /\ at \in [Procs -> Places]
  /\ forced \in [Procs -> BOOLEAN]
  /\ want \in [Procs -> 0..Junk]
  /\ attempt \in [Procs -> 1..ATTEMPTS]
  /\ fetched \in [Procs -> BOOLEAN]
  /\ built \in [Procs -> 0..Junk]
  /\ table \in [Procs -> (0..Junk) \union {Null}]
  /\ recent \in [Procs -> BOOLEAN]
  /\ newer \in [Procs -> BOOLEAN]
  /\ faults \in 0..MaxFaults

Init ==
  /\ pub = [f \in Files |-> 1]
  /\ up = TRUE
  /\ \E v \in {0, 1} : disk = [f \in Files |-> v]
  /\ old = FALSE
  /\ lock = None
  /\ lockOld = FALSE
  /\ tmp = [p \in Procs |-> 0]
  /\ at = [p \in Procs |-> "down"]
  /\ forced = [p \in Procs |-> FALSE]
  /\ want = [p \in Procs |-> 0]
  /\ attempt = [p \in Procs |-> 1]
  /\ fetched = [p \in Procs |-> FALSE]
  /\ built = [p \in Procs |-> 0]
  /\ table = [p \in Procs |-> Null]
  /\ recent = [p \in Procs |-> FALSE]
  /\ newer = [p \in Procs |-> FALSE]
  /\ faults = 0

-----------------------------------------------------------------------------
Goto(p, place) == at' = [at EXCEPT ![p] = place]

\* file_stale of the subscriber file: age, or none there
Stale == disk["subscriber"] = 0 \/ old

\* load_subscriber_checksum: the digest in the checksum file, 0 for none
Expected == disk["checksum"]

\* blake2b_matches with the digest try_download was given, if any
Matches(p, content) == want[p] = 0 \/ content = want[p]

\* The call is over, and its local variables are gone.
Leave(p, place) ==
  /\ Goto(p, place)
  /\ forced' = [forced EXCEPT ![p] = FALSE]
  /\ want' = [want EXCEPT ![p] = 0]
  /\ attempt' = [attempt EXCEPT ![p] = 1]
  /\ fetched' = [fetched EXCEPT ![p] = FALSE]
  /\ built' = [built EXCEPT ![p] = 0]

\* ysf2dmr_aliases_load, when the program starts: aliases_download(0)
Start(p) ==
  /\ at[p] = "down"
  /\ Goto(p, "download")
  /\ UNCHANGED <<pub, up, files, locals, mem, faults>>

\* try_download of the checksum file in aliases_download: if it is stale, or the
\* download is forced, it is replaced; it is kept when it is fresh, or when the
\* server does not answer.  Its age is not followed.
ChecksumFetched(p) ==
  /\ at[p] = "download"
  /\ up
  /\ disk' = [disk EXCEPT !["checksum"] = pub["checksum"]]
  /\ Goto(p, "check")
  /\ UNCHANGED <<pub, up, old, locks, tmp, locals, mem, faults>>

ChecksumKept(p) ==
  /\ at[p] = "download"
  /\ ~up \/ (disk["checksum"] # 0 /\ ~forced[p])
  /\ Goto(p, "check")
  /\ UNCHANGED <<pub, up, files, locals, mem, faults>>

-----------------------------------------------------------------------------
(* try_download of the subscriber file *)

\* It returns 1 (got) or anything else, and aliases_build is next.
Return(p, got) ==
  /\ fetched' = [fetched EXCEPT ![p] = got]
  /\ want' = [want EXCEPT ![p] = 0]
  /\ attempt' = [attempt EXCEPT ![p] = 1]
  /\ Goto(p, "load")
  /\ UNCHANGED <<forced, built>>

\* load_subscriber_checksum; then a fresh file that has the digest is not
\* downloaded.
Check(p) ==
  /\ at[p] = "check"
  /\ IF forced[p] \/ Stale \/ (Expected # 0 /\ disk["subscriber"] # Expected)
     THEN /\ want' = [want EXCEPT ![p] = Expected]
          /\ Goto(p, "acquire")
          /\ UNCHANGED <<forced, attempt, fetched, built>>
     ELSE Return(p, FALSE)
  /\ UNCHANGED <<pub, up, files, mem, faults>>

\* peer_download_active
Active == lock # None /\ ~lockOld

\* Fault: a stale lock counts.
AcquireNoSteal(p) ==
  /\ at[p] = "acquire"
  /\ Goto(p, IF lock # None THEN "wait" ELSE "create")
  /\ UNCHANGED <<pub, up, files, locals, mem, faults>>

\* try_acquire_download_lock looks, unlinks a stale lock, and creates its own:
\* three steps, between which the others go on.
Acquire(p) ==
  /\ at[p] = "acquire"
  /\ Goto(p, IF Active THEN "wait"
             ELSE IF lock # None THEN "steal" ELSE "create")
  /\ UNCHANGED <<pub, up, files, locals, mem, faults>>

\* release_download_lock: whoever's it is
Unlink ==
  /\ lock' = None
  /\ lockOld' = FALSE

Steal(p) ==
  /\ at[p] = "steal"
  /\ Unlink
  /\ Goto(p, "create")
  /\ UNCHANGED <<pub, up, disk, old, tmp, locals,
                 mem, faults>>

\* O_CREAT | O_EXCL
Create(p) ==
  /\ at[p] = "create"
  /\ IF lock = None
     THEN /\ lock' = p
          /\ Goto(p, "attempt")
     ELSE Goto(p, "wait") /\ UNCHANGED lock
  /\ UNCHANGED <<pub, up, disk, old, lockOld, tmp, locals, mem, faults>>

CreateFails(p) ==
  /\ at[p] = "create"
  /\ faults < MaxFaults
  /\ faults' = faults + 1
  /\ Return(p, FALSE)
  /\ UNCHANGED <<pub, up, files, mem>>

\* What try_download returns when another process has done the work
UsePeers(p) == Return(p, Matches(p, disk["subscriber"]))

\* wait_for_peer_download sees the lock go, or grow stale
PeerDone(p) ==
  /\ at[p] = "wait"
  /\ ~Active
  /\ IF disk["subscriber"] # 0 THEN UsePeers(p)
     ELSE Goto(p, "backoff") /\ UNCHANGED locals
  /\ UNCHANGED <<pub, up, files, mem, faults>>

\* ... or sees no progress for ALIAS_DOWNLOAD_IDLE_SEC: the owner is gone, or has
\* spent that time in curl.
GiveUp(p) ==
  /\ at[p] = "wait"
  /\ Active
  /\ lock \in Procs => at[lock] # "attempt" \/ attempt[lock] > 1
  /\ Goto(p, "backoff")
  /\ UNCHANGED <<pub, up, files, locals, mem, faults>>

\* After sleep_download_retry_backoff: a file that is there will do, otherwise
\* the lock is removed, whoever's it is.
Backoff(p) ==
  /\ at[p] = "backoff"
  /\ IF disk["subscriber"] # 0
     THEN UsePeers(p) /\ UNCHANGED locks
     ELSE /\ Unlink
          /\ Goto(p, "acquire")
          /\ UNCHANGED locals
  /\ UNCHANGED <<pub, up, disk, old, tmp, mem, faults>>

\* Fault: one name for all.
TmpShared(p) == CHOOSE q \in Procs : TRUE

\* The name of a process's temporary file
Tmp(p) == p

\* still_own_download_lock, touch_download_lock, and curl starts to write.
Attempt(p) ==
  /\ at[p] = "attempt"
  /\ IF lock # p
     THEN /\ tmp' = [tmp EXCEPT ![Tmp(p)] = 0]
          /\ Return(p, FALSE)
          /\ UNCHANGED lockOld
     ELSE /\ tmp' = [tmp EXCEPT ![Tmp(p)] = Junk]
          /\ lockOld' = FALSE
          /\ Goto(p, "curl")
          /\ UNCHANGED locals
  /\ UNCHANGED <<pub, up, disk, old, lock, mem, faults>>

\* json_download_valid and blake2b_matches on the temporary file
Valid(p, content) == content \in 1..MaxPub /\ Matches(p, content)

\* curl ends: with the file, with an error, or with something else.
CurlGets(p) ==
  /\ at[p] = "curl"
  /\ up
  /\ tmp' = [tmp EXCEPT ![Tmp(p)] = pub["subscriber"]]
  /\ Goto(p, IF Valid(p, pub["subscriber"]) THEN "rename" ELSE "failed")
  /\ UNCHANGED <<pub, up, disk, old, locks, locals, mem, faults>>

CurlFails(p) ==
  /\ at[p] = "curl"
  /\ ~up
  /\ Goto(p, "failed")
  /\ UNCHANGED <<pub, up, files, locals, mem, faults>>

CurlSpoils(p) ==
  /\ at[p] = "curl"
  /\ up
  /\ faults < MaxFaults
  /\ faults' = faults + 1
  /\ Goto(p, IF Valid(p, Junk) THEN "rename" ELSE "failed")
  /\ UNCHANGED <<pub, up, files, locals, mem>>

\* The lock that is then unlinked may be another's by now.
Rename(p) ==
  /\ at[p] = "rename"
  /\ IF tmp[Tmp(p)] = 0
     THEN Goto(p, "failed") /\ UNCHANGED <<disk, old, locks, tmp, locals, newer>>
     ELSE /\ disk' = [disk EXCEPT !["subscriber"] = tmp[Tmp(p)]]
          /\ old' = FALSE
          /\ tmp' = [tmp EXCEPT ![Tmp(p)] = 0]
          /\ newer' = [q \in Procs |-> table[q] # Null]
          /\ Unlink
          /\ Return(p, TRUE)
  /\ UNCHANGED <<pub, up, table, recent, faults>>

ReleaseIfOwn(p) ==
  IF lock = p THEN Unlink ELSE UNCHANGED locks

\* Faults: the attempt is not counted; there is one too many.
FailedUncounted(p) ==
  /\ at[p] = "failed"
  /\ tmp' = [tmp EXCEPT ![Tmp(p)] = 0]
  /\ IF disk["subscriber"] # 0 /\ Matches(p, disk["subscriber"])
     THEN ReleaseIfOwn(p) /\ Return(p, TRUE)
     ELSE Goto(p, "attempt") /\ UNCHANGED <<locks, locals>>
  /\ UNCHANGED <<pub, up, disk, old, mem, faults>>

FailedOneMore(p) ==
  /\ at[p] = "failed"
  /\ tmp' = [tmp EXCEPT ![Tmp(p)] = 0]
  /\ IF attempt[p] > ATTEMPTS
     THEN ReleaseIfOwn(p) /\ Return(p, FALSE)
     ELSE IF disk["subscriber"] # 0 /\ Matches(p, disk["subscriber"])
     THEN ReleaseIfOwn(p) /\ Return(p, TRUE)
     ELSE /\ attempt' = [attempt EXCEPT ![p] = @ + 1]
          /\ Goto(p, "attempt")
          /\ UNCHANGED <<locks, forced, want, fetched, built>>
  /\ UNCHANGED <<pub, up, disk, old, mem, faults>>

\* The end of a failed attempt.  After a backoff a file with the wanted digest
\* will do, however old; otherwise there are attempts left, or not.
Failed(p) ==
  /\ at[p] = "failed"
  /\ tmp' = [tmp EXCEPT ![Tmp(p)] = 0]
  /\ IF attempt[p] >= ATTEMPTS
     THEN ReleaseIfOwn(p) /\ Return(p, FALSE)
     ELSE IF disk["subscriber"] # 0 /\ Matches(p, disk["subscriber"])
     THEN ReleaseIfOwn(p) /\ Return(p, TRUE)
     ELSE /\ attempt' = [attempt EXCEPT ![p] = @ + 1]
          /\ Goto(p, "attempt")
          /\ UNCHANGED <<locks, forced, want, fetched, built>>
  /\ UNCHANGED <<pub, up, disk, old, mem, faults>>

-----------------------------------------------------------------------------
\* load_file fails: the subscriber file is there, and is no JSON or has not the
\* digest of the checksum file.
Rejected(content) ==
  /\ content # 0
  /\ content = Junk \/ (Expected # 0 /\ content # Expected)

\* aliases_build up to aliases_record_mtimes
Load(p) ==
  /\ at[p] = "load"
  /\ IF Rejected(disk["subscriber"])
     THEN Leave(p, "idle")
     ELSE /\ built' = [built EXCEPT ![p] = disk["subscriber"]]
          /\ Goto(p, "record")
          /\ UNCHANGED <<forced, want, attempt, fetched>>
  /\ UNCHANGED <<pub, up, files, mem, faults>>

\* a->count > 0
HasRecords(t) == t # 0 \/ HasLocal

\* aliases_record_mtimes looks at the file that is there now.  The new table
\* takes the place of the old one, unless that would leave it without records.
Record(p) ==
  /\ at[p] = "record"
  /\ Leave(p, "idle")
  /\ IF table[p] # Null /\ HasRecords(table[p]) /\ ~HasRecords(built[p])
     THEN UNCHANGED mem
     ELSE /\ table' = [table EXCEPT ![p] = built[p]]
          /\ newer' = [newer EXCEPT ![p] = FALSE]
          /\ recent' = [recent EXCEPT ![p] =
               fetched[p] \/ (IF table[p] = Null THEN ~Stale ELSE @)]
  /\ UNCHANGED <<pub, up, files, faults>>

\* aliases_needs_download
NeedsDownload(p) ==
  /\ ~recent[p]
  /\ \/ Stale
     \/ Expected # 0 /\ disk["subscriber"] # Expected

\* A process is at a place where it may be for a minute: in try_download of the
\* checksum file, in curl, or waiting for another.
MayLast(p) ==
  at[p] \in {"down", "idle", "download", "curl"} \/ (at[p] = "wait" /\ Active)

Quiet == \A p \in Procs : MayLast(p)

\* The main loop calls ysf2dmr_aliases_maybe_refresh once a minute, by which time
\* the others have got on; without a table it does nothing.
Polls(p) == at[p] = "idle" /\ table[p] # Null /\ Quiet

\* ysf2dmr_aliases_maybe_refresh with its download
Refresh(p) ==
  /\ Polls(p)
  /\ NeedsDownload(p)
  /\ Goto(p, "download")
  /\ UNCHANGED <<pub, up, files, locals, mem, faults>>

\* ... after reload_minutes: a file that is missing is downloaded, one that is
\* newer than the table is loaded.
ReloadMissing(p) ==
  /\ Polls(p)
  /\ ~NeedsDownload(p)
  /\ disk["subscriber"] = 0
  /\ forced' = [forced EXCEPT ![p] = TRUE]
  /\ Goto(p, "download")
  /\ UNCHANGED <<pub, up, files, want, attempt, fetched, built, mem, faults>>

ReloadNewer(p) ==
  /\ Polls(p)
  /\ ~NeedsDownload(p)
  /\ disk["subscriber"] # 0
  /\ newer[p]
  /\ Goto(p, "load")
  /\ UNCHANGED <<pub, up, files, locals, mem, faults>>

-----------------------------------------------------------------------------
(* Time and the world *)

\* stale_minutes pass, a day; a transfer takes minutes.
Expire ==
  /\ \A p \in Procs : at[p] \in {"down", "idle"}
  /\ old' = (disk["subscriber"] # 0)
  /\ recent' = [p \in Procs |-> FALSE]
  /\ UNCHANGED <<pub, up, disk, locks, tmp, at, locals, table, newer, faults>>

\* A living owner touches its lock before each attempt, and curl gives up after
\* 120 s: only a lock left behind grows stale.
ExpireLock ==
  /\ lock = Dead
  /\ ~lockOld
  /\ lockOld' = TRUE
  /\ UNCHANGED <<pub, up, disk, old, lock, tmp, at, locals, mem, faults>>

\* The server's two files change, the digest after the file it is of; here and
\* below while no process is about to take a step that does not ask the server.
Publish(f) ==
  /\ Quiet
  /\ pub[f] < MaxPub
  /\ IF f = "checksum" THEN pub[f] < pub["subscriber"] ELSE pub[f] = pub["checksum"]
  /\ pub' = [pub EXCEPT ![f] = @ + 1]
  /\ UNCHANGED <<up, files, at, locals, mem, faults>>

ServerFails ==
  /\ Quiet
  /\ up
  /\ faults < MaxFaults
  /\ faults' = faults + 1
  /\ up' = FALSE
  /\ UNCHANGED <<pub, files, at, locals, mem>>

ServerReturns ==
  /\ Quiet
  /\ ~up
  /\ up' = TRUE
  /\ UNCHANGED <<pub, files, at, locals, mem, faults>>

\* Somebody deletes the subscriber file, while no process is at it.
Delete ==
  /\ \A p \in Procs : at[p] \in {"down", "idle"}
  /\ disk["subscriber"] # 0
  /\ faults < MaxFaults
  /\ faults' = faults + 1
  /\ disk' = [disk EXCEPT !["subscriber"] = 0]
  /\ old' = FALSE
  /\ UNCHANGED <<pub, up, lock, lockOld, tmp, at, locals, mem>>

\* A process is gone; its lock stays, and its temporary file, which no other
\* process has a name for.
Crash(p) ==
  /\ at[p] # "down"
  /\ faults < MaxFaults
  /\ faults' = faults + 1
  /\ lock' = IF lock = p THEN Dead ELSE lock
  /\ tmp' = [tmp EXCEPT ![p] = 0]
  /\ table' = [table EXCEPT ![p] = Null]
  /\ recent' = [recent EXCEPT ![p] = FALSE]
  /\ newer' = [newer EXCEPT ![p] = FALSE]
  /\ Leave(p, "down")
  /\ UNCHANGED <<pub, up, disk, old, lockOld>>

-----------------------------------------------------------------------------
TryDownload(p) ==
  \/ ChecksumFetched(p)
  \/ ChecksumKept(p)
  \/ Check(p)
  \/ Acquire(p)
  \/ Steal(p)
  \/ Create(p)
  \/ PeerDone(p)
  \/ GiveUp(p)
  \/ Backoff(p)
  \/ Attempt(p)
  \/ CurlGets(p)
  \/ CurlFails(p)
  \/ Rename(p)
  \/ Failed(p)

Build(p) == Load(p) \/ Record(p)

MaybeRefresh(p) == Refresh(p) \/ ReloadMissing(p) \/ ReloadNewer(p)

Next ==
  \/ \E p \in Procs :
       \/ Start(p)
       \/ TryDownload(p)
       \/ Build(p)
       \/ MaybeRefresh(p)
       \/ CreateFails(p)
       \/ CurlSpoils(p)
       \/ Crash(p)
  \/ \E f \in Files : Publish(f)
  \/ Expire
  \/ Delete
  \/ ExpireLock
  \/ ServerFails
  \/ ServerReturns

Spec == Init /\ [][Next]_vars

\* A process that runs goes on, and time passes.
LiveSpec ==
  /\ Spec
  /\ \A p \in Procs :
       /\ WF_vars(TryDownload(p))
       /\ WF_vars(Build(p))
       /\ SF_vars(MaybeRefresh(p))
  /\ SF_vars(\E p \in Procs : ChecksumFetched(p))
  /\ WF_vars(ExpireLock)
  /\ SF_vars(Expire)

-----------------------------------------------------------------------------
(* What is on disk, and in a table, is a file of the server's, whole: two   *)
(* processes may download at once, take each other's locks and crash, but a *)
(* transfer is renamed only after it was verified (try_download).           *)
FilesComplete ==
  /\ \A f \in Files : disk[f] \in 0..pub[f]
  /\ \A p \in Procs : table[p] \in (0..pub["subscriber"]) \union {Null}

(* A load or refresh comes to its end, and the main loop goes on, whatever   *)
(* lock a crashed process has left and whether or not the server answers.   *)
RefreshEnds ==
  \A p \in Procs : at[p] \notin {"down", "idle"} ~> at[p] \in {"down", "idle"}

(* Once the server has settled on a version and answers, every process that *)
(* has a table ends up with that version, though a checksum and a subscriber *)
(* file of different versions, or a file renamed between the reading and the *)
(* recording of its mtime, may keep it from it for a while.                  *)
Converges ==
  \A p \in Procs :
    <>[](up /\ (\A f \in Files : pub[f] = MaxPub)
           => table[p] \in {MaxPub, Null})
=============================================================================
