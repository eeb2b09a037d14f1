---------------------------- MODULE AliasesProofs ----------------------------
(***************************************************************************)
(* Proofs about module Aliases, for any number of processes, attempts,     *)
(* versions and faults.                                                    *)
(***************************************************************************)
EXTENDS Aliases, TLAPS

\* A temporary file that is about to be renamed is a whole version of the
\* server's file, and so is what aliases_build has read.
Verified ==
  \A p \in Procs :
    /\ at[p] = "rename" => tmp[p] \in 1..pub["subscriber"]
    /\ built[p] \in 0..pub["subscriber"]

Inv == TypeOK /\ FilesComplete /\ Verified

-----------------------------------------------------------------------------
(* Init establishes the invariant. *)
LEMMA Initially == Init => Inv
<1> SUFFICES ASSUME Init PROVE Inv
  OBVIOUS
<1> USE AliasesAssumption DEF Files, Junk, Null
<1>1. PICK v \in {0, 1} : disk = [f \in Files |-> v]
  BY DEF Init
<1>2. TypeOK
  <2>1. /\ pub \in [Files -> 1..MaxPub]
        /\ disk \in [Files -> 0..Junk]
    BY <1>1 DEF Init
  <2>2. /\ tmp \in [Procs -> 0..Junk]
        /\ want \in [Procs -> 0..Junk]
        /\ attempt \in [Procs -> 1..ATTEMPTS]
        /\ built \in [Procs -> 0..Junk]
        /\ table \in [Procs -> (0..Junk) \union {Null}]
        /\ faults \in 0..MaxFaults
    BY DEF Init
  <2>3. /\ at \in [Procs -> Places]
        /\ lock \in Procs \union {None, Dead}
    BY DEF Init, Places
  <2> QED
    BY <2>1, <2>2, <2>3 DEF Init, TypeOK
<1>3. FilesComplete
  BY <1>1 DEF FilesComplete, Init
<1>4. Verified
  <2>1. pub["subscriber"] = 1
    BY DEF Init
  <2>2. ASSUME NEW p \in Procs
        PROVE  /\ at[p] = "rename" => tmp[p] \in 1..pub["subscriber"]
               /\ built[p] \in 0..pub["subscriber"]
    <3>1. at[p] # "rename" /\ built[p] = 0
      BY DEF Init
    <3> QED
      BY <2>1, <3>1
  <2> QED
    BY <2>2 DEF Verified
<1> QED
  BY <1>2, <1>3, <1>4 DEF Inv

(* The end of try_download and the end of the whole call keep the types of   *)
(* the call's locals, and forget what was read.                              *)
LEMMA ReturnType ==
  ASSUME TypeOK, NEW p \in Procs, NEW got \in BOOLEAN, Return(p, got)
  PROVE  /\ at' = [at EXCEPT ![p] = "load"]
         /\ at' \in [Procs -> Places]
         /\ forced' \in [Procs -> BOOLEAN]
         /\ want' \in [Procs -> 0..Junk]
         /\ attempt' \in [Procs -> 1..ATTEMPTS]
         /\ fetched' \in [Procs -> BOOLEAN]
         /\ built' = built
  BY AliasesAssumption DEF Return, TypeOK, Goto, Places, Junk

\* A call that returns, or a process that dies, drops what it held on to.
LEMMA LeaveType ==
  ASSUME Inv, NEW p \in Procs, NEW place \in {"idle", "down"}, Leave(p, place)
  PROVE  /\ at' = [at EXCEPT ![p] = place]
         /\ at' \in [Procs -> Places]
         /\ forced' \in [Procs -> BOOLEAN]
         /\ want' \in [Procs -> 0..Junk]
         /\ attempt' \in [Procs -> 1..ATTEMPTS]
         /\ fetched' \in [Procs -> BOOLEAN]
         /\ built' \in [Procs -> 0..Junk]
         /\ \A q \in Procs : built'[q] = 0 \/ built'[q] = built[q]
  BY AliasesAssumption DEF Leave, Inv, TypeOK, Goto, Places, Junk

-----------------------------------------------------------------------------
(* Steps up to the creation of the lock file, and of the process that waits: *)
(* they neither write a file nor read one.                                   *)
LEMMA LockStep ==
  ASSUME Inv, NEW p \in Procs,
         \/ Start(p) \/ ChecksumFetched(p) \/ ChecksumKept(p) \/ Check(p)
         \/ Acquire(p) \/ Steal(p) \/ Create(p) \/ CreateFails(p)
         \/ PeerDone(p) \/ GiveUp(p) \/ Backoff(p)
  PROVE  Inv'
<1> USE AliasesAssumption DEF Inv, FilesComplete, Verified, Files, Junk, Null,
        Places, None, Dead, Goto, files, locks, locals, mem
<1>1. CASE Start(p)
  BY <1>1 DEF Start, TypeOK
<1>2. CASE ChecksumFetched(p)
  BY <1>2 DEF ChecksumFetched, TypeOK
<1>3. CASE ChecksumKept(p)
  BY <1>3 DEF ChecksumKept, TypeOK
<1>4. CASE Check(p)
  <2>1. CASE Return(p, FALSE)
    BY <1>4, <2>1, ReturnType DEF Check, TypeOK
  <2>2. CASE ~Return(p, FALSE)
    <3>1. /\ want' = [want EXCEPT ![p] = disk["checksum"]]
          /\ Goto(p, "acquire")
          /\ UNCHANGED <<forced, attempt, fetched, built, pub, up, files, mem, faults>>
      BY <1>4, <2>2 DEF Check, Expected
    <3> QED
      BY <1>4, <3>1 DEF TypeOK
  <2> QED
    BY <2>1, <2>2
<1>5. CASE Acquire(p)
  BY <1>5 DEF Acquire, TypeOK
<1>6. CASE Steal(p)
  BY <1>6 DEF Steal, Unlink, TypeOK
<1>7. CASE Create(p)
  BY <1>7 DEF Create, TypeOK
<1>8. CASE CreateFails(p)
  <2>1. Return(p, FALSE) /\ UNCHANGED <<pub, up, files, mem>>
    BY <1>8 DEF CreateFails
  <2>2. faults' \in 0..MaxFaults
    BY <1>8 DEF CreateFails, TypeOK
  <2> QED
    BY <2>1, <2>2, ReturnType DEF TypeOK
<1>9. CASE PeerDone(p)
  <2>1. CASE UsePeers(p)
    <3>1. Matches(p, disk["subscriber"]) \in BOOLEAN
      BY DEF Matches
    <3> QED
      BY <1>9, <2>1, <3>1, ReturnType DEF PeerDone, UsePeers, TypeOK
  <2>2. CASE ~UsePeers(p)
    BY <1>9, <2>2 DEF PeerDone, TypeOK
  <2> QED
    BY <2>1, <2>2
<1>10. CASE GiveUp(p)
  BY <1>10 DEF GiveUp, TypeOK
<1>11. CASE Backoff(p)
  <2>1. CASE UsePeers(p) /\ UNCHANGED locks
    <3>1. Matches(p, disk["subscriber"]) \in BOOLEAN
      BY DEF Matches
    <3> QED
      BY <1>11, <2>1, <3>1, ReturnType DEF Backoff, UsePeers, TypeOK
  <2>2. CASE ~(UsePeers(p) /\ UNCHANGED locks)
    BY <1>11, <2>2 DEF Backoff, Unlink, TypeOK
  <2> QED
    BY <2>1, <2>2
<1> QED
  BY <1>1, <1>2, <1>3, <1>4, <1>5, <1>6, <1>7, <1>8, <1>9, <1>10, <1>11

(* Steps of the process that has created the lock.  Only a verified transfer *)
(* reaches rename: Junk is not a version.                                     *)
LEMMA TransferStep ==
  ASSUME Inv, NEW p \in Procs,
         \/ Attempt(p) \/ CurlGets(p) \/ CurlFails(p) \/ CurlSpoils(p)
         \/ Rename(p) \/ Failed(p)
  PROVE  Inv'
<1> USE AliasesAssumption DEF Inv, FilesComplete, Verified, Files, Junk, Null,
        Places, None, Dead, Goto, files, locks, locals, mem, Tmp
<1>1. CASE Attempt(p)
  <2>1. CASE lock # p
    <3>1. /\ tmp' = [tmp EXCEPT ![p] = 0]
          /\ Return(p, FALSE)
          /\ UNCHANGED <<pub, up, disk, old, lock, lockOld, mem, faults>>
      BY <1>1, <2>1 DEF Attempt
    <3>2. /\ tmp' \in [Procs -> 0..Junk]
          /\ \A q \in Procs \ {p} : tmp'[q] = tmp[q]
      BY <3>1 DEF TypeOK
    <3>3. TypeOK'
      <4> HIDE DEF Junk, Null, Places, Files
      <4> QED
        BY <3>1, <3>2, ReturnType DEF TypeOK
    <3>4. FilesComplete'
      BY <3>1
    <3>5. Verified'
      <4>1. at' = [at EXCEPT ![p] = "load"] /\ built' = built
        BY <3>1, ReturnType
      <4>2. \A q \in Procs : at'[q] = "rename" => q # p /\ at[q] = "rename"
        BY <4>1 DEF TypeOK
      <4> QED
        BY <3>1, <3>2, <4>1, <4>2
    <3> QED
      BY <3>3, <3>4, <3>5
  <2>2. CASE lock = p
    <3>1. /\ tmp' = [tmp EXCEPT ![p] = Junk]
          /\ lockOld' = FALSE
          /\ at' = [at EXCEPT ![p] = "curl"]
          /\ UNCHANGED <<pub, up, disk, old, lock, locals, mem, faults>>
      BY <1>1, <2>2 DEF Attempt
    <3>2. /\ tmp' \in [Procs -> 0..Junk]
          /\ \A q \in Procs \ {p} : tmp'[q] = tmp[q]
      BY <3>1 DEF TypeOK
    <3>3. TypeOK'
      BY <3>1, <3>2 DEF TypeOK
    <3>4. FilesComplete'
      BY <3>1
    <3>5. Verified'
      <4>1. \A q \in Procs : at'[q] = "rename" => q # p /\ at[q] = "rename"
        BY <3>1 DEF TypeOK
      <4> QED
        BY <3>1, <3>2, <4>1
    <3> QED
      BY <3>3, <3>4, <3>5
  <2> QED
    BY <2>1, <2>2
<1>2. CASE CurlGets(p)
  BY <1>2 DEF CurlGets, TypeOK
<1>3. CASE CurlFails(p)
  BY <1>3 DEF CurlFails, TypeOK
<1>4. CASE CurlSpoils(p)
  <2>1. ~Valid(p, Junk)
    BY DEF Valid
  <2>2. /\ at' = [at EXCEPT ![p] = "failed"]
        /\ faults' \in 0..MaxFaults
        /\ UNCHANGED <<pub, up, files, locals, mem>>
    BY <1>4, <2>1 DEF CurlSpoils, TypeOK
  <2> QED
    BY <2>2 DEF TypeOK
<1>5. CASE Rename(p)
  <2>1. tmp[p] \in 1..pub["subscriber"]
    BY <1>5 DEF Rename
  <2>2. tmp[p] # 0
    BY <2>1 DEF TypeOK
  <2>3. /\ disk' = [disk EXCEPT !["subscriber"] = tmp[p]]
        /\ old' = FALSE
        /\ tmp' = [tmp EXCEPT ![p] = 0]
        /\ newer' = [q \in Procs |-> table[q] # Null]
        /\ lock' = None /\ lockOld' = FALSE
        /\ Return(p, TRUE)
        /\ UNCHANGED <<pub, up, table, recent, faults>>
    BY <1>5, <2>2 DEF Rename, Unlink
  <2>4. newer' \in [Procs -> BOOLEAN]
    BY <2>3
  <2>5. disk' \in [Files -> 0..Junk] /\ tmp' \in [Procs -> 0..Junk]
    BY <2>1, <2>3 DEF TypeOK
  <2>6. TypeOK'
    BY <2>3, <2>4, <2>5, ReturnType DEF TypeOK
  <2>7. /\ disk'["subscriber"] = tmp[p]
        /\ disk'["checksum"] = disk["checksum"]
    BY <2>3 DEF TypeOK
  <2>8. FilesComplete'
    BY <2>1, <2>3, <2>7 DEF TypeOK
  <2>9. Verified'
    <3>1. at' = [at EXCEPT ![p] = "load"] /\ built' = built
      BY <2>3, ReturnType
    <3> QED
      BY <2>3, <3>1 DEF TypeOK
  <2> QED
    BY <2>6, <2>8, <2>9
<1>6. CASE Failed(p)
  <2>1. ReleaseIfOwn(p) => lock' \in Procs \union {None, Dead} /\ lockOld' \in BOOLEAN
    BY DEF ReleaseIfOwn, Unlink, TypeOK
  <2>2. /\ tmp' = [tmp EXCEPT ![p] = 0]
        /\ UNCHANGED <<pub, up, disk, old, mem, faults>>
    BY <1>6 DEF Failed
  <2>3. CASE ReleaseIfOwn(p) /\ \E got \in BOOLEAN : Return(p, got)
    <3>1. PICK got \in BOOLEAN : Return(p, got)
      BY <2>3
    <3>2. /\ at' = [at EXCEPT ![p] = "load"]
          /\ built' = built
      BY <3>1, ReturnType
    <3>3. TypeOK'
      BY <2>1, <2>2, <2>3, <3>1, ReturnType DEF TypeOK
    <3> QED
      BY <2>2, <3>2, <3>3 DEF TypeOK
  <2>4. CASE /\ attempt[p] < ATTEMPTS
             /\ attempt' = [attempt EXCEPT ![p] = @ + 1]
             /\ at' = [at EXCEPT ![p] = "attempt"]
             /\ UNCHANGED <<locks, forced, want, fetched, built>>
    BY <2>2, <2>4 DEF TypeOK
  <2>5. CASE attempt[p] >= ATTEMPTS
    BY <1>6, <2>3, <2>5 DEF Failed
  <2>6. CASE ~(attempt[p] >= ATTEMPTS)
    <3>1. attempt[p] < ATTEMPTS
      BY <2>6 DEF TypeOK
    <3> QED
      BY <1>6, <2>3, <2>4, <2>6, <3>1 DEF Failed
  <2> QED
    BY <2>5, <2>6
<1> QED
  BY <1>1, <1>2, <1>3, <1>4, <1>5, <1>6

(* aliases_build, and the refresh that leads to it.                          *)
LEMMA BuildStep ==
  ASSUME Inv, NEW p \in Procs,
         \/ Load(p) \/ Record(p) \/ Refresh(p) \/ ReloadMissing(p) \/ ReloadNewer(p)
         \/ Crash(p)
  PROVE  Inv'
<1> USE AliasesAssumption DEF Inv, FilesComplete, Verified, Files, Junk, Null,
        Places, None, Dead, Goto, files, locks, locals, mem
<1>1. CASE Load(p)
  <2>1. CASE Leave(p, "idle")
    BY <1>1, <2>1, LeaveType DEF Load, TypeOK
  <2>2. CASE ~Leave(p, "idle")
    BY <1>1, <2>2 DEF Load, TypeOK
  <2> QED
    BY <2>1, <2>2
<1>2. CASE Record(p)
  <2>1. /\ Leave(p, "idle")
        /\ UNCHANGED <<pub, up, files, faults>>
    BY <1>2 DEF Record
  <2>2. /\ table' \in [Procs -> (0..Junk) \union {Null}]
        /\ \A q \in Procs : table'[q] \in (0..pub["subscriber"]) \union {Null}
    BY <1>2 DEF Record, TypeOK
  <2>3. newer' \in [Procs -> BOOLEAN] /\ recent' \in [Procs -> BOOLEAN]
    <3>1. Stale \in BOOLEAN /\ recent[p] \in BOOLEAN /\ fetched[p] \in BOOLEAN
      BY DEF Stale, TypeOK
    <3>2. (fetched[p] \/ (IF table[p] = Null THEN ~Stale ELSE recent[p])) \in BOOLEAN
      BY <3>1
    <3> QED
      BY <1>2, <3>2 DEF Record, TypeOK
  <2> QED
    BY <2>1, <2>2, <2>3, LeaveType DEF TypeOK
<1>3. CASE Refresh(p)
  BY <1>3 DEF Refresh, TypeOK
<1>4. CASE ReloadMissing(p)
  BY <1>4 DEF ReloadMissing, TypeOK
<1>5. CASE ReloadNewer(p)
  BY <1>5 DEF ReloadNewer, TypeOK
<1>6. CASE Crash(p)
  <2>1. /\ tmp' = [tmp EXCEPT ![p] = 0]
        /\ table' = [table EXCEPT ![p] = Null]
        /\ recent' = [recent EXCEPT ![p] = FALSE]
        /\ newer' = [newer EXCEPT ![p] = FALSE]
        /\ Leave(p, "down")
        /\ UNCHANGED <<pub, up, disk, old, lockOld>>
    BY <1>6 DEF Crash
  <2>2. /\ lock' \in Procs \union {None, Dead}
        /\ faults' \in 0..MaxFaults
    BY <1>6 DEF Crash, TypeOK
  <2>3. /\ tmp' \in [Procs -> 0..Junk]
        /\ table' \in [Procs -> (0..Junk) \union {Null}]
        /\ recent' \in [Procs -> BOOLEAN]
        /\ newer' \in [Procs -> BOOLEAN]
    BY <2>1 DEF TypeOK
  <2>4. TypeOK'
    <3> HIDE DEF Junk, Null, Places, Files
    <3> QED
      BY <2>1, <2>2, <2>3, LeaveType DEF TypeOK
  <2>5. FilesComplete'
    BY <2>1 DEF TypeOK
  <2>6. Verified'
    <3>1. /\ at' = [at EXCEPT ![p] = "down"]
          /\ \A q \in Procs : built'[q] = 0 \/ built'[q] = built[q]
      BY <2>1, LeaveType
    <3> QED
      BY <2>1, <3>1 DEF TypeOK
  <2> QED
    BY <2>4, <2>5, <2>6
<1> QED
  BY <1>1, <1>2, <1>3, <1>4, <1>5, <1>6

(* Time, the server, and whoever deletes a file.                             *)
LEMMA WorldStep ==
  ASSUME Inv,
         \/ \E f \in Files : Publish(f)
         \/ Expire \/ Delete \/ ExpireLock \/ ServerFails \/ ServerReturns
         \/ UNCHANGED vars
  PROVE  Inv'
<1> USE AliasesAssumption DEF Inv, FilesComplete, Verified, Files, Junk, Null,
        Places, None, Dead, files, locks, locals, mem
<1>1. CASE \E f \in Files : Publish(f)
  <2>1. PICK f \in Files : Publish(f)
    BY <1>1
  <2>2. /\ pub' \in [Files -> 1..MaxPub]
        /\ \A g \in Files : pub[g] \in Nat /\ pub'[g] \in Nat /\ pub[g] <= pub'[g]
    BY <2>1 DEF Publish, TypeOK
  <2>3. UNCHANGED <<up, files, at, locals, mem, faults>>
    BY <2>1 DEF Publish
  <2>4. TypeOK'
    BY <2>2, <2>3 DEF TypeOK
  <2>5. FilesComplete' /\ Verified'
    BY <2>2, <2>3 DEF TypeOK
  <2> QED
    BY <2>4, <2>5
<1>2. CASE Expire
  <2>1. (disk["subscriber"] # 0) \in BOOLEAN
    OBVIOUS
  <2> QED
    BY <1>2, <2>1 DEF Expire, TypeOK
<1>3. CASE Delete
  <2>1. /\ disk' = [disk EXCEPT !["subscriber"] = 0]
        /\ old' = FALSE
        /\ UNCHANGED <<pub, up, lock, lockOld, tmp, at, locals, mem>>
    BY <1>3 DEF Delete
  <2>2. TypeOK'
    <3>1. faults' \in 0..MaxFaults
      BY <1>3 DEF Delete, TypeOK
    <3>2. disk' \in [Files -> 0..Junk]
      BY <2>1 DEF TypeOK
    <3> QED
      BY <2>1, <3>1, <3>2 DEF TypeOK
  <2>3. FilesComplete' /\ Verified'
    BY <2>1 DEF TypeOK
  <2> QED
    BY <2>2, <2>3
<1>4. CASE ExpireLock
  BY <1>4 DEF ExpireLock, TypeOK
<1>5. CASE ServerFails \/ ServerReturns
  <2>1. faults' \in 0..MaxFaults
    BY <1>5 DEF ServerFails, ServerReturns, TypeOK
  <2>2. up' \in BOOLEAN /\ UNCHANGED <<pub, files, at, locals, mem>>
    BY <1>5 DEF ServerFails, ServerReturns
  <2> QED
    BY <2>1, <2>2 DEF TypeOK
<1>6. CASE UNCHANGED vars
  BY <1>6 DEF vars, TypeOK
<1> QED
  BY <1>1, <1>2, <1>3, <1>4, <1>5, <1>6

\* Every step of a process, the server or the disk keeps the invariant.
LEMMA Inductive == Inv /\ [Next]_vars => Inv'
  BY LockStep, TransferStep, BuildStep, WorldStep
     DEF Next, TryDownload, Build, MaybeRefresh

-----------------------------------------------------------------------------
(* Every variable of src/aliases.c's model keeps its type; in particular the *)
(* number of an attempt never exceeds ALIAS_DOWNLOAD_ATTEMPTS.               *)
THEOREM TypeCorrect == Spec => []TypeOK
<1>1. Inv => TypeOK
  BY DEF Inv
<1> QED
  BY Initially, Inductive, <1>1, PTL DEF Spec

(* However many processes share data_dir, whoever steals whose lock and      *)
(* wherever one of them crashes, what is renamed into place and what is      *)
(* built into a table is a whole file of the server's (try_download,         *)
(* aliases_build).                                                           *)
THEOREM FilesAlwaysComplete == Spec => []FilesComplete
<1>1. Inv => FilesComplete
  BY DEF Inv
<1> QED
  BY Initially, Inductive, <1>1, PTL DEF Spec
=============================================================================
