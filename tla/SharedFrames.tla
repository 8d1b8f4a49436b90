---------------------------- MODULE SharedFrames ----------------------------
(***************************************************************************)
(* Frames that one veejay shares with others through System V shared       *)
(* memory (veejay/vj-shm.c; the reader is livido-plugins/lvd_shmin.c, told *)
(* by veejay/vj-share.c).  A master looks for the first unused file of its *)
(* home directory, creates it, makes a segment whose key ftok derives from *)
(* the file, and puts a process-shared rwlock and a frame there.  A reader *)
(* asks a master for its key, attaches, and copies a frame under the lock  *)
(* whenever it renders.  Any process may be killed at any time; files,     *)
(* segments and what was locked then stay.                                 *)
(***************************************************************************)
EXTENDS Naturals, FiniteSets

CONSTANTS
  Masters, Readers,       \* processes
  DeadMaster, DeadReader, \* holders of a lock that are gone
  Nothing, NoSegment,
  MaxFiles,               \* 0xff
  MaxSegments             \* bound: segments that exist at a time

Numbers == 0 .. MaxFiles - 1
Ids == 1 .. MaxSegments

ASSUME ProcessAssumption ==
  /\ Masters \cap Readers = {}
  /\ {DeadMaster, DeadReader} \cap (Masters \cup Readers) = {} /\ DeadMaster # DeadReader
ASSUME SizeAssumption == MaxFiles \in Nat /\ MaxSegments \in Nat
ASSUME NamesAssumption ==
  NoSegment \notin Ids /\ Nothing \notin Masters \X (Numbers \cup {MaxFiles})

VARIABLES
  file,   \* numbers of the files veejay_shm_out-<number>.shm_id that exist
  keyed,  \* keyed[n]: the segment that the key of file n leads to
  leaked, \* segments without a key that nobody removed: their masters were killed
  holds,  \* holds[i]: who has locked the rwlock of segment i
  mpc,    \* mpc[m]: where a master is
  num,    \* num[m]: v->file and v->key; MaxFiles: no file, and a private segment
  mseg,   \* mseg[m]: v->sms and v->shm_id
  rpc,    \* rpc[r]: where a reader is
  told,   \* told[r]: <<the master that a reader asked, the key it gave>>
  rseg,   \* rseg[r]: the segment that the reader attached
  astray  \* a master created a file that another had just created, or a reader
          \* attached a segment that is not of the master it had asked

vars == <<file, keyed, leaked, holds, mpc, num, mseg, rpc, told, rseg, astray>>
master == <<mpc, num, mseg>>
reader == <<rpc, told, rseg>>

On == {"on", "wait", "writing"}

TypeOK ==
  /\ file \subseteq Numbers /\ keyed \in [Numbers -> Ids \cup {NoSegment}] /\ leaked \subseteq Ids
  /\ holds \in [Ids -> SUBSET (Masters \cup Readers \cup {DeadMaster, DeadReader})]
  /\ mpc \in [Masters -> {"off", "look", "found", "filed", "got", "stopped"} \cup On]
  /\ num \in [Masters -> Numbers \cup {MaxFiles}] /\ mseg \in [Masters -> Ids \cup {NoSegment}]
  /\ \A m \in Masters : mseg[m] \in Ids <=> mpc[m] \in On \cup {"got"}
  /\ \A m \in Masters : mpc[m] = "found" => num[m] \in Numbers
  /\ rpc \in [Readers -> {"off", "asked", "in", "lock", "reading"}]
  /\ told \in [Readers -> (Masters \X (Numbers \cup {MaxFiles})) \cup {Nothing}]
  /\ \A r \in Readers : told[r] # Nothing <=> rpc[r] = "asked"
  /\ rseg \in [Readers -> Ids \cup {NoSegment}]
  /\ \A r \in Readers : rseg[r] \in Ids <=> rpc[r] \in {"in", "lock", "reading"}
  /\ astray \in BOOLEAN

Init ==
  /\ file = {} /\ keyed = [n \in Numbers |-> NoSegment] /\ leaked = {} /\ holds = [i \in Ids |-> {}]
  /\ mpc = [m \in Masters |-> "off"] /\ num = [m \in Masters |-> MaxFiles]
  /\ mseg = [m \in Masters |-> NoSegment]
  /\ rpc = [r \in Readers |-> "off"] /\ told = [r \in Readers |-> Nothing]
  /\ rseg = [r \in Readers |-> NoSegment]
  /\ astray = FALSE

-----------------------------------------------------------------------------
(* vj_shm_new_master, at start or by VIMS.  It looks for a file that does  *)
(* not exist, then creates it: another master may do so in between.  When  *)
(* all files exist, or the file cannot be created, vj_shm_file_ref returns *)
(* 0, which is not tested for, and the key is 0: IPC_PRIVATE.              *)
GoTo(m, pc) == mpc' = [mpc EXCEPT ![m] = pc]

Start(m) ==
  /\ mpc[m] = "off" /\ GoTo(m, "look")
  /\ num' = [num EXCEPT ![m] = 0]
  /\ UNCHANGED <<file, keyed, leaked, holds, mseg, reader, astray>>

Exhausted(m) == num[m] = MaxFiles
Look(m) ==
  /\ mpc[m] = "look"
  /\ \/ Exhausted(m) /\ GoTo(m, "filed") /\ UNCHANGED num
     \/ num[m] \in file /\ num' = [num EXCEPT ![m] = @ + 1] /\ UNCHANGED mpc
     \/ ~Exhausted(m) /\ num[m] \notin file /\ GoTo(m, "found") /\ UNCHANGED num
  /\ UNCHANGED <<file, keyed, leaked, holds, mseg, reader, astray>>

CreateFile(m) ==
  /\ mpc[m] = "found" /\ GoTo(m, "filed")
  /\ \/ file' = file \cup {num[m]} /\ astray' = (num[m] \in file) /\ UNCHANGED num
     \/ num' = [num EXCEPT ![m] = MaxFiles] /\ UNCHANGED <<file, astray>>
  /\ UNCHANGED <<keyed, leaked, holds, mseg, reader>>

(* shmget finds the segment of the key, or makes one.  It may fail: then   *)
(* the file is removed (failed_init_cleanup).                              *)
Unused == {i \in Ids \ leaked : /\ \A n \in Numbers : keyed[n] # i
                                /\ \A m \in Masters : mseg[m] # i
                                /\ \A r \in Readers : rseg[r] # i}
SegmentsFor(n) ==
  IF n \in Numbers /\ keyed[n] # NoSegment THEN {keyed[n]}
  ELSE {i \in Unused : \A j \in Unused : i <= j}
GetSegment(m) ==
  /\ mpc[m] = "filed" /\ GoTo(m, "got")
  /\ \E i \in SegmentsFor(num[m]) :
       /\ mseg' = [mseg EXCEPT ![m] = i]
       /\ keyed' = [n \in Numbers |-> IF n = num[m] THEN i ELSE keyed[n]]
  /\ UNCHANGED <<file, leaked, holds, num, reader, astray>>

GetFails(m) ==
  /\ mpc[m] = "filed" /\ GoTo(m, "off") /\ file' = file \ {num[m]}
  /\ num' = [num EXCEPT ![m] = MaxFiles]
  /\ UNCHANGED <<keyed, leaked, holds, mseg, reader, astray>>

(* The segment is cleared and its lock initialized, whoever uses it.       *)
InitLock(m) ==
  /\ mpc[m] = "got" /\ GoTo(m, "on") /\ holds' = [holds EXCEPT ![mseg[m]] = {}]
  /\ UNCHANGED <<file, keyed, leaked, num, mseg, reader, astray>>

-----------------------------------------------------------------------------
(* vj_shm_write, by the screen thread of a master.  Whether it is called   *)
(* for a frame (vj_shm_set_status) is up to VIMS clients.                  *)
Write(m) ==
  /\ mpc[m] = "on" /\ GoTo(m, "wait")
  /\ UNCHANGED <<file, keyed, leaked, holds, num, mseg, reader, astray>>
WriteLock(m) ==
  /\ mpc[m] = "wait" /\ holds[mseg[m]] = {} /\ GoTo(m, "writing")
  /\ holds' = [holds EXCEPT ![mseg[m]] = {m}]
  /\ UNCHANGED <<file, keyed, leaked, num, mseg, reader, astray>>

(* Wrong: a return that leaves the lock locked.                            *)
StayLocked(i, p) == UNCHANGED holds
Unlock(i, p) == holds' = [holds EXCEPT ![i] = @ \ {p}]
WriteUnlock(m) ==
  /\ mpc[m] = "writing" /\ GoTo(m, "on") /\ Unlock(mseg[m], m)
  /\ UNCHANGED <<file, keyed, leaked, num, mseg, reader, astray>>

(* p detaches segment i, without unlocking what it has locked.  A segment  *)
(* that was removed is gone when nobody has attached it any more.          *)
Dead(p) == IF p \in Masters THEN DeadMaster ELSE DeadReader
Left(i, p) ==
  holds' = [h \in Ids |->
    IF h \in Unused' THEN {}
    ELSE IF h = i /\ p \in holds[h] THEN (holds[h] \ {p}) \cup {Dead(p)} ELSE holds[h]]

(* The end of veejay: the screen thread was cancelled, wherever it was,    *)
(* the segment is detached and removed (vj_shm_stop, vj_shm_free), then    *)
(* its file.                                                               *)
RemoveSegment(m) ==
  /\ mseg' = [mseg EXCEPT ![m] = NoSegment]
  /\ keyed' = [n \in Numbers |-> IF keyed[n] = mseg[m] THEN NoSegment ELSE keyed[n]]
  /\ UNCHANGED <<file, leaked, num, reader, astray>>
  /\ Left(mseg[m], m)
RemoveFile(m) ==
  /\ file' = file \ {num[m]} /\ num' = [num EXCEPT ![m] = MaxFiles]
  /\ UNCHANGED <<keyed, leaked, holds, mseg, reader, astray>>

(* Wrong: the file is removed first.                                       *)
FileFirst == <<"file", "segment">>
Removals == <<"segment", "file">>
Remove(m, k) ==
  \/ Removals[k] = "segment" /\ RemoveSegment(m)
  \/ Removals[k] = "file" /\ RemoveFile(m)
Free(m) ==
  \/ mpc[m] \in On /\ GoTo(m, "stopped") /\ Remove(m, 1)
  \/ mpc[m] = "stopped" /\ GoTo(m, "off") /\ Remove(m, 2)

(* Nobody removes the segment of a master that is killed.  Later ones find *)
(* it by its key, and a private one is lost: System V keeps it.            *)
KillMaster(m) ==
  /\ mpc[m] # "off" /\ GoTo(m, "off")
  /\ mseg' = [mseg EXCEPT ![m] = NoSegment] /\ num' = [num EXCEPT ![m] = MaxFiles]
  /\ leaked' = leaked \cup {i \in Ids : mseg[m] = i /\ num[m] = MaxFiles}
  /\ UNCHANGED <<file, keyed, reader, astray>>
  /\ Left(mseg[m], m)

-----------------------------------------------------------------------------
(* vj_share_pull_master: the reader asks for the key, and that frames be   *)
(* written.                                                                *)
RGoTo(r, pc) == rpc' = [rpc EXCEPT ![r] = pc]

Ask(r, m) ==
  /\ rpc[r] = "off" /\ mpc[m] \in On /\ RGoTo(r, "asked")
  /\ told' = [told EXCEPT ![r] = <<m, num[m]>>]
  /\ UNCHANGED <<file, keyed, leaked, holds, mpc, num, mseg, rseg, astray>>

(* init_instance of the reader: shmget of the key, shmat.                  *)
Attach(r) ==
  /\ rpc[r] = "asked" /\ told' = [told EXCEPT ![r] = Nothing]
  /\ LET m == told[r][1]
         n == told[r][2]
         i == IF n \in Numbers THEN keyed[n] ELSE NoSegment
     IN \/ /\ i # NoSegment /\ RGoTo(r, "in") /\ rseg' = [rseg EXCEPT ![r] = i]
           /\ astray' = (mpc[m] \notin On \/ mseg[m] # i)
        \/ i = NoSegment /\ RGoTo(r, "off") /\ UNCHANGED <<rseg, astray>>
  /\ UNCHANGED <<file, keyed, leaked, holds, master>>

(* process_instance.  Readers pass a writer that waits.                    *)
Read(r) ==
  /\ rpc[r] = "in" /\ RGoTo(r, "lock")
  /\ UNCHANGED <<file, keyed, leaked, holds, master, told, rseg, astray>>
(* Wrong: the lock is not PTHREAD_PROCESS_SHARED.                          *)
NoWriters(i) == {}
Writers(i) == holds[i] \cap (Masters \cup {DeadMaster})
ReadLock(r) ==
  /\ rpc[r] = "lock" /\ Writers(rseg[r]) = {}
  /\ RGoTo(r, "reading") /\ holds' = [holds EXCEPT ![rseg[r]] = @ \cup {r}]
  /\ UNCHANGED <<file, keyed, leaked, master, told, rseg, astray>>
ReadUnlock(r) ==
  /\ rpc[r] = "reading" /\ RGoTo(r, "in") /\ Unlock(rseg[r], r)
  /\ UNCHANGED <<file, keyed, leaked, master, told, rseg, astray>>
Detach(r) ==
  /\ rpc[r] = "in" /\ RGoTo(r, "off")
  /\ rseg' = [rseg EXCEPT ![r] = NoSegment]
  /\ UNCHANGED <<file, keyed, leaked, master, told, astray>>
  /\ Left(rseg[r], r)

KillReader(r) ==
  /\ rpc[r] # "off" /\ RGoTo(r, "off")
  /\ rseg' = [rseg EXCEPT ![r] = NoSegment] /\ told' = [told EXCEPT ![r] = Nothing]
  /\ UNCHANGED <<file, keyed, leaked, master, astray>>
  /\ Left(rseg[r], r)

-----------------------------------------------------------------------------
(* Once two masters use one file, or a reader has attached a segment that  *)
(* another master may be about to clear, the lock itself is overwritten in *)
(* use: the model ends there.                                              *)
MasterStep(m) ==
  \/ Start(m) \/ Look(m) \/ CreateFile(m) \/ GetSegment(m) \/ GetFails(m) \/ InitLock(m)
  \/ Write(m) \/ WriteLock(m) \/ WriteUnlock(m)
  \/ Free(m) \/ KillMaster(m)
ReaderStep(r) ==
  \/ Attach(r) \/ Read(r) \/ ReadLock(r) \/ ReadUnlock(r) \/ Detach(r) \/ KillReader(r)
  \/ \E m \in Masters : Ask(r, m)
Next == ~astray /\ ((\E m \in Masters : MasterStep(m)) \/ \E r \in Readers : ReaderStep(r))

Spec == Init /\ [][Next]_vars

(* Who has the lock goes on, and a lock that is free again and again is    *)
(* obtained.                                                               *)
FairSpec ==
  /\ Spec
  /\ \A m \in Masters : SF_vars(~astray /\ WriteLock(m)) /\ WF_vars(~astray /\ WriteUnlock(m))
  /\ \A r \in Readers : SF_vars(~astray /\ ReadLock(r)) /\ WF_vars(~astray /\ ReadUnlock(r))

(* No frame is read while it is written, although masters come, go and are *)
(* killed, and clear a segment without locking it.                         *)
Exclusive ==
  \A m \in Masters, r \in Readers :
      mpc[m] = "writing" /\ rpc[r] = "reading" => mseg[m] # rseg[r]

(* Whatever was killed at whatever time, a segment that a key leads to has *)
(* its file: later masters keep off it, and what is left over is found.    *)
Findable == ~astray => \A n \in Numbers : keyed[n] # NoSegment => n \in file

(* The key of a master that runs leads to its own segment.                 *)
OwnKey ==
  ~astray => \A m \in Masters : mpc[m] \in On /\ num[m] \in Numbers => keyed[num[m]] = mseg[m]

(* The screen thread of a master gets through its write, unless somebody   *)
(* died with the lock or two readers take turns; a reader gets through its *)
(* copy, unless a master ended within a write.                             *)
Attached(m) == {r \in Readers : rseg[r] = mseg[m]}
LocksObtained ==
  /\ \A m \in Masters : mpc[m] = "wait" ~>
       \/ mpc[m] # "wait" \/ astray \/ Cardinality(Attached(m)) > 1
       \/ holds[mseg[m]] \cap {DeadMaster, DeadReader} # {}
  /\ \A r \in Readers : rpc[r] = "lock" ~>
       rpc[r] # "lock" \/ astray \/ DeadMaster \in holds[rseg[r]]
=============================================================================
