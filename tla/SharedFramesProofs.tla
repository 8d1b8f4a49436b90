------------------------- MODULE SharedFramesProofs -------------------------
(***************************************************************************)
(* What SharedFrames promises for every number of processes and files: the *)
(* types, that a segment a key leads to has its file, that the key of a    *)
(* running master leads to its own segment, and that no frame is read      *)
(* while it is written.                                                    *)
(***************************************************************************)
EXTENDS SharedFrames, TLAPS

Owners == {"filed", "got", "stopped"} \cup On
Attachers == {"got"} \cup On

(* Of the files: each has one owner, who finds it there.                   *)
Owned ==
  /\ \A m \in Masters : mpc[m] \in Owners /\ num[m] \in Numbers => num[m] \in file
  /\ \A m, p \in Masters :
       mpc[m] \in Owners /\ mpc[p] \in Owners /\ num[m] = num[p] /\ num[m] \in Numbers => m = p

(* Of the keys: a key leads to the segment of the master that owns the     *)
(* file, to nothing when it has none yet or no more, and to what is left   *)
(* over when no master owns the file.                                      *)
Keyed ==
  /\ \A n \in Numbers : keyed[n] # NoSegment => n \in file
  /\ \A m \in Masters : num[m] \in Numbers =>
       /\ mpc[m] \in Attachers => keyed[num[m]] = mseg[m]
       /\ mpc[m] \in {"filed", "stopped"} => keyed[num[m]] = NoSegment

(* Of the segments: no two masters, and no two keys, have the same.        *)
Separate ==
  /\ \A m, p \in Masters : mseg[m] \in Ids /\ mseg[m] = mseg[p] => m = p
  /\ \A n, k \in Numbers : keyed[n] \in Ids /\ keyed[n] = keyed[k] => n = k
  /\ \A m \in Masters, n \in Numbers :
       mseg[m] \in Ids /\ keyed[n] = mseg[m] => num[m] = n
  /\ \A m \in Masters, r \in Readers : mpc[m] = "got" => rseg[r] # mseg[m]

(* Of the locks: who uses a frame has locked it.                           *)
Locked ==
  /\ \A m \in Masters : mpc[m] = "writing" => m \in holds[mseg[m]]
  /\ \A r \in Readers : rpc[r] = "reading" => r \in holds[rseg[r]]

Inv == TypeOK /\ Exclusive /\ (~astray => Owned /\ Keyed /\ Separate /\ Locked)

(* vj_shm_free removes the segment, then the file.                         *)
LEMMA RemoveOrder ==
  \A m \in Masters : (Remove(m, 1) <=> RemoveSegment(m)) /\ (Remove(m, 2) <=> RemoveFile(m))
  BY DEF Remove, Removals

(* What a process that detaches leaves: the locks keep their types, and    *)
(* other holders of locks of attached segments keep them.                  *)
LEMMA LeftFacts ==
  ASSUME TypeOK, NEW p \in Masters \cup Readers, NEW i, Left(i, p)
  PROVE  /\ holds' \in [Ids -> SUBSET (Masters \cup Readers \cup {DeadMaster, DeadReader})]
         /\ \A h \in Ids : \A q : h \notin Unused' /\ q # p /\ q \in holds[h] => q \in holds'[h]
PROOF
  <1>1. Dead(p) \in {DeadMaster, DeadReader}
    BY DEF Dead
  <1> QED
    BY <1>1 DEF Left, TypeOK

(* The steps of a master keep the types.                                   *)
LEMMA MasterType ==
  ASSUME TypeOK, NEW m \in Masters, MasterStep(m)
  PROVE  TypeOK'
PROOF
  <1> USE SizeAssumption, NamesAssumption DEF TypeOK, GoTo, On, reader, Numbers, Ids
  <1>1. CASE Start(m)
    BY <1>1 DEF Start
  <1>2. CASE Look(m)
    <2>1. CASE Exhausted(m) /\ GoTo(m, "filed") /\ UNCHANGED num
      BY <1>2, <2>1 DEF Look, Exhausted
    <2>2. CASE num[m] \in file /\ num' = [num EXCEPT ![m] = @ + 1] /\ UNCHANGED mpc
      <3>1. num[m] + 1 \in Numbers \cup {MaxFiles}
        BY <2>2
      <3> QED
        BY <1>2, <2>2, <3>1 DEF Look
    <2>3. CASE ~Exhausted(m) /\ GoTo(m, "found") /\ UNCHANGED num
      BY <1>2, <2>3 DEF Look, Exhausted
    <2> QED
      BY <1>2, <2>1, <2>2, <2>3 DEF Look
  <1>3. CASE CreateFile(m)
    <2>1. CASE /\ file' = file \cup {num[m]} /\ astray' = (num[m] \in file) /\ UNCHANGED num
      <3>1. file' \subseteq Numbers
        BY <1>3, <2>1 DEF CreateFile
      <3>2. astray' \in BOOLEAN
        BY <2>1
      <3> QED
        BY <1>3, <2>1, <3>1, <3>2 DEF CreateFile
    <2>2. CASE num' = [num EXCEPT ![m] = MaxFiles] /\ UNCHANGED <<file, astray>>
      BY <1>3, <2>2 DEF CreateFile
    <2> QED
      BY <1>3, <2>1, <2>2 DEF CreateFile
  <1>4. CASE GetSegment(m)
    BY <1>4 DEF GetSegment, SegmentsFor, Unused
  <1>5. CASE GetFails(m)
    BY <1>5 DEF GetFails
  <1>6. CASE InitLock(m)
    BY <1>6 DEF InitLock
  <1>7. CASE Write(m)
    BY <1>7 DEF Write
  <1>8. CASE WriteLock(m)
    BY <1>8 DEF WriteLock
  <1>9. CASE WriteUnlock(m)
    BY <1>9 DEF WriteUnlock, Unlock
  <1>10. CASE mpc[m] \in On /\ GoTo(m, "stopped") /\ Remove(m, 1)
    <2>1. RemoveSegment(m)
      BY <1>10, RemoveOrder
    <2>2. holds' \in [Ids -> SUBSET (Masters \cup Readers \cup {DeadMaster, DeadReader})]
      BY <2>1, LeftFacts DEF RemoveSegment
    <2> QED
      BY <1>10, <2>1, <2>2 DEF RemoveSegment
  <1>11. CASE mpc[m] = "stopped" /\ GoTo(m, "off") /\ Remove(m, 2)
    <2>1. RemoveFile(m)
      BY <1>11, RemoveOrder
    <2> QED
      BY <1>11, <2>1 DEF RemoveFile
  <1>12. CASE KillMaster(m)
    <2>1. holds' \in [Ids -> SUBSET (Masters \cup Readers \cup {DeadMaster, DeadReader})]
      BY <1>12, LeftFacts DEF KillMaster
    <2> QED
      BY <1>12, <2>1 DEF KillMaster
  <1> QED
    BY <1>1, <1>2, <1>3, <1>4, <1>5, <1>6, <1>7, <1>8, <1>9, <1>10, <1>11, <1>12
    DEF MasterStep, Free

(* The steps of a reader keep the types.                                   *)
LEMMA ReaderType ==
  ASSUME TypeOK, NEW r \in Readers, ReaderStep(r)
  PROVE  TypeOK'
PROOF
  <1> USE SizeAssumption, NamesAssumption DEF TypeOK, RGoTo, On, master, Numbers, Ids
  <1>1. CASE Attach(r)
    <2> DEFINE m == told[r][1]
               n == told[r][2]
               i == IF n \in Numbers THEN keyed[n] ELSE NoSegment
    <2>1. CASE /\ i # NoSegment /\ RGoTo(r, "in") /\ rseg' = [rseg EXCEPT ![r] = i]
               /\ astray' = (mpc[m] \notin On \/ mseg[m] # i)
      <3>1. i \in Ids
        BY <2>1
      <3>2. astray' \in BOOLEAN
        BY <2>1
      <3> HIDE DEF i, n, m
      <3> QED
        BY <1>1, <2>1, <3>1, <3>2 DEF Attach
    <2>2. CASE i = NoSegment /\ RGoTo(r, "off") /\ UNCHANGED <<rseg, astray>>
      BY <1>1, <2>2 DEF Attach
    <2> QED
      BY <1>1, <2>1, <2>2 DEF Attach
  <1>2. CASE Read(r)
    BY <1>2 DEF Read
  <1>3. CASE ReadLock(r)
    BY <1>3 DEF ReadLock
  <1>4. CASE ReadUnlock(r)
    BY <1>4 DEF ReadUnlock, Unlock
  <1>5. CASE Detach(r)
    <2>1. holds' \in [Ids -> SUBSET (Masters \cup Readers \cup {DeadMaster, DeadReader})]
      BY <1>5, LeftFacts DEF Detach
    <2> QED
      BY <1>5, <2>1 DEF Detach
  <1>6. CASE KillReader(r)
    <2>1. holds' \in [Ids -> SUBSET (Masters \cup Readers \cup {DeadMaster, DeadReader})]
      BY <1>6, LeftFacts DEF KillReader
    <2> QED
      BY <1>6, <2>1 DEF KillReader
  <1>7. CASE \E m \in Masters : Ask(r, m)
    <2> PICK m \in Masters : Ask(r, m)
      BY <1>7
    <2>1. <<m, num[m]>> \in Masters \X (Numbers \cup {MaxFiles})
      OBVIOUS
    <2>2. <<m, num[m]>> # Nothing
      BY <2>1
    <2> QED
      BY <2>1, <2>2 DEF Ask
  <1> QED
    BY <1>1, <1>2, <1>3, <1>4, <1>5, <1>6, <1>7 DEF ReaderStep

(* What GetSegment takes is the segment of nobody else.                    *)
LEMMA FreshSegment ==
  ASSUME TypeOK, Keyed, NEW m \in Masters, mpc[m] = "filed", NEW i \in SegmentsFor(num[m])
  PROVE  /\ i \in Ids
         /\ \A n \in Numbers : keyed[n] # i
         /\ \A p \in Masters : mseg[p] # i
         /\ \A r \in Readers : rseg[r] # i
  BY NamesAssumption DEF TypeOK, Keyed, SegmentsFor, Unused

(* The steps of a master keep what is said of files, keys and segments.    *)
LEMMA MasterFiles ==
  ASSUME TypeOK, Owned, Keyed, Separate, NEW m \in Masters, MasterStep(m), ~astray'
  PROVE  Owned' /\ Keyed' /\ Separate'
PROOF
  <1> USE SizeAssumption, NamesAssumption
      DEF TypeOK, GoTo, On, reader, Owners, Attachers, Owned, Keyed, Separate
  <1>0. MaxFiles \notin Numbers
    BY DEF Numbers
  <1>1. CASE Start(m)
    BY <1>1 DEF Start
  <1>2. CASE Look(m)
    <2>1. CASE Exhausted(m) /\ GoTo(m, "filed") /\ UNCHANGED num
      BY <1>0, <1>2, <2>1 DEF Look, Exhausted
    <2>2. CASE mpc'[m] \in {"look", "found"} /\ \A p \in Masters \ {m} : num'[p] = num[p] /\ mpc'[p] = mpc[p]
      BY <1>2, <2>2 DEF Look
    <2> QED
      BY <1>2, <2>1, <2>2 DEF Look
  <1>3. CASE CreateFile(m)
    <2>1. CASE file' = file \cup {num[m]} /\ astray' = (num[m] \in file) /\ UNCHANGED num
      <3>1. num[m] \notin file
        BY <2>1
      <3> QED
        BY <1>3, <2>1, <3>1 DEF CreateFile
    <2>2. CASE num' = [num EXCEPT ![m] = MaxFiles] /\ UNCHANGED <<file, astray>>
      BY <1>0, <1>3, <2>2 DEF CreateFile
    <2> QED
      BY <1>3, <2>1, <2>2 DEF CreateFile
  <1>4. CASE GetSegment(m)
    <2> PICK i \in SegmentsFor(num[m]) :
          /\ mseg' = [mseg EXCEPT ![m] = i]
          /\ keyed' = [n \in Numbers |-> IF n = num[m] THEN i ELSE keyed[n]]
      BY <1>4 DEF GetSegment
    <2>1. /\ i \in Ids
          /\ \A n \in Numbers : keyed[n] # i
          /\ \A p \in Masters : mseg[p] # i
          /\ \A r \in Readers : rseg[r] # i
      BY <1>4, FreshSegment DEF GetSegment
    <2>2. UNCHANGED <<file, num, rseg>> /\ mpc' = [mpc EXCEPT ![m] = "got"] /\ mpc[m] = "filed"
      BY <1>4 DEF GetSegment
    <2>3. Owned'
      BY <2>2
    <2>4. Keyed'
      BY <2>1, <2>2
    <2>5. Separate'
      BY <2>1, <2>2
    <2> QED
      BY <2>3, <2>4, <2>5
  <1>5. CASE GetFails(m)
    BY <1>0, <1>5 DEF GetFails
  <1>6. CASE InitLock(m)
    BY <1>6 DEF InitLock
  <1>7. CASE Write(m)
    BY <1>7 DEF Write
  <1>8. CASE WriteLock(m)
    BY <1>8 DEF WriteLock
  <1>9. CASE WriteUnlock(m)
    BY <1>9 DEF WriteUnlock
  <1>10. CASE mpc[m] \in On /\ GoTo(m, "stopped") /\ Remove(m, 1)
    <2>1. RemoveSegment(m)
      BY <1>10, RemoveOrder
    <2>2. Owned'
      BY <1>10, <2>1 DEF RemoveSegment
    <2>3. Keyed'
      BY <1>10, <2>1 DEF RemoveSegment
    <2>4. Separate'
      BY <1>10, <2>1 DEF RemoveSegment
    <2> QED
      BY <2>2, <2>3, <2>4
  <1>11. CASE mpc[m] = "stopped" /\ GoTo(m, "off") /\ Remove(m, 2)
    <2>1. RemoveFile(m)
      BY <1>11, RemoveOrder
    <2> QED
      BY <1>0, <1>11, <2>1 DEF RemoveFile
  <1>12. CASE KillMaster(m)
    BY <1>0, <1>12 DEF KillMaster
  <1> QED
    BY <1>1, <1>2, <1>3, <1>4, <1>5, <1>6, <1>7, <1>8, <1>9, <1>10, <1>11, <1>12
    DEF MasterStep, Free

(* A reader attaches a segment of a master that runs, or the model ends.   *)
LEMMA ReaderFiles ==
  ASSUME TypeOK, Owned, Keyed, Separate, NEW r \in Readers, ReaderStep(r), ~astray'
  PROVE  Owned' /\ Keyed' /\ Separate'
PROOF
  <1> USE NamesAssumption
      DEF TypeOK, RGoTo, master, Owned, Keyed, Separate, Owners, Attachers, On
  <1>0. UNCHANGED <<file, keyed, mpc, num, mseg>>
    BY DEF ReaderStep, Attach, Read, ReadLock, ReadUnlock, Detach, KillReader, Ask
  <1>1. CASE UNCHANGED rseg
    BY <1>0, <1>1
  <1>2. CASE rseg' = [rseg EXCEPT ![r] = NoSegment]
    BY <1>0, <1>2
  <1>3. CASE Attach(r)
    <2> DEFINE m == told[r][1]
               n == told[r][2]
               i == IF n \in Numbers THEN keyed[n] ELSE NoSegment
    <2>1. CASE /\ i # NoSegment /\ RGoTo(r, "in") /\ rseg' = [rseg EXCEPT ![r] = i]
               /\ astray' = (mpc[m] \notin On \/ mseg[m] # i)
      <3>1. i \in Ids /\ m \in Masters
        BY <1>3, <2>1 DEF Attach
      <3>2. mpc[m] \in On /\ mseg[m] = i
        BY <2>1
      <3> HIDE DEF i, n, m
      <3>3. \A p \in Masters : mpc[p] = "got" => mseg[p] # i
        BY <3>1, <3>2
      <3> QED
        BY <1>0, <2>1, <3>3
    <2> QED
      BY <1>1, <1>3, <2>1 DEF Attach
  <1> QED
    BY <1>1, <1>2, <1>3 DEF ReaderStep, Attach, Read, ReadLock, ReadUnlock, Detach, KillReader, Ask

(* Segments that masters and readers have attached are not given up.       *)
LEMMA InUse ==
  ASSUME TypeOK'
  PROVE  /\ \A m \in Masters : mseg'[m] \in Ids => mseg'[m] \notin Unused'
         /\ \A r \in Readers : rseg'[r] \in Ids => rseg'[r] \notin Unused'
  BY DEF Unused

(* The steps of a master keep the locks and the exclusion.                 *)
LEMMA MasterLocks ==
  ASSUME TypeOK, Separate, Locked, Exclusive, NEW m \in Masters, MasterStep(m), TypeOK'
  PROVE  Locked' /\ Exclusive'
PROOF
  <1> USE ProcessAssumption, NamesAssumption
      DEF TypeOK, GoTo, On, reader, Separate, Locked, Exclusive
  <1>1. CASE Start(m) \/ Look(m) \/ CreateFile(m) \/ GetFails(m) \/ Write(m)
    <2>1. UNCHANGED <<holds, mseg, rpc, rseg>> /\ mpc'[m] # "writing"
      BY <1>1 DEF Start, Look, CreateFile, GetFails, Write
    <2>2. \A p \in Masters \ {m} : mpc'[p] = mpc[p]
      BY <1>1 DEF Start, Look, CreateFile, GetFails, Write
    <2> QED
      BY <2>1, <2>2
  <1>2. CASE GetSegment(m)
    BY <1>2 DEF GetSegment
  <1>3. CASE InitLock(m)
    BY <1>3 DEF InitLock
  <1>4. CASE WriteLock(m)
    BY <1>4 DEF WriteLock
  <1>5. CASE WriteUnlock(m)
    BY <1>5 DEF WriteUnlock, Unlock
  <1>6. CASE /\ Left(mseg[m], m) /\ mpc'[m] \in {"stopped", "off"}
             /\ \A p \in Masters \ {m} : mpc'[p] = mpc[p] /\ mseg'[p] = mseg[p]
             /\ UNCHANGED reader
    <2>1. \A h \in Ids : \A q : h \notin Unused' /\ q # m /\ q \in holds[h] => q \in holds'[h]
      BY <1>6, LeftFacts
    <2>2. \A p \in Masters : mpc'[p] = "writing" => mseg'[p] \in Ids /\ p \in holds'[mseg'[p]]
      BY <1>6, <2>1, InUse
    <2>3. \A r \in Readers : rpc'[r] = "reading" => r \in holds'[rseg'[r]]
      BY <1>6, <2>1, InUse
    <2> QED
      BY <1>6, <2>2, <2>3
  <1>7. CASE mpc[m] \in On /\ GoTo(m, "stopped") /\ Remove(m, 1)
    BY <1>6, <1>7, RemoveOrder DEF RemoveSegment
  <1>8. CASE mpc[m] = "stopped" /\ GoTo(m, "off") /\ Remove(m, 2)
    <2>1. RemoveFile(m)
      BY <1>8, RemoveOrder
    <2> QED
      BY <1>8, <2>1 DEF RemoveFile
  <1>9. CASE KillMaster(m)
    BY <1>6, <1>9 DEF KillMaster
  <1> QED
    BY <1>1, <1>2, <1>3, <1>4, <1>5, <1>7, <1>8, <1>9 DEF MasterStep, Free

(* The steps of a reader keep the locks and the exclusion.                 *)
LEMMA ReaderLocks ==
  ASSUME TypeOK, Locked, Exclusive, NEW r \in Readers, ReaderStep(r), TypeOK'
  PROVE  Locked' /\ Exclusive'
PROOF
  <1> USE ProcessAssumption, NamesAssumption
      DEF TypeOK, RGoTo, On, master, Locked, Exclusive
  <1>0. UNCHANGED master /\ \A q \in Readers \ {r} : rpc'[q] = rpc[q] /\ rseg'[q] = rseg[q]
    BY DEF ReaderStep, Attach, Read, ReadLock, ReadUnlock, Detach, KillReader, Ask
  <1>1. CASE Attach(r) \/ Read(r) \/ \E m \in Masters : Ask(r, m)
    <2>1. UNCHANGED holds /\ rpc'[r] # "reading"
      BY <1>1 DEF Attach, Read, Ask
    <2> QED
      BY <1>0, <2>1
  <1>2. CASE ReadLock(r)
    <2>1. \A m \in Masters : mpc[m] = "writing" => mseg[m] # rseg[r]
      BY <1>2 DEF ReadLock, Writers
    <2> QED
      BY <1>0, <1>2, <2>1 DEF ReadLock
  <1>3. CASE ReadUnlock(r)
    BY <1>3 DEF ReadUnlock, Unlock
  <1>4. CASE Detach(r) \/ KillReader(r)
    <2>1. rpc'[r] = "off" /\ Left(rseg[r], r)
      BY <1>4 DEF Detach, KillReader
    <2>2. \A h \in Ids : \A q : h \notin Unused' /\ q # r /\ q \in holds[h] => q \in holds'[h]
      BY <2>1, LeftFacts
    <2>3. \A p \in Masters : mpc'[p] = "writing" => p \in holds'[mseg'[p]]
      BY <1>0, <2>2, InUse
    <2>4. \A q \in Readers : rpc'[q] = "reading" => q \in holds'[rseg'[q]]
      BY <1>0, <2>1, <2>2, InUse
    <2> QED
      BY <1>0, <2>1, <2>3, <2>4
  <1> QED
    BY <1>1, <1>2, <1>3, <1>4 DEF ReaderStep

(* Nothing exists at first.                                                *)
LEMMA InitInv == Init => Inv
PROOF
  <1> SUFFICES ASSUME Init PROVE Inv
    OBVIOUS
  <1>1. MaxFiles \notin Numbers
    BY SizeAssumption DEF Numbers
  <1>2. TypeOK
    BY SizeAssumption, NamesAssumption DEF Init, TypeOK, On
  <1>3. Exclusive
    BY DEF Init, Exclusive
  <1>4. Owned /\ Keyed /\ Separate /\ Locked
    BY <1>1, NamesAssumption DEF Init, Owned, Keyed, Separate, Locked, Owners, Attachers, On
  <1> QED
    BY <1>2, <1>3, <1>4 DEF Inv

(* Every step keeps the invariant.                                         *)
LEMMA StepInv == Inv /\ [Next]_vars => Inv'
PROOF
  <1> SUFFICES ASSUME Inv, [Next]_vars PROVE Inv'
    OBVIOUS
  <1>1. CASE ~astray /\ \E m \in Masters : MasterStep(m)
    BY <1>1, MasterType, MasterFiles, MasterLocks DEF Inv
  <1>2. CASE ~astray /\ \E r \in Readers : ReaderStep(r)
    BY <1>2, ReaderType, ReaderFiles, ReaderLocks DEF Inv
  <1>3. CASE UNCHANGED vars
    BY <1>3 DEF vars, Inv, TypeOK, Exclusive, Owned, Keyed, Separate, Locked
  <1> QED
    BY <1>1, <1>2, <1>3 DEF Next

(* The invariant holds of every behaviour.                                 *)
LEMMA Invariance == Spec => []Inv
  BY InitInv, StepInv, PTL DEF Spec

(* Types: vj-shm.c and the reader keep what they share in its range; in    *)
(* particular a segment is attached exactly while it is used.              *)
THEOREM TypeCorrect == Spec => []TypeOK
PROOF
  <1>1. Inv => TypeOK
    BY DEF Inv
  <1> QED
    BY <1>1, Invariance, PTL

(* The process-shared rwlock keeps vj_shm_write and process_instance apart,*)
(* whatever is started, stopped and killed meanwhile.                      *)
THEOREM NeverTorn == Spec => []Exclusive
PROOF
  <1>1. Inv => Exclusive
    BY DEF Inv
  <1> QED
    BY <1>1, Invariance, PTL

(* The order of vj_shm_new_master and of vj_shm_free: no key leads to a    *)
(* segment whose file is gone.                                             *)
THEOREM AlwaysFindable == Spec => []Findable
PROOF
  <1>1. Inv => Findable
    BY DEF Inv, Findable, Keyed
  <1> QED
    BY <1>1, Invariance, PTL

(* What vj_event_get_shm answers leads to the segment that vj_shm_write of *)
(* the same veejay fills.                                                  *)
THEOREM KeysLead == Spec => []OwnKey
PROOF
  <1>1. Inv => OwnKey
    BY DEF Inv, OwnKey, Keyed, Attachers
  <1> QED
    BY <1>1, Invariance, PTL
=============================================================================
