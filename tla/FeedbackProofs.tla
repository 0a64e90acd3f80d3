--------------------------- MODULE FeedbackProofs ---------------------------
(***************************************************************************)
(* What Feedback.tla promises for any number of requests, ratings, bands   *)
(* and attempts.                                                           *)
(***************************************************************************)
EXTENDS Feedback, FiniteSetTheorems, TLAPS

LEMMA KeysOfTyped == ASSUME TypeOK, NEW j \in Jobs PROVE KeysOf(j) \subseteq Keys
  BY BandsAssumption DEF TypeOK, KeysOf, Subject, Jobs, Keys

LEMMA StoreTyped ==
  ASSUME TypeOK, NEW j \in Jobs, Store(j)
  PROVE  /\ stats' \in [Keys -> SUBSET Jobs]
         /\ writes' \in [Keys -> Nat]
         /\ folded' \in [Jobs -> SUBSET Keys]
  BY DEF TypeOK, Store

(* An attempt that is under way is one of the MaxTries.                    *)
TriesLeft == \A j \in Jobs : at[j] \in {"watch", "exec"} => tries[j] < MaxTries
TypeInv == TypeOK /\ TriesLeft

LEMMA TypeInit == Init => TypeInv
  BY TriesAssumption, JobsAssumption DEF Init, TypeInv, TriesLeft, TypeOK, Jobs, Keys

LEMMA TurnTyped ==
  ASSUME TypeInv, NEW j \in Jobs, NEW k \in Keys, Turn(j, k)
  PROVE  /\ at' \in [Jobs -> {"start", "remember", "done"} \cup Updating]
         /\ key' \in [Jobs -> Keys]
         /\ tries' \in [Jobs -> 0..MaxTries]
         /\ TriesLeft'
  BY TriesAssumption DEF TypeInv, TriesLeft, TypeOK, Turn, Goto, Updating

LEMMA ProceedTyped ==
  ASSUME TypeInv, NEW j \in Jobs, Proceed(j)
  PROVE  /\ at' \in [Jobs -> {"start", "remember", "done"} \cup Updating]
         /\ key' \in [Jobs -> Keys]
         /\ tries' \in [Jobs -> 0..MaxTries]
         /\ accepted' \subseteq Ratings
         /\ TriesLeft'
<1>1. CASE KeysOf(j) \subseteq folded'[j]
  BY <1>1 DEF TypeInv, TriesLeft, TypeOK, Proceed, Goto, After, Updating
<1>2. CASE ~(KeysOf(j) \subseteq folded'[j])
  BY <1>2, KeysOfTyped, TurnTyped DEF TypeInv, TypeOK, Proceed
<1>3. QED
  BY <1>1, <1>2

LEMMA TypeStep == TypeInv /\ [Next]_vars => TypeInv'
<1> SUFFICES ASSUME TypeInv, [Next]_vars PROVE TypeInv'
  OBVIOUS
<1>1. CASE UNCHANGED vars
  BY <1>1 DEF TypeInv, TriesLeft, TypeOK, vars, storage
<1>2. ASSUME UNCHANGED about, NEW j \in Jobs, Step(j) PROVE TypeInv'
  <2> USE <1>2 DEF TypeInv
  <2>1. CASE Record(j)
    BY <2>1, KeysOfTyped, TurnTyped DEF Record, TypeOK, storage
  <2>2. CASE Claim(j)
    <3>1. CASE about[j] \in records
      BY <2>2, <3>1, KeysOfTyped, TurnTyped DEF Claim, TakeRecord, TypeOK
    <3>2. CASE about[j] \notin records
      BY <2>2, <3>2 DEF Claim, Goto, TypeOK, TriesLeft
    <3>3. QED
      BY <3>1, <3>2
  <2>3. CASE Watch(j)
    BY <2>3 DEF Watch, ReadRecord, Goto, TypeOK, TriesLeft, storage, Updating
  <2>4. CASE Execute(j)
    BY <2>4, StoreTyped, ProceedTyped DEF Execute, TypeOK
  <2>5. CASE Conflict(j)
    BY <2>5, TriesAssumption DEF Conflict, Goto, TypeOK, TriesLeft, storage, Updating
  <2>6. CASE Read(j)
    BY <2>6 DEF Read, ReadRecord, Goto, TypeOK, TriesLeft, storage, Updating
  <2>7. CASE Write(j)
    BY <2>7, StoreTyped, ProceedTyped DEF Write, TypeOK
  <2>8. CASE Remember(j)
    BY <2>8 DEF Remember, Goto, TypeOK, TriesLeft, Jobs
  <2>9. CASE Raise(j)
    BY <2>9, StoreTyped DEF Raise, TakeRecord, Goto, TypeOK, TriesLeft, storage
  <2>10. QED
    BY <2>1, <2>2, <2>3, <2>4, <2>5, <2>6, <2>7, <2>8, <2>9 DEF Step
<1>3. ASSUME UNCHANGED about, NEW q \in Requests, Expire(q) PROVE TypeInv'
  BY <1>3 DEF Expire, TypeInv, TypeOK, TriesLeft
<1>4. QED
  BY <1>1, <1>2, <1>3 DEF Next

(* The type invariant, which needs that no attempt goes beyond MaxTries.   *)
THEOREM TypeCorrect == Spec => []TypeOK
<1>1. TypeInv => TypeOK
  BY DEF TypeInv
<1>2. QED
  BY <1>1, TypeInit, TypeStep, PTL DEF Spec

---------------------------------------------------------------------------
(***************************************************************************)
(* No sample is lost.  A conflict means that another job wrote the record, *)
(* and a job writes a record once: the version of the record bounds the    *)
(* conflicts of a job, and a job that has used up its attempts is the last *)
(* of few jobs to write the record.                                        *)
(***************************************************************************)
Counting == \A k \in Keys : writes[k] = Cardinality(Folded(k))

(* Active jobs alone write, and a job that updates a record has not yet.   *)
Once ==
    \A j \in Jobs :
        /\ folded[j] # {} => j \in Active
        /\ at[j] # "done" => j \in Active
        /\ at[j] = "start" => folded[j] = {}
        /\ at[j] \in Updating => key[j] \notin folded[j]

Versions ==
    \A j \in Jobs :
        /\ at[j] = "watch" => tries[j] <= writes[key[j]]
        /\ at[j] = "exec" => tries[j] <= watched[j] /\ watched[j] <= writes[key[j]]
        /\ at[j] \in {"read", "write"} => MaxTries <= writes[key[j]]

(* What a job read is current when it may write.                           *)
Current ==
    \A j \in Jobs :
        /\ at[j] = "exec" /\ Unwatched(j) => seen[j] = stats[key[j]]
        /\ at[j] = "write" /\ FewJobs => seen[j] = stats[key[j]]

StatsInv == TypeInv /\ Counting /\ Once /\ Versions /\ Current /\ NoSampleLost

LEMMA FoldedFinite == ASSUME NEW k \in Keys PROVE IsFiniteSet(Folded(k))
  BY JobsAssumption, FS_Subset DEF Folded

(* Two active jobs that have not written a record leave too few others for *)
(* all the attempts of a job to fail.                                      *)
LEMMA NoTwoLeft ==
  ASSUME TypeOK, Counting, Once, FewJobs,
         NEW i \in Active, NEW j \in Active, i # j,
         NEW k \in Keys, k \notin folded[i], k \notin folded[j],
         MaxTries <= writes[k]
  PROVE  FALSE
<1>1. Folded(k) \cup {i, j} \subseteq Active
  BY DEF Once, Folded
<1>2. IsFiniteSet(Active) /\ IsFiniteSet(Folded(k))
  BY JobsAssumption, FS_Subset, FoldedFinite DEF Active
<1>3. Cardinality(Folded(k) \cup {i}) = writes[k] + 1
  BY <1>2, FS_AddElement DEF Counting, Folded
<1>4. Cardinality((Folded(k) \cup {i}) \cup {j}) = writes[k] + 2
  <2>1. IsFiniteSet(Folded(k) \cup {i}) /\ j \notin Folded(k) \cup {i}
    BY <1>2, FS_AddElement DEF Folded
  <2>2. writes[k] \in Nat
    BY DEF TypeOK
  <2>3. Cardinality((Folded(k) \cup {i}) \cup {j}) = Cardinality(Folded(k) \cup {i}) + 1
    BY <2>1, FS_AddElement
  <2>4. QED
    BY <1>3, <2>2, <2>3
<1>5. Cardinality((Folded(k) \cup {i}) \cup {j}) <= Cardinality(Active)
  BY <1>1, <1>2, FS_Subset
<1>6. Cardinality(Active) \in Nat /\ writes[k] \in Nat
  BY <1>2, FS_CardinalityType DEF TypeOK
<1>7. QED
  BY <1>4, <1>5, <1>6, TriesAssumption DEF FewJobs

LEMMA StatsInit == Init => StatsInv
<1> SUFFICES ASSUME Init PROVE StatsInv
  OBVIOUS
<1>1. \A k \in Keys : Folded(k) = {}
  BY DEF Init, Folded
<1>2. QED
  BY <1>1, TypeInit, FS_EmptySet
     DEF Init, StatsInv, Counting, Once, Versions, Current, NoSampleLost, Updating, Active

(* A step that writes nothing: only the job that takes it can disturb the  *)
(* invariant.                                                              *)
LEMMA QuietStep ==
  ASSUME StatsInv, UNCHANGED <<stats, writes, folded>>
  PROVE  Counting' /\ NoSampleLost'
  BY DEF StatsInv, Counting, NoSampleLost, Folded, FewJobs

Others(j) ==
    \A i \in Jobs \ {j} :
        /\ at'[i] = at[i] /\ key'[i] = key[i] /\ tries'[i] = tries[i]
        /\ watched'[i] = watched[i] /\ seen'[i] = seen[i] /\ folded'[i] = folded[i]

(* The parts of the invariant that speak of one job.                       *)
JobInv(i) ==
    /\ folded[i] # {} => i \in Active
    /\ at[i] # "done" => i \in Active
    /\ at[i] = "start" => folded[i] = {}
    /\ at[i] \in Updating => key[i] \notin folded[i]
    /\ at[i] = "watch" => tries[i] <= writes[key[i]]
    /\ at[i] = "exec" => tries[i] <= watched[i] /\ watched[i] <= writes[key[i]]
    /\ at[i] \in {"read", "write"} => MaxTries <= writes[key[i]]
    /\ at[i] = "exec" /\ Unwatched(i) => seen[i] = stats[key[i]]
    /\ at[i] = "write" /\ FewJobs => seen[i] = stats[key[i]]

LEMMA JobByJob ==
  /\ (Once /\ Versions /\ Current) <=> (\A i \in Jobs : JobInv(i))
  /\ (Once' /\ Versions' /\ Current') <=> (\A i \in Jobs : JobInv(i)')
  BY DEF Once, Versions, Current, JobInv

LEMMA QuietJobs ==
  ASSUME StatsInv, NEW j \in Jobs, Others(j), UNCHANGED <<stats, writes>>
  PROVE  \A i \in Jobs \ {j} : JobInv(i)'
<1> SUFFICES ASSUME NEW i \in Jobs \ {j} PROVE JobInv(i)'
  OBVIOUS
<1>1. JobInv(i)
  BY JobByJob DEF StatsInv
<1>2. QED
  BY <1>1 DEF JobInv, Others, Unwatched, FewJobs

(* A step that writes nothing and keeps the invariant of the job it moves. *)
LEMMA QuietInv ==
  ASSUME StatsInv, [Next]_vars, NEW j \in Jobs, Others(j), JobInv(j)',
         UNCHANGED <<stats, writes, folded>>
  PROVE  StatsInv'
<1>1. TypeInv'
  BY TypeStep DEF StatsInv
<1>2. \A i \in Jobs : JobInv(i)'
  BY QuietJobs
<1>3. QED
  BY <1>1, <1>2, JobByJob, QuietStep DEF StatsInv

(* What a job does when it turns to the next record.                       *)
LEMMA TurnJob ==
  ASSUME StatsInv, NEW j \in Active, NEW k \in Keys, Turn(j, k),
         k \notin folded'[j], writes'[k] \in Nat
  PROVE  JobInv(j)'
<1>1. j \in Jobs /\ at'[j] = "watch" /\ key'[j] = k /\ tries'[j] = 0
  BY DEF Active, Turn, Goto, StatsInv, TypeInv, TypeOK
<1>2. QED
  BY <1>1 DEF JobInv

---------------------------------------------------------------------------
(* A write of a record by a job whose reading of it is current.            *)
LEMMA StoreFolded ==
  ASSUME TypeOK, NEW j \in Jobs, Store(j)
  PROVE  \A k \in Keys :
            /\ Folded(k)' = IF k = key[j] THEN Folded(k) \cup {j} ELSE Folded(k)
            /\ writes'[k] = IF k = key[j] THEN writes[k] + 1 ELSE writes[k]
            /\ stats'[k] = IF k = key[j] THEN seen[j] \cup {j} ELSE stats[k]
  BY DEF TypeOK, Store, Folded

LEMMA StoreCounts ==
  ASSUME StatsInv, NEW j \in Jobs, at[j] \in Updating, Store(j)
  PROVE  Counting'
<1> SUFFICES ASSUME NEW k \in Keys PROVE writes'[k] = Cardinality(Folded(k)')
  BY DEF Counting
<1>1. TypeOK /\ writes[k] = Cardinality(Folded(k)) /\ key[j] \notin folded[j]
  BY DEF StatsInv, TypeInv, Counting, Once
<1>2. CASE k = key[j]
  <2>1. j \notin Folded(k)
    BY <1>1, <1>2 DEF Folded
  <2>2. Cardinality(Folded(k) \cup {j}) = Cardinality(Folded(k)) + 1
    BY <2>1, FoldedFinite, FS_AddElement
  <2>3. QED
    BY <1>1, <1>2, <2>2, StoreFolded
<1>3. CASE k # key[j]
  BY <1>1, <1>3, StoreFolded
<1>4. QED
  BY <1>2, <1>3

LEMMA StoreKeepsSamples ==
  ASSUME StatsInv, NEW j \in Jobs, Store(j), FewJobs => seen[j] = stats[key[j]]
  PROVE  NoSampleLost'
<1> SUFFICES ASSUME FewJobs, NEW k \in Keys PROVE stats'[k] = Folded(k)'
  BY DEF NoSampleLost, FewJobs
<1>1. TypeOK /\ stats[k] = Folded(k) /\ seen[j] = stats[key[j]]
  BY DEF StatsInv, TypeInv, NoSampleLost
<1>2. CASE k = key[j]
  <2>1. Folded(k)' = Folded(k) \cup {j} /\ stats'[k] = seen[j] \cup {j}
    BY <1>1, <1>2, StoreFolded
  <2>2. QED
    BY <1>1, <1>2, <2>1
<1>3. CASE k # key[j]
  BY <1>1, <1>3, StoreFolded
<1>4. QED
  BY <1>2, <1>3

(* The other jobs see a newer version, or are not waiting to write.        *)
LEMMA StoreOthers ==
  ASSUME StatsInv, NEW j \in Jobs, at[j] \in Updating, Others(j), Store(j)
  PROVE  \A i \in Jobs \ {j} : JobInv(i)'
<1> SUFFICES ASSUME NEW i \in Jobs \ {j} PROVE JobInv(i)'
  OBVIOUS
<1>1. JobInv(i) /\ JobInv(j) /\ TypeOK /\ i \in Jobs
  BY JobByJob DEF StatsInv, TypeInv
<1>2. /\ at'[i] = at[i] /\ key'[i] = key[i] /\ tries'[i] = tries[i]
      /\ watched'[i] = watched[i] /\ seen'[i] = seen[i] /\ folded'[i] = folded[i]
  BY DEF Others
<1>3. key[i] \in Keys /\ writes[key[i]] \in Nat /\ watched[i] \in Nat /\ tries[i] \in Nat
  BY <1>1 DEF TypeOK
<1>4. CASE key[i] # key[j]
  <2>1. writes'[key[i]] = writes[key[i]] /\ stats'[key[i]] = stats[key[i]]
    BY <1>1, <1>3, <1>4, StoreFolded
  <2>2. QED
    BY <1>1, <1>2, <2>1 DEF JobInv, Unwatched, FewJobs
<1>5. CASE key[i] = key[j]
  <2>1. writes'[key[i]] = writes[key[i]] + 1
    BY <1>1, <1>3, <1>5, StoreFolded
  <2>2. ~(at[i] = "write" /\ FewJobs)
    <3> SUFFICES ASSUME at[i] = "write", FewJobs PROVE FALSE
      OBVIOUS
    <3>1. i \in Active /\ j \in Active /\ MaxTries <= writes[key[i]]
      BY <1>1 DEF JobInv, Updating
    <3>2. key[i] \notin folded[i] /\ key[i] \notin folded[j]
      BY <1>1, <1>5 DEF JobInv, Updating
    <3>3. TypeOK /\ Counting /\ Once /\ i # j
      BY DEF StatsInv, TypeInv
    <3>4. QED
      BY <1>3, <3>1, <3>2, <3>3, NoTwoLeft
  <2>3. QED
    BY <1>1, <1>2, <1>3, <2>1, <2>2, TriesAssumption DEF JobInv, Unwatched, FewJobs
<1>6. QED
  BY <1>4, <1>5

(* A job that has written a record turns to the other one, or ends.        *)
LEMMA ProceedJob ==
  ASSUME StatsInv, NEW j \in Jobs, at[j] \in Updating, Store(j), Proceed(j)
  PROVE  JobInv(j)'
<1>1. j \in Active
  BY DEF StatsInv, Once, Updating
<1>2. TypeOK
  BY DEF StatsInv, TypeInv
<1>3. CASE KeysOf(j) \subseteq folded'[j]
  BY <1>1, <1>2, <1>3 DEF Proceed, Goto, After, TypeOK, JobInv, Updating
<1>4. CASE ~(KeysOf(j) \subseteq folded'[j])
  <2>1. PICK k \in KeysOf(j) \ folded'[j] : Turn(j, k)
    BY <1>4 DEF Proceed
  <2>2. k \in Keys /\ writes'[k] \in Nat
    BY <1>2, KeysOfTyped, StoreTyped
  <2>3. QED
    BY <1>1, <2>1, <2>2, TurnJob
<1>5. QED
  BY <1>3, <1>4

LEMMA StoreInv ==
  ASSUME StatsInv, [Next]_vars, NEW j \in Jobs, at[j] \in Updating, Others(j), Store(j),
         JobInv(j)', FewJobs => seen[j] = stats[key[j]]
  PROVE  StatsInv'
<1>1. TypeInv'
  BY TypeStep DEF StatsInv
<1>2. \A i \in Jobs : JobInv(i)'
  BY StoreOthers
<1>3. QED
  BY <1>1, <1>2, JobByJob, StoreCounts, StoreKeepsSamples DEF StatsInv

---------------------------------------------------------------------------
LEMMA StatsStep == StatsInv /\ [Next]_vars => StatsInv'
<1> SUFFICES ASSUME StatsInv, [Next]_vars PROVE StatsInv'
  OBVIOUS
<1> USE DEF Goto, Active
<1>0. TypeOK /\ TypeInv
  BY DEF StatsInv, TypeInv
<1>1. CASE UNCHANGED vars
  <2>1. TypeInv'
    BY TypeStep DEF StatsInv
  <2>2. QED
    BY <1>1, <2>1 DEF vars, storage, StatsInv, Counting, Once, Versions, Current,
                      NoSampleLost, Folded, Unwatched, FewJobs
<1>2. ASSUME UNCHANGED about, NEW j \in Jobs, Step(j) PROVE StatsInv'
  <2>0. JobInv(j)
    BY JobByJob DEF StatsInv
  <2>1. CASE Record(j)
    <3>1. PICK k \in KeysOf(j) : Turn(j, k)
      BY <2>1 DEF Record
    <3>2. j \in Active /\ k \notin folded'[j] /\ k \in Keys /\ writes'[k] \in Nat
      BY <1>0, <2>0, <2>1, <3>1, KeysOfTyped DEF Record, JobInv, TypeOK, storage
    <3>3. JobInv(j)'
      BY <3>1, <3>2, TurnJob
    <3>4. Others(j) /\ UNCHANGED <<stats, writes, folded>>
      BY <1>0, <2>1, <3>1 DEF Record, Turn, Others, TypeOK, storage
    <3>5. QED
      BY <3>3, <3>4, QuietInv
  <2>2. CASE Claim(j)
    <3>1. UNCHANGED <<stats, writes, folded, watched, seen>>
      BY <2>2 DEF Claim
    <3>2. CASE about[j] \in records
      <4>1. PICK k \in KeysOf(j) : Turn(j, k)
        BY <2>2, <3>2 DEF Claim
      <4>2. j \in Active /\ k \notin folded'[j] /\ k \in Keys /\ writes'[k] \in Nat
        BY <1>0, <2>0, <2>2, <3>1, KeysOfTyped DEF Claim, JobInv, TypeOK
      <4>3. JobInv(j)'
        BY <4>1, <4>2, TurnJob
      <4>4. Others(j)
        BY <1>0, <3>1, <4>1 DEF Turn, Others, TypeOK
      <4>5. QED
        BY <3>1, <4>3, <4>4, QuietInv
    <3>3. CASE about[j] \notin records
      <4>1. Others(j) /\ JobInv(j)'
        BY <1>0, <2>0, <2>2, <3>1, <3>3 DEF Claim, Others, JobInv, TypeOK, Updating
      <4>2. QED
        BY <3>1, <4>1, QuietInv
    <3>4. QED
      BY <3>2, <3>3
  <2>3. CASE Watch(j)
    <3>1. Others(j) /\ UNCHANGED <<stats, writes, folded>>
      BY <1>0, <2>3 DEF Watch, ReadRecord, Others, TypeOK, storage
    <3>2. JobInv(j)'
      BY <1>0, <2>0, <2>3 DEF Watch, ReadRecord, JobInv, TypeOK, storage, Updating, Unwatched
    <3>3. QED
      BY <3>1, <3>2, QuietInv
  <2>4. CASE Execute(j)
    <3>1. at[j] \in Updating /\ seen[j] = stats[key[j]] /\ Store(j) /\ Proceed(j)
      BY <2>0, <2>4 DEF Execute, JobInv, Updating
    <3>2. Others(j)
      BY <1>0, <2>4, <3>1 DEF Execute, Others, Store, Proceed, Turn, TypeOK
    <3>3. JobInv(j)'
      BY <3>1, ProceedJob
    <3>4. QED
      BY <3>1, <3>2, <3>3, StoreInv
  <2>5. CASE Conflict(j)
    <3>1. Others(j) /\ UNCHANGED <<stats, writes, folded>>
      BY <1>0, <2>5 DEF Conflict, Others, TypeOK, storage
    <3>2. tries[j] + 1 <= writes[key[j]]
      BY <1>0, <2>0, <2>5, TriesAssumption DEF Conflict, JobInv, TypeOK, Unwatched
    <3>3. JobInv(j)'
      BY <1>0, <2>0, <2>5, <3>2, TriesAssumption
         DEF Conflict, JobInv, TypeOK, storage, Updating
    <3>4. QED
      BY <3>1, <3>3, QuietInv
  <2>6. CASE Read(j)
    <3>1. Others(j) /\ UNCHANGED <<stats, writes, folded>>
      BY <1>0, <2>6 DEF Read, ReadRecord, Others, TypeOK, storage
    <3>2. JobInv(j)'
      BY <1>0, <2>0, <2>6 DEF Read, ReadRecord, JobInv, TypeOK, storage, Updating
    <3>3. QED
      BY <3>1, <3>2, QuietInv
  <2>7. CASE Write(j)
    <3>1. /\ at[j] \in Updating /\ (FewJobs => seen[j] = stats[key[j]])
          /\ Store(j) /\ Proceed(j)
      BY <2>0, <2>7 DEF Write, JobInv, Updating
    <3>2. Others(j)
      BY <1>0, <2>7, <3>1 DEF Write, Others, Store, Proceed, Turn, TypeOK
    <3>3. JobInv(j)'
      BY <3>1, ProceedJob
    <3>4. QED
      BY <3>1, <3>2, <3>3, StoreInv
  <2>8. CASE Remember(j)
    <3>1. Others(j) /\ UNCHANGED <<stats, writes, folded>> /\ JobInv(j)'
      BY <1>0, <2>0, <2>8 DEF Remember, Others, JobInv, TypeOK, Updating
    <3>2. QED
      BY <3>1, QuietInv
  <2>9. CASE Raise(j)
    <3>1. at'[j] = "done" /\ UNCHANGED <<key, tries, watched, seen>>
      BY <1>0, <2>9 DEF Raise, TypeOK
    <3>2. CASE UNCHANGED <<stats, writes, folded>>
      <4>1. Others(j) /\ JobInv(j)'
        BY <1>0, <2>0, <2>9, <3>1, <3>2 DEF Raise, Others, JobInv, TypeOK, Updating
      <4>2. QED
        BY <3>2, <4>1, QuietInv
    <3>3. CASE /\ at[j] = "write" \/ (at[j] = "exec" /\ Unwatched(j))
               /\ Store(j)
      <4>1. at[j] \in Updating /\ (FewJobs => seen[j] = stats[key[j]])
        BY <2>0, <3>3 DEF JobInv, Updating
      <4>2. Others(j)
        BY <1>0, <2>9, <3>1, <3>3 DEF Raise, Store, Others, TypeOK
      <4>3. JobInv(j)'
        BY <2>0, <3>1, <3>3 DEF JobInv, Updating
      <4>4. QED
        BY <3>3, <4>1, <4>2, <4>3, StoreInv
    <3>4. QED
      BY <2>9, <3>2, <3>3 DEF Raise, storage
  <2>10. QED
    BY <1>2, <2>1, <2>2, <2>3, <2>4, <2>5, <2>6, <2>7, <2>8, <2>9 DEF Step
<1>3. ASSUME NEW q \in Requests, Expire(q) PROVE StatsInv'
  <2>1. TypeInv'
    BY TypeStep DEF StatsInv
  <2>2. QED
    BY <1>3, <2>1 DEF Expire, StatsInv, Counting, Once, Versions, Current,
                      NoSampleLost, Folded, Unwatched, FewJobs
<1>4. QED
  BY <1>1, <1>2, <1>3 DEF Next

(* However many replicas update a record of the statistics: MaxTries + 1   *)
(* concurrent jobs lose no sample, conflicts, blind writes, failures and   *)
(* crashes included.                                                       *)
THEOREM NoSampleIsLost == Spec => []NoSampleLost
<1>1. StatsInv => NoSampleLost
  BY DEF StatsInv
<1>2. QED
  BY <1>1, StatsInit, StatsStep, PTL DEF Spec

---------------------------------------------------------------------------
(***************************************************************************)
(* A request is rated once.  The correlation record is stored once, when   *)
(* the accounting ends, and whoever claims it takes it away; a sample in   *)
(* the statistics was written by the job itself.                           *)
(***************************************************************************)
Claimed(f) == folded[f] # {} \/ at[f] \in Updating

OwnSamples ==
    /\ \A k \in Keys : stats[k] \subseteq Folded(k)
    /\ \A j \in Jobs : at[j] \in {"exec", "write"} => seen[j] \subseteq Folded(key[j])

OneClaim ==
    /\ \A f, g \in Ratings : about[f] = about[g] /\ Claimed(f) /\ Claimed(g) => f = g
    /\ \A f \in Ratings : Claimed(f) => at[about[f]] = "done" /\ about[f] \notin records
    /\ \A q \in records : at[q] = "done"

RatingInv == TypeInv /\ Once /\ OwnSamples /\ OneClaim

LEMMA RatingInit == Init => RatingInv
<1> SUFFICES ASSUME Init PROVE RatingInv
  OBVIOUS
<1>1. TypeInv /\ Once
  BY TypeInit, StatsInit DEF StatsInv
<1>2. OwnSamples
  BY <1>1 DEF Init, OwnSamples, Keys
<1>3. OneClaim
  BY JobsAssumption DEF Init, OneClaim, Claimed, Updating, Jobs, Active
<1>4. QED
  BY <1>1, <1>2, <1>3 DEF RatingInv

(* Jobs only add to what they have written, and only to it.                *)
LEMMA FoldedGrows ==
  ASSUME TypeOK, [Next]_vars
  PROVE  \A k \in Keys : Folded(k) \subseteq Folded(k)'
<1>1. \A j \in Jobs : folded[j] \subseteq folded'[j]
  BY DEF Next, Step, Record, Claim, Watch, Execute, Conflict, Read, Write, Remember,
         Raise, Expire, Store, TypeOK, vars
<1>2. QED
  BY <1>1 DEF Folded

LEMMA OwnSamplesStep ==
  ASSUME TypeInv, OwnSamples, [Next]_vars
  PROVE  OwnSamples'
<1> USE DEF Goto
<1>0. TypeOK /\ \A k \in Keys : Folded(k) \subseteq Folded(k)'
  BY FoldedGrows DEF TypeInv
<1>1. CASE UNCHANGED vars
  BY <1>0, <1>1 DEF vars, storage, OwnSamples, TypeOK
<1>2. ASSUME NEW j \in Jobs, Step(j) PROVE OwnSamples'
  <2>1. CASE UNCHANGED <<stats, seen>> /\ at'[j] \notin {"exec", "write"}
    BY <1>0, <1>2, <2>1 DEF OwnSamples, TypeOK, Step, Record, Claim, Turn, Watch, Execute,
       Conflict, Read, Write, Remember, Raise, Proceed, Store
  <2>2. CASE Watch(j) \/ Read(j)
    BY <1>0, <2>2 DEF OwnSamples, TypeOK, Watch, Read, ReadRecord, storage
  <2>3. CASE /\ Store(j) /\ UNCHANGED seen
             /\ at[j] \in {"exec", "write"} /\ at'[j] \notin {"exec", "write"}
             /\ \A i \in Jobs \ {j} : at'[i] = at[i] /\ key'[i] = key[i]
    <3>1. \A k \in Keys : stats'[k] \subseteq Folded(k)'
      <4> SUFFICES ASSUME NEW k \in Keys PROVE stats'[k] \subseteq Folded(k)'
        OBVIOUS
      <4>1. /\ Folded(k)' = IF k = key[j] THEN Folded(k) \cup {j} ELSE Folded(k)
            /\ stats'[k] = IF k = key[j] THEN seen[j] \cup {j} ELSE stats[k]
        BY <1>0, <2>3, StoreFolded
      <4>2. stats[k] \subseteq Folded(k) /\ (k = key[j] => seen[j] \subseteq Folded(k))
        BY <2>3 DEF OwnSamples
      <4>3. CASE k = key[j]
        BY <4>1, <4>2, <4>3
      <4>4. CASE k # key[j]
        BY <4>1, <4>2, <4>4
      <4>5. QED
        BY <4>3, <4>4
    <3>2. \A i \in Jobs : at'[i] \in {"exec", "write"} => seen'[i] \subseteq Folded(key[i])' /\ key'[i] = key[i]
      BY <1>0, <2>3 DEF OwnSamples, TypeOK
    <3>3. QED
      BY <3>1, <3>2 DEF OwnSamples
  <2>4. QED
    <3>1. CASE Execute(j) \/ Write(j)
      BY <1>0, <2>3, <3>1 DEF Execute, Write, Proceed, Turn, After, TypeOK
    <3>2. CASE Raise(j)
      BY <1>0, <2>1, <2>3, <3>2 DEF Raise, storage, TypeOK
    <3>3. CASE Record(j) \/ Claim(j) \/ Conflict(j) \/ Remember(j)
      BY <1>0, <2>1, <3>3 DEF Record, Claim, Conflict, Remember, Turn, storage, TypeOK
    <3>4. QED
      BY <1>2, <2>2, <3>1, <3>2, <3>3 DEF Step
<1>3. ASSUME NEW q \in Requests, Expire(q) PROVE OwnSamples'
  BY <1>0, <1>3 DEF Expire, OwnSamples, TypeOK
<1>4. QED
  BY <1>1, <1>2, <1>3 DEF Next

(* Only Claim makes a rating a claimant, and only Remember, executed or    *)
(* interrupted, stores a record.                                           *)
LEMMA ClaimsStep ==
  ASSUME TypeOK, Once, UNCHANGED about, NEW j \in Jobs, Step(j), ~Claim(j)
  PROVE  /\ \A f \in Ratings : Claimed(f)' => Claimed(f)
         /\ records' \subseteq records
              \/ (j \in Requests /\ at[j] = "remember" /\ records' = records \cup {j})
         /\ \A q \in Requests : at[q] = "done" => at'[q] = "done"
         /\ at[j] = "remember" => at'[j] = "done"
<1> USE DEF Goto
<1>1. CASE Record(j) \/ Remember(j)
  BY <1>1, JobsAssumption DEF Record, Remember, Turn, Claimed, TypeOK, storage, Updating, Jobs
<1>2. CASE Watch(j) \/ Conflict(j) \/ Read(j)
  BY <1>2 DEF Watch, Conflict, Read, Claimed, TypeOK, storage, Updating, Jobs
<1>3. CASE Execute(j) \/ Write(j)
  <2>1. at[j] \in Updating /\ at' = [at EXCEPT ![j] = at'[j]] /\ UNCHANGED records
    BY <1>3 DEF Execute, Write, Proceed, Turn, TypeOK, Updating
  <2>2. \A f \in Ratings \ {j} : folded'[f] = folded[f]
    BY <1>3 DEF Execute, Write, Store, TypeOK, Jobs
  <2>3. QED
    BY <2>1, <2>2 DEF Claimed, TypeOK, Jobs, Updating
<1>4. CASE Raise(j)
  <2>1. at' = [at EXCEPT ![j] = "done"]
    BY <1>4 DEF Raise
  <2>2. \A f \in Ratings : Claimed(f)' => Claimed(f)
    <3>1. CASE UNCHANGED folded
      BY <2>1, <3>1 DEF Claimed, TypeOK, Jobs, Updating
    <3>2. CASE Store(j) /\ at[j] \in Updating
      BY <2>1, <3>2 DEF Claimed, Store, TypeOK, Jobs, Updating
    <3>3. QED
      BY <1>4, <3>1, <3>2 DEF Raise, Updating
  <2>3. QED
    BY <1>4, <2>1, <2>2 DEF Raise, TakeRecord, storage, TypeOK, Jobs
<1>5. QED
  BY <1>1, <1>2, <1>3, <1>4 DEF Step

LEMMA ClaimStep ==
  ASSUME TypeOK, Once, OneClaim, UNCHANGED about, NEW j \in Jobs, Claim(j)
  PROVE  OneClaim'
<1> USE DEF Goto
<1>1. j \in Ratings /\ folded' = folded
  BY DEF Claim
<1>2. at' = [at EXCEPT ![j] = at'[j]]
  BY DEF Claim, Turn, TypeOK
<1>3. \A q \in Requests : at'[q] = at[q]
  BY <1>1, <1>2, JobsAssumption DEF TypeOK, Jobs
<1>4. \A f \in Ratings \ {j} : Claimed(f)' <=> Claimed(f)
  BY <1>1, <1>2 DEF Claimed, TypeOK, Jobs
<1>5. CASE about[j] \in records
  <2>1. records' = records \ {about[j]}
    BY <1>5 DEF Claim, TakeRecord
  <2>2. \A f \in Ratings : about[f] = about[j] => ~Claimed(f)
    BY <1>5 DEF OneClaim
  <2>3. QED
    BY <1>1, <1>3, <1>4, <1>5, <2>1, <2>2 DEF OneClaim, TypeOK
<1>6. CASE about[j] \notin records
  <2>1. records' = records /\ at'[j] = "done"
    BY <1>1, <1>6 DEF Claim, TypeOK
  <2>2. Claimed(j)' => Claimed(j)
    BY <1>1, <2>1 DEF Claimed, Updating
  <2>3. QED
    BY <1>1, <1>3, <1>4, <2>1, <2>2 DEF OneClaim, TypeOK
<1>7. QED
  BY <1>5, <1>6

LEMMA RatingStep == RatingInv /\ StatsInv /\ StatsInv' /\ [Next]_vars => RatingInv'
<1> SUFFICES ASSUME RatingInv, StatsInv, StatsInv', [Next]_vars PROVE RatingInv'
  OBVIOUS
<1>0. TypeInv /\ TypeOK /\ Once /\ OneClaim
  BY DEF RatingInv, TypeInv
<1>1. TypeInv' /\ Once' /\ OwnSamples'
  BY OwnSamplesStep DEF RatingInv, StatsInv
<1>2. CASE UNCHANGED vars
  BY <1>0, <1>1, <1>2 DEF RatingInv, OneClaim, Claimed, vars, storage
<1>3. ASSUME UNCHANGED about, NEW j \in Jobs, Step(j) PROVE OneClaim'
  <2>1. CASE Claim(j)
    BY <1>0, <1>3, <2>1, ClaimStep
  <2>2. CASE ~Claim(j)
    <3>1. /\ \A f \in Ratings : Claimed(f)' => Claimed(f)
          /\ records' \subseteq records
               \/ (j \in Requests /\ at[j] = "remember" /\ records' = records \cup {j})
          /\ \A q \in Requests : at[q] = "done" => at'[q] = "done"
          /\ at[j] = "remember" => at'[j] = "done"
      BY <1>0, <1>3, <2>2, ClaimsStep
    <3>2. CASE records' \subseteq records
      BY <1>0, <1>3, <3>1, <3>2 DEF OneClaim, TypeOK
    <3>3. CASE j \in Requests /\ at[j] = "remember" /\ records' = records \cup {j}
      BY <1>0, <1>3, <3>1, <3>3 DEF OneClaim, TypeOK
    <3>4. QED
      BY <3>1, <3>2, <3>3
  <2>3. QED
    BY <2>1, <2>2
<1>4. ASSUME UNCHANGED about, NEW q \in Requests, Expire(q) PROVE OneClaim'
  BY <1>0, <1>4 DEF Expire, OneClaim, Claimed
<1>5. QED
  BY <1>1, <1>2, <1>3, <1>4 DEF RatingInv, Next

(* "A request_id can only be scored once", with any number of replicas,    *)
(* submissions, failures and crashes.                                      *)
THEOREM RatingsCountOnce == Spec => []RatedOnce
<1>1. RatingInv => RatedOnce
  <2> SUFFICES ASSUME RatingInv, NEW f \in Ratings, NEW g \in Ratings,
                      about[f] = about[g], Counted(f), Counted(g)
               PROVE  f = g
    BY DEF RatedOnce
  <2>1. Claimed(f) /\ Claimed(g)
    BY DEF Counted, RatingInv, OwnSamples, Folded, Claimed
  <2>2. QED
    BY <2>1 DEF RatingInv, OneClaim
<1>2. QED
  BY <1>1, StatsInit, StatsStep, RatingInit, RatingStep, PTL DEF Spec

---------------------------------------------------------------------------
(* A rating is accepted when it has been written to all its records.       *)
AcceptedFolded == \A f \in accepted : KeysOf(f) \subseteq folded[f]

LEMMA AcceptedStep == TypeInv /\ AcceptedFolded /\ [Next]_vars => AcceptedFolded'
<1> SUFFICES ASSUME TypeInv, AcceptedFolded, [Next]_vars PROVE AcceptedFolded'
  OBVIOUS
<1>1. TypeOK
  BY DEF TypeInv
<1>2. UNCHANGED about
  BY DEF Next, vars
<1>3. \A f \in Jobs : KeysOf(f)' = KeysOf(f)
  BY <1>2 DEF KeysOf, Subject
<1>4. \A f \in Jobs : folded[f] \subseteq folded'[f]
  BY <1>1 DEF Next, Step, Record, Claim, Watch, Execute, Conflict, Read, Write, Remember,
         Raise, Expire, Store, TypeOK, vars
<1>5. \A f \in accepted' \ accepted : f \in Ratings /\ KeysOf(f) \subseteq folded'[f]
  BY DEF Next, Step, Record, Claim, Watch, Execute, Conflict, Read, Write, Remember,
         Raise, Expire, Proceed, vars
<1>6. QED
  BY <1>1, <1>3, <1>4, <1>5 DEF AcceptedFolded, TypeOK, Jobs

(* A submitter who was told that a rating was accepted finds it in the     *)
(* band and in the aggregate, for good.                                    *)
THEOREM AcceptedRatingsCount == Spec => []AcceptedCounts
<1>1. Init => AcceptedFolded
  BY DEF Init, AcceptedFolded
<1>2. StatsInv /\ AcceptedFolded => AcceptedCounts
  <2> SUFFICES ASSUME StatsInv, AcceptedFolded, FewJobs,
                      NEW f \in accepted, NEW k \in Keys, k \in KeysOf(f)
               PROVE  f \in stats[k]
    BY DEF AcceptedCounts
  <2>1. f \in Jobs /\ k \in folded[f]
    BY DEF StatsInv, TypeInv, TypeOK, Jobs, AcceptedFolded
  <2>2. QED
    BY <2>1 DEF StatsInv, NoSampleLost, Folded
<1>3. StatsInv => TypeInv
  BY DEF StatsInv
<1>4. QED
  BY <1>1, <1>2, <1>3, AcceptedStep, StatsInit, StatsStep, PTL DEF Spec
=============================================================================
