---------------------------- MODULE SessionProofs ----------------------------
(***************************************************************************)
(* Sandboxes and the cells of a session, for any number of cells, workers  *)
(* and pooled cgroups and any number of failures.                          *)
(*                                                                         *)
(* A cgroup is in one place: unused, held by one job, in the pool, removed *)
(* or lost.  A task that runs is in no cgroup, in its job's, or in a lost  *)
(* one that still has its job's limits.  One Exec runs at a time, so the   *)
(* only other user code that can write to the session's volume is that of  *)
(* a child that outlived its request.                                      *)
(***************************************************************************)
EXTENDS SessionCells, FiniteSetTheorems, TLAPS

Places == {"idle", "prepare", "cloned", "place", "drain", "release", "drop"} \cup Ended
Cgs == [at : {"none", "used", "pooled", "removed", "lost"}, killed : BOOLEAN, limits : Jobs \cup {NoCg}]
Children == [st : {"none", "sync", "setup", "code", "dying", "zombie", "gone"},
             in : Cgroups \cup {NoCg}, sync : {"wait", "go", "eof"}, maps : BOOLEAN]
Results == [by : Execs \cup {None}, status : {"none", "ok", "error", "missing", "pipeline"}]
Started == {j \in Jobs : pc[j] # "idle"}

Values ==
  /\ cgroup_seq \in Nat /\ cg \in [Cgroups -> Cgs]
  /\ pool \in Seq(Cgroups) /\ Len(pool) <= MaxPooled
  /\ pc \in [Jobs -> Places] /\ mine \in [Jobs -> Cgroups \cup {NoCg}]
  /\ child \in [Jobs -> Children]
  /\ outlived \subseteq Jobs /\ faults \in 0..MaxFaults

CellValues ==
  /\ cell \in [Execs -> {"none", "loaded", "saving", "saved", "reported"}]
  /\ ns \in [Execs -> SUBSET Execs]
  /\ stateFile \in [ok : BOOLEAN, cells : SUBSET Execs]
  /\ result = NoResult \/ \E j \in Execs, s \in {"ok", "error"} : result = [by |-> j, status |-> s]
  /\ answer \in [Execs -> Results]
  /\ spoilt \in BOOLEAN

(* A job creates at most one cgroup. *)
Counted == cgroup_seq <= Cardinality(Started)

(* Where the cgroups are. *)
Held ==
  /\ \A j \in Jobs : mine[j] = NoCg <=> pc[j] \in {"idle"} \cup Ended
  /\ \A j \in Jobs : mine[j] # NoCg =>
       /\ cg[mine[j]].at = "used" /\ cg[mine[j]].limits = j
       /\ pc[j] \in {"prepare", "cloned", "place", "drain"} => ~cg[mine[j]].killed
       /\ pc[j] = "release" => cg[mine[j]].killed \/ child[j].st = "gone"
       /\ pc[j] = "drop" => cg[mine[j]].killed
  /\ \A i, j \in Jobs : mine[i] = mine[j] /\ mine[i] # NoCg => i = j

Pooled ==
  /\ \A i \in 1..Len(pool) : cg[pool[i]].at = "pooled" /\ ~cg[pool[i]].killed
  /\ \A i, k \in 1..Len(pool) : pool[i] = pool[k] => i = k
  /\ \A c \in Cgroups : c >= cgroup_seq => cg[c] = Unused("none")

(* Where the tasks are. *)
Running(j) == Alive(j) \/ child[j].st = "dying"
Inside ==
  \A j \in Jobs :
    /\ ~Running(j) => child[j].in = NoCg
    /\ child[j].in # NoCg => child[j].in = mine[j] \/ cg[child[j].in].at = "lost"
    /\ Alive(j) /\ child[j].in # NoCg => cg[child[j].in].limits = j /\ ~cg[child[j].in].killed

(* A child is not left in the cgroup of an earlier job. *)
Placed == \A j \in Jobs : mine[j] # NoCg => child[j].in \in {mine[j], NoCg}

(* How far the child is, as its job's thread sees it. *)
Stages ==
  /\ \A j \in Jobs : pc[j] \in {"idle", "prepare"} => child[j] = NoChild
  /\ \A j \in Execs :
       /\ pc[j] = "cloned" => child[j].st = "sync" /\ child[j].sync = "wait"
       /\ child[j].st \in {"setup", "code"} => child[j].sync = "go"
       /\ Alive(j) /\ pc[j] \in Ended => j \in outlived \/ child[j].sync = "eof"
       /\ child[j].st = "none" => pc[j] \in {"idle", "prepare", "failed"}
  /\ \A j \in Workers : pc[j] \in {"idle", "drain", "drop", "done"}

OneExec == \A i, j \in Execs : pc[i] \notin {"idle"} \cup Ended /\ pc[j] \notin {"idle"} \cup Ended => i = j

Left == \A j \in outlived : pc[j] \in Ended /\ (child[j].in = NoCg \/ pc[j] = "failed")

(* Cells *)
Unanswered(j) == pc[j] # "idle" /\ answer[j] = NoResult
OneCell ==
  /\ \A i, j \in Execs : Unanswered(i) /\ Unanswered(j) => i = j
  /\ \A j \in Execs : pc[j] \notin Ended => answer[j] = NoResult
Reported == \A j \in Execs : Unanswered(j) /\ result # NoResult => result.by = j \/ result.by \in outlived

Ok(j) == [by |-> j, status |-> "ok"]
Committed == {j \in Execs : answer[j] = Ok(j) \/ result = Ok(j) \/ cell[j] = "saved"}
BeingSaved == UNION {Saved(i) : i \in {j \in Execs : cell[j] = "saving"}}
(* What is committed is in the file, or in the namespace that will replace it. *)
Kept ==
  /\ ~stateFile.ok => stateFile.cells = {}
  /\ \A j \in Execs : cell[j] # "none" => child[j].st \in {"code", "dying"}
  /\ ~spoilt /\ outlived = {} =>
       /\ Committed \subseteq stateFile.cells \cup BeingSaved
       /\ \A j \in Execs : child[j].st = "code" /\ cell[j] = "saving" => stateFile.cells = {}
       /\ \A j \in Execs : child[j].st = "code" /\ cell[j] = "loaded" => Committed \subseteq ns[j] \cup BeingSaved

SandboxInv == Values /\ Counted /\ Held /\ Pooled /\ Inside /\ Placed /\ Stages /\ OneExec /\ Left
CellInv == CellValues /\ OneCell /\ Reported /\ Kept /\ CellResultIsOwn


-----------------------------------------------------------------------------
(* The pool's last cgroup and the rest of the pool.                        *)
LEMMA PoolEnds ==
  ASSUME pool \in Seq(Cgroups), pool # <<>>
  PROVE  /\ Len(pool) \in Nat \ {0} /\ Last(pool) = pool[Len(pool)] /\ Last(pool) \in Cgroups
         /\ Front(pool) \in Seq(Cgroups) /\ Len(Front(pool)) = Len(pool) - 1
         /\ \A i \in 1..Len(Front(pool)) : Front(pool)[i] = pool[i]
BY DEF Front, Last

(* A cgroup goes back to the pool.                                         *)
LEMMA PoolGrows ==
  ASSUME pool \in Seq(Cgroups), NEW c \in Cgroups
  PROVE  /\ Append(pool, c) \in Seq(Cgroups) /\ Len(Append(pool, c)) = Len(pool) + 1
         /\ Append(pool, c)[Len(pool) + 1] = c
         /\ \A i \in 1..Len(pool) : Append(pool, c)[i] = pool[i]
OBVIOUS

(* A job that has not started finds a number for a new cgroup.             *)
LEMMA RoomForOne ==
  ASSUME Values, Counted, NEW j \in Jobs, pc[j] = "idle"
  PROVE  cgroup_seq \in Cgroups
<1>1. IsFiniteSet(Jobs) /\ Started \subseteq Jobs \ {j}
  BY BoundsAssumption DEF Started
<1>2. IsFiniteSet(Jobs \ {j}) /\ Cardinality(Jobs \ {j}) = Cardinality(Jobs) - 1
  BY <1>1, FS_RemoveElement
<1>3. Cardinality(Started) <= Cardinality(Jobs \ {j})
  BY <1>1, <1>2, FS_Subset
<1>4. Cardinality(Jobs) \in Nat /\ Cardinality(Jobs \ {j}) \in Nat /\ Cardinality(Started) \in Nat
  BY <1>1, <1>2, FS_CardinalityType, FS_Subset
<1> QED
  BY <1>2, <1>3, <1>4 DEF Values, Counted, Cgroups

(* Job j gets cgroup c, out of the pool or a new one.                      *)
Takes(j, c) ==
  /\ pc[j] = "idle" /\ mine' = [mine EXCEPT ![j] = c] /\ outlived' = outlived
  /\ cg[c].at \in {"none", "pooled"} /\ ~cg[c].killed /\ cg'[c].at = "used" /\ ~cg'[c].killed /\ cg'[c].limits = j
  /\ cg' \in [Cgroups -> Cgs]
  /\ \A d \in Cgroups \ {c} : cg'[d] = cg[d] \/ (cg[d].at = "pooled" /\ cg'[d] = Unused("removed"))
  /\ pool' \in Seq(Cgroups) /\ Len(pool') <= Len(pool)
  /\ \A i \in 1..Len(pool') : pool'[i] = pool[i] /\ cg'[pool'[i]] = cg[pool[i]]
  /\ cgroup_seq' \in Nat /\ cgroup_seq' <= cgroup_seq + 1
  /\ \A d \in Cgroups : d >= cgroup_seq' => cg'[d] = Unused("none")

(* configure writes the job's limits and nothing else.                     *)
LEMMA ConfiguredForm ==
  ASSUME Values, Pooled, NEW j \in Jobs, NEW c \in Cgroups, ~cg[c].killed
  PROVE  /\ Configured(c, j) \in Cgs /\ Configured(c, j).at = "used" /\ ~Configured(c, j).killed
         /\ Configured(c, j).limits = j
BY DEF Values, Cgs, Configured

(* What take_cgroup leaves behind when the pool's last cgroup is taken.    *)
LEMMA TakesLast ==
  ASSUME Values, Pooled, NEW j \in Jobs, pc[j] = "idle", pool # <<>>, pool' = Front(pool),
         cg' = [cg EXCEPT ![Last(pool)] = Configured(Last(pool), j)],
         mine' = [mine EXCEPT ![j] = Last(pool)], UNCHANGED <<cgroup_seq, outlived>>
  PROVE  \E c \in Cgroups : Takes(j, c)
<1> USE DEF Values
<1>1. PICK c \in Cgroups : c = Last(pool)
  BY PoolEnds
<1>2. /\ Len(pool) \in Nat \ {0} /\ c = pool[Len(pool)] /\ pool' \in Seq(Cgroups) /\ Len(pool') = Len(pool) - 1
      /\ \A i \in 1..Len(pool') : pool'[i] = pool[i]
  BY <1>1, PoolEnds
<1>3. cg[c].at = "pooled" /\ ~cg[c].killed /\ \A i \in 1..Len(pool') : pool[i] # c /\ pool[i] \in Cgroups
  BY <1>2 DEF Pooled
<1>4. PICK x : x = Configured(c, j)
  OBVIOUS
<1>5. x.at = "used" /\ ~x.killed /\ x.limits = j /\ x \in Cgs
  BY <1>3, <1>4, ConfiguredForm
<1>6. cg' = [cg EXCEPT ![c] = x] /\ cg' \in [Cgroups -> Cgs]
  BY <1>1, <1>4, <1>5
<1>7. \A d \in Cgroups \ {c} : cg'[d] = cg[d]
  BY <1>6
<1>8. cg'[c] = x
  BY <1>5, <1>6
<1>9. \A d \in Cgroups : d >= cgroup_seq => d # c
  BY <1>3 DEF Pooled, Unused
<1>10. \A i \in 1..Len(pool') : pool'[i] = pool[i] /\ cg'[pool'[i]] = cg[pool[i]]
  BY <1>2, <1>3, <1>7
<1>11. \A d \in Cgroups : d >= cgroup_seq => cg'[d] = Unused("none")
  BY <1>7, <1>9 DEF Pooled
<1>12. mine' = [mine EXCEPT ![j] = c] /\ Len(pool') <= Len(pool) /\ cgroup_seq <= cgroup_seq + 1
  BY <1>1, <1>2
<1>13. Takes(j, c)
  BY <1>2, <1>3, <1>5, <1>6, <1>7, <1>8, <1>10, <1>11, <1>12 DEF Takes
<1> QED
  BY <1>13

(* A new cgroup, next to a pooled one that was removed or an empty pool.   *)
LEMMA TakesNew ==
  ASSUME Values, Pooled, NEW j \in Jobs, pc[j] = "idle", cgroup_seq \in Cgroups,
         pool' = (IF pool # <<>> THEN Front(pool) ELSE pool),
         cg' = [(IF pool # <<>> THEN [cg EXCEPT ![Last(pool)] = Unused("removed")] ELSE cg)
                  EXCEPT ![cgroup_seq] = Configured(cgroup_seq, j)],
         mine' = [mine EXCEPT ![j] = cgroup_seq], cgroup_seq' = cgroup_seq + 1, UNCHANGED outlived
  PROVE  \E c \in Cgroups : Takes(j, c)
<1> USE DEF Values
<1>1. PICK c \in Cgroups : c = cgroup_seq
  OBVIOUS
<1>2. cg[c] = Unused("none") /\ \A d \in Cgroups : d >= cgroup_seq + 1 => d # c /\ cg[d] = Unused("none")
  <2>1. \A d \in Cgroups : d \in Nat
    BY DEF Cgroups
  <2> QED
    BY <1>1, <2>1 DEF Pooled
<1>3. PICK x : x = Configured(c, j)
  OBVIOUS
<1>4. x.at = "used" /\ ~x.killed /\ x.limits = j /\ x \in Cgs
  BY <1>2, <1>3, ConfiguredForm DEF Unused
<1>5. cg[c].at = "none" /\ ~cg[c].killed
  BY <1>2 DEF Unused
<1>6. Unused("removed") \in Cgs
  BY DEF Unused, Cgs
<1>7. CASE pool # <<>>
  <2>1. PICK l \in Cgroups : l = Last(pool)
    BY <1>7, PoolEnds
  <2>2. /\ Len(pool) \in Nat \ {0} /\ l = pool[Len(pool)] /\ pool' \in Seq(Cgroups) /\ Len(pool') = Len(pool) - 1
        /\ \A i \in 1..Len(pool') : pool'[i] = pool[i]
    BY <1>7, <2>1, PoolEnds
  <2>3. /\ cg[l].at = "pooled"
        /\ \A i \in 1..Len(pool') : pool[i] # l /\ pool[i] \in Cgroups /\ cg[pool[i]].at = "pooled"
    BY <2>2 DEF Pooled
  <2>4. cg' = [[cg EXCEPT ![l] = Unused("removed")] EXCEPT ![c] = x] /\ l # c
    BY <1>1, <1>3, <1>5, <1>7, <2>1, <2>3
  <2>5. cg' \in [Cgroups -> Cgs] /\ cg'[c] = x /\ cg'[l] = Unused("removed")
    BY <1>4, <1>6, <2>4
  <2>6. \A d \in Cgroups \ {c, l} : cg'[d] = cg[d]
    BY <2>4
  <2>7. \A i \in 1..Len(pool') : pool'[i] = pool[i] /\ cg'[pool'[i]] = cg[pool[i]]
    <3>1. \A i \in 1..Len(pool') : pool[i] \in Cgroups \ {c, l}
      BY <1>5, <2>3
    <3> QED
      BY <2>2, <2>6, <3>1, ZenonT(30)
  <2>8. \A d \in Cgroups : d >= cgroup_seq' => cg'[d] = Unused("none")
    <3>1. \A d \in Cgroups : d >= cgroup_seq' => d # l
      BY <1>2, <2>3 DEF Unused
    <3> QED
      BY <1>2, <2>6, <3>1
  <2>9. mine' = [mine EXCEPT ![j] = c] /\ Len(pool') <= Len(pool) /\ cgroup_seq' \in Nat /\ cgroup_seq' <= cgroup_seq + 1
    BY <1>1, <2>2
  <2>10. \A d \in Cgroups \ {c} : cg'[d] = cg[d] \/ (cg[d].at = "pooled" /\ cg'[d] = Unused("removed"))
    BY <2>3, <2>5, <2>6
  <2>11. Takes(j, c)
    BY <1>4, <1>5, <2>2, <2>5, <2>7, <2>8, <2>9, <2>10 DEF Takes
  <2> QED
    BY <2>11
<1>8. CASE pool = <<>>
  <2>1. cg' = [cg EXCEPT ![c] = x] /\ pool' = pool
    BY <1>1, <1>3, <1>8
  <2>2. cg' \in [Cgroups -> Cgs] /\ cg'[c] = x /\ \A d \in Cgroups \ {c} : cg'[d] = cg[d]
    BY <1>4, <2>1
  <2>3. Len(pool') = 0 /\ pool' \in Seq(Cgroups) /\ Len(pool') <= Len(pool)
    BY <1>8, <2>1
  <2>4. \A d \in Cgroups : d >= cgroup_seq' => cg'[d] = Unused("none")
    BY <1>2, <2>2
  <2>5. mine' = [mine EXCEPT ![j] = c] /\ cgroup_seq' \in Nat /\ cgroup_seq' <= cgroup_seq + 1
    BY <1>1
  <2>6. \A i \in 1..Len(pool') : pool'[i] = pool[i] /\ cg'[pool'[i]] = cg[pool[i]]
    BY <2>3
  <2>7. Takes(j, c)
    BY <1>4, <1>5, <2>2, <2>3, <2>4, <2>5, <2>6 DEF Takes
  <2> QED
    BY <2>7
<1> QED
  BY <1>7, <1>8

(* run_cell and the boot of a worker take a cgroup.                        *)
LEMMA LaunchTakes ==
  ASSUME Values, Pooled, Counted, NEW j \in Jobs, TakePooled(j) \/ CreateCgroup(j) \/ BootWorker(j)
  PROVE  \E c \in Cgroups : Takes(j, c)
<1>1. CASE TakePooled(j)
  BY <1>1, TakesLast DEF TakePooled
<1>2. CASE CreateCgroup(j)
  BY <1>2, TakesNew DEF CreateCgroup
<1>3. CASE BootWorker(j) /\ pool # <<>>
  BY <1>3, TakesLast DEF BootWorker
<1>4. CASE BootWorker(j) /\ pool = <<>>
  <2>1. /\ pc[j] = "idle" /\ pool' = pool /\ cgroup_seq' = cgroup_seq + 1 /\ UNCHANGED outlived
        /\ cg' = [cg EXCEPT ![cgroup_seq] = Configured(cgroup_seq, j)]
        /\ mine' = [mine EXCEPT ![j] = cgroup_seq]
    BY <1>4 DEF BootWorker
  <2> QED
    BY <1>4, <2>1, RoomForOne, TakesNew
<1> QED
  BY <1>1, <1>2, <1>3, <1>4

-----------------------------------------------------------------------------
(* The sandbox, step by step.                                              *)
(* The step of one job leaves the others alone.                            *)
Alone(j) ==
  /\ pc' \in [Jobs -> Places] /\ mine' \in [Jobs -> Cgroups \cup {NoCg}] /\ child' \in [Jobs -> Children]
  /\ \A i \in Jobs \ {j} : pc'[i] = pc[i] /\ mine'[i] = mine[i] /\ child'[i] = child[i]

(* A job's cgroup holds no task of another job.                            *)
LEMMA OnlyOwn ==
  ASSUME Values, Held, Inside, NEW i \in Jobs, NEW j \in Jobs, mine[j] # NoCg, child[i].in = mine[j]
  PROVE  i = j
BY DEF Held, Inside

(* A step that starts no job creates no cgroup.                            *)
LEMMA CountedKeeps ==
  ASSUME Counted, cgroup_seq' = cgroup_seq, \A i \in Jobs : pc'[i] = "idle" <=> pc[i] = "idle"
  PROVE  Counted'
<1>1. Started' = Started
  BY DEF Started
<1> QED
  BY <1>1 DEF Counted

(* The child goes on by itself, or its thread does something to it that    *)
(* touches no cgroup.                                                      *)
LEMMA ChildStep ==
  ASSUME SandboxInv, NEW j \in Jobs, Alone(j), UNCHANGED <<cgroup_seq, cg, pool, mine>>,
         outlived' = outlived, faults' \in 0..MaxFaults,
         pc[j] \notin {"idle", "prepare"}, pc'[j] \notin {"idle", "prepare"},
         pc[j] \in Ended <=> pc'[j] \in Ended,
         pc'[j] # pc[j] => /\ j \in Execs /\ pc[j] \in {"cloned", "place", "drain"}
                           /\ pc'[j] \in {"place", "drain", "release"},
         pc'[j] = "release" => child'[j].st = "gone" \/ (pc[j] = "release" /\ child[j].st # "gone"),
         pc'[j] # "cloned",
         ~Running(j)' => child'[j].in = NoCg,
         child'[j].in \in {child[j].in, NoCg} \/ (child'[j].in = mine[j] /\ pc[j] = "place"),
         Alive(j)' => Alive(j),
         child'[j].st \in {"setup", "code"} /\ j \in Execs => child'[j].sync = "go",
         Alive(j)' => child'[j].sync = child[j].sync \/ pc[j] = "cloned",
         child'[j].st # "none"
  PROVE  SandboxInv'
<1> USE DEF SandboxInv
<1>1. Values'
  BY DEF Values, Alone
<1>2. Counted'
  BY CountedKeeps DEF Alone
<1>3. Held'
  <2>1. \A i \in Jobs : mine'[i] = mine[i]
    OBVIOUS
  <2>2. \A i \in Jobs \ {j} : pc'[i] = pc[i] /\ child'[i] = child[i]
    BY DEF Alone
  <2>3. \A i \in Jobs : pc'[i] \in {"idle"} \cup Ended <=> pc[i] \in {"idle"} \cup Ended
    BY <2>2
  <2>4. mine[j] # NoCg => /\ pc'[j] \in {"prepare", "cloned", "place", "drain"} => ~cg[mine[j]].killed
                          /\ pc'[j] = "release" => cg[mine[j]].killed \/ child'[j].st = "gone"
                          /\ pc'[j] = "drop" => cg[mine[j]].killed
    BY DEF Held
  <2> QED
    BY <2>1, <2>2, <2>3, <2>4 DEF Held
<1>4. Pooled'
  BY DEF Pooled
<1>5. Inside'
  BY DEF Inside, Alone, Values, Held, Running, Alive, Ended
<1>6. Stages'
  BY KindsAssumption DEF Stages, Alone, Values, Ended, Running, Alive, Jobs
<1>7. OneExec'
  BY DEF OneExec, Alone, Values, Ended, Jobs
<1>8. Left'
  BY DEF Left, Alone, Values, Ended
<1>9. Placed'
  BY DEF Placed, Alone
<1> QED
  BY <1>1, <1>2, <1>3, <1>4, <1>5, <1>6, <1>7, <1>8, <1>9

(* Steps of the child and of the thread around it.                         *)
LEMMA StepOfChild ==
  ASSUME SandboxInv, NEW j \in Jobs,
         \/ j \in Execs /\ (ReleaseChild(j) \/ AddPid(j) \/ ChildWakes(j) \/ ChildSetup(j) \/ DrainExit(j))
         \/ CodeEnds(j) \/ KillLands(j)
  PROVE  SandboxInv'
<1>1. Values /\ Held /\ Inside /\ Stages /\ Left
  BY DEF SandboxInv
<1>2. Dead("zombie") \in Children /\ Dead("gone") \in Children
  BY DEF Dead, NoChild, Children
<1>3. /\ Dead("zombie").in = NoCg /\ Dead("zombie").st = "zombie"
      /\ Dead("gone").in = NoCg /\ Dead("gone").st = "gone"
  BY DEF Dead, NoChild
<1>4. ASSUME j \in Execs, ReleaseChild(j) PROVE SandboxInv'
  <2> USE DEF ReleaseChild
  <2>1. /\ child' \in [Jobs -> Children] /\ \A i \in Jobs \ {j} : child'[i] = child[i]
        /\ child'[j].st = child[j].st /\ child'[j].in = child[j].in /\ child'[j].sync = "go"
    <3>1. CASE child' = [child EXCEPT ![j].sync = "go", ![j].maps = TRUE]
      BY <1>1, <3>1, SMTT(30) DEF Values, Children
    <3>2. CASE child' = [child EXCEPT ![j].sync = "go"]
      BY <1>1, <3>2 DEF Values, Children
    <3> QED
      BY <1>4, <3>1, <3>2
  <2>2. Alone(j) /\ faults' \in 0..MaxFaults
    <3>1. faults' \in 0..MaxFaults
      BY <1>1, <1>4, BoundsAssumption DEF Values, Fault, NoFault
    <3>2. pc' \in [Jobs -> Places] /\ (\A i \in Jobs \ {j} : pc'[i] = pc[i]) /\ mine' = mine
      BY <1>1, <1>4 DEF Values, Places
    <3> QED
      BY <1>1, <2>1, <3>1, <3>2 DEF Alone, Values
  <2>3. child[j].st = "sync" /\ pc[j] = "cloned"
    BY <1>1, <1>4 DEF Stages
  <2>4. child'[j].st = "sync" /\ child'[j].in = child[j].in /\ child'[j].sync = "go"
    BY <2>1, <2>3
  <2>5. pc'[j] \in {"place", "drain"}
    BY <1>1, <1>4 DEF Values
  <2>6. j \notin outlived
    BY <1>1, <2>3 DEF Left, Ended
  <2>7. Alive(j) /\ Running(j)'
    BY <2>3, <2>4 DEF Running, Alive
  <2>8. UNCHANGED <<cgroup_seq, cg, pool, mine, outlived>>
    BY <1>4
  <2> HIDE DEF ReleaseChild
  <2> QED
    BY <1>4, <2>2, <2>3, <2>4, <2>5, <2>6, <2>7, <2>8, ChildStep DEF Ended
<1>5. ASSUME j \in Execs, AddPid(j) PROVE SandboxInv'
  <2> USE DEF AddPid
  <2>1. PICK c \in {child[j].in, mine[j]} : child' = [child EXCEPT ![j].in = c] /\ (~Alive(j) => c = child[j].in)
    BY <1>1, <1>5 DEF Values, Children
  <2>2. Alone(j) /\ faults' \in 0..MaxFaults
    <3>1. faults' \in 0..MaxFaults
      BY <1>1, <1>5, BoundsAssumption DEF Values, Fault, NoFault
    <3>2. pc' \in [Jobs -> Places] /\ (\A i \in Jobs \ {j} : pc'[i] = pc[i]) /\ mine' = mine
      BY <1>1, <1>5 DEF Values, Places
    <3>3. child' \in [Jobs -> Children] /\ \A i \in Jobs \ {j} : child'[i] = child[i]
      BY <1>1, <2>1, ZenonT(30) DEF Values, Children
    <3> QED
      BY <1>1, <3>1, <3>2, <3>3 DEF Alone, Values
  <2>3. child'[j].st = child[j].st /\ child'[j].in = c /\ child'[j].sync = child[j].sync
    BY <1>1, <2>1 DEF Values, Children
  <2>4. pc'[j] = "drain" /\ pc[j] = "place"
    BY <1>1, <1>5 DEF Values
  <2>5. j \notin outlived /\ child[j].st # "none"
    BY <1>1, <1>5, <2>4 DEF Left, Ended, Stages
  <2>6. ~Running(j)' => child'[j].in = NoCg
    BY <1>1, <2>1, <2>3 DEF Inside, Running, Alive
  <2>7. child'[j].st \in {"setup", "code"} => child'[j].sync = "go"
    BY <1>1, <1>5, <2>3 DEF Stages
  <2>8. Alive(j)' => Alive(j)
    BY <2>3 DEF Alive
  <2> QED
    BY <1>5, <2>1, <2>2, <2>3, <2>4, <2>5, <2>6, <2>7, <2>8, ChildStep DEF Ended
<1>6. ASSUME NEW x \in Children, child' = [child EXCEPT ![j] = x], faults' \in 0..MaxFaults,
             UNCHANGED <<cgroup_seq, cg, pool, mine, outlived>>,
             \/ pc' = pc
             \/ j \in Execs /\ pc[j] = "drain" /\ pc' = [pc EXCEPT ![j] = "release"] /\ x.st = "gone",
             child[j].st \notin {"none", "gone"}, pc[j] = "cloned" => j \notin Execs,
             \/ x = Dead("zombie") \/ x = Dead("gone")
             \/ /\ child[j].st = "sync" /\ child[j].sync = "go"
                /\ x.st = "setup" /\ x.in = child[j].in /\ x.sync = child[j].sync
             \/ /\ child[j].st = "setup"
                /\ x.st = "code" /\ x.in = child[j].in /\ x.sync = child[j].sync
      PROVE  SandboxInv'
  <2>1. Alone(j)
    BY <1>1, <1>6 DEF Values, Alone, Places
  <2>2. child'[j] = x
    BY <1>1, <1>6 DEF Values
  <2>3. pc[j] \notin {"idle", "prepare"} /\ pc[j] # "cloned"
    BY <1>1, <1>6, KindsAssumption DEF Stages, NoChild, Jobs
  <2>4. pc'[j] = pc[j] \/ (j \in Execs /\ pc[j] = "drain" /\ pc'[j] = "release" /\ x.st = "gone")
    <3>1. CASE pc' = pc
      BY <3>1
    <3>2. CASE j \in Execs /\ pc[j] = "drain" /\ pc' = [pc EXCEPT ![j] = "release"] /\ x.st = "gone"
      BY <1>1, <3>2 DEF Values
    <3> QED
      BY <1>6, <3>1, <3>2
  <2>5. x.st # "none" /\ (x.in = child[j].in \/ x.in = NoCg) /\ (~(x.st \in {"setup", "code"}) => x.in = NoCg)
    BY <1>3, <1>6
  <2>6. x.st \in {"sync", "setup", "code"} => /\ child[j].st \in {"sync", "setup", "code"}
                                              /\ x.sync = child[j].sync /\ (j \in Execs => x.sync = "go")
    BY <1>1, <1>3, <1>6 DEF Stages
  <2>7. Alive(j)' => Alive(j) /\ x.sync = child[j].sync /\ (j \in Execs => x.sync = "go")
    BY <2>2, <2>6 DEF Alive
  <2>8. ~Running(j)' => child'[j].in = NoCg
    BY <2>2, <2>5 DEF Running, Alive
  <2> QED
    BY <1>6, <2>1, <2>2, <2>3, <2>4, <2>5, <2>6, <2>7, <2>8, ChildStep DEF Ended
<1>7. ASSUME ChildWakes(j), j \in Execs PROVE SandboxInv'
  <2>1. PICK x : x = (IF child[j].sync = "go" THEN [child[j] EXCEPT !.st = "setup"] ELSE Dead("zombie"))
    OBVIOUS
  <2>2. CASE child[j].sync = "go"
    <3>1. x \in Children /\ x.st = "setup" /\ x.in = child[j].in /\ x.sync = child[j].sync
      BY <1>1, <2>1, <2>2 DEF Values, Children
    <3> QED
      BY <1>1, <1>6, <1>7, <2>1, <3>1, <2>2 DEF ChildWakes, NoFault, Values, Stages
  <2>3. CASE child[j].sync # "go"
    BY <1>1, <1>2, <1>6, <1>7, <2>1, <2>3 DEF ChildWakes, NoFault, Values, Stages
  <2> QED
    BY <2>2, <2>3
<1>8. ASSUME ChildSetup(j), j \in Execs PROVE SandboxInv'
  <2>1. child[j].st = "setup" /\ pc[j] # "cloned" /\ pc' = pc /\ UNCHANGED <<cgroup_seq, cg, pool, mine, outlived>>
    BY <1>1, <1>8 DEF ChildSetup, Stages
  <2>2. faults' \in 0..MaxFaults
    BY <1>1, <1>8, BoundsAssumption DEF ChildSetup, Fault, NoFault, Values
  <2>3. PICK x : x = [child[j] EXCEPT !.st = "code"]
    OBVIOUS
  <2>4. x \in Children /\ x.st = "code" /\ x.in = child[j].in /\ x.sync = child[j].sync
    BY <1>1, <2>3 DEF Values, Children
  <2>5. child' = [child EXCEPT ![j] = x] \/ child' = [child EXCEPT ![j] = Dead("zombie")]
    BY <1>8, <2>3 DEF ChildSetup
  <2> QED
    BY <1>2, <1>6, <2>1, <2>2, <2>4, <2>5
<1>9. ASSUME DrainExit(j), j \in Execs PROVE SandboxInv'
  BY <1>1, <1>2, <1>3, <1>6, <1>9 DEF DrainExit, NoFault, Values
<1>10. ASSUME CodeEnds(j) \/ KillLands(j) PROVE SandboxInv'
  BY <1>1, <1>2, <1>6, <1>10 DEF CodeEnds, KillLands, NoFault, Values, Stages
<1> QED
  BY <1>4, <1>5, <1>7, <1>8, <1>9, <1>10

(* run_cell and the boot of a worker: what was in the pool, or is new, goes *)
(* to the job that starts.                                                 *)
LEMMA StepOfTake ==
  ASSUME SandboxInv, NEW j \in Jobs, NEW c \in Cgroups, Takes(j, c), NEW p, NEW x \in Children,
         pc' = [pc EXCEPT ![j] = p], child' = [child EXCEPT ![j] = x], faults' \in 0..MaxFaults,
         \/ p = "prepare" /\ j \in Execs /\ x = NoChild /\ MayStart(j)
         \/ p = "drain" /\ j \in Workers /\ x.st = "code" /\ x.in \in {c, NoCg}
  PROVE  SandboxInv'
<1> USE DEF SandboxInv
<1>1. Values' /\ Alone(j) /\ pc[j] = "idle" /\ outlived' = outlived
  <2>1. p \in Places
    BY DEF Places
  <2>2. /\ pc[j] = "idle" /\ outlived' = outlived /\ mine' = [mine EXCEPT ![j] = c]
        /\ cg' \in [Cgroups -> Cgs] /\ pool' \in Seq(Cgroups) /\ Len(pool') <= Len(pool)
        /\ cgroup_seq' \in Nat
    BY DEF Takes
  <2>3. /\ pc' \in [Jobs -> Places] /\ mine' \in [Jobs -> Cgroups \cup {NoCg}]
        /\ child' \in [Jobs -> Children]
    BY <2>1, <2>2 DEF Values
  <2>4. Alone(j)
    BY <2>2, <2>3 DEF Values, Alone
  <2>5. Len(pool') <= MaxPooled
    BY <2>2, PooledAssumption DEF Values
  <2>6. Values'
    BY <2>2, <2>3, <2>5 DEF Values
  <2> QED
    BY <2>2, <2>4, <2>6
<1>2. pc'[j] = p /\ mine'[j] = c /\ child'[j] = x /\ \A i \in Jobs \ {j} : pc'[i] = pc[i] /\ mine'[i] = mine[i] /\ child'[i] = child[i]
  BY DEF Values, Takes
<1>3. \A d \in Cgroups : cg[d].at \in {"used", "lost"} => d # c /\ cg'[d] = cg[d]
  BY DEF Takes
<1>4. cg'[c].at = "used" /\ ~cg'[c].killed /\ cg'[c].limits = j
  BY DEF Takes
<1>5. Counted'
  <2>1. Started' = Started \cup {j} /\ j \notin Started
    BY <1>1, <1>2 DEF Started
  <2>2. IsFiniteSet(Started)
    BY BoundsAssumption, FS_Subset DEF Started
  <2>3. Cardinality(Started') = Cardinality(Started) + 1
    BY <2>1, <2>2, FS_AddElement
  <2>4. Cardinality(Started) \in Nat
    BY <2>2, FS_CardinalityType
  <2> QED
    BY <2>3, <2>4 DEF Counted, Takes, Values
<1>6. \A i \in Jobs \ {j} : mine[i] # NoCg => mine[i] \in Cgroups /\ mine[i] # c /\ cg'[mine[i]] = cg[mine[i]]
  BY <1>3 DEF Held, Values
<1>7. Held'
  <2>1. c # NoCg /\ p \notin {"idle", "release", "drop"} \cup Ended
    BY PooledAssumption DEF Ended
  <2> QED
    BY <1>2, <1>4, <1>6, <2>1 DEF Held
<1>8. Pooled'
  <2>1. \A i \in 1..Len(pool') : i \in 1..Len(pool)
    BY DEF Takes, Values
  <2> QED
    BY <2>1 DEF Pooled, Takes
<1>9. Inside'
  <2>1. \A i \in Jobs \ {j} : child[i].in # NoCg => child[i].in \in Cgroups /\ cg'[child[i].in] = cg[child[i].in]
    BY <1>3, <1>6 DEF Inside, Values, Children
  <2>2. ASSUME NEW i \in Jobs \ {j}
        PROVE  /\ ~Running(i)' => child'[i].in = NoCg
               /\ child'[i].in # NoCg => child'[i].in = mine'[i] \/ cg'[child'[i].in].at = "lost"
               /\ Alive(i)' /\ child'[i].in # NoCg => cg'[child'[i].in].limits = i /\ ~cg'[child'[i].in].killed
    BY <1>2, <2>1, <2>2 DEF Inside, Running, Alive
  <2>3. /\ ~Running(j)' => child'[j].in = NoCg
        /\ child'[j].in # NoCg => child'[j].in = mine'[j]
        /\ Alive(j)' /\ child'[j].in # NoCg => cg'[child'[j].in].limits = j /\ ~cg'[child'[j].in].killed
    BY <1>2, <1>4 DEF Running, Alive, NoChild
  <2> QED
    BY <2>2, <2>3 DEF Inside
<1>10. Stages'
  <2>1. ASSUME NEW i \in Jobs \ {j}
        PROVE  /\ pc'[i] \in {"idle", "prepare"} => child'[i] = NoChild
               /\ i \in Execs =>
                    /\ pc'[i] = "cloned" => child'[i].st = "sync" /\ child'[i].sync = "wait"
                    /\ child'[i].st \in {"setup", "code"} => child'[i].sync = "go"
                    /\ Alive(i)' /\ pc'[i] \in Ended => i \in outlived' \/ child'[i].sync = "eof"
                    /\ child'[i].st = "none" => pc'[i] \in {"idle", "prepare", "failed"}
               /\ i \in Workers => pc'[i] \in {"idle", "drain", "drop", "done"}
    BY <1>1, <1>2, <2>1 DEF Stages, Alive
  <2>2. /\ pc'[j] \in {"idle", "prepare"} => child'[j] = NoChild
        /\ j \in Execs => p = "prepare" /\ child'[j].st = "none"
        /\ j \in Workers => p = "drain"
    <3>1. CASE p = "prepare" /\ j \in Execs /\ x = NoChild
      BY <1>2, <3>1, KindsAssumption DEF NoChild
    <3>2. CASE p = "drain" /\ j \in Workers
      BY <1>2, <3>2, KindsAssumption
    <3> QED
      BY <3>1, <3>2
  <2>3. Execs \subseteq Jobs /\ Workers \subseteq Jobs
    BY DEF Jobs
  <2> QED
    BY <1>2, <2>1, <2>2, <2>3 DEF Stages, Alive, Ended
<1>11. OneExec'
  BY <1>2, KindsAssumption DEF OneExec, MayStart, Jobs, Ended
<1>12. Left'
  BY <1>1, <1>2 DEF Left, Ended, Values
<1>13. Placed'
  BY <1>2 DEF Placed, NoChild
<1> QED
  BY <1>1, <1>5, <1>7, <1>8, <1>9, <1>10, <1>11, <1>12, <1>13

(* The two ways a cell's launch begins, and the launch of a worker.        *)
LEMMA StepOfLaunch ==
  ASSUME SandboxInv, NEW j \in Jobs,
         \/ j \in Execs /\ (TakePooled(j) \/ CreateCgroup(j))
         \/ BootWorker(j)
  PROVE  SandboxInv'
<1> USE DEF SandboxInv
<1>1. PICK c \in Cgroups : Takes(j, c)
  BY LaunchTakes
<1>2. CASE j \in Execs /\ (TakePooled(j) \/ CreateCgroup(j))
  <2>1. pc' = [pc EXCEPT ![j] = "prepare"] /\ child' = child /\ MayStart(j) /\ pc[j] = "idle"
    BY <1>2 DEF TakePooled, CreateCgroup
  <2>2. faults' \in 0..MaxFaults
    BY <1>2, BoundsAssumption DEF TakePooled, CreateCgroup, Fault, NoFault, Values
  <2>3. child[j] = NoChild /\ NoChild \in Children
    BY <2>1 DEF Stages, NoChild, Children
  <2>4. child' = [child EXCEPT ![j] = NoChild]
    BY <2>1, <2>3 DEF Values
  <2> QED
    BY <1>1, <1>2, <2>1, <2>2, <2>3, <2>4, StepOfTake
<1>3. CASE BootWorker(j)
  <2>1. PICK k : k = (IF pool # <<>> THEN Last(pool) ELSE cgroup_seq)
    OBVIOUS
  <2>a. \E in \in {k} \cup (IF NestedHost THEN {NoCg} ELSE {}) :
          child' = [child EXCEPT ![j] = [Born(j, in) EXCEPT !.st = IF @ = "dying" THEN @ ELSE "code"]]
    BY <1>3, <2>1, Zenon DEF BootWorker
  <2>2. PICK in \in {k, NoCg} :
          child' = [child EXCEPT ![j] = [Born(j, in) EXCEPT !.st = IF @ = "dying" THEN @ ELSE "code"]]
    BY <2>a, Zenon
  <2>3. /\ pc' = [pc EXCEPT ![j] = "drain"] /\ faults' = faults /\ j \in Workers
        /\ mine' = [mine EXCEPT ![j] = k]
    BY <1>3, <2>1 DEF BootWorker, NoFault
  <2>4. k = c /\ ~cg[c].killed
    BY <1>1, <2>3 DEF Takes, Values
  <2>5. Born(j, in) = [NoChild EXCEPT !.st = "sync", !.in = in]
    BY <2>2, <2>4 DEF Born
  <2>6. PICK x : x = [Born(j, in) EXCEPT !.st = IF @ = "dying" THEN @ ELSE "code"]
    OBVIOUS
  <2>7. x = [st |-> "code", in |-> in, sync |-> "wait", maps |-> FALSE]
    BY <2>5, <2>6 DEF NoChild
  <2>8. x \in Children /\ x.st = "code" /\ x.in \in {c, NoCg}
    BY <2>2, <2>4, <2>7 DEF Children
  <2>9. child' = [child EXCEPT ![j] = x] /\ faults' \in 0..MaxFaults
    BY <2>2, <2>3, <2>6 DEF Values
  <2> QED
    BY <1>1, <2>3, <2>8, <2>9, StepOfTake
<1> QED
  BY <1>2, <1>3

(* clone3: the cgroup was never killed, so the child is born alive.        *)
LEMMA StepOfClone ==
  ASSUME SandboxInv, NEW j \in Execs, CloneChild(j)
  PROVE  SandboxInv'
<1> USE DEF SandboxInv
<1>1. j \in Jobs /\ pc[j] = "prepare" /\ mine[j] # NoCg /\ mine[j] \in Cgroups
  BY DEF Jobs, CloneChild, Held, Ended, Values
<1>2. ~cg[mine[j]].killed /\ cg[mine[j]].limits = j
  BY <1>1 DEF Held
<1>3. PICK in \in {mine[j], NoCg} : child' = [child EXCEPT ![j] = Born(j, in)]
  BY DEF CloneChild
<1>4. Born(j, in) = [NoChild EXCEPT !.st = "sync", !.in = in]
  BY <1>2, <1>3 DEF Born
<1>5. PICK x : x = Born(j, in)
  OBVIOUS
<1>6. x = [st |-> "sync", in |-> in, sync |-> "wait", maps |-> FALSE]
  BY <1>4, <1>5 DEF NoChild
<1>7. x \in Children /\ x.st = "sync" /\ x.in = in /\ x.sync = "wait"
  BY <1>1, <1>3, <1>6 DEF Children
<1>8. child'[j] = x /\ pc'[j] = "cloned" /\ UNCHANGED <<cgroup_seq, cg, pool, mine, outlived, faults>>
  BY <1>1, <1>3, <1>5 DEF CloneChild, NoFault, Values
<1>9. /\ child' \in [Jobs -> Children] /\ pc' \in [Jobs -> Places]
      /\ \A i \in Jobs \ {j} : child'[i] = child[i] /\ pc'[i] = pc[i]
  BY <1>1, <1>3, <1>5, <1>7 DEF CloneChild, Values, Places
<1>10. Values'
  BY <1>8, <1>9 DEF Values
<1>11. Counted'
  BY <1>1, <1>8, <1>9, CountedKeeps
<1>12. Held'
  BY <1>1, <1>2, <1>8, <1>9 DEF Held, Ended
<1>13. Pooled'
  BY <1>8 DEF Pooled
<1>14. Inside'
  BY <1>1, <1>2, <1>3, <1>7, <1>8, <1>9 DEF Inside, Running, Alive
<1>15. Stages'
  BY <1>1, <1>7, <1>8, <1>9, KindsAssumption DEF Stages, Alive, Ended, Jobs
<1>16. OneExec'
  BY <1>1, <1>8, <1>9 DEF OneExec, Ended, Jobs
<1>17. Left'
  BY <1>1, <1>8, <1>9 DEF Left, Ended, Values
<1>18. Placed'
  BY <1>1, <1>3, <1>7, <1>8, <1>9 DEF Placed
<1> QED
  BY <1>10, <1>11, <1>12, <1>13, <1>14, <1>15, <1>16, <1>17, <1>18

(* An early return of launch loses the cgroup, which keeps the limits of   *)
(* the task that may be left in it.                                        *)
LEMMA StepOfError ==
  ASSUME SandboxInv, NEW j \in Execs, PrepareFails(j) \/ RestoreNetnsFails(j) \/ DrainFails(j)
  PROVE  SandboxInv'
<1> USE DEF SandboxInv
<1>1. /\ j \in Jobs /\ pc[j] \in {"prepare", "cloned", "drain"} /\ LaunchError(j)
      /\ UNCHANGED <<cgroup_seq, pool>> /\ faults' \in 0..MaxFaults
  BY BoundsAssumption DEF Jobs, PrepareFails, RestoreNetnsFails, DrainFails, Fault, Values
<1>2. PICK c \in Cgroups : c = mine[j] /\ c # NoCg
  BY <1>1 DEF Held, Ended, Values
<1>3. /\ cg' \in [Cgroups -> Cgs] /\ cg'[c].at = "lost" /\ cg'[c].killed = cg[c].killed
      /\ cg'[c].limits = cg[c].limits /\ \A d \in Cgroups \ {c} : cg'[d] = cg[d]
  BY <1>1, <1>2 DEF LaunchError, Values, Cgs
<1>4. /\ pc' \in [Jobs -> Places] /\ mine' \in [Jobs -> Cgroups \cup {NoCg}]
      /\ pc'[j] = "failed" /\ mine'[j] = NoCg
      /\ \A i \in Jobs \ {j} : pc'[i] = pc[i] /\ mine'[i] = mine[i]
  BY <1>1 DEF LaunchError, Values, Places, Ended
<1>5. /\ child' \in [Jobs -> Children] /\ \A i \in Jobs \ {j} : child'[i] = child[i]
      /\ child'[j].st = child[j].st /\ child'[j].in = child[j].in
      /\ child'[j].sync = IF pc[j] = "cloned" THEN "eof" ELSE child[j].sync
      /\ outlived \subseteq outlived' /\ outlived' \subseteq outlived \cup {j}
      /\ pc[j] = "drain" /\ Alive(j) => j \in outlived'
  <2>1. CASE PrepareFails(j)
    BY <1>1, <2>1 DEF PrepareFails, Values
  <2>2. CASE RestoreNetnsFails(j)
    BY <1>1, <2>2, SMTT(30) DEF RestoreNetnsFails, Values, Children
  <2>3. CASE DrainFails(j)
    BY <1>1, <2>3 DEF DrainFails, Values
  <2> QED
    BY <2>1, <2>2, <2>3
<1>6. cg[c].at = "used" /\ cg[c].limits = j /\ ~cg[c].killed
  BY <1>1, <1>2 DEF Held
<1>7. \A i \in Jobs \ {j} : mine[i] # c
  BY <1>1, <1>2 DEF Held
<1>8. Values'
  BY <1>1, <1>3, <1>4, <1>5 DEF Values
<1>9. Counted'
  BY <1>1, <1>4, CountedKeeps
<1>10. Held'
  <2>1. \A i \in Jobs \ {j} : mine[i] # NoCg => mine[i] \in Cgroups \ {c}
    BY <1>7 DEF Values
  <2> QED
    BY <1>3, <1>4, <1>5, <2>1 DEF Held, Ended
<1>11. Pooled'
  <2>1. \A i \in 1..Len(pool) : pool[i] \in Cgroups \ {c}
    BY <1>6 DEF Pooled, Values
  <2>2. \A d \in Cgroups : d >= cgroup_seq => d # c
    BY <1>6 DEF Pooled, Unused
  <2> QED
    BY <1>1, <1>3, <2>1, <2>2 DEF Pooled
<1>12. Inside'
  <2>1. ASSUME NEW i \in Jobs
        PROVE  /\ ~Running(i)' => child'[i].in = NoCg
               /\ child'[i].in # NoCg => child'[i].in = mine'[i] \/ cg'[child'[i].in].at = "lost"
               /\ Alive(i)' /\ child'[i].in # NoCg => cg'[child'[i].in].limits = i /\ ~cg'[child'[i].in].killed
    <3>1. child'[i].st = child[i].st /\ child'[i].in = child[i].in
      BY <1>5, <2>1
    <3>2. (Alive(i)' <=> Alive(i)) /\ (Running(i)' <=> Running(i))
      BY <3>1 DEF Alive, Running
    <3>3. child[i].in # NoCg => child[i].in \in Cgroups
      BY DEF Values, Children
    <3>4. CASE child[i].in = c
      BY <1>1, <1>2, <1>3, <1>6, <2>1, <3>1, <3>2, <3>4, OnlyOwn DEF Inside
    <3>5. CASE child[i].in # c
      <4>1. child[i].in # NoCg => cg'[child[i].in] = cg[child[i].in]
        BY <1>3, <3>3, <3>5
      <4>2. child[i].in = mine[i] => child[i].in = mine'[i] \/ child[i].in = NoCg
        BY <1>2, <1>4, <2>1, <3>5
      <4> QED
        BY <2>1, <3>1, <3>2, <4>1, <4>2 DEF Inside
    <3> QED
      BY <3>4, <3>5
  <2> QED
    BY <2>1 DEF Inside
<1>13. Stages'
  <2>1. ASSUME NEW i \in Jobs \ {j}
        PROVE  /\ pc'[i] \in {"idle", "prepare"} => child'[i] = NoChild
               /\ i \in Execs =>
                    /\ pc'[i] = "cloned" => child'[i].st = "sync" /\ child'[i].sync = "wait"
                    /\ child'[i].st \in {"setup", "code"} => child'[i].sync = "go"
                    /\ Alive(i)' /\ pc'[i] \in Ended => i \in outlived' \/ child'[i].sync = "eof"
                    /\ child'[i].st = "none" => pc'[i] \in {"idle", "prepare", "failed"}
               /\ i \in Workers => pc'[i] \in {"idle", "drain", "drop", "done"}
    BY <1>4, <1>5, <2>1 DEF Stages, Alive
  <2>2. pc[j] = "prepare" => child[j].st = "none"
    BY <1>1 DEF Stages, NoChild
  <2>3. pc[j] = "cloned" => child[j].st = "sync"
    BY <1>1 DEF Stages
  <2>4. child'[j].st \in {"setup", "code"} => child'[j].sync = "go"
    BY <1>1, <1>5, <2>3 DEF Stages
  <2>5. Alive(j)' => j \in outlived' \/ child'[j].sync = "eof"
    BY <1>1, <1>5, <2>2 DEF Alive
  <2>6. Execs \subseteq Jobs /\ Workers \subseteq Jobs /\ j \notin Workers
    BY KindsAssumption DEF Jobs
  <2> QED
    BY <1>4, <2>1, <2>4, <2>5, <2>6 DEF Stages
<1>14. OneExec'
  BY <1>1, <1>4 DEF OneExec, Ended, Jobs
<1>15. Left'
  BY <1>1, <1>4, <1>5 DEF Left, Ended, Values
<1>16. Placed'
  BY <1>4, <1>5 DEF Placed
<1> QED
  BY <1>8, <1>9, <1>10, <1>11, <1>12, <1>13, <1>14, <1>15, <1>16

(* cgroup.kill reaches the job's own child if it is inside, and no other.  *)
LEMMA KillReaches ==
  ASSUME Values, Held, Inside, NEW j \in Jobs, mine[j] # NoCg
  PROVE  /\ KillAll(mine[j]) \in [Jobs -> Children]
         /\ \A i \in Jobs \ {j} : KillAll(mine[j])[i] = child[i]
         /\ KillAll(mine[j])[j].in = child[j].in /\ KillAll(mine[j])[j].sync = child[j].sync
         /\ KillAll(mine[j])[j].st = IF child[j].in = mine[j] /\ Alive(j) THEN "dying" ELSE child[j].st
<1>1. \A i \in Jobs : child[i] \in Children /\ [child[i] EXCEPT !.st = "dying"] \in Children
  BY DEF Values, Children
<1>2. KillAll(mine[j]) \in [Jobs -> Children]
  BY <1>1 DEF KillAll
<1>3. \A i \in Jobs \ {j} : KillAll(mine[j])[i] = child[i]
  BY OnlyOwn DEF KillAll
<1>4. CASE child[j].in = mine[j] /\ Alive(j)
  <2>1. KillAll(mine[j])[j] = [child[j] EXCEPT !.st = "dying"]
    BY <1>4 DEF KillAll
  <2> QED
    BY <1>1, <1>2, <1>3, <1>4, <2>1 DEF Children
<1>5. CASE ~(child[j].in = mine[j] /\ Alive(j))
  <2>1. KillAll(mine[j])[j] = child[j]
    BY <1>5 DEF KillAll
  <2> QED
    BY <1>2, <1>3, <1>5, <2>1
<1> QED
  BY <1>4, <1>5

(* The drain ends by the output cap or the timer, or a worker is dropped.  *)
LEMMA StepOfKill ==
  ASSUME SandboxInv, NEW j \in Jobs,
         \/ j \in Execs /\ (DrainCap(j) \/ DrainTimeout(j))
         \/ DropWorker(j)
  PROVE  SandboxInv'
<1> USE DEF SandboxInv
<1>1. /\ pc[j] = "drain" /\ cg' = Killed(j) /\ UNCHANGED <<cgroup_seq, pool, mine, outlived, faults>>
      /\ \/ j \in Execs /\ pc' = [pc EXCEPT ![j] = "release"]
         \/ j \in Workers /\ pc' = [pc EXCEPT ![j] = "drop"]
  BY DEF DrainCap, DrainTimeout, DropWorker, NoFault
<1>2. PICK c \in Cgroups : c = mine[j] /\ c # NoCg
  BY <1>1 DEF Held, Ended, Values
<1>3. /\ cg' \in [Cgroups -> Cgs] /\ cg'[c].at = "used" /\ cg'[c].killed /\ cg'[c].limits = j
      /\ \A d \in Cgroups \ {c} : cg'[d] = cg[d]
  <2>1. PICK x : x = [cg[c] EXCEPT !.killed = TRUE]
    OBVIOUS
  <2>2. cg[c] \in Cgs /\ cg[c].at = "used" /\ cg[c].limits = j
    BY <1>1, <1>2 DEF Held, Values
  <2>3. x \in Cgs /\ x.at = "used" /\ x.killed /\ x.limits = j
    BY <2>1, <2>2 DEF Cgs
  <2>4. cg' = [cg EXCEPT ![c] = x]
    BY <1>1, <1>2, <2>1 DEF Killed
  <2> QED
    BY <2>3, <2>4 DEF Values
<1>4. /\ pc' \in [Jobs -> Places] /\ pc'[j] \in {"release", "drop"} /\ (pc'[j] = "release" <=> j \in Execs)
      /\ \A i \in Jobs \ {j} : pc'[i] = pc[i]
  BY <1>1, KindsAssumption DEF Values, Places
<1>5. /\ child' \in [Jobs -> Children] /\ \A i \in Jobs \ {j} : child'[i] = child[i]
      /\ child'[j].in \in {child[j].in, NoCg} /\ child'[j].st \in {child[j].st, "dying", "gone"}
      /\ child'[j].in = c => ~Alive(j)'
      /\ child'[j].st = "dying" /\ child[j].st # "dying" => Alive(j)
      /\ child'[j].st = "gone" => child'[j].in = NoCg
      /\ child'[j].st # "gone" => child'[j].sync = child[j].sync
  <2> DEFINE K == KillAll(mine[j])
  <2>1. /\ K \in [Jobs -> Children] /\ \A i \in Jobs \ {j} : K[i] = child[i]
        /\ K[j].in = child[j].in /\ K[j].sync = child[j].sync
        /\ K[j].st = IF child[j].in = c /\ Alive(j) THEN "dying" ELSE child[j].st
    BY <1>2, KillReaches
  <2> HIDE DEF K
  <2>2. CASE child' = K
    <3>1. child'[j] = K[j]
      BY <2>2
    <3>2. child'[j].in = c => ~Alive(j)'
      BY <2>1, <3>1 DEF Alive
    <3>3. child[j].st = "gone" => child[j].in = NoCg
      BY DEF Inside, Running, Alive
    <3> QED
      BY <2>1, <2>2, <3>1, <3>2, <3>3
  <2>3. CASE child' = [K EXCEPT ![j] = Dead("gone")]
    <3>1. child'[j] = Dead("gone") /\ Dead("gone") \in Children /\ Dead("gone").st = "gone" /\ Dead("gone").in = NoCg
      BY <2>1, <2>3 DEF Dead, NoChild, Children
    <3>2. ~Alive(j)'
      BY <3>1 DEF Alive
    <3> QED
      BY <2>1, <2>3, <3>1, <3>2
  <2>4. CASE DrainTimeout(j)
    <3>1. child' = [K EXCEPT ![j] = IF K[j].st = "zombie" THEN Dead("gone") ELSE K[j]]
      BY <2>1, <2>4 DEF DrainTimeout, K
    <3> QED
      BY <2>1, <2>2, <2>3, <3>1
  <2> QED
    BY <2>2, <2>4 DEF DrainCap, DropWorker, K
<1>6. \A i \in Jobs \ {j} : (mine[i] # NoCg => mine[i] \in Cgroups \ {c}) /\ child[i].in # c
  BY <1>1, <1>2, OnlyOwn DEF Held, Values
<1>7. Values'
  BY <1>1, <1>3, <1>4, <1>5 DEF Values
<1>8. Counted'
  BY <1>1, <1>4, CountedKeeps
<1>9. Held'
  BY <1>1, <1>2, <1>3, <1>4, <1>5, <1>6 DEF Held, Ended
<1>10. Pooled'
  <2>1. \A i \in 1..Len(pool) : pool[i] \in Cgroups \ {c}
    BY <1>1, <1>2 DEF Pooled, Values, Held
  <2>2. \A d \in Cgroups : d >= cgroup_seq => d # c
    BY <1>1, <1>2 DEF Pooled, Unused, Held
  <2> QED
    BY <1>1, <1>3, <2>1, <2>2 DEF Pooled
<1>11. Inside'
  <2>1. \A i \in Jobs \ {j} : child[i].in # NoCg => cg'[child[i].in] = cg[child[i].in]
    BY <1>3, <1>6 DEF Values, Children
  <2>2. ASSUME NEW i \in Jobs \ {j}
        PROVE  /\ ~Running(i)' => child'[i].in = NoCg
               /\ child'[i].in # NoCg => child'[i].in = mine'[i] \/ cg'[child'[i].in].at = "lost"
               /\ Alive(i)' /\ child'[i].in # NoCg => cg'[child'[i].in].limits = i /\ ~cg'[child'[i].in].killed
    BY <1>1, <1>5, <2>1, <2>2 DEF Inside, Running, Alive
  <2>3. /\ ~Running(j)' => child'[j].in = NoCg
        /\ child'[j].in # NoCg => child'[j].in = mine'[j] \/ cg'[child'[j].in].at = "lost"
        /\ Alive(j)' /\ child'[j].in # NoCg => cg'[child'[j].in].limits = j /\ ~cg'[child'[j].in].killed
    <3>1. child[j].in # NoCg => child[j].in = c \/ (child[j].in \in Cgroups \ {c} /\ cg[child[j].in].at = "lost")
      BY <1>2 DEF Inside, Values, Children
    <3>2. ~Running(j)' => child'[j].in = NoCg
      BY <1>5 DEF Inside, Running, Alive
    <3>3. Alive(j)' => Alive(j)
      BY <1>5 DEF Alive
    <3> QED
      BY <1>1, <1>2, <1>3, <1>5, <3>1, <3>2, <3>3 DEF Inside
  <2> QED
    BY <2>2, <2>3 DEF Inside
<1>12. Stages'
  BY <1>1, <1>4, <1>5, KindsAssumption DEF Stages, Alive, Ended, Jobs
<1>13. OneExec'
  BY <1>1, <1>4, KindsAssumption DEF OneExec, Ended, Jobs
<1>14. Left'
  BY <1>1, <1>4, <1>5 DEF Left, Ended, Values
<1>15. Placed'
  BY <1>1, <1>5 DEF Placed
<1> QED
  BY <1>7, <1>8, <1>9, <1>10, <1>11, <1>12, <1>13, <1>14, <1>15

(* release_cgroup and the end of Worker::drop: the cgroup is handed back   *)
(* empty and unkilled, or is nobody's any more.                            *)
LEMMA StepOfRelease ==
  ASSUME SandboxInv, NEW j \in Jobs, NEW c \in Cgroups, c = mine[j], NEW w \in Cgs, NEW x \in Children,
         pc' = [pc EXCEPT ![j] = "done"], mine' = [mine EXCEPT ![j] = NoCg],
         cg' = [cg EXCEPT ![c] = w], child' = [child EXCEPT ![j] = x],
         cgroup_seq' = cgroup_seq, faults' = faults,
         \/ w.at \in {"removed", "lost"} /\ pool' = pool
         \/ w.at = "pooled" /\ ~w.killed /\ pool' = Append(pool, c) /\ Len(pool) < MaxPooled,
         \/ j \in Execs /\ pc[j] = "release" /\ x = child[j]
         \/ j \in Workers /\ pc[j] = "drop" /\ x = Dead("gone"),
         x.in # NoCg => x.in = c /\ w.at = "lost" /\ ~Alive(j)',
         outlived' = IF j \in Execs /\ Alive(j) THEN outlived \cup {j} ELSE outlived
  PROVE  SandboxInv'
<1> USE DEF SandboxInv
<1>1. /\ pc[j] \notin {"idle"} \cup Ended /\ c # NoCg /\ cg[c].at = "used"
      /\ \A i \in Jobs \ {j} : (mine[i] # NoCg => mine[i] \in Cgroups \ {c}) /\ child[i].in # c
  BY PooledAssumption, OnlyOwn DEF Ended, Held, Values
<1>2. pc'[j] = "done" /\ mine'[j] = NoCg /\ child'[j] = x /\ cg'[c] = w /\ \A d \in Cgroups \ {c} : cg'[d] = cg[d]
  BY DEF Values
<1>3. \A i \in Jobs \ {j} : pc'[i] = pc[i] /\ mine'[i] = mine[i] /\ child'[i] = child[i]
  BY DEF Values
<1>4. Values'
  <2>1. pool' \in Seq(Cgroups) /\ Len(pool') <= MaxPooled
    <3>1. CASE pool' = pool
      BY <3>1 DEF Values
    <3>2. CASE pool' = Append(pool, c) /\ Len(pool) < MaxPooled
      BY <3>2, PoolGrows, PooledAssumption DEF Values
    <3> QED
      BY <3>1, <3>2
  <2>2. pc' \in [Jobs -> Places] /\ mine' \in [Jobs -> Cgroups \cup {NoCg}] /\ child' \in [Jobs -> Children]
    BY DEF Values, Places, Ended
  <2>3. cg' \in [Cgroups -> Cgs] /\ outlived' \subseteq Jobs
    BY DEF Values
  <2> QED
    BY <2>1, <2>2, <2>3 DEF Values
<1>5. Counted'
  BY <1>1, <1>2, <1>3, CountedKeeps
<1>6. Held'
  BY <1>1, <1>2, <1>3 DEF Held, Ended
<1>7. Pooled'
  <2>1. \A i \in 1..Len(pool) : pool[i] \in Cgroups \ {c}
    BY <1>1 DEF Pooled, Values
  <2>2. \A d \in Cgroups : d >= cgroup_seq => d # c
    BY <1>1 DEF Pooled, Unused
  <2>3. CASE pool' = pool
    BY <1>2, <2>1, <2>2, <2>3 DEF Pooled
  <2>4. CASE w.at = "pooled" /\ ~w.killed /\ pool' = Append(pool, c)
    <3>1. /\ Len(pool') = Len(pool) + 1 /\ Len(pool) \in Nat /\ pool'[Len(pool) + 1] = c
          /\ \A i \in 1..Len(pool) : pool'[i] = pool[i]
      BY <2>4, PoolGrows DEF Values
    <3>2. \A i \in 1..Len(pool') : i \in 1..Len(pool) \/ i = Len(pool) + 1
      BY <3>1
    <3>3. \A i \in 1..Len(pool') : cg'[pool'[i]].at = "pooled" /\ ~cg'[pool'[i]].killed
      BY <1>2, <2>1, <2>4, <3>1, <3>2 DEF Pooled
    <3>4. \A i, k \in 1..Len(pool') : pool'[i] = pool'[k] => i = k
      BY <2>1, <3>1, <3>2 DEF Pooled
    <3> QED
      BY <1>2, <2>2, <3>3, <3>4 DEF Pooled
  <2> QED
    BY <2>3, <2>4
<1>8. Inside'
  <2>1. \A i \in Jobs \ {j} : child[i].in # NoCg => cg'[child[i].in] = cg[child[i].in]
    BY <1>1, <1>2 DEF Values, Children
  <2>2. ASSUME NEW i \in Jobs \ {j}
        PROVE  /\ ~Running(i)' => child'[i].in = NoCg
               /\ child'[i].in # NoCg => child'[i].in = mine'[i] \/ cg'[child'[i].in].at = "lost"
               /\ Alive(i)' /\ child'[i].in # NoCg => cg'[child'[i].in].limits = i /\ ~cg'[child'[i].in].killed
    BY <1>3, <2>1, <2>2 DEF Inside, Running, Alive
  <2>3. ~Running(j)' => x.in = NoCg
    <3>1. CASE x = child[j]
      BY <1>2, <3>1 DEF Inside, Running, Alive
    <3>2. CASE x = Dead("gone")
      BY <3>2 DEF Dead, NoChild
    <3> QED
      BY <3>1, <3>2
  <2> QED
    BY <1>2, <2>2, <2>3 DEF Inside
<1>9. Stages'
  <2>1. ASSUME NEW i \in Jobs \ {j}
        PROVE  /\ pc'[i] \in {"idle", "prepare"} => child'[i] = NoChild
               /\ i \in Execs =>
                    /\ pc'[i] = "cloned" => child'[i].st = "sync" /\ child'[i].sync = "wait"
                    /\ child'[i].st \in {"setup", "code"} => child'[i].sync = "go"
                    /\ Alive(i)' /\ pc'[i] \in Ended => i \in outlived' \/ child'[i].sync = "eof"
                    /\ child'[i].st = "none" => pc'[i] \in {"idle", "prepare", "failed"}
               /\ i \in Workers => pc'[i] \in {"idle", "drain", "drop", "done"}
    BY <1>3, <2>1 DEF Stages, Alive
  <2>2. j \in Execs => pc[j] = "release" /\ x = child[j]
    BY KindsAssumption DEF Stages
  <2>3. j \in Execs => /\ child'[j].st \in {"setup", "code"} => child'[j].sync = "go"
                       /\ child'[j].st # "none"
                       /\ Alive(j)' => j \in outlived'
    BY <1>2, <2>2 DEF Stages, Alive
  <2> QED
    BY <1>2, <2>1, <2>3 DEF Stages, Ended, Jobs
<1>10. OneExec'
  BY <1>2, <1>3 DEF OneExec, Ended, Jobs
<1>11. Left'
  <2>1. j \in outlived' => x.in = NoCg
    <3>1. j \notin outlived
      BY <1>1 DEF Left
    <3>2. j \in Execs => x = child[j]
      BY KindsAssumption
    <3> QED
      BY <1>2, <3>1, <3>2 DEF Alive
  <2> QED
    BY <1>2, <1>3, <2>1 DEF Left, Ended, Values
<1>12. Placed'
  BY <1>2, <1>3 DEF Placed
<1> QED
  BY <1>4, <1>5, <1>6, <1>7, <1>8, <1>9, <1>10, <1>11, <1>12

(* What release_cgroup finds: a task that was not killed is gone already,  *)
(* so there is no straggler for it to kill.                                *)
LEMMA ReleaseSpares ==
  ASSUME SandboxInv, NEW j \in Execs, ReleaseCgroup(j)
  PROVE  child' = child /\ (~cg[mine[j]].killed => ~Populated(mine[j]))
<1>1. Values /\ Held /\ Inside /\ j \in Jobs
  BY DEF SandboxInv, Jobs
<1>2. mine[j] # NoCg
  BY <1>1 DEF ReleaseCgroup, Held, Ended
<1>3. ~cg[mine[j]].killed => ~Populated(mine[j])
  <2>1. ~cg[mine[j]].killed => child[j].st = "gone"
    BY <1>1, <1>2 DEF ReleaseCgroup, Held
  <2>2. ~cg[mine[j]].killed => child[j].in = NoCg
    BY <1>1, <2>1 DEF Inside, Running, Alive
  <2> QED
    BY <1>1, <1>2, <2>2, OnlyOwn DEF Populated
<1> QED
  BY <1>1, <1>3 DEF ReleaseCgroup, Values

(* A cell's release and the end of a worker.                               *)
LEMMA StepOfEnd ==
  ASSUME SandboxInv, NEW j \in Jobs, (j \in Execs /\ ReleaseCgroup(j)) \/ (j \in Workers /\ ReapWorker(j))
  PROVE  SandboxInv'
<1>1. Values /\ Held /\ Inside /\ Stages /\ Left /\ Placed
  BY DEF SandboxInv
<1>2. PICK c \in Cgroups : c = mine[j] /\ c # NoCg
  BY <1>1 DEF ReleaseCgroup, ReapWorker, Held, Ended, Values
<1>3. \A a \in {"removed", "lost"} : Unused(a) \in Cgs /\ Unused(a).at = a
  BY DEF Unused, Cgs
<1>4. ASSUME j \in Execs, ReleaseCgroup(j) PROVE SandboxInv'
  <2>1. ~cg[c].killed => ~Populated(c)
    BY <1>2, <1>4, ReleaseSpares
  <2>2. child' = child
    BY <1>4, ReleaseSpares
  <2>3. child' = [child EXCEPT ![j] = child[j]]
    BY <1>1, <2>2 DEF Values
  <2>4. /\ pc[j] = "release" /\ pc' = [pc EXCEPT ![j] = "done"] /\ mine' = [mine EXCEPT ![j] = NoCg]
        /\ cgroup_seq' = cgroup_seq /\ faults' = faults
        /\ outlived' = IF Alive(j) THEN outlived \cup {j} ELSE outlived
    BY <1>4 DEF ReleaseCgroup, NoFault
  <2>5. child[j].in # NoCg => child[j].in = c /\ cg[c].killed /\ ~Alive(j) /\ Populated(c)
    <3>1. child[j].in # NoCg => child[j].in = c /\ Running(j)
      BY <1>1, <1>2 DEF Placed, Inside
    <3>2. child[j].in # NoCg => Populated(c)
      BY <3>1 DEF Populated, Running
    <3> QED
      BY <1>1, <2>1, <3>1, <3>2 DEF Inside
  <2>6. Alive(j)' <=> Alive(j)
    BY <2>2 DEF Alive
  <2>7. CASE Recyclable(c)
    <3>1. ~cg[c].killed /\ Len(pool) < MaxPooled /\ pool' = Append(pool, c)
      BY <1>2, <1>4, <2>7 DEF ReleaseCgroup, Recyclable
    <3>3. PICK w : w = [cg[c] EXCEPT !.at = "pooled", !.killed = @ \/ (~cg[c].killed /\ Populated(c))]
      OBVIOUS
    <3>4. (cg[c].killed \/ (~cg[c].killed /\ Populated(c))) = FALSE
      BY <2>1, <3>1
    <3>5. w \in Cgs /\ w.at = "pooled" /\ ~w.killed
      BY <1>1, <3>3, <3>4 DEF Values, Cgs
    <3>6. cg' = [cg EXCEPT ![c] = w]
      BY <1>2, <1>4, <2>7, <3>3 DEF ReleaseCgroup
    <3> QED
      BY <1>1, <1>2, <1>4, <2>3, <2>4, <2>5, <2>6, <3>1, <3>5, <3>6, StepOfRelease DEF Values
  <2>8. CASE ~Recyclable(c)
    <3>1. PICK a \in {"removed", "lost"} : cg' = [cg EXCEPT ![c] = Unused(a)] /\ (cg[c].killed /\ Populated(c) => a = "lost")
      BY <1>2, <1>4, <2>8 DEF ReleaseCgroup
    <3>2. pool' = pool
      BY <1>2, <1>4, <2>8 DEF ReleaseCgroup
    <3> QED
      BY <1>1, <1>2, <1>3, <1>4, <2>3, <2>4, <2>5, <2>6, <3>1, <3>2, StepOfRelease DEF Values
  <2> QED
    BY <2>7, <2>8
<1>5. ASSUME j \in Workers, ReapWorker(j) PROVE SandboxInv'
  <2>1. Dead("gone") \in Children /\ Dead("gone").in = NoCg
    BY DEF Dead, NoChild, Children
  <2>2. j \notin Execs
    BY <1>5, KindsAssumption
  <2> QED
    BY <1>2, <1>3, <1>5, <2>1, <2>2, StepOfRelease DEF ReapWorker, NoFault
<1> QED
  BY <1>4, <1>5

-----------------------------------------------------------------------------
(* The cells.  To them a step of the sandbox that starts no cell and ends  *)
(* no child is quiet: it may only start user code or condemn it.           *)
Quiet ==
  /\ outlived \subseteq outlived'
  /\ \A i \in Execs :
       /\ pc'[i] = "idle" <=> pc[i] = "idle"
       /\ pc[i] \in Ended => pc'[i] \in Ended
       /\ child[i].st \in {"code", "dying"} => child'[i].st \in {"code", "dying"}
       /\ child'[i].st = "code" => child[i].st \in {"setup", "code"}

(* What a cell's launch, drain and release do to the others and to itself. *)
LEMMA QuietExecs ==
  ASSUME SandboxInv, NEW j \in Execs, Engine(j) \/ ChildWakes(j) \/ ChildSetup(j)
  PROVE  Quiet
<1>1. Values /\ Held /\ Inside /\ Stages /\ Left /\ j \in Jobs /\ Execs \subseteq Jobs
  BY DEF SandboxInv, Jobs
<1> SUFFICES /\ outlived \subseteq outlived'
             /\ (pc[j] # "idle" /\ pc'[j] # "idle" /\ pc[j] \notin Ended) \/ pc'[j] = pc[j]
             /\ \A i \in Execs \ {j} : pc'[i] = pc[i] /\ child'[i] = child[i]
             /\ child[j].st \in {"code", "dying"} => child'[j].st \in {"code", "dying"}
             /\ child'[j].st = "code" => child[j].st \in {"setup", "code"}
  BY DEF Quiet
<1>2. CASE PrepareFails(j) \/ RestoreNetnsFails(j) \/ DrainFails(j)
  BY <1>1, <1>2 DEF PrepareFails, RestoreNetnsFails, DrainFails, LaunchError, Values, Children, Ended
<1>3. CASE CloneChild(j)
  <2>1. child[j].st = "none" /\ \A c : Born(j, c).st \in {"sync", "dying"}
    BY <1>1, <1>3 DEF CloneChild, Stages, NoChild, Born
  <2> QED
    BY <1>1, <1>3, <2>1 DEF CloneChild, Values, Ended
<1>4. CASE ReleaseChild(j)
  BY <1>1, <1>4 DEF ReleaseChild, Values, Children, Ended
<1>5. CASE AddPid(j)
  BY <1>1, <1>5 DEF AddPid, Values, Children, Ended
<1>6. CASE ChildWakes(j)
  BY <1>1, <1>6 DEF ChildWakes, Values, Dead, NoChild
<1>7. CASE ChildSetup(j)
  BY <1>1, <1>7 DEF ChildSetup, Values, Children, Dead, NoChild
<1>8. CASE DrainExit(j)
  BY <1>1, <1>8 DEF DrainExit, Values, Dead, NoChild, Ended
<1>9. CASE DrainCap(j) \/ DrainTimeout(j)
  <2>1. mine[j] # NoCg
    BY <1>1, <1>9 DEF Held, DrainCap, DrainTimeout, Ended
  <2>2. /\ KillAll(mine[j]) \in [Jobs -> Children] /\ \A i \in Jobs \ {j} : KillAll(mine[j])[i] = child[i]
        /\ KillAll(mine[j])[j].st \in {child[j].st, "dying"} 
        /\ KillAll(mine[j])[j].st = "dying" /\ child[j].st # "dying" => child[j].st \in {"sync", "setup", "code"}
    BY <1>1, <2>1, KillReaches DEF Alive
  <2> QED
    BY <1>1, <1>9, <2>2 DEF DrainCap, DrainTimeout, Values, Dead, NoChild, Ended
<1>10. CASE ReleaseCgroup(j)
  <2>1. child' = child
    BY <1>10, ReleaseSpares
  <2> QED
    BY <1>1, <1>10, <2>1 DEF ReleaseCgroup, Values, Ended
<1> QED
  BY <1>2, <1>3, <1>4, <1>5, <1>6, <1>7, <1>8, <1>9, <1>10 DEF Engine

(* Workers leave the cells alone.                                          *)
LEMMA QuietWorkers ==
  ASSUME SandboxInv, NEW j \in Workers,
         BootWorker(j) \/ DropWorker(j) \/ ReapWorker(j) \/ CodeEnds(j) \/ KillLands(j)
  PROVE  Quiet
<1>1. Values /\ Held /\ Inside /\ j \in Jobs /\ j \notin Execs /\ Execs \subseteq Jobs
  BY KindsAssumption DEF SandboxInv, Jobs
<1>2. \A i \in Execs : pc'[i] = pc[i]
  BY <1>1 DEF BootWorker, DropWorker, ReapWorker, CodeEnds, KillLands, Values
<1>3. \A i \in Execs : child'[i] = child[i]
  <2>1. CASE DropWorker(j)
    <3>1. mine[j] # NoCg
      BY <1>1, <2>1 DEF Held, DropWorker, Ended
    <3> QED
      BY <1>1, <2>1, <3>1, KillReaches DEF DropWorker
  <2>2. CASE BootWorker(j)
    BY <1>1, <2>2 DEF BootWorker, Values
  <2>3. CASE ReapWorker(j) \/ CodeEnds(j) \/ KillLands(j)
    BY <1>1, <2>3 DEF ReapWorker, CodeEnds, KillLands, Values
  <2> QED
    BY <2>1, <2>2, <2>3
<1>4. outlived' = outlived
  BY DEF BootWorker, DropWorker, ReapWorker, CodeEnds, KillLands
<1> QED
  BY <1>2, <1>3, <1>4 DEF Quiet

(* A quiet step disturbs nothing that is known of the cells.               *)
LEMMA QuietCells ==
  ASSUME CellInv, Quiet, UNCHANGED cellVars
  PROVE  CellInv'
<1> USE DEF CellInv, cellVars
<1>1. CellValues'
  BY DEF CellValues
<1>2. OneCell'
  BY DEF OneCell, Unanswered, Quiet
<1>3. Reported'
  BY DEF Reported, Unanswered, Quiet
<1>4. Kept'
  <2>1. Committed' = Committed /\ BeingSaved' = BeingSaved
    BY DEF Committed, BeingSaved, Saved
  <2>2. outlived' = {} => outlived = {}
    BY DEF Quiet
  <2>3. \A j \in Execs : child'[j].st = "code" /\ cell[j] # "none" => child[j].st = "code"
    BY DEF Kept, Quiet
  <2> QED
    BY <2>1, <2>2, <2>3 DEF Kept, Quiet
<1>5. CellResultIsOwn'
  BY DEF CellResultIsOwn, Quiet
<1> QED
  BY <1>1, <1>2, <1>3, <1>4, <1>5

(* User code of a cell runs inside its request, or has outlived it.        *)
LEMMA CodeIsCurrent ==
  ASSUME SandboxInv, NEW j \in Execs, child[j].st = "code", j \notin outlived
  PROVE  pc[j] \notin {"idle"} \cup Ended
<1>1. j \in Jobs
  BY DEF Jobs
<1>2. pc[j] # "idle"
  BY <1>1 DEF SandboxInv, Stages, NoChild
<1>3. child[j].sync = "go" /\ Alive(j)
  BY DEF SandboxInv, Stages, Alive
<1> QED
  BY <1>2, <1>3 DEF SandboxInv, Stages

(* As long as none outlived its request, only one cell runs user code.      *)
LEMMA OneCode ==
  ASSUME SandboxInv, NEW i \in Execs, NEW j \in Execs, child[i].st = "code", child[j].st = "code", outlived = {}
  PROVE  i = j
BY CodeIsCurrent DEF SandboxInv, OneExec

(* A cell begins: it is the only one without an answer, and the last       *)
(* result is gone.                                                         *)
LEMMA CellBegins ==
  ASSUME SandboxInv, CellInv, NEW j \in Execs, RunCell(j)
  PROVE  CellInv'
<1> USE DEF CellInv
<1>1. /\ pc[j] = "idle" /\ pc' = [pc EXCEPT ![j] = "prepare"] /\ UNCHANGED <<child, outlived>>
      /\ result' = NoResult /\ UNCHANGED <<cell, ns, stateFile, answer, spoilt>>
      /\ \A i \in Execs : pc[i] # "idle" => answer[i] # NoResult
  BY DEF RunCell, TakePooled, CreateCgroup, BeginCell
<1>2. pc'[j] = "prepare" /\ \A i \in Execs \ {j} : pc'[i] = pc[i]
  BY <1>1 DEF SandboxInv, Values, Jobs
<1>3. CellValues'
  BY <1>1 DEF CellValues
<1>4. OneCell'
  BY <1>1, <1>2 DEF OneCell, Unanswered, Ended
<1>5. Reported'
  BY <1>1 DEF Reported
<1>6. Kept'
  <2>1. \A i : Ok(i) # NoResult
    BY DEF Ok, NoResult
  <2>2. Committed' \subseteq Committed
    BY <1>1, <2>1 DEF Committed
  <2>3. BeingSaved' = BeingSaved
    BY <1>1 DEF BeingSaved, Saved
  <2> QED
    BY <1>1, <2>2, <2>3 DEF Kept
<1>7. CellResultIsOwn'
  BY <1>1 DEF CellResultIsOwn
<1> QED
  BY <1>3, <1>4, <1>5, <1>6, <1>7

(* The child loads: what was committed is in the file, or on its way.      *)
LEMMA CellStepsLoad ==
  ASSUME SandboxInv, CellInv, NEW j \in Execs, CellLoads(j)
  PROVE  CellInv'
<1> USE DEF CellInv
<1>1. /\ cell[j] = "none" /\ cell' = [cell EXCEPT ![j] = "loaded"] /\ child[j].st = "code"
      /\ UNCHANGED <<stateFile, result, answer, spoilt, pc, child, outlived>>
  BY DEF CellLoads, Shim, sandboxVars
<1>2. ns' = [ns EXCEPT ![j] = stateFile.cells]
  BY DEF CellLoads, Kept
<1>3. CellValues'
  BY <1>1, <1>2 DEF CellValues
<1>4. OneCell' /\ Reported' /\ CellResultIsOwn'
  BY <1>1 DEF OneCell, Unanswered, Reported, CellResultIsOwn
<1>5. cell'[j] = "loaded" /\ ns'[j] = stateFile.cells /\ \A i \in Execs \ {j} : cell'[i] = cell[i] /\ ns'[i] = ns[i]
  BY <1>1, <1>2 DEF CellValues
<1>6. Kept'
  <2>1. Committed' = Committed
    BY <1>1, <1>5 DEF Committed
  <2>2. BeingSaved' = BeingSaved
    BY <1>1, <1>5 DEF BeingSaved, Saved
  <2> QED
    BY <1>1, <1>5, <2>1, <2>2 DEF Kept
<1> QED
  BY <1>3, <1>4, <1>6

(* The file is truncated: what it held is in the namespace of the child.   *)
LEMMA CellStepsOpen ==
  ASSUME SandboxInv, CellInv, NEW j \in Execs, CellOpensState(j)
  PROVE  CellInv'
<1> USE DEF CellInv
<1>1. /\ cell[j] = "loaded" /\ cell' = [cell EXCEPT ![j] = "saving"] /\ child[j].st = "code"
      /\ stateFile' = [ok |-> FALSE, cells |-> {}]
      /\ UNCHANGED <<ns, result, answer, spoilt, pc, child, outlived>>
  BY DEF CellOpensState, Shim, sandboxVars
<1>2. CellValues'
  BY <1>1 DEF CellValues
<1>3. OneCell' /\ Reported' /\ CellResultIsOwn'
  BY <1>1 DEF OneCell, Unanswered, Reported, CellResultIsOwn
<1>4. cell'[j] = "saving" /\ \A i \in Execs \ {j} : cell'[i] = cell[i]
  BY <1>1 DEF CellValues
<1>5. Kept'
  <2>1. Committed' = Committed
    BY <1>1, <1>4 DEF Committed
  <2>2. BeingSaved \subseteq BeingSaved' /\ ns[j] \subseteq BeingSaved'
    BY <1>1, <1>4 DEF BeingSaved, Saved
  <2>3. stateFile'.cells = {} /\ ~stateFile'.ok
    BY <1>1
  <2> QED
    BY <1>1, <1>4, <2>1, <2>2, <2>3 DEF Kept
<1> QED
  BY <1>2, <1>3, <1>5

(* The dump: nobody else wrote the file since it was truncated.            *)
LEMMA CellStepsDump ==
  ASSUME SandboxInv, CellInv, NEW j \in Execs, CellDumps(j)
  PROVE  CellInv'
<1> USE DEF CellInv
<1>1. /\ cell[j] = "saving" /\ cell' = [cell EXCEPT ![j] = "saved"] /\ child[j].st = "code"
      /\ (stateFile' = [ok |-> TRUE, cells |-> Saved(j)] /\ spoilt' = spoilt) \/ (spoilt' = TRUE /\ stateFile' = stateFile)
      /\ UNCHANGED <<ns, result, answer, pc, child, outlived>>
  BY DEF CellDumps, Shim
<1>2. CellValues'
  <2>1. Saved(j) \in SUBSET Execs
    BY DEF CellValues, Saved
  <2>2. stateFile' \in [ok : BOOLEAN, cells : SUBSET Execs] /\ spoilt' \in BOOLEAN
    <3>1. CASE stateFile' = [ok |-> TRUE, cells |-> Saved(j)] /\ spoilt' = spoilt
      BY <2>1, <3>1 DEF CellValues
    <3>2. CASE spoilt' = TRUE /\ stateFile' = stateFile
      BY <3>2 DEF CellValues
    <3> QED
      BY <1>1, <3>1, <3>2
  <2> QED
    BY <1>1, <2>2 DEF CellValues
<1>3. OneCell' /\ Reported' /\ CellResultIsOwn'
  BY <1>1 DEF OneCell, Unanswered, Reported, CellResultIsOwn
<1>4. cell'[j] = "saved" /\ \A i \in Execs \ {j} : cell'[i] = cell[i]
  BY <1>1 DEF CellValues
<1>5. Kept'
  <2>1. \A i \in Execs : cell'[i] # "none" => child'[i].st \in {"code", "dying"}
    BY <1>1, <1>4 DEF Kept
  <2>2. CASE spoilt' = TRUE
    <3>1. ~stateFile'.ok => stateFile'.cells = {}
      BY <1>1 DEF Kept
    <3> QED
      BY <2>1, <2>2, <3>1 DEF Kept
  <2>3. CASE spoilt' = spoilt /\ stateFile' = [ok |-> TRUE, cells |-> Saved(j)]
    <3>1. Committed' = Committed \cup {j}
      BY <1>1, <1>4 DEF Committed
    <3>2. BeingSaved \subseteq BeingSaved' \cup Saved(j)
      BY <1>1, <1>4 DEF BeingSaved, Saved
    <3>3. j \in Saved(j) /\ stateFile'.cells = Saved(j) /\ stateFile'.ok
      BY <2>3 DEF Saved
    <3>4. ~spoilt /\ outlived = {} => Committed \subseteq BeingSaved
      BY <1>1 DEF Kept
    <3>5. outlived = {} => \A i \in Execs : child[i].st = "code" => i = j
      BY <1>1, OneCode
    <3> QED
      BY <1>1, <1>4, <2>1, <2>3, <3>1, <3>2, <3>3, <3>4, <3>5 DEF Kept
  <2> QED
    BY <1>1, <2>2, <2>3
<1> QED
  BY <1>2, <1>3, <1>5

(* The result file: its writer is the cell that is being run, or a child   *)
(* that outlived its request.                                              *)
LEMMA CellStepsReport ==
  ASSUME SandboxInv, CellInv, NEW j \in Execs, CellReports(j)
  PROVE  CellInv'
<1> USE DEF CellInv
<1>1. /\ cell' = [cell EXCEPT ![j] = "reported"] /\ child[j].st = "code"
      /\ (cell[j] = "saved" /\ result' = Ok(j)) \/ (cell[j] = "loaded" /\ result' = [by |-> j, status |-> "error"])
      /\ UNCHANGED <<ns, stateFile, answer, spoilt, pc, child, outlived>>
  BY DEF CellReports, Shim, sandboxVars, Ok
<1>2. CellValues'
  BY <1>1 DEF CellValues, Ok
<1>3. OneCell' /\ CellResultIsOwn'
  BY <1>1 DEF OneCell, Unanswered, CellResultIsOwn
<1>4. cell'[j] = "reported" /\ \A i \in Execs \ {j} : cell'[i] = cell[i]
  BY <1>1 DEF CellValues
<1>5. Reported'
  <2>1. result'.by = j
    BY <1>1 DEF Ok
  <2>2. j \notin outlived => Unanswered(j)
    BY <1>1, CodeIsCurrent DEF Unanswered, OneCell
  <2> QED
    BY <1>1, <2>1, <2>2 DEF Reported, OneCell, Unanswered
<1>6. Kept'
  <2>1. \A i \in Execs : Ok(i) # [by |-> j, status |-> "error"] /\ (Ok(i) = Ok(j) => i = j)
    BY DEF Ok
  <2>2. Committed' \subseteq Committed
    BY <1>1, <1>4, <2>1 DEF Committed
  <2>3. BeingSaved' = BeingSaved
    BY <1>1, <1>4 DEF BeingSaved, Saved
  <2> QED
    BY <1>1, <1>4, <2>2, <2>3 DEF Kept
<1> QED
  BY <1>2, <1>3, <1>5, <1>6

(* The child is gone; a save it had begun is spoilt.                       *)
LEMMA CellVanishes ==
  ASSUME SandboxInv, CellInv, NEW j \in Execs, CellEnds(j) \/ CellKilled(j)
  PROVE  CellInv'
<1> USE DEF CellInv
<1>1. /\ cell' = [cell EXCEPT ![j] = "none"] /\ ns' = [ns EXCEPT ![j] = {}]
      /\ child' = [child EXCEPT ![j] = Dead("zombie")]
      /\ spoilt' = (spoilt \/ cell[j] = "saving")
      /\ UNCHANGED <<stateFile, result, answer, pc, outlived>>
  BY DEF CellEnds, CellKilled, CodeEnds, KillLands, Vanish
<1>2. CellValues'
  BY <1>1 DEF CellValues
<1>3. OneCell' /\ Reported' /\ CellResultIsOwn'
  BY <1>1 DEF OneCell, Unanswered, Reported, CellResultIsOwn
<1>4. /\ cell'[j] = "none"
      /\ \A i \in Execs \ {j} : cell'[i] = cell[i] /\ ns'[i] = ns[i] /\ child'[i] = child[i]
  BY <1>1 DEF CellValues, SandboxInv, Values, Jobs
<1>5. Kept'
  <2>1. Committed' \subseteq Committed
    BY <1>1, <1>4 DEF Committed
  <2>2. cell[j] # "saving" => BeingSaved' = BeingSaved
    BY <1>1, <1>4 DEF BeingSaved, Saved
  <2>3. ~spoilt' => ~spoilt /\ cell[j] # "saving"
    BY <1>1
  <2> QED
    BY <1>1, <1>4, <2>1, <2>2, <2>3 DEF Kept
<1> QED
  BY <1>2, <1>3, <1>5

(* The engine reads the result file and answers.                           *)
LEMMA CellIsRead ==
  ASSUME SandboxInv, CellInv, NEW j \in Execs, ReadResult(j) \/ AnswerError(j)
  PROVE  CellInv'
<1> USE DEF CellInv
<1>1. PICK a : /\ answer' = [answer EXCEPT ![j] = a]
               /\ a \in {[by |-> j, status |-> "missing"], [by |-> j, status |-> "pipeline"]} \/ (a = result /\ result # NoResult)
  BY DEF ReadResult, AnswerError
<1>2. /\ pc[j] \in Ended /\ answer[j] = NoResult /\ result' \in {result, NoResult}
      /\ UNCHANGED <<cell, ns, stateFile, spoilt, pc, child, outlived>>
  BY DEF ReadResult, AnswerError, sandboxVars, Ended
<1>3. a \in Results /\ (a.by = j \/ a.by \in outlived)
  <2>1. CASE a \in {[by |-> j, status |-> "missing"], [by |-> j, status |-> "pipeline"]}
    BY <2>1 DEF Results
  <2>2. CASE a = result /\ result # NoResult
    <3>1. Unanswered(j)
      BY <1>2 DEF Unanswered, Ended
    <3> QED
      BY <2>2, <3>1 DEF Reported, CellValues, Results
  <2> QED
    BY <1>1, <2>1, <2>2
<1>4. CellValues'
  BY <1>1, <1>2, <1>3 DEF CellValues
<1>5. answer'[j] = a /\ \A i \in Execs \ {j} : answer'[i] = answer[i]
  BY <1>1 DEF CellValues
<1>6. OneCell' /\ Reported'
  BY <1>2, <1>5 DEF OneCell, Unanswered, Reported
<1>7. CellResultIsOwn'
  BY <1>2, <1>3, <1>5 DEF CellResultIsOwn
<1>8. Kept'
  <2>1. \A i : Ok(i) # NoResult /\ Ok(i) \notin {[by |-> j, status |-> "missing"], [by |-> j, status |-> "pipeline"]}
    BY DEF Ok, NoResult
  <2>2. Committed' \subseteq Committed
    BY <1>1, <1>2, <1>5, <2>1 DEF Committed
  <2>3. BeingSaved' = BeingSaved
    BY <1>2 DEF BeingSaved, Saved
  <2> QED
    BY <1>2, <2>2, <2>3 DEF Kept
<1> QED
  BY <1>4, <1>6, <1>7, <1>8

-----------------------------------------------------------------------------
(* The layers run_child puts on do not block each other, whatever profile  *)
(* the filter has, and all the required ones are among them.               *)
LEMMA LauncherFits ==
  /\ \A profile \in Profiles, n \in 0..(Len(LauncherLayers(FALSE)) - 1) :
       ~Blocked(LauncherLayers(FALSE), n, profile, TRUE)
  /\ Required \subseteq Done(LauncherLayers(FALSE), Len(LauncherLayers(FALSE)))
<1>1. Len(LauncherLayers(FALSE)) = 8
  BY DEF LauncherLayers
<1>2. ASSUME NEW profile \in Profiles, NEW n \in 0..7
      PROVE  ~Blocked(LauncherLayers(FALSE), n, profile, TRUE)
  <2> USE DEF Blocked, Done, LauncherLayers, Privileged
  <2>1. CASE n \in 0..4
    BY <2>1
  <2>2. CASE n = 5
    BY <2>2 DEF Syscalls, Allowed, BaseSyscalls, CapsCalls
  <2>3. CASE n = 6
    BY <2>3 DEF Syscalls, Allowed, BaseSyscalls, RlimitCalls
  <2>4. CASE n = 7
    BY <2>4 DEF Syscalls, Allowed
  <2> QED
    BY <2>1, <2>2, <2>3, <2>4
<1>3. Required \subseteq Done(LauncherLayers(FALSE), 8)
  BY DEF Required, Done, LauncherLayers
<1>4. Len(LauncherLayers(FALSE)) - 1 = 7
  BY DEF LauncherLayers
<1> QED
  BY <1>1, <1>2, <1>3, <1>4

-----------------------------------------------------------------------------
(* The theorems                                                            *)
(* It holds when the engine starts,                                        *)
LEMMA SessionInvInit == SessionInit => SandboxInv /\ CellInv
<1> SUFFICES ASSUME SessionInit PROVE SandboxInv /\ CellInv
  OBVIOUS
<1>1. /\ cgroup_seq = 0 /\ cg = [c \in Cgroups |-> Unused("none")] /\ pool = <<>>
      /\ pc = [j \in Jobs |-> "idle"] /\ mine = [j \in Jobs |-> NoCg] /\ child = [j \in Jobs |-> NoChild]
      /\ outlived = {} /\ faults = 0
  BY DEF SessionInit, SandboxInit
<1>2. NoChild \in Children /\ Unused("none") \in Cgs /\ NoChild.in = NoCg /\ NoChild.st = "none"
  BY DEF NoChild, Unused, Children, Cgs
<1>3. Values
  BY <1>1, <1>2, PooledAssumption, BoundsAssumption DEF Values, Places
<1>4. Counted
  <2>1. Started = {}
    BY <1>1 DEF Started
  <2> QED
    BY <1>1, <2>1, FS_EmptySet DEF Counted
<1>5. Held /\ Pooled
  BY <1>1 DEF Held, Pooled
<1>6. Inside /\ Placed
  BY <1>1, <1>2 DEF Inside, Placed, Running, Alive
<1>7. Stages /\ OneExec /\ Left
  BY <1>1, <1>2 DEF Stages, OneExec, Left, Alive, Jobs, Ended
<1>8. CellInv
  <2> USE DEF SessionInit
  <2>1. CellValues
    BY DEF CellValues, NoResult, Results
  <2>2. OneCell /\ Reported /\ CellResultIsOwn
    BY <1>1 DEF OneCell, Unanswered, Reported, CellResultIsOwn, Jobs
  <2>3. Committed = {} /\ stateFile.ok
    BY DEF Committed, Ok, NoResult
  <2>4. Kept
    BY <2>3 DEF Kept
  <2> QED
    BY <2>1, <2>2, <2>4 DEF CellInv
<1> QED
  BY <1>3, <1>4, <1>5, <1>6, <1>7, <1>8 DEF SandboxInv

(* every step of a launch, a child, a worker or a cell keeps it,           *)
LEMMA SessionInvStep == SandboxInv /\ CellInv /\ [SessionNext]_sessionVars => SandboxInv' /\ CellInv'
<1> SUFFICES ASSUME SandboxInv, CellInv, [SessionNext]_sessionVars PROVE SandboxInv' /\ CellInv'
  OBVIOUS
<1>1. Execs \subseteq Jobs /\ Workers \subseteq Jobs
  BY DEF Jobs
<1>2. ASSUME NEW j \in Execs, Engine(j) \/ ChildWakes(j) \/ ChildSetup(j), UNCHANGED cellVars
      PROVE  SandboxInv' /\ CellInv'
  <2>1. SandboxInv'
    BY <1>1, <1>2, StepOfChild, StepOfClone, StepOfError, StepOfKill, StepOfEnd DEF Engine
  <2> QED
    BY <1>2, <2>1, QuietExecs, QuietCells
<1>3. ASSUME NEW j \in Workers, UNCHANGED cellVars,
             BootWorker(j) \/ DropWorker(j) \/ ReapWorker(j) \/ CodeEnds(j) \/ KillLands(j)
      PROVE  SandboxInv' /\ CellInv'
  <2>1. SandboxInv'
    BY <1>1, <1>3, StepOfChild, StepOfLaunch, StepOfKill, StepOfEnd
  <2> QED
    BY <1>3, <2>1, QuietWorkers, QuietCells
<1>4. ASSUME NEW j \in Execs, RunCell(j) PROVE SandboxInv' /\ CellInv'
  BY <1>1, <1>4, StepOfLaunch, CellBegins DEF RunCell
<1>5. ASSUME UNCHANGED <<cgroup_seq, cg, pool, pc, mine, child, outlived>>, faults' \in 0..MaxFaults
      PROVE  SandboxInv'
  BY <1>5 DEF SandboxInv, Values, Counted, Started, Held, Pooled, Inside, Running, Alive, Placed, Stages, OneExec, Left
<1>6. ASSUME NEW j \in Execs, CellLoads(j) \/ CellOpensState(j) \/ CellReports(j) \/ ReadResult(j) \/ AnswerError(j)
      PROVE  SandboxInv' /\ CellInv'
  <2>1. UNCHANGED sandboxVars
    BY <1>6 DEF CellLoads, CellOpensState, CellReports, ReadResult, AnswerError
  <2>2. SandboxInv'
    BY <1>5, <2>1 DEF sandboxVars, SandboxInv, Values
  <2> QED
    BY <1>6, <2>2, CellStepsLoad, CellStepsOpen, CellStepsReport, CellIsRead
<1>7. ASSUME NEW j \in Execs, CellDumps(j) PROVE SandboxInv' /\ CellInv'
  <2>1. faults' \in 0..MaxFaults
    BY <1>7, BoundsAssumption DEF CellDumps, Fault, NoFault, SandboxInv, Values
  <2> QED
    BY <1>5, <1>7, <2>1, CellStepsDump DEF CellDumps
<1>8. ASSUME NEW j \in Execs, CellEnds(j) \/ CellKilled(j) PROVE SandboxInv' /\ CellInv'
  BY <1>1, <1>8, StepOfChild, CellVanishes DEF CellEnds, CellKilled
<1>9. CASE UNCHANGED sessionVars
  <2>1. SandboxInv'
    BY <1>5, <1>9 DEF sessionVars, sandboxVars, SandboxInv, Values
  <2>2. Quiet /\ UNCHANGED cellVars
    BY <1>9 DEF Quiet, sessionVars, sandboxVars
  <2> QED
    BY <2>1, <2>2, QuietCells
<1> QED
  BY <1>2, <1>3, <1>4, <1>6, <1>7, <1>8, <1>9 DEF SessionNext

(* and so it holds always.                                                 *)
LEMMA SessionInvariant == SessionSpec => [](SandboxInv /\ CellInv)
BY SessionInvInit, SessionInvStep, PTL DEF SessionSpec

(* Every variable of the session and of the sandbox has its type, at most  *)
(* one cgroup is created per job, the pool keeps its limit, and a job holds *)
(* a cgroup exactly from take_cgroup to release_cgroup (launcher.rs).       *)
THEOREM SessionTyped == SessionSpec => []SessionTypeOK
<1>1. SandboxInv /\ CellInv => SessionTypeOK
  <2> SUFFICES ASSUME SandboxInv, CellInv PROVE SessionTypeOK
    OBVIOUS
  <2>1. cgroup_seq \in 0..Cardinality(Jobs)
    <3>1. IsFiniteSet(Jobs) /\ Started \subseteq Jobs
      BY BoundsAssumption DEF Started
    <3>2. Cardinality(Started) <= Cardinality(Jobs) /\ Cardinality(Jobs) \in Nat /\ Cardinality(Started) \in Nat
      BY <3>1, FS_Subset, FS_CardinalityType
    <3> QED
      BY <3>2 DEF SandboxInv, Values, Counted
  <2>2. ToSet(pool) \subseteq Cgroups
    BY DEF SandboxInv, Values, ToSet
  <2>3. SandboxTypeOK
    BY <2>1, <2>2 DEF SandboxTypeOK, SandboxInv, Values, Held, Cgs, Places, Children
  <2>4. result.by \in Execs \cup {None} /\ \A j \in Execs : answer[j].status \in {"none", "ok", "error", "missing", "pipeline"}
    BY DEF CellInv, CellValues, NoResult, Results
  <2> QED
    BY <2>3, <2>4 DEF SessionTypeOK, CellInv, CellValues
<1> QED
  BY <1>1, SessionInvariant, PTL

(* A cgroup in the pool is nobody's, holds no task and was never killed,   *)
(* whatever the job that gave it back did (release_cgroup).                *)
THEOREM PoolStaysClean == SessionSpec => []PooledClean
<1>1. SandboxInv => PooledClean
  <2> SUFFICES ASSUME SandboxInv, NEW i \in DOMAIN pool
               PROVE  /\ cg[pool[i]].at = "pooled" /\ ~cg[pool[i]].killed /\ ~Populated(pool[i])
                      /\ \A k \in DOMAIN pool : pool[k] = pool[i] => k = i
                      /\ \A j \in Jobs : mine[j] # pool[i]
    BY DEF PooledClean
  <2>1. DOMAIN pool = 1..Len(pool) /\ pool[i] \in Cgroups
    BY DEF SandboxInv, Values
  <2>2. cg[pool[i]].at = "pooled" /\ ~cg[pool[i]].killed /\ \A k \in DOMAIN pool : pool[k] = pool[i] => k = i
    BY <2>1 DEF SandboxInv, Pooled
  <2>3. pool[i] # NoCg
    BY <2>1, PooledAssumption
  <2>4. \A j \in Jobs : mine[j] # pool[i]
    BY <2>2, <2>3 DEF SandboxInv, Held
  <2>5. ~Populated(pool[i])
    BY <2>2, <2>3, <2>4 DEF SandboxInv, Inside, Populated
  <2> QED
    BY <2>2, <2>4, <2>5
<1> QED
  BY <1>1, SessionInvariant, PTL

(* A task in a cgroup has the limits of its own job, however often the     *)
(* cgroup was recycled, and in a lost one too (configure).                 *)
THEOREM LimitsStay == SessionSpec => []LimitsInForce
<1>1. SandboxInv => LimitsInForce
  BY DEF SandboxInv, Inside, LimitsInForce
<1> QED
  BY <1>1, SessionInvariant, PTL

(* No layer of run_child blocks a later one under any profile, and user    *)
(* code starts behind all the required ones.                               *)
THEOREM SetupStaysSound == SessionSpec => []SetupSound
<1>1. SandboxInv => SetupSound
  <2> SUFFICES ASSUME SandboxInv, NEW j \in Jobs
               PROVE  /\ child[j].st = "setup" /\ child[j].maps =>
                           \A profile \in Profiles, n \in 0..(Len(Order(j)) - 1) :
                             ~Blocked(Order(j), n, profile, child[j].maps)
                      /\ child[j].st = "code" => Required \subseteq Done(Order(j), Len(Order(j)))
    BY DEF SetupSound
  <2>1. child[j].maps \in BOOLEAN
    BY DEF SandboxInv, Values, Children
  <2>2. CASE child[j].maps = TRUE
    BY <2>2, LauncherFits DEF Order
  <2>3. CASE child[j].maps = FALSE
    BY <2>3, LauncherFits DEF Order
  <2> QED
    BY <2>1, <2>2, <2>3
<1> QED
  BY <1>1, SessionInvariant, PTL

(* A child survives its request only unplaced, where cgroup.kill does not  *)
(* reach it, or when the drain itself failed (Drainer::run, add_pid).      *)
THEOREM OnlyUnplacedOutlive == SessionSpec => []OutlivesOnlyUnplaced
<1>1. SandboxInv => OutlivesOnlyUnplaced
  BY DEF SandboxInv, Left, OutlivesOnlyUnplaced
<1> QED
  BY <1>1, SessionInvariant, PTL

(* A cell is answered with its own result file, or with that of a child    *)
(* that outlived its request (run_cell).                                   *)
THEOREM CellsAnswerOwn == SessionSpec => []CellResultIsOwn
<1>1. CellInv => CellResultIsOwn
  BY DEF CellInv
<1> QED
  BY <1>1, SessionInvariant, PTL

(* What a cell that was answered "ok" did stays in the session's namespace *)
(* through every later cell, unless a save was cut short or failed, or a   *)
(* child outlived its request (session shim: load, exec, save).            *)
THEOREM SessionsAccumulate == SessionSpec => []SessionAccumulates
<1>1. CellInv => SessionAccumulates
  BY DEF CellInv, Kept, Committed, BeingSaved, Ok, SessionAccumulates
<1> QED
  BY <1>1, SessionInvariant, PTL
=============================================================================
