--------------------------- MODULE RLWorkerProofs ---------------------------
(***************************************************************************)
(* What module RLWorker checks on two engines and three workers, for every *)
(* number of engines, episodes, warm slots and workers, every checkpoint   *)
(* policy and any number of faults.                                        *)
(*                                                                         *)
(* The argument: an engine reaches a worker in one place only, a warm      *)
(* slot, the command it runs or the entry of an episode, and each place    *)
(* says how far the worker is; an episode is with one engine at a time; a  *)
(* worker that may write a checkpoint is the one its engine is reading     *)
(* from, or the episode counts as cut; so what an episode wrote last is in *)
(* its directory, on its way into it, or being written by the one worker   *)
(* it has.                                                                 *)
(***************************************************************************)
EXTENDS RLWorker, TLAPS

Points == {"idle", "claim", "scan", "adopt", "load", "manifest", "spawn", "insert", "read"}
Ops == {"step", "reset", "batch", "snapshot"}
Cmds == [pc : Points, op : Ops \cup {None, "start", "claim"}, e : Episodes \cup {None}, w : Workers \cup {None},
         resume : BOOLEAN, i : Nat, tag : 0..1]
SlotForms == [st : {"empty", "boot", "ready"}, w : Workers \cup {None}]
Procs == [st : {"free", "boot", "warm", "idle", "run", "dump", "dead"}, own : Engines \cup {None},
          tmpl : Shapes \cup {None}, mnt : {None, Gone} \cup Episodes \cup Workers, resume : BOOLEAN,
          n : 0..MaxSteps, cnt : Nat, op : Ops \cup {None}, tag : 0..1, left : Nat, rep : {None, Hello, 0, 1}]
Dirs == [manifest : BOOLEAN, ckpt : {None, Torn} \cup 0..MaxSteps]

(* What the variables range over. *)
Hosts == up \cap done = {} /\ up \cup done \subseteq Engines /\ swept \subseteq up \cup done
Counts == cut \subseteq Episodes /\ faults \in 0..MaxFaults /\ cmds \in 0..MaxCmds
Values ==
  /\ Hosts /\ Counts
  /\ cmd \in [Engines -> Cmds]
  /\ entry \in [Engines -> [Episodes -> {None, Lost} \cup Workers]]
  /\ slot \in [Engines -> [Slots -> SlotForms]]
  /\ sched \in [Engines -> SUBSET Shapes]
  /\ proc \in [Workers -> Procs]
  /\ vol \in [Episodes \cup Workers -> {None} \cup Dirs]
  /\ last \in [Episodes -> {None} \cup 0..MaxSteps]

(* An engine that does not run has nothing. *)
Off == \A g \in Engines \ up :
  /\ cmd[g] = Idle /\ sched[g] = {}
  /\ \A e \in Episodes : entry[g][e] = None
  /\ \A i \in Slots : slot[g][i] = EmptySlot

Starting(g) == cmd[g].op \in {"start", "claim"}

(* How far the command of an engine is. *)
Course(g) ==
  /\ cmd[g].pc = "idle" => cmd[g] = Idle
  /\ cmd[g].pc # "idle" => cmd[g].e \in Episodes
  /\ cmd[g].pc \notin {"idle", "read"} => Starting(g)
  /\ cmd[g].pc \in {"adopt", "load", "insert", "read"} => cmd[g].w \in Workers
  /\ cmd[g].pc \in {"claim", "scan", "spawn"} => cmd[g].w = None
  /\ cmd[g].pc = "scan" => cmd[g].i \in Slots
  /\ cmd[g].pc \in {"claim", "scan", "adopt", "load"} => vol[cmd[g].e] # None

(* A warm worker is on its own volume, one that serves an episode on the episode's. *)
Warm(g, w) ==
  proc[w].own = g /\ proc[w].mnt = w /\ proc[w].tmpl \in Shapes /\ proc[w].tag = 0 /\ vol[w] # None
Serves(g, w, e) == proc[w].own = g /\ proc[w].mnt = e /\ proc[w].tmpl = Shape[e]

InSlot(g, i, w) ==
  /\ slot[g][i].st = "empty" <=> w = None
  /\ slot[g][i].st # "empty" => Warm(g, w) /\ vol[w] = NewDir
  /\ slot[g][i].st = "boot" => /\ proc[w].st \in {"boot", "warm", "dead"} /\ proc[w].rep \in {None, Hello}
                               /\ proc[w].rep = Hello => proc[w].st = "warm"
  /\ slot[g][i].st = "ready" => proc[w].st \in {"warm", "dead"} /\ proc[w].rep = None
InSlots(g) == \A i \in Slots : InSlot(g, i, slot[g][i].w)

(* No worker is in two slots, nor in a slot and being claimed. *)
Apart(g) == \A i \in Slots : slot[g][i].w # None =>
  /\ \A j \in Slots : slot[g][j].w = slot[g][i].w => i = j
  /\ cmd[g].pc = "adopt" => cmd[g].w # slot[g][i].w

InCmd(g, w, e) ==
  /\ cmd[g].pc = "adopt" =>
       Warm(g, w) /\ proc[w].st \in {"warm", "dead"} /\ proc[w].rep = None /\ proc[w].tmpl = Shape[e]
  /\ cmd[g].pc = "load" =>
       Serves(g, w, e) /\ proc[w].st \in {"warm", "dead"} /\ proc[w].rep = None /\ proc[w].tag = 0
  /\ cmd[g].pc = "read" =>
       /\ Serves(g, w, e) /\ proc[w].st \in {"run", "dump", "idle", "dead"} /\ proc[w].tag = cmd[g].tag
       /\ proc[w].rep \in {None, cmd[g].tag} /\ (proc[w].rep # None => proc[w].st = "idle")
       /\ Starting(g) => proc[w].st # "dump" /\ (proc[w].st = "run" => proc[w].op = "reset")
  /\ cmd[g].pc \in {"manifest", "insert"} /\ w # None =>
       Serves(g, w, e) /\ proc[w].st \in {"idle", "dead"} /\ proc[w].rep = None

InEntry(g, e, w) ==
  w \in Workers => Serves(g, w, e) /\ proc[w].st \in {"idle", "dead"} /\ proc[w].rep = None
InEntries(g) == \A e \in Episodes : InEntry(g, e, entry[g][e])

EngineOK(g) == Course(g) /\ InSlots(g) /\ Apart(g) /\ InCmd(g, cmd[g].w, cmd[g].e) /\ InEntries(g)

(* An episode is with one engine, in its entry or in the command it runs. *)
Holds(g, e) == entry[g][e] \in Workers \/ cmd[g].e = e
OneHolder ==
  /\ \A g, h \in up, e \in Episodes : Holds(g, e) /\ Holds(h, e) => g = h
  /\ \A g \in up, e \in Episodes : cmd[g].e = e => entry[g][e] \notin Workers

(* What is mounted is there. *)
Mounted(w) ==
  /\ proc[w].st \in {"idle", "run", "dump"} => proc[w].mnt \in Episodes \cup {Gone}
  /\ proc[w].st \in {"idle", "run", "dump"} /\ proc[w].mnt # Gone => vol[proc[w].mnt] # None
  /\ proc[w].st = "free" => proc[w].mnt = None
  /\ proc[w].mnt \in Workers => proc[w].mnt = w
Mounts == \A w \in Workers : Mounted(w)

(* Who may write the checkpoint of an episode that is not cut is being read from. *)
Read(g, w) == g \in up /\ cmd[g].pc = "read" /\ cmd[g].w = w /\ ~ Starting(g)
Writer(w) == Writes(w) /\ proc[w].mnt \in Episodes \ cut
Writers == \A w \in Workers : Writer(w) => Read(proc[w].own, w)

(* Where the checkpoint is, and what a start knows of it. *)
Dumped(e) == \E w \in Workers : proc[w].st = "dump" /\ proc[w].mnt = e
Moved(g, e) == cmd[g].pc = "adopt" /\ cmd[g].e = e /\ vol[e].ckpt = None /\ vol[cmd[g].w].ckpt = last[e]
Stored(e) == vol[e] # None /\ vol[e].ckpt = last[e]
Found(g, e, w) ==
  /\ cmd[g].resume
  /\ cmd[g].pc = "read" => proc[w].resume /\ (proc[w].rep # None => proc[w].n = last[e])
  /\ cmd[g].pc \in {"manifest", "insert"} /\ w # None => proc[w].n = last[e]
KeptOf(e) == last[e] # None =>
  /\ Dumped(e) \/ (\E g \in up : Moved(g, e)) \/ Stored(e)
  /\ \A g \in up : cmd[g].e = e /\ Starting(g) => Found(g, e, cmd[g].w)
Kept == \A e \in Episodes \ cut : KeptOf(e)

RLInv ==
  /\ Values /\ Off /\ OneHolder /\ Mounts /\ Writers /\ Kept
  /\ \A g \in up : EngineOK(g)

(* A directory is not the absence of one. *)
LEMMA DirsThere == NewDir \in Dirs /\ None \notin Dirs
BY NamesAssumption DEF NewDir, Dirs

-----------------------------------------------------------------------------
(* The workers an engine reaches *)

Held(g) == {w \in Workers :
  (\E i \in Slots : slot[g][i].w = w) \/ (\E e \in Episodes : entry[g][e] = w) \/ cmd[g].w = w}

(* A worker that a running engine reaches is the engine's own and is not free. *)
LEMMA HeldIsOwn ==
  ASSUME Values, NEW g \in up, EngineOK(g), Mounts
  PROVE  \A w \in Held(g) : proc[w].own = g /\ proc[w].st # "free"
<1> SUFFICES ASSUME NEW w \in Held(g) PROVE proc[w].own = g /\ proc[w].st # "free"
  OBVIOUS
<1>0. w \in Workers /\ w # None /\ g \in Engines /\ Mounted(w) /\ w \notin Episodes
  BY NamesAssumption DEF Held, Values, Hosts, Mounts
<1>1. CASE \E i \in Slots : slot[g][i].w = w
  <2>1. PICK i \in Slots : slot[g][i].w = w
    BY <1>1
  <2>2. InSlot(g, i, w) /\ slot[g][i] \in SlotForms
    BY <2>1, <1>0 DEF EngineOK, InSlots, Values
  <2> QED BY <2>1, <2>2, <1>0 DEF InSlot, Warm, SlotForms
<1>2. CASE \E e \in Episodes : entry[g][e] = w
  <2>1. PICK e \in Episodes : entry[g][e] = w
    BY <1>2
  <2>2. InEntry(g, e, w)
    BY <2>1 DEF EngineOK, InEntries
  <2> QED BY <2>2, <1>0 DEF InEntry, Serves
<1>3. CASE cmd[g].w = w
  <2>1. InCmd(g, w, cmd[g].e) /\ Course(g) /\ cmd[g] \in Cmds
    BY <1>3, <1>0 DEF EngineOK, Values
  <2>2. cmd[g].pc \in {"adopt", "load", "manifest", "insert", "read"}
    BY <2>1, <1>3, <1>0 DEF Course, Cmds, Points, Idle
  <2>3. cmd[g].pc = "adopt" => proc[w].own = g /\ proc[w].st # "free"
    BY <2>1 DEF InCmd, Warm
  <2>4. cmd[g].pc = "load" => proc[w].own = g /\ proc[w].st # "free"
    BY <2>1 DEF InCmd, Serves
  <2>5. cmd[g].pc = "read" => proc[w].own = g /\ proc[w].st # "free"
    BY <2>1 DEF InCmd, Serves
  <2>6. cmd[g].pc \in {"manifest", "insert"} => proc[w].own = g /\ proc[w].st # "free"
    BY <2>1, <1>0 DEF InCmd, Serves
  <2> QED BY <2>2, <2>3, <2>4, <2>5, <2>6
<1> QED BY <1>1, <1>2, <1>3 DEF Held

(* It is on its own volume, or on that of an episode the engine holds. *)
LEMMA HeldIsOn ==
  ASSUME Values, NEW g \in up, EngineOK(g), NEW e \in Episodes
  PROVE  \A w \in Held(g) : proc[w].mnt = e => Holds(g, e)
<1> SUFFICES ASSUME NEW w \in Held(g), proc[w].mnt = e PROVE Holds(g, e)
  OBVIOUS
<1>0. w \in Workers /\ w # None /\ g \in Engines /\ w # e
  BY NamesAssumption DEF Held, Values, Hosts
<1>1. CASE \E i \in Slots : slot[g][i].w = w
  <2>1. PICK i \in Slots : slot[g][i].w = w
    BY <1>1
  <2>2. InSlot(g, i, w) /\ slot[g][i] \in SlotForms
    BY <2>1, <1>0 DEF EngineOK, InSlots, Values
  <2> QED BY <2>1, <2>2, <1>0 DEF InSlot, Warm, SlotForms
<1>2. CASE \E f \in Episodes : entry[g][f] = w
  <2>1. PICK f \in Episodes : entry[g][f] = w
    BY <1>2
  <2>2. InEntry(g, f, w)
    BY <2>1 DEF EngineOK, InEntries
  <2> QED BY <2>1, <2>2, <1>0 DEF InEntry, Serves, Holds
<1>3. CASE cmd[g].w = w
  <2>1. InCmd(g, w, cmd[g].e) /\ Course(g) /\ cmd[g] \in Cmds
    BY <1>3, <1>0 DEF EngineOK, Values
  <2>2. cmd[g].pc \in {"adopt", "load", "manifest", "insert", "read"}
    BY <2>1, <1>3, <1>0 DEF Course, Cmds, Points, Idle
  <2>3. cmd[g].pc # "adopt"
    BY <2>1, <1>0 DEF InCmd, Warm
  <2>4. cmd[g].pc \in {"load", "read"} => proc[w].mnt = cmd[g].e
    BY <2>1 DEF InCmd, Serves
  <2>6. cmd[g].pc \in {"manifest", "insert"} => proc[w].mnt = cmd[g].e
    BY <2>1, <1>0 DEF InCmd, Serves
  <2> QED BY <2>2, <2>3, <2>4, <2>6 DEF Holds
<1> QED BY <1>1, <1>2, <1>3 DEF Held

(* A worker is in one place. *)
LEMMA SlotOnly ==
  ASSUME Values, NEW g \in up, EngineOK(g), NEW i \in Slots, NEW w \in Workers, slot[g][i].w = w
  PROVE  /\ cmd[g].w # w
         /\ \A e \in Episodes : entry[g][e] # w
         /\ \A j \in Slots \ {i} : slot[g][j].w # w
<1>0. g \in Engines /\ w # None /\ w \notin Episodes /\ cmd[g] \in Cmds /\ slot[g][i] \in SlotForms
  BY NamesAssumption DEF Values, Hosts
<1>1. InSlot(g, i, w) /\ Apart(g) /\ Course(g)
  BY DEF EngineOK, InSlots
<1>2. proc[w].mnt = w
  BY <1>0, <1>1 DEF InSlot, Warm
<1>3. cmd[g].w # w
  <2> SUFFICES ASSUME cmd[g].w = w PROVE FALSE
    OBVIOUS
  <2>1. InCmd(g, w, cmd[g].e)
    BY DEF EngineOK
  <2>2. cmd[g].pc \in {"load", "manifest", "insert", "read"}
    BY <1>0, <1>1 DEF Course, Apart, Cmds, Points, Idle
  <2>3. cmd[g].e = w
    BY <2>1, <2>2, <1>0, <1>2 DEF InCmd, Serves
  <2> QED BY <2>2, <2>3, <1>0, <1>1 DEF Course
<1>4. \A e \in Episodes : entry[g][e] # w
  <2> SUFFICES ASSUME NEW e \in Episodes, entry[g][e] = w PROVE FALSE
    OBVIOUS
  <2>1. InEntry(g, e, w)
    BY DEF EngineOK, InEntries
  <2> QED BY <2>1, <1>0, <1>2 DEF InEntry, Serves
<1>5. \A j \in Slots \ {i} : slot[g][j].w # w
  BY <1>0, <1>1 DEF Apart
<1> QED BY <1>3, <1>4, <1>5

(* The worker of the command is in no slot and in no entry. *)
LEMMA CmdOnly ==
  ASSUME Values, OneHolder, NEW g \in up, EngineOK(g), NEW w \in Workers, cmd[g].w = w
  PROVE  /\ \A i \in Slots : slot[g][i].w # w
         /\ \A e \in Episodes : entry[g][e] # w
<1>1. \A i \in Slots : slot[g][i].w # w
  BY SlotOnly
<1>2. ASSUME NEW e \in Episodes, entry[g][e] = w PROVE FALSE
  <2>0. g \in Engines /\ w # None /\ w # e /\ cmd[g] \in Cmds
    BY NamesAssumption DEF Values, Hosts
  <2>1. InEntry(g, e, w) /\ Course(g) /\ InCmd(g, w, cmd[g].e)
    BY <1>2 DEF EngineOK, InEntries
  <2>2. cmd[g].pc \in {"adopt", "load", "manifest", "insert", "read"}
    BY <2>0, <2>1 DEF Course, Cmds, Points, Idle
  <2>3. proc[w].mnt = e
    BY <2>1 DEF InEntry, Serves
  <2>4. cmd[g].pc = "adopt" => FALSE
    BY <2>0, <2>1, <2>3 DEF InCmd, Warm
  <2>5. cmd[g].e = e
    BY <2>0, <2>1, <2>2, <2>3, <2>4 DEF InCmd, Serves
  <2> QED BY <2>5, <1>2 DEF OneHolder
<1> QED BY <1>1, <1>2

(* The worker of an entry is in no slot, in no other entry and not in the command. *)
LEMMA EntryOnly ==
  ASSUME Values, OneHolder, NEW g \in up, EngineOK(g), NEW e \in Episodes, NEW w \in Workers, entry[g][e] = w
  PROVE  /\ cmd[g].w # w
         /\ \A i \in Slots : slot[g][i].w # w
         /\ \A f \in Episodes \ {e} : entry[g][f] # w
<1>1. cmd[g].w # w
  BY CmdOnly
<1>2. \A i \in Slots : slot[g][i].w # w
  BY SlotOnly
<1>3. \A f \in Episodes : entry[g][f] = w => proc[w].mnt = f
  BY DEF EngineOK, InEntries, InEntry, Serves
<1> QED BY <1>1, <1>2, <1>3

(* An engine keeps its part of the invariant when the places a step touches are seen to. *)
LEMMA EngineTouch ==
  ASSUME Values, NEW h \in up, EngineOK(h), NEW ws,
         \A v \in Workers \ ws : proc'[v] = proc[v] /\ vol'[v] = vol[v],
         Course(h)', Apart(h)',
         \A i \in Slots : \/ slot'[h][i] = slot[h][i] /\ slot[h][i].w \notin ws
                          \/ InSlot(h, i, slot[h][i].w)',
         \/ cmd'[h] = cmd[h] /\ cmd[h].w \notin ws
         \/ InCmd(h, cmd[h].w, cmd[h].e)',
         \A e \in Episodes : \/ entry'[h][e] = entry[h][e] /\ entry[h][e] \notin ws
                             \/ InEntry(h, e, entry[h][e])'
  PROVE  EngineOK(h)'
<1>0. h \in Engines /\ cmd[h] \in Cmds /\ slot[h] \in [Slots -> SlotForms]
  BY DEF Values, Hosts
<1>2. InSlots(h)'
  <2> SUFFICES ASSUME NEW i \in Slots, slot'[h][i] = slot[h][i], slot[h][i].w \notin ws
               PROVE InSlot(h, i, slot[h][i].w)'
    BY DEF InSlots
  <2>1. PICK w : w = slot[h][i].w
    OBVIOUS
  <2>2. InSlot(h, i, w) /\ w \in Workers \cup {None} /\ slot[h][i].st \in {"empty", "boot", "ready"}
    BY <2>1, <1>0 DEF EngineOK, InSlots, SlotForms
  <2>3. w \in Workers => proc'[w] = proc[w] /\ vol'[w] = vol[w]
    BY <2>1
  <2>4. InSlot(h, i, w)'
    BY <2>1, <2>2, <2>3, NamesAssumption, ZenonT(30) DEF InSlot, Warm, NewDir
  <2> QED BY <2>1, <2>4
<1>3. InCmd(h, cmd[h].w, cmd[h].e)'
  <2> SUFFICES ASSUME cmd'[h] = cmd[h], cmd[h].w \notin ws PROVE InCmd(h, cmd[h].w, cmd[h].e)'
    OBVIOUS
  <2>1. PICK w, e : w = cmd[h].w /\ e = cmd[h].e
    OBVIOUS
  <2>2. InCmd(h, w, e) /\ w \in Workers \cup {None} /\ Course(h)
    BY <2>1, <1>0 DEF EngineOK, Cmds
  <2>3. w \in Workers => proc'[w] = proc[w] /\ vol'[w] = vol[w]
    BY <2>1
  <2>4. CASE w \in Workers
    BY <2>4, <2>1, <2>2, <2>3, ZenonT(30) DEF InCmd, Warm, Serves, Starting
  <2>5. CASE w \notin Workers
    <3>1. w = None /\ cmd[h].pc \notin {"adopt", "load", "insert", "read"}
      BY <2>5, <2>1, <2>2 DEF Course
    <3> QED BY <3>1, <2>1 DEF InCmd
  <2> QED BY <2>1, <2>4, <2>5
<1>4. InEntries(h)'
  <2> SUFFICES ASSUME NEW e \in Episodes, entry'[h][e] = entry[h][e], entry[h][e] \notin ws
               PROVE InEntry(h, e, entry[h][e])'
    BY DEF InEntries
  <2>1. PICK w : w = entry[h][e]
    OBVIOUS
  <2>2. InEntry(h, e, w)
    BY <2>1 DEF EngineOK, InEntries
  <2>3. w \in Workers => proc'[w] = proc[w]
    BY <2>1
  <2> QED BY <2>1, <2>2, <2>3 DEF InEntry, Serves
<1> QED BY <1>2, <1>3, <1>4 DEF EngineOK

(* When only its command goes on, the command is what is to be seen to. *)
LEMMA EngineCmd ==
  ASSUME Values, NEW h \in up, EngineOK(h), slot' = slot, entry' = entry,
         \A v \in Workers : proc'[v] = proc[v] /\ vol'[v] = vol[v],
         Course(h)', Apart(h)', InCmd(h, cmd[h].w, cmd[h].e)'
  PROVE  EngineOK(h)'
<1>1. PICK ws : ws = {}
  OBVIOUS
<1>2. /\ \A i \in Slots : slot'[h][i] = slot[h][i] /\ slot[h][i].w \notin ws
      /\ \A e \in Episodes : entry'[h][e] = entry[h][e] /\ entry[h][e] \notin ws
      /\ \A v \in Workers \ ws : proc'[v] = proc[v] /\ vol'[v] = vol[v]
  BY <1>1
<1> QED BY <1>2, EngineTouch

(* So it does in a step that leaves it and its workers alone. *)
LEMMA EngineSame ==
  ASSUME Values, NEW h \in up, EngineOK(h),
         cmd'[h] = cmd[h], entry'[h] = entry[h], slot'[h] = slot[h],
         \A w \in Held(h) : proc'[w] = proc[w] /\ vol'[w] = vol[w],
         cmd[h].e \in Episodes /\ vol[cmd[h].e] # None => vol'[cmd[h].e] # None
  PROVE  EngineOK(h)'
<1>0. h \in Engines /\ cmd[h] \in Cmds
  BY DEF Values, Hosts
<1>1. Course(h)'
  BY <1>0 DEF EngineOK, Course, Starting, Cmds
<1>2. Apart(h)'
  BY DEF EngineOK, Apart
<1>3. PICK ws : ws = Workers \ Held(h)
  OBVIOUS
<1>4. \A v \in Workers \ ws : proc'[v] = proc[v] /\ vol'[v] = vol[v]
  BY <1>3
<1>5. /\ \A i \in Slots : slot[h][i].w \notin ws
      /\ cmd[h].w \notin ws
      /\ \A e \in Episodes : entry[h][e] \notin ws
  BY <1>3 DEF Held
<1> QED BY <1>1, <1>2, <1>4, <1>5, EngineTouch

-----------------------------------------------------------------------------
(* A step of one engine *)

OnlyEngine(g) ==
  /\ up' = up
  /\ \A h \in Engines \ {g} :
       cmd'[h] = cmd[h] /\ entry'[h] = entry[h] /\ slot'[h] = slot[h] /\ sched'[h] = sched[h]

(* The same process, whatever it is doing. *)
Like(p, q) ==
  /\ p.own = q.own /\ p.tmpl = q.tmpl /\ p.mnt = q.mnt
  /\ p.tag = q.tag /\ p.resume = q.resume /\ p.n = q.n

OthersSame(g) == \A h \in up \ {g} : \A w \in Held(h) : proc'[w] = proc[w] /\ vol'[w] = vol[w]

(* The engines that do not run are none of the step's business. *)
LEMMA OffStep ==
  ASSUME Values, Off, NEW g \in up, OnlyEngine(g)
  PROVE  Off'
<1> SUFFICES ASSUME NEW h \in Engines \ up
             PROVE  /\ cmd'[h] = Idle /\ sched'[h] = {}
                    /\ \A e \in Episodes : entry'[h][e] = None
                    /\ \A i \in Slots : slot'[h][i] = EmptySlot
  BY DEF Off, OnlyEngine
<1>1. h \in Engines \ {g}
  OBVIOUS
<1> QED BY <1>1 DEF Off, OnlyEngine

(* What one engine does to its own workers, to free ones and to who is on the directory of its *)
(* episode leaves the other engines their workers.                                              *)
LEMMA OthersHeld ==
  ASSUME RLInv, NEW g \in up,
         \A w \in Workers : proc[w].own \in up \ {g} /\ proc[w].st # "free"
                            /\ ~ (proc[w].mnt \in Episodes /\ proc[w].mnt = cmd[g].e)
                              => proc'[w] = proc[w] /\ vol'[w] = vol[w]
  PROVE  OthersSame(g)
<1> SUFFICES ASSUME NEW h \in up \ {g}, NEW w \in Held(h) PROVE proc'[w] = proc[w] /\ vol'[w] = vol[w]
  BY DEF OthersSame
<1>1. Values /\ EngineOK(h) /\ Mounts /\ OneHolder
  BY DEF RLInv
<1>2. w \in Workers /\ proc[w].own = h /\ proc[w].st # "free"
  BY <1>1, HeldIsOwn DEF Held
<1>3. ASSUME proc[w].mnt \in Episodes, proc[w].mnt = cmd[g].e PROVE FALSE
  <2>1. PICK e \in Episodes : e = cmd[g].e
    BY <1>3
  <2>2. Holds(h, e)
    BY <2>1, <1>1, <1>3, HeldIsOn
  <2>3. Holds(g, e)
    BY <2>1 DEF Holds
  <2> QED BY <2>2, <2>3, <1>1 DEF OneHolder
<1> QED BY <1>2, <1>3

(* The other engines keep their part of the invariant. *)
LEMMA OthersKeep ==
  ASSUME RLInv, NEW g \in up, OnlyEngine(g), OthersSame(g), EngineOK(g)',
         \A e \in Episodes : vol[e] # None /\ vol'[e] = None => cmd[g].e = e
  PROVE  \A h \in up' : EngineOK(h)'
<1> SUFFICES ASSUME NEW h \in up \ {g} PROVE EngineOK(h)'
  BY DEF OnlyEngine
<1>1. Values /\ EngineOK(h) /\ OneHolder /\ h \in Engines \ {g}
  BY DEF RLInv, Values, Hosts
<1>2. cmd'[h] = cmd[h] /\ entry'[h] = entry[h] /\ slot'[h] = slot[h]
  BY <1>1 DEF OnlyEngine
<1>3. cmd[h].e \in Episodes /\ vol[cmd[h].e] # None => vol'[cmd[h].e] # None
  BY <1>1 DEF OneHolder, Holds
<1>4. \A w \in Held(h) : proc'[w] = proc[w] /\ vol'[w] = vol[w]
  BY DEF OthersSame
<1> QED BY <1>1, <1>2, <1>3, <1>4, EngineSame

(* An episode the engine takes was with nobody. *)
LEMMA HoldersStep ==
  ASSUME RLInv, NEW g \in up, OnlyEngine(g),
         \A e \in Episodes : Holds(g, e)' => Holds(g, e) \/ ~ Served(e),
         \A e \in Episodes : cmd'[g].e = e => entry'[g][e] \notin Workers
  PROVE  OneHolder'
<1>1. OneHolder /\ up \subseteq Engines /\ up' = up
  BY DEF RLInv, Values, Hosts, OnlyEngine
<1>2. \A h \in up \ {g} : cmd'[h] = cmd[h] /\ entry'[h] = entry[h]
  BY <1>1 DEF OnlyEngine
<1>3. \A h \in up \ {g}, e \in Episodes : Holds(h, e)' <=> Holds(h, e)
  BY <1>2 DEF Holds
<1>4. \A h \in up \ {g}, e \in Episodes : Holds(h, e) => Served(e) /\ ~ Holds(g, e)
  BY <1>1 DEF Holds, Served, OneHolder
<1>5. \A h, k \in up, e \in Episodes : Holds(h, e)' /\ Holds(k, e)' => h = k
  <2> SUFFICES ASSUME NEW h \in up, NEW k \in up, NEW e \in Episodes, Holds(h, e)', Holds(k, e)', h # k PROVE FALSE
    OBVIOUS
  <2>1. h # g /\ k # g => Holds(h, e) /\ Holds(k, e)
    BY <1>3
  <2>2. CASE h = g
    BY <2>2, <1>3, <1>4
  <2>3. CASE k = g
    BY <2>3, <1>3, <1>4
  <2> QED BY <2>1, <2>2, <2>3, <1>1 DEF OneHolder
<1>6. \A h \in up, e \in Episodes : cmd'[h].e = e => entry'[h][e] \notin Workers
  BY <1>1, <1>2 DEF OneHolder
<1> QED BY <1>1, <1>5, <1>6 DEF OneHolder

(* What is mounted stays there. *)
LEMMA MountsStep ==
  ASSUME Values, Mounts, NEW ws, \A v \in Workers \ ws : proc'[v] = proc[v], \A v \in Workers \cap ws : Mounted(v)',
         \A e \in Episodes : vol[e] # None => vol'[e] # None
  PROVE  Mounts'
<1> SUFFICES ASSUME NEW v \in Workers PROVE Mounted(v)'
  BY DEF Mounts
<1>1. CASE v \in ws
  BY <1>1
<1>2. CASE v \notin ws
  <2>1. Mounted(v) /\ proc'[v] = proc[v] /\ proc[v] \in Procs
    BY <1>2 DEF Mounts, Values
  <2>2. PICK m : m = proc[v].mnt
    OBVIOUS
  <2>3. m \in Episodes /\ vol[m] # None => vol'[m] # None
    OBVIOUS
  <2> QED BY <2>1, <2>2, <2>3 DEF Mounted
<1> QED BY <1>1, <1>2

(* No worker begins to write, and who is written by is still being read from. *)
LEMMA WritersStep ==
  ASSUME RLInv, NEW g \in up, OnlyEngine(g),
         \A w \in Workers : Writer(w)' => Writer(w) /\ proc'[w].own = proc[w].own,
         \A w \in Workers : Writer(w)' => ~ Read(g, w) \/ cmd'[g] = cmd[g]
  PROVE  Writers'
<1> SUFFICES ASSUME NEW w \in Workers, Writer(w)' PROVE Read(proc[w].own, w)'
  BY DEF Writers
<1>1. PICK h : h = proc[w].own
  OBVIOUS
<1>2. Read(h, w) /\ proc'[w].own = h /\ up \subseteq Engines
  BY <1>1 DEF RLInv, Writers, Values, Hosts
<1>3. cmd'[h] = cmd[h] /\ up' = up
  BY <1>2 DEF OnlyEngine, Read
<1> QED BY <1>2, <1>3 DEF Read, Starting

(* While an episode is being started nobody writes its checkpoint. *)
LEMMA StartAlone ==
  ASSUME RLInv, NEW g \in up, NEW e \in Episodes \ cut, cmd[g].e = e, Starting(g)
  PROVE  /\ \A w \in Workers : ~ (Writes(w) /\ proc[w].mnt = e)
         /\ ~ Dumped(e)
         /\ \A h \in up \ {g} : cmd[h].e # e
<1>1. Values /\ OneHolder /\ Writers /\ \A h \in up : EngineOK(h)
  BY DEF RLInv
<1>2. ASSUME NEW w \in Workers, Writes(w), proc[w].mnt = e PROVE FALSE
  <2>1. PICK h : h = proc[w].own
    OBVIOUS
  <2>2. Read(h, w) /\ h \in up
    BY <2>1, <1>1, <1>2 DEF Writers, Writer, Read
  <2>3. InCmd(h, w, cmd[h].e)
    BY <2>2, <1>1 DEF EngineOK, Read
  <2>4. cmd[h].e = e
    BY <2>2, <2>3, <1>2 DEF InCmd, Read, Serves
  <2>5. h = g
    BY <2>2, <2>4, <1>1 DEF OneHolder, Holds
  <2> QED BY <2>2, <2>5 DEF Read
<1>3. ~ Dumped(e)
  BY <1>2 DEF Dumped, Writes
<1>4. \A h \in up \ {g} : cmd[h].e # e
  BY <1>1 DEF OneHolder, Holds
<1> QED BY <1>2, <1>3, <1>4

(* And what it wrote last is in its directory, or on its way. *)
LEMMA StartHas ==
  ASSUME RLInv, NEW g \in up, NEW e \in Episodes \ cut, cmd[g].e = e, Starting(g), last[e] # None
  PROVE  /\ Stored(e) \/ Moved(g, e)
         /\ cmd[g].pc # "adopt" => Stored(e)
         /\ Found(g, e, cmd[g].w)
<1>1. KeptOf(e)
  BY DEF RLInv, Kept
<1>2. \A h \in up : Moved(h, e) => h = g
  BY StartAlone DEF Moved
<1>3. ~ Dumped(e)
  BY StartAlone
<1> QED BY <1>1, <1>2, <1>3 DEF KeptOf, Moved

(* The checkpoint of the episode the engine works on. *)
LEMMA KeptStart ==
  ASSUME RLInv, NEW g \in up, OnlyEngine(g), NEW e \in Episodes, Holds(g, e) \/ ~ Served(e),
         last'[e] # None => Stored(e)' \/ Moved(g, e)' \/ Dumped(e)',
         last'[e] # None /\ cmd'[g].e = e /\ Starting(g)' => Found(g, e, cmd[g].w)'
  PROVE  KeptOf(e)'
<1>1. OneHolder /\ up \subseteq Engines /\ up' = up
  BY DEF RLInv, Values, Hosts, OnlyEngine
<1>2. \A h \in up \ {g} : cmd'[h].e # e
  <2> SUFFICES ASSUME NEW h \in up \ {g} PROVE cmd[h].e # e
    BY <1>1 DEF OnlyEngine
  <2> QED BY <1>1 DEF OneHolder, Holds, Served
<1>3. \A h \in up' : cmd'[h].e = e => h = g
  BY <1>1, <1>2
<1>4. last'[e] # None => (Dumped(e) \/ (\E h \in up : Moved(h, e)) \/ Stored(e))'
  BY <1>1
<1>5. last'[e] # None => (\A h \in up : cmd[h].e = e /\ Starting(h) => Found(h, e, cmd[h].w))'
  BY <1>3
<1> QED BY <1>4, <1>5 DEF KeptOf

(* What a start has found stays so while its worker is let alone. *)
LEMMA FoundSame ==
  ASSUME Values, NEW h \in up, EngineOK(h), NEW e \in Episodes, Found(h, e, cmd[h].w),
         cmd'[h] = cmd[h], last'[e] = last[e],
         cmd[h].w \in Workers => proc'[cmd[h].w] = proc[cmd[h].w]
  PROVE  Found(h, e, cmd[h].w)'
<1>1. Course(h) /\ cmd[h] \in Cmds
  BY DEF EngineOK, Values, Hosts
<1>2. cmd[h].pc = "read" => cmd[h].w \in Workers
  BY <1>1 DEF Course
<1>3. cmd[h].w # None => cmd[h].w \in Workers
  BY <1>1 DEF Cmds
<1>4. PICK w : w = cmd[h].w
  OBVIOUS
<1>5. w \in Workers => proc'[w] = proc[w]
  BY <1>4
<1>6. Found(h, e, w)'
  BY <1>2, <1>3, <1>4, <1>5 DEF Found
<1> QED BY <1>4, <1>6

(* The checkpoint of an episode that another engine works on, or none. *)
LEMMA KeptOther ==
  ASSUME RLInv, NEW g \in up, OnlyEngine(g), OthersSame(g), NEW e \in Episodes \ cut,
         cmd[g].e # e, cmd'[g].e = e => ~ Starting(g)',
         last'[e] = last[e], vol'[e] = vol[e],
         \A w \in Workers : proc[w].st = "dump" /\ proc[w].mnt = e => proc'[w].st = "dump" /\ proc'[w].mnt = e
  PROVE  KeptOf(e)'
<1> SUFFICES ASSUME last[e] # None
             PROVE  /\ Dumped(e)' \/ (\E h \in up' : Moved(h, e)') \/ Stored(e)'
                    /\ \A h \in up' : cmd'[h].e = e /\ Starting(h)' => Found(h, e, cmd[h].w)'
  BY DEF KeptOf
<1>1. KeptOf(e) /\ up' = up /\ up \subseteq Engines /\ Values
  BY DEF RLInv, Kept, OnlyEngine, Values, Hosts
<1>2. \A h \in up \ {g} : cmd'[h] = cmd[h] /\ cmd[h] \in Cmds
  BY <1>1 DEF OnlyEngine, Values
<1>3. \A h \in up \ {g} : cmd[h].w \in Workers => proc'[cmd[h].w] = proc[cmd[h].w] /\ vol'[cmd[h].w] = vol[cmd[h].w]
  BY DEF OthersSame, Held
<1>4. Dumped(e) => Dumped(e)'
  BY DEF Dumped
<1>5. Stored(e) => Stored(e)'
  BY DEF Stored
<1>6. ASSUME NEW h \in up, Moved(h, e) PROVE Moved(h, e)'
  <2>1. h # g /\ EngineOK(h)
    BY <1>6 DEF Moved, RLInv
  <2>2. cmd[h].w \in Workers
    BY <2>1, <1>6 DEF EngineOK, Course, Moved
  <2> QED BY <2>1, <2>2, <1>6, <1>2, <1>3 DEF Moved
<1>7. ASSUME NEW h \in up, cmd'[h].e = e, Starting(h)' PROVE Found(h, e, cmd[h].w)'
  <2>1. h # g /\ cmd'[h] = cmd[h] /\ EngineOK(h) /\ cmd[h] \in Cmds
    BY <1>7, <1>2 DEF RLInv
  <2>2. Found(h, e, cmd[h].w)
    BY <2>1, <1>1, <1>7 DEF KeptOf, Starting
  <2>3. cmd[h].w \in Workers => proc'[cmd[h].w] = proc[cmd[h].w]
    BY <2>1, <1>3
  <2> QED BY <2>1, <2>2, <2>3, <1>1, FoundSame
<1> QED BY <1>1, <1>4, <1>5, <1>6, <1>7 DEF KeptOf

(* The checkpoints in a step that goes on with no command. *)
LEMMA KeptStay ==
  ASSUME RLInv, NEW e \in Episodes \ cut, up' = up, cmd' = cmd, last'[e] = last[e], vol'[e] = vol[e],
         Dumped(e) => Dumped(e)',
         \A h \in up : cmd[h].w \in Workers =>
           proc'[cmd[h].w] = proc[cmd[h].w] /\ vol'[cmd[h].w] = vol[cmd[h].w]
  PROVE  KeptOf(e)'
<1>1. KeptOf(e) /\ Values /\ \A h \in up : EngineOK(h)
  BY DEF RLInv, Kept
<1>2. Stored(e) => Stored(e)'
  BY DEF Stored
<1>3. ASSUME NEW h \in up, Moved(h, e) PROVE Moved(h, e)'
  <2>1. cmd[h].w \in Workers
    BY <1>1, <1>3 DEF EngineOK, Course, Moved
  <2> QED BY <2>1, <1>3 DEF Moved
<1>4. \A h \in up : Found(h, e, cmd[h].w) => Found(h, e, cmd[h].w)'
  BY <1>1, FoundSame
<1> QED BY <1>1, <1>2, <1>3, <1>4 DEF KeptOf, Starting

-----------------------------------------------------------------------------
(* Boot, and the tasks that boot warm workers *)

Core == OneHolder /\ Mounts /\ Writers /\ Kept /\ \A g \in up : EngineOK(g)

(* A step that only schedules leaves everything else as it is. *)
LEMMA QuietStep ==
  ASSUME RLInv, up' = up, UNCHANGED <<cmd, entry, slot, proc, vol, last, cut>>
  PROVE  Core'
<1>1. OneHolder /\ Mounts /\ Writers /\ Kept /\ Values /\ \A g \in up : EngineOK(g)
  BY DEF RLInv
<1>2. OneHolder'
  BY <1>1 DEF OneHolder, Holds
<1>3. Mounts'
  BY <1>1 DEF Mounts, Mounted
<1>4. Writers'
  BY <1>1 DEF Writers, Writer, Writes, Read, Starting
<1>5. Kept'
  BY <1>1 DEF Kept, KeptOf, Dumped, Moved, Stored, Found, Starting
<1>6. \A g \in up : EngineOK(g)'
  BY <1>1, EngineSame
<1> QED BY <1>2, <1>3, <1>4, <1>5, <1>6 DEF Core

(* The initial states. *)
LEMMA InitHolds == RLInit => RLInv
<1> SUFFICES ASSUME RLInit PROVE RLInv
  OBVIOUS
<1>1. Values
  <2>1. Idle \in Cmds /\ NoProc \in Procs /\ EmptySlot \in SlotForms
    BY BoundsAssumption DEF Idle, Cmds, Points, Ops, NoProc, Procs, EmptySlot, SlotForms
  <2> QED BY <2>1, BoundsAssumption DEF RLInit, Values, Hosts, Counts
<1>2. Off
  BY DEF RLInit, Off
<1>3. Core
  <2>1. Mounts
    BY NamesAssumption DEF RLInit, Mounts, Mounted, NoProc
  <2>2. Writers
    BY DEF RLInit, Writers, Writer, Writes, NoProc
  <2>3. Kept
    BY DEF RLInit, Kept, KeptOf
  <2> QED BY <2>1, <2>2, <2>3 DEF RLInit, OneHolder, Core
<1> QED BY <1>1, <1>2, <1>3 DEF RLInv, Core

(* An engine that boots has nothing yet. *)
LEMMA BootKeeps ==
  ASSUME RLInv, NEW g \in Engines, Boot(g)
  PROVE  RLInv'
<1> USE DEF Boot, disk, NoFault
<1>1. OneHolder /\ Mounts /\ Writers /\ Kept /\ Values /\ Off /\ \A h \in up : EngineOK(h)
  BY DEF RLInv
<1>2. Values'
  BY <1>1 DEF Values, Hosts, Counts
<1>3. Off'
  BY <1>1 DEF Off
<1>4. /\ cmd[g] = Idle
      /\ \A e \in Episodes : entry[g][e] = None
      /\ \A i \in Slots : slot[g][i] = EmptySlot
  BY <1>1 DEF Off
<1>5. \A e \in Episodes : ~ Holds(g, e)
  BY <1>4, NamesAssumption DEF Holds, Idle
<1>6. OneHolder'
  BY <1>1, <1>5 DEF OneHolder, Holds
<1>7. Mounts'
  BY <1>1 DEF Mounts, Mounted
<1>8. Writers'
  BY <1>1 DEF Writers, Writer, Writes, Read, Starting
<1>9. Kept'
  BY <1>1, <1>4, NamesAssumption DEF Kept, KeptOf, Dumped, Moved, Stored, Found, Starting, Idle
<1>10. \A h \in up : EngineOK(h)'
  BY <1>1, EngineSame
<1>11. EngineOK(g)'
  <2>1. Course(g)'
    BY <1>4 DEF Course, Idle
  <2>2. InSlots(g)'
    <3> SUFFICES ASSUME NEW i \in Slots PROVE InSlot(g, i, slot[g][i].w)'
      BY DEF InSlots
    <3> QED BY <1>4, NamesAssumption DEF InSlot, EmptySlot, Idle
  <2>5. Apart(g)'
    BY <1>4 DEF Apart, EmptySlot
  <2>3. InCmd(g, cmd[g].w, cmd[g].e)'
    BY <1>4 DEF InCmd, Idle
  <2>4. InEntries(g)'
    BY <1>4, NamesAssumption DEF InEntries, InEntry
  <2> QED BY <2>1, <2>2, <2>3, <2>4, <2>5 DEF EngineOK
<1> QED BY <1>2, <1>3, <1>6, <1>7, <1>8, <1>9, <1>10, <1>11 DEF RLInv

(* A template is scheduled. *)
LEMMA RlPrespawnKeeps ==
  ASSUME RLInv, NEW g \in Engines, NEW t \in Shapes, RlPrespawn(g, t)
  PROVE  RLInv'
<1> USE DEF RlPrespawn, disk, engines, NextCmd
<1>1. Values /\ Off
  BY DEF RLInv
<1>2. Values'
  BY <1>1, BoundsAssumption DEF Values, Hosts, Counts
<1>3. Off'
  BY <1>1 DEF Off, Values
<1>4. Core'
  BY QuietStep
<1> QED BY <1>2, <1>3, <1>4 DEF RLInv, Core

(* There is no slot to boot into. *)
LEMMA PrespawnFullKeeps ==
  ASSUME RLInv, NEW g \in Engines, PrespawnFull(g)
  PROVE  RLInv'
<1> USE DEF PrespawnFull, disk, engines, NoFault
<1>1. Values /\ Off
  BY DEF RLInv
<1>2. Values'
  BY <1>1 DEF Values, Hosts, Counts
<1>3. Off'
  BY <1>1 DEF Off, Values
<1>4. Core'
  BY QuietStep
<1> QED BY <1>2, <1>3, <1>4 DEF RLInv, Core

(* The hello frame is read and the slot published. *)
LEMMA PrespawnReadyKeeps ==
  ASSUME RLInv, NEW g \in Engines, NEW i \in Slots, PrespawnReady(g, i)
  PROVE  RLInv'
<1>0. Values /\ Off /\ OneHolder /\ Mounts /\ Writers /\ Kept /\ EngineOK(g) /\ g \in up
  BY DEF RLInv, PrespawnReady
<1>u. UNCHANGED <<up, done, swept, cmd, entry, vol, last, cut, faults, cmds>>
  BY DEF PrespawnReady, disk, engines, NoFault
<1>1. PICK w : w = slot[g][i].w
  OBVIOUS
<1>2. InSlot(g, i, w) /\ slot[g][i] \in SlotForms
  BY <1>0, <1>1 DEF EngineOK, InSlots, Values
<1>3. w \in Workers /\ proc[w] \in Procs /\ proc[w].st = "warm" /\ Warm(g, w) /\ vol[w] = NewDir
  BY <1>0, <1>1, <1>2, NamesAssumption DEF InSlot, SlotForms, Live, Values, PrespawnReady
<1>4. /\ \A v \in Workers \ {w} : proc'[v] = proc[v]
      /\ proc'[w].rep = None
      /\ proc'[w].st = "warm" /\ Like(proc'[w], proc[w])
      /\ proc' \in [Workers -> Procs]
  BY <1>0, <1>1, <1>3, ZenonT(30) DEF Values, Procs, Like, PrespawnReady
<1>5. /\ slot'[g][i].st = "ready" /\ slot'[g][i].w = w
      /\ \A j \in Slots \ {i} : slot'[g][j] = slot[g][j]
      /\ slot' \in [Engines -> [Slots -> SlotForms]]
      /\ OnlyEngine(g)
  BY <1>0, <1>1, <1>2 DEF Values, SlotForms, OnlyEngine, PrespawnReady, engines
<1>6. sched' \in [Engines -> SUBSET Shapes]
  BY <1>0, <1>1, <1>3 DEF Values, Warm, PrespawnReady
<1>7. Values'
  BY <1>0, <1>4, <1>5, <1>6, <1>u DEF Values, Hosts, Counts
<1>8. OthersSame(g)
  BY <1>0, <1>3, <1>4, <1>u, OthersHeld DEF Warm
<1>9. /\ cmd[g].w # w
      /\ \A e \in Episodes : entry[g][e] # w
      /\ \A j \in Slots \ {i} : slot[g][j].w # w
  BY <1>0, <1>1, <1>3, SlotOnly
<1>10. EngineOK(g)'
  <2>1. Course(g)'
    BY <1>0, <1>u DEF EngineOK, Course, Starting
  <2>2. Apart(g)'
    BY <1>0, <1>1, <1>5, <1>u DEF EngineOK, Apart
  <2>3. InSlot(g, i, slot[g][i].w)'
    BY <1>2, <1>3, <1>4, <1>5, <1>u, NamesAssumption DEF InSlot, Warm, Like
  <2>4. \A v \in Workers \ {w} : proc'[v] = proc[v] /\ vol'[v] = vol[v]
    BY <1>4, <1>u
  <2>5. \A j \in Slots : (slot'[g][j] = slot[g][j] /\ slot[g][j].w \notin {w}) \/ InSlot(g, j, slot[g][j].w)'
    BY <2>3, <1>5, <1>9
  <2>6. cmd'[g] = cmd[g] /\ cmd[g].w \notin {w}
    BY <1>9, <1>u
  <2>7. \A e \in Episodes : entry'[g][e] = entry[g][e] /\ entry[g][e] \notin {w}
    BY <1>9, <1>u
  <2> QED BY <2>1, <2>2, <2>4, <2>5, <2>6, <2>7, <1>0, EngineTouch
<1>11. OneHolder'
  BY <1>0, <1>u DEF OneHolder, Holds
<1>12. Mounts'
  <2>1. \A v \in Workers \cap {w} : Mounted(v)'
    BY <1>3, <1>4 DEF Warm, Like, Mounted
  <2>2. \A e \in Episodes : vol[e] # None => vol'[e] # None
    BY <1>u
  <2> QED BY <2>1, <2>2, <1>0, <1>4, MountsStep
<1>13. Writers'
  <2>1. \A v \in Workers : Writer(v)' => Writer(v) /\ proc'[v].own = proc[v].own
    BY <1>3, <1>4, <1>u DEF Writer, Writes, Like
  <2> QED BY <2>1, <1>0, <1>5, <1>u, WritersStep
<1>14. \A h \in up : cmd[h].w # w
  BY <1>0, <1>3, <1>9, HeldIsOwn DEF RLInv, Warm, Held
<1>15. Kept'
  <2> SUFFICES ASSUME NEW e \in Episodes \ cut PROVE KeptOf(e)'
    BY <1>u DEF Kept
  <2>1. Dumped(e) => Dumped(e)'
    BY <1>3, <1>4 DEF Dumped
  <2> QED BY <2>1, <1>0, <1>4, <1>14, <1>u, KeptStay
<1>16. \A e \in Episodes : vol[e] # None /\ vol'[e] = None => cmd[g].e = e
  BY <1>u
<1> QED BY <1>0, <1>5, <1>7, <1>8, <1>10, <1>11, <1>12, <1>13, <1>15, <1>16, OffStep, OthersKeep DEF RLInv

(* A boot that failed leaves its slot and its volume. *)
LEMMA PrespawnFailsKeeps ==
  ASSUME RLInv, NEW g \in Engines, NEW i \in Slots, PrespawnFails(g, i)
  PROVE  RLInv'
<1>0. Values /\ Off /\ OneHolder /\ Mounts /\ Writers /\ Kept /\ EngineOK(g) /\ g \in up
  BY DEF RLInv, PrespawnFails
<1>u. UNCHANGED <<up, done, swept, cmd, entry, sched, last, cut, faults, cmds>>
  BY DEF PrespawnFails, engines, NoFault
<1>1. PICK w : w = slot[g][i].w
  OBVIOUS
<1>2. InSlot(g, i, w) /\ slot[g][i] \in SlotForms /\ slot[g][i].st = "boot"
  BY <1>0, <1>1 DEF EngineOK, InSlots, Values, PrespawnFails
<1>3. w \in Workers /\ proc[w].st \in {"boot", "warm", "dead"} /\ Warm(g, w) /\ w \notin Episodes
  BY <1>1, <1>2, NamesAssumption DEF InSlot, SlotForms
<1>4. /\ \A v \in Workers \ {w} : proc'[v] = proc[v]
      /\ proc'[w] = NoProc
      /\ proc' \in [Workers -> Procs]
  <2>1. NoProc \in Procs
    BY BoundsAssumption DEF Procs, NoProc, Ops
  <2>2. proc' = Without(proc, {w})
    BY <1>1 DEF PrespawnFails
  <2> QED BY <2>1, <2>2, <1>0, <1>3 DEF Without, Values
<1>5. /\ slot'[g][i] = EmptySlot
      /\ \A j \in Slots \ {i} : slot'[g][j] = slot[g][j]
      /\ slot' \in [Engines -> [Slots -> SlotForms]]
      /\ OnlyEngine(g)
  <2>1. EmptySlot \in SlotForms
    BY DEF EmptySlot, SlotForms
  <2>2. slot' = [slot EXCEPT ![g][i] = EmptySlot]
    BY DEF PrespawnFails
  <2> QED BY <2>1, <2>2, <1>0, <1>u DEF Values, OnlyEngine
<1>6. /\ \A v \in (Episodes \cup Workers) \ {w} : vol'[v] = vol[v]
      /\ vol' \in [Episodes \cup Workers -> {None} \cup Dirs]
  <2>1. vol' = [vol EXCEPT ![w] = None]
    BY <1>1 DEF PrespawnFails
  <2> QED BY <2>1, <1>0, <1>3 DEF Values
<1>7. Values'
  BY <1>0, <1>4, <1>5, <1>6, <1>u DEF Values, Hosts, Counts
<1>8. OthersSame(g)
  BY <1>0, <1>3, <1>4, <1>6, OthersHeld DEF Warm
<1>9. /\ cmd[g].w # w
      /\ \A e \in Episodes : entry[g][e] # w
      /\ \A j \in Slots \ {i} : slot[g][j].w # w
  BY <1>0, <1>1, <1>3, SlotOnly
<1>10. EngineOK(g)'
  <2>1. Course(g)'
    <3>1. cmd[g].e \in Episodes => vol'[cmd[g].e] = vol[cmd[g].e]
      BY <1>3, <1>6
    <3> QED BY <3>1, <1>0, <1>u DEF EngineOK, Course, Starting
  <2>2. Apart(g)'
    BY <1>0, <1>1, <1>5, <1>u DEF EngineOK, Apart, EmptySlot
  <2>3. InSlot(g, i, slot[g][i].w)'
    BY <1>5, NamesAssumption DEF InSlot, EmptySlot
  <2>4. \A v \in Workers \ {w} : proc'[v] = proc[v] /\ vol'[v] = vol[v]
    BY <1>4, <1>6
  <2>5. \A j \in Slots : (slot'[g][j] = slot[g][j] /\ slot[g][j].w \notin {w}) \/ InSlot(g, j, slot[g][j].w)'
    BY <2>3, <1>5, <1>9
  <2>6. cmd'[g] = cmd[g] /\ cmd[g].w \notin {w}
    BY <1>9, <1>u
  <2>7. \A e \in Episodes : entry'[g][e] = entry[g][e] /\ entry[g][e] \notin {w}
    BY <1>9, <1>u
  <2> QED BY <2>1, <2>2, <2>4, <2>5, <2>6, <2>7, <1>0, EngineTouch
<1>11. OneHolder'
  BY <1>0, <1>u DEF OneHolder, Holds
<1>12. Mounts'
  <2>1. \A v \in Workers \cap {w} : Mounted(v)'
    BY <1>4, NamesAssumption DEF Mounted, NoProc
  <2>2. \A e \in Episodes : vol[e] # None => vol'[e] # None
    BY <1>3, <1>6
  <2> QED BY <2>1, <2>2, <1>0, <1>4, MountsStep
<1>13. Writers'
  <2>1. \A v \in Workers : Writer(v)' => Writer(v) /\ proc'[v].own = proc[v].own
    BY <1>4, <1>u DEF Writer, Writes, NoProc
  <2> QED BY <2>1, <1>0, <1>5, <1>u, WritersStep
<1>14. \A h \in up : cmd[h].w # w
  BY <1>0, <1>3, <1>9, HeldIsOwn DEF RLInv, Warm, Held
<1>15. Kept'
  <2> SUFFICES ASSUME NEW e \in Episodes \ cut PROVE KeptOf(e)'
    BY <1>u DEF Kept
  <2>1. Dumped(e) => Dumped(e)'
    BY <1>3, <1>4 DEF Dumped
  <2>2. vol'[e] = vol[e]
    BY <1>3, <1>6
  <2> QED BY <2>1, <2>2, <1>0, <1>4, <1>6, <1>14, <1>u, KeptStay
<1>16. \A e \in Episodes : vol[e] # None /\ vol'[e] = None => cmd[g].e = e
  BY <1>3, <1>6
<1> QED BY <1>0, <1>5, <1>7, <1>8, <1>10, <1>11, <1>12, <1>13, <1>15, <1>16, OffStep, OthersKeep DEF RLInv

(* What a boot sweeps, and the processes after it. *)
Swept(g) == IF g \in swept THEN {} ELSE Stale(g)
Wiped(stale) == [p \in Workers |->
  IF proc[p].st # "free" /\ proc[p].mnt \in stale THEN [proc[p] EXCEPT !.mnt = Gone]
  ELSE IF p \in stale /\ proc[p].st = "free" THEN NoProc ELSE proc[p]]

(* A boot takes a new number; the volumes it sweeps are of engines that are gone. *)
LEMMA PrespawnBootKeeps ==
  ASSUME RLInv, NEW g \in Engines, PrespawnBoot(g)
  PROVE  RLInv'
<1>0. Values /\ Off /\ OneHolder /\ Mounts /\ Writers /\ Kept /\ EngineOK(g) /\ g \in up
  BY DEF RLInv, PrespawnBoot
<1>u. UNCHANGED <<up, done, cmd, entry, last, cut, faults, cmds>>
  BY DEF PrespawnBoot, NoFault
<1>a. PICK t \in sched[g], i \in Slots, w \in Workers :
        /\ slot[g][i].st = "empty"
        /\ Fresh(w)
        /\ swept' = swept \cup {g}
        /\ vol' = [v \in Episodes \cup Workers |-> IF v = w THEN NewDir ELSE IF v \in Swept(g) THEN None ELSE vol[v]]
        /\ proc' = [Wiped(Swept(g)) EXCEPT ![w] = [NoProc EXCEPT !.st = "boot", !.own = g, !.tmpl = t, !.mnt = w]]
        /\ slot' = [slot EXCEPT ![g][i] = [st |-> "boot", w |-> w]]
        /\ sched' = [sched EXCEPT ![g] = @ \ {t}]
  BY DEF PrespawnBoot, Swept, Wiped
<1>b. PICK stale, wiped : stale = Swept(g) /\ wiped = Wiped(stale)
  OBVIOUS
<1>1. /\ slot[g][i].st = "empty"
      /\ Fresh(w)
      /\ swept' = swept \cup {g}
      /\ vol' = [v \in Episodes \cup Workers |-> IF v = w THEN NewDir ELSE IF v \in stale THEN None ELSE vol[v]]
      /\ proc' = [wiped EXCEPT ![w] = [NoProc EXCEPT !.st = "boot", !.own = g, !.tmpl = t, !.mnt = w]]
      /\ slot' = [slot EXCEPT ![g][i] = [st |-> "boot", w |-> w]]
      /\ sched' = [sched EXCEPT ![g] = @ \ {t}]
      /\ wiped = [p \in Workers |->
                    IF proc[p].st # "free" /\ proc[p].mnt \in stale THEN [proc[p] EXCEPT !.mnt = Gone]
                    ELSE IF p \in stale /\ proc[p].st = "free" THEN NoProc ELSE proc[p]]
  BY <1>a, <1>b DEF Wiped
<1>2. /\ stale \subseteq Workers
      /\ \A v \in stale : proc[v].own \notin up
      /\ \A v \in Workers : proc[v].mnt \in stale => proc[v].own \notin up /\ proc[v].mnt = v
  BY <1>0, <1>b DEF Swept, Stale, Mounts, Mounted
<1>3. /\ w \notin Episodes /\ proc[w].st = "free" /\ vol[w] = None /\ w # None /\ w # Gone
      /\ t \in Shapes /\ NoProc \in Procs /\ EmptySlot \in SlotForms
  BY <1>0, <1>1, BoundsAssumption, NamesAssumption
     DEF Fresh, Unused, Values, Procs, NoProc, Ops, EmptySlot, SlotForms
<1>4. /\ proc' \in [Workers -> Procs]
      /\ proc'[w].st = "boot" /\ proc'[w].own = g /\ proc'[w].tmpl = t /\ proc'[w].mnt = w
      /\ proc'[w].tag = 0 /\ proc'[w].rep = None
      /\ \A v \in Workers \ {w} : proc'[v] = wiped[v]
  <2>1. PICK q : q = [NoProc EXCEPT !.st = "boot", !.own = g, !.tmpl = t, !.mnt = w]
    OBVIOUS
  <2>a. q = [st |-> "boot", own |-> g, tmpl |-> t, mnt |-> w, resume |-> FALSE, n |-> 0, cnt |-> 0,
             op |-> None, tag |-> 0, left |-> 0, rep |-> None]
    BY <2>1 DEF NoProc
  <2>b. q.st = "boot" /\ q.own = g /\ q.tmpl = t /\ q.mnt = w /\ q.tag = 0 /\ q.rep = None
    BY <2>a
  <2>2. q \in Procs
    BY <2>a, <1>3, BoundsAssumption DEF Procs
  <2>3. wiped \in [Workers -> Procs]
    <3> SUFFICES ASSUME NEW v \in Workers PROVE wiped[v] \in Procs
      BY <1>1
    <3>1. proc[v] \in Procs
      BY <1>0 DEF Values
    <3>2. [proc[v] EXCEPT !.mnt = Gone] \in Procs
      BY <3>1 DEF Procs
    <3> QED BY <3>1, <3>2, <1>1, <1>3
  <2>4. proc' = [wiped EXCEPT ![w] = q]
    BY <2>1, <1>1
  <2> QED BY <2>b, <2>2, <2>3, <2>4
<1>5. /\ \A v \in Workers \ {w} : proc'[v] = proc[v] \/ proc[v].own \notin up
      /\ \A v \in Workers \ {w} : \/ proc'[v] = proc[v]
                                  \/ proc'[v] = NoProc
                                  \/ proc'[v].mnt = Gone /\ proc'[v].st = proc[v].st /\ proc[v].st # "free" /\ proc[v].mnt = v
  <2>1. \A v \in Workers : proc[v] \in Procs
    BY <1>0 DEF Values
  <2>2. ASSUME NEW v \in Workers \ {w}
        PROVE  /\ proc'[v] = proc[v] \/ proc[v].own \notin up
               /\ \/ proc'[v] = proc[v]
                  \/ proc'[v] = NoProc
                  \/ proc'[v].mnt = Gone /\ proc'[v].st = proc[v].st /\ proc[v].st # "free" /\ proc[v].mnt = v
    <3>1. CASE proc[v].st # "free" /\ proc[v].mnt \in stale
      <4>1. proc'[v] = [proc[v] EXCEPT !.mnt = Gone]
        BY <3>1, <1>1, <1>4
      <4> QED BY <4>1, <3>1, <1>2, <2>1 DEF Procs
    <3>2. CASE v \in stale /\ proc[v].st = "free"
      <4>1. proc'[v] = NoProc
        BY <3>2, <1>1, <1>4
      <4> QED BY <4>1, <3>2, <1>2
    <3>3. CASE ~ (proc[v].st # "free" /\ proc[v].mnt \in stale) /\ ~ (v \in stale /\ proc[v].st = "free")
      <4>1. proc'[v] = proc[v]
        BY <3>3, <1>1, <1>4
      <4> QED BY <4>1
    <3> QED BY <3>1, <3>2, <3>3
  <2> QED BY <2>2
<1>6. /\ vol'[w] = NewDir
      /\ \A e \in Episodes : vol'[e] = vol[e]
      /\ \A v \in Workers \ {w} : vol'[v] = vol[v] \/ proc[v].own \notin up
      /\ vol' \in [Episodes \cup Workers -> {None} \cup Dirs]
  <2>1. NewDir \in Dirs
    BY DEF NewDir, Dirs
  <2>2. \A e \in Episodes : e \notin stale /\ e # w
    BY <1>2, <1>3, NamesAssumption
  <2> QED BY <2>1, <2>2, <1>0, <1>1, <1>2 DEF Values
<1>7. /\ slot'[g][i].st = "boot" /\ slot'[g][i].w = w
      /\ \A j \in Slots \ {i} : slot'[g][j] = slot[g][j]
      /\ slot' \in [Engines -> [Slots -> SlotForms]]
      /\ sched' \in [Engines -> SUBSET Shapes]
      /\ OnlyEngine(g)
  <2>1. PICK q : q = [st |-> "boot", w |-> w]
    OBVIOUS
  <2>2. q \in SlotForms /\ q.st = "boot" /\ q.w = w
    BY <2>1 DEF SlotForms
  <2>3. slot' = [slot EXCEPT ![g][i] = q]
    BY <2>1, <1>1
  <2> QED BY <2>2, <2>3, <1>0, <1>1, <1>u DEF Values, OnlyEngine
<1>8. Values'
  BY <1>0, <1>1, <1>4, <1>6, <1>7, <1>u DEF Values, Hosts, Counts
<1>9. \A h \in up : w \notin Held(h)
  BY <1>3, <1>0, HeldIsOwn DEF RLInv
<1>10. \A h \in up : \A v \in Held(h) : v # w /\ proc'[v] = proc[v] /\ vol'[v] = vol[v]
  <2> SUFFICES ASSUME NEW h \in up, NEW v \in Held(h) PROVE v # w /\ proc'[v] = proc[v] /\ vol'[v] = vol[v]
    OBVIOUS
  <2>1. proc[v].own = h /\ v \in Workers \ {w}
    BY <1>0, <1>9, HeldIsOwn DEF RLInv, Held
  <2> QED BY <2>1, <1>5, <1>6
<1>11. OthersSame(g)
  BY <1>10 DEF OthersSame
<1>12. EngineOK(g)'
  <2>1. Course(g)'
    BY <1>0, <1>6, <1>u DEF EngineOK, Course, Starting
  <2>2. \A j \in Slots : slot[g][j].w # w
    BY <1>0, <1>9 DEF Held
  <2>3. cmd[g].w # w
    BY <1>0, <1>9 DEF Held
  <2>4. Apart(g)'
    BY <2>2, <2>3, <1>0, <1>7, <1>u DEF EngineOK, Apart
  <2>5. InSlot(g, i, slot[g][i].w)'
    <3>1. vol'[w] # None
      BY <1>6, DirsThere
    <3>2. InSlot(g, i, w)'
      BY <3>1, <1>3, <1>4, <1>6, <1>7, NamesAssumption DEF InSlot, Warm
    <3> QED BY <3>2, <1>7
  <2>6. PICK ws : ws = Workers \ Held(g)
    OBVIOUS
  <2>7. \A v \in Workers \ ws : proc'[v] = proc[v] /\ vol'[v] = vol[v]
    BY <2>6, <1>0, <1>10
  <2>8. \A j \in Slots : (slot'[g][j] = slot[g][j] /\ slot[g][j].w \notin ws) \/ InSlot(g, j, slot[g][j].w)'
    BY <2>5, <2>6, <1>7 DEF Held
  <2>9. cmd'[g] = cmd[g] /\ cmd[g].w \notin ws
    BY <2>6, <1>u DEF Held
  <2>10. \A e \in Episodes : entry'[g][e] = entry[g][e] /\ entry[g][e] \notin ws
    BY <2>6, <1>u DEF Held
  <2> QED BY <2>1, <2>4, <2>7, <2>8, <2>9, <2>10, <1>0, EngineTouch
<1>13. OneHolder'
  BY <1>0, <1>u DEF OneHolder, Holds
<1>14. Mounts'
  <2> SUFFICES ASSUME NEW v \in Workers PROVE Mounted(v)'
    BY DEF Mounts
  <2>1. CASE v = w
    BY <2>1, <1>4 DEF Mounted
  <2>2. CASE v # w /\ proc'[v] = proc[v]
    <3>1. Mounted(v)
      BY <1>0 DEF Mounts
    <3>2. PICK m : m = proc[v].mnt
      OBVIOUS
    <3>3. m \in Episodes => vol'[m] = vol[m]
      BY <1>6
    <3> QED BY <2>2, <3>1, <3>2, <3>3 DEF Mounted
  <2>3. CASE proc'[v] = NoProc
    BY <2>3, NamesAssumption DEF Mounted, NoProc
  <2>4. CASE v # w /\ proc'[v].mnt = Gone /\ proc'[v].st = proc[v].st /\ proc[v].st # "free"
    BY <2>4, NamesAssumption DEF Mounted
  <2> QED BY <2>1, <2>2, <2>3, <2>4, <1>5
<1>15. Writers'
  <2>1. \A v \in Workers : Writer(v)' => Writer(v) /\ proc'[v].own = proc[v].own
    BY <1>4, <1>5, <1>u, NamesAssumption DEF Writer, Writes, NoProc
  <2> QED BY <2>1, <1>0, <1>7, <1>u, WritersStep
<1>16. Kept'
  <2> SUFFICES ASSUME NEW e \in Episodes \ cut PROVE KeptOf(e)'
    BY <1>u DEF Kept
  <2>1. ASSUME NEW v \in Workers, proc[v].st = "dump", proc[v].mnt = e PROVE Dumped(e)'
    <3>1. v # w /\ v # e
      BY <2>1, <1>3, NamesAssumption
    <3>2. ~ (proc[v].mnt \in stale) /\ proc'[v] = wiped[v]
      BY <2>1, <3>1, <1>2, <1>4
    <3>3. proc'[v] = proc[v]
      BY <2>1, <3>2, <1>1
    <3> QED BY <2>1, <3>3 DEF Dumped
  <2>2. \A h \in up : cmd[h].w \in Workers => proc'[cmd[h].w] = proc[cmd[h].w] /\ vol'[cmd[h].w] = vol[cmd[h].w]
    BY <1>10 DEF Held
  <2> QED BY <2>1, <2>2, <1>0, <1>6, <1>u, KeptStay DEF Dumped
<1>17. \A e \in Episodes : vol[e] # None /\ vol'[e] = None => cmd[g].e = e
  BY <1>6
<1> QED BY <1>0, <1>7, <1>8, <1>11, <1>12, <1>13, <1>14, <1>15, <1>16, <1>17, OffStep, OthersKeep DEF RLInv

-----------------------------------------------------------------------------
(* A start up to the worker it claims *)

(* The manifest of an episode that was started before sends the start on to a resume. *)
LEMMA StartKeeps ==
  ASSUME RLInv, NEW g \in Engines, NEW e \in Episodes, Start(g, e)
  PROVE  RLInv'
<1>0. Values /\ Off /\ OneHolder /\ Mounts /\ Writers /\ Kept /\ EngineOK(g) /\ g \in up
  BY DEF RLInv, Start
<1>u. UNCHANGED <<up, done, swept, entry, slot, sched, proc, faults>> /\ cmds' \in 0..MaxCmds
  BY <1>0, BoundsAssumption DEF Start, engines, NextCmd, Values, Counts
<1>1. PICK dir : dir = IF vol[e] = None THEN NewDir ELSE vol[e]
  OBVIOUS
<1>2. dir \in Dirs /\ e # None /\ e \notin Workers
  BY <1>0, <1>1, DirsThere, NamesAssumption DEF Values
<1>3. /\ cmd[g].pc = "idle" /\ cmd[g] = Idle /\ ~ Served(e)
      /\ cmd' = [cmd EXCEPT ![g] = [Idle EXCEPT !.pc = "claim", !.op = "start", !.e = e, !.resume = ~ ~ dir.manifest]]
      /\ vol' = [vol EXCEPT ![e] = IF ~ dir.manifest THEN [dir EXCEPT !.ckpt = None] ELSE dir]
      /\ last' = [last EXCEPT ![e] = IF ~ dir.manifest THEN None ELSE @]
      /\ cut' = IF dir.manifest \/ \E w \in Workers : proc[w].mnt = e /\ Writes(w) THEN cut ELSE cut \ {e}
  BY <1>0, <1>1 DEF Start, ResumeMode, EngineOK, Course
<1>4. /\ cmd' \in [Engines -> Cmds]
      /\ cmd'[g].pc = "claim" /\ cmd'[g].op = "start" /\ cmd'[g].e = e /\ cmd'[g].w = None
      /\ cmd'[g].resume = dir.manifest
      /\ OnlyEngine(g)
  <2>1. PICK q : q = [Idle EXCEPT !.pc = "claim", !.op = "start", !.e = e, !.resume = ~ ~ dir.manifest]
    OBVIOUS
  <2>2. q \in Cmds /\ q.pc = "claim" /\ q.op = "start" /\ q.e = e /\ q.w = None /\ q.resume = dir.manifest
    <3>1. CASE dir.manifest = TRUE
      <4>1. q = [Idle EXCEPT !.pc = "claim", !.op = "start", !.e = e, !.resume = TRUE]
        BY <2>1, <3>1
      <4>2. q = [pc |-> "claim", op |-> "start", e |-> e, w |-> None, resume |-> TRUE, i |-> 0, tag |-> 0]
        BY <4>1 DEF Idle
      <4>3. q \in Cmds
        BY <4>2 DEF Cmds, Points, Ops
      <4>4. q.pc = "claim" /\ q.op = "start" /\ q.e = e /\ q.w = None
        BY <4>2
      <4>5. q.resume = TRUE
        BY <4>2
      <4> QED BY <4>3, <4>4, <4>5, <3>1
    <3>2. CASE dir.manifest = FALSE
      <4>1. q = [Idle EXCEPT !.pc = "claim", !.op = "start", !.e = e, !.resume = FALSE]
        BY <2>1, <3>2
      <4>2. q = [pc |-> "claim", op |-> "start", e |-> e, w |-> None, resume |-> FALSE, i |-> 0, tag |-> 0]
        BY <4>1 DEF Idle
      <4>3. q \in Cmds
        BY <4>2 DEF Cmds, Points, Ops
      <4>4. q.pc = "claim" /\ q.op = "start" /\ q.e = e /\ q.w = None
        BY <4>2
      <4>5. q.resume = FALSE
        BY <4>2
      <4> QED BY <4>3, <4>4, <4>5, <3>2
    <3> QED BY <3>1, <3>2, <1>2 DEF Dirs
  <2>3. cmd' = [cmd EXCEPT ![g] = q]
    BY <2>1, <1>3
  <2> QED BY <2>2, <2>3, <1>0, <1>u DEF Values, OnlyEngine
<1>5. /\ vol' \in [Episodes \cup Workers -> {None} \cup Dirs]
      /\ vol'[e] # None /\ (dir.manifest => vol'[e] = vol[e])
      /\ \A v \in (Episodes \cup Workers) \ {e} : vol'[v] = vol[v]
  <2>1. PICK d : d = IF ~ dir.manifest THEN [dir EXCEPT !.ckpt = None] ELSE dir
    OBVIOUS
  <2>2. d \in Dirs /\ d # None
    BY <2>1, <1>2, DirsThere DEF Dirs
  <2>3. vol' = [vol EXCEPT ![e] = d]
    BY <2>1, <1>3
  <2>4. dir.manifest => d = vol[e]
    BY <2>1, <1>1 DEF NewDir
  <2> QED BY <2>2, <2>3, <2>4, <1>0 DEF Values
<1>6. /\ last' \in [Episodes -> {None} \cup 0..MaxSteps]
      /\ last'[e] = IF ~ dir.manifest THEN None ELSE last[e]
      /\ \A f \in Episodes \ {e} : last'[f] = last[f]
  BY <1>0, <1>3 DEF Values
<1>7. Values'
  BY <1>0, <1>3, <1>4, <1>5, <1>6, <1>u DEF Values, Hosts, Counts
<1>8. OthersSame(g)
  BY <1>0, <1>2, <1>5, <1>u, OthersHeld
<1>9. EngineOK(g)'
  <2>1. Course(g)'
    BY <1>4, <1>5 DEF Course, Starting
  <2>2. Apart(g)'
    BY <1>0, <1>4, <1>u DEF EngineOK, Apart
  <2>3. InCmd(g, cmd[g].w, cmd[g].e)'
    BY <1>4 DEF InCmd
  <2>4. \A v \in Workers : proc'[v] = proc[v] /\ vol'[v] = vol[v]
    BY <1>2, <1>5, <1>u
  <2> QED BY <2>1, <2>2, <2>3, <2>4, <1>0, <1>u, EngineCmd
<1>10. OneHolder'
  <2>1. \A f \in Episodes : Holds(g, f)' => Holds(g, f) \/ ~ Served(f)
    BY <1>3, <1>4, <1>u DEF Holds
  <2>2. \A f \in Episodes : cmd'[g].e = f => entry'[g][f] \notin Workers
    BY <1>0, <1>3, <1>4, <1>u DEF Served
  <2> QED BY <2>1, <2>2, <1>0, <1>4, HoldersStep
<1>11. Mounts'
  <2>1. \A v \in Workers \cap {} : Mounted(v)'
    OBVIOUS
  <2>2. \A f \in Episodes : vol[f] # None => vol'[f] # None
    BY <1>5
  <2> QED BY <2>1, <2>2, <1>0, <1>u, MountsStep
<1>12. Writers'
  <2>1. \A v \in Workers : Writer(v)' => Writer(v) /\ proc'[v].own = proc[v].own
    BY <1>3, <1>u DEF Writer, Writes
  <2>2. \A v \in Workers : ~ Read(g, v)
    BY <1>3 DEF Read
  <2> QED BY <2>1, <2>2, <1>0, <1>4, WritersStep
<1>13. Kept'
  <2> SUFFICES ASSUME NEW f \in Episodes \ cut' PROVE KeptOf(f)'
    BY DEF Kept
  <2>1. CASE f # e
    <3>1. f \in Episodes \ cut /\ cmd[g].e # f /\ cmd'[g].e # f /\ last'[f] = last[f] /\ vol'[f] = vol[f]
      BY <2>1, <1>3, <1>4, <1>5, <1>6, NamesAssumption DEF Idle
    <3> QED BY <3>1, <1>0, <1>4, <1>8, <1>u, KeptOther
  <2>2. CASE f = e
    <3>1. last'[e] # None => dir.manifest /\ e \notin cut /\ last'[e] = last[e] /\ vol'[e] = vol[e]
      BY <2>2, <1>3, <1>5, <1>6
    <3>2. last'[e] # None => KeptOf(e) /\ ~ \E h \in up : Moved(h, e)
      BY <3>1, <1>0, <1>3 DEF Kept, Moved, Served
    <3>3. last'[e] # None => Stored(e)' \/ Dumped(e)'
      BY <3>1, <3>2, <1>u DEF KeptOf, Stored, Dumped
    <3>4. last'[e] # None => Found(g, e, cmd[g].w)'
      BY <3>1, <1>4 DEF Found
    <3> QED BY <3>3, <3>4, <2>2, <1>0, <1>3, <1>4, KeptStart
  <2> QED BY <2>1, <2>2
<1>14. \A f \in Episodes : vol[f] # None /\ vol'[f] = None => cmd[g].e = f
  BY <1>5
<1> QED BY <1>0, <1>4, <1>7, <1>8, <1>9, <1>10, <1>11, <1>12, <1>13, <1>14, OffStep, OthersKeep DEF RLInv

(* A command that goes on at another point, with the same episode and no worker touched. *)
LEMMA GoesOn ==
  ASSUME RLInv, NEW g \in up, OnlyEngine(g), Starting(g), Starting(g)', cmd'[g] \in Cmds,
         cmd[g].pc # "adopt", cmd'[g].pc # "adopt", cmd'[g].e = cmd[g].e,
         cmd'[g].resume = cmd[g].resume, EngineOK(g)', entry' = entry,
         proc' = proc, last' = last, cut' = cut,
         \A v \in Workers : vol'[v] = vol[v],
         \A f \in Episodes : \/ vol'[f] = vol[f]
                             \/ f = cmd[g].e /\ vol[f] # None /\ vol'[f] # None /\ vol'[f].ckpt = vol[f].ckpt,
         \A e \in Episodes \ cut : Found(g, e, cmd[g].w) /\ cmd[g].e = e => Found(g, e, cmd[g].w)'
  PROVE  Core'
<1>0. Values /\ OneHolder /\ Mounts /\ Writers /\ Kept /\ EngineOK(g) /\ g \in Engines
  BY DEF RLInv, Values, Hosts
<1>1. OthersSame(g)
  BY <1>0, OthersHeld
<1>2. \A h \in up' : EngineOK(h)'
  BY <1>0, <1>1, OthersKeep
<1>3. OneHolder'
  <2>1. \A e \in Episodes : Holds(g, e)' => Holds(g, e) \/ ~ Served(e)
    BY DEF Holds
  <2>2. \A e \in Episodes : cmd'[g].e = e => entry'[g][e] \notin Workers
    BY <1>0 DEF OneHolder
  <2> QED BY <2>1, <2>2, <1>0, HoldersStep
<1>4. Mounts'
  <2>1. \A v \in Workers \cap {} : Mounted(v)'
    OBVIOUS
  <2>2. \A f \in Episodes : vol[f] # None => vol'[f] # None
    OBVIOUS
  <2> QED BY <2>1, <2>2, <1>0, MountsStep
<1>5. Writers'
  <2>1. \A v \in Workers : Writer(v)' => Writer(v) /\ proc'[v].own = proc[v].own
    BY DEF Writer, Writes
  <2>2. \A v \in Workers : ~ Read(g, v)
    BY DEF Read
  <2> QED BY <2>1, <2>2, WritersStep
<1>6. Kept'
  <2> SUFFICES ASSUME NEW e \in Episodes \ cut PROVE KeptOf(e)'
    BY DEF Kept
  <2>1. CASE cmd[g].e # e
    BY <2>1, <1>0, <1>1, KeptOther
  <2>2. CASE cmd[g].e = e
    <3>1. last[e] # None => Stored(e) /\ Found(g, e, cmd[g].w)
      BY <2>2, StartHas
    <3>2. last'[e] # None => Stored(e)'
      BY <3>1 DEF Stored
    <3>3. last'[e] # None => Found(g, e, cmd[g].w)'
      BY <3>1, <2>2
    <3> QED BY <3>2, <3>3, <2>2, KeptStart DEF Holds
  <2> QED BY <2>1, <2>2
<1> QED BY <1>2, <1>3, <1>4, <1>5, <1>6 DEF Core

(* A claim waits for a boot in flight, or gives up. *)
LEMMA WaitKeeps ==
  ASSUME RLInv, NEW g \in up, cmd[g].pc \in {"claim", "scan"}, NEW i \in Nat \ {0}, WaitFrom(g, i),
         UNCHANGED <<engines, entry, slot, sched, proc, disk>>, NoFault
  PROVE  RLInv'
<1>0. Values /\ Off /\ EngineOK(g) /\ g \in Engines /\ cmd[g] \in Cmds
  BY DEF RLInv, Values, Hosts
<1>u. UNCHANGED <<up, done, swept, entry, slot, sched, proc, vol, last, cut, faults, cmds>>
  BY DEF engines, disk, NoFault
<1>1. PICK pc, j : /\ cmd' = [cmd EXCEPT ![g].pc = pc, ![g].i = j]
                   /\ (pc = "manifest" /\ j = 0) \/ (pc = "scan" /\ j \in i..WarmDepth)
  BY DEF WaitFrom
<1>2. j \in Nat /\ pc \in Points /\ (pc = "scan" => j \in Slots)
  BY <1>1, NumbersAssumption DEF Points, Slots
<1>3. /\ cmd' \in [Engines -> Cmds] /\ OnlyEngine(g)
      /\ cmd'[g].pc = pc /\ cmd'[g].i = j /\ cmd'[g].op = cmd[g].op /\ cmd'[g].e = cmd[g].e
      /\ cmd'[g].w = cmd[g].w /\ cmd'[g].resume = cmd[g].resume
  BY <1>0, <1>1, <1>2, <1>u DEF Values, Cmds, OnlyEngine
<1>4. Values'
  BY <1>0, <1>3, <1>u DEF Values, Hosts, Counts
<1>5. Course(g) /\ cmd[g].w = None /\ Starting(g) /\ vol[cmd[g].e] # None /\ cmd[g].e \in Episodes
  BY <1>0 DEF EngineOK, Course
<1>6. EngineOK(g)'
  <2>1. Course(g)'
    BY <1>1, <1>2, <1>3, <1>5, <1>u DEF Course, Starting
  <2>2. Apart(g)'
    BY <1>0, <1>1, <1>3, <1>u DEF EngineOK, Apart
  <2>3. InCmd(g, cmd[g].w, cmd[g].e)'
    BY <1>1, <1>3, <1>5 DEF InCmd
  <2>4. \A v \in Workers : proc'[v] = proc[v] /\ vol'[v] = vol[v]
    BY <1>u
  <2> QED BY <2>1, <2>2, <2>3, <2>4, <1>0, <1>u, EngineCmd
<1>7. Core'
  <2>1. Starting(g)' /\ cmd[g].pc # "adopt" /\ cmd'[g].pc # "adopt" /\ cmd'[g] \in Cmds
    BY <1>0, <1>1, <1>3, <1>5 DEF Starting
  <2>2. \A e \in Episodes \ cut : Found(g, e, cmd[g].w) /\ cmd[g].e = e => Found(g, e, cmd[g].w)'
    BY <1>1, <1>3, <1>5 DEF Found
  <2> QED BY <2>1, <2>2, <1>3, <1>5, <1>6, <1>u, GoesOn
<1> QED BY <1>0, <1>3, <1>4, <1>7, OffStep DEF RLInv, Core

(* A claimed worker leaves its slot for the command. *)
LEMMA TakeFits ==
  ASSUME RLInv, NEW g \in up, cmd[g].pc \in {"claim", "scan"}, NEW i \in Slots, slot[g][i].st = "ready",
         Fits(slot[g][i].w, cmd[g].e), TakeSlot(g, i)
  PROVE  RLInv'
<1>0. Values /\ Off /\ OneHolder /\ Mounts /\ Writers /\ Kept /\ EngineOK(g) /\ g \in Engines /\ cmd[g] \in Cmds
  BY DEF RLInv, Values, Hosts
<1>u. UNCHANGED <<up, done, swept, entry, sched, proc, vol, last, cut, faults, cmds>>
  BY DEF TakeSlot, engines, NoFault
<1>1. PICK w : w = slot[g][i].w
  OBVIOUS
<1>2. InSlot(g, i, w) /\ slot[g][i] \in SlotForms
  BY <1>0, <1>1 DEF EngineOK, InSlots, Values
<1>3. w \in Workers /\ proc[w].st \in {"warm", "dead"} /\ proc[w].rep = None /\ Warm(g, w) /\ proc[w].tmpl = Shape[cmd[g].e]
  BY <1>1, <1>2, NamesAssumption DEF InSlot, SlotForms, Fits
<1>4. Course(g) /\ Starting(g) /\ vol[cmd[g].e] # None /\ cmd[g].e \in Episodes
  BY <1>0 DEF EngineOK, Course
<1>5. /\ cmd' \in [Engines -> Cmds]
      /\ cmd'[g].pc = "adopt" /\ cmd'[g].w = w /\ cmd'[g].op = cmd[g].op /\ cmd'[g].e = cmd[g].e
      /\ cmd'[g].resume = cmd[g].resume
      /\ \A h \in Engines \ {g} : cmd'[h] = cmd[h]
  <2>1. cmd' = [cmd EXCEPT ![g].pc = "adopt", ![g].w = w]
    BY <1>1 DEF TakeSlot
  <2> QED BY <2>1, <1>0, <1>3, ZenonT(30) DEF Values, Cmds, Points
<1>6. /\ slot'[g][i] = EmptySlot
      /\ \A j \in Slots \ {i} : slot'[g][j] = slot[g][j]
      /\ slot' \in [Engines -> [Slots -> SlotForms]]
      /\ OnlyEngine(g)
  <2>1. EmptySlot \in SlotForms
    BY DEF EmptySlot, SlotForms
  <2>2. slot' = [slot EXCEPT ![g][i] = EmptySlot]
    BY DEF TakeSlot
  <2> QED BY <2>1, <2>2, <1>0, <1>5, <1>u DEF Values, OnlyEngine
<1>7. Values'
  BY <1>0, <1>5, <1>6, <1>u DEF Values, Hosts, Counts
<1>8. OthersSame(g)
  BY <1>u DEF OthersSame
<1>9. /\ \A e \in Episodes : entry[g][e] # w
      /\ \A j \in Slots \ {i} : slot[g][j].w # w
  BY <1>0, <1>1, <1>3, SlotOnly
<1>10. EngineOK(g)'
  <2>1. Course(g)'
    BY <1>3, <1>4, <1>5, <1>u DEF Course, Starting
  <2>2. Apart(g)'
    BY <1>0, <1>5, <1>6, <1>9, SMTT(30) DEF EngineOK, Apart, EmptySlot
  <2>3. InSlot(g, i, slot[g][i].w)'
    BY <1>6, NamesAssumption DEF InSlot, EmptySlot
  <2>4. \A v \in Workers \ {w} : proc'[v] = proc[v] /\ vol'[v] = vol[v]
    BY <1>u
  <2>5. \A j \in Slots : (slot'[g][j] = slot[g][j] /\ slot[g][j].w \notin {w}) \/ InSlot(g, j, slot[g][j].w)'
    BY <2>3, <1>6, <1>9
  <2>6. InCmd(g, cmd[g].w, cmd[g].e)'
    <3>1. PICK e : e = cmd[g].e
      OBVIOUS
    <3>2. InCmd(g, w, e)'
      BY <3>1, <1>3, <1>5, <1>u DEF InCmd, Warm
    <3> QED BY <3>1, <3>2, <1>5
  <2>7. \A e \in Episodes : entry'[g][e] = entry[g][e] /\ entry[g][e] \notin {w}
    BY <1>9, <1>u
  <2> QED BY <2>1, <2>2, <2>4, <2>5, <2>6, <2>7, <1>0, EngineTouch
<1>11. OneHolder'
  <2>1. \A e \in Episodes : Holds(g, e)' => Holds(g, e) \/ ~ Served(e)
    BY <1>5, <1>u DEF Holds
  <2>2. \A e \in Episodes : cmd'[g].e = e => entry'[g][e] \notin Workers
    BY <1>0, <1>5, <1>u DEF OneHolder
  <2> QED BY <2>1, <2>2, <1>6, HoldersStep
<1>12. Mounts'
  BY <1>0, <1>u DEF Mounts, Mounted
<1>13. Writers'
  <2>1. \A v \in Workers : Writer(v)' => Writer(v) /\ proc'[v].own = proc[v].own
    BY <1>u DEF Writer, Writes
  <2>2. \A v \in Workers : ~ Read(g, v)
    BY DEF Read
  <2> QED BY <2>1, <2>2, <1>6, WritersStep
<1>14. Kept'
  <2> SUFFICES ASSUME NEW e \in Episodes \ cut PROVE KeptOf(e)'
    BY <1>u DEF Kept
  <2>1. CASE cmd[g].e # e
    BY <2>1, <1>5, <1>6, <1>8, <1>u, KeptOther
  <2>2. CASE cmd[g].e = e
    <3>1. last[e] # None => Stored(e) /\ Found(g, e, cmd[g].w)
      BY <2>2, <1>4, StartHas
    <3>2. last'[e] # None => Stored(e)'
      BY <3>1, <1>u DEF Stored
    <3>3. last'[e] # None => Found(g, e, cmd[g].w)'
      BY <3>1, <1>5, <1>u DEF Found
    <3> QED BY <3>2, <3>3, <2>2, <1>6, KeptStart DEF Holds
  <2> QED BY <2>1, <2>2
<1>15. \A e \in Episodes : vol[e] # None /\ vol'[e] = None => cmd[g].e = e
  BY <1>u
<1> QED BY <1>0, <1>6, <1>7, <1>8, <1>10, <1>11, <1>12, <1>13, <1>14, <1>15, OffStep, OthersKeep DEF RLInv

(* A worker of another shape is dropped with its volume. *)
LEMMA TakeOther ==
  ASSUME RLInv, NEW g \in up, cmd[g].pc \in {"claim", "scan"}, NEW i \in Slots, slot[g][i].st = "ready",
         ~ Fits(slot[g][i].w, cmd[g].e), TakeSlot(g, i)
  PROVE  RLInv'
<1>0. Values /\ Off /\ OneHolder /\ Mounts /\ Writers /\ Kept /\ EngineOK(g) /\ g \in Engines /\ cmd[g] \in Cmds
  BY DEF RLInv, Values, Hosts
<1>u. UNCHANGED <<up, done, swept, entry, sched, last, cut, faults, cmds>>
  BY DEF TakeSlot, engines, NoFault
<1>1. PICK w : w = slot[g][i].w
  OBVIOUS
<1>2. InSlot(g, i, w) /\ slot[g][i] \in SlotForms
  BY <1>0, <1>1 DEF EngineOK, InSlots, Values
<1>3. w \in Workers /\ w \notin Episodes /\ proc[w].st \in {"warm", "dead"} /\ Warm(g, w)
  BY <1>1, <1>2, NamesAssumption DEF InSlot, SlotForms
<1>4. Course(g) /\ Starting(g) /\ vol[cmd[g].e] # None /\ cmd[g].e \in Episodes /\ cmd[g].w = None
  BY <1>0 DEF EngineOK, Course
<1>5. /\ cmd' \in [Engines -> Cmds]
      /\ cmd'[g].pc = "manifest" /\ cmd'[g].w = None /\ cmd'[g].op = cmd[g].op /\ cmd'[g].e = cmd[g].e
      /\ cmd'[g].resume = cmd[g].resume
      /\ \A h \in Engines \ {g} : cmd'[h] = cmd[h]
  <2>1. cmd' = [cmd EXCEPT ![g].pc = "manifest"]
    BY DEF TakeSlot, Goto
  <2> QED BY <2>1, <1>0, <1>4 DEF Values, Cmds, Points
<1>6. /\ slot'[g][i] = EmptySlot
      /\ \A j \in Slots \ {i} : slot'[g][j] = slot[g][j]
      /\ slot' \in [Engines -> [Slots -> SlotForms]]
      /\ OnlyEngine(g)
  <2>1. EmptySlot \in SlotForms
    BY DEF EmptySlot, SlotForms
  <2>2. slot' = [slot EXCEPT ![g][i] = EmptySlot]
    BY DEF TakeSlot
  <2> QED BY <2>1, <2>2, <1>0, <1>5, <1>u DEF Values, OnlyEngine
<1>7. /\ \A v \in Workers \ {w} : proc'[v] = proc[v]
      /\ proc'[w] = NoProc
      /\ proc' \in [Workers -> Procs]
  <2>1. NoProc \in Procs
    BY BoundsAssumption DEF Procs, NoProc, Ops
  <2>2. proc' = Without(proc, {w})
    BY <1>1 DEF TakeSlot
  <2> QED BY <2>1, <2>2, <1>0, <1>3 DEF Without, Values
<1>8. /\ \A v \in (Episodes \cup Workers) \ {w} : vol'[v] = vol[v]
      /\ vol' \in [Episodes \cup Workers -> {None} \cup Dirs]
  <2>1. vol' = [vol EXCEPT ![w] = None]
    BY <1>1 DEF TakeSlot
  <2> QED BY <2>1, <1>0, <1>3 DEF Values
<1>9. Values'
  BY <1>0, <1>5, <1>6, <1>7, <1>8, <1>u DEF Values, Hosts, Counts
<1>10. OthersSame(g)
  BY <1>3, <1>7, <1>8, OthersHeld DEF Warm
<1>11. /\ \A e \in Episodes : entry[g][e] # w
       /\ \A j \in Slots \ {i} : slot[g][j].w # w
  BY <1>0, <1>1, <1>3, SlotOnly
<1>12. EngineOK(g)'
  <2>1. Course(g)'
    BY <1>4, <1>5 DEF Course, Starting
  <2>2. Apart(g)'
    BY <1>0, <1>5, <1>6 DEF EngineOK, Apart, EmptySlot
  <2>3. InSlot(g, i, slot[g][i].w)'
    BY <1>6, NamesAssumption DEF InSlot, EmptySlot
  <2>4. \A v \in Workers \ {w} : proc'[v] = proc[v] /\ vol'[v] = vol[v]
    BY <1>7, <1>8
  <2>5. \A j \in Slots : (slot'[g][j] = slot[g][j] /\ slot[g][j].w \notin {w}) \/ InSlot(g, j, slot[g][j].w)'
    BY <2>3, <1>6, <1>11
  <2>6. InCmd(g, cmd[g].w, cmd[g].e)'
    BY <1>5 DEF InCmd
  <2>7. \A e \in Episodes : entry'[g][e] = entry[g][e] /\ entry[g][e] \notin {w}
    BY <1>11, <1>u
  <2> QED BY <2>1, <2>2, <2>4, <2>5, <2>6, <2>7, <1>0, EngineTouch
<1>13. OneHolder'
  <2>1. \A e \in Episodes : Holds(g, e)' => Holds(g, e) \/ ~ Served(e)
    BY <1>5, <1>u DEF Holds
  <2>2. \A e \in Episodes : cmd'[g].e = e => entry'[g][e] \notin Workers
    BY <1>0, <1>5, <1>u DEF OneHolder
  <2> QED BY <2>1, <2>2, <1>6, HoldersStep
<1>14. Mounts'
  <2>1. \A v \in Workers \cap {w} : Mounted(v)'
    BY <1>7, NamesAssumption DEF Mounted, NoProc
  <2>2. \A e \in Episodes : vol[e] # None => vol'[e] # None
    BY <1>3, <1>8
  <2> QED BY <2>1, <2>2, <1>0, <1>7, MountsStep
<1>15. Writers'
  <2>1. \A v \in Workers : Writer(v)' => Writer(v) /\ proc'[v].own = proc[v].own
    BY <1>7, <1>u DEF Writer, Writes, NoProc
  <2>2. \A v \in Workers : ~ Read(g, v)
    BY DEF Read
  <2> QED BY <2>1, <2>2, <1>6, WritersStep
<1>16. Kept'
  <2> SUFFICES ASSUME NEW e \in Episodes \ cut PROVE KeptOf(e)'
    BY <1>u DEF Kept
  <2>0. vol'[e] = vol[e]
    BY <1>3, <1>8
  <2>1. CASE cmd[g].e # e
    <3>1. \A v \in Workers : proc[v].st = "dump" /\ proc[v].mnt = e => proc'[v].st = "dump" /\ proc'[v].mnt = e
      BY <1>3, <1>7
    <3> QED BY <2>0, <2>1, <3>1, <1>5, <1>6, <1>10, <1>u, KeptOther
  <2>2. CASE cmd[g].e = e
    <3>1. last[e] # None => Stored(e) /\ Found(g, e, cmd[g].w)
      BY <2>2, <1>4, StartHas
    <3>2. last'[e] # None => Stored(e)'
      BY <2>0, <3>1, <1>u DEF Stored
    <3>3. last'[e] # None => Found(g, e, cmd[g].w)'
      BY <3>1, <1>5, <1>u DEF Found
    <3> QED BY <3>2, <3>3, <2>2, <1>6, KeptStart DEF Holds
  <2> QED BY <2>1, <2>2
<1>17. \A e \in Episodes : vol[e] # None /\ vol'[e] = None => cmd[g].e = e
  BY <1>3, <1>8
<1> QED BY <1>0, <1>6, <1>9, <1>10, <1>12, <1>13, <1>14, <1>15, <1>16, <1>17, OffStep, OthersKeep DEF RLInv

(* The two passes over the slots. *)
LEMMA ClaimKeeps ==
  ASSUME RLInv, NEW g \in Engines, ClaimReady(g) \/ ClaimScan(g)
  PROVE  RLInv'
<1>1. g \in up /\ cmd[g].pc \in {"claim", "scan"} /\ EngineOK(g)
  BY DEF ClaimReady, ClaimScan, RLInv
<1>2. ASSUME NEW i \in Slots, slot[g][i].st = "ready", TakeSlot(g, i) PROVE RLInv'
  BY <1>1, <1>2, TakeFits, TakeOther
<1>3. CASE ClaimReady(g)
  BY <1>2, <1>3 DEF ClaimReady
<1>4. CASE ClaimScan(g)
  <2>1. PICK i : i = cmd[g].i
    OBVIOUS
  <2>2. cmd[g].pc = "scan" => i \in Slots
    BY <2>1, <1>1 DEF EngineOK, Course
  <2>3. CASE /\ cmd[g].pc = "claim" /\ WaitFrom(g, 1)
             /\ UNCHANGED <<engines, entry, slot, sched, proc, disk>> /\ NoFault
    BY <2>3, <1>1, WaitKeeps
  <2>4. CASE cmd[g].pc = "scan" /\ slot[g][i].st = "ready" /\ TakeSlot(g, i)
    BY <2>2, <2>4, <1>2
  <2>5. CASE /\ cmd[g].pc = "scan" /\ WaitFrom(g, i + 1)
             /\ UNCHANGED <<engines, entry, slot, sched, proc, disk>> /\ NoFault
    <3>1. i + 1 \in Nat \ {0}
      BY <2>2, <2>5, NumbersAssumption DEF Slots
    <3>2. PICK j \in Nat \ {0} : j = i + 1
      BY <3>1
    <3> QED BY <2>5, <3>2, <1>1, WaitKeeps
  <2> QED BY <2>1, <2>3, <2>4, <2>5, <1>4 DEF ClaimScan
<1> QED BY <1>3, <1>4

(* What is durable moves into the claimed worker's volume. *)
LEMMA AdoptMoveKeeps ==
  ASSUME RLInv, NEW g \in Engines, AdoptMove(g)
  PROVE  RLInv'
<1>0. Values /\ Off /\ OneHolder /\ Mounts /\ Writers /\ Kept /\ EngineOK(g) /\ g \in up /\ cmd[g].pc = "adopt"
  BY DEF RLInv, AdoptMove
<1>u. UNCHANGED <<up, done, swept, cmd, entry, slot, sched, proc, last, cut, faults, cmds>>
  BY DEF AdoptMove, engines, NoFault
<1>1. PICK e, w : e = cmd[g].e /\ w = cmd[g].w
  OBVIOUS
<1>2. /\ e \in Episodes /\ w \in Workers /\ e # w /\ Starting(g) /\ vol[e] \in Dirs /\ vol[w] \in Dirs
      /\ Warm(g, w)
  BY <1>0, <1>1, NamesAssumption DEF EngineOK, Course, InCmd, Warm, Values
<1>3. /\ vol' \in [Episodes \cup Workers -> {None} \cup Dirs]
      /\ \A v \in (Episodes \cup Workers) \ {e, w} : vol'[v] = vol[v]
      /\ vol'[e] # None /\ vol'[w] # None
      /\ \/ vol'[e].ckpt = vol[e].ckpt /\ vol'[w].ckpt = vol[w].ckpt
         \/ vol[e].ckpt # None /\ vol'[e].ckpt = None /\ vol'[w].ckpt = vol[e].ckpt
  <2>1. CASE vol' = [vol EXCEPT ![w].manifest = TRUE, ![e].manifest = FALSE]
    <3>1. vol' \in [Episodes \cup Workers -> {None} \cup Dirs] /\ vol'[e] \in Dirs /\ vol'[w] \in Dirs
      BY <2>1, <1>0, <1>2 DEF Values, Dirs
    <3>2. vol'[e].ckpt = vol[e].ckpt /\ vol'[w].ckpt = vol[w].ckpt
      BY <2>1, <1>0, <1>2 DEF Values, Dirs
    <3> QED BY <2>1, <3>1, <3>2, <1>0, <1>2, DirsThere DEF Values
  <2>2. CASE vol[e].ckpt # None /\ vol' = [vol EXCEPT ![w].ckpt = vol[e].ckpt, ![e].ckpt = None]
    <3>1. vol' \in [Episodes \cup Workers -> {None} \cup Dirs] /\ vol'[e] \in Dirs /\ vol'[w] \in Dirs
      BY <2>2, <1>0, <1>2 DEF Values, Dirs
    <3>2. vol'[e].ckpt = None /\ vol'[w].ckpt = vol[e].ckpt
      BY <2>2, <1>0, <1>2 DEF Values, Dirs
    <3> QED BY <2>2, <3>1, <3>2, <1>0, <1>2, DirsThere DEF Values
  <2> QED BY <2>1, <2>2, <1>1 DEF AdoptMove
<1>4. Values' /\ OnlyEngine(g)
  BY <1>0, <1>3, <1>u DEF Values, Hosts, Counts, OnlyEngine
<1>5. OthersSame(g)
  BY <1>0, <1>2, <1>3, <1>u, NamesAssumption, OthersHeld DEF Warm
<1>6. EngineOK(g)'
  <2>1. Course(g)'
    BY <1>0, <1>1, <1>3, <1>u DEF EngineOK, Course, Starting
  <2>2. Apart(g)'
    BY <1>0, <1>u DEF EngineOK, Apart
  <2>3. InCmd(g, cmd[g].w, cmd[g].e)'
    <3>1. InCmd(g, w, e)
      BY <1>0, <1>1 DEF EngineOK
    <3>2. InCmd(g, w, e)'
      BY <3>1, <1>0, <1>3, <1>u DEF InCmd, Warm
    <3> QED BY <3>2, <1>1, <1>u
  <2>4. \A v \in Workers \ {w} : proc'[v] = proc[v] /\ vol'[v] = vol[v]
    BY <1>2, <1>3, <1>u, NamesAssumption
  <2>5. \A j \in Slots : slot'[g][j] = slot[g][j] /\ slot[g][j].w \notin {w}
    BY <1>0, <1>1, <1>2, <1>u, CmdOnly
  <2>6. \A f \in Episodes : entry'[g][f] = entry[g][f] /\ entry[g][f] \notin {w}
    BY <1>0, <1>1, <1>2, <1>u, CmdOnly
  <2> QED BY <2>1, <2>2, <2>3, <2>4, <2>5, <2>6, <1>0, EngineTouch
<1>7. OneHolder'
  BY <1>0, <1>u DEF OneHolder, Holds
<1>8. Mounts'
  <2>1. \A v \in Workers \cap {} : Mounted(v)'
    OBVIOUS
  <2>2. \A f \in Episodes : vol[f] # None => vol'[f] # None
    BY <1>2, <1>3, NamesAssumption
  <2> QED BY <2>1, <2>2, <1>0, <1>u, MountsStep
<1>9. Writers'
  BY <1>0, <1>u DEF Writers, Writer, Writes, Read, Starting
<1>10. Kept'
  <2> SUFFICES ASSUME NEW f \in Episodes \ cut PROVE KeptOf(f)'
    BY <1>u DEF Kept
  <2>1. CASE f # e
    <3>1. vol'[f] = vol[f]
      BY <2>1, <1>2, <1>3, NamesAssumption
    <3> QED BY <2>1, <3>1, <1>0, <1>1, <1>4, <1>5, <1>u, KeptOther
  <2>2. CASE f = e
    <3>1. last[e] # None => (Stored(e) \/ Moved(g, e)) /\ Found(g, e, cmd[g].w)
      BY <2>2, <1>0, <1>1, <1>2, StartHas
    <3>2. last'[e] # None => Stored(e)' \/ Moved(g, e)'
      BY <3>1, <1>0, <1>1, <1>3, <1>u DEF Stored, Moved
    <3>3. last'[e] # None => Found(g, e, cmd[g].w)'
      BY <3>1, <1>0, <1>u DEF Found
    <3> QED BY <3>2, <3>3, <2>2, <1>0, <1>1, <1>2, <1>4, KeptStart DEF Holds
  <2> QED BY <2>1, <2>2
<1>11. \A f \in Episodes : vol[f] # None /\ vol'[f] = None => cmd[g].e = f
  BY <1>2, <1>3, NamesAssumption
<1> QED BY <1>0, <1>4, <1>5, <1>6, <1>7, <1>8, <1>9, <1>10, <1>11, OffStep, OthersKeep DEF RLInv

(* Who is unlinked from a directory was not reached by an engine, other than the one that claims. *)
LEMMA Unreached ==
  ASSUME RLInv, NEW g \in up, NEW e \in Episodes, cmd[g].e = e, NEW v \in Workers, proc[v].mnt = e
  PROVE  /\ \A f \in Episodes : entry[g][f] # v
         /\ \A i \in Slots : slot[g][i].w # v
<1>0. Values /\ OneHolder /\ EngineOK(g) /\ g \in Engines /\ v # None /\ v # e
  BY NamesAssumption DEF RLInv, Values, Hosts
<1>1. ASSUME NEW f \in Episodes, entry[g][f] = v PROVE FALSE
  <2>1. InEntry(g, f, v)
    BY <1>0, <1>1 DEF EngineOK, InEntries
  <2>2. f = e
    BY <2>1 DEF InEntry, Serves
  <2> QED BY <2>2, <1>0, <1>1 DEF OneHolder
<1>2. ASSUME NEW i \in Slots, slot[g][i].w = v PROVE FALSE
  <2>1. InSlot(g, i, v) /\ slot[g][i] \in SlotForms
    BY <1>0, <1>2 DEF EngineOK, InSlots, Values
  <2> QED BY <2>1, <1>0, <1>2 DEF InSlot, Warm, SlotForms
<1> QED BY <1>1, <1>2

(* The worker's volume becomes the episode's directory, with what was moved into it. *)
LEMMA AdoptRenameKeeps ==
  ASSUME RLInv, NEW g \in Engines, AdoptRename(g)
  PROVE  RLInv'
<1>0. Values /\ Off /\ OneHolder /\ Mounts /\ Writers /\ Kept /\ EngineOK(g) /\ g \in up /\ cmd[g].pc = "adopt"
  BY DEF RLInv, AdoptRename
<1>u. UNCHANGED <<up, done, swept, entry, slot, last, cut, faults, cmds>>
  BY DEF AdoptRename, engines, NoFault
<1>1. PICK e, w : e = cmd[g].e /\ w = cmd[g].w
  OBVIOUS
<1>2. /\ e \in Episodes /\ w \in Workers /\ e # w /\ e \notin Workers /\ Starting(g) /\ vol[e] = NewDir /\ vol[w] \in Dirs
      /\ Warm(g, w) /\ InCmd(g, w, e) /\ cmd[g] \in Cmds
  BY <1>0, <1>1, NamesAssumption DEF EngineOK, Course, InCmd, Warm, Values, AdoptRename
<1>3. /\ vol' \in [Episodes \cup Workers -> {None} \cup Dirs]
      /\ \A v \in (Episodes \cup Workers) \ {e, w} : vol'[v] = vol[v]
      /\ vol'[e] = vol[w] /\ vol'[e] # None
  <2>1. vol' = [vol EXCEPT ![e] = vol[w], ![w] = None]
    BY <1>1 DEF AdoptRename
  <2> QED BY <2>1, <1>0, <1>2, DirsThere DEF Values
<1>4. /\ proc' \in [Workers -> Procs]
      /\ \A v \in Workers \ {w} : proc[v].mnt # e => proc'[v] = proc[v]
      /\ \A v \in Workers \ {w} : proc[v].mnt = e =>
           proc'[v].mnt = Gone /\ proc'[v].st = proc[v].st /\ proc'[v].own = proc[v].own
      /\ proc'[w].mnt = e /\ proc'[w].own = g /\ proc'[w].tmpl = proc[w].tmpl /\ proc'[w].st = proc[w].st
      /\ proc'[w].tag = 0 /\ proc'[w].rep = proc[w].rep
  <2>1. PICK p : p = Unlinked(proc, e)
    OBVIOUS
  <2>2. proc' = [p EXCEPT ![w].mnt = e]
    BY <2>1, <1>1 DEF AdoptRename
  <2>3. ASSUME NEW v \in Workers
        PROVE  /\ p[v] \in Procs
               /\ proc[v].mnt # e => p[v] = proc[v]
               /\ proc[v].mnt = e => p[v].mnt = Gone /\ p[v].st = proc[v].st /\ p[v].own = proc[v].own
    <3>1. proc[v] \in Procs
      BY <1>0 DEF Values
    <3>2. p[v] = IF proc[v].mnt = e THEN [proc[v] EXCEPT !.mnt = Gone] ELSE proc[v]
      BY <2>1 DEF Unlinked
    <3> QED BY <3>1, <3>2 DEF Procs
  <2>4. p \in [Workers -> Procs]
    BY <2>1, <2>3 DEF Unlinked
  <2>5. p[w] = proc[w]
    BY <2>3, <1>2 DEF Warm
  <2>6. PICK q : q = [p[w] EXCEPT !.mnt = e]
    OBVIOUS
  <2>7. q \in Procs /\ q.mnt = e /\ q.own = g /\ q.tmpl = proc[w].tmpl /\ q.st = proc[w].st /\ q.tag = 0 /\ q.rep = proc[w].rep
    BY <2>4, <2>5, <2>6, <1>2 DEF Procs, Warm
  <2>8. proc' = [p EXCEPT ![w] = q]
    BY <2>2, <2>4, <2>6
  <2> QED BY <2>3, <2>4, <2>7, <2>8, <1>2
<1>5. /\ cmd' \in [Engines -> Cmds]
      /\ cmd'[g].pc = "load" /\ cmd'[g].w = w /\ cmd'[g].op = cmd[g].op /\ cmd'[g].e = e
      /\ cmd'[g].resume = cmd[g].resume
      /\ sched' \in [Engines -> SUBSET Shapes]
      /\ OnlyEngine(g)
  <2>1. cmd' = [cmd EXCEPT ![g].pc = "load"] /\ sched' = [sched EXCEPT ![g] = @ \cup {Shape[e]}]
    BY <1>1 DEF AdoptRename, Goto
  <2>2. Shape[e] \in Shapes
    BY <1>2, ShapeAssumption
  <2> QED BY <2>1, <2>2, <1>0, <1>1, <1>2, <1>u DEF Values, Cmds, Points, OnlyEngine
<1>6. Values'
  BY <1>0, <1>3, <1>4, <1>5, <1>u DEF Values, Hosts, Counts
<1>7. OthersSame(g)
  <2>1. \A v \in Workers : proc[v].own \in up \ {g} /\ proc[v].st # "free"
                            /\ ~ (proc[v].mnt \in Episodes /\ proc[v].mnt = cmd[g].e)
                              => proc'[v] = proc[v] /\ vol'[v] = vol[v]
    BY <1>1, <1>2, <1>3, <1>4 DEF Warm
  <2> QED BY <2>1, <1>0, OthersHeld
<1>8. EngineOK(g)'
  <2>1. Course(g)'
    BY <1>2, <1>3, <1>5 DEF Course, Starting
  <2>2. Apart(g)'
    BY <1>0, <1>5, <1>u DEF EngineOK, Apart
  <2>3. InCmd(g, w, e)'
    BY <1>0, <1>2, <1>4, <1>5 DEF InCmd, Warm, Serves
  <2>4. InCmd(g, cmd[g].w, cmd[g].e)'
    BY <2>3, <1>5
  <2>5. PICK ws : ws = {w} \cup {v \in Workers : proc[v].mnt = e}
    OBVIOUS
  <2>6. \A v \in Workers \ ws : proc'[v] = proc[v] /\ vol'[v] = vol[v]
    BY <2>5, <1>2, <1>3, <1>4
  <2>7. \A j \in Slots : slot'[g][j] = slot[g][j] /\ slot[g][j].w \notin ws
    BY <2>5, <1>0, <1>1, <1>2, <1>u, CmdOnly, Unreached
  <2>8. \A f \in Episodes : entry'[g][f] = entry[g][f] /\ entry[g][f] \notin ws
    BY <2>5, <1>0, <1>1, <1>2, <1>u, CmdOnly, Unreached
  <2> QED BY <2>1, <2>2, <2>4, <2>6, <2>7, <2>8, <1>0, EngineTouch
<1>9. OneHolder'
  <2>1. \A f \in Episodes : Holds(g, f)' => Holds(g, f) \/ ~ Served(f)
    BY <1>1, <1>5, <1>u DEF Holds
  <2>2. \A f \in Episodes : cmd'[g].e = f => entry'[g][f] \notin Workers
    BY <1>0, <1>1, <1>5, <1>u DEF OneHolder
  <2> QED BY <2>1, <2>2, <1>0, <1>5, HoldersStep
<1>10. Mounts'
  <2> SUFFICES ASSUME NEW v \in Workers PROVE Mounted(v)'
    BY DEF Mounts
  <2>1. Mounted(v)
    BY <1>0 DEF Mounts
  <2>2. CASE v = w
    BY <2>2, <1>0, <1>2, <1>4 DEF Mounted, InCmd
  <2>3. CASE v # w /\ proc[v].mnt = e
    BY <2>1, <2>3, <1>2, <1>4, NamesAssumption DEF Mounted
  <2>4. CASE v # w /\ proc[v].mnt # e
    <3>1. PICK m : m = proc[v].mnt
      OBVIOUS
    <3>2. m \in Episodes => vol'[m] = vol[m]
      BY <3>1, <2>4, <1>2, <1>3, NamesAssumption
    <3> QED BY <2>1, <2>4, <3>1, <3>2, <1>4 DEF Mounted
  <2> QED BY <2>2, <2>3, <2>4
<1>11. Writers'
  <2>1. \A v \in Workers : Writer(v)' => Writer(v) /\ proc'[v].own = proc[v].own
    BY <1>0, <1>2, <1>4, <1>u, NamesAssumption DEF Writer, Writes, InCmd
  <2>2. \A v \in Workers : ~ Read(g, v)
    BY <1>0 DEF Read
  <2> QED BY <2>1, <2>2, <1>0, <1>5, WritersStep
<1>12. Kept'
  <2> SUFFICES ASSUME NEW f \in Episodes \ cut PROVE KeptOf(f)'
    BY <1>u DEF Kept
  <2>1. CASE f # e
    <3>1. vol'[f] = vol[f]
      BY <2>1, <1>2, <1>3, NamesAssumption
    <3>2. \A v \in Workers : proc[v].st = "dump" /\ proc[v].mnt = f => proc'[v].st = "dump" /\ proc'[v].mnt = f
      BY <2>1, <1>0, <1>2, <1>4 DEF InCmd
    <3> QED BY <2>1, <3>1, <3>2, <1>0, <1>1, <1>5, <1>7, <1>u, KeptOther
  <2>2. CASE f = e
    <3>1. last[e] # None => (Stored(e) \/ Moved(g, e)) /\ Found(g, e, cmd[g].w)
      BY <2>2, <1>0, <1>1, <1>2, StartHas
    <3>2. last'[e] # None => Stored(e)'
      BY <3>1, <1>1, <1>2, <1>3, <1>u DEF Stored, Moved, NewDir
    <3>3. last'[e] # None => Found(g, e, cmd[g].w)'
      BY <3>1, <1>5, <1>u DEF Found
    <3> QED BY <3>2, <3>3, <2>2, <1>0, <1>1, <1>2, <1>5, KeptStart DEF Holds
  <2> QED BY <2>1, <2>2
<1>13. \A f \in Episodes : vol[f] # None /\ vol'[f] = None => cmd[g].e = f
  BY <1>1, <1>2, <1>3, NamesAssumption
<1> QED BY <1>0, <1>5, <1>6, <1>7, <1>8, <1>9, <1>10, <1>11, <1>12, <1>13, OffStep, OthersKeep DEF RLInv

(* A claim that fails removes the worker and its volume; the episode counts as cut. *)
LEMMA AdoptFailsKeeps ==
  ASSUME RLInv, NEW g \in Engines, AdoptFails(g)
  PROVE  RLInv'
<1>0. Values /\ Off /\ OneHolder /\ Mounts /\ Writers /\ Kept /\ EngineOK(g) /\ g \in up /\ cmd[g].pc = "adopt"
  BY DEF RLInv, AdoptFails
<1>u. UNCHANGED <<up, done, swept, entry, slot, sched, last, cmds>> /\ faults' \in 0..MaxFaults
  BY <1>0, BoundsAssumption DEF AdoptFails, engines, Fault, Values, Counts
<1>1. PICK e, w : e = cmd[g].e /\ w = cmd[g].w
  OBVIOUS
<1>2. /\ e \in Episodes /\ w \in Workers /\ e # w /\ e \notin Workers /\ Starting(g)
      /\ Warm(g, w) /\ InCmd(g, w, e) /\ cmd[g] \in Cmds /\ cut' = cut \cup {e}
  BY <1>0, <1>1, NamesAssumption DEF EngineOK, Course, InCmd, Warm, Values, AdoptFails
<1>3. /\ vol' \in [Episodes \cup Workers -> {None} \cup Dirs]
      /\ \A v \in (Episodes \cup Workers) \ {e, w} : vol'[v] = vol[v]
      /\ vol[e] # NewDir => vol'[e] = vol[e]
  <2>1. vol' = [vol EXCEPT ![w] = None, ![e] = IF @ = NewDir THEN None ELSE @]
    BY <1>1 DEF AdoptFails
  <2> QED BY <2>1, <1>0, <1>2 DEF Values
<1>4. /\ proc' \in [Workers -> Procs]
      /\ \A v \in Workers \ {w} : proc[v].mnt # e \/ vol[e] # NewDir => proc'[v] = proc[v]
      /\ \A v \in Workers \ {w} : proc[v].mnt = e /\ vol[e] = NewDir =>
           proc'[v].mnt = Gone /\ proc'[v].st = proc[v].st /\ proc'[v].own = proc[v].own
      /\ proc'[w] = NoProc
  <2>1. PICK p : p = IF vol[e] = NewDir THEN Unlinked(proc, e) ELSE proc
    OBVIOUS
  <2>2. proc' = Without(p, {w})
    BY <2>1, <1>1 DEF AdoptFails
  <2>3. ASSUME NEW v \in Workers
        PROVE  /\ p[v] \in Procs
               /\ proc[v].mnt # e \/ vol[e] # NewDir => p[v] = proc[v]
               /\ proc[v].mnt = e /\ vol[e] = NewDir => p[v].mnt = Gone /\ p[v].st = proc[v].st /\ p[v].own = proc[v].own
    <3>1. proc[v] \in Procs
      BY <1>0 DEF Values
    <3>2. CASE vol[e] = NewDir
      <4>1. p[v] = IF proc[v].mnt = e THEN [proc[v] EXCEPT !.mnt = Gone] ELSE proc[v]
        BY <2>1, <3>2 DEF Unlinked
      <4> QED BY <3>1, <3>2, <4>1 DEF Procs
    <3>3. CASE vol[e] # NewDir
      BY <3>1, <3>3, <2>1
    <3> QED BY <3>2, <3>3
  <2>4. NoProc \in Procs
    BY BoundsAssumption DEF Procs, NoProc, Ops
  <2> QED BY <2>2, <2>3, <2>4, <1>2 DEF Without
<1>5. /\ cmd' \in [Engines -> Cmds]
      /\ cmd'[g].pc = "manifest" /\ cmd'[g].w = None /\ cmd'[g].op = cmd[g].op /\ cmd'[g].e = e
      /\ OnlyEngine(g)
  <2>1. cmd' = [cmd EXCEPT ![g].pc = "manifest", ![g].w = None]
    BY DEF AdoptFails
  <2> QED BY <2>1, <1>0, <1>1, <1>2, <1>u DEF Values, Cmds, Points, OnlyEngine
<1>6. Values'
  BY <1>0, <1>2, <1>3, <1>4, <1>5, <1>u DEF Values, Hosts, Counts
<1>7. OthersSame(g)
  <2>1. \A v \in Workers : proc[v].own \in up \ {g} /\ proc[v].st # "free"
                            /\ ~ (proc[v].mnt \in Episodes /\ proc[v].mnt = cmd[g].e)
                              => proc'[v] = proc[v] /\ vol'[v] = vol[v]
    BY <1>1, <1>2, <1>3, <1>4 DEF Warm
  <2> QED BY <2>1, <1>0, OthersHeld
<1>8. EngineOK(g)'
  <2>1. Course(g)'
    BY <1>2, <1>5 DEF Course, Starting
  <2>2. Apart(g)'
    BY <1>0, <1>5, <1>u DEF EngineOK, Apart
  <2>4. InCmd(g, cmd[g].w, cmd[g].e)'
    BY <1>5 DEF InCmd
  <2>5. PICK ws : ws = {w} \cup {v \in Workers : proc[v].mnt = e}
    OBVIOUS
  <2>6. \A v \in Workers \ ws : proc'[v] = proc[v] /\ vol'[v] = vol[v]
    BY <2>5, <1>2, <1>3, <1>4
  <2>7. \A j \in Slots : slot'[g][j] = slot[g][j] /\ slot[g][j].w \notin ws
    BY <2>5, <1>0, <1>1, <1>2, <1>u, CmdOnly, Unreached
  <2>8. \A f \in Episodes : entry'[g][f] = entry[g][f] /\ entry[g][f] \notin ws
    BY <2>5, <1>0, <1>1, <1>2, <1>u, CmdOnly, Unreached
  <2> QED BY <2>1, <2>2, <2>4, <2>6, <2>7, <2>8, <1>0, EngineTouch
<1>9. OneHolder'
  <2>1. \A f \in Episodes : Holds(g, f)' => Holds(g, f) \/ ~ Served(f)
    BY <1>1, <1>5, <1>u DEF Holds
  <2>2. \A f \in Episodes : cmd'[g].e = f => entry'[g][f] \notin Workers
    BY <1>0, <1>1, <1>5, <1>u DEF OneHolder
  <2> QED BY <2>1, <2>2, <1>0, <1>5, HoldersStep
<1>10. Mounts'
  <2> SUFFICES ASSUME NEW v \in Workers PROVE Mounted(v)'
    BY DEF Mounts
  <2>1. Mounted(v)
    BY <1>0 DEF Mounts
  <2>2. CASE v = w
    BY <2>2, <1>4, NamesAssumption DEF Mounted, NoProc
  <2>3. CASE v # w /\ proc[v].mnt = e /\ vol[e] = NewDir
    BY <2>1, <2>3, <1>2, <1>4, NamesAssumption DEF Mounted
  <2>4. CASE v # w /\ (proc[v].mnt # e \/ vol[e] # NewDir)
    <3>1. PICK m : m = proc[v].mnt
      OBVIOUS
    <3>2. m \in Episodes => vol'[m] = vol[m]
      BY <3>1, <2>4, <1>2, <1>3, NamesAssumption
    <3> QED BY <2>1, <2>4, <3>1, <3>2, <1>4 DEF Mounted
  <2> QED BY <2>2, <2>3, <2>4
<1>11. Writers'
  <2>1. \A v \in Workers : Writer(v)' => Writer(v) /\ proc'[v].own = proc[v].own
    BY <1>2, <1>4, <1>u, NamesAssumption DEF Writer, Writes, NoProc
  <2>2. \A v \in Workers : ~ Read(g, v)
    BY <1>0 DEF Read
  <2> QED BY <2>1, <2>2, <1>0, <1>5, WritersStep
<1>12. Kept'
  <2> SUFFICES ASSUME NEW f \in Episodes \ cut, f # e PROVE KeptOf(f)'
    BY <1>2 DEF Kept
  <2>1. vol'[f] = vol[f]
    BY <1>2, <1>3, NamesAssumption
  <2>2. \A v \in Workers : proc[v].st = "dump" /\ proc[v].mnt = f => proc'[v].st = "dump" /\ proc'[v].mnt = f
    BY <1>0, <1>2, <1>4 DEF InCmd
  <2> QED BY <2>1, <2>2, <1>0, <1>1, <1>5, <1>7, <1>u, KeptOther
<1>13. \A f \in Episodes : vol[f] # None /\ vol'[f] = None => cmd[g].e = f
  BY <1>1, <1>2, <1>3, NamesAssumption
<1> QED BY <1>0, <1>5, <1>6, <1>7, <1>8, <1>9, <1>10, <1>11, <1>12, <1>13, OffStep, OthersKeep DEF RLInv

-----------------------------------------------------------------------------
(* A start from the worker to the entry *)

(* A request leaves the process as it was but for the exchange it begins. *)
LEMMA SentIs ==
  ASSUME NEW p \in Procs, NEW op \in Ops, NEW q, q = Sent(p, op)
  PROVE  /\ q \in Procs /\ q.own = p.own /\ q.tmpl = p.tmpl /\ q.mnt = p.mnt /\ q.resume = p.resume /\ q.n = p.n
         /\ q.tag = 1 - p.tag /\ q.rep = p.rep /\ q.op = op
         /\ q.st = IF p.st = "dead" THEN "dead" ELSE "run"
<1>1. Actions(op) \in Nat
  BY BoundsAssumption DEF Actions
<1>2. 1 - p.tag \in 0..1
  BY DEF Procs
<1> QED BY <1>1, <1>2, ZenonT(30) DEF Sent, Procs

(* The engine has a worker that serves the episode of its command take one request or vanish. *)
LEMMA LoadKeeps ==
  ASSUME RLInv, NEW g \in Engines, Load(g)
  PROVE  RLInv'
<1>0. Values /\ Off /\ OneHolder /\ Mounts /\ Writers /\ Kept /\ EngineOK(g) /\ g \in up /\ cmd[g].pc = "load"
  BY DEF RLInv, Load
<1>u. UNCHANGED <<up, done, swept, entry, slot, sched, vol, last, cut, faults, cmds>>
  BY DEF Load, engines, disk, NoFault
<1>1. PICK e, w : e = cmd[g].e /\ w = cmd[g].w
  OBVIOUS
<1>2. /\ e \in Episodes /\ w \in Workers /\ e \notin Workers /\ e # Gone /\ Starting(g) /\ vol[e] # None
      /\ InCmd(g, w, e) /\ cmd[g] \in Cmds /\ proc[w] \in Procs
  BY <1>0, <1>1, NamesAssumption DEF EngineOK, Course, Values
<1>3. /\ Serves(g, w, e) /\ proc[w].st \in {"warm", "dead"} /\ proc[w].rep = None /\ proc[w].tag = 0
  BY <1>0, <1>2 DEF InCmd
<1>4. /\ proc' \in [Workers -> Procs] /\ cmd' \in [Engines -> Cmds]
      /\ \A v \in Workers \ {w} : proc'[v] = proc[v]
      /\ cmd'[g].e = e /\ cmd'[g].resume = cmd[g].resume
      /\ OnlyEngine(g) /\ Starting(g)'
      /\ \/ proc'[w] = NoProc /\ cmd'[g].pc = "manifest" /\ cmd'[g].w = None
         \/ /\ proc'[w].st = "run" /\ proc'[w].op = "reset" /\ proc'[w].tag = 1 /\ proc'[w].rep = None
            /\ proc'[w].own = g /\ proc'[w].mnt = e /\ proc'[w].tmpl = Shape[e]
            /\ proc'[w].resume = cmd[g].resume
            /\ cmd'[g].pc = "read" /\ cmd'[g].w = w /\ cmd'[g].tag = 1
  <2>1. CASE proc[w].st = "dead"
    <3>1. proc' = Without(proc, {w}) /\ cmd' = [cmd EXCEPT ![g].pc = "manifest", ![g].w = None]
      BY <2>1, <1>1 DEF Load
    <3>2. NoProc \in Procs
      BY BoundsAssumption DEF Procs, NoProc, Ops
    <3>3. proc' \in [Workers -> Procs] /\ proc'[w] = NoProc /\ \A v \in Workers \ {w} : proc'[v] = proc[v]
      BY <3>1, <3>2, <1>0, <1>2 DEF Without, Values
    <3>4. /\ cmd' \in [Engines -> Cmds] /\ cmd'[g].pc = "manifest" /\ cmd'[g].w = None /\ cmd'[g].e = e
          /\ cmd'[g].resume = cmd[g].resume /\ cmd'[g].op = cmd[g].op
          /\ \A h \in Engines \ {g} : cmd'[h] = cmd[h]
      BY <3>1, <1>0, <1>1, <1>2 DEF Values, Cmds, Points
    <3> QED BY <3>3, <3>4, <1>2, <1>u DEF OnlyEngine, Starting
  <2>2. CASE proc[w].st # "dead"
    <3>1. PICK p, q : p = [proc[w] EXCEPT !.resume = cmd[g].resume] /\ q = Sent(p, "reset")
      OBVIOUS
    <3>2. /\ p \in Procs /\ p.st = proc[w].st /\ p.rep = None /\ p.tag = 0 /\ p.own = g /\ p.mnt = e /\ p.tmpl = Shape[e]
          /\ p.resume = cmd[g].resume
      BY <3>1, <1>2, <1>3 DEF Procs, Cmds, Serves
    <3>3. /\ q \in Procs /\ q.own = g /\ q.tmpl = Shape[e] /\ q.mnt = e /\ q.resume = cmd[g].resume
          /\ q.tag = 1 /\ q.rep = None /\ q.op = "reset" /\ q.st = "run"
      <4>1. "reset" \in Ops
        BY DEF Ops
      <4>2. /\ q \in Procs /\ q.own = p.own /\ q.tmpl = p.tmpl /\ q.mnt = p.mnt /\ q.resume = p.resume
            /\ q.tag = 1 - p.tag /\ q.rep = p.rep /\ q.op = "reset" /\ q.st = IF p.st = "dead" THEN "dead" ELSE "run"
        <5>1. p \in Procs /\ q = Sent(p, "reset")
          BY <3>1, <3>2
        <5> QED BY <5>1, <4>1, SentIs
      <4>3. q.resume = cmd[g].resume
        BY <4>2, <3>2
      <4>4. q.tag = 1 /\ q.st = "run"
        BY <4>2, <3>2, <2>2
      <4> QED BY <4>2, <4>3, <4>4, <3>2
    <3>4. /\ proc' = [proc EXCEPT ![w] = q]
          /\ cmd' = [cmd EXCEPT ![g].pc = "read", ![g].op = "claim", ![g].tag = 1]
      BY <3>1, <2>2, <1>1 DEF Load
    <3>5. proc' \in [Workers -> Procs] /\ proc'[w] = q /\ \A v \in Workers \ {w} : proc'[v] = proc[v]
      BY <3>3, <3>4, <1>0, <1>2 DEF Values
    <3>6. /\ cmd' \in [Engines -> Cmds] /\ cmd'[g].pc = "read" /\ cmd'[g].w = w /\ cmd'[g].e = e /\ cmd'[g].tag = 1
          /\ cmd'[g].resume = cmd[g].resume /\ cmd'[g].op = "claim"
          /\ \A h \in Engines \ {g} : cmd'[h] = cmd[h]
      <4>1. PICK c : c = [cmd[g] EXCEPT !.pc = "read", !.op = "claim", !.tag = 1]
        OBVIOUS
      <4>2. c.pc = "read" /\ c.op = "claim" /\ c.tag = 1 /\ c.w = w /\ c.e = e
        BY <4>1, <1>1, <1>2 DEF Cmds
      <4>4. c.resume = cmd[g].resume
        BY <4>1, <1>2 DEF Cmds
      <4>5. c \in Cmds
        <5>1. cmd[g] \in Cmds
          BY <1>2
        <5>2. "read" \in Points /\ 1 \in 0..1
          BY DEF Points
        <5> QED BY <5>1, <5>2, <4>1 DEF Cmds
      <4>3. cmd' = [cmd EXCEPT ![g] = c]
        BY <4>1, <3>4
      <4> QED BY <4>2, <4>3, <4>4, <4>5, <1>0 DEF Values
    <3> QED BY <3>3, <3>5, <3>6, <1>u DEF OnlyEngine, Starting
  <2> QED BY <2>1, <2>2
<1>5. Values'
  BY <1>0, <1>4, <1>u DEF Values, Hosts, Counts
<1>6. OthersSame(g)
  BY <1>0, <1>3, <1>4, <1>u, OthersHeld DEF Serves
<1>7. EngineOK(g)'
  <2>1. Course(g)'
    BY <1>2, <1>4 DEF Course, Starting
  <2>2. Apart(g)'
    BY <1>0, <1>4, <1>u DEF EngineOK, Apart
  <2>3. InCmd(g, cmd[g].w, cmd[g].e)'
    <3>1. CASE cmd'[g].w = None
      BY <3>1, <1>2, <1>4, NamesAssumption DEF InCmd
    <3>2. CASE cmd'[g].w # None
      <4>1. InCmd(g, w, e)'
        BY <3>2, <1>4 DEF InCmd, Serves
      <4> QED BY <4>1, <3>2, <1>4
    <3> QED BY <3>1, <3>2
  <2>4. \A v \in Workers \ {w} : proc'[v] = proc[v] /\ vol'[v] = vol[v]
    BY <1>4, <1>u
  <2>5. \A j \in Slots : slot'[g][j] = slot[g][j] /\ slot[g][j].w \notin {w}
    BY <1>0, <1>1, <1>2, <1>u, CmdOnly
  <2>6. \A f \in Episodes : entry'[g][f] = entry[g][f] /\ entry[g][f] \notin {w}
    BY <1>0, <1>1, <1>2, <1>u, CmdOnly
  <2> QED BY <2>1, <2>2, <2>3, <2>4, <2>5, <2>6, <1>0, EngineTouch
<1>8. OneHolder'
  <2>1. \A f \in Episodes : Holds(g, f)' => Holds(g, f) \/ ~ Served(f)
    BY <1>1, <1>4, <1>u DEF Holds
  <2>2. \A f \in Episodes : cmd'[g].e = f => entry'[g][f] \notin Workers
    <3>1. entry[g][e] \notin Workers /\ cmd'[g].e = e
      BY <1>0, <1>1, <1>2, <1>4 DEF OneHolder
    <3> QED BY <3>1, <1>u
  <2> QED BY <2>1, <2>2, <1>0, <1>4, HoldersStep
<1>9. Mounts'
  <2>1. \A v \in Workers \cap {w} : Mounted(v)'
    BY <1>2, <1>4, <1>u, NamesAssumption DEF Mounted, NoProc
  <2>2. \A f \in Episodes : vol[f] # None => vol'[f] # None
    BY <1>u
  <2> QED BY <2>1, <2>2, <1>0, <1>4, MountsStep
<1>10. Writers'
  <2>1. \A v \in Workers : Writer(v)' => Writer(v) /\ proc'[v].own = proc[v].own
    BY <1>4, <1>u DEF Writer, Writes, NoProc
  <2>2. \A v \in Workers : ~ Read(g, v)
    BY <1>0 DEF Read
  <2> QED BY <2>1, <2>2, <1>0, <1>4, WritersStep
<1>11. Kept'
  <2> SUFFICES ASSUME NEW f \in Episodes \ cut PROVE KeptOf(f)'
    BY <1>u DEF Kept
  <2>1. CASE f # e
    <3>1. \A v \in Workers : proc[v].st = "dump" /\ proc[v].mnt = f => proc'[v].st = "dump" /\ proc'[v].mnt = f
      BY <1>3, <1>4
    <3> QED BY <2>1, <3>1, <1>0, <1>1, <1>4, <1>6, <1>u, KeptOther
  <2>2. CASE f = e
    <3>1. last[e] # None => Stored(e) /\ Found(g, e, cmd[g].w)
      BY <2>2, <1>0, <1>1, <1>2, StartHas
    <3>2. last'[e] # None => Stored(e)'
      BY <3>1, <1>u DEF Stored
    <3>3. last'[e] # None => Found(g, e, cmd[g].w)'
      BY <3>1, <1>4, <1>u DEF Found
    <3> QED BY <3>2, <3>3, <2>2, <1>0, <1>1, <1>4, KeptStart DEF Holds
  <2> QED BY <2>1, <2>2
<1>12. \A f \in Episodes : vol[f] # None /\ vol'[f] = None => cmd[g].e = f
  BY <1>u
<1> QED BY <1>0, <1>4, <1>5, <1>6, <1>7, <1>8, <1>9, <1>10, <1>11, <1>12, OffStep, OthersKeep DEF RLInv

(* The manifest is written, or not; the directory keeps its checkpoint. *)
LEMMA WriteManifestKeeps ==
  ASSUME RLInv, NEW g \in Engines, WriteManifest(g)
  PROVE  RLInv'
<1>0. Values /\ Off /\ OneHolder /\ EngineOK(g) /\ g \in up /\ cmd[g].pc = "manifest"
  BY DEF RLInv, WriteManifest
<1>u. UNCHANGED <<up, done, swept, entry, slot, sched, proc, last, cut, cmds>> /\ faults' \in 0..MaxFaults
  BY <1>0, BoundsAssumption DEF WriteManifest, engines, Fault, NoFault, Values, Counts
<1>1. PICK e, w : e = cmd[g].e /\ w = cmd[g].w
  OBVIOUS
<1>2. e \in Episodes /\ e \notin Workers /\ w \in Workers \cup {None} /\ Starting(g) /\ InCmd(g, w, e) /\ cmd[g] \in Cmds
  BY <1>0, <1>1, NamesAssumption DEF EngineOK, Course, Values, Cmds
<1>3. /\ vol' \in [Episodes \cup Workers -> {None} \cup Dirs]
      /\ \A v \in (Episodes \cup Workers) \ {e} : vol'[v] = vol[v]
      /\ vol'[e] = vol[e] \/ (vol[e] # None /\ vol'[e] # None /\ vol'[e].ckpt = vol[e].ckpt)
  <2>1. CASE vol[e] # None /\ vol' = [vol EXCEPT ![e].manifest = TRUE]
    <3>1. vol[e] \in Dirs
      BY <2>1, <1>0, <1>2 DEF Values
    <3>2. PICK d : d = [vol[e] EXCEPT !.manifest = TRUE]
      OBVIOUS
    <3>3. d \in Dirs /\ d.ckpt = vol[e].ckpt /\ d # None
      BY <3>1, <3>2, DirsThere DEF Dirs
    <3>4. vol' = [vol EXCEPT ![e] = d]
      BY <2>1, <3>2
    <3> QED BY <2>1, <3>3, <3>4, <1>0, <1>2, ZenonT(30) DEF Values
  <2>2. CASE UNCHANGED vol
    BY <2>2, <1>0 DEF Values
  <2> QED BY <2>1, <2>2, <1>1 DEF WriteManifest
<1>4. /\ cmd' \in [Engines -> Cmds] /\ OnlyEngine(g)
      /\ cmd'[g].pc = (IF w = None THEN "spawn" ELSE "insert")
      /\ cmd'[g].w = w /\ cmd'[g].op = cmd[g].op /\ cmd'[g].e = e
      /\ cmd'[g].resume = cmd[g].resume
  <2>1. cmd' = [cmd EXCEPT ![g].pc = IF w = None THEN "spawn" ELSE "insert"]
    BY <1>1 DEF WriteManifest, Goto
  <2> QED BY <2>1, <1>0, <1>1, <1>2, <1>u DEF Values, Cmds, Points, OnlyEngine
<1>5. Values'
  BY <1>0, <1>3, <1>4, <1>u DEF Values, Hosts, Counts
<1>6. \A v \in Workers : vol'[v] = vol[v]
  BY <1>2, <1>3
<1>7. EngineOK(g)'
  <2>1. Course(g)'
    BY <1>2, <1>4 DEF Course, Starting
  <2>2. Apart(g)'
    BY <1>0, <1>4, <1>u DEF EngineOK, Apart
  <2>3. InCmd(g, w, e)'
    BY <1>0, <1>2, <1>4, <1>u DEF InCmd, Serves
  <2>4. InCmd(g, cmd[g].w, cmd[g].e)'
    BY <2>3, <1>4
  <2> QED BY <2>1, <2>2, <2>4, <1>0, <1>6, <1>u, EngineCmd
<1>8. Core'
  <2>1. Starting(g)' /\ cmd[g].pc # "adopt" /\ cmd'[g].pc # "adopt" /\ cmd'[g] \in Cmds
    BY <1>0, <1>2, <1>4 DEF Starting
  <2>2. \A f \in Episodes \ cut : Found(g, f, cmd[g].w) /\ cmd[g].e = f => Found(g, f, cmd[g].w)'
    BY <1>0, <1>1, <1>4, <1>u DEF Found
  <2>3. \A f \in Episodes : \/ vol'[f] = vol[f]
                            \/ f = cmd[g].e /\ vol[f] # None /\ vol'[f] # None /\ vol'[f].ckpt = vol[f].ckpt
    BY <1>1, <1>3
  <2> QED BY <2>1, <2>2, <2>3, <1>0, <1>1, <1>2, <1>4, <1>6, <1>7, <1>u, GoesOn
<1> QED BY <1>0, <1>4, <1>5, <1>8, OffStep DEF RLInv, Core

(* An engine between two commands. *)
LEMMA IdleIs == Idle \in Cmds /\ Idle.pc = "idle" /\ Idle.e = None /\ Idle.w = None
BY DEF Idle, Cmds, Points, Ops

(* The cold path begins an exchange with a new worker, or fails and the start is over. *)
LEMMA SpawnKeeps ==
  ASSUME RLInv, NEW g \in Engines, Spawn(g)
  PROVE  RLInv'
<1>0. Values /\ Off /\ OneHolder /\ Mounts /\ Writers /\ Kept /\ EngineOK(g) /\ g \in up /\ cmd[g].pc = "spawn"
  BY DEF RLInv, Spawn
<1>u. UNCHANGED <<up, done, swept, entry, slot, sched, vol, last, cut, cmds>> /\ faults' \in 0..MaxFaults
  <2>1. UNCHANGED <<up, done, swept, entry, slot, sched, vol, last, cut>>
    BY DEF Spawn, engines, disk
  <2>2. Fault("launch") \/ NoFault
    BY DEF Spawn
  <2> QED BY <2>1, <2>2, <1>0, BoundsAssumption DEF Fault, NoFault, Values, Counts
<1>1. PICK e : e = cmd[g].e
  OBVIOUS
<1>2. e \in Episodes /\ e \notin Workers /\ e # None /\ e # Gone /\ Starting(g) /\ cmd[g].w = None /\ cmd[g] \in Cmds
  BY <1>0, <1>1, NamesAssumption DEF EngineOK, Course, Values
<1>3. PICK ws :
      /\ proc' \in [Workers -> Procs] /\ cmd' \in [Engines -> Cmds] /\ OnlyEngine(g)
      /\ ws \subseteq Workers /\ (\A v \in ws : proc[v].st = "free")
      /\ \A v \in Workers \ ws : proc'[v] = proc[v]
      /\ \/ ws = {} /\ cmd'[g] = Idle
         \/ \E w \in Workers :
              /\ ws = {w}
              /\ proc'[w].st = (IF vol[e] = None THEN "dead" ELSE "run")
              /\ proc'[w].op = "reset" /\ proc'[w].tag = 1 /\ proc'[w].rep = None
              /\ proc'[w].own = g /\ proc'[w].mnt = e /\ proc'[w].tmpl = Shape[e]
              /\ proc'[w].resume = cmd[g].resume
              /\ cmd'[g].pc = "read" /\ cmd'[g].w = w /\ cmd'[g].tag = 1 /\ cmd'[g].e = e
              /\ cmd'[g].op = cmd[g].op /\ cmd'[g].resume = cmd[g].resume
  <2>1. CASE Fault("launch") /\ Answer(g) /\ UNCHANGED proc
    <3>1. cmd' = [cmd EXCEPT ![g] = Idle]
      BY <2>1 DEF Answer
    <3>2. cmd' \in [Engines -> Cmds] /\ cmd'[g] = Idle /\ \A h \in Engines \ {g} : cmd'[h] = cmd[h]
      BY <3>1, <1>0, IdleIs DEF Values
    <3>3. OnlyEngine(g) /\ proc' \in [Workers -> Procs] /\ \A v \in Workers : proc'[v] = proc[v]
      BY <2>1, <3>2, <1>0, <1>u DEF OnlyEngine, Values
    <3> QED BY <3>2, <3>3
  <2>2. ASSUME NEW w \in Workers, Fresh(w),
               proc' = [proc EXCEPT ![w] =
                          Sent([NoProc EXCEPT !.st = IF vol[e] = None THEN "dead" ELSE "idle", !.own = g,
                                              !.tmpl = Shape[e], !.mnt = e, !.resume = cmd[g].resume], "reset")],
               cmd' = [cmd EXCEPT ![g].pc = "read", ![g].w = w, ![g].tag = 1]
        PROVE  /\ proc' \in [Workers -> Procs] /\ cmd' \in [Engines -> Cmds] /\ OnlyEngine(g)
               /\ proc[w].st = "free"
               /\ \A v \in Workers \ {w} : proc'[v] = proc[v]
               /\ proc'[w].st = (IF vol[e] = None THEN "dead" ELSE "run")
               /\ proc'[w].op = "reset" /\ proc'[w].tag = 1 /\ proc'[w].rep = None
               /\ proc'[w].own = g /\ proc'[w].mnt = e /\ proc'[w].tmpl = Shape[e]
               /\ proc'[w].resume = cmd[g].resume
               /\ cmd'[g].pc = "read" /\ cmd'[g].w = w /\ cmd'[g].tag = 1 /\ cmd'[g].e = e
               /\ cmd'[g].op = cmd[g].op /\ cmd'[g].resume = cmd[g].resume
    <3>1. PICK s : s = IF vol[e] = None THEN "dead" ELSE "idle"
      OBVIOUS
    <3>2. PICK p : p = [NoProc EXCEPT !.st = s, !.own = g, !.tmpl = Shape[e], !.mnt = e, !.resume = cmd[g].resume]
      OBVIOUS
    <3>3. PICK q : q = Sent(p, "reset")
      OBVIOUS
    <3>4. Shape[e] \in Shapes /\ cmd[g].resume \in BOOLEAN /\ 0 \in 0..MaxSteps /\ s \in {"dead", "idle"}
      BY <3>1, <1>2, ShapeAssumption, BoundsAssumption DEF Cmds
    <3>5. p \in Procs
      <4>1. NoProc \in Procs
        BY BoundsAssumption DEF Procs, NoProc, Ops
      <4> QED BY <4>1, <3>2, <3>4, <1>2, ZenonT(30) DEF Procs
    <3>6. p.st = s /\ p.own = g /\ p.tmpl = Shape[e] /\ p.mnt = e /\ p.tag = 0 /\ p.rep = None
      BY <3>2 DEF NoProc
    <3>7. p.resume = cmd[g].resume
      BY <3>2 DEF NoProc
    <3>8. "reset" \in Ops
      BY DEF Ops
    <3>9. /\ q \in Procs /\ q.own = p.own /\ q.tmpl = p.tmpl /\ q.mnt = p.mnt /\ q.resume = p.resume
          /\ q.tag = 1 - p.tag /\ q.rep = p.rep /\ q.op = "reset" /\ q.st = IF p.st = "dead" THEN "dead" ELSE "run"
      BY <3>3, <3>5, <3>8, SentIs
    <3>10. q.st = (IF vol[e] = None THEN "dead" ELSE "run") /\ q.tag = 1
      BY <3>1, <3>6, <3>9
    <3>11. q.resume = cmd[g].resume
      BY <3>7, <3>9
    <3>12. proc' = [proc EXCEPT ![w] = q]
      BY <2>2, <3>1, <3>2, <3>3
    <3>13. PICK c : c = [cmd[g] EXCEPT !.pc = "read", !.w = w, !.tag = 1]
      OBVIOUS
    <3>14. c.pc = "read" /\ c.op = cmd[g].op /\ c.tag = 1 /\ c.w = w /\ c.e = e
      BY <3>13, <1>1, <1>2 DEF Cmds
    <3>15. c.resume = cmd[g].resume
      BY <3>13, <1>2 DEF Cmds
    <3>16. c \in Cmds
      <4>1. cmd[g] \in Cmds /\ "read" \in Points /\ 1 \in 0..1
        BY <1>2 DEF Points
      <4> QED BY <4>1, <3>13 DEF Cmds
    <3>17. cmd' = [cmd EXCEPT ![g] = c]
      BY <2>2, <3>13
    <3>18. /\ cmd' \in [Engines -> Cmds] /\ cmd'[g] = c /\ \A h \in Engines \ {g} : cmd'[h] = cmd[h]
           /\ proc' \in [Workers -> Procs] /\ proc'[w] = q /\ \A v \in Workers \ {w} : proc'[v] = proc[v]
      BY <3>9, <3>12, <3>16, <3>17, <1>0 DEF Values
    <3>19. OnlyEngine(g) /\ proc[w].st = "free"
      BY <3>18, <2>2, <1>u DEF OnlyEngine, Fresh, Unused
    <3> QED BY <3>6, <3>9, <3>10, <3>11, <3>14, <3>15, <3>18, <3>19
  <2>3. CASE ~ (Fault("launch") /\ Answer(g) /\ UNCHANGED proc)
    <3>1. PICK w \in Workers :
            /\ Fresh(w)
            /\ proc' = [proc EXCEPT ![w] =
                          Sent([NoProc EXCEPT !.st = IF vol[e] = None THEN "dead" ELSE "idle", !.own = g,
                                              !.tmpl = Shape[e], !.mnt = e, !.resume = cmd[g].resume], "reset")]
            /\ cmd' = [cmd EXCEPT ![g].pc = "read", ![g].w = w, ![g].tag = 1]
      BY <2>3, <1>1 DEF Spawn
    <3>2. /\ proc' \in [Workers -> Procs] /\ cmd' \in [Engines -> Cmds] /\ OnlyEngine(g)
          /\ proc[w].st = "free"
          /\ \A v \in Workers \ {w} : proc'[v] = proc[v]
          /\ proc'[w].st = (IF vol[e] = None THEN "dead" ELSE "run")
          /\ proc'[w].op = "reset" /\ proc'[w].tag = 1 /\ proc'[w].rep = None
          /\ proc'[w].own = g /\ proc'[w].mnt = e /\ proc'[w].tmpl = Shape[e]
          /\ proc'[w].resume = cmd[g].resume
          /\ cmd'[g].pc = "read" /\ cmd'[g].w = w /\ cmd'[g].tag = 1 /\ cmd'[g].e = e
          /\ cmd'[g].op = cmd[g].op /\ cmd'[g].resume = cmd[g].resume
      BY <3>1, <2>2
    <3>3. PICK ws : ws = {w}
      OBVIOUS
    <3>4. ws \subseteq Workers /\ (\A v \in ws : proc[v].st = "free") /\ \A v \in Workers \ ws : proc'[v] = proc[v]
      BY <3>2, <3>3
    <3> QED BY <3>2, <3>3, <3>4
  <2> QED BY <2>1, <2>3
<1>4. Values'
  BY <1>0, <1>3, <1>u DEF Values, Hosts, Counts
<1>5. \A h \in up : \A v \in Held(h) : v \notin ws
  BY <1>0, <1>3, HeldIsOwn DEF RLInv
<1>6. OthersSame(g)
  <2>1. \A h \in up, v \in Workers : v \in Held(h) => proc'[v] = proc[v]
    BY <1>3, <1>5
  <2> QED BY <2>1, <1>u DEF OthersSame, Held
<1>7. EngineOK(g)'
  <2>1. Course(g)'
    BY <1>2, <1>3, IdleIs DEF Course, Starting
  <2>2. Apart(g)'
    BY <1>0, <1>3, <1>u, IdleIs DEF EngineOK, Apart
  <2>3. InCmd(g, cmd[g].w, cmd[g].e)'
    <3>1. CASE cmd'[g] = Idle
      BY <3>1, IdleIs DEF InCmd
    <3>2. CASE cmd'[g] # Idle
      <4>1. PICK w \in Workers :
              /\ proc'[w].st = (IF vol[e] = None THEN "dead" ELSE "run")
              /\ proc'[w].op = "reset" /\ proc'[w].tag = 1 /\ proc'[w].rep = None
              /\ proc'[w].own = g /\ proc'[w].mnt = e /\ proc'[w].tmpl = Shape[e]
              /\ cmd'[g].pc = "read" /\ cmd'[g].w = w /\ cmd'[g].tag = 1 /\ cmd'[g].e = e
        BY <3>2, <1>3
      <4>2. InCmd(g, w, e)'
        BY <4>1 DEF InCmd, Serves
      <4> QED BY <4>1, <4>2
    <3> QED BY <3>1, <3>2
  <2>4. \A v \in Workers \ ws : proc'[v] = proc[v] /\ vol'[v] = vol[v]
    BY <1>3, <1>u
  <2>5. \A j \in Slots : slot'[g][j] = slot[g][j] /\ slot[g][j].w \notin ws
    BY <1>0, <1>3, <1>5, <1>u DEF Held
  <2>6. \A f \in Episodes : entry'[g][f] = entry[g][f] /\ entry[g][f] \notin ws
    BY <1>0, <1>3, <1>5, <1>u DEF Held
  <2> QED BY <2>1, <2>2, <2>3, <2>4, <2>5, <2>6, <1>0, EngineTouch
<1>8. cmd'[g].e = e \/ cmd'[g].e = None
  BY <1>3, IdleIs
<1>9. OneHolder'
  <2>1. \A f \in Episodes : Holds(g, f)' => Holds(g, f) \/ ~ Served(f)
    BY <1>1, <1>8, <1>u, NamesAssumption DEF Holds
  <2>2. \A f \in Episodes : cmd'[g].e = f => entry'[g][f] \notin Workers
    BY <1>0, <1>1, <1>8, <1>u, NamesAssumption DEF OneHolder
  <2> QED BY <2>1, <2>2, <1>0, <1>3, HoldersStep
<1>10. Mounts'
  <2>1. \A v \in Workers \cap ws : Mounted(v)'
    BY <1>2, <1>3, <1>u DEF Mounted
  <2>2. \A f \in Episodes : vol[f] # None => vol'[f] # None
    BY <1>u
  <2> QED BY <2>1, <2>2, <1>0, <1>3, MountsStep
<1>11. Writers'
  <2>1. \A v \in Workers : Writer(v)' => Writer(v) /\ proc'[v].own = proc[v].own
    BY <1>3, <1>u DEF Writer, Writes
  <2>2. \A v \in Workers : ~ Read(g, v)
    BY <1>0 DEF Read
  <2> QED BY <2>1, <2>2, <1>0, <1>3, WritersStep
<1>12. Kept'
  <2> SUFFICES ASSUME NEW f \in Episodes \ cut PROVE KeptOf(f)'
    BY <1>u DEF Kept
  <2>1. CASE f # e
    <3>1. \A v \in Workers : proc[v].st = "dump" /\ proc[v].mnt = f => proc'[v].st = "dump" /\ proc'[v].mnt = f
      BY <1>3
    <3>2. cmd[g].e # f /\ cmd'[g].e # f
      BY <2>1, <1>1, <1>8, NamesAssumption
    <3> QED BY <3>1, <3>2, <1>0, <1>3, <1>6, <1>u, KeptOther
  <2>2. CASE f = e
    <3>1. last[e] # None => Stored(e) /\ Found(g, e, cmd[g].w)
      BY <2>2, <1>0, <1>1, <1>2, StartHas
    <3>2. last'[e] # None => Stored(e)'
      BY <3>1, <1>u DEF Stored
    <3>3. last'[e] # None /\ cmd'[g].e = e => Found(g, e, cmd[g].w)'
      BY <3>1, <1>2, <1>3, <1>u, IdleIs DEF Found
    <3> QED BY <3>2, <3>3, <2>2, <1>0, <1>1, <1>2, <1>3, KeptStart DEF Holds
  <2> QED BY <2>1, <2>2
<1>13. \A f \in Episodes : vol[f] # None /\ vol'[f] = None => cmd[g].e = f
  BY <1>u
<1> QED BY <1>0, <1>3, <1>4, <1>6, <1>7, <1>9, <1>10, <1>11, <1>12, <1>13, OffStep, OthersKeep DEF RLInv

(* The entry holds the worker of a start that is over; it replaced none. *)
LEMMA InsertKeeps ==
  ASSUME RLInv, NEW g \in Engines, Insert(g)
  PROVE  RLInv'
<1>0. Values /\ Off /\ OneHolder /\ Mounts /\ Writers /\ Kept /\ EngineOK(g) /\ g \in up /\ cmd[g].pc = "insert"
  BY DEF RLInv, Insert
<1>1. PICK e, w : e = cmd[g].e /\ w = cmd[g].w
  OBVIOUS
<1>2. /\ e \in Episodes /\ e # None /\ w \in Workers /\ w # None /\ Starting(g) /\ InCmd(g, w, e)
      /\ entry[g][e] \notin Workers
  BY <1>0, <1>1, NamesAssumption DEF EngineOK, Course, OneHolder
<1>u. UNCHANGED <<up, done, swept, slot, sched, vol, last, faults, cmds, cut>> /\ \A v \in Workers : proc'[v] = proc[v]
  <2>1. {entry[g][e]} \cap Workers = {}
    BY <1>2
  <2>2. proc' = Without(proc, {}) /\ cut' = cut \cup CutBy({})
    BY <2>1, <1>1 DEF Insert
  <2> QED BY <2>2, <1>0 DEF Insert, engines, NoFault, Without, CutBy
<1>3. /\ entry' \in [Engines -> [Episodes -> {None, Lost} \cup Workers]]
      /\ entry'[g][e] = w /\ \A f \in Episodes \ {e} : entry'[g][f] = entry[g][f]
      /\ cmd' \in [Engines -> Cmds] /\ cmd'[g] = Idle
      /\ OnlyEngine(g) /\ proc' \in [Workers -> Procs]
  <2>1. entry' = [entry EXCEPT ![g][e] = w] /\ cmd' = [cmd EXCEPT ![g] = Idle]
    BY <1>1 DEF Insert, Answer
  <2>2. proc' \in [Workers -> Procs]
    BY <1>0, <1>u DEF Values, Insert, Without
  <2> QED BY <2>1, <2>2, <1>0, <1>2, <1>u, IdleIs DEF Values, OnlyEngine
<1>4. Values'
  BY <1>0, <1>3, <1>u DEF Values, Hosts, Counts
<1>5. OthersSame(g)
  BY <1>u DEF OthersSame, Held
<1>6. EngineOK(g)'
  <2>1. Course(g)'
    BY <1>3, IdleIs DEF Course
  <2>2. Apart(g)'
    BY <1>0, <1>3, <1>u, IdleIs DEF EngineOK, Apart
  <2>3. InCmd(g, cmd[g].w, cmd[g].e)'
    BY <1>3, IdleIs DEF InCmd
  <2>4. \A v \in Workers \ {w} : proc'[v] = proc[v] /\ vol'[v] = vol[v]
    BY <1>u
  <2>5. \A j \in Slots : slot'[g][j] = slot[g][j] /\ slot[g][j].w \notin {w}
    BY <1>0, <1>1, <1>2, <1>u, CmdOnly
  <2>6. \A f \in Episodes \ {e} : entry'[g][f] = entry[g][f] /\ entry[g][f] \notin {w}
    BY <1>0, <1>1, <1>2, <1>3, CmdOnly
  <2>7. InEntry(g, e, w)'
    BY <1>0, <1>2, <1>u DEF InEntry, InCmd, Serves
  <2>8. \A f \in Episodes : (entry'[g][f] = entry[g][f] /\ entry[g][f] \notin {w}) \/ InEntry(g, f, entry[g][f])'
    BY <2>6, <2>7, <1>3
  <2> QED BY <2>1, <2>2, <2>3, <2>4, <2>5, <2>8, <1>0, EngineTouch
<1>7. OneHolder'
  <2>1. \A f \in Episodes : Holds(g, f)' => Holds(g, f) \/ ~ Served(f)
    BY <1>1, <1>3, IdleIs, NamesAssumption DEF Holds
  <2>2. \A f \in Episodes : cmd'[g].e = f => entry'[g][f] \notin Workers
    BY <1>3, IdleIs, NamesAssumption
  <2> QED BY <2>1, <2>2, <1>0, <1>3, HoldersStep
<1>8. Mounts'
  BY <1>0, <1>u DEF Mounts, Mounted
<1>9. Writers'
  <2>1. \A v \in Workers : Writer(v)' => Writer(v) /\ proc'[v].own = proc[v].own
    BY <1>u DEF Writer, Writes
  <2>2. \A v \in Workers : ~ Read(g, v)
    BY <1>0 DEF Read
  <2> QED BY <2>1, <2>2, <1>0, <1>3, WritersStep
<1>10. Kept'
  <2> SUFFICES ASSUME NEW f \in Episodes \ cut PROVE KeptOf(f)'
    BY <1>u DEF Kept
  <2>0. cmd'[g].e # f
    BY <1>3, IdleIs, NamesAssumption
  <2>1. CASE f # e
    BY <2>0, <2>1, <1>0, <1>1, <1>3, <1>5, <1>u, KeptOther
  <2>2. CASE f = e
    <3>1. last[e] # None => Stored(e)
      BY <2>2, <1>0, <1>1, <1>2, StartHas
    <3>2. last'[e] # None => Stored(e)'
      BY <3>1, <1>u DEF Stored
    <3> QED BY <3>2, <2>0, <2>2, <1>0, <1>1, <1>2, <1>3, KeptStart DEF Holds
  <2> QED BY <2>1, <2>2
<1>11. \A f \in Episodes : vol[f] # None /\ vol'[f] = None => cmd[g].e = f
  BY <1>u
<1> QED BY <1>0, <1>3, <1>4, <1>5, <1>6, <1>7, <1>8, <1>9, <1>10, <1>11, OffStep, OthersKeep DEF RLInv

-----------------------------------------------------------------------------
(* Exchanges *)

(* The checkpoint of an episode that an engine holds and is not starting. *)
LEMMA HeldKept ==
  ASSUME RLInv, NEW g \in up, NEW e \in Episodes \ cut, Holds(g, e), cmd[g].pc # "adopt", last[e] # None
  PROVE  Dumped(e) \/ Stored(e)
<1>1. KeptOf(e) /\ OneHolder
  BY DEF RLInv, Kept
<1>2. \A h \in up : ~ Moved(h, e)
  BY <1>1 DEF OneHolder, Holds, Moved
<1> QED BY <1>1, <1>2 DEF KeptOf

(* The worker leaves the entry for the exchange. *)
LEMMA ExchangeKeeps ==
  ASSUME RLInv, NEW g \in Engines, NEW e \in Episodes, NEW op \in Ops, Exchange(g, e, op)
  PROVE  RLInv'
<1>0. Values /\ Off /\ OneHolder /\ Mounts /\ Writers /\ Kept /\ EngineOK(g) /\ g \in up /\ cmd[g].pc = "idle"
  BY DEF RLInv, Exchange
<1>u. UNCHANGED <<up, done, swept, slot, sched, vol, last, cut, faults>> /\ cmds' \in 0..MaxCmds
  BY <1>0, BoundsAssumption DEF Exchange, engines, disk, NextCmd, Values, Counts
<1>1. PICK w : w = entry[g][e]
  OBVIOUS
<1>2. /\ w \in Workers /\ w # None /\ e # None /\ Lost \notin Workers /\ InEntry(g, e, w) /\ proc[w] \in Procs
      /\ cmd[g] = Idle /\ Mounted(w) /\ e # Gone
  BY <1>0, <1>1, NamesAssumption DEF EngineOK, InEntries, Values, Exchange, Course, Mounts
<1>3. Serves(g, w, e) /\ proc[w].st \in {"idle", "dead"} /\ proc[w].rep = None
  BY <1>2 DEF InEntry
<1>4. /\ proc' \in [Workers -> Procs]
      /\ \A v \in Workers \ {w} : proc'[v] = proc[v]
      /\ proc'[w].st = (IF proc[w].st = "dead" THEN "dead" ELSE "run") /\ proc'[w].op = op
      /\ proc'[w].tag = 1 - proc[w].tag /\ proc'[w].rep = None
      /\ proc'[w].own = g /\ proc'[w].mnt = e /\ proc'[w].tmpl = Shape[e]
  <2>1. PICK q : q = Sent(proc[w], op)
    OBVIOUS
  <2>2. PICK p : p = proc[w]
    OBVIOUS
  <2>3. /\ q \in Procs /\ q.own = p.own /\ q.tmpl = p.tmpl /\ q.mnt = p.mnt
        /\ q.tag = 1 - p.tag /\ q.rep = p.rep /\ q.op = op /\ q.st = IF p.st = "dead" THEN "dead" ELSE "run"
    <3>1. p \in Procs /\ q = Sent(p, op)
      BY <2>1, <2>2, <1>2
    <3> QED BY <3>1, SentIs
  <2>4. proc' = [proc EXCEPT ![w] = q]
    BY <2>1, <1>1 DEF Exchange
  <2> QED BY <2>2, <2>3, <2>4, <1>0, <1>2, <1>3 DEF Values, Serves
<1>5. /\ entry' \in [Engines -> [Episodes -> {None, Lost} \cup Workers]]
      /\ entry'[g][e] = Lost /\ \A f \in Episodes \ {e} : entry'[g][f] = entry[g][f]
      /\ cmd' \in [Engines -> Cmds]
      /\ cmd'[g].pc = "read" /\ cmd'[g].op = op /\ cmd'[g].e = e /\ cmd'[g].w = w
      /\ cmd'[g].tag = 1 - proc[w].tag
      /\ OnlyEngine(g)
  <2>1. entry' = [entry EXCEPT ![g][e] = Lost]
    BY DEF Exchange
  <2>2. PICK t : t = 1 - proc[w].tag
    OBVIOUS
  <2>3. PICK c : c = [Idle EXCEPT !.pc = "read", !.op = op, !.e = e, !.w = w, !.tag = t]
    OBVIOUS
  <2>4. t \in 0..1
    BY <2>2, <1>2 DEF Procs
  <2>5. c.pc = "read" /\ c.op = op /\ c.e = e /\ c.w = w /\ c.tag = t
    BY <2>3 DEF Idle
  <2>6. c \in Cmds
    BY <2>3, <2>4, <1>2 DEF Idle, Cmds, Points
  <2>7. cmd' = [cmd EXCEPT ![g] = c]
    BY <2>2, <2>3, <1>1 DEF Exchange
  <2> QED BY <2>1, <2>2, <2>5, <2>6, <2>7, <1>0, <1>u DEF Values, OnlyEngine
<1>6. Values'
  BY <1>0, <1>4, <1>5, <1>u DEF Values, Hosts, Counts
<1>7. OthersSame(g)
  BY <1>0, <1>3, <1>4, <1>u, OthersHeld DEF Serves
<1>8. ~ Starting(g)'
  BY <1>5 DEF Starting, Ops
<1>9. EngineOK(g)'
  <2>1. Course(g)'
    BY <1>2, <1>5 DEF Course
  <2>2. Apart(g)'
    BY <1>0, <1>5, <1>u DEF EngineOK, Apart
  <2>3. InCmd(g, w, e)'
    BY <1>3, <1>4, <1>5, <1>8 DEF InCmd, Serves
  <2>4. InCmd(g, cmd[g].w, cmd[g].e)'
    BY <2>3, <1>5
  <2>5. \A v \in Workers \ {w} : proc'[v] = proc[v] /\ vol'[v] = vol[v]
    BY <1>4, <1>u
  <2>6. \A j \in Slots : slot'[g][j] = slot[g][j] /\ slot[g][j].w \notin {w}
    BY <1>0, <1>1, <1>2, <1>u, EntryOnly
  <2>7. \A f \in Episodes : (entry'[g][f] = entry[g][f] /\ entry[g][f] \notin {w}) \/ InEntry(g, f, entry[g][f])'
    <3>1. \A f \in Episodes \ {e} : entry[g][f] # w
      BY <1>0, <1>1, <1>2, EntryOnly
    <3>2. InEntry(g, e, entry[g][e])'
      BY <1>2, <1>5 DEF InEntry
    <3> QED BY <3>1, <3>2, <1>5
  <2> QED BY <2>1, <2>2, <2>4, <2>5, <2>6, <2>7, <1>0, EngineTouch
<1>10. OneHolder'
  <2>1. \A f \in Episodes : Holds(g, f)' => Holds(g, f) \/ ~ Served(f)
    BY <1>1, <1>2, <1>5 DEF Holds
  <2>2. \A f \in Episodes : cmd'[g].e = f => entry'[g][f] \notin Workers
    BY <1>2, <1>5
  <2> QED BY <2>1, <2>2, <1>0, <1>5, HoldersStep
<1>11. Mounts'
  <2>1. proc[w].st = "idle" => vol[e] # None
    BY <1>2, <1>3 DEF Mounted, Serves
  <2>2. Mounted(w)'
    BY <2>1, <1>2, <1>3, <1>4, <1>u, NamesAssumption DEF Mounted
  <2>3. \A v \in Workers \cap {w} : Mounted(v)'
    BY <2>2
  <2>4. \A f \in Episodes : vol[f] # None => vol'[f] # None
    BY <1>u
  <2> QED BY <2>3, <2>4, <1>0, <1>4, MountsStep
<1>12. Writers'
  <2> SUFFICES ASSUME NEW v \in Workers, Writer(v)' PROVE Read(proc[v].own, v)'
    BY DEF Writers
  <2>1. CASE v = w
    <3>1. Read(g, w)'
      BY <1>0, <1>5, <1>8, <1>u DEF Read
    <3> QED BY <3>1, <2>1, <1>4
  <2>2. CASE v # w
    <3>1. PICK h : h = proc[v].own
      OBVIOUS
    <3>2. proc'[v] = proc[v] /\ Writer(v)
      BY <2>2, <1>4, <1>u DEF Writer, Writes
    <3>3. Read(h, v) /\ up \subseteq Engines
      BY <3>1, <3>2, <1>0 DEF Writers, Values, Hosts
    <3>4. h # g /\ h \in Engines
      BY <3>3, <1>0 DEF Read
    <3>5. Read(h, v)'
      BY <3>3, <3>4, <1>5, <1>u DEF Read, OnlyEngine, Starting
    <3> QED BY <3>1, <3>2, <3>5
  <2> QED BY <2>1, <2>2
<1>13. Kept'
  <2> SUFFICES ASSUME NEW f \in Episodes \ cut PROVE KeptOf(f)'
    BY <1>u DEF Kept
  <2>0. \A v \in Workers : proc[v].st = "dump" /\ proc[v].mnt = f => proc'[v].st = "dump" /\ proc'[v].mnt = f
    BY <1>3, <1>4
  <2>1. CASE f # e
    <3>1. cmd[g].e # f
      BY <1>2, IdleIs, NamesAssumption
    <3> QED BY <2>0, <2>1, <3>1, <1>0, <1>5, <1>7, <1>u, KeptOther
  <2>2. CASE f = e
    <3>1. last[e] # None => Dumped(e) \/ Stored(e)
      BY <2>2, <1>0, <1>1, <1>2, HeldKept DEF Holds
    <3>2. last'[e] # None => Dumped(e)' \/ Stored(e)'
      BY <3>1, <2>0, <2>2, <1>u DEF Stored, Dumped
    <3> QED BY <3>2, <2>2, <1>0, <1>1, <1>2, <1>5, <1>8, KeptStart DEF Holds
  <2> QED BY <2>1, <2>2
<1>14. \A f \in Episodes : vol[f] # None /\ vol'[f] = None => cmd[g].e = f
  BY <1>u
<1> QED BY <1>0, <1>5, <1>6, <1>7, <1>9, <1>10, <1>11, <1>12, <1>13, <1>14, OffStep, OthersKeep DEF RLInv

(* A tick ends the exchange: the start goes on, or the worker is back in its entry. *)
LEMMA ReadTickKeeps ==
  ASSUME RLInv, NEW g \in Engines, ReadTick(g)
  PROVE  RLInv'
<1>0. Values /\ Off /\ OneHolder /\ Mounts /\ Writers /\ Kept /\ EngineOK(g) /\ g \in up /\ cmd[g].pc = "read"
  BY DEF RLInv, ReadTick
<1>u. UNCHANGED <<up, done, swept, slot, sched, vol, last, cut, faults, cmds>>
  BY DEF ReadTick, engines, disk, NoFault
<1>1. PICK e, w : e = cmd[g].e /\ w = cmd[g].w
  OBVIOUS
<1>2. /\ e \in Episodes /\ e # None /\ w \in Workers /\ w # None /\ InCmd(g, w, e) /\ Mounted(w)
      /\ entry[g][e] \notin Workers /\ proc[w] \in Procs /\ cmd[g] \in Cmds
  BY <1>0, <1>1, NamesAssumption DEF EngineOK, Course, OneHolder, Values, Mounts
<1>3. Serves(g, w, e) /\ proc[w].st = "idle" /\ proc[w].rep # None
  BY <1>0, <1>1, <1>2 DEF InCmd, ReadTick, Framed
<1>4. /\ proc' \in [Workers -> Procs]
      /\ \A v \in Workers \ {w} : proc'[v] = proc[v]
      /\ proc'[w].st = "idle" /\ proc'[w].rep = None /\ Like(proc'[w], proc[w])
  <2>1. proc' = [proc EXCEPT ![w].rep = None]
    BY <1>1 DEF ReadTick
  <2> QED BY <2>1, <1>0, <1>2, <1>3 DEF Values, Procs, Like
<1>5. /\ cmd' \in [Engines -> Cmds]
      /\ entry' \in [Engines -> [Episodes -> {None, Lost} \cup Workers]]
      /\ OnlyEngine(g)
      /\ \A f \in Episodes \ {e} : entry'[g][f] = entry[g][f]
      /\ \/ /\ Starting(g) /\ Starting(g)' /\ cmd'[g].pc \in {"manifest", "insert"} /\ cmd'[g].w = w /\ cmd'[g].e = e
            /\ cmd'[g].resume = cmd[g].resume
            /\ entry'[g][e] = entry[g][e]
         \/ /\ ~ Starting(g) /\ cmd'[g] = Idle /\ entry'[g][e] = w
  <2>1. ASSUME NEW pc \in {"manifest", "insert"}, cmd' = [cmd EXCEPT ![g].pc = pc], cmd[g].op \in {"start", "claim"},
               UNCHANGED entry
        PROVE  /\ cmd' \in [Engines -> Cmds]
               /\ entry' \in [Engines -> [Episodes -> {None, Lost} \cup Workers]]
               /\ OnlyEngine(g)
               /\ \A f \in Episodes \ {e} : entry'[g][f] = entry[g][f]
               /\ Starting(g) /\ Starting(g)' /\ cmd'[g].pc \in {"manifest", "insert"} /\ cmd'[g].w = w /\ cmd'[g].e = e
               /\ cmd'[g].resume = cmd[g].resume
               /\ entry'[g][e] = entry[g][e]
    <3>1. /\ cmd' \in [Engines -> Cmds] /\ \A h \in Engines \ {g} : cmd'[h] = cmd[h]
          /\ cmd'[g].pc = pc /\ cmd'[g].w = w /\ cmd'[g].e = e /\ cmd'[g].op = cmd[g].op
          /\ cmd'[g].resume = cmd[g].resume
      BY <2>1, <1>0, <1>1, <1>2 DEF Values, Cmds, Points
    <3> QED BY <3>1, <2>1, <1>0, <1>u DEF OnlyEngine, Starting, Values
  <2>2. CASE cmd[g].op = "claim"
    <3>1. cmd' = [cmd EXCEPT ![g].pc = "manifest"] /\ UNCHANGED entry
      BY <2>2 DEF ReadTick, Goto
    <3> QED BY <3>1, <2>1, <2>2
  <2>3. CASE cmd[g].op = "start"
    <3>1. cmd' = [cmd EXCEPT ![g].pc = "insert"] /\ UNCHANGED entry
      BY <2>3 DEF ReadTick, Goto
    <3> QED BY <3>1, <2>1, <2>3
  <2>4. CASE cmd[g].op # "claim" /\ cmd[g].op # "start"
    <3>1. cmd' = [cmd EXCEPT ![g] = Idle] /\ entry' = [entry EXCEPT ![g][e] = w]
      BY <2>4, <1>1 DEF ReadTick, Answer, PutBack
    <3> QED BY <3>1, <2>4, <1>0, <1>2, <1>u, IdleIs DEF Values, OnlyEngine, Starting
  <2> QED BY <2>2, <2>3, <2>4
<1>6. Values'
  BY <1>0, <1>4, <1>5, <1>u DEF Values, Hosts, Counts
<1>7. OthersSame(g)
  BY <1>0, <1>3, <1>4, <1>u, OthersHeld DEF Serves
<1>8. EngineOK(g)'
  <2>1. Course(g)'
    BY <1>2, <1>5, IdleIs DEF Course, Starting
  <2>2. Apart(g)'
    BY <1>0, <1>5, <1>u, IdleIs DEF EngineOK, Apart
  <2>3. InCmd(g, cmd[g].w, cmd[g].e)'
    <3>1. CASE cmd'[g] = Idle
      BY <3>1, IdleIs DEF InCmd
    <3>2. CASE cmd'[g] # Idle
      <4>1. cmd'[g].pc \in {"manifest", "insert"} /\ cmd'[g].w = w /\ cmd'[g].e = e
        BY <3>2, <1>5
      <4>2. InCmd(g, w, e)'
        BY <4>1, <1>3, <1>4 DEF InCmd, Serves, Like
      <4> QED BY <4>1, <4>2
    <3> QED BY <3>1, <3>2
  <2>4. \A v \in Workers \ {w} : proc'[v] = proc[v] /\ vol'[v] = vol[v]
    BY <1>4, <1>u
  <2>5. \A j \in Slots : slot'[g][j] = slot[g][j] /\ slot[g][j].w \notin {w}
    BY <1>0, <1>1, <1>2, <1>u, CmdOnly
  <2>6. \A f \in Episodes : entry[g][f] # w
    BY <1>0, <1>1, <1>2, CmdOnly
  <2>7. InEntry(g, e, w)'
    BY <1>3, <1>4 DEF InEntry, Serves, Like
  <2>8. \A f \in Episodes : (entry'[g][f] = entry[g][f] /\ entry[g][f] \notin {w}) \/ InEntry(g, f, entry[g][f])'
    BY <2>6, <2>7, <1>5
  <2> QED BY <2>1, <2>2, <2>3, <2>4, <2>5, <2>8, <1>0, EngineTouch
<1>9. OneHolder'
  <2>1. \A f \in Episodes : Holds(g, f)' => Holds(g, f) \/ ~ Served(f)
    BY <1>1, <1>5, IdleIs, NamesAssumption DEF Holds
  <2>2. \A f \in Episodes : cmd'[g].e = f => entry'[g][f] \notin Workers
    BY <1>2, <1>5, IdleIs, NamesAssumption
  <2> QED BY <2>1, <2>2, <1>0, <1>5, HoldersStep
<1>10. Mounts'
  <2>1. \A v \in Workers \cap {w} : Mounted(v)'
    BY <1>2, <1>3, <1>4, <1>u DEF Mounted, Like
  <2>2. \A f \in Episodes : vol[f] # None => vol'[f] # None
    BY <1>u
  <2> QED BY <2>1, <2>2, <1>0, <1>4, MountsStep
<1>11. Writers'
  <2>1. \A v \in Workers : Writer(v)' => v # w /\ Writer(v) /\ proc'[v].own = proc[v].own
    BY <1>3, <1>4, <1>u DEF Writer, Writes
  <2>2. \A v \in Workers : Writer(v)' => ~ Read(g, v)
    BY <2>1, <1>1 DEF Read
  <2> QED BY <2>1, <2>2, <1>0, <1>5, WritersStep
<1>12. Kept'
  <2> SUFFICES ASSUME NEW f \in Episodes \ cut PROVE KeptOf(f)'
    BY <1>u DEF Kept
  <2>0. \A v \in Workers : proc[v].st = "dump" /\ proc[v].mnt = f => proc'[v].st = "dump" /\ proc'[v].mnt = f
    BY <1>3, <1>4
  <2>1. CASE f # e
    <3>1. cmd[g].e # f /\ cmd'[g].e # f
      BY <2>1, <1>1, <1>5, IdleIs, NamesAssumption
    <3> QED BY <2>0, <3>1, <1>0, <1>5, <1>7, <1>u, KeptOther
  <2>2. CASE f = e
    <3>1. last[e] # None => Dumped(e) \/ Stored(e)
      BY <2>2, <1>0, <1>1, HeldKept DEF Holds
    <3>2. last'[e] # None => Dumped(e)' \/ Stored(e)'
      BY <3>1, <2>0, <2>2, <1>u DEF Stored, Dumped
    <3>3. last[e] # None /\ Starting(g) => Found(g, e, w)
      BY <2>2, <1>0, <1>1, StartHas
    <3>4. last'[e] # None /\ cmd'[g].e = e => Found(g, e, cmd[g].w)'
      BY <3>3, <1>0, <1>2, <1>3, <1>4, <1>5, <1>u, IdleIs DEF Found, Like
    <3> QED BY <3>2, <3>4, <2>2, <1>0, <1>1, <1>5, KeptStart DEF Holds
  <2> QED BY <2>1, <2>2
<1>13. \A f \in Episodes : vol[f] # None /\ vol'[f] = None => cmd[g].e = f
  BY <1>u
<1> QED BY <1>0, <1>5, <1>6, <1>7, <1>8, <1>9, <1>10, <1>11, <1>12, <1>13, OffStep, OthersKeep DEF RLInv

(* A failed exchange costs the worker; if it was dumping, the episode counts as cut. *)
LEMMA ReadFailsKeeps ==
  ASSUME RLInv, NEW g \in Engines, ReadFails(g)
  PROVE  RLInv'
<1>0. Values /\ Off /\ OneHolder /\ Mounts /\ Writers /\ Kept /\ EngineOK(g) /\ g \in up /\ cmd[g].pc = "read"
  BY DEF RLInv, ReadFails
<1>u. UNCHANGED <<up, done, swept, slot, sched, vol, last, cmds>> /\ faults' \in 0..MaxFaults
  <2>1. UNCHANGED <<up, done, swept, slot, sched, vol, last>>
    BY DEF ReadFails, engines
  <2>2. Fault("frame") \/ NoFault
    BY DEF ReadFails, PipeFails, BadFrame
  <2> QED BY <2>1, <2>2, <1>0, BoundsAssumption DEF Fault, NoFault, Values, Counts
<1>1. PICK e, w : e = cmd[g].e /\ w = cmd[g].w
  OBVIOUS
<1>2. /\ e \in Episodes /\ e # None /\ w \in Workers /\ w # None /\ InCmd(g, w, e)
      /\ entry[g][e] \notin Workers /\ Lost \notin Workers /\ cmd[g] \in Cmds /\ {w} \ {Lost} = {w}
  BY <1>0, <1>1, NamesAssumption DEF EngineOK, Course, OneHolder, Values
<1>3. Serves(g, w, e)
  BY <1>0, <1>2 DEF InCmd
<1>4. /\ proc' \in [Workers -> Procs]
      /\ \A v \in Workers \ {w} : proc'[v] = proc[v]
      /\ proc'[w] = NoProc
      /\ cut' = cut \cup CutBy({w})
  <2>1. proc' = Without(proc, {w}) /\ cut' = cut \cup CutBy({w})
    BY <1>1, <1>2 DEF ReadFails, AfterFailure
  <2>2. NoProc \in Procs
    BY BoundsAssumption DEF Procs, NoProc, Ops
  <2> QED BY <2>1, <2>2, <1>0, <1>2 DEF Without, Values
<1>5. cut \subseteq cut' /\ cut' \subseteq Episodes /\ (proc[w].st = "dump" => e \in cut')
  BY <1>0, <1>2, <1>3, <1>4 DEF CutBy, Values, Counts, Serves
<1>6. /\ cmd' \in [Engines -> Cmds]
      /\ entry' \in [Engines -> [Episodes -> {None, Lost} \cup Workers]]
      /\ OnlyEngine(g)
      /\ \A f \in Episodes \ {e} : entry'[g][f] = entry[g][f]
      /\ entry'[g][e] \notin Workers
      /\ \/ /\ Starting(g) /\ Starting(g)' /\ cmd'[g].pc = "manifest" /\ cmd'[g].w = None /\ cmd'[g].e = e
            /\ cmd'[g].resume = cmd[g].resume
         \/ cmd'[g] = Idle
  <2>1. CASE cmd[g].op = "claim"
    <3>1. cmd' = [cmd EXCEPT ![g].pc = "manifest", ![g].op = "start", ![g].w = None] /\ UNCHANGED entry
      BY <2>1 DEF ReadFails
    <3>2. /\ cmd' \in [Engines -> Cmds] /\ \A h \in Engines \ {g} : cmd'[h] = cmd[h]
          /\ cmd'[g].pc = "manifest" /\ cmd'[g].w = None /\ cmd'[g].e = e /\ cmd'[g].op = "start"
          /\ cmd'[g].resume = cmd[g].resume
      BY <3>1, <1>0, <1>1, <1>2 DEF Values, Cmds, Points
    <3> QED BY <3>1, <3>2, <2>1, <1>0, <1>2, <1>u DEF OnlyEngine, Starting, Values
  <2>2. CASE cmd[g].op # "claim"
    <3>1. cmd' = [cmd EXCEPT ![g] = Idle]
      BY <2>2 DEF ReadFails, Answer
    <3>2. UNCHANGED entry \/ entry' = [entry EXCEPT ![g][e] = Lost]
      <4>1. cmd[g].op \in {"claim", "start"} => UNCHANGED entry
        BY DEF ReadFails
      <4>2. cmd[g].op \notin {"claim", "start"} => PutBack(g, Lost)
        BY DEF ReadFails, AfterFailure
      <4> QED BY <4>1, <4>2, <1>1 DEF PutBack
    <3>3. /\ entry' \in [Engines -> [Episodes -> {None, Lost} \cup Workers]]
          /\ \A h \in Engines \ {g} : entry'[h] = entry[h]
          /\ \A f \in Episodes \ {e} : entry'[g][f] = entry[g][f]
          /\ entry'[g][e] \notin Workers
      <4>1. CASE UNCHANGED entry
        BY <4>1, <1>0, <1>2 DEF Values
      <4>2. CASE entry' = [entry EXCEPT ![g][e] = Lost]
        BY <4>2, <1>0, <1>2 DEF Values
      <4> QED BY <4>1, <4>2, <3>2
    <3>4. cmd' \in [Engines -> Cmds] /\ cmd'[g] = Idle /\ \A h \in Engines \ {g} : cmd'[h] = cmd[h]
      BY <3>1, <1>0, IdleIs DEF Values
    <3> QED BY <3>3, <3>4, <1>u DEF OnlyEngine
  <2> QED BY <2>1, <2>2
<1>7. Values'
  BY <1>0, <1>4, <1>5, <1>6, <1>u DEF Values, Hosts, Counts
<1>8. OthersSame(g)
  BY <1>0, <1>3, <1>4, <1>u, OthersHeld DEF Serves
<1>9. EngineOK(g)'
  <2>1. Course(g)'
    BY <1>2, <1>6, IdleIs DEF Course, Starting
  <2>2. Apart(g)'
    BY <1>0, <1>6, <1>u, IdleIs DEF EngineOK, Apart
  <2>3. InCmd(g, cmd[g].w, cmd[g].e)'
    BY <1>6, IdleIs DEF InCmd
  <2>4. \A v \in Workers \ {w} : proc'[v] = proc[v] /\ vol'[v] = vol[v]
    BY <1>4, <1>u
  <2>5. \A j \in Slots : slot'[g][j] = slot[g][j] /\ slot[g][j].w \notin {w}
    BY <1>0, <1>1, <1>2, <1>u, CmdOnly
  <2>6. \A f \in Episodes : entry[g][f] # w
    BY <1>0, <1>1, <1>2, CmdOnly
  <2>7. InEntry(g, e, entry[g][e])'
    BY <1>6 DEF InEntry
  <2>8. \A f \in Episodes : (entry'[g][f] = entry[g][f] /\ entry[g][f] \notin {w}) \/ InEntry(g, f, entry[g][f])'
    BY <2>6, <2>7, <1>6
  <2> QED BY <2>1, <2>2, <2>3, <2>4, <2>5, <2>8, <1>0, EngineTouch
<1>10. OneHolder'
  <2>1. \A f \in Episodes : Holds(g, f)' => Holds(g, f) \/ ~ Served(f)
    BY <1>1, <1>6, IdleIs, NamesAssumption DEF Holds
  <2>2. \A f \in Episodes : cmd'[g].e = f => entry'[g][f] \notin Workers
    BY <1>2, <1>6, IdleIs, NamesAssumption
  <2> QED BY <2>1, <2>2, <1>0, <1>6, HoldersStep
<1>11. Mounts'
  <2>1. \A v \in Workers \cap {w} : Mounted(v)'
    BY <1>4, NamesAssumption DEF Mounted, NoProc
  <2>2. \A f \in Episodes : vol[f] # None => vol'[f] # None
    BY <1>u
  <2> QED BY <2>1, <2>2, <1>0, <1>4, MountsStep
<1>12. Writers'
  <2>1. \A v \in Workers : Writer(v)' => v # w /\ Writer(v) /\ proc'[v].own = proc[v].own
    BY <1>4, <1>5, <1>u DEF Writer, Writes, NoProc
  <2>2. \A v \in Workers : Writer(v)' => ~ Read(g, v)
    BY <2>1, <1>1 DEF Read
  <2> QED BY <2>1, <2>2, <1>0, <1>6, WritersStep
<1>13. Kept'
  <2> SUFFICES ASSUME NEW f \in Episodes \ cut' PROVE KeptOf(f)'
    BY DEF Kept
  <2>0. f \in Episodes \ cut /\ \A v \in Workers : proc[v].st = "dump" /\ proc[v].mnt = f => proc'[v].st = "dump" /\ proc'[v].mnt = f
    BY <1>3, <1>4, <1>5 DEF Serves
  <2>1. CASE f # e
    <3>1. cmd[g].e # f /\ cmd'[g].e # f
      BY <2>1, <1>1, <1>6, IdleIs, NamesAssumption
    <3> QED BY <2>0, <3>1, <1>0, <1>6, <1>8, <1>u, KeptOther
  <2>2. CASE f = e
    <3>1. last[e] # None => Dumped(e) \/ Stored(e)
      BY <2>0, <2>2, <1>0, <1>1, HeldKept DEF Holds
    <3>2. last'[e] # None => Dumped(e)' \/ Stored(e)'
      BY <3>1, <2>0, <2>2, <1>u DEF Stored, Dumped
    <3>3. last[e] # None /\ Starting(g) => Found(g, e, w)
      BY <2>0, <2>2, <1>0, <1>1, StartHas
    <3>4. last'[e] # None /\ cmd'[g].e = e => Found(g, e, cmd[g].w)'
      BY <3>3, <1>0, <1>2, <1>6, <1>u, IdleIs DEF Found
    <3> QED BY <3>2, <3>4, <2>2, <1>0, <1>1, <1>6, KeptStart DEF Holds
  <2> QED BY <2>1, <2>2
<1>14. \A f \in Episodes : vol[f] # None /\ vol'[f] = None => cmd[g].e = f
  BY <1>u
<1> QED BY <1>0, <1>6, <1>7, <1>8, <1>9, <1>10, <1>11, <1>12, <1>13, <1>14, OffStep, OthersKeep DEF RLInv

(* A closed episode has no worker; the one it had was not writing. *)
LEMMA CloseKeeps ==
  ASSUME RLInv, NEW g \in Engines, NEW e \in Episodes, Close(g, e)
  PROVE  RLInv'
<1>0. Values /\ Off /\ OneHolder /\ Mounts /\ Writers /\ Kept /\ EngineOK(g) /\ g \in up /\ cmd[g].pc = "idle"
  BY DEF RLInv, Close
<1>1. PICK ws : ws = {entry[g][e]} \cap Workers
  OBVIOUS
<1>2. /\ cmd[g] = Idle /\ None \notin Workers /\ NoProc \in Procs
      /\ \A v \in ws : entry[g][e] = v /\ v \in Workers /\ proc[v].own = g /\ proc[v].mnt = e /\ proc[v].st \in {"idle", "dead"}
  BY <1>0, <1>1, NamesAssumption, BoundsAssumption
     DEF EngineOK, Course, InEntries, InEntry, Serves, Procs, NoProc, Ops
<1>u. UNCHANGED <<up, done, swept, cmd, slot, vol, last, cut, faults>> /\ cmds' \in 0..MaxCmds
  <2>1. UNCHANGED <<up, done, swept, cmd, slot, vol, last, faults>> /\ cmds' \in 0..MaxCmds
    BY <1>0, BoundsAssumption DEF Close, engines, NextCmd, Values, Counts
  <2>2. cut' = cut \cup CutBy(ws)
    BY <1>1 DEF Close
  <2>3. CutBy(ws) = {}
    BY <1>2 DEF CutBy
  <2> QED BY <2>1, <2>2, <2>3
<1>3. /\ proc' \in [Workers -> Procs]
      /\ \A v \in Workers \ ws : proc'[v] = proc[v]
      /\ \A v \in ws : proc'[v] = NoProc
  <2>1. proc' = Without(proc, ws)
    BY <1>1 DEF Close
  <2> QED BY <2>1, <1>0, <1>2 DEF Without, Values
<1>4. /\ entry' \in [Engines -> [Episodes -> {None, Lost} \cup Workers]]
      /\ entry'[g][e] = None /\ \A f \in Episodes \ {e} : entry'[g][f] = entry[g][f]
      /\ sched' \in [Engines -> SUBSET Shapes]
      /\ OnlyEngine(g)
  <2>1. entry' = [entry EXCEPT ![g][e] = None] /\ sched' = [sched EXCEPT ![g] = @ \cup {Shape[e]}]
    BY DEF Close
  <2>2. Shape[e] \in Shapes
    BY ShapeAssumption
  <2> QED BY <2>1, <2>2, <1>0, <1>u DEF Values, OnlyEngine
<1>5. Values'
  BY <1>0, <1>3, <1>4, <1>u DEF Values, Hosts, Counts
<1>6. OthersSame(g)
  BY <1>0, <1>2, <1>3, <1>u, OthersHeld
<1>7. \A v \in ws : /\ cmd[g].w # v
                    /\ \A j \in Slots : slot[g][j].w # v
                    /\ \A f \in Episodes \ {e} : entry[g][f] # v
  BY <1>0, <1>2, EntryOnly
<1>8. EngineOK(g)'
  <2>1. Course(g)'
    BY <1>0, <1>u DEF EngineOK, Course, Starting
  <2>2. Apart(g)'
    BY <1>0, <1>u DEF EngineOK, Apart
  <2>3. cmd'[g] = cmd[g] /\ cmd[g].w \notin ws
    BY <1>7, <1>u
  <2>4. \A v \in Workers \ ws : proc'[v] = proc[v] /\ vol'[v] = vol[v]
    BY <1>3, <1>u
  <2>5. \A j \in Slots : slot'[g][j] = slot[g][j] /\ slot[g][j].w \notin ws
    BY <1>7, <1>u
  <2>6. InEntry(g, e, entry[g][e])'
    BY <1>2, <1>4 DEF InEntry
  <2>7. \A f \in Episodes : (entry'[g][f] = entry[g][f] /\ entry[g][f] \notin ws) \/ InEntry(g, f, entry[g][f])'
    BY <2>6, <1>4, <1>7
  <2> QED BY <2>1, <2>2, <2>3, <2>4, <2>5, <2>7, <1>0, EngineTouch
<1>9. OneHolder'
  <2>1. \A f \in Episodes : Holds(g, f)' => Holds(g, f) \/ ~ Served(f)
    BY <1>2, <1>4, <1>u DEF Holds
  <2>2. \A f \in Episodes : cmd'[g].e = f => entry'[g][f] \notin Workers
    BY <1>2, <1>u, IdleIs, NamesAssumption
  <2> QED BY <2>1, <2>2, <1>0, <1>4, HoldersStep
<1>10. Mounts'
  <2>1. \A v \in Workers \cap ws : Mounted(v)'
    BY <1>3, NamesAssumption DEF Mounted, NoProc
  <2>2. \A f \in Episodes : vol[f] # None => vol'[f] # None
    BY <1>u
  <2> QED BY <2>1, <2>2, <1>0, <1>3, MountsStep
<1>11. Writers'
  <2>1. \A v \in Workers : Writer(v)' => Writer(v) /\ proc'[v].own = proc[v].own
    BY <1>3, <1>u DEF Writer, Writes, NoProc
  <2> QED BY <2>1, <1>0, <1>4, <1>u, WritersStep
<1>12. Kept'
  <2> SUFFICES ASSUME NEW f \in Episodes \ cut PROVE KeptOf(f)'
    BY <1>u DEF Kept
  <2>1. Dumped(f) => Dumped(f)'
    BY <1>2, <1>3 DEF Dumped
  <2>2. \A h \in up : cmd[h].w \in Workers => proc'[cmd[h].w] = proc[cmd[h].w] /\ vol'[cmd[h].w] = vol[cmd[h].w]
    <3> SUFFICES ASSUME NEW h \in up, cmd[h].w \in Workers PROVE proc'[cmd[h].w] = proc[cmd[h].w]
      BY <1>u
    <3>1. CASE h = g
      BY <3>1, <1>3, <1>7
    <3>2. CASE h # g
      BY <3>2, <1>6 DEF OthersSame, Held
    <3> QED BY <3>1, <3>2
  <2> QED BY <2>1, <2>2, <1>u, KeptStay
<1>13. \A f \in Episodes : vol[f] # None /\ vol'[f] = None => cmd[g].e = f
  BY <1>u
<1> QED BY <1>0, <1>4, <1>5, <1>6, <1>8, <1>9, <1>10, <1>11, <1>12, <1>13, OffStep, OthersKeep DEF RLInv

-----------------------------------------------------------------------------
(* The steps of a worker *)

(* What becomes of a worker p in a step of its own: an orphan may be gone; any other listens, *)
(* dies, goes on with its request, or answers it.                                            *)
Moves(p, q) ==
  \/ p.own \notin up /\ q.st = "free" /\ q.mnt = None
  \/ /\ q.own = p.own /\ q.tmpl = p.tmpl /\ q.mnt = p.mnt /\ q.tag = p.tag /\ q.resume = p.resume
     /\ \/ p.st = "boot" /\ q.st = "warm" /\ q.rep = Hello
        \/ p.st \in {"warm", "idle"} /\ q.st = "dead" /\ q.rep = None /\ q.n = p.n
        \/ /\ p.st = "dump" \/ (p.st = "run" /\ p.op # "reset")
           /\ q.st \in {"run", "dump"} /\ q.rep = p.rep
        \/ /\ p.st \in {"run", "dump"} /\ q.st = "idle" /\ q.rep = p.tag
           /\ p.st = "run" /\ p.op = "reset" => q.n = Restored(p, Volume(p))

(* A worker's step as the engines see it. *)
OnlyWorker(w) ==
  /\ UNCHANGED <<up, done, swept, cmd, entry, slot, sched>>
  /\ proc' \in [Workers -> Procs] /\ Moves(proc[w], proc'[w])
  /\ \A v \in Workers \ {w} : proc'[v] = proc[v]
  /\ vol' \in [Episodes \cup Workers -> {None} \cup Dirs]
  /\ \A v \in Workers : vol'[v] = vol[v]
  /\ \A e \in Episodes : vol[e] # None => vol'[e] # None

(* Its engine finds it where it was, and further on. *)
LEMMA WorkerInPlace ==
  ASSUME RLInv, NEW w \in Workers, OnlyWorker(w), NEW g \in up, proc[w].own = g
  PROVE  /\ \A i \in Slots : slot[g][i].w = w => InSlot(g, i, w)'
         /\ cmd[g].w = w => InCmd(g, w, cmd[g].e)'
         /\ \A e \in Episodes : entry[g][e] = w => InEntry(g, e, w)'
<1>0. /\ Values /\ EngineOK(g) /\ w # None /\ proc[w] \in Procs /\ cmd[g] \in Cmds /\ g \in Engines
      /\ slot[g] \in [Slots -> SlotForms]
  BY NamesAssumption DEF RLInv, Values, Hosts
<1>1. PICK p, q : p = proc[w] /\ q = proc'[w]
  OBVIOUS
<1>2. /\ q.own = p.own /\ q.tmpl = p.tmpl /\ q.mnt = p.mnt /\ q.tag = p.tag /\ q.resume = p.resume
      /\ \/ p.st = "boot" /\ q.st = "warm" /\ q.rep = Hello
         \/ p.st \in {"warm", "idle"} /\ q.st = "dead" /\ q.rep = None
         \/ /\ p.st = "dump" \/ (p.st = "run" /\ p.op # "reset")
            /\ q.st \in {"run", "dump"} /\ q.rep = p.rep
         \/ p.st \in {"run", "dump"} /\ q.st = "idle" /\ q.rep = p.tag
  BY <1>1 DEF OnlyWorker, Moves
<1>3. UNCHANGED <<up, cmd, entry, slot>> /\ vol'[w] = vol[w]
  BY DEF OnlyWorker
<1>4. ASSUME NEW i \in Slots, slot[g][i].w = w PROVE InSlot(g, i, w)'
  <2>1. InSlot(g, i, w) /\ slot[g][i].st \in {"empty", "boot", "ready"}
    BY <1>0, <1>4 DEF EngineOK, InSlots, SlotForms
  <2>2. Warm(g, w) /\ vol[w] = NewDir /\ p.st \in {"boot", "warm", "dead"}
    BY <2>1, <1>0, <1>1 DEF InSlot
  <2>3. Warm(g, w)' /\ vol'[w] = NewDir
    BY <2>2, <1>1, <1>2, <1>3 DEF Warm
  <2> QED BY <2>1, <2>2, <2>3, <1>0, <1>1, <1>2, <1>3, NamesAssumption DEF InSlot
<1>5. ASSUME cmd[g].w = w PROVE InCmd(g, w, cmd[g].e)'
  <2>1. PICK e : e = cmd[g].e
    OBVIOUS
  <2>2. InCmd(g, w, e)
    BY <2>1, <1>0, <1>5 DEF EngineOK
  <2>3. (Warm(g, w) => Warm(g, w)') /\ (Serves(g, w, e) => Serves(g, w, e)')
    BY <1>1, <1>2, <1>3 DEF Warm, Serves
  <2>4. InCmd(g, w, e)'
    BY <2>2, <2>3, <1>0, <1>1, <1>2, <1>3, NamesAssumption DEF InCmd, Starting, Procs
  <2> QED BY <2>1, <2>4, <1>3
<1>6. ASSUME NEW e \in Episodes, entry[g][e] = w PROVE InEntry(g, e, w)'
  <2>1. InEntry(g, e, w)
    BY <1>0, <1>6 DEF EngineOK, InEntries
  <2> QED BY <2>1, <1>1, <1>2, NamesAssumption DEF InEntry, Serves
<1> QED BY <1>4, <1>5, <1>6

(* Every engine keeps its part of the invariant. *)
LEMMA WorkerEngines ==
  ASSUME RLInv, NEW w \in Workers, OnlyWorker(w)
  PROVE  \A h \in up' : EngineOK(h)'
<1> SUFFICES ASSUME NEW h \in up PROVE EngineOK(h)'
  BY DEF OnlyWorker
<1>0. Values /\ EngineOK(h) /\ Mounts /\ h \in Engines /\ cmd[h] \in Cmds
  BY DEF RLInv, Values, Hosts
<1>u. UNCHANGED <<up, cmd, entry, slot>>
  BY DEF OnlyWorker
<1>1. Course(h)'
  BY <1>0, <1>u DEF EngineOK, Course, Starting, OnlyWorker
<1>2. Apart(h)'
  BY <1>0, <1>u DEF EngineOK, Apart
<1>3. \A v \in Workers \ {w} : proc'[v] = proc[v] /\ vol'[v] = vol[v]
  BY DEF OnlyWorker
<1>4. CASE proc[w].own # h
  <2>1. w \notin Held(h)
    BY <1>4, <1>0, HeldIsOwn
  <2>2. \A v \in Held(h) : proc'[v] = proc[v] /\ vol'[v] = vol[v]
    BY <2>1, <1>3 DEF Held
  <2>3. cmd[h].e \in Episodes /\ vol[cmd[h].e] # None => vol'[cmd[h].e] # None
    BY DEF OnlyWorker
  <2> QED BY <2>2, <2>3, <1>0, <1>u, EngineSame
<1>5. CASE proc[w].own = h
  <2>1. /\ \A i \in Slots : slot[h][i].w = w => InSlot(h, i, w)'
        /\ cmd[h].w = w => InCmd(h, w, cmd[h].e)'
        /\ \A e \in Episodes : entry[h][e] = w => InEntry(h, e, w)'
    BY <1>5, WorkerInPlace
  <2>2. \A i \in Slots : (slot'[h][i] = slot[h][i] /\ slot[h][i].w \notin {w}) \/ InSlot(h, i, slot[h][i].w)'
    BY <2>1, <1>u
  <2>3. (cmd'[h] = cmd[h] /\ cmd[h].w \notin {w}) \/ InCmd(h, cmd[h].w, cmd[h].e)'
    BY <2>1, <1>u
  <2>4. \A e \in Episodes : (entry'[h][e] = entry[h][e] /\ entry[h][e] \notin {w}) \/ InEntry(h, e, entry[h][e])'
    BY <2>1, <1>u
  <2> QED BY <2>2, <2>3, <2>4, <1>0, <1>1, <1>2, <1>3, EngineTouch
<1> QED BY <1>4, <1>5

(* The checkpoint of an episode that the worker does not write to: a start that reads the *)
(* answer to its reset reads the state the worker restored.                               *)
LEMMA WorkerKept ==
  ASSUME RLInv, NEW w \in Workers, OnlyWorker(w), NEW e \in Episodes \ cut,
         last'[e] = last[e], vol'[e] = vol[e],
         proc[w].st = "dump" /\ proc[w].mnt = e => proc'[w].st = "dump"
  PROVE  KeptOf(e)'
<1> SUFFICES ASSUME last[e] # None
             PROVE  /\ Dumped(e)' \/ (\E h \in up' : Moved(h, e)') \/ Stored(e)'
                    /\ \A h \in up' : cmd'[h].e = e /\ Starting(h)' => Found(h, e, cmd[h].w)'
  BY DEF KeptOf
<1>0. Values /\ KeptOf(e) /\ up \subseteq Engines /\ last[e] \in 0..MaxSteps /\ \A h \in up : EngineOK(h)
  BY DEF RLInv, Kept, Values, Hosts
<1>u. UNCHANGED <<up, cmd>> /\ (\A v \in Workers \ {w} : proc'[v] = proc[v]) /\ \A v \in Workers : vol'[v] = vol[v]
  BY DEF OnlyWorker
<1>1. Dumped(e) => Dumped(e)'
  <2>1. proc[w].st = "dump" /\ proc'[w].st # "free" => proc'[w].mnt = proc[w].mnt
    BY DEF OnlyWorker, Moves
  <2> QED BY <2>1, <1>u DEF Dumped
<1>2. Stored(e) => Stored(e)'
  BY DEF Stored
<1>3. ASSUME NEW h \in up, Moved(h, e) PROVE Moved(h, e)'
  <2>1. cmd[h].w \in Workers
    BY <1>0, <1>3 DEF EngineOK, Course, Moved
  <2> QED BY <2>1, <1>3, <1>u DEF Moved
<1>4. ASSUME NEW h \in up, cmd[h].e = e, Starting(h) PROVE Found(h, e, cmd[h].w)'
  <2>1. Found(h, e, cmd[h].w) /\ (cmd[h].pc # "adopt" => Stored(e)) /\ EngineOK(h)
    BY <1>0, <1>4, StartHas
  <2>2. CASE cmd[h].w # w
    <3>1. cmd[h].w \in Workers => proc'[cmd[h].w] = proc[cmd[h].w]
      BY <2>2, <1>u
    <3> QED BY <3>1, <2>1, <1>0, <1>u, FoundSame
  <2>3. CASE cmd[h].w = w
    <3>0. PICK p, q : p = proc[w] /\ q = proc'[w]
      OBVIOUS
    <3>1. InCmd(h, w, e) /\ Course(h) /\ p \in Procs /\ w # None /\ e # Gone
      BY <3>0, <2>1, <2>3, <1>0, <1>4, NamesAssumption DEF EngineOK, Values
    <3>2. CASE cmd[h].pc = "read"
      <4>1. /\ p.own = h /\ p.mnt = e /\ p.st \in {"run", "idle", "dead"} /\ (p.st = "run" => p.op = "reset")
            /\ p.resume /\ (p.rep # None => p.n = last[e])
        BY <3>0, <3>1, <3>2, <2>1, <2>3, <1>4 DEF InCmd, Serves, Found
      <4>2. Restored(p, Volume(p)) = last[e]
        BY <4>1, <3>1, <3>2, <2>1, <1>0, NamesAssumption DEF Restored, Volume, Stored
      <4>3. q.resume = p.resume /\ (q.rep # None => q.n = last[e])
        BY <3>0, <4>1, <4>2 DEF OnlyWorker, Moves
      <4> QED BY <4>1, <4>3, <3>0, <3>2, <2>1, <2>3, <1>u DEF Found
    <3>3. CASE cmd[h].pc \in {"manifest", "insert"}
      <4>1. p.own = h /\ p.st \in {"idle", "dead"} /\ p.n = last[e]
        BY <3>0, <3>1, <3>3, <2>1, <2>3 DEF InCmd, Serves, Found
      <4>2. q.n = p.n
        BY <3>0, <4>1 DEF OnlyWorker, Moves
      <4> QED BY <4>1, <4>2, <3>0, <3>3, <2>1, <2>3, <1>u DEF Found
    <3>4. CASE cmd[h].pc \notin {"read", "manifest", "insert"}
      BY <3>4, <2>1, <1>u DEF Found
    <3> QED BY <3>2, <3>3, <3>4
  <2> QED BY <2>2, <2>3
<1> QED BY <1>0, <1>1, <1>2, <1>3, <1>4, <1>u DEF KeptOf, Starting

(* The checkpoint of the episode that it does write to: nobody is starting that one. *)
LEMMA WorkerWrote ==
  ASSUME RLInv, NEW w \in Workers, OnlyWorker(w), NEW e \in Episodes \ cut,
         Writes(w), proc[w].mnt = e, last'[e] # None => Dumped(e)' \/ Stored(e)'
  PROVE  KeptOf(e)'
<1>1. \A h \in up : ~ (cmd[h].e = e /\ Starting(h))
  BY StartAlone
<1>2. up' = up /\ cmd' = cmd
  BY DEF OnlyWorker
<1>3. \A h \in up' : ~ (cmd'[h].e = e /\ Starting(h)')
  BY <1>1, <1>2 DEF Starting
<1> QED BY <1>3 DEF KeptOf

(* A worker's step keeps the invariant. *)
LEMMA WorkerStep ==
  ASSUME RLInv, NEW w \in Workers, OnlyWorker(w), faults' \in 0..MaxFaults, cmds' = cmds,
         cut \subseteq cut', cut' \subseteq Episodes, last' \in [Episodes -> {None} \cup 0..MaxSteps],
         \A e \in Episodes \ cut' :
           \/ /\ last'[e] = last[e] /\ vol'[e] = vol[e]
              /\ proc[w].st = "dump" /\ proc[w].mnt = e => proc'[w].st = "dump"
           \/ Writes(w) /\ proc[w].mnt = e /\ (last'[e] # None => Dumped(e)' \/ Stored(e)')
  PROVE  RLInv'
<1>0. Values /\ Off /\ OneHolder /\ Mounts /\ Writers /\ proc[w] \in Procs
  BY DEF RLInv, Values
<1>u. UNCHANGED <<up, done, swept, cmd, entry, slot, sched>>
  BY DEF OnlyWorker
<1>1. Values'
  BY <1>0, <1>u DEF Values, Hosts, Counts, OnlyWorker
<1>2. Off'
  BY <1>0, <1>u DEF Off
<1>3. OneHolder'
  BY <1>0, <1>u DEF OneHolder, Holds
<1>4. Mounts'
  <2>1. Mounted(w)
    BY <1>0 DEF Mounts
  <2>2. PICK p, q : p = proc[w] /\ q = proc'[w]
    OBVIOUS
  <2>3. /\ q.st \in {"idle", "run", "dump"} => p.st \in {"run", "dump"} /\ q.mnt = p.mnt
        /\ q.st = "free" => q.mnt = None
        /\ q.mnt = p.mnt \/ q.mnt = None
    BY <2>2 DEF OnlyWorker, Moves
  <2>4. \A m \in Episodes : vol[m] # None => vol'[m] # None
    BY DEF OnlyWorker
  <2>5. Mounted(w)'
    BY <2>1, <2>2, <2>3, <2>4, NamesAssumption DEF Mounted
  <2>6. \A v \in Workers \cap {w} : Mounted(v)'
    BY <2>5
  <2>7. \A v \in Workers \ {w} : proc'[v] = proc[v]
    BY DEF OnlyWorker
  <2> QED BY <2>4, <2>6, <2>7, <1>0, MountsStep
<1>5. Writers'
  <2> SUFFICES ASSUME NEW v \in Workers, Writer(v)' PROVE Read(proc[v].own, v)'
    BY DEF Writers
  <2>1. Writer(v) /\ proc'[v].own = proc[v].own
    <3>1. CASE v # w
      BY <3>1 DEF OnlyWorker, Writer, Writes
    <3>2. CASE v = w
      <4>1. PICK p, q : p = proc[w] /\ q = proc'[w]
        OBVIOUS
      <4>2. q.st \in {"run", "dump"} => /\ q.own = p.own /\ q.mnt = p.mnt
                                        /\ p.st = "dump" \/ (p.st = "run" /\ p.op # "reset")
        BY <4>1 DEF OnlyWorker, Moves
      <4>3. q.st \in {"run", "dump"} /\ q.mnt \in Episodes \ cut'
        BY <4>1, <3>2 DEF Writer, Writes
      <4>4. p.mnt \in Episodes \ cut /\ q.own = p.own /\ (p.st = "dump" \/ (p.st = "run" /\ p.op # "reset"))
        BY <4>2, <4>3
      <4> QED BY <4>1, <4>4, <3>2 DEF Writer, Writes
    <3> QED BY <3>1, <3>2
  <2>2. PICK h : h = proc[v].own
    OBVIOUS
  <2>3. Read(h, v)'
    BY <2>1, <2>2, <1>0, <1>u DEF Writers, Read, Starting
  <2> QED BY <2>1, <2>2, <2>3
<1>6. Kept'
  <2> SUFFICES ASSUME NEW e \in Episodes \ cut' PROVE KeptOf(e)'
    BY DEF Kept
  <2>1. e \in Episodes \ cut
    OBVIOUS
  <2>2. CASE /\ last'[e] = last[e] /\ vol'[e] = vol[e]
             /\ proc[w].st = "dump" /\ proc[w].mnt = e => proc'[w].st = "dump"
    BY <2>1, <2>2, WorkerKept
  <2>3. CASE Writes(w) /\ proc[w].mnt = e /\ (last'[e] # None => Dumped(e)' \/ Stored(e)')
    BY <2>1, <2>3, WorkerWrote
  <2> QED BY <2>2, <2>3
<1>7. \A h \in up' : EngineOK(h)'
  BY WorkerEngines
<1> QED BY <1>1, <1>2, <1>3, <1>4, <1>5, <1>6, <1>7 DEF RLInv

(* The answer is on its way to the engine. *)
LEMMA RespondedIs ==
  ASSUME NEW r \in Procs, NEW q, q = Responded(r), r.own \in up
  PROVE  /\ q \in Procs /\ q.own = r.own /\ q.tmpl = r.tmpl /\ q.mnt = r.mnt /\ q.tag = r.tag
         /\ q.resume = r.resume /\ q.rep = r.tag /\ q.st = "idle" /\ q.n = r.n
<1>1. PICK t : t = r.tag
  OBVIOUS
<1>2. q = [r EXCEPT !.st = "idle", !.op = None, !.left = 0, !.rep = t] /\ t \in {0, 1}
  BY <1>1 DEF Responded, Procs
<1>3. q \in Procs
  <2>1. PICK z : z = [r EXCEPT !.st = "idle", !.op = None, !.left = 0]
    OBVIOUS
  <2>2. z \in Procs
    BY <2>1 DEF Procs
  <2>3. q = [z EXCEPT !.rep = t]
    BY <2>1, <1>2 DEF Procs
  <2> QED BY <2>2, <2>3, <1>2 DEF Procs
<1>4. /\ q.own = r.own /\ q.tmpl = r.tmpl /\ q.mnt = r.mnt /\ q.tag = r.tag
      /\ q.resume = r.resume /\ q.rep = t /\ q.st = "idle" /\ q.n = r.n
  BY <1>2 DEF Procs
<1> QED BY <1>1, <1>3, <1>4

(* A request that is answered, or whose next action is begun. *)
LEMMA OverMoves ==
  ASSUME NEW p \in Procs, NEW r \in Procs, NEW q, q = Over(r),
         p.st = "dump" \/ (p.st = "run" /\ p.op # "reset"),
         /\ r.own = p.own /\ r.tmpl = p.tmpl /\ r.mnt = p.mnt /\ r.tag = p.tag /\ r.resume = p.resume
         /\ r.rep = p.rep
  PROVE  q \in Procs /\ Moves(p, q) /\ q.st # "dump"
<1>1. CASE r.left > 1
  <2>1. PICK k : k = r.left - 1
    OBVIOUS
  <2>2. q = [r EXCEPT !.st = "run", !.left = k] /\ k \in Nat
    BY <1>1, <2>1 DEF Over, Procs
  <2>3. q \in Procs
    BY <2>2 DEF Procs
  <2>4. /\ q.own = r.own /\ q.tmpl = r.tmpl /\ q.mnt = r.mnt /\ q.tag = r.tag /\ q.resume = r.resume
        /\ q.rep = r.rep /\ q.st = "run"
    BY <2>2 DEF Procs
  <2> QED BY <2>3, <2>4 DEF Moves
<1>2. CASE ~ (r.left > 1) /\ r.own \in up
  <2>1. q = Responded(r)
    BY <1>2 DEF Over
  <2> QED BY <2>1, <1>2, RespondedIs DEF Moves
<1>3. CASE ~ (r.left > 1) /\ r.own \notin up
  <2>1. q = NoProc /\ q \in Procs
    BY <1>3, BoundsAssumption DEF Over, Responded, Procs, NoProc, Ops
  <2> QED BY <2>1, <1>3 DEF Moves, NoProc
<1> QED BY <1>1, <1>2, <1>3

(* A step of the worker that leaves the disk alone. *)
LEMMA WorkerOnly ==
  ASSUME RLInv, NEW w \in Workers, UNCHANGED <<up, done, swept, cmd, entry, slot, sched, vol, last, cut>>,
         faults' \in 0..MaxFaults, cmds' = cmds, NEW q \in Procs, proc' = [proc EXCEPT ![w] = q],
         Moves(proc[w], q), proc[w].st = "dump" => proc[w].mnt = Gone
  PROVE  RLInv'
<1>1. Values /\ Gone \notin Episodes
  BY NamesAssumption DEF RLInv
<1>2. proc' \in [Workers -> Procs] /\ proc'[w] = q /\ \A v \in Workers \ {w} : proc'[v] = proc[v]
  BY <1>1 DEF Values
<1>3. OnlyWorker(w)
  BY <1>1, <1>2 DEF OnlyWorker, Values
<1> QED BY <1>1, <1>3, WorkerStep DEF Values, Counts

(* The warm worker listens. *)
LEMMA WorkerHelloKeeps ==
  ASSUME RLInv, NEW w \in Workers, WorkerHello(w)
  PROVE  RLInv'
<1>1. Values /\ proc[w] \in Procs
  BY DEF RLInv, Values
<1>u. UNCHANGED <<up, done, swept, cmd, entry, slot, sched, vol, last, cut, faults, cmds>>
  BY DEF WorkerHello, engines, disk, NoFault
<1>2. PICK p, q : p = proc[w] /\ q = [p EXCEPT !.st = "warm", !.rep = Hello]
  OBVIOUS
<1>3. p \in Procs /\ p.st = "boot" /\ q \in Procs /\ Moves(p, q)
  BY <1>1, <1>2 DEF Procs, Moves, WorkerHello
<1>4. proc' = [proc EXCEPT ![w] = q]
  BY <1>1, <1>2 DEF WorkerHello, Values
<1> QED BY <1>1, <1>2, <1>3, <1>4, <1>u, WorkerOnly DEF Values, Counts

(* It dies. *)
LEMMA WorkerDiesKeeps ==
  ASSUME RLInv, NEW w \in Workers, WorkerDies(w)
  PROVE  RLInv'
<1>1. Values /\ proc[w] \in Procs
  BY DEF RLInv, Values
<1>u. UNCHANGED <<up, done, swept, cmd, entry, slot, sched, vol, last, cut, cmds>> /\ faults' \in 0..MaxFaults
  BY <1>1, BoundsAssumption DEF WorkerDies, engines, disk, Fault, Values, Counts
<1>2. PICK p, q : p = proc[w] /\ q = [p EXCEPT !.st = "dead", !.rep = None]
  OBVIOUS
<1>3. p \in Procs /\ p.st \in {"warm", "idle"} /\ q \in Procs
  BY <1>1, <1>2, ZenonT(30) DEF Procs, WorkerDies
<1>5. Moves(p, q)
  BY <1>2, <1>3 DEF Procs, Moves
<1>4. proc' = [proc EXCEPT ![w] = q]
  BY <1>1, <1>2 DEF WorkerDies, Values
<1> QED BY <1>1, <1>2, <1>3, <1>4, <1>5, <1>u, WorkerOnly

(* It finds EOF. *)
LEMMA WorkerEofKeeps ==
  ASSUME RLInv, NEW w \in Workers, WorkerEof(w)
  PROVE  RLInv'
<1>1. Values /\ proc[w] \in Procs
  BY DEF RLInv, Values
<1>u. UNCHANGED <<up, done, swept, cmd, entry, slot, sched, vol, last, cut, faults, cmds>>
  BY DEF WorkerEof, engines, disk, NoFault
<1>2. PICK o : o = proc[w].own
  OBVIOUS
<1>3. PICK q : q = IF vol[w] = None THEN NoProc ELSE [NoProc EXCEPT !.own = o]
  OBVIOUS
<1>4. q \in Procs /\ q.st = "free" /\ q.mnt = None
  <2>1. o \in Engines \cup {None}
    BY <1>1, <1>2 DEF Procs
  <2>2. CASE vol[w] = None
    BY <2>2, <1>3, BoundsAssumption DEF Procs, NoProc, Ops
  <2>3. CASE vol[w] # None
    <3>1. q = [NoProc EXCEPT !.own = o]
      BY <2>3, <1>3
    <3>2. NoProc \in Procs /\ NoProc.st = "free" /\ NoProc.mnt = None
      BY BoundsAssumption DEF Procs, NoProc, Ops
    <3>3. PICK z : z = NoProc
      OBVIOUS
    <3>4. q = [z EXCEPT !.own = o] /\ z \in Procs /\ z.st = "free" /\ z.mnt = None
      BY <3>1, <3>2, <3>3
    <3>5. q \in Procs
      BY <3>4, <2>1 DEF Procs
    <3> QED BY <3>4, <3>5 DEF Procs
  <2> QED BY <2>2, <2>3
<1>5. proc[w].own \notin up /\ proc[w].st # "dump" /\ proc' = [proc EXCEPT ![w] = q]
  BY <1>2, <1>3 DEF WorkerEof
<1>6. Moves(proc[w], q)
  BY <1>4, <1>5 DEF Moves
<1> QED BY <1>1, <1>4, <1>5, <1>6, <1>u, WorkerOnly DEF Values, Counts

(* The environment raises. *)
LEMMA WorkerRaisesKeeps ==
  ASSUME RLInv, NEW w \in Workers, WorkerRaises(w)
  PROVE  RLInv'
<1>1. Values /\ proc[w] \in Procs
  BY DEF RLInv, Values
<1>u. UNCHANGED <<up, done, swept, cmd, entry, slot, sched, vol, last, cut, faults, cmds>>
  BY DEF WorkerRaises, engines, disk, NoFault
<1>2. PICK p, q : p = proc[w] /\ q = Over(p)
  OBVIOUS
<1>3. p \in Procs /\ p.st = "run" /\ p.op # "reset" /\ proc' = [proc EXCEPT ![w] = q]
  BY <1>1, <1>2 DEF WorkerRaises
<1>4. q \in Procs /\ Moves(p, q)
  BY <1>2, <1>3, OverMoves
<1> QED BY <1>1, <1>2, <1>3, <1>4, <1>u, WorkerOnly DEF Values, Counts

(* An empty action: the state is restored, or is the first one. *)
LEMMA WorkerResetKeeps ==
  ASSUME RLInv, NEW w \in Workers, WorkerReset(w)
  PROVE  RLInv'
<1>1. Values /\ Mounts /\ proc[w] \in Procs
  BY DEF RLInv, Values
<1>u. UNCHANGED <<up, done, swept, cmd, entry, slot, sched, vol, last, cut, faults, cmds>>
  BY DEF WorkerReset, engines, disk, NoFault
<1>2. PICK p, k : p = proc[w] /\ k = Restored(p, Volume(p))
  OBVIOUS
<1>3. PICK r, q : r = [p EXCEPT !.n = k] /\ q = Responded(r)
  OBVIOUS
<1>4. p \in Procs /\ p.st = "run" /\ p.op = "reset" /\ proc' = [proc EXCEPT ![w] = q]
  BY <1>1, <1>2, <1>3 DEF WorkerReset
<1>5. k \in 0..MaxSteps
  <2>1. p.mnt \in Episodes \cup {Gone} /\ (p.mnt # Gone => vol[p.mnt] \in Dirs)
    BY <1>1, <1>2, <1>4 DEF Mounts, Mounted, Values
  <2>2. PICK d : d = Volume(p)
    OBVIOUS
  <2>3. d \in {None} \cup Dirs
    BY <2>1, <2>2 DEF Volume
  <2>4. k = IF p.resume /\ d # None /\ d.ckpt \notin {None, Torn} THEN d.ckpt ELSE 0
    BY <2>2, <1>2 DEF Restored
  <2> QED BY <2>3, <2>4, BoundsAssumption DEF Dirs
<1>6. /\ r \in Procs /\ r.own = p.own /\ r.tmpl = p.tmpl /\ r.mnt = p.mnt /\ r.tag = p.tag /\ r.resume = p.resume
      /\ r.n = k
  BY <1>3, <1>4, <1>5 DEF Procs
<1>7. q \in Procs /\ Moves(p, q)
  <2>1. CASE r.own \in up
    <3>1. /\ q \in Procs /\ q.own = r.own /\ q.tmpl = r.tmpl /\ q.mnt = r.mnt /\ q.tag = r.tag
          /\ q.resume = r.resume /\ q.rep = r.tag /\ q.st = "idle" /\ q.n = r.n
      <4>1. r \in Procs /\ q = Responded(r) /\ r.own \in up
        BY <2>1, <1>3, <1>6
      <4> QED BY <4>1, RespondedIs
    <3> QED BY <3>1, <1>2, <1>4, <1>6 DEF Moves
  <2>2. CASE r.own \notin up
    <3>1. q = NoProc /\ q \in Procs
      BY <2>2, <1>3, BoundsAssumption DEF Responded, Procs, NoProc, Ops
    <3> QED BY <3>1, <2>2, <1>6 DEF Moves, NoProc
  <2> QED BY <2>1, <2>2
<1> QED BY <1>1, <1>2, <1>4, <1>7, <1>u, WorkerOnly DEF Values, Counts

(* The checkpoint is opened: the episode's worker is dumping it. *)
LEMMA WorkerOpens ==
  ASSUME RLInv, NEW w \in Workers, UNCHANGED <<up, done, swept, cmd, entry, slot, sched, last, cut, faults, cmds>>,
         proc[w].st = "run", proc[w].op # "reset", NEW r \in Procs, OpenState(w, r),
         /\ r.st = proc[w].st /\ r.own = proc[w].own /\ r.tmpl = proc[w].tmpl /\ r.mnt = proc[w].mnt
         /\ r.tag = proc[w].tag /\ r.resume = proc[w].resume /\ r.rep = proc[w].rep
  PROVE  RLInv'
<1>1. Values /\ Mounts /\ proc[w] \in Procs /\ Gone \notin Episodes
  BY NamesAssumption DEF RLInv, Values
<1>2. PICK p, e : p = proc[w] /\ e = p.mnt
  OBVIOUS
<1>3. e \in Episodes \cup {Gone} /\ (e # Gone => vol[e] # None)
  BY <1>1, <1>2 DEF Mounts, Mounted
<1>4. CASE e = Gone
  <2>1. PICK q : q = Over(r)
    OBVIOUS
  <2>2. proc' = [proc EXCEPT ![w] = q] /\ UNCHANGED vol
    BY <2>1, <1>2, <1>4 DEF OpenState
  <2>3. q \in Procs /\ Moves(p, q)
    BY <2>1, <1>1, <1>2, OverMoves
  <2> QED BY <2>2, <2>3, <1>1, <1>2, <1>4, WorkerOnly DEF Values, Counts
<1>5. CASE e # Gone
  <2>0. e \in Episodes /\ e \notin Workers /\ vol[e] \in Dirs
    BY <1>1, <1>3, <1>5, NamesAssumption DEF Values
  <2>1. PICK q : q = [r EXCEPT !.st = "dump"]
    OBVIOUS
  <2>2. proc' = [proc EXCEPT ![w] = q] /\ vol' = [vol EXCEPT ![e].ckpt = Torn]
    BY <2>1, <1>2, <1>5 DEF OpenState
  <2>3. q \in Procs
    BY <2>1 DEF Procs
  <2>4. Moves(p, q) /\ q.st = "dump" /\ q.mnt = e
    BY <2>1, <1>2 DEF Procs, Moves
  <2>5. PICK d : d = [vol[e] EXCEPT !.ckpt = Torn]
    OBVIOUS
  <2>6. d \in Dirs
    BY <2>0, <2>5 DEF Dirs
  <2>7. vol' = [vol EXCEPT ![e] = d]
    BY <2>0, <2>2, <2>5
  <2>8. /\ vol' \in [Episodes \cup Workers -> {None} \cup Dirs] /\ vol'[e] # None
        /\ \A v \in (Episodes \cup Workers) \ {e} : vol'[v] = vol[v]
    BY <2>0, <2>6, <2>7, <1>1, DirsThere DEF Values
  <2>9. proc' \in [Workers -> Procs] /\ proc'[w] = q /\ \A v \in Workers \ {w} : proc'[v] = proc[v]
    BY <2>2, <2>3, <1>1 DEF Values
  <2>10. OnlyWorker(w)
    BY <2>0, <2>4, <2>8, <2>9, <1>2 DEF OnlyWorker
  <2>11. Writes(w) /\ proc[w].mnt = e /\ Dumped(e)'
    BY <2>4, <2>9, <1>2 DEF Writes, Dumped
  <2>12. \A f \in Episodes \ {e} : last'[f] = last[f] /\ vol'[f] = vol[f] /\ proc[w].st # "dump"
    BY <2>8
  <2>13. faults' \in 0..MaxFaults /\ last' \in [Episodes -> {None} \cup 0..MaxSteps] /\ cut' \subseteq Episodes
    BY <1>1 DEF Values, Counts
  <2> QED BY <2>10, <2>11, <2>12, <2>13, WorkerStep
<1> QED BY <1>4, <1>5

(* A snapshot is asked for. *)
LEMMA WorkerSnapshotKeeps ==
  ASSUME RLInv, NEW w \in Workers, WorkerSnapshot(w)
  PROVE  RLInv'
<1>1. Values /\ proc[w] \in Procs /\ proc[w].st = "run" /\ proc[w].op # "reset" /\ OpenState(w, proc[w])
  BY DEF RLInv, Values, WorkerSnapshot
<1>u. UNCHANGED <<up, done, swept, cmd, entry, slot, sched, last, cut, faults, cmds>>
  BY DEF WorkerSnapshot, engines, NoFault
<1> QED BY <1>1, <1>u, WorkerOpens

(* A step of the environment. *)
LEMMA WorkerStepsKeeps ==
  ASSUME RLInv, NEW w \in Workers, WorkerSteps(w)
  PROVE  RLInv'
<1>1. Values /\ proc[w] \in Procs /\ proc[w].st = "run" /\ proc[w].op # "reset"
  BY DEF RLInv, Values, WorkerSteps
<1>u. UNCHANGED <<up, done, swept, cmd, entry, slot, sched, last, cut, faults, cmds>>
  BY DEF WorkerSteps, engines, NoFault
<1>2. PICK p : p = proc[w]
  OBVIOUS
<1>3. PICK k, c : k = p.n + 1 /\ c = (p.cnt + 1) % SnapshotEvery
  OBVIOUS
<1>4. PICK r : r = [p EXCEPT !.n = k, !.cnt = c]
  OBVIOUS
<1>5. r = [proc[w] EXCEPT !.n = @ + 1, !.cnt = (@ + 1) % SnapshotEvery]
  BY <1>2, <1>3, <1>4
<1>6. /\ r.n <= MaxSteps
      /\ OpenState(w, r) \/ (proc' = [proc EXCEPT ![w] = Over(r)] /\ UNCHANGED vol)
  BY <1>5 DEF WorkerSteps
<1>7. k \in 0..MaxSteps /\ c \in Nat
  <2>1. r.n = k
    BY <1>1, <1>2, <1>4 DEF Procs
  <2>2. p.n \in 0..MaxSteps /\ p.cnt \in Nat
    BY <1>1, <1>2 DEF Procs
  <2>3. c \in Nat
    BY <2>2, <1>3, NumbersAssumption
  <2> QED BY <2>1, <2>2, <2>3, <1>3, <1>6, BoundsAssumption
<1>8. r \in Procs
  BY <1>1, <1>2, <1>4, <1>7 DEF Procs
<1>9. /\ r.st = p.st /\ r.own = p.own /\ r.tmpl = p.tmpl /\ r.mnt = p.mnt
      /\ r.tag = p.tag /\ r.resume = p.resume /\ r.rep = p.rep
  BY <1>1, <1>2, <1>4 DEF Procs
<1>10. CASE OpenState(w, r)
  BY <1>10, <1>1, <1>2, <1>8, <1>9, <1>u, WorkerOpens
<1>11. CASE proc' = [proc EXCEPT ![w] = Over(r)] /\ UNCHANGED vol
  <2>1. PICK q : q = Over(r)
    OBVIOUS
  <2>2. q \in Procs /\ Moves(p, q)
    BY <2>1, <1>1, <1>2, <1>8, <1>9, OverMoves
  <2> QED BY <2>1, <2>2, <1>1, <1>2, <1>11, <1>u, WorkerOnly DEF Values, Counts
<1> QED BY <1>6, <1>10, <1>11

(* The dump ends: it is the checkpoint the episode wrote last, or the episode counts as cut. *)
LEMMA WorkerDumpsKeeps ==
  ASSUME RLInv, NEW w \in Workers, WorkerDumps(w)
  PROVE  RLInv'
<1>1. Values /\ Mounts /\ proc[w] \in Procs /\ Gone \notin Episodes
  BY NamesAssumption DEF RLInv, Values
<1>u. UNCHANGED <<up, done, swept, cmd, entry, slot, sched>>
  BY DEF WorkerDumps, engines
<1>2. PICK p, e, q : p = proc[w] /\ e = p.mnt /\ q = Over(p)
  OBVIOUS
<1>3. p.st = "dump" /\ p.n \in 0..MaxSteps /\ proc' = [proc EXCEPT ![w] = q]
  BY <1>1, <1>2 DEF WorkerDumps, Procs
<1>4. e \in Episodes \cup {Gone} /\ (e # Gone => vol[e] # None)
  BY <1>1, <1>2, <1>3 DEF Mounts, Mounted
<1>5. q \in Procs /\ Moves(p, q)
  BY <1>1, <1>2, <1>3, OverMoves
<1>6. proc' \in [Workers -> Procs] /\ proc'[w] = q /\ \A v \in Workers \ {w} : proc'[v] = proc[v]
  BY <1>1, <1>3, <1>5 DEF Values
<1>7. CASE e = Gone
  <2>1. UNCHANGED disk /\ NoFault
    BY <1>2, <1>7 DEF WorkerDumps
  <2>2. UNCHANGED <<vol, last, cut, faults, cmds>>
    BY <2>1 DEF disk, NoFault
  <2> QED BY <2>2, <1>1, <1>2, <1>3, <1>5, <1>7, <1>u, WorkerOnly DEF Values, Counts
<1>8. CASE /\ e # Gone /\ vol' = [vol EXCEPT ![e].ckpt = p.n] /\ last' = [last EXCEPT ![e] = p.n]
           /\ UNCHANGED cut /\ NoFault
  <2>0. e \in Episodes /\ e \notin Workers /\ vol[e] \in Dirs
    BY <1>1, <1>4, <1>8, NamesAssumption DEF Values
  <2>1. PICK k : k = p.n
    OBVIOUS
  <2>2. PICK d : d = [vol[e] EXCEPT !.ckpt = k]
    OBVIOUS
  <2>3. d \in Dirs /\ d.ckpt = k
    BY <2>0, <2>1, <2>2, <1>3 DEF Dirs
  <2>4. vol' = [vol EXCEPT ![e] = d]
    BY <2>0, <2>1, <2>2, <1>8
  <2>5. /\ vol' \in [Episodes \cup Workers -> {None} \cup Dirs] /\ vol'[e] # None /\ vol'[e].ckpt = k
        /\ \A v \in (Episodes \cup Workers) \ {e} : vol'[v] = vol[v]
    BY <2>0, <2>3, <2>4, <1>1, DirsThere DEF Values
  <2>6. /\ last' \in [Episodes -> {None} \cup 0..MaxSteps] /\ last'[e] = k
        /\ \A f \in Episodes \ {e} : last'[f] = last[f]
    BY <2>0, <2>1, <1>1, <1>3, <1>8 DEF Values
  <2>7. OnlyWorker(w)
    BY <2>0, <2>5, <1>2, <1>5, <1>6, <1>u DEF OnlyWorker
  <2>8. Writes(w) /\ proc[w].mnt = e /\ Stored(e)'
    BY <2>5, <2>6, <1>2, <1>3 DEF Writes, Stored
  <2>9. \A f \in Episodes \ {e} : last'[f] = last[f] /\ vol'[f] = vol[f] /\ proc[w].mnt # f
    BY <2>5, <2>6, <1>2
  <2>10. faults' \in 0..MaxFaults /\ cmds' = cmds /\ cut' = cut /\ cut \subseteq Episodes
    BY <1>1, <1>8 DEF Values, Counts, NoFault
  <2> QED BY <2>6, <2>7, <2>8, <2>9, <2>10, WorkerStep
<1>9. CASE e # Gone /\ Fault("save") /\ cut' = cut \cup {e} /\ UNCHANGED <<vol, last>>
  <2>0. e \in Episodes
    BY <1>4, <1>9
  <2>1. faults' \in 0..MaxFaults /\ cmds' = cmds /\ cut \subseteq cut' /\ cut' \subseteq Episodes
    BY <2>0, <1>1, <1>9, BoundsAssumption DEF Values, Counts, Fault
  <2>2. OnlyWorker(w)
    BY <1>1, <1>2, <1>5, <1>6, <1>9, <1>u DEF OnlyWorker, Values
  <2>3. last' \in [Episodes -> {None} \cup 0..MaxSteps]
    BY <1>1, <1>9 DEF Values
  <2>4. \A f \in Episodes \ cut' : last'[f] = last[f] /\ vol'[f] = vol[f] /\ proc[w].mnt # f
    BY <1>2, <1>9
  <2> QED BY <2>1, <2>2, <2>3, <2>4, WorkerStep
<1>10. \/ e = Gone
       \/ /\ e # Gone /\ vol' = [vol EXCEPT ![e].ckpt = p.n] /\ last' = [last EXCEPT ![e] = p.n]
          /\ UNCHANGED cut /\ NoFault
       \/ e # Gone /\ Fault("save") /\ cut' = cut \cup {e} /\ UNCHANGED <<vol, last>>
  BY <1>2 DEF WorkerDumps
<1> QED BY <1>7, <1>8, <1>9, <1>10

-----------------------------------------------------------------------------
(* A crash *)

(* The engine's orphans live on; what they may still write, and what was being moved, is cut. *)
LEMMA CrashKeeps ==
  ASSUME RLInv, NEW g \in Engines, Crash(g)
  PROVE  RLInv'
<1>0. /\ Values /\ Off /\ OneHolder /\ Mounts /\ Writers /\ Kept /\ EngineOK(g) /\ g \in up
      /\ (\A h \in up : EngineOK(h)) /\ up \subseteq Engines
  BY DEF RLInv, Crash, Values, Hosts
<1>u. UNCHANGED <<swept, vol, last, cmds>> /\ faults' \in 0..MaxFaults
  BY <1>0, BoundsAssumption DEF Crash, Fault, Values, Counts
<1>1. up' = up \ {g} /\ done' = done \cup {g}
  BY DEF Crash
<1>2. /\ cmd' \in [Engines -> Cmds] /\ entry' \in [Engines -> [Episodes -> {None, Lost} \cup Workers]]
      /\ slot' \in [Engines -> [Slots -> SlotForms]] /\ sched' \in [Engines -> SUBSET Shapes]
      /\ cmd'[g] = Idle /\ sched'[g] = {}
      /\ \A e \in Episodes : entry'[g][e] = None
      /\ \A i \in Slots : slot'[g][i] = EmptySlot
      /\ \A h \in Engines \ {g} :
           cmd'[h] = cmd[h] /\ entry'[h] = entry[h] /\ slot'[h] = slot[h] /\ sched'[h] = sched[h]
  <2>1. EmptySlot \in SlotForms
    BY DEF EmptySlot, SlotForms
  <2> QED BY <2>1, <1>0, IdleIs DEF Crash, Values
<1>3. /\ proc' \in [Workers -> Procs]
      /\ \A w \in Workers : \/ proc'[w] = proc[w]
                            \/ proc[w].own = g /\ ~ Live(w) /\ proc'[w].st = "free" /\ proc'[w].mnt = None
  <2> DEFINE Left(w) == [NoProc EXCEPT !.own = IF vol[w] = None THEN None ELSE g]
  <2>1. ASSUME NEW w \in Workers PROVE Left(w) \in Procs /\ Left(w).st = "free" /\ Left(w).mnt = None
    <3>1. PICK o, z : o = (IF vol[w] = None THEN None ELSE g) /\ z = NoProc
      OBVIOUS
    <3>2. o \in Engines \cup {None}
      BY <3>1
    <3>3. z \in Procs /\ z.st = "free" /\ z.mnt = None
      BY <3>1, BoundsAssumption DEF Procs, NoProc, Ops
    <3>4. [z EXCEPT !.own = o] \in Procs
      BY <3>2, <3>3 DEF Procs
    <3>5. [z EXCEPT !.own = o].st = "free" /\ [z EXCEPT !.own = o].mnt = None
      BY <3>3 DEF Procs
    <3> QED BY <3>1, <3>4, <3>5
  <2>2. proc' = [w \in Workers |-> IF proc[w].own = g /\ ~ Live(w) THEN Left(w) ELSE proc[w]]
    BY DEF Crash
  <2> HIDE DEF Left
  <2> QED BY <2>1, <2>2, <1>0 DEF Values
<1>4. /\ cut \subseteq cut' /\ cut' \subseteq Episodes
      /\ \A w \in Workers : proc[w].own = g /\ Writes(w) /\ proc[w].mnt \in Episodes => proc[w].mnt \in cut'
      /\ cmd[g].pc = "adopt" => cmd[g].e \in cut'
  <2>1. cmd[g].pc = "adopt" => cmd[g].e \in Episodes
    BY <1>0 DEF EngineOK, Course
  <2> QED BY <2>1, <1>0 DEF Crash, Values, Counts
<1>5. \A h \in up' : h \in up /\ h # g /\ h \in Engines /\ \A w \in Held(h) : proc'[w] = proc[w]
  <2>1. \A h \in up \ {g} : \A w \in Held(h) : w \in Workers /\ proc[w].own = h
    BY <1>0, HeldIsOwn DEF Held
  <2> QED BY <2>1, <1>0, <1>1, <1>3
<1>6. Values'
  BY <1>0, <1>1, <1>2, <1>3, <1>4, <1>u DEF Values, Hosts, Counts
<1>7. Off'
  <2> SUFFICES ASSUME NEW h \in Engines, h \notin up'
               PROVE  /\ cmd'[h] = Idle /\ sched'[h] = {}
                      /\ \A e \in Episodes : entry'[h][e] = None
                      /\ \A i \in Slots : slot'[h][i] = EmptySlot
    BY DEF Off
  <2>1. CASE h = g
    BY <2>1, <1>2
  <2>2. CASE h # g
    BY <2>2, <1>0, <1>1, <1>2 DEF Off
  <2> QED BY <2>1, <2>2
<1>8. OneHolder'
  <2>1. \A h \in up' : h \in up /\ cmd'[h] = cmd[h] /\ entry'[h] = entry[h]
    BY <1>2, <1>5
  <2>2. \A h \in up', e \in Episodes : Holds(h, e)' => Holds(h, e)
    BY <2>1 DEF Holds
  <2>3. \A h, k \in up', e \in Episodes : Holds(h, e)' /\ Holds(k, e)' => h = k
    BY <2>1, <2>2, <1>0 DEF OneHolder
  <2>4. \A h \in up', e \in Episodes : cmd'[h].e = e => entry'[h][e] \notin Workers
    BY <2>1, <1>0 DEF OneHolder
  <2> QED BY <2>3, <2>4 DEF OneHolder
<1>9. Mounts'
  <2> SUFFICES ASSUME NEW w \in Workers PROVE Mounted(w)'
    BY DEF Mounts
  <2>1. CASE proc'[w] = proc[w]
    BY <2>1, <1>0, <1>u DEF Mounts, Mounted
  <2>2. CASE proc'[w].st = "free" /\ proc'[w].mnt = None
    BY <2>2, NamesAssumption DEF Mounted
  <2> QED BY <2>1, <2>2, <1>3
<1>10. Writers'
  <2> SUFFICES ASSUME NEW w \in Workers, Writer(w)' PROVE Read(proc[w].own, w)'
    BY DEF Writers
  <2>1. proc'[w] = proc[w]
    BY <1>3 DEF Writer, Writes
  <2>2. Writes(w) /\ proc[w].mnt \in Episodes \ cut'
    BY <2>1 DEF Writer, Writes
  <2>3. PICK h : h = proc[w].own
    OBVIOUS
  <2>4. h # g /\ Read(h, w)
    BY <2>2, <2>3, <1>0, <1>4 DEF Writers, Writer
  <2>5. h \in Engines /\ cmd'[h] = cmd[h] /\ h \in up'
    BY <2>4, <1>0, <1>1, <1>2 DEF Read
  <2>6. Read(h, w)'
    BY <2>4, <2>5 DEF Read, Starting
  <2> QED BY <2>1, <2>3, <2>6
<1>11. Kept'
  <2> SUFFICES ASSUME NEW e \in Episodes, e \notin cut', last[e] # None
               PROVE  /\ Dumped(e)' \/ (\E h \in up' : Moved(h, e)') \/ Stored(e)'
                      /\ \A h \in up' : cmd'[h].e = e /\ Starting(h)' => Found(h, e, cmd[h].w)'
    BY <1>u DEF Kept, KeptOf
  <2>0. KeptOf(e)
    BY <1>0, <1>4 DEF Kept
  <2>1. Dumped(e) => Dumped(e)'
    <3> SUFFICES ASSUME NEW w \in Workers, proc[w].st = "dump", proc[w].mnt = e PROVE Dumped(e)'
      BY DEF Dumped
    <3>1. proc'[w] = proc[w]
      BY <1>3 DEF Live
    <3> QED BY <3>1 DEF Dumped
  <2>2. Stored(e) => Stored(e)'
    BY <1>u DEF Stored
  <2>3. ASSUME NEW h \in up, Moved(h, e) PROVE h \in up' /\ Moved(h, e)'
    <3>1. h # g /\ h \in Engines
      BY <2>3, <1>0, <1>4 DEF Moved
    <3> QED BY <3>1, <2>3, <1>1, <1>2, <1>u DEF Moved
  <2>4. ASSUME NEW h \in up', cmd'[h].e = e, Starting(h)' PROVE Found(h, e, cmd[h].w)'
    <3>1. h \in up /\ cmd'[h] = cmd[h] /\ EngineOK(h)
      BY <1>0, <1>2, <1>5
    <3>2. Found(h, e, cmd[h].w)
      BY <3>1, <2>0, <2>4 DEF KeptOf, Starting
    <3>3. cmd[h].w \in Workers => proc'[cmd[h].w] = proc[cmd[h].w]
      BY <1>5 DEF Held
    <3> QED BY <3>1, <3>2, <3>3, <1>0, <1>u, FoundSame
  <2> QED BY <2>0, <2>1, <2>2, <2>3, <2>4 DEF KeptOf
<1>12. \A h \in up' : EngineOK(h)'
  <2> SUFFICES ASSUME NEW h \in up' PROVE EngineOK(h)'
    OBVIOUS
  <2>1. /\ h \in up /\ EngineOK(h) /\ cmd'[h] = cmd[h] /\ entry'[h] = entry[h] /\ slot'[h] = slot[h]
        /\ \A w \in Held(h) : proc'[w] = proc[w] /\ vol'[w] = vol[w]
    BY <1>0, <1>2, <1>5, <1>u
  <2> QED BY <2>1, <1>0, <1>u, EngineSame
<1> QED BY <1>6, <1>7, <1>8, <1>9, <1>10, <1>11, <1>12 DEF RLInv

-----------------------------------------------------------------------------
(* The theorems *)

(* The invariant is inductive. *)
LEMMA RLInductive == RLInv /\ [RLNext]_rlVars => RLInv'
<1> SUFFICES ASSUME RLInv, [RLNext]_rlVars PROVE RLInv'
  OBVIOUS
<1>1. CASE UNCHANGED rlVars
  <2>1. UNCHANGED <<up, done, swept, cmd, entry, slot, sched, proc, vol, last, cut, faults, cmds>>
    BY <1>1 DEF rlVars
  <2>2. Values /\ Off
    BY DEF RLInv
  <2>3. Values' /\ Off'
    BY <2>1, <2>2 DEF Values, Hosts, Counts, Off
  <2>4. Core'
    BY <2>1, QuietStep
  <2> QED BY <2>3, <2>4 DEF RLInv, Core
<1>2. ASSUME NEW g \in Engines, Command(g) PROVE RLInv'
  <2>1. \A e \in Episodes, op \in Ops : Exchange(g, e, op) => RLInv'
    BY ExchangeKeeps
  <2>2. \A e \in Episodes : Step(g, e) \/ StepsBatch(g, e) \/ Snapshot(g, e) => RLInv'
    BY <2>1 DEF Step, StepsBatch, Snapshot, Ops
  <2> QED BY <2>2, <1>2, RlPrespawnKeeps, StartKeeps, CloseKeeps DEF Command
<1>3. ASSUME NEW g \in Engines, Handler(g) PROVE RLInv'
  BY <1>3, ClaimKeeps, AdoptMoveKeeps, AdoptRenameKeeps, AdoptFailsKeeps, LoadKeeps, WriteManifestKeeps,
     SpawnKeeps, InsertKeeps, ReadTickKeeps, ReadFailsKeeps DEF Handler
<1>4. ASSUME NEW g \in Engines, Prespawn(g) PROVE RLInv'
  BY <1>4, PrespawnBootKeeps, PrespawnFullKeeps, PrespawnReadyKeeps, PrespawnFailsKeeps DEF Prespawn
<1>5. ASSUME NEW w \in Workers, Worker(w) PROVE RLInv'
  BY <1>5, WorkerHelloKeeps, WorkerResetKeeps, WorkerStepsKeeps, WorkerRaisesKeeps, WorkerSnapshotKeeps,
     WorkerDumpsKeeps, WorkerEofKeeps, WorkerDiesKeeps DEF Worker
<1> QED BY <1>1, <1>2, <1>3, <1>4, <1>5, BootKeeps, CrashKeeps DEF RLNext

(* It holds in every state. *)
LEMMA RLSafe == RLSpec => []RLInv
BY InitHolds, RLInductive, PTL DEF RLSpec

(* Every variable keeps its type, however many engines, episodes, slots and workers there are: *)
(* an exchange is with a worker of the engine's own, a slot is empty or has one, and no torn   *)
(* checkpoint becomes a state (rl.rs: EngineState, WarmSlot, the shim's load_state).           *)
THEOREM RLTyped == RLSpec => []RLTypeOK
<1>1. RLInv => RLTypeOK
  <2> SUFFICES ASSUME RLInv PROVE RLTypeOK
    OBVIOUS
  <2>0. Values /\ Off /\ \A g \in up : EngineOK(g)
    BY DEF RLInv
  <2>1. ASSUME NEW g \in Engines
        PROVE  /\ cmd[g].pc \in Points
               /\ cmd[g].pc \in {"adopt", "load", "insert", "read"} => proc[cmd[g].w].own = g
               /\ entry[g] \in [Episodes -> {None, Lost} \cup Workers]
               /\ \A i \in Slots : (slot[g][i].st = "empty") = (slot[g][i].w = None)
               /\ sched[g] \subseteq Shapes
    <3>1. cmd[g].pc \in Points /\ entry[g] \in [Episodes -> {None, Lost} \cup Workers] /\ sched[g] \subseteq Shapes
      BY <2>0 DEF Values, Cmds
    <3>2. CASE g \notin up
      BY <3>1, <3>2, <2>0 DEF Off, Idle, EmptySlot
    <3>3. CASE g \in up
      <4>1. Course(g) /\ InSlots(g) /\ InCmd(g, cmd[g].w, cmd[g].e)
        BY <3>3, <2>0 DEF EngineOK
      <4>2. cmd[g].pc = "adopt" => proc[cmd[g].w].own = g
        BY <4>1 DEF InCmd, Warm
      <4>3. cmd[g].pc \in {"load", "read"} => proc[cmd[g].w].own = g
        BY <4>1 DEF InCmd, Serves
      <4>4. cmd[g].pc = "insert" => proc[cmd[g].w].own = g
        BY <4>1, NamesAssumption DEF InCmd, Serves, Course
      <4>5. \A i \in Slots : (slot[g][i].st = "empty") = (slot[g][i].w = None)
        BY <4>1 DEF InSlots, InSlot
      <4> QED BY <3>1, <4>2, <4>3, <4>4, <4>5
    <3> QED BY <3>2, <3>3
  <2>2. \A v \in Episodes \cup Workers : vol[v] = None \/ vol[v] \in Dirs
    BY <2>0 DEF Values
  <2>3. ASSUME NEW w \in Workers
        PROVE  /\ proc[w].st \in {"free", "boot", "warm", "idle", "run", "dump", "dead"}
               /\ proc[w].mnt \in {None, Gone} \cup Episodes \cup Workers
               /\ proc[w].rep \in {None, Hello, 0, 1} /\ proc[w].n \in 0..MaxSteps
    <3>1. proc[w] \in Procs
      BY <2>0 DEF Values
    <3> QED BY <3>1 DEF Procs
  <2> QED BY <2>0, <2>1, <2>2, <2>3 DEF RLTypeOK, Values, Hosts, Counts, Dirs, Points
<1> QED BY <1>1, RLSafe, PTL

(* The tick an engine reads answers the exchange it is in: neither the hello frame of a warm   *)
(* worker nor the late tick of a request that timed out is taken for it (rl.rs: step,          *)
(* reset_handshake, schedule_prespawn), whatever dies, times out or crashes.                   *)
THEOREM RLTickIsOwn == RLSpec => []TickIsOwn
<1>1. RLInv => TickIsOwn
  BY DEF RLInv, EngineOK, InCmd, TickIsOwn
<1> QED BY <1>1, RLSafe, PTL

(* A warm worker's volume stays under its own name until it is claimed, and a worker that      *)
(* serves an episode has that episode's directory and sandbox shape (rl.rs: claim_warm,        *)
(* adopt_episode_dir, sweep_stale_warm_dirs), for any number of engines that sweep the host.   *)
THEOREM RLWorkerIsOwn == RLSpec => []WorkerIsOwn
<1>1. RLInv => WorkerIsOwn
  <2> SUFFICES ASSUME RLInv, NEW g \in up
               PROVE  /\ \A i \in Slots : slot[g][i].st = "ready" =>
                           /\ vol[slot[g][i].w] = NewDir /\ proc[slot[g][i].w].mnt = slot[g][i].w
                      /\ \A e \in Episodes : entry[g][e] \in Workers =>
                           /\ proc[entry[g][e]].mnt = e /\ proc[entry[g][e]].tmpl = Shape[e]
    BY DEF WorkerIsOwn
  <2>1. InSlots(g) /\ InEntries(g)
    BY DEF RLInv, EngineOK
  <2> QED BY <2>1 DEF InSlots, InSlot, Warm, InEntries, InEntry, Serves
<1> QED BY <1>1, RLSafe, PTL

(* An episode that is started again goes on from the checkpoint it wrote last, on any engine   *)
(* and by a warm or a cold worker, unless a fault struck while the checkpoint was written or   *)
(* moved (rl.rs: start, claim_warm, save_state and the restore of the shim).                   *)
THEOREM RLResumeContinues == RLSpec => []ResumeContinues
<1>1. RLInv => ResumeContinues
  <2> SUFFICES ASSUME RLInv, NEW g \in up, NEW e, e = cmd[g].e, cmd[g].pc = "insert", e \notin cut, last[e] # None
               PROVE  proc[cmd[g].w].n = last[e]
    BY DEF ResumeContinues
  <2>1. e \in Episodes \ cut /\ Starting(g) /\ cmd[g].w \in Workers /\ cmd[g].w # None
    BY NamesAssumption DEF RLInv, EngineOK, Course
  <2>2. Found(g, e, cmd[g].w)
    BY <2>1, StartHas
  <2> QED BY <2>1, <2>2 DEF Found
<1> QED BY <1>1, RLSafe, PTL
=============================================================================
