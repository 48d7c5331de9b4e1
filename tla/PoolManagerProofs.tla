------------------------- MODULE PoolManagerProofs --------------------------
(***************************************************************************)
(* Proofs about PoolManager, for any sets of requests and VMs, any cap and *)
(* any number of deaths, timeouts, retires and prewarms.                   *)
(*                                                                         *)
(* ExclusiveHold is not inductive.  It rests on Ownership: a VM that was   *)
(* taken and not yet put back has exactly one owner, who may be the        *)
(* manager, and its row is not idle.  Ownership travels in messages, so    *)
(* Mail ties each queued message to the state of its sender, and Duty ties *)
(* the manager's handler to the request it serves.                         *)
(*                                                                         *)
(* On top of PoolInv: IndexInv orders the timestamps, so that a loser of a *)
(* race deletes an index entry older than the one a later release made;    *)
(* Notices and SlotsTell say who may free a slot, which is what keeps the  *)
(* counter on the right side of the reservations; and with them every step *)
(* of the pool is a step of VMLease.                                       *)
(***************************************************************************)
EXTENDS PoolManager, SequenceTheorems, FiniteSetTheorems, TLAPS

(* Each taker is at a point of its own code.                               *)
Shape ==
  /\ PoolTypeOK
  /\ \A r \in Requests : at[r] \in RequestStates
  /\ at[Manager] \in ManagerStates
  /\ at[Manager] = "boot" => left > 0

MailOK(m) ==
  /\ m.type \in {"retire", "prewarm"} => m.req = Manager
  /\ m.type = "prewarm" => m.n > 0
  /\ m.type = "release" => m.req \in Requests
  /\ m.type = "vm_dead" => m.vm \in VMs
  /\ m.type \in {"release", "vm_dead"} /\ m.req \in Requests =>
       at[m.req] = "done" /\ vm[m.req] = m.vm
  /\ m.type = "acquire_cold" =>
       m.req \in Requests /\ at[m.req] \in {"cold", "gone"} /\ m.req # serving

(* A queued message agrees with where its sender waits, and a request has  *)
(* at most one message in the queue.                                       *)
Mail ==
  /\ \A i \in 1..Len(mailbox) : MailOK(mailbox[i])
  /\ \A i, j \in 1..Len(mailbox) :
       i # j /\ mailbox[i].req \in Requests => mailbox[i].req # mailbox[j].req

ColdStates == {"lookup", "scan", "won", "lost", "mark", "spawn"}
RequestHas == {"won", "lost", "mark", "held", "done"}
ManagerHas == {"won", "lost", "mark", "insert", "index", "destroy",
               "dead_row", "dead_idx", "retire_idx", "retire_stop"}

(* The manager serves a waiting request in acquire_cold and none elsewhere,*)
(* and whoever works on a VM has one.                                      *)
Duty ==
  /\ at[Manager] \in ColdStates =>
       serving \in Requests /\ at[serving] \in {"cold", "gone"}
  /\ at[Manager] \notin ColdStates => serving = Manager
  /\ at[Manager] \in ManagerHas => vm[Manager] \in VMs
  /\ \A r \in Requests : at[r] \in RequestHas => vm[r] \in VMs

Owns(t) == at[t] \in {"won", "mark", "held", "done", "insert"}

Ownership ==
  /\ \A v \in VMs : row[v] = "idle" => v \in born
  /\ \A t \in Takers : Owns(t) => vm[t] \in born /\ row[vm[t]] # "idle"
  /\ \A t, u \in Takers : t # u /\ Owns(t) /\ Owns(u) => vm[t] # vm[u]

PoolInv == Shape /\ Mail /\ Duty /\ Ownership

USE DEF quotaVars, tableVars, vmVars, takerVars, managerVars, budgetVars, Goto, Send
-----------------------------------------------------------------------------
(* How Mail survives the three things a step does to the queue.            *)

(* The queue is left alone: senders that wait for the manager keep waiting,*)
(* except the request it is serving, which has no message left in it.      *)
LEMMA MailSame ==
  ASSUME Shape, Mail, mailbox' = mailbox, serving' \in {serving, Manager},
         \A r \in Requests : at[r] = "done" => at'[r] = "done" /\ vm'[r] = vm[r],
         \A r \in Requests :
           at[r] \in {"cold", "gone"} /\ r # serving => at'[r] \in {"cold", "gone"}
  PROVE  Mail'
<1>1. ASSUME NEW i \in 1..Len(mailbox) PROVE MailOK(mailbox[i])'
  <2>1. MailOK(mailbox[i]) /\ mailbox[i] \in Messages
    BY DEF Mail, Shape, PoolTypeOK
  <2> QED
    BY <2>1, ManagerAssumption DEF MailOK
<1> QED
  BY <1>1 DEF Mail

(* A message is taken from the front: its sender has no other.             *)
LEMMA MailTail ==
  ASSUME Shape, Mail, mailbox # << >>, mailbox' = Tail(mailbox),
         serving' \in {serving, Manager, Head(mailbox).req},
         \A r \in Requests : r # Head(mailbox).req => at'[r] = at[r] /\ vm'[r] = vm[r]
  PROVE  Mail'
<1>1. mailbox \in Seq(Messages) /\ Head(mailbox) = mailbox[1] /\ Len(mailbox) > 0
  BY DEF Shape, PoolTypeOK
<1>2. /\ Len(mailbox') = Len(mailbox) - 1
      /\ \A i \in 1..Len(mailbox') : mailbox'[i] = mailbox[i + 1] /\ i + 1 \in 1..Len(mailbox)
  BY <1>1
<1>3. ASSUME NEW i \in 1..Len(mailbox') PROVE MailOK(mailbox[i])'
  <2>1. MailOK(mailbox[i + 1]) /\ mailbox[i + 1] \in Messages
    BY <1>1, <1>2 DEF Mail
  <2>2. mailbox[i + 1].req \in Requests => mailbox[i + 1].req # Head(mailbox).req
    BY <1>1, <1>2 DEF Mail
  <2>3. mailbox'[i] = mailbox[i + 1]
    BY <1>2
  <2> QED
    BY <2>1, <2>2, <2>3, ManagerAssumption DEF MailOK
<1>4. ASSUME NEW i \in 1..Len(mailbox'), NEW j \in 1..Len(mailbox'), i # j,
             mailbox'[i].req \in Requests
      PROVE  mailbox'[i].req # mailbox'[j].req
  BY <1>1, <1>2, <1>4 DEF Mail
<1> QED
  BY <1>3, <1>4 DEF Mail

(* A message is added: its sender had none, and only the sender moves.     *)
LEMMA MailAppend ==
  ASSUME Shape, Mail, NEW m \in Messages, mailbox' = Append(mailbox, m),
         MailOK(m)', serving' = serving,
         m.req \in Requests => at[m.req] \notin {"done", "cold", "gone"},
         \A r \in Requests : r # m.req => at'[r] = at[r] /\ vm'[r] = vm[r]
  PROVE  Mail'
<1>1. mailbox \in Seq(Messages)
  BY DEF Shape, PoolTypeOK
<1>2. /\ Len(mailbox') = Len(mailbox) + 1
      /\ \A i \in 1..Len(mailbox) : mailbox'[i] = mailbox[i] /\ mailbox[i] \in Messages
      /\ mailbox'[Len(mailbox) + 1] = m
  BY <1>1
<1>3. ASSUME NEW i \in 1..Len(mailbox), m.req \in Requests
      PROVE  mailbox[i].req # m.req
  <2>1. MailOK(mailbox[i]) /\ mailbox[i] \in Messages
    BY <1>2 DEF Mail
  <2> QED
    BY <1>3, <2>1, ManagerAssumption DEF MailOK, Messages
<1>4. ASSUME NEW i \in 1..Len(mailbox) PROVE MailOK(mailbox[i])'
  <2>1. MailOK(mailbox[i]) /\ mailbox[i] \in Messages
    BY <1>2 DEF Mail
  <2>2. mailbox'[i] = mailbox[i]
    BY <1>2
  <2> QED
    BY <1>3, <2>1, <2>2, ManagerAssumption DEF MailOK
<1>5. ASSUME NEW i \in 1..Len(mailbox') PROVE MailOK(mailbox[i])'
  BY <1>1, <1>2, <1>4
<1>6. ASSUME NEW i \in 1..Len(mailbox'), NEW j \in 1..Len(mailbox'), i # j,
             mailbox'[i].req \in Requests
      PROVE  mailbox'[i].req # mailbox'[j].req
  BY <1>1, <1>2, <1>3, <1>6 DEF Mail
<1> QED
  BY <1>5, <1>6 DEF Mail

(* What a handler knows of the message it takes.                           *)
LEMMA Received ==
  ASSUME Shape, Mail, NEW type, Receive(type)
  PROVE  /\ Head(mailbox) \in Messages /\ MailOK(Head(mailbox)) /\ Head(mailbox).type = type
         /\ mailbox # << >> /\ mailbox' = Tail(mailbox) /\ Tail(mailbox) \in Seq(Messages)
         /\ at[Manager] = "ready"
<1>1. mailbox \in Seq(Messages) /\ mailbox # << >>
  BY DEF Receive, Shape, PoolTypeOK
<1>2. Head(mailbox) = mailbox[1] /\ 1 \in 1..Len(mailbox) /\ mailbox[1] \in Messages
  BY <1>1
<1> QED
  BY <1>1, <1>2 DEF Receive, Mail

-----------------------------------------------------------------------------
(* One lemma per action: it preserves every part of PoolInv.               *)

USE ManagerAssumption, NoVMAssumption
    DEF PoolInv, Takers, Messages, SlotStates, ColdStates, ManagerHas, RequestHas

(* acquire/1 bumps the counter and starts a taker of its own.              *)
LEMMA AcquireKeeps ==
  ASSUME PoolInv, NEW r \in Requests, Acquire(r)
  PROVE  PoolInv'
<1>1. Shape'
  BY BoundsAssumption DEF Acquire, ReserveBump, Shape, PoolTypeOK, RequestStates,
     ManagerStates, Duty
<1>2. Mail'
  BY MailSame DEF Acquire, ReserveBump, Shape, PoolTypeOK, Duty
<1>3. Duty'
  BY <1>1 DEF Acquire, ReserveBump, Shape, PoolTypeOK, Duty
<1>4. Ownership'
  BY <1>1, <1>3 DEF Acquire, ReserveBump, Shape, PoolTypeOK, Duty, Ownership, Owns
<1> QED
  BY <1>1, <1>2, <1>3, <1>4

(* acquire/1 over the cap: the bump is undone, the request goes home.      *)
LEMMA RefuseKeeps ==
  ASSUME PoolInv, NEW r \in Requests, Refuse(r)
  PROVE  PoolInv'
<1>1. Shape'
  BY BoundsAssumption DEF Refuse, ReserveUndo, Shape, PoolTypeOK, RequestStates,
     ManagerStates, Duty
<1>2. Mail'
  BY MailSame DEF Refuse, ReserveUndo, Shape, PoolTypeOK, Duty
<1>3. Duty'
  BY <1>1 DEF Refuse, ReserveUndo, Shape, PoolTypeOK, Duty
<1>4. Ownership'
  BY <1>1, <1>3 DEF Refuse, ReserveUndo, Shape, PoolTypeOK, Duty, Ownership, Owns
<1> QED
  BY <1>1, <1>2, <1>3, <1>4

(* The index is read: the candidates are entries some VM once had.         *)
LEMMA LookupIndexKeeps ==
  ASSUME PoolInv, NEW t \in Takers, LookupIndex(t)
  PROVE  PoolInv'
<1>1. Shape'
  BY BoundsAssumption DEF LookupIndex, Shape, PoolTypeOK, RequestStates, ManagerStates,
     Duty
<1>2. Mail'
  BY MailSame DEF LookupIndex, Shape, PoolTypeOK, Duty
<1>3. Duty'
  BY <1>1 DEF LookupIndex, Shape, PoolTypeOK, Duty
<1>4. Ownership'
  BY <1>1, <1>3 DEF LookupIndex, Shape, PoolTypeOK, Duty, Ownership, Owns
<1> QED
  BY <1>1, <1>2, <1>3, <1>4

(* :ets.take decides the race: one taker gets the row.                     *)
LEMMA TakeCandidateKeeps ==
  ASSUME PoolInv, NEW t \in Takers, TakeCandidate(t)
  PROVE  PoolInv'
<1>1. Shape'
  BY BoundsAssumption DEF TakeCandidate, Shape, PoolTypeOK, RequestStates, ManagerStates,
     Duty
<1>2. Mail'
  BY MailSame DEF TakeCandidate, Shape, PoolTypeOK, Duty
<1>3. Duty'
  BY <1>1 DEF TakeCandidate, Shape, PoolTypeOK, Duty
<1>4. Ownership'
  BY <1>1, <1>3 DEF TakeCandidate, Shape, PoolTypeOK, Duty, Ownership, Owns
<1> QED
  BY <1>1, <1>2, <1>3, <1>4

(* The winner of a live candidate owns it from here on.                    *)
LEMMA KeepCandidateKeeps ==
  ASSUME PoolInv, NEW t \in Takers, KeepCandidate(t)
  PROVE  PoolInv'
<1>1. Shape'
  BY BoundsAssumption DEF KeepCandidate, Shape, PoolTypeOK, RequestStates, ManagerStates,
     Duty
<1>2. Mail'
  BY MailSame DEF KeepCandidate, Shape, PoolTypeOK, Duty
<1>3. Duty'
  BY <1>1 DEF KeepCandidate, Shape, PoolTypeOK, Duty
<1>4. Ownership'
  BY <1>1, <1>3 DEF KeepCandidate, Shape, PoolTypeOK, Duty, Ownership, Owns
<1> QED
  BY <1>1, <1>2, <1>3, <1>4

(* The winner of a dead candidate gives it up and looks again.             *)
LEMMA ExpireCandidateKeeps ==
  ASSUME PoolInv, NEW t \in Takers, ExpireCandidate(t)
  PROVE  PoolInv'
<1>1. Shape'
  BY BoundsAssumption DEF ExpireCandidate, Shape, PoolTypeOK, RequestStates,
     ManagerStates, Duty
<1>2. Mail'
  BY MailSame DEF ExpireCandidate, Shape, PoolTypeOK, Duty
<1>3. Duty'
  BY <1>1 DEF ExpireCandidate, Shape, PoolTypeOK, Duty
<1>4. Ownership'
  BY <1>1, <1>3 DEF ExpireCandidate, Shape, PoolTypeOK, Duty, Ownership, Owns
<1> QED
  BY <1>1, <1>2, <1>3, <1>4

(* The loser only deletes the entry it read.                               *)
LEMMA DropCandidateKeeps ==
  ASSUME PoolInv, NEW t \in Takers, DropCandidate(t)
  PROVE  PoolInv'
<1>1. Shape'
  BY BoundsAssumption DEF DropCandidate, Shape, PoolTypeOK, RequestStates, ManagerStates,
     Duty
<1>2. Mail'
  BY MailSame DEF DropCandidate, Shape, PoolTypeOK, Duty
<1>3. Duty'
  BY <1>1 DEF DropCandidate, Shape, PoolTypeOK, Duty
<1>4. Ownership'
  BY <1>1, <1>3 DEF DropCandidate, Shape, PoolTypeOK, Duty, Ownership, Owns
<1> QED
  BY <1>1, <1>2, <1>3, <1>4

(* The fast path marks the row of the VM its taker owns.                   *)
LEMMA MarkBusyKeeps ==
  ASSUME PoolInv, NEW r \in Requests, MarkBusy(r)
  PROVE  PoolInv'
<1>1. Shape'
  BY BoundsAssumption DEF MarkBusy, Shape, PoolTypeOK, RequestStates, ManagerStates, Duty
<1>2. Mail'
  BY MailSame DEF MarkBusy, Shape, PoolTypeOK, Duty
<1>3. Duty'
  BY <1>1 DEF MarkBusy, Shape, PoolTypeOK, Duty
<1>4. Ownership'
  BY <1>1, <1>3 DEF MarkBusy, Shape, PoolTypeOK, Duty, Ownership, Owns
<1> QED
  BY <1>1, <1>2, <1>3, <1>4

(* The slow path queues an acquire_cold and waits.                         *)
LEMMA CallManagerKeeps ==
  ASSUME PoolInv, NEW r \in Requests, CallManager(r)
  PROVE  PoolInv'
<1>1. Shape'
  BY BoundsAssumption DEF CallManager, Message, Shape, PoolTypeOK, RequestStates,
     ManagerStates, MailOK, Duty
<1>2. Mail'
  <2> DEFINE m == Message("acquire_cold", r, NoVM, 0)
  <2>1. m \in Messages /\ m.req = r
    BY DEF Message, Duty, CallManager
  <2>2. MailOK(m)'
    BY DEF CallManager, Message, MailOK, Shape, PoolTypeOK, Duty
  <2>3. mailbox' = Append(mailbox, m)
    BY DEF CallManager
  <2> HIDE DEF m
  <2> QED
    BY <2>1, <2>2, <2>3, MailAppend DEF CallManager, Shape, PoolTypeOK
<1>3. Duty'
  BY <1>1 DEF CallManager, Message, Shape, PoolTypeOK, MailOK, Duty
<1>4. Ownership'
  BY <1>1, <1>3 DEF CallManager, Message, Shape, PoolTypeOK, MailOK, Duty, Ownership, Owns
<1> QED
  BY <1>1, <1>2, <1>3, <1>4

(* The caller gives up; the queued call, or the handler, is still there.   *)
LEMMA CallTimeoutKeeps ==
  ASSUME PoolInv, NEW r \in Requests, CallTimeout(r)
  PROVE  PoolInv'
<1>1. Shape'
  BY BoundsAssumption DEF CallTimeout, Shape, PoolTypeOK, RequestStates, ManagerStates,
     Duty
<1>2. Mail'
  BY MailSame DEF CallTimeout, Shape, PoolTypeOK, Duty
<1>3. Duty'
  BY <1>1 DEF CallTimeout, Shape, PoolTypeOK, Duty
<1>4. Ownership'
  BY <1>1, <1>3 DEF CallTimeout, Shape, PoolTypeOK, Duty, Ownership, Owns
<1> QED
  BY <1>1, <1>2, <1>3, <1>4

(* release/2: the VM goes to the manager with the message.                 *)
LEMMA ReleaseVMKeeps ==
  ASSUME PoolInv, NEW r \in Requests, ReleaseVM(r)
  PROVE  PoolInv'
<1>1. Shape'
  BY BoundsAssumption DEF ReleaseVM, Message, Shape, PoolTypeOK, RequestStates,
     ManagerStates, MailOK, Duty
<1>2. Mail'
  <2>1. PICK m \in Messages : m = Message("release", r, vm[r], 0)
    BY DEF Message, Duty, ReleaseVM
  <2>2. /\ m.type = "release" /\ m.req = r /\ m.vm = vm[r] /\ vm[r] \in VMs
        /\ at[r] = "held" /\ at'[r] = "done" /\ vm' = vm
    BY <2>1 DEF ReleaseVM, Message, Shape, PoolTypeOK, Duty
  <2>3. MailOK(m)'
    BY <2>2 DEF MailOK
  <2> QED
    BY <2>1, <2>2, <2>3, MailAppend DEF ReleaseVM, Shape, PoolTypeOK
<1>3. Duty'
  BY <1>1 DEF ReleaseVM, Message, Shape, PoolTypeOK, MailOK, Duty
<1>4. Ownership'
  BY <1>1, <1>3 DEF ReleaseVM, Message, Shape, PoolTypeOK, MailOK, Duty, Ownership, Owns
<1> QED
  BY <1>1, <1>2, <1>3, <1>4

(* VM.Server.stop: the notice carries the VM away from its holder.         *)
LEMMA StopVMKeeps ==
  ASSUME PoolInv, NEW r \in Requests, StopVM(r)
  PROVE  PoolInv'
<1>1. Shape'
  BY BoundsAssumption DEF StopVM, Message, Shape, PoolTypeOK, RequestStates,
     ManagerStates, MailOK, Duty
<1>2. Mail'
  <2>1. PICK m \in Messages : m = Message("vm_dead", r, vm[r], 0)
    BY DEF Message, Duty, StopVM
  <2>2. /\ m.type = "vm_dead" /\ m.req = r /\ m.vm = vm[r] /\ vm[r] \in VMs
        /\ at[r] = "held" /\ at'[r] = "done" /\ vm' = vm
    BY <2>1 DEF StopVM, Message, Shape, PoolTypeOK, Duty
  <2>3. MailOK(m)'
    BY <2>2 DEF MailOK
  <2> QED
    BY <2>1, <2>2, <2>3, MailAppend DEF StopVM, Shape, PoolTypeOK
<1>3. Duty'
  BY <1>1 DEF StopVM, Message, Shape, PoolTypeOK, MailOK, Duty
<1>4. Ownership'
  BY <1>1, <1>3 DEF StopVM, Message, Shape, PoolTypeOK, MailOK, Duty, Ownership, Owns
<1> QED
  BY <1>1, <1>2, <1>3, <1>4

(* handle_call(acquire_cold) starts a taker for the caller.                *)
LEMMA AcquireColdKeeps ==
  ASSUME PoolInv, AcquireCold
  PROVE  PoolInv'
<1>0. /\ Head(mailbox) \in Messages /\ MailOK(Head(mailbox)) /\ Head(mailbox).type = "acquire_cold"
      /\ mailbox # << >> /\ mailbox' = Tail(mailbox) /\ Tail(mailbox) \in Seq(Messages)
      /\ at[Manager] = "ready"
  BY Received DEF AcquireCold
<1>1. Shape'
  BY <1>0, BoundsAssumption DEF AcquireCold, Shape, PoolTypeOK, RequestStates,
     ManagerStates, MailOK, Duty
<1>2. Mail'
  BY <1>0, MailTail DEF AcquireCold, Shape, PoolTypeOK, MailOK
<1>3. Duty'
  BY <1>0, <1>1 DEF AcquireCold, Shape, PoolTypeOK, MailOK, Duty
<1>4. Ownership'
  BY <1>0, <1>1, <1>3 DEF AcquireCold, Shape, PoolTypeOK, MailOK, Duty, Ownership, Owns
<1> QED
  BY <1>1, <1>2, <1>3, <1>4

(* No candidate is left: the manager goes on to spawn.                     *)
LEMMA NoneIdleKeeps ==
  ASSUME PoolInv, NoneIdle
  PROVE  PoolInv'
<1>1. Shape'
  BY BoundsAssumption DEF NoneIdle, Shape, PoolTypeOK, RequestStates, ManagerStates, Duty
<1>2. Mail'
  BY MailSame DEF NoneIdle, Shape, PoolTypeOK, Duty
<1>3. Duty'
  BY <1>1 DEF NoneIdle, Shape, PoolTypeOK, Duty
<1>4. Ownership'
  BY <1>1, <1>3 DEF NoneIdle, Shape, PoolTypeOK, Duty, Ownership, Owns
<1> QED
  BY <1>1, <1>2, <1>3, <1>4

(* start_vm: a VM nobody has ever had.                                     *)
LEMMA SpawnVMKeeps ==
  ASSUME PoolInv, SpawnVM
  PROVE  PoolInv'
<1>1. Shape'
  BY BoundsAssumption DEF SpawnVM, Shape, PoolTypeOK, RequestStates, ManagerStates, Duty
<1>2. Mail'
  BY MailSame DEF SpawnVM, Shape, PoolTypeOK, Duty
<1>3. Duty'
  BY <1>1 DEF SpawnVM, Shape, PoolTypeOK, Duty
<1>4. Ownership'
  BY <1>1, <1>3 DEF SpawnVM, Shape, PoolTypeOK, Duty, Ownership, Owns
<1> QED
  BY <1>1, <1>2, <1>3, <1>4

(* start_vm fails: the caller is answered and its slot freed.              *)
LEMMA SpawnFailsKeeps ==
  ASSUME PoolInv, SpawnFails
  PROVE  PoolInv'
<1>0. /\ serving \in Requests /\ at[serving] \in {"cold", "gone"} /\ serving' = Manager
      /\ at' = [at EXCEPT ![Manager] = "ready", ![serving] = "idle"]
      /\ at'[Manager] = "ready" /\ at'[serving] = "idle"
      /\ \A r \in Requests : r # serving => at'[r] = at[r]
      /\ in_flight' \in Int /\ slot' \in [Requests -> SlotStates]
  BY DEF SpawnFails, Release, Decrement, Shape, PoolTypeOK, Duty
<1>1. Shape'
  <2>1. at' \in [Takers -> RequestStates \cup ManagerStates]
    BY <1>0 DEF Shape, PoolTypeOK, RequestStates, ManagerStates
  <2>2. PoolTypeOK'
    BY <1>0, <2>1 DEF SpawnFails, Shape, PoolTypeOK
  <2> QED
    BY <1>0, <2>2 DEF Shape, RequestStates, ManagerStates
<1>2. Mail'
  BY <1>0, MailSame DEF SpawnFails
<1>3. Duty'
  BY <1>0 DEF SpawnFails, Duty
<1>4. Ownership'
  BY <1>0 DEF SpawnFails, Ownership, Owns
<1> QED
  BY <1>1, <1>2, <1>3, <1>4

(* The reply hands the VM over, or nobody waits for it any more.           *)
LEMMA ReplyColdKeeps ==
  ASSUME PoolInv, ReplyCold
  PROVE  PoolInv'
<1>1. Shape'
  <2>0. serving \in Requests /\ vm[Manager] \in VMs
    BY DEF ReplyCold, Duty
  <2>1. /\ at' \in [Takers -> RequestStates \cup ManagerStates]
        /\ \A r \in Requests : at'[r] \in RequestStates
        /\ at'[Manager] = "ready"
    <3>0. at \in [Takers -> RequestStates \cup ManagerStates]
      BY DEF Shape, PoolTypeOK
    <3>1. \/ at' = [at EXCEPT ![Manager] = "ready"]
          \/ at' = [at EXCEPT ![Manager] = "ready", ![serving] = "held"]
      BY DEF ReplyCold
    <3>2. "ready" \in ManagerStates /\ "held" \in RequestStates /\ serving # Manager
      BY <2>0, ManagerAssumption DEF ManagerStates, RequestStates
    <3>3. \A r \in Requests : at[r] \in RequestStates
      BY DEF Shape
    <3> QED
      BY <2>0, <3>0, <3>1, <3>2, <3>3
  <2>2. vm' \in [Takers -> VMs \cup {NoVM}] /\ row' \in [VMs -> {"none", "idle", "busy"}]
    BY <2>0 DEF ReplyCold, Shape, PoolTypeOK
  <2>3. serving' \in Takers
    BY DEF ReplyCold
  <2>4. PoolTypeOK'
    BY <2>1, <2>2, <2>3 DEF ReplyCold, Shape, PoolTypeOK
  <2> QED
    BY <2>1, <2>4 DEF Shape, ManagerStates
<1>2. Mail'
  BY MailSame DEF ReplyCold, Shape, PoolTypeOK, Duty
<1>0. /\ serving \in Requests /\ at[serving] \in {"cold", "gone"} /\ serving' = Manager
      /\ at[Manager] = "mark" /\ vm[Manager] \in VMs
      /\ at'[Manager] = "ready" /\ vm'[Manager] = NoVM
      /\ \A r \in Requests : r # serving => at'[r] = at[r] /\ vm'[r] = vm[r]
      /\ \/ at'[serving] = "held" /\ vm'[serving] = vm[Manager]
         \/ at'[serving] = "gone"
      /\ row' = [row EXCEPT ![vm[Manager]] = "busy"] /\ born' = born
  BY DEF ReplyCold, Shape, PoolTypeOK, Duty
<1>3. Duty'
  BY <1>0 DEF Duty
<1>4. Ownership'
  <2>1. \A v \in VMs : row'[v] = IF v = vm[Manager] THEN "busy" ELSE row[v]
    BY <1>0 DEF Shape, PoolTypeOK
  <2>2. \A r \in Requests :
          Owns(r)' => \/ r # serving /\ Owns(r) /\ vm'[r] = vm[r]
                      \/ r = serving /\ vm'[r] = vm[Manager]
    BY <1>0 DEF Owns
  <2>3. ~Owns(Manager)' /\ Owns(Manager)
    BY <1>0 DEF Owns
  <2>4. \A t \in Takers : Owns(t)' => vm'[t] \in born' /\ row'[vm'[t]] # "idle"
    BY <1>0, <2>1, <2>2, <2>3 DEF Ownership, Shape, PoolTypeOK
  <2>5. \A t, u \in Takers : t # u /\ Owns(t)' /\ Owns(u)' => vm'[t] # vm'[u]
    BY <1>0, <2>2, <2>3 DEF Ownership
  <2> QED
    BY <1>0, <2>1, <2>4, <2>5 DEF Ownership
<1> QED
  BY <1>1, <1>2, <1>3, <1>4

(* handle_cast(release), reusable: the VM passes to the manager.           *)
LEMMA ReleaseReusableKeeps ==
  ASSUME PoolInv, ReleaseReusable
  PROVE  PoolInv'
<1>0. /\ Head(mailbox) \in Messages /\ MailOK(Head(mailbox)) /\ Head(mailbox).type = "release"
      /\ mailbox # << >> /\ mailbox' = Tail(mailbox) /\ Tail(mailbox) \in Seq(Messages)
      /\ at[Manager] = "ready"
  BY Received DEF ReleaseReusable
<1> PICK q \in Requests : q = Head(mailbox).req
  BY <1>0 DEF MailOK
<1>0b. at[q] = "done" /\ vm[q] = Head(mailbox).vm /\ vm[q] \in VMs /\ q # Manager
  BY <1>0 DEF MailOK, Duty
<1>0c. /\ at' = [at EXCEPT ![q] = "idle", ![Manager] = "insert"]
       /\ vm' = [vm EXCEPT ![q] = NoVM, ![Manager] = vm[q]]
       /\ serving' = serving /\ serving = Manager /\ row' = row /\ born' = born
  BY <1>0, <1>0b DEF ReleaseReusable, Duty
<1>0d. in_flight' \in Int /\ slot' \in [Requests -> SlotStates]
  BY DEF ReleaseReusable, Release, Decrement, Shape, PoolTypeOK
<1>0e. /\ at'[q] = "idle" /\ at'[Manager] = "insert" /\ vm'[Manager] = vm[q]
       /\ \A r \in Requests : r # q => at'[r] = at[r] /\ vm'[r] = vm[r]
  BY <1>0b, <1>0c DEF Shape, PoolTypeOK
<1>1. Shape'
  <2>1. /\ at' \in [Takers -> RequestStates \cup ManagerStates]
        /\ vm' \in [Takers -> VMs \cup {NoVM}]
    BY <1>0b, <1>0c, <1>0d, <1>0e DEF Shape, PoolTypeOK, RequestStates, ManagerStates
  <2>2. PoolTypeOK'
    BY <1>0, <1>0b, <1>0c, <1>0d, <1>0e, <2>1 DEF ReleaseReusable, Shape, PoolTypeOK
  <2> QED
    BY <1>0b, <1>0c, <1>0d, <1>0e, <2>2 DEF Shape, RequestStates, ManagerStates
<1>2. Mail'
  BY <1>0, <1>0b, <1>0c, <1>0d, <1>0e, MailTail
<1>3. Duty'
  BY <1>0b, <1>0c, <1>0d, <1>0e DEF Duty
<1>4. Ownership'
  <2>1. ASSUME NEW t \in Takers, Owns(t)'
        PROVE  \E u \in Takers : Owns(u) /\ vm[u] = vm'[t] /\ (t = Manager <=> u = q)
                                 /\ (t # Manager => u = t)
    BY <1>0b, <1>0e, <2>1 DEF Owns
  <2>2. ASSUME NEW t \in Takers, Owns(t)'
        PROVE  vm'[t] \in born' /\ row'[vm'[t]] # "idle"
    <3>1. PICK u \in Takers : Owns(u) /\ vm[u] = vm'[t]
      BY <2>1, <2>2
    <3>2. vm[u] \in born /\ row[vm[u]] # "idle"
      BY <3>1 DEF Ownership
    <3> QED
      BY <1>0c, <3>1, <3>2
  <2>3. \A t, u \in Takers : t # u /\ Owns(t)' /\ Owns(u)' => vm'[t] # vm'[u]
    BY <2>1 DEF Ownership
  <2> QED
    BY <1>0c, <2>2, <2>3 DEF Ownership
<1> QED
  BY <1>1, <1>2, <1>3, <1>4

(* The row goes back as idle.                                              *)
LEMMA InsertIdleKeeps ==
  ASSUME PoolInv, InsertIdle
  PROVE  PoolInv'
<1>1. Shape'
  BY BoundsAssumption DEF InsertIdle, Shape, PoolTypeOK, RequestStates, ManagerStates,
     Duty
<1>2. Mail'
  BY MailSame DEF InsertIdle, Shape, PoolTypeOK, Duty
<1>3. Duty'
  BY <1>1 DEF InsertIdle, Shape, PoolTypeOK, Duty
<1>4. Ownership'
  BY <1>1, <1>3 DEF InsertIdle, Shape, PoolTypeOK, Duty, Ownership, Owns
<1> QED
  BY <1>1, <1>2, <1>3, <1>4

(* The manager lets go of the VM once it is indexed.                       *)
LEMMA InsertIndexKeeps ==
  ASSUME PoolInv, InsertIndex
  PROVE  PoolInv'
<1>1. Shape'
  BY BoundsAssumption DEF InsertIndex, Shape, PoolTypeOK, RequestStates, ManagerStates,
     Duty
<1>2. Mail'
  BY MailSame DEF InsertIndex, Shape, PoolTypeOK, Duty
<1>3. Duty'
  BY <1>1 DEF InsertIndex, Shape, PoolTypeOK, Duty
<1>4. Ownership'
  BY <1>1, <1>3 DEF InsertIndex, Shape, PoolTypeOK, Duty, Ownership, Owns
<1> QED
  BY <1>1, <1>2, <1>3, <1>4

(* handle_cast(release), one_shot: the VM is the manager's to destroy.     *)
LEMMA ReleaseOneShotKeeps ==
  ASSUME PoolInv, ReleaseOneShot
  PROVE  PoolInv'
<1>0. /\ Head(mailbox) \in Messages /\ MailOK(Head(mailbox)) /\ Head(mailbox).type = "release"
      /\ mailbox # << >> /\ mailbox' = Tail(mailbox) /\ Tail(mailbox) \in Seq(Messages)
      /\ at[Manager] = "ready"
  BY Received DEF ReleaseOneShot
<1> PICK q \in Requests : q = Head(mailbox).req
  BY <1>0 DEF MailOK
<1>0b. at[q] = "done" /\ vm[q] = Head(mailbox).vm /\ vm[q] \in VMs /\ q # Manager
  BY <1>0 DEF MailOK, Duty
<1>0c. /\ at' = [at EXCEPT ![q] = "idle", ![Manager] = "destroy"]
       /\ vm' = [vm EXCEPT ![q] = NoVM, ![Manager] = vm[q]]
       /\ serving' = serving /\ serving = Manager /\ row' = row /\ born' = born
  BY <1>0, <1>0b DEF ReleaseOneShot, Duty
<1>0d. in_flight' \in Int /\ slot' \in [Requests -> SlotStates]
  BY DEF ReleaseOneShot, Decrement, Shape, PoolTypeOK
<1>0e. /\ at'[q] = "idle" /\ at'[Manager] = "destroy" /\ vm'[Manager] = vm[q]
       /\ \A r \in Requests : r # q => at'[r] = at[r] /\ vm'[r] = vm[r]
  BY <1>0b, <1>0c DEF Shape, PoolTypeOK
<1>1. Shape'
  <2>1. /\ at' \in [Takers -> RequestStates \cup ManagerStates]
        /\ vm' \in [Takers -> VMs \cup {NoVM}]
    BY <1>0b, <1>0c, <1>0d, <1>0e DEF Shape, PoolTypeOK, RequestStates, ManagerStates
  <2>2. PoolTypeOK'
    BY <1>0, <1>0b, <1>0c, <1>0d, <1>0e, <2>1 DEF ReleaseOneShot, Shape, PoolTypeOK
  <2> QED
    BY <1>0b, <1>0c, <1>0d, <1>0e, <2>2 DEF Shape, RequestStates, ManagerStates
<1>2. Mail'
  BY <1>0, <1>0b, <1>0c, <1>0d, <1>0e, MailTail
<1>3. Duty'
  BY <1>0b, <1>0c, <1>0d, <1>0e DEF Duty
<1>4. Ownership'
  <2>1. ASSUME NEW t \in Takers, Owns(t)'
        PROVE  \E u \in Takers : Owns(u) /\ vm[u] = vm'[t] /\ (t = Manager <=> u = q)
                                 /\ (t # Manager => u = t)
    BY <1>0b, <1>0e, <2>1 DEF Owns
  <2>2. ASSUME NEW t \in Takers, Owns(t)'
        PROVE  vm'[t] \in born' /\ row'[vm'[t]] # "idle"
    <3>1. PICK u \in Takers : Owns(u) /\ vm[u] = vm'[t]
      BY <2>1, <2>2
    <3>2. vm[u] \in born /\ row[vm[u]] # "idle"
      BY <3>1 DEF Ownership
    <3> QED
      BY <1>0c, <3>1, <3>2
  <2>3. \A t, u \in Takers : t # u /\ Owns(t)' /\ Owns(u)' => vm'[t] # vm'[u]
    BY <2>1 DEF Ownership
  <2> QED
    BY <1>0c, <2>2, <2>3 DEF Ownership
<1> QED
  BY <1>1, <1>2, <1>3, <1>4

(* The row of a one-shot VM goes, and its server is stopped.               *)
LEMMA DestroyVMKeeps ==
  ASSUME PoolInv, DestroyVM
  PROVE  PoolInv'
<1>1. Shape'
  BY BoundsAssumption DEF DestroyVM, Shape, PoolTypeOK, RequestStates, ManagerStates, Duty
<1>2. Mail'
  BY MailSame DEF DestroyVM, Shape, PoolTypeOK, Duty
<1>3. Duty'
  BY <1>1 DEF DestroyVM, Shape, PoolTypeOK, Duty
<1>4. Ownership'
  BY <1>1, <1>3 DEF DestroyVM, Shape, PoolTypeOK, Duty, Ownership, Owns
<1> QED
  BY <1>1, <1>2, <1>3, <1>4

(* handle_info(vm_dead): the slot of the holder, if any, is freed.         *)
LEMMA VMDeadKeeps ==
  ASSUME PoolInv, VMDead
  PROVE  PoolInv'
<1>0. /\ Head(mailbox) \in Messages /\ MailOK(Head(mailbox)) /\ Head(mailbox).type = "vm_dead"
      /\ mailbox # << >> /\ mailbox' = Tail(mailbox) /\ Tail(mailbox) \in Seq(Messages)
      /\ at[Manager] = "ready"
  BY Received DEF VMDead
<1>1. Shape'
  BY <1>0, BoundsAssumption DEF VMDead, Decrement, Shape, PoolTypeOK, RequestStates,
     ManagerStates, MailOK, Duty
<1>2. Mail'
  BY <1>0, MailTail DEF VMDead, Decrement, Shape, PoolTypeOK, MailOK
<1>3. Duty'
  BY <1>0, <1>1 DEF VMDead, Decrement, Shape, PoolTypeOK, MailOK, Duty
<1>4. Ownership'
  <2>1. /\ row' = row /\ born' = born /\ ~Owns(Manager)'
        /\ \A r \in Requests : Owns(r)' => Owns(r) /\ vm'[r] = vm[r]
    BY <1>0 DEF VMDead, Shape, PoolTypeOK, MailOK, Owns
  <2> QED
    BY <2>1 DEF Ownership
<1> QED
  BY <1>1, <1>2, <1>3, <1>4

(* The dead VM's row goes ...                                              *)
LEMMA DeleteDeadRowKeeps ==
  ASSUME PoolInv, DeleteDeadRow
  PROVE  PoolInv'
<1>1. Shape'
  BY BoundsAssumption DEF DeleteDeadRow, Shape, PoolTypeOK, RequestStates, ManagerStates,
     Duty
<1>2. Mail'
  BY MailSame DEF DeleteDeadRow, Shape, PoolTypeOK, Duty
<1>3. Duty'
  BY <1>1 DEF DeleteDeadRow, Shape, PoolTypeOK, Duty
<1>4. Ownership'
  BY <1>1, <1>3 DEF DeleteDeadRow, Shape, PoolTypeOK, Duty, Ownership, Owns
<1> QED
  BY <1>1, <1>2, <1>3, <1>4

(* ... and its index entry.                                                *)
LEMMA DeleteDeadIndexKeeps ==
  ASSUME PoolInv, DeleteDeadIndex
  PROVE  PoolInv'
<1>1. Shape'
  BY BoundsAssumption DEF DeleteDeadIndex, Shape, PoolTypeOK, RequestStates,
     ManagerStates, Duty
<1>2. Mail'
  BY MailSame DEF DeleteDeadIndex, Shape, PoolTypeOK, Duty
<1>3. Duty'
  BY <1>1 DEF DeleteDeadIndex, Shape, PoolTypeOK, Duty
<1>4. Ownership'
  BY <1>1, <1>3 DEF DeleteDeadIndex, Shape, PoolTypeOK, Duty, Ownership, Owns
<1> QED
  BY <1>1, <1>2, <1>3, <1>4

(* handle_cast(prewarm) starts the batch.                                  *)
LEMMA PrewarmKeeps ==
  ASSUME PoolInv, Prewarm
  PROVE  PoolInv'
<1>0. /\ Head(mailbox) \in Messages /\ MailOK(Head(mailbox)) /\ Head(mailbox).type = "prewarm"
      /\ mailbox # << >> /\ mailbox' = Tail(mailbox) /\ Tail(mailbox) \in Seq(Messages)
      /\ at[Manager] = "ready"
  BY Received DEF Prewarm
<1>1. Shape'
  BY <1>0, BoundsAssumption DEF Prewarm, Shape, PoolTypeOK, RequestStates, ManagerStates,
     MailOK, Duty
<1>2. Mail'
  BY <1>0, MailTail DEF Prewarm, Shape, PoolTypeOK, MailOK
<1>3. Duty'
  BY <1>0, <1>1 DEF Prewarm, Shape, PoolTypeOK, MailOK, Duty
<1>4. Ownership'
  BY <1>0, <1>1, <1>3 DEF Prewarm, Shape, PoolTypeOK, MailOK, Duty, Ownership, Owns
<1> QED
  BY <1>1, <1>2, <1>3, <1>4

(* One VM of the batch boots; the manager owns it until it is idle.        *)
LEMMA BootEngineKeeps ==
  ASSUME PoolInv, BootEngine
  PROVE  PoolInv'
<1>1. Shape'
  BY BoundsAssumption DEF BootEngine, Shape, PoolTypeOK, RequestStates, ManagerStates,
     Duty
<1>2. Mail'
  BY MailSame DEF BootEngine, Shape, PoolTypeOK, Duty
<1>3. Duty'
  BY <1>1 DEF BootEngine, Shape, PoolTypeOK, Duty
<1>4. Ownership'
  BY <1>1, <1>3 DEF BootEngine, Shape, PoolTypeOK, Duty, Ownership, Owns
<1> QED
  BY <1>1, <1>2, <1>3, <1>4

(* One VM of the batch fails to boot.                                      *)
LEMMA BootFailsKeeps ==
  ASSUME PoolInv, BootFails
  PROVE  PoolInv'
<1>1. Shape'
  BY BoundsAssumption DEF BootFails, Shape, PoolTypeOK, RequestStates, ManagerStates, Duty
<1>2. Mail'
  BY MailSame DEF BootFails, Shape, PoolTypeOK, Duty
<1>3. Duty'
  BY <1>1 DEF BootFails, Shape, PoolTypeOK, Duty
<1>4. Ownership'
  BY <1>1, <1>3 DEF BootFails, Shape, PoolTypeOK, Duty, Ownership, Owns
<1> QED
  BY <1>1, <1>2, <1>3, <1>4

(* handle_cast(retire) picks the victims from the index.                   *)
LEMMA RetireKeeps ==
  ASSUME PoolInv, Retire
  PROVE  PoolInv'
<1>0. /\ Head(mailbox) \in Messages /\ MailOK(Head(mailbox)) /\ Head(mailbox).type = "retire"
      /\ mailbox # << >> /\ mailbox' = Tail(mailbox) /\ Tail(mailbox) \in Seq(Messages)
      /\ at[Manager] = "ready"
  BY Received DEF Retire
<1>1. Shape'
  BY <1>0, BoundsAssumption DEF Retire, OldestIdle, IdleRows, Shape, PoolTypeOK,
     RequestStates, ManagerStates, MailOK, Duty
<1>2. Mail'
  BY <1>0, MailTail DEF Retire, OldestIdle, IdleRows, Shape, PoolTypeOK, MailOK
<1>3. Duty'
  BY <1>0, <1>1 DEF Retire, OldestIdle, IdleRows, Shape, PoolTypeOK, MailOK, Duty
<1>4. Ownership'
  BY <1>0, <1>1, <1>3 DEF Retire, OldestIdle, IdleRows, Shape, PoolTypeOK, MailOK, Duty,
     Ownership, Owns
<1> QED
  BY <1>1, <1>2, <1>3, <1>4

(* A victim's row is deleted, whatever it says by now.                     *)
LEMMA RetireRowKeeps ==
  ASSUME PoolInv, RetireRow
  PROVE  PoolInv'
<1>1. Shape'
  BY BoundsAssumption DEF RetireRow, Shape, PoolTypeOK, RequestStates, ManagerStates, Duty
<1>2. Mail'
  BY MailSame DEF RetireRow, Shape, PoolTypeOK, Duty
<1>3. Duty'
  BY <1>1 DEF RetireRow, Shape, PoolTypeOK, Duty
<1>4. Ownership'
  BY <1>1, <1>3 DEF RetireRow, Shape, PoolTypeOK, Duty, Ownership, Owns
<1> QED
  BY <1>1, <1>2, <1>3, <1>4

(* A victim's index entry is deleted.                                      *)
LEMMA RetireIndexKeeps ==
  ASSUME PoolInv, RetireIndex
  PROVE  PoolInv'
<1>1. Shape'
  BY BoundsAssumption DEF RetireIndex, Shape, PoolTypeOK, RequestStates, ManagerStates,
     Duty
<1>2. Mail'
  BY MailSame DEF RetireIndex, Shape, PoolTypeOK, Duty
<1>3. Duty'
  BY <1>1 DEF RetireIndex, Shape, PoolTypeOK, Duty
<1>4. Ownership'
  BY <1>1, <1>3 DEF RetireIndex, Shape, PoolTypeOK, Duty, Ownership, Owns
<1> QED
  BY <1>1, <1>2, <1>3, <1>4

(* The retired VM is stopped.                                              *)
LEMMA RetireStopKeeps ==
  ASSUME PoolInv, RetireStop
  PROVE  PoolInv'
<1>1. Shape'
  BY BoundsAssumption DEF RetireStop, Shape, PoolTypeOK, RequestStates, ManagerStates,
     Duty
<1>2. Mail'
  BY MailSame DEF RetireStop, Shape, PoolTypeOK, Duty
<1>3. Duty'
  BY <1>1 DEF RetireStop, Shape, PoolTypeOK, Duty
<1>4. Ownership'
  BY <1>1, <1>3 DEF RetireStop, Shape, PoolTypeOK, Duty, Ownership, Owns
<1> QED
  BY <1>1, <1>2, <1>3, <1>4

(* The autoscaler only queues a cast.                                      *)
LEMMA AutoscalerCastKeeps ==
  ASSUME PoolInv, NEW kind \in {"retire", "prewarm"}, AutoscalerCast(kind)
  PROVE  PoolInv'
<1>1. Shape'
  <2>1. PICK n \in 1..MaxBatch : mailbox' = Append(mailbox, Message(kind, Manager, NoVM, n))
    BY DEF AutoscalerCast
  <2>2. Message(kind, Manager, NoVM, n) \in Messages
    BY <2>1, BoundsAssumption DEF Message
  <2>3. mailbox' \in Seq(Messages) /\ casts' \in Nat
    BY <2>1, <2>2 DEF AutoscalerCast, Shape, PoolTypeOK
  <2> QED
    BY <2>3 DEF AutoscalerCast, Shape, PoolTypeOK
<1>2. Mail'
  <2>1. PICK n \in 1..MaxBatch : mailbox' = Append(mailbox, Message(kind, Manager, NoVM, n))
    BY DEF AutoscalerCast
  <2>2. Message(kind, Manager, NoVM, n) \in Messages /\ MailOK(Message(kind, Manager, NoVM, n))'
    BY <2>1, BoundsAssumption DEF Message, MailOK
  <2> QED
    BY <2>1, <2>2, MailAppend DEF AutoscalerCast, Message
<1>3. Duty'
  BY <1>1 DEF AutoscalerCast, Message, Shape, PoolTypeOK, MailOK, Duty
<1>4. Ownership'
  BY <1>1, <1>3 DEF AutoscalerCast, Message, Shape, PoolTypeOK, MailOK, Duty, Ownership,
     Owns
<1> QED
  BY <1>1, <1>2, <1>3, <1>4

(* An engine exits: the notice is from its server, not from a caller.      *)
LEMMA EngineExitKeeps ==
  ASSUME PoolInv, NEW v \in VMs, EngineExit(v)
  PROVE  PoolInv'
<1>1. Shape'
  BY BoundsAssumption DEF EngineExit, Message, Shape, PoolTypeOK, RequestStates,
     ManagerStates, MailOK, Duty
<1>2. Mail'
  <2> DEFINE m == Message("vm_dead", Manager, v, 0)
  <2>1. m \in Messages /\ m.req = Manager
    BY DEF Message, Duty, EngineExit
  <2>2. MailOK(m)'
    BY DEF EngineExit, Message, MailOK, Shape, PoolTypeOK, Duty
  <2>3. mailbox' = Append(mailbox, m)
    BY DEF EngineExit
  <2> HIDE DEF m
  <2> QED
    BY <2>1, <2>2, <2>3, MailAppend DEF EngineExit, Shape, PoolTypeOK
<1>3. Duty'
  BY <1>1 DEF EngineExit, Message, Shape, PoolTypeOK, MailOK, Duty
<1>4. Ownership'
  BY <1>1, <1>3 DEF EngineExit, Message, Shape, PoolTypeOK, MailOK, Duty, Ownership, Owns
<1> QED
  BY <1>1, <1>2, <1>3, <1>4

(* VM.Server.terminate tells the pool.                                     *)
LEMMA ServerTerminateKeeps ==
  ASSUME PoolInv, NEW v \in VMs, ServerTerminate(v)
  PROVE  PoolInv'
<1>1. Shape'
  BY BoundsAssumption DEF ServerTerminate, Message, Shape, PoolTypeOK, RequestStates,
     ManagerStates, MailOK, Duty
<1>2. Mail'
  <2> DEFINE m == Message("vm_dead", Manager, v, 0)
  <2>1. m \in Messages /\ m.req = Manager
    BY DEF Message, Duty, ServerTerminate
  <2>2. MailOK(m)'
    BY DEF ServerTerminate, Message, MailOK, Shape, PoolTypeOK, Duty
  <2>3. mailbox' = Append(mailbox, m)
    BY DEF ServerTerminate
  <2> HIDE DEF m
  <2> QED
    BY <2>1, <2>2, <2>3, MailAppend DEF ServerTerminate, Shape, PoolTypeOK
<1>3. Duty'
  BY <1>1 DEF ServerTerminate, Message, Shape, PoolTypeOK, MailOK, Duty
<1>4. Ownership'
  BY <1>1, <1>3 DEF ServerTerminate, Message, Shape, PoolTypeOK, MailOK, Duty, Ownership,
     Owns
<1> QED
  BY <1>1, <1>2, <1>3, <1>4

(* The expired VM's server stops.                                          *)
LEMMA StopExpiredKeeps ==
  ASSUME PoolInv, NEW v \in VMs, StopExpired(v)
  PROVE  PoolInv'
<1>1. Shape'
  BY BoundsAssumption DEF StopExpired, Shape, PoolTypeOK, RequestStates, ManagerStates,
     Duty
<1>2. Mail'
  BY MailSame DEF StopExpired, Shape, PoolTypeOK, Duty
<1>3. Duty'
  BY <1>1 DEF StopExpired, Shape, PoolTypeOK, Duty
<1>4. Ownership'
  BY <1>1, <1>3 DEF StopExpired, Shape, PoolTypeOK, Duty, Ownership, Owns
<1> QED
  BY <1>1, <1>2, <1>3, <1>4
-----------------------------------------------------------------------------
(* The pool starts empty, with everybody at home.                          *)
LEMMA InitHasPoolInv == PoolInit => PoolInv
<1> USE ManagerAssumption, NoVMAssumption DEF PoolInit, QuotaInit, Takers
<1>1. PoolInit => Shape
  BY DEF Shape, PoolTypeOK, SlotStates, RequestStates, ManagerStates
<1>2. PoolInit => Mail
  BY DEF Mail
<1>3. PoolInit => Duty
  BY DEF Duty, ColdStates, ManagerHas, RequestHas
<1>4. PoolInit => Ownership
  BY DEF Ownership, Owns
<1> QED  BY <1>1, <1>2, <1>3, <1>4 DEF PoolInv

(* Every step keeps PoolInv: one lemma per action, above.                  *)
LEMMA NextKeepsPoolInv == PoolInv /\ [PoolNext]_poolVars => PoolInv'
<1> SUFFICES ASSUME PoolInv, [PoolNext]_poolVars PROVE PoolInv'
  OBVIOUS
<1>1. ASSUME NEW t \in Takers, TakeStep(t) PROVE PoolInv'
  BY <1>1, LookupIndexKeeps, TakeCandidateKeeps, KeepCandidateKeeps, ExpireCandidateKeeps,
     DropCandidateKeeps DEF TakeStep
<1>2. ASSUME NEW r \in Requests,
             Acquire(r) \/ AcquireStep(r) \/ CallTimeout(r) \/ EndStep(r)
      PROVE  PoolInv'
  <2>1. r \in Takers
    BY DEF Takers
  <2> QED
    BY <1>1, <1>2, <2>1, AcquireKeeps, RefuseKeeps, MarkBusyKeeps, CallManagerKeeps,
       CallTimeoutKeeps, ReleaseVMKeeps, StopVMKeeps DEF AcquireStep, EndStep
<1>3. ASSUME ManagerStep PROVE PoolInv'
  <2>1. Manager \in Takers
    BY DEF Takers
  <2>2. CASE \/ AcquireCold \/ TakeStep(Manager) \/ NoneIdle \/ SpawnVM \/ SpawnFails
             \/ ReplyCold \/ ReleaseReusable \/ InsertIdle \/ InsertIndex
             \/ ReleaseOneShot \/ DestroyVM
    BY <1>1, <2>1, <2>2, AcquireColdKeeps, NoneIdleKeeps, SpawnVMKeeps, SpawnFailsKeeps,
       ReplyColdKeeps, ReleaseReusableKeeps, InsertIdleKeeps, InsertIndexKeeps,
       ReleaseOneShotKeeps, DestroyVMKeeps
  <2>3. CASE \/ VMDead \/ DeleteDeadRow \/ DeleteDeadIndex
             \/ Prewarm \/ BootEngine \/ BootFails
             \/ Retire \/ RetireRow \/ RetireIndex \/ RetireStop
    BY <2>3, VMDeadKeeps, DeleteDeadRowKeeps, DeleteDeadIndexKeeps, PrewarmKeeps,
       BootEngineKeeps, BootFailsKeeps, RetireKeeps, RetireRowKeeps, RetireIndexKeeps,
       RetireStopKeeps
  <2> QED
    BY <1>3, <2>2, <2>3 DEF ManagerStep
<1>4. ASSUME AutoscalerCast("retire") \/ AutoscalerCast("prewarm") PROVE PoolInv'
  BY <1>4, AutoscalerCastKeeps
<1>5. ASSUME NEW v \in VMs, VMStep(v) PROVE PoolInv'
  BY <1>5, EngineExitKeeps, ServerTerminateKeeps, StopExpiredKeeps DEF VMStep
<1>6. CASE UNCHANGED poolVars
  BY <1>6 DEF poolVars, PoolInv, Shape, PoolTypeOK, Mail, MailOK, Duty, Ownership, Owns
<1> QED
  BY <1>2, <1>3, <1>4, <1>5, <1>6 DEF PoolNext

(* PoolInv is an invariant of the pool.                                    *)
LEMMA PoolInvariant == PoolSpec => []PoolInv
BY InitHasPoolInv, NextKeepsPoolInv, PTL DEF PoolSpec

(* The pool table, the index, the takers, the queue and the counters keep  *)
(* their types through every handler of the manager and every caller.      *)
THEOREM PoolTyped == PoolSpec => []PoolTypeOK
<1>1. PoolInv => PoolTypeOK
  BY DEF Shape
<1> QED
  BY PoolInvariant, <1>1, PTL

(* Whatever candidates, retires, deaths, timeouts and stale index entries  *)
(* interleave (take_candidate/2, acquire_cold, release, retire, vm_dead),  *)
(* no VM is ever in the hands of two requests.                             *)
THEOREM PoolExclusive == PoolSpec => []ExclusiveHold
<1>1. PoolInv => ExclusiveHold
  BY DEF Ownership, Owns, ExclusiveHold, Holding
<1> QED
  BY PoolInvariant, <1>1, PTL
-----------------------------------------------------------------------------
(* IdleIndexed.  A taker deletes the index entry <<vm, vts>> it lost, won  *)
(* or retired some steps ago.  Stamps bounds every timestamp by `now`, so  *)
(* that an insertion has a new one; Stale says that a taker's entry is     *)
(* older than the row, should the VM be idle again by then.                *)
Stamps ==
  /\ \A v \in VMs : ts[v] <= now
  /\ \A e \in idx : e[2] <= now
  /\ \A t \in Takers : vts[t] <= now /\ \A e \in cands[t] : e[2] <= now
  /\ \A e \in victims : e[2] <= now

Deleting == {"won", "lost", "retire_idx"}

Stale ==
  /\ \A t \in Takers : at[t] \in Deleting /\ row[vm[t]] = "idle" => vts[t] < ts[vm[t]]
  /\ at[Manager] = "dead_idx" => row[vm[Manager]] # "idle"

IndexInv == Stamps /\ Stale /\ IdleIndexed

(* A row is removed or marked busy under the takers: Stale holds on.       *)
LEMMA StaleKept ==
  ASSUME PoolInv, Stale, NEW v \in VMs, NEW state \in {"none", "busy"},
         row' = [row EXCEPT ![v] = state], UNCHANGED ts,
         \A t \in Takers : at'[t] \in Deleting \cup {"dead_idx"} =>
           \/ vm'[t] = v
           \/ at'[t] = at[t] /\ vm'[t] = vm[t] /\ vts'[t] = vts[t]
  PROVE  Stale'
<1>1. \A t \in Takers : at[t] \in Deleting \cup {"dead_idx"} => vm[t] \in VMs
  BY DEF Duty, Shape, RequestStates, Deleting
<1> QED
  BY <1>1 DEF Stale, Shape, PoolTypeOK, Deleting

(* A step that leaves the tables, the takers and the victims alone.        *)
LEMMA IndexKept ==
  ASSUME IndexInv, UNCHANGED <<row, ts, idx, now, at, cands, vm, vts, victims>>
  PROVE  IndexInv'
<1>1. Stamps'
  BY DEF IndexInv, Stamps
<1>2. Stale'
  BY DEF IndexInv, Stale, Deleting
<1>3. IdleIndexed'
  BY DEF IndexInv, IdleIndexed, IdleRows
<1> QED
  BY <1>1, <1>2, <1>3 DEF IndexInv

(* Every step keeps the index in order: one step per action.               *)
LEMMA NextKeepsIndexInv ==
  ASSUME PoolInv, IndexInv, [PoolNext]_poolVars
  PROVE  IndexInv'
<1> USE DEF Shape, PoolTypeOK, IndexInv, Stamps, Stale, IdleIndexed, IdleRows, Deleting
<1>1. ASSUME NEW t \in Takers, LookupIndex(t) PROVE IndexInv'
  BY <1>1 DEF LookupIndex, Duty, Ownership, Owns, MailOK
<1>2. ASSUME NEW t \in Takers, TakeCandidate(t) PROVE IndexInv'
  <2> USE <1>2
  <2>1. PICK c \in cands[t] :
          /\ vm' = [vm EXCEPT ![t] = c[1]] /\ row' = [row EXCEPT ![c[1]] = "none"]
          /\ at' = [at EXCEPT ![t] = IF row[c[1]] = "idle" THEN "won" ELSE "lost"]
          /\ vts' = [vts EXCEPT ![t] = c[2]] /\ ts' = ts
    BY DEF TakeCandidate
  <2>2. c[1] \in VMs
    OBVIOUS
  <2>3. Stale'
    BY <2>1, <2>2, StaleKept
  <2>4. Stamps' /\ IdleIndexed'
    BY DEF TakeCandidate
  <2> QED
    BY <2>3, <2>4
<1>3. ASSUME NEW t \in Takers, KeepCandidate(t) PROVE IndexInv'
  BY <1>3 DEF KeepCandidate, Duty, Ownership, Owns, MailOK
<1>4. ASSUME NEW t \in Takers, ExpireCandidate(t) PROVE IndexInv'
  BY <1>4 DEF ExpireCandidate, Duty, Ownership, Owns, MailOK
<1>5. ASSUME NEW t \in Takers, DropCandidate(t) PROVE IndexInv'
  BY <1>5 DEF DropCandidate, Duty, Ownership, Owns, MailOK
<1>6. ASSUME NEW r \in Requests, Acquire(r) PROVE IndexInv'
  BY <1>6 DEF Acquire, ReserveBump, Duty, Ownership, Owns, MailOK
<1>7. ASSUME NEW r \in Requests, Refuse(r) PROVE IndexInv'
  BY <1>7 DEF Refuse, ReserveUndo, Duty, Ownership, Owns, MailOK
<1>8. ASSUME NEW r \in Requests, MarkBusy(r) PROVE IndexInv'
  BY <1>8 DEF MarkBusy, Duty, Ownership, Owns, MailOK
<1>9. ASSUME NEW r \in Requests, CallManager(r) PROVE IndexInv'
  BY <1>9 DEF CallManager, Duty, Ownership, Owns, MailOK
<1>10. ASSUME NEW r \in Requests, CallTimeout(r) PROVE IndexInv'
  BY <1>10 DEF CallTimeout, Duty, Ownership, Owns, MailOK
<1>11. ASSUME NEW r \in Requests, ReleaseVM(r) PROVE IndexInv'
  BY <1>11 DEF ReleaseVM, Duty, Ownership, Owns, MailOK
<1>12. ASSUME NEW r \in Requests, StopVM(r) PROVE IndexInv'
  BY <1>12 DEF StopVM, Duty, Ownership, Owns, MailOK
<1>13. ASSUME AcquireCold PROVE IndexInv'
  BY <1>13, Received DEF AcquireCold, Receive, Duty, Ownership, Owns, MailOK
<1>14. ASSUME NoneIdle PROVE IndexInv'
  BY <1>14 DEF NoneIdle, Duty, Ownership, Owns, MailOK
<1>15. ASSUME SpawnVM PROVE IndexInv'
  BY <1>15 DEF SpawnVM, Duty, Ownership, Owns, MailOK
<1>16. ASSUME SpawnFails PROVE IndexInv'
  BY <1>16 DEF SpawnFails, Release, Duty, Ownership, Owns, MailOK
<1>17. ASSUME ReplyCold PROVE IndexInv'
  <2> USE <1>17
  <2>1. PICK v \in VMs : v = vm[Manager]
    BY DEF ReplyCold, Duty
  <2>2. \A t \in Takers : at'[t] \in Deleting \cup {"dead_idx"} =>
          at'[t] = at[t] /\ vm'[t] = vm[t] /\ vts'[t] = vts[t]
    BY DEF ReplyCold, Duty, RequestStates
  <2>3. row' = [row EXCEPT ![v] = "busy"] /\ UNCHANGED ts
    BY <2>1 DEF ReplyCold
  <2>4. Stale'
    BY <2>2, <2>3, StaleKept
  <2>5. Stamps' /\ IdleIndexed'
    BY DEF ReplyCold, Duty
  <2> QED
    BY <2>4, <2>5
<1>18. ASSUME ReleaseReusable PROVE IndexInv'
  BY <1>18, Received DEF ReleaseReusable, Receive, Duty, Ownership, Owns, MailOK
<1>19. ASSUME InsertIdle PROVE IndexInv'
  BY <1>19 DEF InsertIdle, Duty, Ownership, Owns, MailOK
<1>20. ASSUME InsertIndex PROVE IndexInv'
  BY <1>20 DEF InsertIndex, Duty, Ownership, Owns, MailOK
<1>21. ASSUME ReleaseOneShot PROVE IndexInv'
  BY <1>21, Received DEF ReleaseOneShot, Receive, Duty, Ownership, Owns, MailOK
<1>22. ASSUME DestroyVM PROVE IndexInv'
  <2> USE <1>22
  <2>1. PICK v \in VMs : v = vm[Manager]
    BY DEF DestroyVM, Duty
  <2>2. Stale'
    BY <2>1, StaleKept DEF DestroyVM, Duty
  <2>3. Stamps' /\ IdleIndexed'
    BY DEF DestroyVM, Duty
  <2> QED
    BY <2>2, <2>3
<1>23. ASSUME VMDead PROVE IndexInv'
  BY <1>23, Received DEF VMDead, Receive, Duty, Ownership, Owns, MailOK
<1>24. ASSUME DeleteDeadRow PROVE IndexInv'
  BY <1>24 DEF DeleteDeadRow, Duty, Ownership, Owns, MailOK
<1>25. ASSUME DeleteDeadIndex PROVE IndexInv'
  BY <1>25 DEF DeleteDeadIndex, Duty, Ownership, Owns, MailOK
<1>26. ASSUME Prewarm PROVE IndexInv'
  BY <1>26, Received DEF Prewarm, Receive, Duty, Ownership, Owns, MailOK
<1>27. ASSUME BootEngine PROVE IndexInv'
  BY <1>27 DEF BootEngine, Duty, Ownership, Owns, MailOK
<1>28. ASSUME BootFails PROVE IndexInv'
  BY <1>28 DEF BootFails, Duty, Ownership, Owns, MailOK
<1>29. ASSUME Retire PROVE IndexInv'
  BY <1>29, Received, SMTT(30) DEF Retire, Receive, Duty, Ownership, Owns, MailOK
<1>30. ASSUME RetireRow PROVE IndexInv'
  <2> USE <1>30
  <2>1. PICK e \in victims :
          /\ vm' = [vm EXCEPT ![Manager] = e[1]] /\ row' = [row EXCEPT ![e[1]] = "none"]
          /\ at' = [at EXCEPT ![Manager] = "retire_idx"]
          /\ vts' = [vts EXCEPT ![Manager] = e[2]] /\ ts' = ts
    BY DEF RetireRow
  <2>2. e[1] \in VMs
    OBVIOUS
  <2>3. Stale'
    BY <2>1, <2>2, StaleKept
  <2>4. Stamps' /\ IdleIndexed'
    BY DEF RetireRow
  <2> QED
    BY <2>3, <2>4
<1>31. ASSUME RetireIndex PROVE IndexInv'
  BY <1>31 DEF RetireIndex, Duty, Ownership, Owns, MailOK
<1>32. ASSUME RetireStop PROVE IndexInv'
  BY <1>32 DEF RetireStop, Duty, Ownership, Owns, MailOK
<1>33. ASSUME NEW v \in VMs, EngineExit(v) PROVE IndexInv'
  BY <1>33 DEF EngineExit, Duty, Ownership, Owns, MailOK
<1>34. ASSUME NEW v \in VMs, ServerTerminate(v) PROVE IndexInv'
  BY <1>34 DEF ServerTerminate, Duty, Ownership, Owns, MailOK
<1>35. ASSUME NEW v \in VMs, StopExpired(v) PROVE IndexInv'
  BY <1>35 DEF StopExpired, Duty, Ownership, Owns, MailOK
<1> HIDE DEF IndexInv
<1>36. ASSUME AutoscalerCast("retire") \/ AutoscalerCast("prewarm") PROVE IndexInv'
  <2>1. UNCHANGED <<row, ts, idx, now, at, cands, vm, vts, victims>>
    BY <1>36 DEF AutoscalerCast, tableVars, takerVars
  <2> QED
    BY <2>1, IndexKept
<1>37. CASE UNCHANGED poolVars
  <2>1. UNCHANGED <<row, ts, idx, now, at, cands, vm, vts, victims>>
    BY <1>37 DEF poolVars, tableVars, takerVars, managerVars
  <2> QED
    BY <2>1, IndexKept
<1>38. ASSUME NEW t \in Takers, TakeStep(t) PROVE IndexInv'
  BY <1>38, <1>1, <1>2, <1>3, <1>4, <1>5 DEF TakeStep
<1>39. ASSUME NEW r \in Requests,
              Acquire(r) \/ AcquireStep(r) \/ CallTimeout(r) \/ EndStep(r)
       PROVE  IndexInv'
  BY <1>39, <1>38, <1>6, <1>7, <1>8, <1>9, <1>10, <1>11, <1>12 DEF AcquireStep, EndStep
<1>40. CASE ManagerStep
  BY <1>40, <1>38, <1>13, <1>14, <1>15, <1>16, <1>17, <1>18, <1>19, <1>20, <1>21, <1>22,
     <1>23, <1>24, <1>25, <1>26, <1>27, <1>28, <1>29, <1>30, <1>31, <1>32 DEF ManagerStep
<1> QED
  BY <1>39, <1>40, <1>33, <1>34, <1>35, <1>36, <1>37 DEF PoolNext, VMStep

(* Losers of races delete index entries by value (take_candidate,          *)
(* remove_from_idx), yet an idle VM's own entry is always there: no VM is  *)
(* lost to the pool.                                                       *)
THEOREM PoolIndexed == PoolSpec => []IdleIndexed
<1>1. PoolInit => IndexInv
  BY DEF PoolInit, IndexInv, Stamps, Stale, Deleting, IdleIndexed, IdleRows
<1>2. PoolInv /\ IndexInv /\ [PoolNext]_poolVars => IndexInv'
  BY NextKeepsIndexInv
<1>3. IndexInv => IdleIndexed
  BY DEF IndexInv
<1> QED
  BY PoolInvariant, <1>1, <1>2, <1>3, PTL DEF PoolSpec
-----------------------------------------------------------------------------
(* NoSlotLeak and NoOverAdmission: who frees a slot, and when.             *)

(* Who tells the pool of a dead VM: a caller that stopped it, or the VM's own server. *)
Notice(m) ==
  m.type = "vm_dead" =>
    \/ m.req \in Requests /\ "stop" \in Endings
    \/ m.req = Manager /\ "death" \in FaultKinds

Notices ==
  /\ \A i \in 1..Len(mailbox) : Notice(mailbox[i])
  /\ "death" \notin FaultKinds => exiting = {}

(* A step that leaves the queue alone keeps Notices, ...                   *)
LEMMA NoticesSame ==
  ASSUME Notices, mailbox' = mailbox, exiting' = exiting
  PROVE  Notices'
BY DEF Notices, Notice

(* ... so does one that takes the head of it, ...                          *)
LEMMA NoticesTail ==
  ASSUME PoolInv, Notices, mailbox # << >>, mailbox' = Tail(mailbox), exiting' = exiting
  PROVE  Notices'
<1>1. mailbox \in Seq(Messages) /\ Len(mailbox) > 0
  BY DEF Shape, PoolTypeOK
<1>2. \A i \in 1..Len(mailbox') : mailbox'[i] = mailbox[i + 1] /\ i + 1 \in 1..Len(mailbox)
  BY <1>1
<1> QED
  BY <1>2 DEF Notices, Notice

(* ... and one that queues a message whose sender may send it.             *)
LEMMA NoticesAppend ==
  ASSUME PoolInv, Notices, NEW m, mailbox' = Append(mailbox, m), Notice(m),
         "death" \notin FaultKinds => exiting' = {}
  PROVE  Notices'
<1>1. mailbox \in Seq(Messages)
  BY DEF Shape, PoolTypeOK
<1>2. /\ Len(mailbox') = Len(mailbox) + 1
      /\ \A i \in 1..Len(mailbox) : mailbox'[i] = mailbox[i]
      /\ mailbox'[Len(mailbox) + 1] = m
  BY <1>1
<1> QED
  BY <1>1, <1>2 DEF Notices, Notice

(* Every step keeps Notices: the senders of vm_dead are the only ones.     *)
LEMMA NextKeepsNotices ==
  ASSUME PoolInv, Notices, [PoolNext]_poolVars
  PROVE  Notices'
<1>1. ASSUME NEW t \in Takers, TakeStep(t) PROVE Notices'
  BY <1>1, NoticesSame
  DEF TakeStep, LookupIndex, TakeCandidate, KeepCandidate, ExpireCandidate, DropCandidate
<1>2. ASSUME NEW r \in Requests, Acquire(r) \/ Refuse(r) \/ MarkBusy(r) \/ CallTimeout(r)
      PROVE  Notices'
  BY <1>2, NoticesSame DEF Acquire, Refuse, MarkBusy, CallTimeout
<1>3. ASSUME NEW r \in Requests, CallManager(r) \/ EndStep(r) PROVE Notices'
  BY <1>3, NoticesAppend DEF CallManager, EndStep, ReleaseVM, StopVM, Message, Notice, Notices
<1>4. ASSUME AcquireCold \/ ReleaseReusable \/ ReleaseOneShot \/ VMDead \/ Prewarm \/ Retire
      PROVE  Notices'
  BY <1>4, NoticesTail
  DEF AcquireCold, ReleaseReusable, ReleaseOneShot, VMDead, Prewarm, Retire, Receive
<1>5. ASSUME \/ NoneIdle \/ SpawnVM \/ SpawnFails \/ ReplyCold \/ InsertIdle \/ InsertIndex
             \/ DestroyVM \/ DeleteDeadRow \/ DeleteDeadIndex \/ BootEngine \/ BootFails
             \/ RetireRow \/ RetireIndex \/ RetireStop
      PROVE  Notices'
  BY <1>5, NoticesSame
  DEF NoneIdle, SpawnVM, SpawnFails, ReplyCold, InsertIdle, InsertIndex, DestroyVM,
      DeleteDeadRow, DeleteDeadIndex, BootEngine, BootFails, RetireRow, RetireIndex, RetireStop
<1>6. ASSUME AutoscalerCast("retire") \/ AutoscalerCast("prewarm") PROVE Notices'
  BY <1>6, NoticesAppend DEF AutoscalerCast, Message, Notice, Notices
<1>7. ASSUME NEW v \in VMs, VMStep(v) PROVE Notices'
  <2>1. CASE EngineExit(v)
    BY <2>1, NoticesAppend DEF EngineExit, Message, Notice, Notices
  <2>2. CASE ServerTerminate(v)
    BY <2>2, NoticesAppend DEF ServerTerminate, Message, Notice, Notices
  <2>3. CASE StopExpired(v)
    BY <2>3, NoticesSame DEF StopExpired
  <2> QED
    BY <1>7, <2>1, <2>2, <2>3 DEF VMStep
<1>8. CASE UNCHANGED poolVars
  BY <1>8, NoticesSame DEF poolVars
<1> QED
  BY <1>1, <1>2, <1>3, <1>4, <1>5, <1>6, <1>7, <1>8 DEF PoolNext, AcquireStep, ManagerStep

-----------------------------------------------------------------------------
(* How the counter and the reservations change together.                   *)

(* The reservations are counted by a natural number.                       *)
LEMMA ReservedFinite ==
  /\ IsFiniteSet(Reserved) /\ Cardinality(Reserved) \in Nat
  /\ IsFiniteSet(Admitted) /\ Cardinality(Admitted) \in Nat
  /\ Cardinality(Admitted) <= Cardinality(Reserved)
<1>1. Reserved \subseteq Requests /\ Admitted \subseteq Reserved
  BY DEF Reserved, Admitted
<1>2. IsFiniteSet(Reserved)
  BY <1>1, FS_Subset, RequestsAssumption
<1> QED
  BY <1>1, <1>2, FS_Subset, FS_CardinalityType

(* A slot is added, or none, ...                                           *)
LEMMA ReservedGrows ==
  ASSUME NEW r \in Requests, slot \in [Requests -> SlotStates], slot[r] = "none",
         NEW s \in {"over", "admitted"}, slot' = [slot EXCEPT ![r] = s]
  PROVE  Cardinality(Reserved') = Cardinality(Reserved) + 1
<1>1. r \notin Reserved /\ Reserved' = Reserved \cup {r}
  BY DEF Reserved
<1> QED
  BY <1>1, ReservedFinite, FS_AddElement

(* ... or one is dropped, if it was there.                                 *)
LEMMA ReservedShrinks ==
  ASSUME NEW r \in Requests, Reserved' = Reserved \ {r}
  PROVE  /\ Cardinality(Reserved') \in Nat
         /\ Cardinality(Reserved') >= Cardinality(Reserved) - 1
         /\ r \notin Reserved => Cardinality(Reserved') = Cardinality(Reserved)
         /\ r \in Reserved =>
              Cardinality(Reserved') = Cardinality(Reserved) - 1 /\ Cardinality(Reserved) >= 1
<1>1. CASE r \in Reserved
  <2>1. Cardinality(Reserved') = Cardinality(Reserved) - 1
    BY <1>1, ReservedFinite, FS_RemoveElement
  <2>2. Cardinality(Reserved) # 0
    BY <1>1, ReservedFinite, FS_EmptySet
  <2> QED
    BY <1>1, <2>1, <2>2, ReservedFinite
<1>2. CASE r \notin Reserved
  <2>1. Reserved' = Reserved
    BY <1>2
  <2> QED
    BY <1>2, <2>1, ReservedFinite
<1> QED
  BY <1>1, <1>2

(* Giving up an admission cannot exceed the cap.                           *)
LEMMA AdmittedShrinks ==
  ASSUME Admitted' \subseteq Admitted, CapRespected
  PROVE  CapRespected'
<1>1. Cardinality(Admitted') <= Cardinality(Admitted) /\ Cardinality(Admitted') \in Nat
  BY ReservedFinite, FS_Subset, FS_CardinalityType
<1> QED
  BY <1>1, ReservedFinite, CapAssumption DEF CapRespected

(* Every step that touches the counter bumps it, undoes a bump, releases a slot, or *)
(* gives back the slot of a VM whose row says busy.                        *)
LEMMA QuotaSteps ==
  ASSUME PoolInv, [PoolNext]_poolVars
  PROVE  \/ UNCHANGED <<in_flight, slot>>
         \/ \E r \in Requests : Acquire(r) \/ Refuse(r)
         \/ SpawnFails \/ ReleaseReusable \/ ReleaseOneShot \/ VMDead
<1>1. ASSUME NEW t \in Takers, TakeStep(t) PROVE UNCHANGED <<in_flight, slot>>
  BY <1>1
  DEF TakeStep, LookupIndex, TakeCandidate, KeepCandidate, ExpireCandidate, DropCandidate
<1>2. ASSUME NEW r \in Requests, MarkBusy(r) \/ CallTimeout(r) \/ CallManager(r) \/ EndStep(r)
      PROVE  UNCHANGED <<in_flight, slot>>
  BY <1>2 DEF MarkBusy, CallTimeout, CallManager, EndStep, ReleaseVM, StopVM
<1>3. ASSUME \/ AcquireCold \/ Prewarm \/ Retire
             \/ NoneIdle \/ SpawnVM \/ ReplyCold \/ InsertIdle \/ InsertIndex
             \/ DestroyVM \/ DeleteDeadRow \/ DeleteDeadIndex \/ BootEngine \/ BootFails
             \/ RetireRow \/ RetireIndex \/ RetireStop
      PROVE  UNCHANGED <<in_flight, slot>>
  BY <1>3
  DEF AcquireCold, Prewarm, Retire, NoneIdle, SpawnVM, ReplyCold, InsertIdle, InsertIndex, DestroyVM,
      DeleteDeadRow, DeleteDeadIndex, BootEngine, BootFails, RetireRow, RetireIndex, RetireStop
<1>4. ASSUME NEW v \in VMs,
             AutoscalerCast("retire") \/ AutoscalerCast("prewarm") \/ VMStep(v)
      PROVE  UNCHANGED <<in_flight, slot>>
  BY <1>4 DEF AutoscalerCast, VMStep, EngineExit, ServerTerminate, StopExpired
<1>5. ASSUME AutoscalerCast("retire") \/ AutoscalerCast("prewarm")
      PROVE  UNCHANGED <<in_flight, slot>>
  BY <1>5 DEF AutoscalerCast
<1>6. CASE UNCHANGED poolVars
  BY <1>6 DEF poolVars
<1> QED
  BY <1>1, <1>2, <1>3, <1>4, <1>5, <1>6 DEF PoolNext, AcquireStep, ManagerStep

(* What each of them does to the reservations.                             *)
LEMMA AcquireCounts ==
  ASSUME PoolInv, NEW r \in Requests, Acquire(r)
  PROVE  /\ in_flight' = in_flight + 1
         /\ Cardinality(Reserved') = Cardinality(Reserved) + 1
BY ReservedGrows DEF Acquire, ReserveBump, Shape, PoolTypeOK

(* reserve undoes its bump: both go down by one.                           *)
LEMMA RefuseCounts ==
  ASSUME PoolInv, NEW r \in Requests, Refuse(r)
  PROVE  /\ in_flight' = in_flight - 1
         /\ Cardinality(Reserved') = Cardinality(Reserved) - 1
<1>1. r \in Reserved /\ Reserved' = Reserved \ {r}
  BY DEF Refuse, ReserveUndo, Shape, PoolTypeOK, Reserved
<1> QED
  BY <1>1, ReservedShrinks DEF Refuse, ReserveUndo

(* A failed spawn frees the slot of the caller it served.                  *)
LEMMA SpawnFailsCounts ==
  ASSUME PoolInv, SpawnFails
  PROVE  /\ serving \in Requests /\ at[serving] \in {"cold", "gone"}
         /\ in_flight' = Decrement(in_flight) /\ Reserved' = Reserved \ {serving}
         /\ Admitted' \subseteq Admitted
<1>1. serving \in Requests /\ at[serving] \in {"cold", "gone"}
  BY DEF SpawnFails, Duty
<1> QED
  BY <1>1 DEF SpawnFails, Release, Shape, PoolTypeOK, Reserved, Admitted

(* A release frees the slot of the request that sent it.                   *)
LEMMA ReleaseReusableCounts ==
  ASSUME PoolInv, ReleaseReusable
  PROVE  LET r == Head(mailbox).req IN
         /\ r \in Requests /\ at[r] = "done"
         /\ in_flight' = Decrement(in_flight) /\ Reserved' = Reserved \ {r}
         /\ Admitted' \subseteq Admitted
<1>1. Head(mailbox).req \in Requests /\ at[Head(mailbox).req] = "done"
  BY Received DEF ReleaseReusable, MailOK
<1> QED
  BY <1>1 DEF ReleaseReusable, Release, Shape, PoolTypeOK, Reserved, Admitted

(* A one-shot release: the counter goes down only if the row was busy.     *)
LEMMA ReleaseOneShotCounts ==
  ASSUME PoolInv, ReleaseOneShot
  PROVE  LET r == Head(mailbox).req IN
         /\ r \in Requests /\ at[r] = "done" /\ OneShot
         /\ in_flight' \in {in_flight, Decrement(in_flight)} /\ Reserved' = Reserved \ {r}
         /\ Admitted' \subseteq Admitted
<1>1. Head(mailbox).req \in Requests /\ at[Head(mailbox).req] = "done"
  BY Received DEF ReleaseOneShot, MailOK
<1> QED
  BY <1>1 DEF ReleaseOneShot, Shape, PoolTypeOK, Reserved, Admitted

(* A VM dies: the counter goes down only if the row is busy, and then one holder at *)
(* most loses its slot with it.                                            *)
LEMMA VMDeadCounts ==
  ASSUME PoolInv, VMDead
  PROVE  LET m == Head(mailbox) IN
         /\ m.type = "vm_dead" /\ m.req \in Takers
         /\ m.req \in Requests => at[m.req] = "done"
         /\ in_flight' = IF row[m.vm] = "busy" THEN Decrement(in_flight) ELSE in_flight
         /\ m.req \in Requests => Reserved' = Reserved \ {m.req}
         /\ m.req = Manager =>
              \/ Reserved' = Reserved
              \/ row[m.vm] = "busy" /\ \E r \in Requests : Reserved' = Reserved \ {r}
         /\ Admitted' \subseteq Admitted
<1> DEFINE m == Head(mailbox)
           freed == IF row[m.vm] = "busy"
                    THEN {r \in Requests : Holding(r) /\ vm[r] = m.vm} ELSE {}
           done == Requests \cap {m.req}
<1>1. /\ m \in Messages /\ m.type = "vm_dead" /\ MailOK(m)
      /\ m.req \in Requests => at[m.req] = "done" /\ vm[m.req] = m.vm
  BY Received DEF VMDead, MailOK
<1>2. /\ in_flight' = IF row[m.vm] = "busy" THEN Decrement(in_flight) ELSE in_flight
      /\ slot' = [r \in Requests |-> IF r \in freed \cup done THEN "none" ELSE slot[r]]
  BY DEF VMDead
<1>3. \A r, s \in freed : r = s
  BY DEF Ownership, Owns, Holding
<1>4. m.req \in Requests => freed \subseteq {m.req}
  BY <1>1, <1>3 DEF Holding
<1>5. Reserved' = Reserved \ (freed \cup done) /\ Admitted' \subseteq Admitted
  BY <1>2 DEF Reserved, Admitted, Shape, PoolTypeOK
<1>6. freed = {} \/ (row[m.vm] = "busy" /\ \E r \in Requests : freed = {r})
  BY <1>3
<1> HIDE DEF m, freed
<1>7. m.req \in Requests => Reserved' = Reserved \ {m.req}
  BY <1>4, <1>5
<1>8. m.req = Manager =>
        \/ Reserved' = Reserved
        \/ row[m.vm] = "busy" /\ \E r \in Requests : Reserved' = Reserved \ {r}
  BY <1>5, <1>6
<1> QED
  BY <1>1, <1>2, <1>5, <1>7, <1>8 DEF m

-----------------------------------------------------------------------------
(* The counter never runs ahead of the reservations.                       *)
LEMMA LeakStep ==
  ASSUME PoolInv, Notices, NoSlotLeak, [PoolNext]_poolVars
  PROVE  NoSlotLeak'
<1> SUFFICES ASSUME Endings = {"release"}, ~ OneShot
             PROVE  in_flight' <= Cardinality(Reserved')
  BY DEF NoSlotLeak, Reserved
<1>1. in_flight <= Cardinality(Reserved) /\ in_flight \in Int /\ Cardinality(Reserved) \in Nat
  BY ReservedFinite DEF NoSlotLeak, Shape, PoolTypeOK
<1>2. ASSUME NEW r \in Requests, Reserved' = Reserved \ {r}, in_flight' = Decrement(in_flight)
      PROVE  in_flight' <= Cardinality(Reserved')
  <2>1. /\ Cardinality(Reserved') \in Nat
        /\ Cardinality(Reserved') >= Cardinality(Reserved) - 1
    BY <1>2, ReservedShrinks
  <2> QED
    BY <1>1, <1>2, <2>1 DEF Decrement
<1>3. CASE UNCHANGED <<in_flight, slot>>
  BY <1>1, <1>3 DEF Reserved
<1>4. ASSUME NEW r \in Requests, Acquire(r) \/ Refuse(r)
      PROVE  in_flight' <= Cardinality(Reserved')
  BY <1>1, <1>4, AcquireCounts, RefuseCounts
<1>5. CASE SpawnFails \/ ReleaseReusable \/ ReleaseOneShot
  BY <1>2, <1>5, SpawnFailsCounts, ReleaseReusableCounts, ReleaseOneShotCounts
<1>6. CASE VMDead
  <2>1. Head(mailbox).req = Manager
    <3>1. mailbox # << >> /\ mailbox \in Seq(Messages) /\ Head(mailbox) = mailbox[1]
      BY <1>6 DEF VMDead, Receive, Shape, PoolTypeOK
    <3>2. Notice(Head(mailbox))
      BY <3>1 DEF Notices
    <3> QED
      BY <1>6, <3>2, VMDeadCounts DEF Notice
  <2>2. CASE Reserved' = Reserved
    BY <1>1, <1>6, <2>2, VMDeadCounts DEF Decrement
  <2>3. CASE Reserved' # Reserved
    BY <1>2, <1>6, <2>1, <2>3, VMDeadCounts
  <2> QED
    BY <2>2, <2>3
<1> QED
  BY <1>3, <1>4, <1>5, <1>6, QuotaSteps

(* No engine dies: a request has its slot exactly while it is at work.     *)
SlotsTell ==
  "death" \notin FaultKinds =>
    \A r \in Requests : /\ at[r] = "idle" <=> slot[r] = "none"
                        /\ at[r] = "over" <=> slot[r] = "over"

(* Every step keeps SlotsTell; VMDead is the one that needs Notices.       *)
LEMMA NextKeepsSlotsTell ==
  ASSUME PoolInv, Notices, SlotsTell, [PoolNext]_poolVars
  PROVE  SlotsTell'
<1> SUFFICES ASSUME "death" \notin FaultKinds
             PROVE  \A r \in Requests : /\ at'[r] = "idle" <=> slot'[r] = "none"
                                        /\ at'[r] = "over" <=> slot'[r] = "over"
  BY DEF SlotsTell
<1> USE DEF SlotsTell, Shape, PoolTypeOK
<1> DEFINE Tells == \A r \in Requests : /\ at'[r] = "idle" <=> slot'[r] = "none"
                                        /\ at'[r] = "over" <=> slot'[r] = "over"
<1>1. ASSUME NEW t \in Takers, TakeStep(t) PROVE Tells
  BY <1>1
  DEF TakeStep, LookupIndex, TakeCandidate, KeepCandidate, ExpireCandidate, DropCandidate
<1>2. ASSUME NEW r \in Requests,
             \/ Acquire(r) \/ Refuse(r) \/ MarkBusy(r) \/ CallTimeout(r) \/ CallManager(r)
             \/ EndStep(r)
      PROVE  Tells
  BY <1>2 DEF Acquire, Refuse, ReserveBump, ReserveUndo, MarkBusy, CallTimeout, CallManager,
              EndStep, ReleaseVM, StopVM
<1>3. ASSUME \/ AcquireCold \/ Prewarm \/ Retire
             \/ NoneIdle \/ SpawnVM \/ InsertIdle \/ InsertIndex
             \/ DestroyVM \/ DeleteDeadRow \/ DeleteDeadIndex \/ BootEngine \/ BootFails
             \/ RetireRow \/ RetireIndex \/ RetireStop
      PROVE  Tells
  BY <1>3, SMTT(30)
  DEF AcquireCold, Prewarm, Retire, NoneIdle, SpawnVM, InsertIdle, InsertIndex, DestroyVM,
      DeleteDeadRow, DeleteDeadIndex, BootEngine, BootFails, RetireRow, RetireIndex, RetireStop
<1>4. CASE ReplyCold
  BY <1>4, ZenonT(30) DEF ReplyCold, Duty
<1>5. CASE SpawnFails
  BY <1>5 DEF SpawnFails, Release, Duty
<1>6. CASE ReleaseReusable \/ ReleaseOneShot
  <2>1. Head(mailbox).req \in Requests /\ at[Head(mailbox).req] = "done"
    BY <1>6, ReleaseReusableCounts, ReleaseOneShotCounts
  <2>2. CASE ReleaseReusable
    BY <2>1, <2>2 DEF ReleaseReusable, Release
  <2>3. CASE ReleaseOneShot
    BY <2>1, <2>3 DEF ReleaseOneShot
  <2> QED  BY <1>6, <2>2, <2>3
<1>7. CASE VMDead
  <2>1. mailbox # << >> /\ mailbox \in Seq(Messages) /\ Head(mailbox) = mailbox[1]
    BY <1>7 DEF VMDead, Receive
  <2>2. Notice(Head(mailbox))
    BY <2>1 DEF Notices
  <2>3. Head(mailbox).req \in Requests /\ MailOK(Head(mailbox)) /\ Head(mailbox).type = "vm_dead"
    BY <1>7, <2>2, VMDeadCounts, Received DEF Notice, VMDead
  <2>4. \A r \in Requests : Holding(r) /\ vm[r] = Head(mailbox).vm => r = Head(mailbox).req
    BY <2>3 DEF MailOK, Holding, Ownership, Owns
  <2> QED
    BY <1>7, <2>3, <2>4 DEF VMDead
<1>8. ASSUME NEW v \in VMs, VMStep(v) PROVE Tells
  BY <1>8 DEF VMStep, EngineExit, ServerTerminate, StopExpired
<1>9. CASE AutoscalerCast("retire") \/ AutoscalerCast("prewarm")
  BY <1>9 DEF AutoscalerCast
<1>10. CASE UNCHANGED poolVars
  BY <1>10 DEF poolVars
<1> QED
  BY <1>1, <1>2, <1>3, <1>4, <1>5, <1>6, <1>7, <1>8, <1>9, <1>10
  DEF PoolNext, AcquireStep, ManagerStep

(* Without engine deaths, the counter never falls behind them either.      *)
LEMMA AdmissionStep ==
  ASSUME PoolInv, Notices, SlotsTell, NoOverAdmission, [PoolNext]_poolVars
  PROVE  NoOverAdmission'
<1> SUFFICES ASSUME "death" \notin FaultKinds
             PROVE  in_flight' >= Cardinality(Reserved') /\ CapRespected'
  BY DEF NoOverAdmission
<1>1. /\ in_flight >= Cardinality(Reserved) /\ CapRespected
      /\ in_flight \in Int /\ Cardinality(Reserved) \in Nat
  BY ReservedFinite DEF NoOverAdmission, Shape, PoolTypeOK
<1>2. ASSUME NEW r \in Requests, at[r] \notin {"idle"},
             Reserved' = Reserved \ {r}, Admitted' \subseteq Admitted,
             in_flight' \in {in_flight, Decrement(in_flight)}
      PROVE  in_flight' >= Cardinality(Reserved') /\ CapRespected'
  <2>1. r \in Reserved
    BY <1>2 DEF SlotsTell, Reserved
  <2>2. /\ Cardinality(Reserved) >= 1 /\ Cardinality(Reserved') = Cardinality(Reserved) - 1
    BY <1>2, <2>1, ReservedShrinks
  <2> QED
    BY <1>1, <1>2, <2>2, AdmittedShrinks DEF Decrement
<1>3. CASE UNCHANGED <<in_flight, slot>>
  <2>1. Reserved' = Reserved /\ Admitted' = Admitted
    BY <1>3 DEF Reserved, Admitted
  <2> QED
    BY <1>1, <1>3, <2>1 DEF CapRespected
<1>4. ASSUME NEW r \in Requests, Acquire(r)
      PROVE  in_flight' >= Cardinality(Reserved') /\ CapRespected'
  <2>1. in_flight' >= Cardinality(Reserved')
    BY <1>1, <1>4, AcquireCounts
  <2>2. CASE in_flight + 1 > Cap
    <3>1. Admitted' \subseteq Admitted
      BY <1>4, <2>2 DEF Acquire, ReserveBump, Admitted, Shape, PoolTypeOK
    <3> QED
      BY <1>1, <2>1, <3>1, AdmittedShrinks
  <2>3. CASE ~(in_flight + 1 > Cap)
    <3>1. r \notin Admitted /\ Admitted' = Admitted \cup {r}
      BY <1>4, <2>3 DEF Acquire, ReserveBump, Admitted, Shape, PoolTypeOK
    <3>2. Cardinality(Admitted') = Cardinality(Admitted) + 1
      BY <3>1, ReservedFinite, FS_AddElement
    <3> QED
      BY <1>1, <2>1, <2>3, <3>2, ReservedFinite, CapAssumption DEF CapRespected
  <2> QED  BY <2>2, <2>3
<1>5. ASSUME NEW r \in Requests, Refuse(r)
      PROVE  in_flight' >= Cardinality(Reserved') /\ CapRespected'
  <2>1. Admitted' \subseteq Admitted
    BY <1>5 DEF Refuse, ReserveUndo, Admitted, Shape, PoolTypeOK
  <2> QED
    BY <1>1, <1>5, <2>1, RefuseCounts, AdmittedShrinks
<1>6. CASE SpawnFails \/ ReleaseReusable \/ ReleaseOneShot
  BY <1>2, <1>6, SpawnFailsCounts, ReleaseReusableCounts, ReleaseOneShotCounts
<1>7. CASE VMDead
  <2>1. mailbox # << >> /\ mailbox \in Seq(Messages) /\ Head(mailbox) = mailbox[1]
    BY <1>7 DEF VMDead, Receive, Shape, PoolTypeOK
  <2>2. Notice(Head(mailbox))
    BY <2>1 DEF Notices
  <2>3. Head(mailbox).req \in Requests
    BY <1>7, <2>2, VMDeadCounts DEF Notice
  <2> QED
    BY <1>2, <1>7, <2>3, VMDeadCounts
<1> QED
  BY <1>3, <1>4, <1>5, <1>6, <1>7, QuotaSteps

-----------------------------------------------------------------------------
(* Nothing is counted and nothing reserved at the start.                   *)
LEMMA InitCounts == PoolInit => Notices /\ SlotsTell /\ NoSlotLeak /\ NoOverAdmission
<1> SUFFICES ASSUME PoolInit PROVE Notices /\ SlotsTell /\ NoSlotLeak /\ NoOverAdmission
  OBVIOUS
<1>1. Reserved = {} /\ Admitted = {}
  BY DEF PoolInit, QuotaInit, Reserved, Admitted
<1>2. Cardinality(Reserved) = 0 /\ Cardinality(Admitted) = 0
  BY <1>1, FS_EmptySet
<1>3. NoSlotLeak /\ NoOverAdmission
  BY <1>2, CapAssumption DEF PoolInit, QuotaInit, NoSlotLeak, NoOverAdmission, CapRespected
<1> QED
  BY <1>3 DEF PoolInit, QuotaInit, Notices, SlotsTell

(* Callers that end with Pool.release of reusable VMs never lose a slot of *)
(* the workspace, whatever engines die meanwhile (release, vm_dead).       *)
THEOREM PoolKeepsSlots == PoolSpec => []NoSlotLeak
<1>1. PoolInv /\ Notices /\ [PoolNext]_poolVars => Notices'
  BY NextKeepsNotices
<1>2. PoolInv /\ Notices /\ NoSlotLeak /\ [PoolNext]_poolVars => NoSlotLeak'
  BY LeakStep
<1> QED
  BY PoolInvariant, InitCounts, <1>1, <1>2, PTL DEF PoolSpec

(* While no engine dies by itself, the counter covers every reservation,   *)
(* through refusals, failed spawns, one-shot destroys and stops, and the   *)
(* workspace stays within its cap (QuotaTracker.reserve, Pool.Manager).    *)
THEOREM PoolAdmission == PoolSpec => []NoOverAdmission
<1>1. PoolInv /\ Notices /\ [PoolNext]_poolVars => Notices'
  BY NextKeepsNotices
<1>2. PoolInv /\ Notices /\ SlotsTell /\ [PoolNext]_poolVars => SlotsTell'
  BY NextKeepsSlotsTell
<1>3. PoolInv /\ Notices /\ SlotsTell /\ NoOverAdmission /\ [PoolNext]_poolVars
        => NoOverAdmission'
  BY AdmissionStep
<1> QED
  BY PoolInvariant, InitCounts, <1>1, <1>2, <1>3, PTL DEF PoolSpec
-----------------------------------------------------------------------------
(* The pool implements VMLease.                                            *)

leases == [v \in VMs |-> LeaseOf(v)]

(* The lease of a VM names its holder.                                     *)
LeaseTells ==
  \A v \in VMs :
    /\ LeaseOf(v) \in Requests \cup {Manager}
    /\ \A r \in Requests : (LeaseOf(v) = r) <=> (Holding(r) /\ vm[r] = v)

(* What VMLease shows of a VM is its holder, if it has one.                *)
LEMMA HolderIsLease == PoolInv => LeaseTells
<1> SUFFICES ASSUME PoolInv, NEW v \in VMs
             PROVE  /\ LeaseOf(v) \in Requests \cup {Manager}
                    /\ \A r \in Requests : (LeaseOf(v) = r) <=> (Holding(r) /\ vm[r] = v)
  BY DEF LeaseTells
<1>1. CASE \E r \in Requests : Holding(r) /\ vm[r] = v
  <2>1. PICK r \in Requests : Holding(r) /\ vm[r] = v
    BY <1>1
  <2>2. \A s \in Requests : Holding(s) /\ vm[s] = v => s = r
    BY <2>1 DEF Ownership, Owns, Holding
  <2>3. LeaseOf(v) = r
    BY <2>1, <2>2 DEF LeaseOf
  <2> QED
    BY <2>1, <2>2, <2>3
<1>2. CASE ~ \E r \in Requests : Holding(r) /\ vm[r] = v
  BY <1>2 DEF LeaseOf
<1> QED
  BY <1>1, <1>2

(* The same in the next state.                                             *)
LEMMA HolderIsLeaseNext == PoolInv' => LeaseTells'
BY HolderIsLease, PTL

(* The holders stay, and so do the leases.                                 *)
LEMMA LeasesSame ==
  ASSUME PoolInv, PoolInv',
         \A r \in Requests : Holding(r)' <=> Holding(r),
         \A r \in Requests : Holding(r) => vm'[r] = vm[r]
  PROVE  leases' = leases
<1>1. LeaseTells /\ LeaseTells'
  BY HolderIsLease, HolderIsLeaseNext
<1>2. ASSUME NEW v \in VMs PROVE LeaseOf(v)' = LeaseOf(v)
  BY <1>1 DEF LeaseTells
<1> QED
  BY <1>2 DEF leases

(* VMLease counts with the Cardinality of FiniteSets.                      *)
LEMMA LeaseCardinality ==
  ASSUME NEW S
  PROVE  Lease!Cardinality(S) = Cardinality(S)
BY DEF Lease!Cardinality, Cardinality

(* A request r starts to hold v: a Grant, ...                              *)
LEMMA LeaseGranted ==
  ASSUME PoolInv, PoolInv', SlotsTell, CapRespected, "death" \notin FaultKinds,
         NEW r \in Requests, NEW v \in VMs, NEW t \in Takers,
         at[r] \notin {"idle", "over"}, ~ Holding(r), Owns(t), ~ Holding(t), vm[t] = v,
         Holding(r)', vm'[r] = v,
         \A s \in Requests \ {r} : at'[s] = at[s] /\ vm'[s] = vm[s]
  PROVE  Lease!Grant(v, r)
<1>1. LeaseTells /\ LeaseTells'
  BY HolderIsLease, HolderIsLeaseNext
<1>2. \A s \in Requests : Holding(s) => vm[s] # v
  BY DEF Ownership, Owns, Holding
<1>3. LeaseOf(v) = Manager
  BY <1>1, <1>2 DEF LeaseTells
<1>4. \A u \in VMs : LeaseOf(u) # r
  BY <1>1 DEF LeaseTells
<1>5. Cardinality(Lease!Lent) < Cap
  <2> DEFINE Lent == {u \in VMs : LeaseOf(u) # Manager}
             f == [u \in Lent |-> LeaseOf(u)]
  <2>1. r \in Admitted
    BY DEF SlotsTell, Admitted, Shape, PoolTypeOK
  <2>2. ASSUME NEW u \in Lent PROVE LeaseOf(u) \in Admitted \ {r} /\ vm[LeaseOf(u)] = u
    <3>1. LeaseOf(u) \in Requests /\ Holding(LeaseOf(u)) /\ vm[LeaseOf(u)] = u
      BY <1>1 DEF LeaseTells
    <3>2. \A s \in Requests : Holding(s) => s \in Admitted
      BY DEF SlotsTell, Admitted, Shape, PoolTypeOK, Holding
    <3> QED
      BY <1>4, <3>1, <3>2
  <2>3. f \in Injection(Lent, Admitted \ {r})
    BY <2>2 DEF Injection, IsInjective
  <2>4. /\ IsFiniteSet(Admitted \ {r})
        /\ Cardinality(Admitted \ {r}) = Cardinality(Admitted) - 1
    BY <2>1, ReservedFinite, FS_RemoveElement
  <2> HIDE DEF f
  <2>5. IsFiniteSet(Lent) /\ Cardinality(Lent) <= Cardinality(Admitted \ {r})
    BY <2>3, <2>4, FS_Injection
  <2>6. Lease!Lent = Lent
    BY DEF Lease!Lent
  <2> HIDE DEF Lent
  <2> QED
    BY <2>4, <2>5, <2>6, ReservedFinite, FS_CardinalityType, CapAssumption DEF CapRespected
<1>6. leases' = [leases EXCEPT ![v] = r]
  <2>1. LeaseOf(v)' = r
    BY <1>1 DEF LeaseTells
  <2>2. ASSUME NEW u \in VMs, u # v PROVE LeaseOf(u)' = LeaseOf(u)
    <3>1. \A s \in Requests \ {r} : Holding(s)' <=> Holding(s)
      BY DEF Holding
    <3> QED
      BY <1>1, <2>2, <3>1 DEF LeaseTells
  <2> QED
    BY <2>1, <2>2 DEF leases
<1> QED
  <2>1. leases[v] = Manager /\ \A u \in VMs : leases[u] # r
    BY <1>3, <1>4 DEF leases
  <2>2. Lease!Cardinality(Lease!Lent) < Cap
    BY <1>5, LeaseCardinality
  <2> QED
    BY <2>1, <2>2, <1>6 DEF Lease!Grant, leases

(* ... or stops to hold it: a Return.                                      *)
LEMMA LeaseReturned ==
  ASSUME PoolInv, PoolInv', NEW r \in Requests, NEW v \in VMs,
         Holding(r), vm[r] = v, ~ Holding(r)',
         \A s \in Requests \ {r} : at'[s] = at[s] /\ vm'[s] = vm[s]
  PROVE  Lease!Return(v)
<1>1. LeaseTells /\ LeaseTells'
  BY HolderIsLease, HolderIsLeaseNext
<1>2. LeaseOf(v) = r
  BY <1>1 DEF LeaseTells
<1>3. \A s \in Requests \ {r} : Holding(s)' <=> Holding(s)
  BY DEF Holding
<1>4. LeaseOf(v)' = Manager
  <2>1. \A s \in Requests : ~ (Holding(s)' /\ vm'[s] = v)
    BY <1>3 DEF Ownership, Owns, Holding
  <2> QED
    BY <1>1, <2>1 DEF LeaseTells
<1>5. ASSUME NEW u \in VMs, u # v PROVE LeaseOf(u)' = LeaseOf(u)
  BY <1>1, <1>3, <1>5 DEF LeaseTells
<1>6. leases' = [leases EXCEPT ![v] = Manager]
  BY <1>4, <1>5 DEF leases
<1> QED
  BY <1>2, <1>6 DEF Lease!Return, leases

(* A step of the pool is a step of VMLease, or leaves the leases alone.    *)
LEMMA NextIsLeaseStep ==
  ASSUME PoolInv, PoolInv', Notices, SlotsTell, CapRespected, "death" \notin FaultKinds,
         [PoolNext]_poolVars
  PROVE  Lease!LeaseNext \/ leases' = leases
<1> DEFINE Same == /\ \A r \in Requests : Holding(r)' <=> Holding(r)
                   /\ \A r \in Requests : Holding(r) => vm'[r] = vm[r]
<1>1. Same => leases' = leases
  BY LeasesSame
<1> USE DEF Shape, PoolTypeOK
<1>2. ASSUME NEW t \in Takers, TakeStep(t) PROVE Same
  BY <1>2, SMTT(30)
  DEF TakeStep, LookupIndex, TakeCandidate, KeepCandidate, ExpireCandidate, DropCandidate, Holding
<1>3. ASSUME NEW r \in Requests,
             \/ Acquire(r) \/ Refuse(r) \/ CallTimeout(r) \/ CallManager(r) \/ EndStep(r)
      PROVE  Same
  BY <1>3, SMTT(30) DEF Acquire, Refuse, CallTimeout, CallManager, EndStep, ReleaseVM, StopVM, Holding
<1>4. ASSUME NEW r \in Requests, MarkBusy(r) PROVE Lease!Grant(vm[r], r) /\ vm[r] \in VMs
  <2>1. PICK v \in VMs : vm[r] = v
    BY <1>4 DEF MarkBusy, Duty
  <2> QED
    BY <1>4, <2>1, LeaseGranted DEF MarkBusy, Holding, Owns
<1>5. CASE ReplyCold
  <2>1. CASE at[serving] = "cold"
    <3>1. PICK v \in VMs : vm[Manager] = v
      BY <1>5 DEF ReplyCold, Duty
    <3>2. PICK r \in Requests : r = serving
      BY <1>5 DEF ReplyCold, Duty
    <3>3. /\ at[r] = "cold" /\ at[Manager] = "mark" /\ at'[r] = "held" /\ vm'[r] = v
          /\ \A s \in Requests \ {r} : at'[s] = at[s] /\ vm'[s] = vm[s]
      BY <1>5, <2>1, <3>1, <3>2 DEF ReplyCold
    <3>4. Lease!Grant(v, r)
      BY <3>1, <3>3, LeaseGranted DEF Holding, Owns
    <3> QED
      BY <3>4 DEF Lease!LeaseNext
  <2>2. CASE at[serving] # "cold"
    BY <1>1, <1>5, <2>2 DEF ReplyCold, Holding, Duty
  <2> QED
    BY <2>1, <2>2
<1>6. ASSUME ReleaseReusable \/ ReleaseOneShot \/ VMDead
      PROVE  Lease!LeaseNext
  <2> DEFINE m == Head(mailbox)
  <2>1. m.req \in Requests /\ at[m.req] = "done"
    <3>1. CASE VMDead
      <4>1. mailbox # << >> /\ mailbox \in Seq(Messages) /\ Head(mailbox) = mailbox[1]
        BY <3>1 DEF VMDead, Receive
      <4>2. Notice(Head(mailbox))
        BY <4>1 DEF Notices
      <4> QED
        BY <3>1, <4>2, VMDeadCounts DEF Notice
    <3> QED
      BY <1>6, <3>1, ReleaseReusableCounts, ReleaseOneShotCounts
  <2>2. PICK r \in Requests : r = m.req
    BY <2>1
  <2>3. PICK v \in VMs : vm[r] = v
    BY <2>1, <2>2 DEF Duty
  <2>4. /\ ~ Holding(r)'
        /\ \A s \in Requests \ {r} : at'[s] = at[s] /\ vm'[s] = vm[s]
    <3>1. CASE ReleaseReusable
      BY <2>1, <2>2, <3>1 DEF ReleaseReusable, Holding
    <3>2. CASE ReleaseOneShot
      BY <2>1, <2>2, <3>2 DEF ReleaseOneShot, Holding
    <3>3. CASE VMDead
      BY <2>1, <2>2, <3>3 DEF VMDead, Holding
    <3> QED
      BY <1>6, <3>1, <3>2, <3>3
  <2>5. Lease!Return(v)
    BY <2>1, <2>2, <2>3, <2>4, LeaseReturned DEF Holding
  <2> QED
    BY <2>5 DEF Lease!LeaseNext
<1>7. ASSUME \/ AcquireCold \/ Prewarm \/ Retire \/ NoneIdle \/ SpawnVM \/ InsertIdle
             \/ InsertIndex \/ DestroyVM \/ DeleteDeadRow \/ DeleteDeadIndex \/ BootEngine
             \/ BootFails \/ RetireRow \/ RetireIndex \/ RetireStop
      PROVE  Same
  BY <1>7, SMTT(30)
  DEF AcquireCold, Prewarm, Retire, NoneIdle, SpawnVM, InsertIdle, InsertIndex, DestroyVM,
      DeleteDeadRow, DeleteDeadIndex, BootEngine, BootFails, RetireRow, RetireIndex, RetireStop,
      Holding
<1>8. CASE SpawnFails
  BY <1>1, <1>8, SpawnFailsCounts DEF SpawnFails, Holding
<1>9. ASSUME NEW v \in VMs, VMStep(v) PROVE Same
  BY <1>9 DEF VMStep, EngineExit, ServerTerminate, StopExpired, Holding
<1>10. CASE AutoscalerCast("retire") \/ AutoscalerCast("prewarm")
  BY <1>1, <1>10 DEF AutoscalerCast, Holding
<1>11. CASE UNCHANGED poolVars
  BY <1>1, <1>11 DEF poolVars, Holding
<1> HIDE DEF Same
<1>12. ASSUME NEW r \in Requests, MarkBusy(r) PROVE Lease!LeaseNext
  BY <1>4, <1>12 DEF Lease!LeaseNext
<1> QED
  BY <1>1, <1>2, <1>3, <1>5, <1>6, <1>7, <1>8, <1>9, <1>10, <1>11, <1>12
  DEF PoolNext, AcquireStep, ManagerStep

(* With no engine deaths every step of the callers, the manager and the    *)
(* autoscaler is a step of VMLease or changes no lease: acquire hands out  *)
(* a VM nobody has, to a request that has none, below the cap, and only    *)
(* the message that gives it up ends the lease.                            *)
THEOREM PoolImplementsLease == "death" \notin FaultKinds => (PoolSpec => ImplementsLease)
<1> SUFFICES ASSUME "death" \notin FaultKinds PROVE PoolSpec => ImplementsLease
  OBVIOUS
<1>1. PoolInit => Lease!LeaseInit
  <2> SUFFICES ASSUME PoolInit PROVE leases = [v \in VMs |-> Manager]
    BY DEF Lease!LeaseInit, leases
  <2> QED
    BY DEF PoolInit, leases, LeaseOf, Holding
<1>2. PoolInv /\ PoolInv' /\ Notices /\ SlotsTell /\ NoOverAdmission /\ [PoolNext]_poolVars
        => [Lease!LeaseNext]_leases
  BY NextIsLeaseStep DEF NoOverAdmission
<1>3. PoolInv /\ Notices /\ [PoolNext]_poolVars => Notices'
  BY NextKeepsNotices
<1>4. PoolInv /\ Notices /\ SlotsTell /\ [PoolNext]_poolVars => SlotsTell'
  BY NextKeepsSlotsTell
<1>5. PoolSpec => [][Lease!LeaseNext]_leases
  BY PoolInvariant, PoolAdmission, InitCounts, <1>2, <1>3, <1>4, PTL DEF PoolSpec
<1> QED
  BY <1>1, <1>5, PTL DEF ImplementsLease, Lease!LeaseSpec, PoolSpec, leases
=============================================================================
