---------------------------- MODULE ZygoteProofs ----------------------------
(***************************************************************************)
(* The Python zygote: what its socket holds at every point of a request,   *)
(* and what follows for statuses, cgroups and forks, for any number of     *)
(* requests, of any shapes, and any number of faults.                      *)
(*                                                                         *)
(* The argument is about the conversation.  An answered request may leave  *)
(* behind a status frame nobody read, or a zygote that still waits for its *)
(* "go" or for its fork.  The next request is sent into that, and the      *)
(* engine accepts the zygote only if the first frame it reads is "forked"; *)
(* the invariant says that this frame can then only be the new request's.  *)
(***************************************************************************)
EXTENDS Zygote, FiniteSetTheorems, TLAPS

EngineFrames == [type : {"forked", "status"}, req : Requests]
MiddleForms == [st : {"none", "blocked", "go", "waiting", "dead"}, in : Requests \cup {None}]
GrandForms == [st : {"none", "setup", "code", "dead"}, in : Requests \cup {None}]

(* The types of all variables, and the request a busy zygote has. *)
Typed ==
  /\ pc \in [Requests -> {"idle", "send", "forked", "place", "loop", "error", "execve", "done"}]
  /\ slot \in {Shape[r] : r \in Requests} \cup {None}
  /\ zygote \in [st : {"none", "idle", "forked", "waiting"}, req : Requests \cup {None}]
  /\ zygote.st \in {"forked", "waiting"} <=> zygote.req # None
  /\ toEngine \in Seq(EngineFrames)
  /\ middle \in [Requests -> MiddleForms] /\ grand \in [Requests -> GrandForms]
  /\ stdio \in [Requests -> BOOLEAN]
  /\ loop \in [status : Requests \cup {None}, timeout : BOOLEAN, output : BOOLEAN]
  /\ runs \in [Requests -> 0..2]
  /\ outcome \in [Requests -> Requests \cup {None, "execve"}]

(* The engine's thread holds the slot for a whole request. *)
OneBusy == \A r, q \in Busy : r = q

(* An emptied slot has no process behind it. *)
SlotTells == slot = None => zygote.st = "none"

(* What an answered request may leave for the engine: one status frame. *)
Leftover ==
  \/ toEngine = <<>>
  \/ \E q \in Requests : pc[q] = "done" /\ toEngine = <<Frame("status", q)>>

(* The zygote is still with a request that has been answered. *)
Behind == pc[zygote.req] = "done" /\ toEngine = <<>>

(* No request is in progress. *)
Quiet ==
  \/ zygote.st \in {"none", "idle"} /\ toZygote = <<>> /\ Leftover
  \/ zygote.st = "forked" /\ Behind /\ toZygote = <<Frame("go", zygote.req)>>
  \/ zygote.st = "waiting" /\ Behind /\ toZygote = <<>>

(* The frame of request r is sent, and the zygote has not read it. *)
Unread(r) ==
  /\ middle[r] = NoFork
  /\ \/ zygote.st = "idle" /\ toZygote = <<Frame("request", r)>>
     \/ /\ zygote.st = "forked" /\ pc[zygote.req] = "done"
        /\ toZygote = <<Frame("go", zygote.req), Frame("request", r)>>
     \/ /\ zygote.st = "waiting" /\ pc[zygote.req] = "done"
        /\ toZygote = <<Frame("request", r)>>

(* The engine waits for "forked". *)
Sent(r) ==
  \/ /\ Unread(r) /\ Leftover
     /\ zygote.st \in {"forked", "waiting"} => toEngine = <<>>
  \/ /\ \/ zygote.st = "forked" /\ zygote.req = r
        \/ zygote.st = "none"
     /\ toZygote = <<>>
     /\ \/ zygote.st = "none" /\ Leftover
        \/ toEngine = <<Frame("forked", r)>>
        \/ \E q \in Requests :
             pc[q] = "done" /\ toEngine = <<Frame("status", q), Frame("forked", r)>>

(* The engine has read "forked" and looks for the fork. *)
Placing(r) ==
  /\ toEngine = <<>> /\ toZygote = <<>>
  /\ \/ zygote.st = "forked" /\ zygote.req = r
     \/ zygote.st = "none"

(* The engine is in its poll loop. *)
Serving(r) ==
  /\ loop.status \in {None, r}
  /\ \/ /\ zygote.st \in {"none", "idle"} /\ toZygote = <<>>
        /\ toEngine = <<>> \/ (toEngine = <<Frame("status", r)>> /\ loop.status = None)
     \/ /\ zygote.st \in {"forked", "waiting"} /\ zygote.req = r
        /\ toEngine = <<>> /\ loop.status = None
        /\ toZygote = IF zygote.st = "forked" THEN <<Frame("go", r)>> ELSE <<>>

(* The engine has given the zygote up and not dropped it yet. *)
Failed(r) ==
  \/ Unread(r)
  \/ zygote.st = "forked" /\ zygote.req = r /\ toZygote = <<>>
  \/ zygote.st = "none" /\ toZygote = <<>>

(* The sockets and the zygote at every point of a request. *)
Conversation ==
  /\ (\A r \in Requests : pc[r] \in {"idle", "send", "execve", "done"}) => Quiet
  /\ \A r \in Requests :
       /\ pc[r] = "forked" => Sent(r)
       /\ pc[r] = "place" => Placing(r)
       /\ pc[r] = "loop" => Serving(r)
       /\ pc[r] = "error" => Failed(r)

(* The status of the previous request is forgotten before the next is served. *)
StatusFresh == \A r \in Requests : pc[r] \in {"send", "forked", "place"} => loop.status = None

(* The middle process of a request. *)
Middle ==
  \A r \in Requests :
    /\ middle[r].in \in {None, r}
    /\ pc[r] \in {"idle", "send"} => middle[r] = NoFork
    /\ Running(middle[r]) =>
         /\ zygote.st \in {"forked", "waiting"} /\ zygote.req = r
         /\ pc[r] \in {"forked", "place", "loop", "error"}
         /\ pc[r] = "loop" => middle[r].in = r
         /\ middle[r].st \in {"go", "waiting"} =>
              middle[r].in = r /\ pc[r] \in {"loop", "error"}

(* The grandchild of a request. *)
Grand ==
  \A r \in Requests :
    /\ grand[r].in \in {None, r}
    /\ Running(grand[r]) => grand[r].in = r /\ pc[r] \in {"loop", "error"}

(* User code is started once by the zygote and once more by the fallback. *)
Runs ==
  \A r \in Requests :
    /\ grand[r].st = "setup" => middle[r].st \in {"waiting", "dead"} /\ runs[r] = 0
    /\ pc[r] # "done" => runs[r] <= 1
    /\ pc[r] # "done" /\ middle[r].st \in {"none", "blocked", "go"} => runs[r] = 0

ZygoteInv ==
  /\ Typed /\ OneBusy /\ SlotTells /\ StatusFresh /\ Conversation
  /\ Middle /\ Grand /\ Runs /\ StatusIsOwn

-----------------------------------------------------------------------------
(* Sequences of one and two frames                                         *)

(* What the two ends of the socket do to the short sequences it holds.     *)
LEMMA ShortSequences ==
  ASSUME NEW a, NEW b
  PROVE  /\ Append(<<>>, a) = <<a>> /\ Append(<<a>>, b) = <<a, b>>
         /\ Head(<<a>>) = a /\ Head(<<a, b>>) = a
         /\ Tail(<<a>>) = <<>> /\ Tail(<<a, b>>) = <<b>>
         /\ <<a>> # <<>> /\ <<a, b>> # <<>>
<1> DEFINE s == Append(<<a>>, b)
<1>1. /\ Append(<<>>, a) = <<a>> /\ Head(<<a>>) = a /\ Head(<<a, b>>) = a
      /\ Tail(<<a>>) = <<>> /\ Tail(<<a, b>>) = <<b>>
      /\ <<a>> # <<>> /\ <<a, b>> # <<>>
  OBVIOUS
<1>2. <<a>> \in Seq({a, b}) /\ b \in {a, b} /\ Len(<<a>>) = 1 /\ <<a>>[1] = a
  OBVIOUS
<1>3. s \in Seq({a, b}) /\ Len(s) = 2 /\ s[1] = a /\ s[2] = b
  BY <1>2
<1>4. <<a, b>> \in Seq({a, b}) /\ Len(<<a, b>>) = 2 /\ <<a, b>>[1] = a /\ <<a, b>>[2] = b
  OBVIOUS
<1> HIDE DEF s
<1>5. s = [i \in 1..2 |-> s[i]] /\ <<a, b>> = [i \in 1..2 |-> <<a, b>>[i]]
  BY <1>3, <1>4
<1>6. \A i \in 1..2 : s[i] = <<a, b>>[i]
  BY <1>3, <1>4
<1>7. [i \in 1..2 |-> s[i]] = [i \in 1..2 |-> <<a, b>>[i]]
  BY <1>6, Zenon
<1>8. s = <<a, b>>
  BY <1>5, <1>7, Zenon
<1> QED
  BY <1>1, <1>8 DEF s

(* Reading and sending keep a queue of frames one.                         *)
LEMMA QueueTyped ==
  ASSUME NEW S, NEW s \in Seq(S)
  PROVE  /\ <<>> \in Seq(S)
         /\ s # <<>> => Head(s) \in S /\ Tail(s) \in Seq(S)
         /\ \A x \in S : Append(s, x) \in Seq(S)
BY SMT

(* The layers a fork puts on itself do not block each other: mounts and     *)
(* files come before the filter, the filter after NO_NEW_PRIVS, and the     *)
(* capability drop after everything that needs a privilege (python_shim).   *)
LEMMA LayersFit == ~Stuck
<1>1. Len(ForkLayers) - 1 = 9
  BY DEF ForkLayers
<1>2. ASSUME NEW n \in 0..9 PROVE ~Blocked(ForkLayers, n, "interp_aot", TRUE)
  <2> USE DEF Blocked, Done, ForkLayers, Privileged
  <2>1. n = 0 \/ n = 1 \/ n = 2 \/ n = 3 \/ n = 4 \/ n = 5 \/ n = 6
    \/ n = 7 \/ n = 8 \/ n = 9
    OBVIOUS
  <2>2. CASE n \in 0..6
    BY <2>2
  <2>3. CASE n = 7
    BY <2>3 DEF Syscalls, Allowed, BaseSyscalls, CapsCalls
  <2>4. CASE n = 8
    BY <2>4 DEF Syscalls, Allowed, BaseSyscalls, RlimitCalls
  <2>5. CASE n = 9
    BY <2>5 DEF Syscalls, Allowed, BaseSyscalls
  <2> QED
    BY <2>1, <2>2, <2>3, <2>4, <2>5
<1> QED
  BY <1>1, <1>2 DEF Stuck, ProfileOf

-----------------------------------------------------------------------------
(* The steps                                                               *)

(* Killing the forks of a zygote keeps their types.                        *)
LEMMA ForksDieTyped ==
  ASSUME Typed, AllForksDie
  PROVE  /\ middle' \in [Requests -> MiddleForms] /\ grand' \in [Requests -> GrandForms]
         /\ stdio' \in [Requests -> BOOLEAN] /\ zygote' = NoZygote /\ toZygote' = <<>>
BY DEF Typed, AllForksDie, MiddleForms, GrandForms, DeadFork

(* Killing a cgroup does, too.                                             *)
LEMMA KillTyped ==
  ASSUME Typed, NEW r \in Requests, KillCgroup(r)
  PROVE  /\ middle' \in [Requests -> MiddleForms] /\ grand' \in [Requests -> GrandForms]
         /\ stdio' \in [Requests -> BOOLEAN]
BY DEF Typed, KillCgroup, MiddleForms, GrandForms, DeadFork

(* The first frame in the zygote's queue, when it is idle, is the request   *)
(* the engine waits for or has given up; that request has no fork yet.      *)
LEMMA ForkRequest ==
  ASSUME Typed, OneBusy, Conversation, zygote.st = "idle", toZygote # <<>>
  PROVE  \E r \in Requests :
           /\ toZygote = <<Frame("request", r)>> /\ middle[r] = NoFork
           /\ pc[r] \in {"forked", "error"}
           /\ pc[r] = "forked" => Leftover
<1>1. ~Quiet
  BY DEF Quiet
<1>2. PICK r \in Requests : pc[r] \in {"forked", "place", "loop", "error"}
  BY <1>1 DEF Conversation, Typed
<1>3. pc[r] \notin {"place", "loop"}
  BY <1>2 DEF Conversation, Placing, Serving
<1>4. toZygote = <<Frame("request", r)>> /\ middle[r] = NoFork /\ (pc[r] = "forked" => Leftover)
  BY <1>2, <1>3 DEF Conversation, Sent, Failed, Unread
<1> QED
  BY <1>2, <1>3, <1>4

(* newest_child finds the fork of the request being placed, or nothing: the  *)
(* zygote has forked for no other request since (newest_child, add_pid).     *)
LEMMA PlacesOwn ==
  ASSUME Typed, Conversation, NEW r \in Requests, PlaceAndGo(r)
  PROVE  \/ /\ zygote.st = "forked" /\ zygote.req = r /\ Running(middle[r])
            /\ middle' = [middle EXCEPT ![r].in = r]
            /\ toZygote' = <<Frame("go", r)>> /\ pc' = [pc EXCEPT ![r] = "loop"]
         \/ middle' = middle /\ toZygote' = toZygote /\ pc' = [pc EXCEPT ![r] = "error"]
<1>1. toZygote = <<>> /\ zygote.req \in {r, None} /\ (zygote.req = r => zygote.st = "forked")
  BY NoneAssumption DEF Typed, Conversation, Placing, PlaceAndGo
<1>2. Newest # None => Newest = r /\ zygote.st = "forked" /\ zygote.req = r /\ Running(middle[r])
  BY <1>1 DEF Newest
<1>3. PICK q : q = Newest
  OBVIOUS
<1>4. \/ q # None /\ middle' = [middle EXCEPT ![q].in = r]
         /\ toZygote' = Append(toZygote, Frame("go", r)) /\ pc' = [pc EXCEPT ![r] = "loop"]
      \/ middle' = middle /\ toZygote' = toZygote /\ pc' = [pc EXCEPT ![r] = "error"]
  BY <1>3 DEF PlaceAndGo, Go
<1> QED
  BY <1>1, <1>2, <1>3, <1>4, ShortSequences

(* kill_all on the cgroup of the request in the loop ends its forks and      *)
(* nothing else.                                                             *)
LEMMA KillsOwn ==
  ASSUME Typed, Middle, Grand, NEW r \in Requests, pc[r] = "loop", KillCgroup(r)
  PROVE  /\ middle'[r] \in {middle[r], DeadFork} /\ ~Running(middle'[r])
         /\ grand'[r] \in {grand[r], DeadFork} /\ ~Running(grand'[r])
         /\ \A q \in Requests \ {r} : middle'[q] = middle[q] /\ grand'[q] = grand[q]
BY NoneAssumption DEF KillCgroup, Middle, Grand, Running, DeadFork, Typed

(* What a zygote that waits for "go" reads: the "go" of the request in the   *)
(* loop, or one that was left for a request answered meanwhile.              *)
LEMMA Released ==
  ASSUME Typed, OneBusy, Conversation, zygote.st = "forked", toZygote # <<>>
  PROVE  pc[zygote.req] \in {"done", "loop"}
<1>1. CASE Quiet
  BY <1>1 DEF Quiet, Behind
<1>2. CASE ~Quiet
  <2>1. PICK r \in Requests : pc[r] \in {"forked", "place", "loop", "error"}
    BY <1>2 DEF Conversation, Typed
  <2> QED
    BY <2>1 DEF Conversation, Sent, Unread, Placing, Serving, Failed
<1> QED
  BY <1>1, <1>2

(* While one request is in progress, the others wait or are answered.        *)
LEMMA Alone ==
  ASSUME Typed, OneBusy, NEW r \in Requests, pc[r] \notin {"idle", "done"}
  PROVE  \A q \in Requests \ {r} : pc[q] \in {"idle", "done"}
BY DEF OneBusy, Busy, Typed

(* A step that moves neither the engine nor the zygote says nothing on the    *)
(* socket.                                                                   *)
LEMMA NothingSaid ==
  ASSUME Conversation, UNCHANGED <<pc, zygote, toZygote, toEngine>>, loop'.status = loop.status,
         \A r \in Requests : middle[r] = NoFork => middle'[r] = NoFork
  PROVE  Conversation'
<1>1. Leftover' = Leftover /\ Behind' = Behind
  BY DEF Leftover, Behind
<1>2. Quiet => Quiet'
  BY <1>1 DEF Quiet
<1>3. \A r \in Requests : Unread(r) => Unread(r)'
  BY DEF Unread
<1>4. \A r \in Requests : Sent(r) => Sent(r)'
  BY <1>1, <1>3 DEF Sent
<1>5. \A r \in Requests : (Placing(r) => Placing(r)') /\ (Serving(r) => Serving(r)')
  BY DEF Placing, Serving
<1>6. \A r \in Requests : Failed(r) => Failed(r)'
  BY <1>3 DEF Failed
<1> QED
  BY <1>2, <1>4, <1>5, <1>6 DEF Conversation

(* What an answered request left stays while nothing is sent or read.         *)
LEMMA LeftoverKept ==
  ASSUME Typed, Leftover, toEngine' = toEngine,
         \A q \in Requests : pc[q] = "done" => pc'[q] = "done"
  PROVE  Leftover'
BY DEF Leftover

(* No request is in progress: what was left of answered ones.                 *)
LEMMA NobodyTalks ==
  ASSUME Typed, Conversation, Busy = {}
  PROVE  Quiet
BY DEF Conversation, Busy, Typed

(* One request is in progress, before or behind its exchange with the zygote. *)
LEMMA TalkEnds ==
  ASSUME pc' \in [Requests -> {"idle", "send", "forked", "place", "loop", "error", "execve", "done"}],
         NEW r \in Requests, \A q \in Requests \ {r} : pc'[q] \in {"idle", "done"},
         /\ pc'[r] \in {"idle", "send", "execve", "done"} => Quiet'
         /\ pc'[r] = "forked" => Sent(r)'
         /\ pc'[r] = "place" => Placing(r)'
         /\ pc'[r] = "loop" => Serving(r)'
         /\ pc'[r] = "error" => Failed(r)'
  PROVE  Conversation'
<1>1. \A q \in Requests : pc'[q] \in {"forked", "place", "loop", "error"} => q = r
  OBVIOUS
<1> QED
  BY <1>1 DEF Conversation

(* The zygote is sent nothing but requests and "go".                          *)
LEMMA FramesSent ==
  ASSUME Typed, Conversation
  PROVE  \A i \in DOMAIN toZygote : toZygote[i].type \in {"request", "go"}
<1>1. ASSUME NEW a, NEW b, a.type \in {"request", "go"}, b.type \in {"request", "go"},
             toZygote \in {<<>>, <<a>>, <<a, b>>}
      PROVE  \A i \in DOMAIN toZygote : toZygote[i].type \in {"request", "go"}
  BY <1>1
<1>2. ASSUME NEW r \in Requests, NEW z,
             toZygote \in {<<>>, <<Frame("request", r)>>, <<Frame("go", z)>>,
                          <<Frame("go", z), Frame("request", r)>>}
      PROVE  \A i \in DOMAIN toZygote : toZygote[i].type \in {"request", "go"}
  <2>1. Frame("request", r).type = "request" /\ Frame("go", z).type = "go"
    BY DEF Frame
  <2> QED
    BY <1>1, <1>2, <2>1
<1>3. CASE Quiet
  <2>1. toZygote \in {<<>>, <<Frame("go", zygote.req)>>}
    BY <1>3 DEF Quiet
  <2>2. CASE toZygote = <<>>
    BY <2>2
  <2>3. CASE toZygote = <<Frame("go", zygote.req)>>
    BY <2>3 DEF Frame
  <2> QED
    BY <2>1, <2>2, <2>3
<1>4. CASE ~Quiet
  <2>1. PICK r \in Requests : pc[r] \in {"forked", "place", "loop", "error"}
    BY <1>4 DEF Conversation, Typed
  <2>2. \/ toZygote = <<>> \/ toZygote = <<Frame("request", r)>>
        \/ toZygote = <<Frame("go", r)>>
        \/ toZygote = <<Frame("go", zygote.req), Frame("request", r)>>
    BY <2>1 DEF Conversation, Sent, Unread, Placing, Serving, Failed
  <2>3. PICK z : z = zygote.req
    OBVIOUS
  <2> QED
    BY <2>2, <2>3, <1>2
<1> QED
  BY <1>3, <1>4

(* The slot's lock admits one request at a time (ZYGOTE.lock in run).      *)
LEMMA NextKeepsOneBusy ==
  ASSUME Typed, OneBusy, [ZygoteNext]_zygoteVars
  PROVE  OneBusy'
<1> USE DEF OneBusy, Busy, Typed, Go
<1>1. ASSUME NEW r \in Requests, DropMismatch(r) PROVE OneBusy'
  BY <1>1 DEF DropMismatch
<1>2. ASSUME NEW r \in Requests, Reuse(r) PROVE OneBusy'
  BY <1>2 DEF Reuse
<1>3. ASSUME NEW r \in Requests, Boot(r) PROVE OneBusy'
  BY <1>3 DEF Boot
<1>4. ASSUME NEW r \in Requests, SendRequest(r) PROVE OneBusy'
  BY <1>4 DEF SendRequest
<1>5. ASSUME NEW r \in Requests, RecvForked(r) PROVE OneBusy'
  BY <1>5 DEF RecvForked
<1>6. ASSUME NEW r \in Requests, PlaceAndGo(r) PROVE OneBusy'
  BY <1>6 DEF PlaceAndGo
<1>7. ASSUME NEW r \in Requests, Deadline(r) PROVE OneBusy'
  BY <1>7 DEF Deadline
<1>8. ASSUME NEW r \in Requests, OverCap(r) PROVE OneBusy'
  BY <1>8 DEF OverCap
<1>9. ASSUME NEW r \in Requests, RecvStatus(r) PROVE OneBusy'
  BY <1>9 DEF RecvStatus
<1>10. ASSUME NEW r \in Requests, Finish(r) PROVE OneBusy'
  BY <1>10 DEF Finish
<1>11. ASSUME NEW r \in Requests, DropOnError(r) PROVE OneBusy'
  BY <1>11 DEF DropOnError
<1>12. ASSUME NEW r \in Requests, FallbackExecve(r) PROVE OneBusy'
  BY <1>12 DEF FallbackExecve
<1>13. ASSUME NEW r \in Requests, MiddleForks(r) PROVE OneBusy'
  BY <1>13 DEF MiddleForks
<1>14. ASSUME NEW r \in Requests, GrandSetup(r) PROVE OneBusy'
  BY <1>14 DEF GrandSetup
<1>15. ASSUME NEW r \in Requests, GrandCloses(r) PROVE OneBusy'
  BY <1>15 DEF GrandCloses
<1>16. ASSUME NEW r \in Requests, GrandEnds(r) PROVE OneBusy'
  BY <1>16 DEF GrandEnds
<1>17. ASSUME NEW r \in Requests, MiddleEnds(r) PROVE OneBusy'
  BY <1>17 DEF MiddleEnds
<1>18. ASSUME NEW r \in Requests, MiddleOom(r) PROVE OneBusy'
  BY <1>18 DEF MiddleOom
<1>19. CASE ZygoteForks
  BY <1>19 DEF ZygoteForks
<1>20. CASE ZygoteGoes
  BY <1>20 DEF ZygoteGoes
<1>21. CASE ZygoteReports
  BY <1>21 DEF ZygoteReports
<1>22. CASE ZygoteDies
  BY <1>22 DEF ZygoteDies
<1>23. CASE UNCHANGED zygoteVars
  BY <1>23 DEF zygoteVars
<1> HIDE DEF OneBusy, Busy, Typed, Go
<1> QED
  BY <1>1, <1>2, <1>3, <1>4, <1>5, <1>6, <1>7, <1>8, <1>9, <1>10, <1>11, <1>12, <1>13, <1>14,
     <1>15, <1>16, <1>17, <1>18, <1>19, <1>20, <1>21, <1>22, <1>23
  DEF ZygoteNext, EngineSteps, ForkSteps

(* The slot is emptied only together with the process in it.               *)
LEMMA NextKeepsSlotTells ==
  ASSUME Typed, SlotTells, [ZygoteNext]_zygoteVars
  PROVE  SlotTells'
<1> USE DEF SlotTells, Typed
<1>1. ASSUME NEW r \in Requests, DropMismatch(r) PROVE SlotTells'
  BY <1>1 DEF DropMismatch, AllForksDie, NoZygote
<1>2. ASSUME NEW r \in Requests, Reuse(r) PROVE SlotTells'
  BY <1>2 DEF Reuse
<1>3. ASSUME NEW r \in Requests, Boot(r) PROVE SlotTells'
  BY <1>3, ShapeAssumption DEF Boot
<1>4. ASSUME NEW r \in Requests, SendRequest(r) PROVE SlotTells'
  BY <1>4 DEF SendRequest
<1>5. ASSUME NEW r \in Requests, RecvForked(r) PROVE SlotTells'
  BY <1>5 DEF RecvForked
<1>6. ASSUME NEW r \in Requests, PlaceAndGo(r) PROVE SlotTells'
  BY <1>6 DEF PlaceAndGo
<1>7. ASSUME NEW r \in Requests, Deadline(r) PROVE SlotTells'
  BY <1>7 DEF Deadline
<1>8. ASSUME NEW r \in Requests, OverCap(r) PROVE SlotTells'
  BY <1>8 DEF OverCap
<1>9. ASSUME NEW r \in Requests, RecvStatus(r) PROVE SlotTells'
  BY <1>9 DEF RecvStatus
<1>10. ASSUME NEW r \in Requests, Finish(r) PROVE SlotTells'
  BY <1>10 DEF Finish
<1>11. ASSUME NEW r \in Requests, DropOnError(r) PROVE SlotTells'
  BY <1>11 DEF DropOnError, AllForksDie, NoZygote
<1>12. ASSUME NEW r \in Requests, FallbackExecve(r) PROVE SlotTells'
  BY <1>12 DEF FallbackExecve
<1>13. ASSUME NEW r \in Requests, MiddleForks(r) PROVE SlotTells'
  BY <1>13 DEF MiddleForks
<1>14. ASSUME NEW r \in Requests, GrandSetup(r) PROVE SlotTells'
  BY <1>14 DEF GrandSetup
<1>15. ASSUME NEW r \in Requests, GrandCloses(r) PROVE SlotTells'
  BY <1>15 DEF GrandCloses
<1>16. ASSUME NEW r \in Requests, GrandEnds(r) PROVE SlotTells'
  BY <1>16 DEF GrandEnds
<1>17. ASSUME NEW r \in Requests, MiddleEnds(r) PROVE SlotTells'
  BY <1>17 DEF MiddleEnds
<1>18. ASSUME NEW r \in Requests, MiddleOom(r) PROVE SlotTells'
  BY <1>18 DEF MiddleOom
<1>19. CASE ZygoteForks
  BY <1>19 DEF ZygoteForks
<1>20. CASE ZygoteGoes
  BY <1>20 DEF ZygoteGoes
<1>21. CASE ZygoteReports
  BY <1>21 DEF ZygoteReports
<1>22. CASE ZygoteDies
  BY <1>22 DEF ZygoteDies, AllForksDie, NoZygote
<1>23. CASE UNCHANGED zygoteVars
  BY <1>23 DEF zygoteVars
<1> HIDE DEF SlotTells, Typed
<1> QED
  BY <1>1, <1>2, <1>3, <1>4, <1>5, <1>6, <1>7, <1>8, <1>9, <1>10, <1>11, <1>12, <1>13, <1>14,
     <1>15, <1>16, <1>17, <1>18, <1>19, <1>20, <1>21, <1>22, <1>23
  DEF ZygoteNext, EngineSteps, ForkSteps

(* Every variable keeps its type; what remains of a request is in the types *)
(* of the forks and of the frames.                                         *)
LEMMA NextKeepsTyped ==
  ASSUME Typed, OneBusy, Conversation, Grand, Runs, [ZygoteNext]_zygoteVars
  PROVE  Typed'
<1> USE DEF Typed, Go, NoFault, Fault, socket, forks
<1>1. ASSUME NEW r \in Requests, DropMismatch(r) PROVE Typed'
  BY <1>1, ForksDieTyped, QueueTyped DEF DropMismatch, NoZygote
<1>2. ASSUME NEW r \in Requests, Reuse(r) PROVE Typed'
  BY <1>2 DEF Reuse, Loop0
<1>3. ASSUME NEW r \in Requests, Boot(r) PROVE Typed'
  <2>1. loop' \in [status : Requests \cup {None}, timeout : BOOLEAN, output : BOOLEAN]
    BY <1>3 DEF Boot, Loop0
  <2> QED
    BY <1>3, <2>1 DEF Boot
<1>4. ASSUME NEW r \in Requests, SendRequest(r) PROVE Typed'
  BY <1>4 DEF SendRequest
<1>5. ASSUME NEW r \in Requests, RecvForked(r) PROVE Typed'
  <2>1. toEngine' \in Seq(EngineFrames)
    BY <1>5, QueueTyped DEF RecvForked
  <2> QED
    BY <1>5, <2>1 DEF RecvForked
<1>6. ASSUME NEW r \in Requests, PlaceAndGo(r) PROVE Typed'
  <2>1. middle' = middle \/ middle' = [middle EXCEPT ![r].in = r]
    BY <1>6, PlacesOwn
  <2>2. middle' \in [Requests -> MiddleForms]
    BY <2>1 DEF MiddleForms
  <2> QED
    BY <1>6, <2>2 DEF PlaceAndGo
<1>7. ASSUME NEW r \in Requests, Deadline(r) PROVE Typed'
  BY <1>7, KillTyped DEF Deadline, Release
<1>8. ASSUME NEW r \in Requests, OverCap(r) PROVE Typed'
  BY <1>8, KillTyped DEF OverCap, Release
<1>9. ASSUME NEW r \in Requests, RecvStatus(r) PROVE Typed'
  <2>1. toEngine # <<>> => Head(toEngine) \in EngineFrames /\ Tail(toEngine) \in Seq(EngineFrames)
    BY QueueTyped
  <2>2. toEngine # <<>> => Head(toEngine).req \in Requests
    BY <2>1 DEF EngineFrames
  <2>3. toEngine' \in Seq(EngineFrames)
    BY <1>9, <2>1 DEF RecvStatus
  <2>4. loop' \in [status : Requests \cup {None}, timeout : BOOLEAN, output : BOOLEAN]
    BY <1>9, <2>2 DEF RecvStatus
  <2> QED
    BY <1>9, <2>3, <2>4 DEF RecvStatus
<1>10. ASSUME NEW r \in Requests, Finish(r) PROVE Typed'
  BY <1>10, KillTyped DEF Finish, Release
<1>11. ASSUME NEW r \in Requests, DropOnError(r) PROVE Typed'
  BY <1>11, ForksDieTyped, QueueTyped DEF DropOnError, NoZygote
<1>12. ASSUME NEW r \in Requests, FallbackExecve(r) PROVE Typed'
  <2>1. runs[r] + 1 \in 0..2
    BY <1>12 DEF FallbackExecve, Runs
  <2>2. runs' \in [Requests -> 0..2] /\ outcome' \in [Requests -> Requests \cup {None, "execve"}]
    BY <1>12, <2>1 DEF FallbackExecve
  <2> QED
    BY <1>12, <2>2 DEF FallbackExecve
<1>13. ASSUME NEW r \in Requests, MiddleForks(r) PROVE Typed'
  <2>1. middle' \in [Requests -> MiddleForms] /\ grand' \in [Requests -> GrandForms]
    BY <1>13 DEF MiddleForks, MiddleForms, GrandForms
  <2> QED
    BY <1>13, <2>1 DEF MiddleForks
<1>14. ASSUME NEW r \in Requests, GrandSetup(r) PROVE Typed'
  <2>1. grand' \in [Requests -> GrandForms]
    BY <1>14, SMTT(30) DEF GrandSetup, GrandForms, DeadFork
  <2>2. runs[r] + 1 \in 0..2
    BY <1>14 DEF GrandSetup, Runs
  <2>3. runs' = [runs EXCEPT ![r] = runs[r] + 1] \/ runs' = runs
    BY <1>14 DEF GrandSetup
  <2>4. runs' \in [Requests -> 0..2]
    BY <2>2, <2>3
  <2>5. stdio' = [stdio EXCEPT ![r] = FALSE] \/ stdio' = stdio
    BY <1>14 DEF GrandSetup
  <2>6. stdio' \in [Requests -> BOOLEAN]
    BY <2>5
  <2> QED
    BY <1>14, <2>1, <2>4, <2>6 DEF GrandSetup
<1>15. ASSUME NEW r \in Requests, GrandCloses(r) PROVE Typed'
  BY <1>15 DEF GrandCloses
<1>16. ASSUME NEW r \in Requests, GrandEnds(r) PROVE Typed'
  <2>1. grand' \in [Requests -> GrandForms]
    BY <1>16 DEF GrandEnds, GrandForms, DeadFork
  <2> QED
    BY <1>16, <2>1 DEF GrandEnds
<1>17. ASSUME NEW r \in Requests, MiddleEnds(r) PROVE Typed'
  <2>1. middle' \in [Requests -> MiddleForms]
    BY <1>17 DEF MiddleEnds, MiddleForms, DeadFork
  <2> QED
    BY <1>17, <2>1 DEF MiddleEnds
<1>18. ASSUME NEW r \in Requests, MiddleOom(r) PROVE Typed'
  <2>1. middle' \in [Requests -> MiddleForms]
    BY <1>18 DEF MiddleOom, MiddleForms, DeadFork
  <2> QED
    BY <1>18, <2>1 DEF MiddleOom
<1>19. CASE ZygoteForks
  <2>1. PICK r \in Requests : toZygote = <<Frame("request", r)>>
    BY <1>19, ForkRequest DEF ZygoteForks
  <2>2. Head(toZygote).req = r
    BY <2>1, ShortSequences DEF Frame
  <2>3. toEngine' \in Seq(EngineFrames)
    BY <1>19, <2>2, QueueTyped DEF ZygoteForks, EngineFrames, Frame
  <2>4. middle' \in [Requests -> MiddleForms] /\ stdio' \in [Requests -> BOOLEAN]
    BY <1>19, <2>2 DEF ZygoteForks, MiddleForms
  <2> QED
    BY <1>19, <2>2, <2>3, <2>4, NoneAssumption DEF ZygoteForks
<1>20. CASE ZygoteGoes
  <2>1. middle' \in [Requests -> MiddleForms]
    BY <1>20 DEF ZygoteGoes, MiddleForms, DeadFork
  <2> QED
    BY <1>20, <2>1 DEF ZygoteGoes
<1>21. CASE ZygoteReports
  <2>1. zygote.req \in Requests
    BY <1>21 DEF ZygoteReports
  <2>2. toEngine' \in Seq(EngineFrames)
    BY <1>21, <2>1, QueueTyped DEF ZygoteReports, EngineFrames, Frame
  <2> QED
    BY <1>21, <2>2 DEF ZygoteReports
<1>22. CASE ZygoteDies
  BY <1>22, ForksDieTyped, QueueTyped DEF ZygoteDies, NoZygote
<1>23. CASE UNCHANGED zygoteVars
  BY <1>23 DEF zygoteVars
<1> HIDE DEF Typed, Go, NoFault, Fault, socket, forks
<1> QED
  BY <1>1, <1>2, <1>3, <1>4, <1>5, <1>6, <1>7, <1>8, <1>9, <1>10, <1>11, <1>12, <1>13, <1>14,
     <1>15, <1>16, <1>17, <1>18, <1>19, <1>20, <1>21, <1>22, <1>23
  DEF ZygoteNext, EngineSteps, ForkSteps

(* The middle process runs for the request the zygote is with, is moved     *)
(* before it is released, and is released only by its own "go".            *)
LEMMA NextKeepsMiddle ==
  ASSUME Typed, OneBusy, SlotTells, Conversation, Middle, Grand, [ZygoteNext]_zygoteVars
  PROVE  Middle'
<1> USE DEF Middle, Running, NoFork, DeadFork, Typed, MiddleForms, GrandForms, Go, NoFault, socket, forks
<1>1. ASSUME NEW r \in Requests, DropMismatch(r) PROVE Middle'
  BY <1>1 DEF DropMismatch, AllForksDie, NoZygote
<1>2. ASSUME NEW r \in Requests, Reuse(r) PROVE Middle'
  BY <1>2 DEF Reuse
<1>3. ASSUME NEW r \in Requests, Boot(r) PROVE Middle'
  <2>1. zygote.st = "none"
    BY <1>3 DEF Boot, SlotTells
  <2> QED
    BY <1>3, <2>1 DEF Boot
<1>4. ASSUME NEW r \in Requests, SendRequest(r) PROVE Middle'
  BY <1>4 DEF SendRequest
<1>5. ASSUME NEW r \in Requests, RecvForked(r) PROVE Middle'
  BY <1>5 DEF RecvForked
<1>6. ASSUME NEW r \in Requests, PlaceAndGo(r) PROVE Middle'
  <2>1. CASE middle' = middle /\ pc' = [pc EXCEPT ![r] = "error"]
    BY <1>6, <2>1 DEF PlaceAndGo
  <2>2. CASE /\ zygote.st = "forked" /\ zygote.req = r /\ Running(middle[r])
             /\ middle' = [middle EXCEPT ![r].in = r] /\ pc' = [pc EXCEPT ![r] = "loop"]
    <3>1. zygote' = zygote /\ middle[r].st = "blocked"
      BY <1>6, <2>2 DEF PlaceAndGo
    <3> QED
      BY <2>2, <3>1
  <2> QED
    BY <1>6, <2>1, <2>2, PlacesOwn
<1>7. ASSUME NEW r \in Requests, Deadline(r) PROVE Middle'
  <2>1. /\ middle'[r] \in {middle[r], DeadFork} /\ ~Running(middle'[r])
        /\ grand'[r] \in {grand[r], DeadFork} /\ ~Running(grand'[r])
        /\ \A q \in Requests \ {r} : middle'[q] = middle[q] /\ grand'[q] = grand[q]
    BY <1>7, KillsOwn DEF Deadline, Release
  <2> QED
    BY <1>7, <2>1 DEF Deadline
<1>8. ASSUME NEW r \in Requests, OverCap(r) PROVE Middle'
  <2>1. /\ middle'[r] \in {middle[r], DeadFork} /\ ~Running(middle'[r])
        /\ grand'[r] \in {grand[r], DeadFork} /\ ~Running(grand'[r])
        /\ \A q \in Requests \ {r} : middle'[q] = middle[q] /\ grand'[q] = grand[q]
    BY <1>8, KillsOwn DEF OverCap, Release
  <2> QED
    BY <1>8, <2>1 DEF OverCap
<1>9. ASSUME NEW r \in Requests, RecvStatus(r) PROVE Middle'
  BY <1>9 DEF RecvStatus
<1>10. ASSUME NEW r \in Requests, Finish(r) PROVE Middle'
  <2>1. /\ middle'[r] \in {middle[r], DeadFork} /\ ~Running(middle'[r])
        /\ grand'[r] \in {grand[r], DeadFork} /\ ~Running(grand'[r])
        /\ \A q \in Requests \ {r} : middle'[q] = middle[q] /\ grand'[q] = grand[q]
    BY <1>10, KillsOwn DEF Finish, Release
  <2> QED
    BY <1>10, <2>1 DEF Finish
<1>11. ASSUME NEW r \in Requests, DropOnError(r) PROVE Middle'
  BY <1>11 DEF DropOnError, AllForksDie, NoZygote
<1>12. ASSUME NEW r \in Requests, FallbackExecve(r) PROVE Middle'
  BY <1>12 DEF FallbackExecve
<1>13. ASSUME NEW r \in Requests, MiddleForks(r) PROVE Middle'
  BY <1>13 DEF MiddleForks
<1>14. ASSUME NEW r \in Requests, GrandSetup(r) PROVE Middle'
  BY <1>14 DEF GrandSetup
<1>15. ASSUME NEW r \in Requests, GrandCloses(r) PROVE Middle'
  BY <1>15 DEF GrandCloses
<1>16. ASSUME NEW r \in Requests, GrandEnds(r) PROVE Middle'
  BY <1>16 DEF GrandEnds
<1>17. ASSUME NEW r \in Requests, MiddleEnds(r) PROVE Middle'
  BY <1>17 DEF MiddleEnds
<1>18. ASSUME NEW r \in Requests, MiddleOom(r) PROVE Middle'
  BY <1>18 DEF MiddleOom
<1>19. CASE ZygoteForks
  <2>1. PICK r \in Requests : /\ toZygote = <<Frame("request", r)>> /\ middle[r] = NoFork
                             /\ pc[r] \in {"forked", "error"}
    BY <1>19, ForkRequest DEF ZygoteForks
  <2>2. Head(toZygote).req = r
    BY <2>1, ShortSequences DEF Frame
  <2> QED
    BY <1>19, <2>1, <2>2 DEF ZygoteForks
<1>20. CASE ZygoteGoes
  <2>1. PICK q \in Requests : zygote.req = q
    BY <1>20 DEF ZygoteGoes
  <2>2. pc[q] = "done" \/ pc[q] = "loop"
    BY <1>20, <2>1, Released DEF ZygoteGoes
  <2> QED
    BY <1>20, <2>1, <2>2 DEF ZygoteGoes
<1>21. CASE ZygoteReports
  BY <1>21 DEF ZygoteReports
<1>22. CASE ZygoteDies
  BY <1>22 DEF ZygoteDies, AllForksDie, NoZygote
<1>23. CASE UNCHANGED zygoteVars
  BY <1>23 DEF zygoteVars
<1> HIDE DEF Middle, Running, NoFork, DeadFork, Typed, MiddleForms, GrandForms, Go, NoFault, socket, forks
<1> QED
  BY <1>1, <1>2, <1>3, <1>4, <1>5, <1>6, <1>7, <1>8, <1>9, <1>10, <1>11, <1>12, <1>13, <1>14,
     <1>15, <1>16, <1>17, <1>18, <1>19, <1>20, <1>21, <1>22, <1>23
  DEF ZygoteNext, EngineSteps, ForkSteps

(* The grandchild is forked in the cgroup of its request, and is gone when   *)
(* the engine leaves the loop.                                              *)
LEMMA NextKeepsGrand ==
  ASSUME Typed, OneBusy, Conversation, Middle, Grand, [ZygoteNext]_zygoteVars
  PROVE  Grand'
<1> USE DEF Grand, Running, NoFork, DeadFork, Typed, MiddleForms, GrandForms, Go, NoFault, socket, forks
<1>1. ASSUME NEW r \in Requests, DropMismatch(r) PROVE Grand'
  BY <1>1 DEF DropMismatch, AllForksDie, NoZygote
<1>2. ASSUME NEW r \in Requests, Reuse(r) PROVE Grand'
  BY <1>2 DEF Reuse
<1>3. ASSUME NEW r \in Requests, Boot(r) PROVE Grand'
  BY <1>3 DEF Boot
<1>4. ASSUME NEW r \in Requests, SendRequest(r) PROVE Grand'
  BY <1>4 DEF SendRequest
<1>5. ASSUME NEW r \in Requests, RecvForked(r) PROVE Grand'
  BY <1>5 DEF RecvForked
<1>6. ASSUME NEW r \in Requests, PlaceAndGo(r) PROVE Grand'
  BY <1>6 DEF PlaceAndGo
<1>7. ASSUME NEW r \in Requests, Deadline(r) PROVE Grand'
  <2>1. /\ middle'[r] \in {middle[r], DeadFork} /\ ~Running(middle'[r])
        /\ grand'[r] \in {grand[r], DeadFork} /\ ~Running(grand'[r])
        /\ \A q \in Requests \ {r} : middle'[q] = middle[q] /\ grand'[q] = grand[q]
    BY <1>7, KillsOwn DEF Deadline, Release
  <2> QED
    BY <1>7, <2>1 DEF Deadline
<1>8. ASSUME NEW r \in Requests, OverCap(r) PROVE Grand'
  <2>1. /\ middle'[r] \in {middle[r], DeadFork} /\ ~Running(middle'[r])
        /\ grand'[r] \in {grand[r], DeadFork} /\ ~Running(grand'[r])
        /\ \A q \in Requests \ {r} : middle'[q] = middle[q] /\ grand'[q] = grand[q]
    BY <1>8, KillsOwn DEF OverCap, Release
  <2> QED
    BY <1>8, <2>1 DEF OverCap
<1>9. ASSUME NEW r \in Requests, RecvStatus(r) PROVE Grand'
  BY <1>9 DEF RecvStatus
<1>10. ASSUME NEW r \in Requests, Finish(r) PROVE Grand'
  <2>1. /\ middle'[r] \in {middle[r], DeadFork} /\ ~Running(middle'[r])
        /\ grand'[r] \in {grand[r], DeadFork} /\ ~Running(grand'[r])
        /\ \A q \in Requests \ {r} : middle'[q] = middle[q] /\ grand'[q] = grand[q]
    BY <1>10, KillsOwn DEF Finish, Release
  <2> QED
    BY <1>10, <2>1 DEF Finish
<1>11. ASSUME NEW r \in Requests, DropOnError(r) PROVE Grand'
  BY <1>11 DEF DropOnError, AllForksDie, NoZygote
<1>12. ASSUME NEW r \in Requests, FallbackExecve(r) PROVE Grand'
  BY <1>12 DEF FallbackExecve
<1>13. ASSUME NEW r \in Requests, MiddleForks(r) PROVE Grand'
  <2>1. middle[r].in = r /\ pc[r] \in {"loop", "error"}
    BY <1>13 DEF MiddleForks, Middle
  <2>2. grand'[r] = [st |-> "setup", in |-> r] /\ \A q \in Requests \ {r} : grand'[q] = grand[q]
    BY <1>13, <2>1 DEF MiddleForks
  <2> QED
    BY <1>13, <2>1, <2>2 DEF MiddleForks
<1>14. ASSUME NEW r \in Requests, GrandSetup(r) PROVE Grand'
  BY <1>14, SMTT(30) DEF GrandSetup
<1>15. ASSUME NEW r \in Requests, GrandCloses(r) PROVE Grand'
  BY <1>15 DEF GrandCloses
<1>16. ASSUME NEW r \in Requests, GrandEnds(r) PROVE Grand'
  BY <1>16 DEF GrandEnds
<1>17. ASSUME NEW r \in Requests, MiddleEnds(r) PROVE Grand'
  BY <1>17 DEF MiddleEnds
<1>18. ASSUME NEW r \in Requests, MiddleOom(r) PROVE Grand'
  BY <1>18 DEF MiddleOom
<1>19. CASE ZygoteForks
  <2>1. PICK r \in Requests : /\ toZygote = <<Frame("request", r)>> /\ middle[r] = NoFork
                             /\ pc[r] \in {"forked", "error"}
    BY <1>19, ForkRequest DEF ZygoteForks
  <2>2. Head(toZygote).req = r
    BY <2>1, ShortSequences DEF Frame
  <2> QED
    BY <1>19, <2>1, <2>2 DEF ZygoteForks
<1>20. CASE ZygoteGoes
  BY <1>20 DEF ZygoteGoes
<1>21. CASE ZygoteReports
  BY <1>21 DEF ZygoteReports
<1>22. CASE ZygoteDies
  BY <1>22 DEF ZygoteDies, AllForksDie, NoZygote
<1>23. CASE UNCHANGED zygoteVars
  BY <1>23 DEF zygoteVars
<1> HIDE DEF Grand, Running, NoFork, DeadFork, Typed, MiddleForms, GrandForms, Go, NoFault, socket, forks
<1> QED
  BY <1>1, <1>2, <1>3, <1>4, <1>5, <1>6, <1>7, <1>8, <1>9, <1>10, <1>11, <1>12, <1>13, <1>14,
     <1>15, <1>16, <1>17, <1>18, <1>19, <1>20, <1>21, <1>22, <1>23
  DEF ZygoteNext, EngineSteps, ForkSteps

(* User code is started at most once before the fallback.                   *)
LEMMA NextKeepsRuns ==
  ASSUME Typed, OneBusy, Conversation, Middle, Grand, Runs, [ZygoteNext]_zygoteVars
  PROVE  Runs'
<1> USE DEF Runs, Running, NoFork, DeadFork, Typed, MiddleForms, GrandForms, Go, NoFault, socket, forks
<1>1. ASSUME NEW r \in Requests, DropMismatch(r) PROVE Runs'
  BY <1>1 DEF DropMismatch, AllForksDie, NoZygote
<1>2. ASSUME NEW r \in Requests, Reuse(r) PROVE Runs'
  BY <1>2 DEF Reuse
<1>3. ASSUME NEW r \in Requests, Boot(r) PROVE Runs'
  BY <1>3 DEF Boot
<1>4. ASSUME NEW r \in Requests, SendRequest(r) PROVE Runs'
  BY <1>4 DEF SendRequest
<1>5. ASSUME NEW r \in Requests, RecvForked(r) PROVE Runs'
  BY <1>5 DEF RecvForked
<1>6. ASSUME NEW r \in Requests, PlaceAndGo(r) PROVE Runs'
  BY <1>6, SMTT(30) DEF PlaceAndGo
<1>7. ASSUME NEW r \in Requests, Deadline(r) PROVE Runs'
  <2>1. /\ middle'[r] \in {middle[r], DeadFork} /\ ~Running(middle'[r])
        /\ grand'[r] \in {grand[r], DeadFork} /\ ~Running(grand'[r])
        /\ \A q \in Requests \ {r} : middle'[q] = middle[q] /\ grand'[q] = grand[q]
    BY <1>7, KillsOwn DEF Deadline, Release
  <2>2. pc' = pc /\ runs' = runs
    BY <1>7 DEF Deadline
  <2> QED
    BY <2>1, <2>2
<1>8. ASSUME NEW r \in Requests, OverCap(r) PROVE Runs'
  <2>1. /\ middle'[r] \in {middle[r], DeadFork} /\ ~Running(middle'[r])
        /\ grand'[r] \in {grand[r], DeadFork} /\ ~Running(grand'[r])
        /\ \A q \in Requests \ {r} : middle'[q] = middle[q] /\ grand'[q] = grand[q]
    BY <1>8, KillsOwn DEF OverCap, Release
  <2>2. pc' = pc /\ runs' = runs
    BY <1>8 DEF OverCap
  <2> QED
    BY <2>1, <2>2
<1>9. ASSUME NEW r \in Requests, RecvStatus(r) PROVE Runs'
  BY <1>9 DEF RecvStatus
<1>10. ASSUME NEW r \in Requests, Finish(r) PROVE Runs'
  <2>1. /\ middle'[r] \in {middle[r], DeadFork} /\ ~Running(middle'[r])
        /\ grand'[r] \in {grand[r], DeadFork} /\ ~Running(grand'[r])
        /\ \A q \in Requests \ {r} : middle'[q] = middle[q] /\ grand'[q] = grand[q]
    BY <1>10, KillsOwn DEF Finish, Release
  <2> QED
    BY <1>10, <2>1 DEF Finish
<1>11. ASSUME NEW r \in Requests, DropOnError(r) PROVE Runs'
  BY <1>11 DEF DropOnError, AllForksDie, NoZygote
<1>12. ASSUME NEW r \in Requests, FallbackExecve(r) PROVE Runs'
  <2>1. grand[r].st # "setup" /\ pc'[r] = "done"
    BY <1>12, SMTT(30) DEF FallbackExecve, Grand
  <2>2. \A q \in Requests \ {r} : runs'[q] = runs[q] /\ pc'[q] = pc[q]
    BY <1>12 DEF FallbackExecve
  <2> QED
    BY <1>12, <2>1, <2>2 DEF FallbackExecve
<1>13. ASSUME NEW r \in Requests, MiddleForks(r) PROVE Runs'
  <2>1. pc[r] # "done" /\ runs[r] = 0
    BY <1>13 DEF MiddleForks, Middle
  <2>2. /\ grand'[r].st = "setup" /\ middle'[r].st = "waiting"
        /\ \A q \in Requests \ {r} : grand'[q] = grand[q] /\ middle'[q] = middle[q]
    BY <1>13 DEF MiddleForks
  <2> QED
    BY <1>13, <2>1, <2>2 DEF MiddleForks
<1>14. ASSUME NEW r \in Requests, GrandSetup(r) PROVE Runs'
  <2>1. pc[r] # "done" /\ runs[r] = 0 /\ middle[r].st \in {"waiting", "dead"}
    BY <1>14 DEF GrandSetup, Grand
  <2>2. grand'[r].st # "setup" /\ \A q \in Requests \ {r} : grand'[q] = grand[q]
    BY <1>14 DEF GrandSetup
  <2>3. runs' = runs \/ runs' = [runs EXCEPT ![r] = runs[r] + 1]
    BY <1>14 DEF GrandSetup
  <2>4. runs'[r] \in {0, 1} /\ \A q \in Requests \ {r} : runs'[q] = runs[q]
    BY <2>1, <2>3
  <2> QED
    BY <1>14, <2>1, <2>2, <2>4 DEF GrandSetup
<1>15. ASSUME NEW r \in Requests, GrandCloses(r) PROVE Runs'
  BY <1>15 DEF GrandCloses
<1>16. ASSUME NEW r \in Requests, GrandEnds(r) PROVE Runs'
  BY <1>16 DEF GrandEnds
<1>17. ASSUME NEW r \in Requests, MiddleEnds(r) PROVE Runs'
  BY <1>17 DEF MiddleEnds
<1>18. ASSUME NEW r \in Requests, MiddleOom(r) PROVE Runs'
  BY <1>18 DEF MiddleOom
<1>19. CASE ZygoteForks
  <2>1. PICK r \in Requests : /\ toZygote = <<Frame("request", r)>> /\ middle[r] = NoFork
                             /\ pc[r] \in {"forked", "error"}
    BY <1>19, ForkRequest DEF ZygoteForks
  <2>2. Head(toZygote).req = r
    BY <2>1, ShortSequences DEF Frame
  <2> QED
    BY <1>19, <2>1, <2>2 DEF ZygoteForks
<1>20. CASE ZygoteGoes
  BY <1>20 DEF ZygoteGoes
<1>21. CASE ZygoteReports
  BY <1>21 DEF ZygoteReports
<1>22. CASE ZygoteDies
  BY <1>22 DEF ZygoteDies, AllForksDie, NoZygote
<1>23. CASE UNCHANGED zygoteVars
  BY <1>23 DEF zygoteVars
<1> HIDE DEF Runs, Running, NoFork, DeadFork, Typed, MiddleForms, GrandForms, Go, NoFault, socket, forks
<1> QED
  BY <1>1, <1>2, <1>3, <1>4, <1>5, <1>6, <1>7, <1>8, <1>9, <1>10, <1>11, <1>12, <1>13, <1>14,
     <1>15, <1>16, <1>17, <1>18, <1>19, <1>20, <1>21, <1>22, <1>23
  DEF ZygoteNext, EngineSteps, ForkSteps

(* serve starts with no status, and one comes only in the loop.              *)
LEMMA NextKeepsStatusFresh ==
  ASSUME Typed, OneBusy, StatusFresh, [ZygoteNext]_zygoteVars
  PROVE  StatusFresh'
<1> USE DEF StatusFresh, Typed, Go, Loop0
<1>1. ASSUME NEW r \in Requests, DropMismatch(r) PROVE StatusFresh'
  BY <1>1 DEF DropMismatch
<1>2. ASSUME NEW r \in Requests, Reuse(r) PROVE StatusFresh'
  BY <1>2 DEF Reuse
<1>3. ASSUME NEW r \in Requests, Boot(r) PROVE StatusFresh'
  BY <1>3 DEF Boot
<1>4. ASSUME NEW r \in Requests, SendRequest(r) PROVE StatusFresh'
  BY <1>4 DEF SendRequest
<1>5. ASSUME NEW r \in Requests, RecvForked(r) PROVE StatusFresh'
  BY <1>5 DEF RecvForked
<1>6. ASSUME NEW r \in Requests, PlaceAndGo(r) PROVE StatusFresh'
  BY <1>6 DEF PlaceAndGo
<1>7. ASSUME NEW r \in Requests, Deadline(r) PROVE StatusFresh'
  BY <1>7 DEF Deadline
<1>8. ASSUME NEW r \in Requests, OverCap(r) PROVE StatusFresh'
  BY <1>8 DEF OverCap
<1>9. ASSUME NEW r \in Requests, RecvStatus(r) PROVE StatusFresh'
  <2>1. \A q \in Requests \ {r} : pc[q] \in {"idle", "done"}
    BY <1>9, Alone DEF RecvStatus
  <2> QED
    BY <1>9, <2>1, SMTT(30) DEF RecvStatus
<1>10. ASSUME NEW r \in Requests, Finish(r) PROVE StatusFresh'
  BY <1>10 DEF Finish
<1>11. ASSUME NEW r \in Requests, DropOnError(r) PROVE StatusFresh'
  BY <1>11 DEF DropOnError
<1>12. ASSUME NEW r \in Requests, FallbackExecve(r) PROVE StatusFresh'
  BY <1>12 DEF FallbackExecve
<1>13. ASSUME NEW r \in Requests, MiddleForks(r) PROVE StatusFresh'
  BY <1>13 DEF MiddleForks
<1>14. ASSUME NEW r \in Requests, GrandSetup(r) PROVE StatusFresh'
  BY <1>14 DEF GrandSetup
<1>15. ASSUME NEW r \in Requests, GrandCloses(r) PROVE StatusFresh'
  BY <1>15 DEF GrandCloses
<1>16. ASSUME NEW r \in Requests, GrandEnds(r) PROVE StatusFresh'
  BY <1>16 DEF GrandEnds
<1>17. ASSUME NEW r \in Requests, MiddleEnds(r) PROVE StatusFresh'
  BY <1>17 DEF MiddleEnds
<1>18. ASSUME NEW r \in Requests, MiddleOom(r) PROVE StatusFresh'
  BY <1>18 DEF MiddleOom
<1>19. CASE ZygoteForks
  BY <1>19 DEF ZygoteForks
<1>20. CASE ZygoteGoes
  BY <1>20 DEF ZygoteGoes
<1>21. CASE ZygoteReports
  BY <1>21 DEF ZygoteReports
<1>22. CASE ZygoteDies
  BY <1>22 DEF ZygoteDies
<1>23. CASE UNCHANGED zygoteVars
  BY <1>23 DEF zygoteVars
<1> HIDE DEF StatusFresh, Typed, Go, Loop0
<1> QED
  BY <1>1, <1>2, <1>3, <1>4, <1>5, <1>6, <1>7, <1>8, <1>9, <1>10, <1>11, <1>12, <1>13, <1>14,
     <1>15, <1>16, <1>17, <1>18, <1>19, <1>20, <1>21, <1>22, <1>23
  DEF ZygoteNext, EngineSteps, ForkSteps

(* The zygote reads a go that nobody waits for any more.                   *)
LEMMA GoesQuietly ==
  ASSUME Typed, Quiet, ZygoteGoes PROVE Quiet'
<1>1. Behind /\ toZygote = <<Frame("go", zygote.req)>>
  BY DEF ZygoteGoes, Quiet
<1>2. toZygote' = <<>>
  BY <1>1, ShortSequences DEF ZygoteGoes
<1>3. zygote'.st = "waiting" /\ zygote'.req = zygote.req /\ pc' = pc /\ toEngine' = toEngine
  BY DEF ZygoteGoes, Typed
<1> QED
  BY <1>1, <1>2, <1>3 DEF Quiet, Behind

(* Every step leaves the sockets and the zygote as the next point of the     *)
(* conversation has them.                                                    *)
LEMMA NextKeepsConversation ==
  ASSUME Typed, Typed', OneBusy, SlotTells, StatusFresh, Conversation, Middle, Grand, [ZygoteNext]_zygoteVars
  PROVE  Conversation'
<1>1. ASSUME NEW r \in Requests, DropMismatch(r) PROVE Conversation'
  <2>1. Quiet'
    BY <1>1 DEF DropMismatch, AllForksDie, Quiet, Leftover, NoZygote
  <2>2. \A q \in Requests : pc'[q] \in {"idle", "done"}
    BY <1>1 DEF DropMismatch, Busy, Typed
  <2> QED
    BY <2>1, <2>2 DEF Conversation
<1>2. ASSUME NEW r \in Requests, Reuse(r) PROVE Conversation'
  <2>1. Quiet
    BY <1>2, NobodyTalks DEF Reuse
  <2>2. \A q \in Requests \ {r} : pc[q] \in {"idle", "done"} /\ pc'[q] = pc[q]
    BY <1>2 DEF Reuse, Busy, Typed, Go
  <2>3. Quiet'
    BY <1>2, <2>1, <2>2 DEF Reuse, Quiet, Leftover, Behind, socket, Go, Typed
  <2> QED
    BY <1>2, <2>2, <2>3 DEF Reuse, Conversation, Go, Typed
<1>3. ASSUME NEW r \in Requests, Boot(r) PROVE Conversation'
  <2>1. Quiet
    BY <1>3, NobodyTalks DEF Boot
  <2>2. \A q \in Requests \ {r} : pc[q] \in {"idle", "done"} /\ pc'[q] = pc[q]
    BY <1>3 DEF Boot, Busy, Typed, Go
  <2>3. zygote.st = "none" /\ zygote'.st \in {"none", "idle"}
    BY <1>3 DEF Boot, SlotTells
  <2>4. toZygote' = <<>> /\ Leftover
    BY <1>3, <2>1, <2>3 DEF Boot, Quiet, socket
  <2>5. Leftover'
    BY <1>3, <2>2, <2>4 DEF Boot, Leftover, socket, Go, Typed
  <2>6. Quiet'
    BY <2>3, <2>4, <2>5 DEF Quiet
  <2> QED
    BY <1>3, <2>2, <2>6 DEF Boot, Conversation, Go, Typed
<1>4. ASSUME NEW r \in Requests, SendRequest(r) PROVE Conversation'
  <2>1. \A q \in Requests \ {r} : pc[q] \in {"idle", "done"} /\ pc'[q] = pc[q]
    BY <1>4, Alone DEF SendRequest, Typed, Go
  <2>2. \A q \in Requests : pc[q] = "done" => pc'[q] = "done"
    BY <1>4 DEF SendRequest, Go, Typed
  <2>3. Quiet /\ middle'[r] = NoFork /\ toEngine' = toEngine /\ zygote' = zygote
    BY <1>4, <2>1 DEF SendRequest, Conversation, Middle, forks
  <2>4. CASE zygote.st = "none"
    <3>1. Failed(r)' /\ pc'[r] = "error"
      BY <1>4, <2>3, <2>4 DEF SendRequest, Quiet, Failed, Go, Typed
    <3> QED
      BY <2>1, <3>1, TalkEnds DEF Typed
  <2>5. CASE zygote.st # "none"
    <3>1. toZygote' = Append(toZygote, Frame("request", r)) /\ pc'[r] = "forked"
      BY <1>4, <2>5 DEF SendRequest, Go, Typed
    <3>2. Leftover
      BY <2>3 DEF Quiet, Behind, Leftover
    <3>3. Leftover'
      BY <2>2, <2>3, <3>2, LeftoverKept
    <3>4. ASSUME toZygote = <<>>, zygote.st \in {"idle", "waiting"} PROVE Sent(r)'
      <4>1. toZygote' = <<Frame("request", r)>>
        BY <3>1, <3>4, ShortSequences
      <4>2. Unread(r)' /\ (zygote'.st \in {"forked", "waiting"} => toEngine' = <<>>)
        BY <2>2, <2>3, <3>4, <4>1 DEF Quiet, Unread, Behind, Typed
      <4> QED
        BY <3>3, <4>2 DEF Sent
    <3>5. ASSUME zygote.st = "forked", Behind, toZygote = <<Frame("go", zygote.req)>>
          PROVE  Sent(r)'
      <4>1. toZygote' = <<Frame("go", zygote.req), Frame("request", r)>>
        BY <3>1, <3>5, ShortSequences
      <4>2. Unread(r)' /\ (zygote'.st \in {"forked", "waiting"} => toEngine' = <<>>)
        BY <2>2, <2>3, <3>5, <4>1 DEF Unread, Behind, Typed
      <4> QED
        BY <3>3, <4>2 DEF Sent
    <3>6. Sent(r)'
      BY <2>3, <2>5, <3>4, <3>5 DEF Quiet
    <3> QED
      BY <2>1, <3>1, <3>6, TalkEnds DEF Typed
  <2> QED
    BY <2>4, <2>5
<1>5. ASSUME NEW r \in Requests, RecvForked(r) PROVE Conversation'
  <2>1. \A q \in Requests \ {r} : pc[q] \in {"idle", "done"} /\ pc'[q] = pc[q]
    BY <1>5, Alone DEF RecvForked, Typed, Go
  <2>2. \A q \in Requests : pc[q] = "done" => pc'[q] = "done"
    BY <1>5 DEF RecvForked, Go, Typed
  <2>3. /\ Sent(r) /\ UNCHANGED <<zygote, toZygote, middle>>
        /\ pc'[r] \in {"place", "error"}
        /\ pc'[r] = "place" => /\ toEngine # <<>> /\ Head(toEngine).type = "forked"
                              /\ toEngine' = Tail(toEngine)
    BY <1>5 DEF RecvForked, Conversation, forks, Go, Typed
  <2>4. CASE pc'[r] = "error"
    <3>1. Unread(r) => Unread(r)'
      BY <2>2, <2>3 DEF Unread, Typed
    <3>2. Failed(r)'
      BY <2>3, <3>1 DEF Sent, Failed
    <3> QED
      BY <2>1, <2>4, <3>2, TalkEnds DEF Typed
  <2>5. CASE pc'[r] = "place"
    <3>1. ~Leftover
      BY <2>3, <2>5, ShortSequences DEF Leftover, Frame
    <3>2. toEngine = <<Frame("forked", r)>>
      BY <2>3, <2>5, <3>1, ShortSequences DEF Sent, Frame
    <3>3. Placing(r)'
      BY <2>3, <2>5, <3>1, <3>2, ShortSequences DEF Sent, Placing
    <3> QED
      BY <2>1, <2>5, <3>3, TalkEnds DEF Typed
  <2> QED
    BY <2>3, <2>4, <2>5
<1>6. ASSUME NEW r \in Requests, PlaceAndGo(r) PROVE Conversation'
  <2>1. \A q \in Requests \ {r} : pc[q] \in {"idle", "done"} /\ pc'[q] = pc[q]
    BY <1>6, Alone DEF PlaceAndGo, Typed, Go
  <2>2. Placing(r) /\ UNCHANGED <<zygote, toEngine, loop>>
    BY <1>6 DEF PlaceAndGo, Conversation
  <2>3. CASE /\ zygote.st = "forked" /\ zygote.req = r
             /\ toZygote' = <<Frame("go", r)>> /\ pc' = [pc EXCEPT ![r] = "loop"]
    <3>1. loop.status = None
      BY <1>6 DEF PlaceAndGo, StatusFresh
    <3>2. Serving(r)' /\ pc'[r] = "loop"
      BY <2>2, <2>3, <3>1 DEF Placing, Serving, Typed
    <3> QED
      BY <2>1, <3>2, TalkEnds DEF Typed
  <2>4. CASE toZygote' = toZygote /\ pc' = [pc EXCEPT ![r] = "error"]
    <3>1. Failed(r)' /\ pc'[r] = "error"
      BY <2>2, <2>4 DEF Placing, Failed, Typed
    <3> QED
      BY <2>1, <3>1, TalkEnds DEF Typed
  <2> QED
    BY <1>6, <2>3, <2>4, PlacesOwn
<1>7. ASSUME NEW r \in Requests, Deadline(r) PROVE Conversation'
  <2>1. \A q \in Requests : middle[q] = NoFork => middle'[q] = NoFork
    BY <1>7, NoneAssumption DEF Deadline, NoFork, KillCgroup
  <2>2. UNCHANGED <<pc, zygote, toZygote, toEngine>> /\ loop'.status = loop.status
    BY <1>7 DEF Deadline, socket, Typed
  <2> QED
    BY <2>1, <2>2, NothingSaid
<1>8. ASSUME NEW r \in Requests, OverCap(r) PROVE Conversation'
  <2>1. \A q \in Requests : middle[q] = NoFork => middle'[q] = NoFork
    BY <1>8, NoneAssumption DEF OverCap, NoFork, KillCgroup
  <2>2. UNCHANGED <<pc, zygote, toZygote, toEngine>> /\ loop'.status = loop.status
    BY <1>8 DEF OverCap, socket, Typed
  <2> QED
    BY <2>1, <2>2, NothingSaid
<1>9. ASSUME NEW r \in Requests, RecvStatus(r) PROVE Conversation'
  <2>1. \A q \in Requests \ {r} : pc[q] \in {"idle", "done"} /\ pc'[q] = pc[q]
    BY <1>9, Alone DEF RecvStatus, Typed, Go
  <2>2. Serving(r) /\ UNCHANGED <<zygote, toZygote>> /\ loop.status = None
    BY <1>9 DEF RecvStatus, Conversation
  <2>3. CASE toEngine # <<>>
    <3>1. toEngine = <<Frame("status", r)>>
      BY <2>2, <2>3 DEF Serving
    <3>2. pc'[r] = "loop" /\ loop'.status = r /\ toEngine' = <<>>
      BY <1>9, <3>1, ShortSequences DEF RecvStatus, Go, Typed, Frame
    <3>3. Serving(r)'
      BY <2>2, <3>1, <3>2, ShortSequences DEF Serving
    <3> QED
      BY <2>1, <3>2, <3>3, TalkEnds DEF Typed
  <2>4. CASE toEngine = <<>>
    <3>1. zygote.st = "none" /\ pc'[r] = "error"
      BY <1>9, <2>4 DEF RecvStatus, Go, Typed
    <3>2. Failed(r)'
      BY <2>2, <3>1 DEF Serving, Failed
    <3> QED
      BY <2>1, <3>1, <3>2, TalkEnds DEF Typed
  <2> QED
    BY <2>3, <2>4
<1>10. ASSUME NEW r \in Requests, Finish(r) PROVE Conversation'
  <2>1. \A q \in Requests \ {r} : pc[q] \in {"idle", "done"} /\ pc'[q] = pc[q]
    BY <1>10, Alone DEF Finish, Typed, Go
  <2>2. Serving(r) /\ UNCHANGED <<zygote, toZygote, toEngine>> /\ pc'[r] = "done"
    BY <1>10 DEF Finish, Conversation, socket, Go, Typed
  <2>3. Quiet'
    BY <2>2 DEF Serving, Quiet, Leftover, Behind
  <2> QED
    BY <2>1, <2>2, <2>3, TalkEnds DEF Typed
<1>11. ASSUME NEW r \in Requests, DropOnError(r) PROVE Conversation'
  <2>1. \A q \in Requests \ {r} : pc[q] \in {"idle", "done"} /\ pc'[q] = pc[q]
    BY <1>11, Alone DEF DropOnError, Typed, Go
  <2>2. Quiet' /\ pc'[r] = "execve"
    BY <1>11 DEF DropOnError, AllForksDie, NoZygote, Quiet, Leftover, Go, Typed
  <2> QED
    BY <2>1, <2>2, TalkEnds DEF Typed
<1>12. ASSUME NEW r \in Requests, FallbackExecve(r) PROVE Conversation'
  <2>1. \A q \in Requests \ {r} : pc[q] \in {"idle", "done"} /\ pc'[q] = pc[q]
    BY <1>12, Alone DEF FallbackExecve, Typed, Go
  <2>2. \A q \in Requests : pc[q] = "done" => pc'[q] = "done"
    BY <1>12 DEF FallbackExecve, Go, Typed
  <2>3. Quiet /\ UNCHANGED <<zygote, toZygote, toEngine>> /\ pc'[r] = "done"
    BY <1>12, <2>1 DEF FallbackExecve, Conversation, socket, Go, Typed
  <2>4. Leftover => Leftover'
    BY <2>2, <2>3, LeftoverKept
  <2>5. Quiet'
    BY <2>2, <2>3, <2>4 DEF Quiet, Behind, Typed
  <2> QED
    BY <2>1, <2>3, <2>5, TalkEnds DEF Typed
<1>13. ASSUME NEW r \in Requests, MiddleForks(r) PROVE Conversation'
  <2>1. \A q \in Requests : middle[q] = NoFork => middle'[q] = NoFork
    BY <1>13 DEF MiddleForks, NoFork, DeadFork, Typed, MiddleForms, forks, Running
  <2>2. UNCHANGED <<pc, zygote, toZygote, toEngine>> /\ loop'.status = loop.status
    BY <1>13 DEF MiddleForks, socket, Typed
  <2> QED
    BY <2>1, <2>2, NothingSaid
<1>14. ASSUME NEW r \in Requests, GrandSetup(r) PROVE Conversation'
  <2>1. \A q \in Requests : middle[q] = NoFork => middle'[q] = NoFork
    BY <1>14 DEF GrandSetup, NoFork, DeadFork, Typed, MiddleForms, forks, Running
  <2>2. UNCHANGED <<pc, zygote, toZygote, toEngine>> /\ loop'.status = loop.status
    BY <1>14 DEF GrandSetup, socket, Typed
  <2> QED
    BY <2>1, <2>2, NothingSaid
<1>15. ASSUME NEW r \in Requests, GrandCloses(r) PROVE Conversation'
  <2>1. \A q \in Requests : middle[q] = NoFork => middle'[q] = NoFork
    BY <1>15 DEF GrandCloses, NoFork, DeadFork, Typed, MiddleForms, forks, Running
  <2>2. UNCHANGED <<pc, zygote, toZygote, toEngine>> /\ loop'.status = loop.status
    BY <1>15 DEF GrandCloses, socket, Typed
  <2> QED
    BY <2>1, <2>2, NothingSaid
<1>16. ASSUME NEW r \in Requests, GrandEnds(r) PROVE Conversation'
  <2>1. \A q \in Requests : middle[q] = NoFork => middle'[q] = NoFork
    BY <1>16 DEF GrandEnds, NoFork, DeadFork, Typed, MiddleForms, forks, Running
  <2>2. UNCHANGED <<pc, zygote, toZygote, toEngine>> /\ loop'.status = loop.status
    BY <1>16 DEF GrandEnds, socket, Typed
  <2> QED
    BY <2>1, <2>2, NothingSaid
<1>17. ASSUME NEW r \in Requests, MiddleEnds(r) PROVE Conversation'
  <2>1. \A q \in Requests : middle[q] = NoFork => middle'[q] = NoFork
    BY <1>17 DEF MiddleEnds, NoFork, DeadFork, Typed, MiddleForms, forks, Running
  <2>2. UNCHANGED <<pc, zygote, toZygote, toEngine>> /\ loop'.status = loop.status
    BY <1>17 DEF MiddleEnds, socket, Typed
  <2> QED
    BY <2>1, <2>2, NothingSaid
<1>18. ASSUME NEW r \in Requests, MiddleOom(r) PROVE Conversation'
  <2>1. \A q \in Requests : middle[q] = NoFork => middle'[q] = NoFork
    BY <1>18 DEF MiddleOom, NoFork, DeadFork, Typed, MiddleForms, forks, Running
  <2>2. UNCHANGED <<pc, zygote, toZygote, toEngine>> /\ loop'.status = loop.status
    BY <1>18 DEF MiddleOom, socket, Typed
  <2> QED
    BY <2>1, <2>2, NothingSaid
<1>19. CASE ZygoteForks
  <2>1. PICK r \in Requests :
          /\ toZygote = <<Frame("request", r)>> /\ middle[r] = NoFork
          /\ pc[r] \in {"forked", "error"} /\ (pc[r] = "forked" => Leftover)
    BY <1>19, ForkRequest DEF ZygoteForks
  <2>2. \A q \in Requests \ {r} : pc'[q] \in {"idle", "done"}
    BY <1>19, <2>1, Alone DEF ZygoteForks
  <2>3. /\ zygote'.st = "forked" /\ zygote'.req = r /\ toZygote' = <<>> /\ pc' = pc
        /\ toEngine' = Append(toEngine, Frame("forked", r))
    BY <1>19, <2>1, ShortSequences DEF ZygoteForks, Frame
  <2>4. CASE pc[r] = "forked"
    <3>1. ASSUME toEngine = <<>> PROVE toEngine' = <<Frame("forked", r)>>
      BY <2>3, <3>1, ShortSequences
    <3>2. ASSUME NEW q \in Requests, toEngine = <<Frame("status", q)>>
          PROVE  toEngine' = <<Frame("status", q), Frame("forked", r)>>
      BY <2>3, <3>2, ShortSequences, ZenonT(30)
    <3>3. \/ toEngine' = <<Frame("forked", r)>>
          \/ \E q \in Requests :
               pc'[q] = "done" /\ toEngine' = <<Frame("status", q), Frame("forked", r)>>
      BY <2>1, <2>3, <2>4, <3>1, <3>2 DEF Leftover
    <3>4. Sent(r)'
      BY <2>3, <3>3 DEF Sent
    <3> QED
      BY <2>2, <2>3, <2>4, <3>4, TalkEnds DEF Typed
  <2>5. CASE pc[r] = "error"
    <3>1. Failed(r)'
      BY <2>3 DEF Failed
    <3> QED
      BY <2>2, <2>3, <2>5, <3>1, TalkEnds DEF Typed
  <2> QED
    BY <2>1, <2>4, <2>5
<1>20. CASE ZygoteGoes
  <2>a. CASE Busy = {}
    <3>1. Quiet /\ \A q \in Requests : pc'[q] \in {"idle", "done"}
      BY <1>20, <2>a, NobodyTalks DEF ZygoteGoes, Busy, Typed
    <3>2. Quiet'
      BY <1>20, <3>1, GoesQuietly
    <3> QED
      BY <3>1, <3>2 DEF Conversation
  <2>b. ASSUME NEW r \in Requests, r \in Busy PROVE Conversation'
    <3>1. pc[r] \notin {"idle", "done"} /\ pc' = pc
      BY <1>20, <2>b DEF Busy, ZygoteGoes
    <3>2. \A q \in Requests \ {r} : pc[q] \in {"idle", "done"}
      BY <3>1, Alone
    <3>3. ASSUME pc[r] \in {"send", "execve"} PROVE Quiet'
      <4>1. Quiet
        BY <3>2, <3>3 DEF Conversation
      <4> QED
        BY <1>20, <4>1, GoesQuietly
    <3>4. pc[r] = "forked" => Sent(r)'
      <4>1. CASE pc[r] = "forked"
        <5>1. Unread(r) /\ Leftover /\ toEngine = <<>>
          BY <1>20, <4>1 DEF ZygoteGoes, Conversation, Sent
        <5>2. r # zygote.req
          BY <1>20, <4>1, <5>1 DEF ZygoteGoes, Unread
        <5>3. middle'[r] = NoFork
          BY <1>20, <5>1, <5>2 DEF ZygoteGoes, Unread, Typed
        <5>a. toZygote = <<Frame("go", zygote.req), Frame("request", r)>> /\ toZygote' = Tail(toZygote)
          BY <1>20, <5>1 DEF ZygoteGoes, Unread
        <5>4. toZygote' = <<Frame("request", r)>>
          BY <5>a, ShortSequences
        <5>5. /\ zygote'.st = "waiting" /\ zygote'.req = zygote.req /\ toEngine' = <<>>
              /\ pc[zygote.req] = "done"
          BY <1>20, <5>1 DEF ZygoteGoes, Unread, Typed
        <5>6. Unread(r)' /\ Leftover'
          BY <3>1, <5>3, <5>4, <5>5 DEF Unread, Leftover
        <5> QED
          BY <5>5, <5>6 DEF Sent
      <4> QED
        BY <4>1
    <3>5. pc[r] = "place" => Placing(r)'
      BY <1>20, <3>1, ShortSequences DEF ZygoteGoes, Conversation, Placing
    <3>6. ASSUME pc[r] = "loop" PROVE Serving(r)'
      <4>1. /\ zygote.req = r /\ toEngine = <<>> /\ loop.status = None
            /\ toZygote = <<Frame("go", r)>>
        BY <1>20, <3>6 DEF ZygoteGoes, Conversation, Serving
      <4>2. /\ zygote'.st = "waiting" /\ zygote'.req = r /\ toZygote' = <<>>
            /\ toEngine' = <<>> /\ loop' = loop
        BY <1>20, <4>1, ShortSequences DEF ZygoteGoes, Typed
      <4> QED
        BY <4>1, <4>2 DEF Serving
    <3>7. ASSUME pc[r] = "error" PROVE Failed(r)'
      <4>1. Unread(r)
        BY <1>20, <3>7 DEF ZygoteGoes, Conversation, Failed
      <4>2. r # zygote.req
        BY <1>20, <3>7, <4>1 DEF ZygoteGoes, Unread
      <4>3. middle'[r] = NoFork
        BY <1>20, <4>1, <4>2 DEF ZygoteGoes, Unread, Typed
      <4>a. toZygote = <<Frame("go", zygote.req), Frame("request", r)>> /\ toZygote' = Tail(toZygote)
        BY <1>20, <4>1 DEF ZygoteGoes, Unread
      <4>4. toZygote' = <<Frame("request", r)>>
        BY <4>a, ShortSequences
      <4>5. zygote'.st = "waiting" /\ zygote'.req = zygote.req /\ pc[zygote.req] = "done"
        BY <1>20, <4>1 DEF ZygoteGoes, Unread, Typed
      <4>6. Unread(r)'
        BY <3>1, <4>3, <4>4, <4>5 DEF Unread
      <4> QED
        BY <4>6 DEF Failed
    <3> QED
      BY <3>1, <3>2, <3>3, <3>4, <3>5, <3>6, <3>7, TalkEnds DEF Typed
  <2> QED
    BY <2>a, <2>b DEF Busy
<1>21. CASE ZygoteReports
  <2>a. CASE Busy = {}
    <3>1. Quiet /\ \A q \in Requests : pc'[q] \in {"idle", "done"}
      BY <1>21, <2>a, NobodyTalks DEF ZygoteReports, Busy, Typed
    <3>2. Quiet'
      BY <1>21, <3>1, ShortSequences DEF ZygoteReports, Quiet, Behind, Leftover, Typed
    <3> QED
      BY <3>1, <3>2 DEF Conversation
  <2>b. ASSUME NEW r \in Requests, r \in Busy PROVE Conversation'
    <3>1. pc[r] \notin {"idle", "done"} /\ pc' = pc
      BY <1>21, <2>b DEF Busy, ZygoteReports
    <3>2. \A q \in Requests \ {r} : pc[q] \in {"idle", "done"}
      BY <3>1, Alone
    <3>3. ASSUME pc[r] \in {"send", "execve"} PROVE Quiet'
      <4>1. Quiet
        BY <3>2, <3>3 DEF Conversation
      <4> QED
        BY <1>21, <3>1, <4>1, ShortSequences DEF ZygoteReports, Quiet, Behind, Leftover, Typed
    <3>4. pc[r] = "forked" => Sent(r)'
      <4>1. CASE pc[r] = "forked"
        <5>1. Unread(r) /\ toEngine = <<>> /\ pc[zygote.req] = "done" /\ zygote.req \in Requests
          BY <1>21, <4>1 DEF ZygoteReports, Conversation, Sent, Unread, Typed
        <5>2. toEngine' = <<Frame("status", zygote.req)>>
          BY <1>21, <5>1, ShortSequences DEF ZygoteReports
        <5>3. Leftover'
          BY <3>1, <5>1, <5>2 DEF Leftover
        <5>4. Unread(r)' /\ zygote'.st = "idle"
          BY <1>21, <5>1 DEF ZygoteReports, Unread, forks
        <5> QED
          BY <5>3, <5>4 DEF Sent
      <4> QED
        BY <4>1
    <3>5. pc[r] = "place" => Placing(r)'
      BY <1>21, <3>1, ShortSequences DEF ZygoteReports, Conversation, Placing
    <3>6. ASSUME pc[r] = "loop" PROVE Serving(r)'
      <4>1. zygote.req = r /\ toEngine = <<>> /\ toZygote = <<>> /\ loop.status = None
        BY <1>21, <3>6 DEF ZygoteReports, Conversation, Serving
      <4>2. toEngine' = <<Frame("status", r)>>
        BY <1>21, <4>1, ShortSequences DEF ZygoteReports
      <4>3. zygote'.st = "idle" /\ toZygote' = <<>> /\ loop' = loop
        BY <1>21, <4>1 DEF ZygoteReports
      <4> QED
        BY <4>1, <4>2, <4>3 DEF Serving
    <3>7. pc[r] = "error" => Failed(r)'
      BY <1>21, <3>1, ShortSequences DEF ZygoteReports, Conversation, Failed, Unread, Typed, forks
    <3> QED
      BY <3>1, <3>2, <3>3, <3>4, <3>5, <3>6, <3>7, TalkEnds DEF Typed
  <2> QED
    BY <2>a, <2>b DEF Busy
<1>22. CASE ZygoteDies
  <2>a. CASE Busy = {}
    <3>1. Quiet /\ \A q \in Requests : pc'[q] \in {"idle", "done"}
      BY <1>22, <2>a, NobodyTalks DEF ZygoteDies, Busy, Typed
    <3>2. Quiet'
      BY <1>22, <3>1 DEF ZygoteDies, AllForksDie, NoZygote, Quiet, Behind, Leftover, Typed
    <3> QED
      BY <3>1, <3>2 DEF Conversation
  <2>b. ASSUME NEW r \in Requests, r \in Busy PROVE Conversation'
    <3>1. pc[r] \notin {"idle", "done"} /\ pc' = pc
      BY <1>22, <2>b DEF Busy, ZygoteDies
    <3>2. \A q \in Requests \ {r} : pc[q] \in {"idle", "done"}
      BY <3>1, Alone
    <3>3. ASSUME pc[r] \in {"send", "execve"} PROVE Quiet'
      <4>1. Quiet
        BY <3>2, <3>3 DEF Conversation
      <4> QED
        BY <1>22, <3>1, <4>1 DEF ZygoteDies, AllForksDie, NoZygote, Quiet, Behind, Leftover, Typed
    <3>4. pc[r] = "forked" => Sent(r)'
      BY <1>22, <3>1 DEF ZygoteDies, AllForksDie, NoZygote, Conversation, Sent, Leftover, Typed
    <3>5. pc[r] = "place" => Placing(r)'
      BY <1>22, <3>1 DEF ZygoteDies, AllForksDie, NoZygote, Conversation, Placing
    <3>6. pc[r] = "loop" => Serving(r)'
      BY <1>22, <3>1 DEF ZygoteDies, AllForksDie, NoZygote, Conversation, Serving
    <3>7. pc[r] = "error" => Failed(r)'
      BY <1>22, <3>1 DEF ZygoteDies, AllForksDie, NoZygote, Conversation, Failed
    <3> QED
      BY <3>1, <3>2, <3>3, <3>4, <3>5, <3>6, <3>7, TalkEnds DEF Typed
  <2> QED
    BY <2>a, <2>b DEF Busy
<1>23. CASE UNCHANGED zygoteVars
  BY <1>23, NothingSaid DEF zygoteVars
<1> QED
  BY <1>1, <1>2, <1>3, <1>4, <1>5, <1>6, <1>7, <1>8, <1>9, <1>10, <1>11, <1>12, <1>13, <1>14,
     <1>15, <1>16, <1>17, <1>18, <1>19, <1>20, <1>21, <1>22, <1>23
  DEF ZygoteNext, EngineSteps, ForkSteps

(* The status the loop ends with is the one of its request.                  *)
LEMMA NextKeepsStatusIsOwn ==
  ASSUME Typed, Conversation, StatusIsOwn, [ZygoteNext]_zygoteVars
  PROVE  StatusIsOwn'
<1> USE DEF StatusIsOwn, Typed
<1>1. ASSUME NEW r \in Requests, DropMismatch(r) PROVE StatusIsOwn'
  BY <1>1 DEF DropMismatch
<1>2. ASSUME NEW r \in Requests, Reuse(r) PROVE StatusIsOwn'
  BY <1>2 DEF Reuse
<1>3. ASSUME NEW r \in Requests, Boot(r) PROVE StatusIsOwn'
  BY <1>3 DEF Boot
<1>4. ASSUME NEW r \in Requests, SendRequest(r) PROVE StatusIsOwn'
  BY <1>4 DEF SendRequest
<1>5. ASSUME NEW r \in Requests, RecvForked(r) PROVE StatusIsOwn'
  BY <1>5 DEF RecvForked
<1>6. ASSUME NEW r \in Requests, PlaceAndGo(r) PROVE StatusIsOwn'
  BY <1>6 DEF PlaceAndGo
<1>7. ASSUME NEW r \in Requests, Deadline(r) PROVE StatusIsOwn'
  BY <1>7 DEF Deadline
<1>8. ASSUME NEW r \in Requests, OverCap(r) PROVE StatusIsOwn'
  BY <1>8 DEF OverCap
<1>9. ASSUME NEW r \in Requests, RecvStatus(r) PROVE StatusIsOwn'
  BY <1>9 DEF RecvStatus
<1>10. ASSUME NEW r \in Requests, Finish(r) PROVE StatusIsOwn'
  <2>1. loop.status \in {None, r}
    BY <1>10 DEF Finish, Conversation, Serving
  <2> QED
    BY <1>10, <2>1 DEF Finish
<1>11. ASSUME NEW r \in Requests, DropOnError(r) PROVE StatusIsOwn'
  BY <1>11 DEF DropOnError
<1>12. ASSUME NEW r \in Requests, FallbackExecve(r) PROVE StatusIsOwn'
  BY <1>12 DEF FallbackExecve
<1>13. ASSUME NEW r \in Requests, MiddleForks(r) PROVE StatusIsOwn'
  BY <1>13 DEF MiddleForks
<1>14. ASSUME NEW r \in Requests, GrandSetup(r) PROVE StatusIsOwn'
  BY <1>14 DEF GrandSetup
<1>15. ASSUME NEW r \in Requests, GrandCloses(r) PROVE StatusIsOwn'
  BY <1>15 DEF GrandCloses
<1>16. ASSUME NEW r \in Requests, GrandEnds(r) PROVE StatusIsOwn'
  BY <1>16 DEF GrandEnds
<1>17. ASSUME NEW r \in Requests, MiddleEnds(r) PROVE StatusIsOwn'
  BY <1>17 DEF MiddleEnds
<1>18. ASSUME NEW r \in Requests, MiddleOom(r) PROVE StatusIsOwn'
  BY <1>18 DEF MiddleOom
<1>19. CASE ZygoteForks
  BY <1>19 DEF ZygoteForks
<1>20. CASE ZygoteGoes
  BY <1>20 DEF ZygoteGoes
<1>21. CASE ZygoteReports
  BY <1>21 DEF ZygoteReports
<1>22. CASE ZygoteDies
  BY <1>22 DEF ZygoteDies
<1>23. CASE UNCHANGED zygoteVars
  BY <1>23 DEF zygoteVars
<1> HIDE DEF StatusIsOwn, Typed
<1> QED
  BY <1>1, <1>2, <1>3, <1>4, <1>5, <1>6, <1>7, <1>8, <1>9, <1>10, <1>11, <1>12, <1>13, <1>14,
     <1>15, <1>16, <1>17, <1>18, <1>19, <1>20, <1>21, <1>22, <1>23
  DEF ZygoteNext, EngineSteps, ForkSteps

-----------------------------------------------------------------------------
(* The invariant, and what follows from it                                 *)

(* Nothing is running and nothing is said when the engine starts.           *)
LEMMA InitHasZygoteInv == ZygoteInit => ZygoteInv
<1> SUFFICES ASSUME ZygoteInit PROVE ZygoteInv
  OBVIOUS
<1> USE DEF ZygoteInit
<1>1. Typed
  <2>1. toEngine \in Seq(EngineFrames)
    OBVIOUS
  <2> QED
    BY <2>1 DEF Typed, NoZygote, NoFork, Loop0, MiddleForms, GrandForms
<1>2. OneBusy /\ SlotTells /\ StatusFresh /\ StatusIsOwn
  BY DEF OneBusy, Busy, SlotTells, StatusFresh, StatusIsOwn, NoZygote
<1>3. Conversation
  BY DEF Conversation, Quiet, Leftover, NoZygote
<1>4. Middle /\ Grand /\ Runs
  BY DEF Middle, Grand, Runs, Running, NoFork
<1> QED
  BY <1>1, <1>2, <1>3, <1>4 DEF ZygoteInv

(* The invariant holds of every state.                                      *)
LEMMA ZygoteInvariant == ZygoteSpec => []ZygoteInv
<1>1. ZygoteInv /\ [ZygoteNext]_zygoteVars => ZygoteInv'
  <2> SUFFICES ASSUME ZygoteInv, [ZygoteNext]_zygoteVars PROVE ZygoteInv'
    OBVIOUS
  <2>1. /\ Typed /\ OneBusy /\ SlotTells /\ StatusFresh /\ Conversation
        /\ Middle /\ Grand /\ Runs /\ StatusIsOwn
    BY DEF ZygoteInv
  <2>2. Typed'
    BY <2>1, NextKeepsTyped
  <2>3. OneBusy' /\ SlotTells' /\ StatusFresh'
    BY <2>1, NextKeepsOneBusy, NextKeepsSlotTells, NextKeepsStatusFresh
  <2>4. Conversation'
    BY <2>1, <2>2, NextKeepsConversation
  <2>5. Middle' /\ Grand' /\ Runs'
    BY <2>1, NextKeepsMiddle, NextKeepsGrand, NextKeepsRuns
  <2>6. StatusIsOwn'
    BY <2>1, NextKeepsStatusIsOwn
  <2> QED
    BY <2>2, <2>3, <2>4, <2>5, <2>6 DEF ZygoteInv
<1> QED
  BY <1>1, InitHasZygoteInv, PTL DEF ZygoteSpec

(* Every variable has its type, the sockets carry only the frames of the     *)
(* protocol, user code is started at most twice (the second time by the      *)
(* fallback), and the slot's lock admits one request at a time.              *)
THEOREM ZygoteTyped == ZygoteSpec => []ZygoteTypeOK
<1>1. ZygoteInv => ZygoteTypeOK
  <2> SUFFICES ASSUME ZygoteInv PROVE ZygoteTypeOK
    OBVIOUS
  <2>1. Typed /\ OneBusy /\ Conversation
    BY DEF ZygoteInv
  <2>2. \A i \in DOMAIN toEngine : toEngine[i].type \in {"forked", "status"}
    <3>1. \A i \in DOMAIN toEngine : toEngine[i] \in EngineFrames
      BY <2>1 DEF Typed
    <3> QED
      BY <3>1 DEF EngineFrames
  <2>3. \A i \in DOMAIN toZygote : toZygote[i].type \in {"request", "go"}
    BY <2>1, FramesSent
  <2>4. Cardinality(Busy) <= 1
    <3>1. CASE Busy = {}
      BY <3>1, FS_EmptySet
    <3>2. ASSUME NEW r \in Busy PROVE Cardinality(Busy) <= 1
      <4>1. Busy = {r}
        BY <2>1, <3>2 DEF OneBusy
      <4>2. Cardinality({r}) = 1
        BY FS_Singleton, Zenon
      <4>3. Cardinality(Busy) = 1
        BY <4>1, <4>2, Zenon
      <4> QED
        BY <4>3
    <3> QED
      BY <3>1, <3>2
  <2> QED
    BY <2>1, <2>2, <2>3, <2>4 DEF ZygoteTypeOK, Typed
<1> QED
  BY <1>1, ZygoteInvariant, PTL

(* A request is answered with its own status or by the fallback, never with  *)
(* the status an earlier request left in the socket (serve, run).            *)
THEOREM ZygoteAnswersOwn == ZygoteSpec => []StatusIsOwn
<1>1. ZygoteInv => StatusIsOwn
  BY DEF ZygoteInv
<1> QED
  BY <1>1, ZygoteInvariant, PTL

(* User code never runs outside the cgroup of its request, and the layers of *)
(* its confinement fit together (serve: place, then "go"; python_shim).      *)
THEOREM ZygoteConfines == ZygoteSpec => []ForkConfined
<1>1. ZygoteInv => ForkConfined
  BY LayersFit DEF ZygoteInv, Grand, ForkConfined
<1> QED
  BY <1>1, ZygoteInvariant, PTL

(* No fork survives its request, nor the decision to run it again with       *)
(* execve: user code never runs twice at the same time (serve, run).         *)
THEOREM ZygoteLeavesNoFork == ZygoteSpec => []NoForkLeft
<1>1. ZygoteInv => NoForkLeft
  BY DEF ZygoteInv, Middle, Grand, NoForkLeft
<1> QED
  BY <1>1, ZygoteInvariant, PTL

=============================================================================
