--------------------------- MODULE VMServerProofs ---------------------------
(***************************************************************************)
(* Proofs about VMServer, for every set of calls and every bound on faults *)
(* and casts.                                                              *)
(*                                                                         *)
(* PendingResolves is about a server that is up.  To be inductive it needs *)
(* what the frames in the queue are (Frames), that the engine is dead once *)
(* its exit status is queued or handled, and that a server process that is *)
(* gone took its state, its Port and its callers with it (GoneClean): a    *)
(* restarted server starts with nothing of the old one.                    *)
(***************************************************************************)
EXTENDS VMServer, SequenceTheorems, TLAPS

(* What the id of a queued frame is.                                       *)
FrameOK(m) ==
  /\ m \in Messages
  /\ m.type = "call" => m.id \in Calls
  /\ m.type = "cast" => m.id \in Casts
  /\ m.type = "exit_status" => engine = "dead"

Frames == \A m \in Elements(inbox) : FrameOK(m)

GoneClean ==
  /\ server = "exiting" => engine = "dead"
  /\ server \in {"restarting", "stopped"} =>
       /\ engine = "dead" /\ pending = {} /\ inbox = << >> /\ port = << >>
       /\ \A c \in Calls : call[c] # "sent"

VMServerInv == VMServerTypeOK /\ Frames /\ GoneClean /\ AnswerIsOwn /\ PendingResolves

(* The elements of a queue: one more behind, ...                           *)
LEMMA ElementsAppend ==
  ASSUME NEW S, NEW s \in Seq(S), NEW e
  PROVE  Elements(Append(s, e)) = Elements(s) \cup {e}
<1>1. /\ Len(Append(s, e)) = Len(s) + 1 /\ Len(s) \in Nat
      /\ \A i \in 1..Len(s) : Append(s, e)[i] = s[i]
      /\ Append(s, e)[Len(s) + 1] = e
  OBVIOUS
<1>2. ASSUME NEW x \in Elements(Append(s, e)) PROVE x \in Elements(s) \cup {e}
  <2>1. PICK i \in 1..(Len(s) + 1) : x = Append(s, e)[i]
    BY <1>1, <1>2 DEF Elements
  <2>2. i \in 1..Len(s) \/ i = Len(s) + 1
    BY <1>1
  <2> QED  BY <1>1, <2>1, <2>2 DEF Elements
<1>3. ASSUME NEW x \in Elements(s) \cup {e} PROVE x \in Elements(Append(s, e))
  <2>1. CASE x = e
    <3>1. Len(s) + 1 \in 1..Len(Append(s, e))
      BY <1>1
    <3> QED  BY <1>1, <2>1, <3>1 DEF Elements
  <2>2. CASE x \in Elements(s)
    <3>1. PICK i \in 1..Len(s) : x = s[i]
      BY <2>2 DEF Elements
    <3>2. i \in 1..Len(Append(s, e))
      BY <1>1
    <3> QED  BY <1>1, <3>1, <3>2 DEF Elements
  <2> QED  BY <1>3, <2>1, <2>2
<1> QED  BY <1>2, <1>3

(* ... or the head taken off.                                              *)
LEMMA ElementsTail ==
  ASSUME NEW S, NEW s \in Seq(S), s # << >>
  PROVE  /\ Head(s) \in S /\ Tail(s) \in Seq(S)
         /\ Elements(s) = {Head(s)} \cup Elements(Tail(s))
<1>1. /\ Len(s) \in Nat /\ Len(s) >= 1 /\ Len(Tail(s)) = Len(s) - 1 /\ Head(s) = s[1]
      /\ \A i \in 1..(Len(s) - 1) : Tail(s)[i] = s[i + 1]
      /\ Head(s) \in S /\ Tail(s) \in Seq(S)
  OBVIOUS
<1>2. ASSUME NEW x \in Elements(s) PROVE x \in {Head(s)} \cup Elements(Tail(s))
  <2>1. PICK i \in 1..Len(s) : x = s[i]
    BY <1>2 DEF Elements
  <2>2. i = 1 \/ (i - 1 \in 1..Len(Tail(s)) /\ Tail(s)[i - 1] = s[i])
    BY <1>1
  <2> QED  BY <1>1, <2>1, <2>2 DEF Elements
<1>3. ASSUME NEW x \in {Head(s)} \cup Elements(Tail(s)) PROVE x \in Elements(s)
  <2>1. CASE x = Head(s)
    <3>1. 1 \in 1..Len(s)
      BY <1>1
    <3> QED  BY <1>1, <2>1, <3>1 DEF Elements
  <2>2. CASE x \in Elements(Tail(s))
    <3>1. PICK i \in 1..Len(Tail(s)) : x = Tail(s)[i]
      BY <2>2 DEF Elements
    <3>2. i + 1 \in 1..Len(s) /\ Tail(s)[i] = s[i + 1]
      BY <1>1
    <3> QED  BY <3>1, <3>2 DEF Elements
  <2> QED  BY <1>3, <2>1, <2>2
<1> QED  BY <1>1, <1>2, <1>3

(* Nothing is in an empty queue.                                           *)
LEMMA ElementsEmpty == Elements(<< >>) = {}
BY DEF Elements

(* What the server finds at the head of its queue.                         *)
LEMMA Received ==
  ASSUME VMServerInv, inbox # << >>
  PROVE  /\ FrameOK(Head(inbox)) /\ Tail(inbox) \in Seq(Messages)
         /\ Elements(inbox) = {Head(inbox)} \cup Elements(Tail(inbox))
BY ElementsTail DEF VMServerInv, VMServerTypeOK, Frames

(* Whom a reply reaches keeps the callers' types.                          *)
LEMMA ReplyTyped ==
  ASSUME VMServerTypeOK, NEW C, NEW id \in Calls \cup {NoCall},
         NEW outcome \in {"ok", "died", "accepted", "down"}, Reply(C, outcome, id)
  PROVE  /\ call' \in [Calls -> {"new", "sent", "ok", "died", "accepted", "timeout", "down", "not_found"}]
         /\ answer' \in [Calls -> Calls \cup {NoCall}]
BY DEF VMServerTypeOK, Reply

(* A caller that is not in the map is not replied to, whatever the id is.  *)
LEMMA ReplyPending ==
  ASSUME VMServerTypeOK, NEW id, NEW outcome, Reply({id} \cap pending \cap Blocking, outcome, id)
  PROVE  \/ id \in Calls
         \/ UNCHANGED <<call, answer>>
BY DEF VMServerTypeOK, Reply, Tracked, Calls, Blocking

(* A queued frame is a message.                                            *)
LEMMA FrameTyped ==
  ASSUME NEW type \in FrameTypes, NEW id \in Calls \cup {NoCall} \cup Casts
  PROVE  /\ Frame(type, id) \in Messages
         /\ Frame(type, id).type = type /\ Frame(type, id).id = id
BY DEF Frame, Messages
-----------------------------------------------------------------------------
(* Every step keeps the types.                                             *)
LEMMA NextKeepsType ==
  ASSUME VMServerInv, [VMServerNext]_vmServerVars
  PROVE  VMServerTypeOK'
<1> USE DEF VMServerInv, VMServerTypeOK
<1>a. \A type \in FrameTypes, id \in Calls \cup {NoCall} \cup Casts :
        Append(inbox, Frame(type, id)) \in Seq(Messages)
  BY FrameTyped
<1>b. /\ << >> \in Seq(Calls \cup Casts)
      /\ port # << >> => Tail(port) \in Seq(Calls \cup Casts)
  BY ElementsTail
<1>1. ASSUME NEW c \in Calls, Call(c) \/ CallNotFound(c) \/ CallTimeout(c) PROVE VMServerTypeOK'
  <2>1. CASE Call(c)
    <3>1. inbox' \in Seq(Messages)
      BY <2>1, <1>a DEF Call, Send, FrameTypes
    <3> QED  BY <2>1, <3>1 DEF Call, serverVars, engineVars
  <2>2. CASE CallNotFound(c)
    BY <2>2 DEF CallNotFound, serverVars, engineVars
  <2>3. CASE CallTimeout(c)
    BY <2>3 DEF CallTimeout, Fault, serverVars, engineVars
  <2> QED  BY <1>1, <2>1, <2>2, <2>3
<1>2. ASSUME NEW k \in Casts, Cast(k) PROVE VMServerTypeOK'
  BY <1>2, <1>a DEF Cast, Send, serverVars, engineVars, callerVars, FrameTypes
<1>3. CASE HandleCall
  <2>1. PICK c \in Calls : c = Head(inbox).id
    BY <1>3, Received DEF HandleCall, Receive, FrameOK
  <2>2. Append(port, c) \in Seq(Calls \cup Casts) /\ inbox' \in Seq(Messages)
    BY <1>3, Received DEF HandleCall, Receive
  <2> QED
    BY <1>3, <2>1, <2>2, ReplyTyped DEF HandleCall, engineVars
<1>4. CASE HandleCast
  <2>1. Head(inbox).id \in Casts /\ inbox' \in Seq(Messages)
    BY <1>4, Received DEF HandleCast, Receive, FrameOK
  <2> QED
    BY <1>4, <2>1 DEF HandleCast, engineVars, callerVars
<1>5. CASE HandleAfterExit \/ Terminate \/ StopVM
  <2>1. Reply(Calls, "down", NoCall) /\ pending' = {} /\ inbox' = << >> /\ port' = << >>
        /\ engine' = "dead" /\ running' = NoCall /\ UNCHANGED <<status, failed, casts>>
        /\ server' \in {"restarting", "stopped"} /\ faults' \in Nat
    BY <1>5 DEF HandleAfterExit, Terminate, StopVM, ProcessGone, Fault
  <2> QED
    BY <2>1, ReplyTyped
<1>6. CASE HandleReady \/ HandleCellResult
  BY <1>6, Received DEF HandleReady, HandleCellResult, Receive, engineVars, callerVars, serverVars
<1>7. CASE HandleResult \/ HandleRl \/ HandleEngineDied
  <2>1. PICK id : id = Head(inbox).id
    OBVIOUS
  <2>2. PICK outcome \in {"ok", "died"} : Reply({id} \cap pending \cap Blocking, outcome, id)
    BY <1>7, <2>1 DEF HandleResult, HandleRl, HandleEngineDied
  <2>3. /\ call' \in [Calls -> {"new", "sent", "ok", "died", "accepted", "timeout", "down", "not_found"}]
        /\ answer' \in [Calls -> Calls \cup {NoCall}]
    BY <2>2, ReplyPending, ReplyTyped
  <2>4. inbox' \in Seq(Messages)
    BY <1>7, Received DEF HandleResult, HandleRl, HandleEngineDied, Receive
  <2> QED
    BY <1>7, <2>3, <2>4 DEF HandleResult, HandleRl, HandleEngineDied, engineVars
<1>8. CASE HandleExit
  <2>1. inbox' \in Seq(Messages) /\ Reply(pending \cap Blocking, "died", NoCall)
    BY <1>8, Received DEF HandleExit, Receive
  <2> QED
    BY <1>8, <2>1, ReplyTyped DEF HandleExit, engineVars
<1>9. CASE Restart
  BY <1>9 DEF Restart, callerVars, GoneClean
<1>10. CASE EngineReady \/ EngineShutdown
  <2>1. inbox' \in Seq(Messages)
    BY <1>10, <1>a DEF EngineReady, EngineShutdown, Send, FrameTypes
  <2>2. running' = NoCall
    BY <1>10 DEF EngineReady, EngineShutdown
  <2>3. port' \in Seq(Calls \cup Casts)
    BY <1>10, <1>b DEF EngineReady, EngineShutdown
  <2> QED
    BY <1>10, <2>1, <2>2, <2>3 DEF EngineReady, EngineShutdown, callerVars, serverVars
<1>11. CASE EngineRead \/ EngineReadSilent
  <2>1. port' \in Seq(Calls \cup Casts)
    BY <1>11, <1>b DEF EngineRead, EngineReadSilent
  <2>2. CASE EngineRead
    BY <2>1, <2>2, NoCallAssumption DEF EngineRead, callerVars, serverVars
  <2>3. CASE EngineReadSilent
    BY <2>1, <2>3 DEF EngineReadSilent, callerVars, serverVars, engineVars
  <2> QED
    BY <1>11, <2>2, <2>3
<1>12. CASE EngineAnswer
  <2>1. PICK type \in FrameTypes : inbox' = Append(inbox, Frame(type, running))
    BY <1>12 DEF EngineAnswer, AnswerTypes, Send, FrameTypes, Calls
  <2> QED
    BY <1>12, <1>a, <2>1 DEF EngineAnswer, callerVars, serverVars
<1>13. CASE EngineDie \/ EngineErr \/ EngineExit
  <2>1. inbox' \in Seq(Messages)
    BY <1>13, <1>a DEF EngineDie, EngineErr, EngineExit, Send, FrameTypes, Calls
  <2>2. port' \in Seq(Calls \cup Casts)
    BY <1>13, <1>b DEF EngineDie, EngineErr, EngineExit
  <2>3. failed' \subseteq Calls /\ faults' \in Nat /\ casts' = casts
    BY <1>13 DEF EngineDie, EngineErr, EngineExit, Fault
  <2> QED
    BY <1>13, <2>1, <2>2, <2>3 DEF EngineDie, EngineErr, EngineExit, callerVars, serverVars
<1>14. CASE UNCHANGED vmServerVars
  BY <1>14 DEF vmServerVars, callerVars, serverVars, engineVars
<1> QED
  BY <1>1, <1>2, <1>3, <1>4, <1>5, <1>6, <1>7, <1>8, <1>9, <1>10, <1>11, <1>12, <1>13, <1>14
  DEF VMServerNext, CallerStep, ServerStep, EngineStep, FaultStep

(* A step takes the head off the queue at most, ...                        *)
LEMMA QueueShrinks ==
  ASSUME VMServerInv, NEW type, Receive(type)
  PROVE  /\ Head(inbox) \in Elements(inbox) /\ Head(inbox).type = type /\ FrameOK(Head(inbox))
         /\ Elements(inbox) = {Head(inbox)} \cup Elements(inbox')
BY Received DEF Receive

(* ... or puts one frame behind.                                           *)
LEMMA QueueGrows ==
  ASSUME VMServerInv, NEW m, Send(m)
  PROVE  Elements(inbox') = Elements(inbox) \cup {m}
BY ElementsAppend DEF Send, VMServerInv, VMServerTypeOK

(* Every step keeps the frames in order: the exit status is queued by an   *)
(* engine that is dead, and a new engine starts with an empty queue.       *)
LEMMA NextKeepsFrames ==
  ASSUME VMServerInv, [VMServerNext]_vmServerVars
  PROVE  Frames'
<1> USE DEF Frames, FrameOK
<1>0. Frames /\ VMServerTypeOK
  BY DEF VMServerInv
<1>1. ASSUME NEW type, Receive(type), engine' = engine PROVE Frames'
  BY <1>0, <1>1, QueueShrinks
<1>2. ASSUME NEW m, Send(m), FrameOK(m)', engine = "dead" => engine' = "dead" PROVE Frames'
  BY <1>0, <1>2, QueueGrows
<1>3. ASSUME inbox' = << >> PROVE Frames'
  BY <1>3, ElementsEmpty
<1>4. ASSUME inbox' = inbox, engine = "dead" => engine' = "dead" PROVE Frames'
  BY <1>0, <1>4
<1>5. CASE CallerStep
  <2>1. ASSUME NEW c \in Calls, Call(c) PROVE Frames'
    BY <1>2, <2>1, FrameTyped DEF Call, engineVars, FrameTypes
  <2>2. ASSUME NEW c \in Calls, CallNotFound(c) \/ CallTimeout(c) PROVE Frames'
    BY <1>4, <2>2 DEF CallNotFound, CallTimeout, engineVars
  <2>3. ASSUME NEW k \in Casts, Cast(k) PROVE Frames'
    BY <1>2, <2>3, FrameTyped DEF Cast, engineVars, FrameTypes
  <2> QED  BY <1>5, <2>1, <2>2, <2>3 DEF CallerStep
<1>6. CASE \/ HandleCall \/ HandleCast \/ HandleReady \/ HandleResult \/ HandleCellResult
           \/ HandleRl \/ HandleEngineDied \/ HandleExit
  BY <1>1, <1>6
  DEF HandleCall, HandleCast, HandleReady, HandleResult, HandleCellResult, HandleRl,
      HandleEngineDied, HandleExit, engineVars
<1>7. CASE HandleAfterExit \/ Terminate \/ StopVM
  BY <1>3, <1>7 DEF HandleAfterExit, Terminate, StopVM, ProcessGone
<1>8. CASE Restart
  BY <1>3, <1>8 DEF Restart, GoneClean, VMServerInv
<1>9. CASE EngineReady \/ EngineShutdown \/ EngineDie \/ EngineErr \/ EngineExit
  <2>1. ASSUME NEW type \in {"ready", "exit_status", "result", "engine_died"},
               NEW id \in Calls \cup {NoCall}, Send(Frame(type, id)),
               type = "exit_status" => engine' = "dead", engine # "dead"
        PROVE  Frames'
    <3>1. type \in FrameTypes
      BY DEF FrameTypes
    <3> QED  BY <1>2, <2>1, <3>1, FrameTyped
  <2> QED
    BY <1>0, <1>9, <2>1
    DEF EngineReady, EngineShutdown, EngineDie, EngineErr, EngineExit, VMServerTypeOK
<1>10. CASE EngineRead \/ EngineReadSilent
  BY <1>4, <1>10 DEF EngineRead, EngineReadSilent, engineVars
<1>11. CASE EngineAnswer
  <2>1. PICK type \in {"result", "rl", "cell_result"} : Send(Frame(type, running))
    BY <1>11 DEF EngineAnswer, AnswerTypes, Calls, VMServerInv, VMServerTypeOK
  <2>2. type \in FrameTypes /\ running \in Calls \cup {NoCall} /\ engine # "dead"
    BY <1>0, <1>11 DEF FrameTypes, EngineAnswer, VMServerTypeOK
  <2> QED
    BY <1>2, <2>1, <2>2, FrameTyped
<1>12. CASE UNCHANGED vmServerVars
  BY <1>4, <1>12 DEF vmServerVars, engineVars
<1> QED
  BY <1>5, <1>6, <1>7, <1>8, <1>9, <1>10, <1>11, <1>12
  DEF VMServerNext, ServerStep, EngineStep, FaultStep

(* Every step keeps GoneClean and AnswerIsOwn.                             *)
LEMMA NextKeepsGone ==
  ASSUME VMServerInv, [VMServerNext]_vmServerVars
  PROVE  GoneClean'
<1> USE DEF VMServerInv, VMServerTypeOK, GoneClean
<1>1. CASE CallerStep
  BY <1>1 DEF CallerStep, Call, CallNotFound, CallTimeout, Cast, Fault, callerVars, serverVars, engineVars
<1>2. CASE \/ HandleCall \/ HandleCast \/ HandleReady \/ HandleResult \/ HandleCellResult
           \/ HandleRl \/ HandleEngineDied
  BY <1>2
  DEF HandleCall, HandleCast, HandleReady, HandleResult, HandleCellResult, HandleRl,
      HandleEngineDied, Receive, serverVars, engineVars
<1>3. CASE HandleExit
  <2>1. engine = "dead"
    BY <1>3, QueueShrinks DEF HandleExit, FrameOK
  <2> QED  BY <1>3, <2>1 DEF HandleExit, engineVars
<1>4. CASE HandleAfterExit \/ Terminate \/ StopVM
  BY <1>4 DEF HandleAfterExit, Terminate, StopVM, ProcessGone, Reply
<1>5. CASE Restart
  BY <1>5 DEF Restart
<1>6. CASE EngineStep \/ EngineDie \/ EngineErr \/ EngineExit
  BY <1>6
  DEF EngineStep, EngineReady, EngineRead, EngineReadSilent, EngineShutdown, EngineAnswer,
      EngineDie, EngineErr, EngineExit, callerVars, serverVars, engineVars
<1>7. CASE UNCHANGED vmServerVars
  BY <1>7 DEF vmServerVars, callerVars, serverVars, engineVars
<1> QED
  BY <1>1, <1>2, <1>3, <1>4, <1>5, <1>6, <1>7 DEF VMServerNext, ServerStep, FaultStep

(* A reply is {:ok, msg} only where a result or an RL frame is handled.    *)
LEMMA NextKeepsOwn ==
  ASSUME VMServerInv, [VMServerNext]_vmServerVars
  PROVE  AnswerIsOwn'
<1> USE DEF VMServerInv, VMServerTypeOK, AnswerIsOwn, Reply
<1>0. Blocking \subseteq Calls
  BY DEF Blocking, Calls
<1>1. CASE CallerStep
  BY <1>0, <1>1 DEF CallerStep, Call, CallNotFound, CallTimeout, Cast, callerVars
<1>2. CASE HandleCall \/ HandleResult \/ HandleRl \/ HandleEngineDied \/ HandleExit
  BY <1>0, <1>2 DEF HandleCall, HandleResult, HandleRl, HandleEngineDied, HandleExit
<1>3. CASE HandleAfterExit \/ Terminate \/ StopVM
  BY <1>0, <1>3 DEF HandleAfterExit, Terminate, StopVM, ProcessGone
<1>4. CASE \/ HandleCast \/ HandleReady \/ HandleCellResult \/ Restart \/ EngineStep
           \/ EngineDie \/ EngineErr \/ EngineExit \/ UNCHANGED vmServerVars
  BY <1>4
  DEF HandleCast, HandleReady, HandleCellResult, Restart, EngineStep, EngineReady, EngineRead,
      EngineReadSilent, EngineShutdown, EngineAnswer, EngineDie, EngineErr, EngineExit,
      vmServerVars, callerVars
<1> QED
  BY <1>1, <1>2, <1>3, <1>4 DEF VMServerNext, ServerStep, FaultStep
-----------------------------------------------------------------------------
(* The two halves of PendingResolves.                                      *)
EntriesResolve ==
  server = "up" => \A c \in pending \ (failed \cup Sessions) : OnTheWay(c)
CallersParked ==
  server = "up" =>
    \A c \in Blocking :
      call[c] = "sent" => c \in pending \/ Frame("call", c) \in Elements(inbox)

(* The halves are the whole.                                               *)
LEMMA ResolvesParts == PendingResolves <=> EntriesResolve /\ CallersParked
BY DEF PendingResolves, EntriesResolve, CallersParked

(* The command of a pending call, or its frame, moves on and is not lost:  *)
(* the handlers that pop a frame pop its entry, and whoever empties the    *)
(* Port queues the exit status.                                            *)
LEMMA NextKeepsEntries ==
  ASSUME VMServerInv, [VMServerNext]_vmServerVars
  PROVE  EntriesResolve'
<1> SUFFICES ASSUME server' = "up", NEW c \in pending', c \notin failed', c \notin Sessions
             PROVE  OnTheWay(c)'
  BY DEF EntriesResolve
<1>0. /\ VMServerTypeOK /\ Frames /\ GoneClean
      /\ server = "up" /\ c \in pending /\ c \notin failed => OnTheWay(c)
  BY ResolvesParts DEF VMServerInv, EntriesResolve
<1>1. ASSUME Elements(inbox) \subseteq Elements(inbox'), port' = port, running' = running,
             pending' = pending, failed' = failed, server = "up"
      PROVE  OnTheWay(c)'
  BY <1>0, <1>1 DEF OnTheWay
<1>2. CASE CallerStep
  <2>1. Elements(inbox) \subseteq Elements(inbox')
    BY <1>2, QueueGrows DEF CallerStep, Call, CallNotFound, CallTimeout, Cast
  <2> QED
    BY <1>1, <1>2, <2>1
    DEF CallerStep, Call, CallNotFound, CallTimeout, Cast, serverVars, engineVars
<1>3. CASE HandleCall \/ HandleCast
  <2>1. Head(inbox).type \in {"call", "cast"}
    BY <1>3 DEF HandleCall, HandleCast, Receive
  <2>2. Elements(inbox) = {Head(inbox)} \cup Elements(inbox')
    BY <1>3, QueueShrinks DEF HandleCall, HandleCast
  <2>3. /\ Elements(port') = Elements(port) \cup {Head(inbox).id}
        /\ UNCHANGED <<failed, running, server>>
    BY <1>0, <1>3, ElementsAppend DEF HandleCall, HandleCast, VMServerTypeOK, engineVars
  <2>4. CASE c = Head(inbox).id
    BY <2>3, <2>4 DEF OnTheWay
  <2>5. CASE c # Head(inbox).id
    <3>1. c \in pending
      BY <1>3, <2>5 DEF HandleCall, HandleCast
    <3> QED
      BY <1>0, <2>1, <2>2, <2>3, <3>1 DEF OnTheWay
  <2> QED  BY <2>4, <2>5
<1>4. CASE HandleReady \/ HandleCellResult
  <2>1. Head(inbox).type \in {"ready", "cell_result"}
    BY <1>4 DEF HandleReady, HandleCellResult, Receive
  <2>2. Elements(inbox) = {Head(inbox)} \cup Elements(inbox')
    BY <1>4, QueueShrinks DEF HandleReady, HandleCellResult
  <2> QED
    BY <1>0, <1>4, <2>1, <2>2 DEF OnTheWay, HandleReady, HandleCellResult, serverVars, engineVars
<1>5. CASE HandleResult \/ HandleRl \/ HandleEngineDied
  <2>1. Head(inbox).type # "exit_status"
    BY <1>5 DEF HandleResult, HandleRl, HandleEngineDied, Receive
  <2>2. Elements(inbox) = {Head(inbox)} \cup Elements(inbox')
    BY <1>5, QueueShrinks DEF HandleResult, HandleRl, HandleEngineDied
  <2>3. /\ c \in pending /\ c # Head(inbox).id
        /\ UNCHANGED <<port, failed, running, server>>
    BY <1>5 DEF HandleResult, HandleRl, HandleEngineDied, engineVars
  <2> QED
    BY <1>0, <2>1, <2>2, <2>3 DEF OnTheWay
<1>6. CASE HandleExit \/ HandleAfterExit \/ Terminate \/ StopVM
  BY <1>6 DEF HandleExit, HandleAfterExit, Terminate, StopVM, ProcessGone
<1>7. CASE Restart
  BY <1>0, <1>7 DEF Restart, GoneClean
<1>8. CASE EngineReady
  BY <1>1, <1>8, QueueGrows DEF EngineReady, serverVars
<1>9. CASE EngineRead \/ EngineReadSilent
  <2>1. Elements(port) = {Head(port)} \cup Elements(port')
    BY <1>0, <1>9, ElementsTail DEF EngineRead, EngineReadSilent, VMServerTypeOK
  <2>2. CASE EngineRead
    <3>1. running = NoCall
      BY <1>0, <2>2 DEF EngineRead, VMServerTypeOK
    <3>2. c \in Calls
      BY <1>0, <2>2 DEF EngineRead, serverVars, VMServerTypeOK, Tracked, Blocking, Calls
    <3> QED
      BY <1>0, <2>1, <2>2, <3>1, <3>2, NoCallAssumption DEF EngineRead, OnTheWay, serverVars
  <2>3. CASE EngineReadSilent
    <3>1. c \in Calls
      BY <1>0, <2>3 DEF EngineReadSilent, serverVars, VMServerTypeOK, Tracked, Blocking, Calls
    <3>2. c # Head(port)
      BY <2>3, <3>1, KindsAssumption DEF EngineReadSilent
    <3> QED
      BY <1>0, <2>1, <2>3, <3>2 DEF EngineReadSilent, OnTheWay, serverVars, engineVars
  <2> QED  BY <1>9, <2>2, <2>3
<1>10. CASE EngineShutdown \/ EngineExit
  <2>1. Frame("exit_status", NoCall) \in Elements(inbox')
    BY <1>10, QueueGrows DEF EngineShutdown, EngineExit
  <2> QED
    BY <2>1 DEF OnTheWay, Frame
<1>11. CASE EngineAnswer \/ EngineDie
  <2>1. PICK type : /\ Send(Frame(type, running))
                    /\ type \in AnswerTypes(running) \cup {"engine_died"}
    BY <1>11 DEF EngineAnswer, EngineDie
  <2>2. Elements(inbox') = Elements(inbox) \cup {Frame(type, running)}
    BY <2>1, QueueGrows
  <2>3. UNCHANGED <<server, pending, port, failed>>
    BY <1>11 DEF EngineAnswer, EngineDie, serverVars
  <2>4. CASE c = running
    <3>1. c \in Tracked
      BY <1>0, <2>3 DEF VMServerTypeOK
    <3>2. type \in {"result", "rl", "engine_died"}
      BY <2>1, <2>4, <3>1, KindsAssumption DEF AnswerTypes, Tracked, Blocking
    <3>3. PICK m \in Elements(inbox') : m = Frame(type, running)
      BY <2>2
    <3>4. m.type \in {"result", "rl", "engine_died"} /\ m.id = c
      BY <2>4, <3>2, <3>3 DEF Frame
    <3> QED
      BY <3>4 DEF OnTheWay
  <2>5. CASE c # running
    BY <1>0, <2>2, <2>3, <2>5 DEF OnTheWay
  <2> QED  BY <2>4, <2>5
<1>12. CASE EngineErr
  <2>1. Elements(inbox) \subseteq Elements(inbox')
    BY <1>12, QueueGrows DEF EngineErr
  <2> QED
    BY <1>0, <1>12, <2>1 DEF EngineErr, OnTheWay, serverVars
<1>13. CASE UNCHANGED vmServerVars
  BY <1>1, <1>13 DEF vmServerVars, serverVars, engineVars
<1> QED
  BY <1>2, <1>3, <1>4, <1>5, <1>6, <1>7, <1>8, <1>9, <1>10, <1>11, <1>12, <1>13
  DEF VMServerNext, ServerStep, EngineStep, FaultStep

(* A waiting caller's message becomes its entry, and whoever takes the     *)
(* entry out of the map answers it.                                        *)
LEMMA NextKeepsParked ==
  ASSUME VMServerInv, [VMServerNext]_vmServerVars
  PROVE  CallersParked'
<1> SUFFICES ASSUME server' = "up", NEW c \in Blocking, call'[c] = "sent"
             PROVE  c \in pending' \/ Frame("call", c) \in Elements(inbox')
  BY DEF CallersParked
<1>0. /\ VMServerTypeOK /\ GoneClean /\ c \in Calls
      /\ server = "up" /\ call[c] = "sent" =>
           c \in pending \/ Frame("call", c) \in Elements(inbox)
  BY ResolvesParts DEF VMServerInv, CallersParked, Blocking, Calls
<1> USE DEF VMServerTypeOK
<1>1. ASSUME Elements(inbox) \subseteq Elements(inbox'), pending' = pending, server = "up",
             call[c] = "sent"
      PROVE  c \in pending' \/ Frame("call", c) \in Elements(inbox')
  BY <1>0, <1>1
<1>2. ASSUME NEW k \in Calls, Call(k)
      PROVE  c \in pending' \/ Frame("call", c) \in Elements(inbox')
  BY <1>0, <1>2, QueueGrows DEF Call, serverVars
<1>3. ASSUME NEW k, CallNotFound(k) \/ CallTimeout(k) \/ Cast(k)
      PROVE  c \in pending' \/ Frame("call", c) \in Elements(inbox')
  <2>1. Elements(inbox) \subseteq Elements(inbox')
    BY <1>3, QueueGrows DEF CallNotFound, CallTimeout, Cast
  <2> QED
    BY <1>0, <1>1, <1>3, <2>1 DEF CallNotFound, CallTimeout, Cast, callerVars, serverVars
<1>4. CASE HandleCall
  <2>1. Elements(inbox) = {Head(inbox)} \cup Elements(inbox') /\ Head(inbox).type = "call"
    BY <1>4, QueueShrinks DEF HandleCall
  <2>2. call[c] = "sent" /\ server = "up"
    BY <1>0, <1>4 DEF HandleCall, Receive, Reply
  <2>3. pending \subseteq pending' /\ (Head(inbox).id = c => c \in pending')
    BY <1>4 DEF HandleCall, Tracked
  <2> QED
    BY <1>0, <2>1, <2>2, <2>3 DEF Frame
<1>5. CASE \/ HandleCast \/ HandleReady \/ HandleCellResult
           \/ HandleResult \/ HandleRl \/ HandleEngineDied
  <2>1. /\ Elements(inbox) = {Head(inbox)} \cup Elements(inbox')
        /\ Head(inbox).type # "call" /\ server = "up"
    BY <1>5, QueueShrinks
    DEF HandleCast, HandleReady, HandleCellResult, HandleResult, HandleRl, HandleEngineDied, Receive
  <2>2. Frame("call", c) # Head(inbox)
    BY <2>1 DEF Frame
  <2>3. call[c] = "sent" /\ (c \in pending => c \in pending')
    BY <1>0, <1>5
    DEF HandleCast, HandleReady, HandleCellResult, HandleResult, HandleRl, HandleEngineDied,
        Reply, callerVars, serverVars
  <2> QED
    BY <1>0, <2>1, <2>2, <2>3
<1>6. CASE HandleExit \/ HandleAfterExit \/ Terminate \/ StopVM
  BY <1>6 DEF HandleExit, HandleAfterExit, Terminate, StopVM, ProcessGone
<1>7. CASE Restart
  BY <1>0, <1>7 DEF Restart, GoneClean, callerVars
<1>8. CASE EngineStep \/ EngineDie \/ EngineErr \/ EngineExit
  <2>1. Elements(inbox) \subseteq Elements(inbox')
    BY <1>8, QueueGrows
    DEF EngineStep, EngineReady, EngineRead, EngineReadSilent, EngineShutdown, EngineAnswer,
        EngineDie, EngineErr, EngineExit
  <2> QED
    BY <1>1, <1>8, <2>1
    DEF EngineStep, EngineReady, EngineRead, EngineReadSilent, EngineShutdown, EngineAnswer,
        EngineDie, EngineErr, EngineExit, callerVars, serverVars
<1>9. CASE UNCHANGED vmServerVars
  BY <1>1, <1>9 DEF vmServerVars, callerVars, serverVars
<1> QED
  BY <1>2, <1>3, <1>4, <1>5, <1>6, <1>7, <1>8, <1>9
  DEF VMServerNext, CallerStep, ServerStep, FaultStep
-----------------------------------------------------------------------------
(* VMServerInv is an invariant of the server, its callers and its engine.  *)
LEMMA VMServerInvariant == VMServerSpec => []VMServerInv
<1>1. VMServerInit => VMServerInv
  BY ElementsEmpty
  DEF VMServerInit, VMServerInv, VMServerTypeOK, Frames, GoneClean, AnswerIsOwn, PendingResolves,
      Blocking, Calls
<1>2. VMServerInv /\ [VMServerNext]_vmServerVars => VMServerInv'
  <2>1. ASSUME EntriesResolve', CallersParked' PROVE PendingResolves'
    BY <2>1 DEF PendingResolves, EntriesResolve, CallersParked
  <2> QED
    BY <2>1, NextKeepsType, NextKeepsFrames, NextKeepsGone, NextKeepsOwn, NextKeepsEntries,
       NextKeepsParked DEF VMServerInv
<1> QED
  BY <1>1, <1>2, PTL DEF VMServerSpec

(* Through crashes, restarts and stops the server's state keeps its types, *)
(* pending holds tracked calls only, and the engine is busy exactly when   *)
(* it runs a call (VM.Server, App::run).                                   *)
THEOREM VMServerTyped == VMServerSpec => []VMServerTypeOK
<1>1. VMServerInv => VMServerTypeOK
  BY DEF VMServerInv
<1> QED  BY VMServerInvariant, <1>1, PTL

(* No caller is ever answered {:ok, msg} with the frame of another request *)
(* (handle_response's Map.pop on the frame's id).                          *)
THEOREM VMServerAnswersOwn == VMServerSpec => []AnswerIsOwn
<1>1. VMServerInv => AnswerIsOwn
  BY DEF VMServerInv
<1> QED  BY VMServerInvariant, <1>1, PTL

(* No entry of the pending map is stuck and no waiting caller is without   *)
(* one, whatever commands, aborts, exits and restarts interleave: only a   *)
(* handler's Err and a session start leave an entry that no frame pops.    *)
THEOREM VMServerResolves == VMServerSpec => []PendingResolves
<1>1. VMServerInv => PendingResolves
  BY DEF VMServerInv
<1> QED  BY VMServerInvariant, <1>1, PTL
=============================================================================
