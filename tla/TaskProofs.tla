----------------------------- MODULE TaskProofs -----------------------------
(***************************************************************************)
(* Proofs about Task for every set of frames, every number of calls a      *)
(* frame may request and every order of notifications and completions.     *)
(***************************************************************************)
EXTENDS Task, TLAPS

(* No operation of f is in flight; or o is, and gRPC still executes it or  *)
(* its event waits in the queue.                                           *)
Idle(f) == op[f] = "none" /\ event[f] = "none"

Awaiting(f, o) == \/ op[f] = o /\ event[f] = "none"
                  \/ op[f] = "none" /\ event[f] = o

(* The call of f was delivered and its done notification is due, or was.   *)
Delivered(f) == Call(f) \in {"open", "cancelled"} /\ done[f][calls[f]] # "none"

(* What the place of the coroutine says about the operation in flight, the *)
(* call and the hooks.                                                     *)
PlaceOK(f) ==
    /\ pos[f] = "none" <=> frame[f] # "alive"
    /\ pos[f] = "none" => Idle(f)
    /\ frame[f] = "none" => calls[f] = 1 /\ hooks[f] = "none" /\ Call(f) = "none"
    /\ frame[f] = "destroyed" =>
          IF Call(f) = "failed"
          THEN hooks[f] = "none" /\ done[f][calls[f]] = "none"
          ELSE hooks[f] = "on_finish" /\ Call(f) \in {"cancelled", "closed"}
    /\ pos[f] = "initial" =>
          /\ hooks[f] = "none"
          /\ done[f][calls[f]] = "none"
          /\ \/ op[f] = "request" /\ event[f] = "none" /\ Call(f) = "requested"
             \/ /\ op[f] = "none" /\ event[f] = "request"
                /\ Call(f) \in {"open", "cancelled", "failed"}
             \/ fault = "aborted" /\ Idle(f) /\ Call(f) = "requested" /\ calls[f] > 1
    /\ pos[f] = "auth" => Idle(f) /\ hooks[f] = "none" /\ Delivered(f)
    /\ pos[f] = "rejecting" =>
          /\ Awaiting(f, "reject")
          /\ MayReject /\ calls[f] < MaxCalls
          /\ hooks[f] = "none"
          /\ Call(f) \in {"open", "cancelled", "closed"}
          /\ event[f] = "none" \/ Call(f) # "open"
          /\ done[f][calls[f]] # "none"
    /\ pos[f] = "restarting" => /\ Idle(f)
                                /\ hooks[f] = "none"
                                /\ calls[f] > 1
                                /\ Call(f) = "none"
                                /\ done[f][calls[f]] = "none"
    /\ pos[f] = "body" => Idle(f) /\ hooks[f] = "on_start" /\ Delivered(f)
    /\ pos[f] = "io" => Awaiting(f, "io") /\ hooks[f] = "on_start" /\ Delivered(f)
    /\ pos[f] = "final" =>
          /\ Awaiting(f, "finish")
          /\ hooks[f] = "on_finish"
          /\ Call(f) \in {"open", "cancelled", "closed"}
          /\ event[f] = "none" \/ Call(f) # "open"
          /\ done[f][calls[f]] # "none"

(* The calls of f: those before the present one are over, those after it   *)
(* have not begun, and a notification is due for a call that was           *)
(* delivered, queued once it is over.  When that of a cancelled call is    *)
(* taken the signal is given, if the frame is there to take it.            *)
CallsOK(f) ==
    \A c \in Calls :
        /\ c < calls[f] => rpc[f][c] \in {"cancelled", "closed"}
        /\ c > calls[f] => done[f][c] = "none" /\ rpc[f][c] = "none"
        /\ done[f][c] # "none" => rpc[f][c] \in {"open", "cancelled", "closed"}
        /\ done[f][c] \in {"queued", "taken"} => rpc[f][c] # "open"
        /\ /\ c = calls[f]
           /\ frame[f] = "alive"
           /\ rpc[f][c] = "cancelled"
           /\ done[f][c] = "taken"
           => m_is_cancelled[f]

(* A signal is given for a call of the frame that was cancelled.           *)
Grounded ==
    \A f \in Frames : m_is_cancelled[f] =>
        \E c \in Calls : c <= calls[f] /\ rpc[f][c] = "cancelled"

(* Once Server::Shutdown() has returned no call is left, and none comes.   *)
ShutdownOK ==
    /\ server \in {"cq_shutdown", "stopped"} => \A f \in Frames, c \in Calls : ~Held(f, c)
    /\ \A f \in Frames : calls[f] > 1 => MayReject

IInv == /\ TypeOK
        /\ \A f \in Frames : PlaceOK(f) /\ CallsOK(f)
        /\ ShutdownOK
        /\ Grounded
        /\ NothingLeaked
        /\ AbortOnlyInRestart

-----------------------------------------------------------------------------
(* The helpers the steps are written with are expanded everywhere. *)
USE DEF Calls, Call, Operations, promise, coroutine, grpc, Goes, Take, Ok,
        StartGrpcCall, RequestFailed, Refused, Awaits, Ends,
        Finished, Notified, CallBecomes, Queue, ServerGoes

(* Where the coroutine is when an operation is in flight.                  *)
LEMMA WhereOperationsAre ==
    ASSUME TypeOK, NEW f \in Frames, PlaceOK(f)
    PROVE  /\ event[f] = "request" => pos[f] = "initial"
           /\ event[f] = "io" => pos[f] = "io"
           /\ event[f] = "reject" => pos[f] = "rejecting"
           /\ event[f] = "finish" => pos[f] = "final"
           /\ op[f] = "request" => pos[f] = "initial"
           /\ op[f] = "io" => pos[f] = "io"
           /\ op[f] = "reject" => pos[f] = "rejecting"
           /\ op[f] = "finish" => pos[f] = "final"
           /\ op[f] = "none" \/ event[f] = "none"
  BY TaskAssumption DEF TypeOK, PlaceOK, Idle, Awaiting

(* What a done notification changes: the signal of its own frame, if that  *)
(* is there and the notification is about a cancelled call it holds        *)
(* (task.h:366-374).                                                       *)
LEMMA NotificationTaken ==
    ASSUME TypeOK, NEW f \in Frames, NEW c \in Calls, HandleDone(f, c)
    PROVE  /\ fault = "none" /\ done[f][c] = "queued"
           /\ done' = [done EXCEPT ![f][c] = "taken"]
           /\ UNCHANGED <<frame, pos, calls, hooks, op, event, rpc, server>>
           /\ m_is_cancelled' \in [Frames -> BOOLEAN]
           /\ \A g \in Frames : m_is_cancelled[g] => m_is_cancelled'[g]
           /\ \A g \in Frames : m_is_cancelled'[g] =>
                 \/ m_is_cancelled[g]
                 \/ g = f /\ c = calls[f] /\ Call(f) = "cancelled"
           /\ frame[f] = "alive" /\ c = calls[f] /\ Call(f) = "cancelled"
                 => m_is_cancelled'[f]
           /\ frame[f] = "alive" => fault' = fault
           /\ frame[f] # "alive" => fault' = "use_after_free"
<1>1. /\ fault = "none" /\ done[f][c] = "queued"
      /\ done' = [done EXCEPT ![f][c] = "taken"]
      /\ UNCHANGED <<frame, pos, calls, hooks, op, event, rpc, server>>
  BY DEF HandleDone
<1>2. CASE frame[f] = "alive"
  <2> DEFINE about == c = calls[f] /\ Call(f) = "cancelled"
  <2>1. /\ m_is_cancelled' = [m_is_cancelled EXCEPT ![f] = m_is_cancelled[f] \/ about]
        /\ fault' = fault
    BY <1>2 DEF HandleDone
  <2> HIDE DEF about
  <2>2. /\ m_is_cancelled'[f] = (m_is_cancelled[f] \/ about)
        /\ \A g \in Frames \ {f} : m_is_cancelled'[g] = m_is_cancelled[g]
    BY <2>1, Zenon DEF TypeOK
  <2>3. m_is_cancelled' \in [Frames -> BOOLEAN]
    <3> DEFINE signal == m_is_cancelled[f] \/ about
    <3>1. signal \in BOOLEAN
      OBVIOUS
    <3>2. m_is_cancelled' = [m_is_cancelled EXCEPT ![f] = signal]
      BY <2>1
    <3> HIDE DEF signal
    <3> QED BY <3>1, <3>2 DEF TypeOK
  <2>4. fault' = fault
    BY <2>1
  <2> QED BY <1>1, <1>2, <2>2, <2>3, <2>4 DEF about
<1>3. CASE frame[f] # "alive"
  <2>1. fault' = "use_after_free" /\ m_is_cancelled' = m_is_cancelled
    BY <1>3 DEF HandleDone
  <2> QED BY <1>1, <1>3, <2>1 DEF TypeOK
<1> QED BY <1>2, <1>3
(* Beginning an operation, whether it is refused or not.                   *)
LEMMA BeginTyped ==
    ASSUME TypeOK, NEW f \in Frames, NEW o \in Operations, Begin(f, o)
    PROVE  /\ op' \in [Frames -> {"none"} \cup Operations]
           /\ fault' \in {"none", "aborted", "use_after_free"}
<1>1. CASE Drained
  <2>1. op' = op /\ fault' = "aborted"
    BY <1>1 DEF Begin
  <2> QED BY <2>1 DEF TypeOK
<1>2. CASE ~Drained
  <2>1. op' = [op EXCEPT ![f] = o] /\ fault' = fault
    BY <1>2 DEF Begin
  <2> QED BY <2>1 DEF TypeOK
<1> QED BY <1>1, <1>2

(* Every variable keeps its type (task.h:222-308). *)
LEMMA Typing == ASSUME IInv, [Next]_vars PROVE TypeOK'
<1> USE TaskAssumption
<1>a. TypeOK
  BY DEF IInv
<1>b. ASSUME NEW f \in Frames, event[f] # "none"
      PROVE  frame[f] = "alive" /\ (event[f] = "reject" => calls[f] < MaxCalls)
  <2> PlaceOK(f)
    BY DEF IInv
  <2> QED BY <1>a, <1>b, WhereOperationsAre, <1>a DEF TypeOK, PlaceOK
<1>1. ASSUME NEW f \in Frames, Spawn(f) PROVE TypeOK'
  BY <1>1, <1>a, BeginTyped DEF TypeOK, Spawn
<1>2. ASSUME NEW f \in Frames, HandleRequestFailed(f) PROVE TypeOK'
  BY <1>2, <1>a, <1>b DEF TypeOK, HandleRequestFailed
<1>3. ASSUME NEW f \in Frames, HandleRequest(f) PROVE TypeOK'
  BY <1>3, <1>a, <1>b DEF TypeOK, HandleRequest
<1>4. ASSUME NEW f \in Frames, HandleRejectSent(f) PROVE TypeOK'
  <2>1. calls[f] < MaxCalls /\ frame[f] = "alive"
    BY <1>4, <1>b DEF HandleRejectSent
  <2>2. calls[f] + 1 \in Calls
    BY <1>a, <2>1 DEF TypeOK
  <2> QED BY <1>4, <1>a, <2>1, <2>2 DEF TypeOK, HandleRejectSent
<1>5. ASSUME NEW f \in Frames, Restart(f) PROVE TypeOK'
  BY <1>5, <1>a, BeginTyped DEF TypeOK, Restart
<1>6. ASSUME NEW f \in Frames, HandleIo(f) PROVE TypeOK'
  BY <1>6, <1>a, <1>b DEF TypeOK, HandleIo
<1>7. ASSUME NEW f \in Frames, HandleFinish(f) PROVE TypeOK'
  BY <1>7, <1>a, <1>b DEF TypeOK, HandleFinish
<1>8. ASSUME NEW f \in Frames, Authenticated(f) PROVE TypeOK'
  BY <1>8, <1>a DEF TypeOK, Authenticated
<1>9. ASSUME NEW f \in Frames, Rejected(f) PROVE TypeOK'
  BY <1>9, <1>a, BeginTyped DEF TypeOK, Rejected
<1>10. ASSUME NEW f \in Frames, BodyAwaits(f) PROVE TypeOK'
  BY <1>10, <1>a, BeginTyped DEF TypeOK, BodyAwaits
<1>11. ASSUME NEW f \in Frames, BodyEnds(f) PROVE TypeOK'
  BY <1>11, <1>a, BeginTyped DEF TypeOK, BodyEnds
<1>12. ASSUME NEW f \in Frames, Accept(f) PROVE TypeOK'
  BY <1>12, <1>a DEF TypeOK, Accept
<1>13. ASSUME NEW f \in Frames, FailRequest(f) PROVE TypeOK'
  BY <1>13, <1>a DEF TypeOK, FailRequest
<1>14. ASSUME NEW f \in Frames, Cancel(f) PROVE TypeOK'
  BY <1>14, <1>a DEF TypeOK, Cancel
<1>15. ASSUME NEW f \in Frames, SendStatus(f) PROVE TypeOK'
  BY <1>15, <1>a DEF TypeOK, SendStatus
<1>16. ASSUME NEW f \in Frames, Complete(f) PROVE TypeOK'
  BY <1>16, <1>a DEF TypeOK, Complete
<1>17. ASSUME NEW f \in Frames, NEW c \in Calls, HandleDone(f, c) PROVE TypeOK'
  <2>1. /\ done' = [done EXCEPT ![f][c] = "taken"]
        /\ UNCHANGED <<frame, pos, calls, hooks, op, event, rpc, server>>
        /\ m_is_cancelled' \in [Frames -> BOOLEAN]
        /\ fault' = fault \/ fault' = "use_after_free"
    BY <1>17, <1>a, NotificationTaken
  <2> QED BY <1>a, <2>1 DEF TypeOK
<1>18. ASSUME NEW f \in Frames, NEW c \in Calls, QueueDone(f, c) PROVE TypeOK'
  BY <1>18, <1>a DEF TypeOK, QueueDone
<1>19. CASE ShutdownServer
  BY <1>19, <1>a DEF TypeOK, ShutdownServer
<1>20. CASE ShutdownCq
  BY <1>20, <1>a DEF TypeOK, ShutdownCq
<1>21. CASE Join
  BY <1>21, <1>a DEF TypeOK, Join
<1>22. CASE UNCHANGED vars
  BY <1>22, <1>a DEF TypeOK, vars
<1> QED
  BY <1>1, <1>2, <1>3, <1>4, <1>5, <1>6, <1>7, <1>8, <1>9, <1>10, <1>11,
     <1>12, <1>13, <1>14, <1>15, <1>16, <1>17, <1>18, <1>19, <1>20, <1>21, <1>22
  DEF Next, Handle, Terminated

USE DEF Begin

(* A call that is being served or refused keeps Server::Shutdown() from    *)
(* returning, and so the completion queue open (server.cpp:69-72).         *)
LEMMA OpenWhileServing ==
    ASSUME IInv, NEW f \in Frames,
           pos[f] \in {"auth", "rejecting", "body", "io", "final"}
    PROVE  server \notin {"cq_shutdown", "stopped"}
<1>1. calls[f] \in Calls /\ frame[f] = "alive"
  BY DEF IInv, TypeOK
<1>2. PlaceOK(f)
  BY DEF IInv
<1>3. Call(f) \in {"open", "cancelled", "closed"}
  BY <1>2 DEF PlaceOK, Delivered
<1>4. Held(f, calls[f])
  BY <1>1, <1>3 DEF Held
<1> QED BY <1>1, <1>4 DEF IInv, ShutdownOK

(* So is the queue when a task function is called (task.h:222-274).        *)
LEMMA OpenWhenSpawning ==
    ASSUME IInv, NEW f \in Frames, Spawn(f) PROVE ~Drained
  BY OpenWhileServing DEF Spawn, Drained

(* Every step takes a frame from one suspension point to the next with the *)
(* operation, the call and the hooks that belong there, and leaves the     *)
(* other frames alone (task.h:222-308, 366-374).                           *)
LEMMA FramesKept ==
    ASSUME IInv, TypeOK', NEW g \in Frames, [Next]_vars
    PROVE  PlaceOK(g)' /\ CallsOK(g)'
<1> USE TaskAssumption
<1>1. ASSUME NEW f \in Frames, Spawn(f) PROVE PlaceOK(g)' /\ CallsOK(g)'
  <2>1. ~Drained
    BY <1>1, OpenWhenSpawning
  <2>2. CASE f = g
    <3>0. TypeOK
      BY DEF IInv
    <3>a. frame[f] = "none" /\ PlaceOK(f) /\ CallsOK(f)
      BY <1>1 DEF Spawn, IInv
    <3>b. /\ calls[f] = 1 /\ hooks[f] = "none" /\ Call(f) = "none"
          /\ op[f] = "none" /\ event[f] = "none"
      BY <3>a DEF PlaceOK, Idle
    <3>c. 1 \in Calls
      BY TaskAssumption
    <3>1. done[f][1] = "none" /\ 1 \in Calls
      <4>1. done[f][1] # "none" => rpc[f][1] \in {"open", "cancelled", "closed"}
        BY <3>a, <3>c DEF CallsOK
      <4> QED BY <4>1, <3>b, <3>c
    <3>2. /\ frame'[f] = "alive" /\ pos'[f] = "initial" /\ op'[f] = "request"
          /\ \A c \in Calls : rpc'[f][c] = IF c = 1 THEN "requested" ELSE rpc[f][c]
          /\ UNCHANGED <<calls, hooks, event, done>>
      BY <1>1, <2>1, <3>0, <3>b DEF TypeOK, Spawn
    <3>3. PlaceOK(f)'
      BY <3>0, <3>1, <3>2, <3>b DEF TypeOK, PlaceOK
    <3>4. CallsOK(f)'
      BY <3>0, <3>1, <3>2, <3>a, <3>b DEF TypeOK, CallsOK
    <3> QED BY <2>2, <3>3, <3>4
  <2>3. CASE f # g
    BY <1>1, <2>1, <2>3
    DEF IInv, TypeOK, PlaceOK, CallsOK, Idle, Awaiting, Delivered, Spawn
  <2> QED BY <2>2, <2>3
<1>2. ASSUME NEW f \in Frames, HandleRequestFailed(f)
      PROVE PlaceOK(g)' /\ CallsOK(g)'
  BY <1>2
  DEF IInv, TypeOK, PlaceOK, CallsOK, ShutdownOK, Held, Drained, Idle,
      Awaiting, Delivered, AbortOnlyInRestart, HandleRequestFailed
<1>3. ASSUME NEW f \in Frames, HandleRequest(f)
      PROVE PlaceOK(g)' /\ CallsOK(g)'
  BY <1>3
  DEF IInv, TypeOK, PlaceOK, CallsOK, ShutdownOK, Held, Drained, Idle,
      Awaiting, Delivered, AbortOnlyInRestart, HandleRequest
<1>4. ASSUME NEW f \in Frames, HandleRejectSent(f)
      PROVE PlaceOK(g)' /\ CallsOK(g)'
  BY <1>4
  DEF IInv, TypeOK, PlaceOK, CallsOK, ShutdownOK, Held, Drained, Idle,
      Awaiting, Delivered, AbortOnlyInRestart, HandleRejectSent
<1>5. ASSUME NEW f \in Frames, Restart(f) PROVE PlaceOK(g)' /\ CallsOK(g)'
  BY <1>5
  DEF IInv, TypeOK, PlaceOK, CallsOK, ShutdownOK, Held, Drained, Idle,
      Awaiting, Delivered, AbortOnlyInRestart, Restart
<1>6. ASSUME NEW f \in Frames, HandleIo(f) PROVE PlaceOK(g)' /\ CallsOK(g)'
  BY <1>6
  DEF IInv, TypeOK, PlaceOK, CallsOK, ShutdownOK, Held, Drained, Idle,
      Awaiting, Delivered, AbortOnlyInRestart, HandleIo
<1>7. ASSUME NEW f \in Frames, HandleFinish(f) PROVE PlaceOK(g)' /\ CallsOK(g)'
  BY <1>7
  DEF IInv, TypeOK, PlaceOK, CallsOK, ShutdownOK, Held, Drained, Idle,
      Awaiting, Delivered, AbortOnlyInRestart, HandleFinish
<1>8. ASSUME NEW f \in Frames, Authenticated(f)
      PROVE PlaceOK(g)' /\ CallsOK(g)'
  BY <1>8
  DEF IInv, TypeOK, PlaceOK, CallsOK, ShutdownOK, Held, Drained, Idle,
      Awaiting, Delivered, AbortOnlyInRestart, Authenticated
<1>9. ASSUME NEW f \in Frames, Rejected(f) PROVE PlaceOK(g)' /\ CallsOK(g)'
  BY <1>9
  DEF IInv, TypeOK, PlaceOK, CallsOK, ShutdownOK, Held, Drained, Idle,
      Awaiting, Delivered, AbortOnlyInRestart, Rejected
<1>10. ASSUME NEW f \in Frames, BodyAwaits(f) PROVE PlaceOK(g)' /\ CallsOK(g)'
  BY <1>10
  DEF IInv, TypeOK, PlaceOK, CallsOK, ShutdownOK, Held, Drained, Idle,
      Awaiting, Delivered, AbortOnlyInRestart, BodyAwaits
<1>11. ASSUME NEW f \in Frames, BodyEnds(f) PROVE PlaceOK(g)' /\ CallsOK(g)'
  BY <1>11
  DEF IInv, TypeOK, PlaceOK, CallsOK, ShutdownOK, Held, Drained, Idle,
      Awaiting, Delivered, AbortOnlyInRestart, BodyEnds
<1>12. ASSUME NEW f \in Frames, Accept(f) PROVE PlaceOK(g)' /\ CallsOK(g)'
  BY <1>12
  DEF IInv, TypeOK, PlaceOK, CallsOK, ShutdownOK, Held, Drained, Idle,
      Awaiting, Delivered, AbortOnlyInRestart, Accept
<1>13. ASSUME NEW f \in Frames, FailRequest(f) PROVE PlaceOK(g)' /\ CallsOK(g)'
  BY <1>13
  DEF IInv, TypeOK, PlaceOK, CallsOK, ShutdownOK, Held, Drained, Idle,
      Awaiting, Delivered, AbortOnlyInRestart, FailRequest
<1>14. ASSUME NEW f \in Frames, Cancel(f) PROVE PlaceOK(g)' /\ CallsOK(g)'
  BY <1>14
  DEF IInv, TypeOK, PlaceOK, CallsOK, ShutdownOK, Held, Drained, Idle,
      Awaiting, Delivered, AbortOnlyInRestart, Cancel
<1>15. ASSUME NEW f \in Frames, SendStatus(f) PROVE PlaceOK(g)' /\ CallsOK(g)'
  BY <1>15
  DEF IInv, TypeOK, PlaceOK, CallsOK, ShutdownOK, Held, Drained, Idle,
      Awaiting, Delivered, AbortOnlyInRestart, SendStatus
<1>16. ASSUME NEW f \in Frames, Complete(f) PROVE PlaceOK(g)' /\ CallsOK(g)'
  BY <1>16
  DEF IInv, TypeOK, PlaceOK, CallsOK, ShutdownOK, Held, Drained, Idle,
      Awaiting, Delivered, AbortOnlyInRestart, Complete
<1>17. ASSUME NEW f \in Frames, NEW c \in Calls, HandleDone(f, c)
      PROVE PlaceOK(g)' /\ CallsOK(g)'
  <2>1. TypeOK /\ PlaceOK(g) /\ CallsOK(g)
    BY DEF IInv
  <2>2. /\ done[f][c] = "queued"
        /\ fault = "none"
        /\ UNCHANGED <<frame, pos, calls, hooks, op, event, rpc>>
    BY <1>17, <2>1, NotificationTaken
  <2>3. CASE g = f
    <3>1. \A d \in Calls : done'[g][d] = IF d = c THEN "taken" ELSE done[g][d]
      BY <1>17, <2>1, <2>3, NotificationTaken DEF TypeOK
    <3>2. /\ m_is_cancelled[g] => m_is_cancelled'[g]
          /\ frame[g] = "alive" /\ c = calls[g] /\ Call(g) = "cancelled"
                => m_is_cancelled'[g]
      BY <1>17, <2>1, <2>3, NotificationTaken
    <3>3. PlaceOK(g)'
      <4>1. (done'[g][calls[g]] = "none") <=> (done[g][calls[g]] = "none")
        BY <2>1, <2>2, <2>3, <3>1 DEF TypeOK
      <4> QED BY <2>1, <2>2, <4>1 DEF PlaceOK, Idle, Awaiting, Delivered
    <3>4. CallsOK(g)'
      <4> SUFFICES ASSUME NEW d \in Calls
                   PROVE  /\ d < calls'[g] => rpc'[g][d] \in {"cancelled", "closed"}
                          /\ d > calls'[g] => done'[g][d] = "none" /\ rpc'[g][d] = "none"
                          /\ done'[g][d] # "none" =>
                                rpc'[g][d] \in {"open", "cancelled", "closed"}
                          /\ done'[g][d] \in {"queued", "taken"} => rpc'[g][d] # "open"
                          /\ /\ d = calls'[g]
                             /\ frame'[g] = "alive"
                             /\ rpc'[g][d] = "cancelled"
                             /\ done'[g][d] = "taken"
                             => m_is_cancelled'[g]
        BY DEF CallsOK
      <4> QED BY <2>1, <2>2, <2>3, <3>1, <3>2 DEF CallsOK
    <3> QED BY <3>3, <3>4
  <2>4. CASE g # f
    <3>1. done'[g] = done[g] /\ m_is_cancelled'[g] = m_is_cancelled[g]
      BY <1>17, <2>1, <2>4 DEF HandleDone, TypeOK
    <3> QED
      BY <2>1, <2>2, <3>1 DEF PlaceOK, CallsOK, Idle, Awaiting, Delivered
  <2> QED BY <2>3, <2>4
<1>18. ASSUME NEW f \in Frames, NEW c \in Calls, QueueDone(f, c)
      PROVE PlaceOK(g)' /\ CallsOK(g)'
  BY <1>18
  DEF IInv, TypeOK, PlaceOK, CallsOK, ShutdownOK, Held, Drained, Idle,
      Awaiting, Delivered, AbortOnlyInRestart, QueueDone
<1>19. CASE ShutdownServer
  BY <1>19
  DEF IInv, TypeOK, PlaceOK, CallsOK, ShutdownOK, Held, Drained, Idle,
      Awaiting, Delivered, AbortOnlyInRestart, ShutdownServer
<1>20. CASE ShutdownCq
  BY <1>20
  DEF IInv, TypeOK, PlaceOK, CallsOK, ShutdownOK, Held, Drained, Idle,
      Awaiting, Delivered, AbortOnlyInRestart, ShutdownCq
<1>21. CASE Join
  BY <1>21
  DEF IInv, TypeOK, PlaceOK, CallsOK, ShutdownOK, Held, Drained, Idle,
      Awaiting, Delivered, AbortOnlyInRestart, Join
<1>22. CASE UNCHANGED vars
  BY <1>22
  DEF IInv, TypeOK, PlaceOK, CallsOK, ShutdownOK, Held, Drained, Idle,
      Awaiting, Delivered, AbortOnlyInRestart, vars
<1> QED
  BY <1>1, <1>2, <1>3, <1>4, <1>5, <1>6, <1>7, <1>8, <1>9, <1>10, <1>11,
     <1>12, <1>13, <1>14, <1>15, <1>16, <1>17, <1>18, <1>19, <1>20, <1>21, <1>22
  DEF Next, Handle, Terminated
(* No call begins once Server::Shutdown() has returned (server.cpp:69-72). *)
LEMMA ShutdownKept ==
    ASSUME IInv, TypeOK', [Next]_vars
    PROVE  ShutdownOK'
<1> USE TaskAssumption
<1>1. ASSUME NEW f \in Frames, Spawn(f) PROVE ShutdownOK'
  BY <1>1
  DEF IInv, TypeOK, PlaceOK, CallsOK, ShutdownOK, Held, Idle, Awaiting,
      Delivered, Spawn
<1>2. ASSUME NEW f \in Frames, HandleRequestFailed(f) PROVE ShutdownOK'
  BY <1>2
  DEF IInv, TypeOK, PlaceOK, CallsOK, ShutdownOK, Held, Idle, Awaiting,
      Delivered, HandleRequestFailed
<1>3. ASSUME NEW f \in Frames, HandleRequest(f) PROVE ShutdownOK'
  BY <1>3
  DEF IInv, TypeOK, PlaceOK, CallsOK, ShutdownOK, Held, Idle, Awaiting,
      Delivered, HandleRequest
<1>4. ASSUME NEW f \in Frames, HandleRejectSent(f) PROVE ShutdownOK'
  <2>1. TypeOK /\ PlaceOK(f) /\ CallsOK(f)
    BY DEF IInv
  <2>2. event[f] = "reject" /\ calls' = [calls EXCEPT ![f] = calls[f] + 1]
    BY <1>4, <2>1 DEF HandleRejectSent, TypeOK
  <2>3. pos[f] = "rejecting"
    BY <2>1, <2>2, WhereOperationsAre
  <2>4. MayReject /\ server \notin {"cq_shutdown", "stopped"}
    BY <2>1, <2>3, OpenWhileServing DEF PlaceOK
  <2> QED BY <1>4, <2>4 DEF HandleRejectSent, ShutdownOK
<1>5. ASSUME NEW f \in Frames, Restart(f) PROVE ShutdownOK'
  BY <1>5
  DEF IInv, TypeOK, PlaceOK, CallsOK, ShutdownOK, Held, Idle, Awaiting,
      Delivered, Restart
<1>6. ASSUME NEW f \in Frames, HandleIo(f) PROVE ShutdownOK'
  BY <1>6
  DEF IInv, TypeOK, PlaceOK, CallsOK, ShutdownOK, Held, Idle, Awaiting,
      Delivered, HandleIo
<1>7. ASSUME NEW f \in Frames, HandleFinish(f) PROVE ShutdownOK'
  BY <1>7
  DEF IInv, TypeOK, PlaceOK, CallsOK, ShutdownOK, Held, Idle, Awaiting,
      Delivered, HandleFinish
<1>8. ASSUME NEW f \in Frames, Authenticated(f) PROVE ShutdownOK'
  BY <1>8
  DEF IInv, TypeOK, PlaceOK, CallsOK, ShutdownOK, Held, Idle, Awaiting,
      Delivered, Authenticated
<1>9. ASSUME NEW f \in Frames, Rejected(f) PROVE ShutdownOK'
  BY <1>9
  DEF IInv, TypeOK, PlaceOK, CallsOK, ShutdownOK, Held, Idle, Awaiting,
      Delivered, Rejected
<1>10. ASSUME NEW f \in Frames, BodyAwaits(f) PROVE ShutdownOK'
  BY <1>10
  DEF IInv, TypeOK, PlaceOK, CallsOK, ShutdownOK, Held, Idle, Awaiting,
      Delivered, BodyAwaits
<1>11. ASSUME NEW f \in Frames, BodyEnds(f) PROVE ShutdownOK'
  BY <1>11
  DEF IInv, TypeOK, PlaceOK, CallsOK, ShutdownOK, Held, Idle, Awaiting,
      Delivered, BodyEnds
<1>12. ASSUME NEW f \in Frames, Accept(f) PROVE ShutdownOK'
  BY <1>12
  DEF IInv, TypeOK, PlaceOK, CallsOK, ShutdownOK, Held, Idle, Awaiting,
      Delivered, Accept
<1>13. ASSUME NEW f \in Frames, FailRequest(f) PROVE ShutdownOK'
  BY <1>13
  DEF IInv, TypeOK, PlaceOK, CallsOK, ShutdownOK, Held, Idle, Awaiting,
      Delivered, FailRequest
<1>14. ASSUME NEW f \in Frames, Cancel(f) PROVE ShutdownOK'
  BY <1>14
  DEF IInv, TypeOK, PlaceOK, CallsOK, ShutdownOK, Held, Idle, Awaiting,
      Delivered, Cancel
<1>15. ASSUME NEW f \in Frames, SendStatus(f) PROVE ShutdownOK'
  BY <1>15
  DEF IInv, TypeOK, PlaceOK, CallsOK, ShutdownOK, Held, Idle, Awaiting,
      Delivered, SendStatus
<1>16. ASSUME NEW f \in Frames, Complete(f) PROVE ShutdownOK'
  BY <1>16
  DEF IInv, TypeOK, PlaceOK, CallsOK, ShutdownOK, Held, Idle, Awaiting,
      Delivered, Complete
<1>17. ASSUME NEW f \in Frames, NEW c \in Calls, HandleDone(f, c)
      PROVE ShutdownOK'
  BY <1>17
  DEF IInv, TypeOK, PlaceOK, CallsOK, ShutdownOK, Held, Idle, Awaiting,
      Delivered, HandleDone
<1>18. ASSUME NEW f \in Frames, NEW c \in Calls, QueueDone(f, c)
      PROVE ShutdownOK'
  BY <1>18
  DEF IInv, TypeOK, PlaceOK, CallsOK, ShutdownOK, Held, Idle, Awaiting,
      Delivered, QueueDone
<1>19. CASE ShutdownServer
  BY <1>19
  DEF IInv, TypeOK, PlaceOK, CallsOK, ShutdownOK, Held, Idle, Awaiting,
      Delivered, ShutdownServer
<1>20. CASE ShutdownCq
  BY <1>20
  DEF IInv, TypeOK, PlaceOK, CallsOK, ShutdownOK, Held, Idle, Awaiting,
      Delivered, ShutdownCq
<1>21. CASE Join
  BY <1>21
  DEF IInv, TypeOK, PlaceOK, CallsOK, ShutdownOK, Held, Idle, Awaiting,
      Delivered, Join
<1>22. CASE UNCHANGED vars
  BY <1>22
  DEF IInv, TypeOK, PlaceOK, CallsOK, ShutdownOK, Held, Idle, Awaiting,
      Delivered, vars
<1> QED
  BY <1>1, <1>2, <1>3, <1>4, <1>5, <1>6, <1>7, <1>8, <1>9, <1>10, <1>11,
     <1>12, <1>13, <1>14, <1>15, <1>16, <1>17, <1>18, <1>19, <1>20, <1>21, <1>22
  DEF Next, Handle, Terminated

(* What becomes of a call that was not cancelled takes no ground from the  *)
(* signals given so far (task.h:369-371).                                  *)
LEMMA OtherCallsStay ==
    ASSUME TypeOK, Grounded, NEW f \in Frames, NEW state,
           Call(f) # "cancelled",
           rpc' = [rpc EXCEPT ![f][calls[f]] = state],
           UNCHANGED <<calls, m_is_cancelled>>
    PROVE  Grounded'
<1> SUFFICES ASSUME NEW g \in Frames, m_is_cancelled[g]
             PROVE  \E c \in Calls : c <= calls[g] /\ rpc'[g][c] = "cancelled"
  BY DEF Grounded
<1>1. PICK c \in Calls : c <= calls[g] /\ rpc[g][c] = "cancelled"
  BY DEF Grounded
<1>2. ~(g = f /\ c = calls[f])
  BY <1>1
<1>3. rpc'[g][c] = rpc[g][c]
  BY <1>2 DEF TypeOK
<1> QED BY <1>1, <1>3

(* m_is_cancelled is set for a cancelled call only (task.h:369-371).       *)
LEMMA CancelKept ==
    ASSUME IInv, TypeOK', [Next]_vars
    PROVE  Grounded'
<1> USE TaskAssumption
<1>1. ASSUME NEW f \in Frames, Spawn(f) PROVE Grounded'
  <2>1. TypeOK /\ PlaceOK(f) /\ Grounded
    BY DEF IInv
  <2>2. Call(f) # "cancelled"
    BY <1>1, <2>1 DEF Spawn, PlaceOK
  <2> QED BY <1>1, <2>1, <2>2, OtherCallsStay DEF Spawn
<1>2. ASSUME NEW f \in Frames, HandleRequestFailed(f)
      PROVE Grounded'
  BY <1>2
  DEF IInv, TypeOK, PlaceOK, CallsOK, Grounded, Idle, Awaiting,
      HandleRequestFailed
<1>3. ASSUME NEW f \in Frames, HandleRequest(f) PROVE Grounded'
  BY <1>3
  DEF IInv, TypeOK, PlaceOK, CallsOK, Grounded, Idle, Awaiting,
      HandleRequest
<1>4. ASSUME NEW f \in Frames, HandleRejectSent(f) PROVE Grounded'
  BY <1>4
  DEF IInv, TypeOK, PlaceOK, CallsOK, Grounded, Idle, Awaiting,
      HandleRejectSent
<1>5. ASSUME NEW f \in Frames, Restart(f) PROVE Grounded'
  <2>1. TypeOK /\ PlaceOK(f) /\ Grounded
    BY DEF IInv
  <2>2. Call(f) # "cancelled"
    BY <1>5, <2>1 DEF Restart, PlaceOK
  <2> QED BY <1>5, <2>1, <2>2, OtherCallsStay DEF Restart
<1>6. ASSUME NEW f \in Frames, HandleIo(f) PROVE Grounded'
  BY <1>6
  DEF IInv, TypeOK, PlaceOK, CallsOK, Grounded, Idle, Awaiting,
      HandleIo
<1>7. ASSUME NEW f \in Frames, HandleFinish(f) PROVE Grounded'
  BY <1>7
  DEF IInv, TypeOK, PlaceOK, CallsOK, Grounded, Idle, Awaiting,
      HandleFinish
<1>8. ASSUME NEW f \in Frames, Authenticated(f) PROVE Grounded'
  BY <1>8
  DEF IInv, TypeOK, PlaceOK, CallsOK, Grounded, Idle, Awaiting,
      Authenticated
<1>9. ASSUME NEW f \in Frames, Rejected(f) PROVE Grounded'
  BY <1>9
  DEF IInv, TypeOK, PlaceOK, CallsOK, Grounded, Idle, Awaiting,
      Rejected
<1>10. ASSUME NEW f \in Frames, BodyAwaits(f) PROVE Grounded'
  BY <1>10
  DEF IInv, TypeOK, PlaceOK, CallsOK, Grounded, Idle, Awaiting,
      BodyAwaits
<1>11. ASSUME NEW f \in Frames, BodyEnds(f) PROVE Grounded'
  BY <1>11
  DEF IInv, TypeOK, PlaceOK, CallsOK, Grounded, Idle, Awaiting,
      BodyEnds
<1>12. ASSUME NEW f \in Frames, Accept(f) PROVE Grounded'
  <2>1. TypeOK /\ PlaceOK(f) /\ Grounded
    BY DEF IInv
  <2>2. pos[f] = "initial" /\ op[f] = "request"
    BY <1>12, <2>1, WhereOperationsAre DEF Accept
  <2>3. Call(f) # "cancelled"
    BY <2>1, <2>2 DEF PlaceOK, Idle
  <2> QED BY <1>12, <2>1, <2>3, OtherCallsStay DEF Accept
<1>13. ASSUME NEW f \in Frames, FailRequest(f) PROVE Grounded'
  <2>1. TypeOK /\ PlaceOK(f) /\ Grounded
    BY DEF IInv
  <2>2. pos[f] = "initial" /\ op[f] = "request"
    BY <1>13, <2>1, WhereOperationsAre DEF FailRequest
  <2>3. Call(f) # "cancelled"
    BY <2>1, <2>2 DEF PlaceOK, Idle
  <2> QED BY <1>13, <2>1, <2>3, OtherCallsStay DEF FailRequest
<1>14. ASSUME NEW f \in Frames, Cancel(f) PROVE Grounded'
  BY <1>14
  DEF IInv, TypeOK, PlaceOK, CallsOK, Grounded, Idle, Awaiting,
      Cancel
<1>15. ASSUME NEW f \in Frames, SendStatus(f) PROVE Grounded'
  <2>1. TypeOK /\ PlaceOK(f) /\ Grounded
    BY DEF IInv
  <2>2. Call(f) # "cancelled"
    BY <1>15, <2>1 DEF SendStatus, PlaceOK
  <2> QED BY <1>15, <2>1, <2>2, OtherCallsStay DEF SendStatus
<1>16. ASSUME NEW f \in Frames, Complete(f) PROVE Grounded'
  BY <1>16
  DEF IInv, TypeOK, PlaceOK, CallsOK, Grounded, Idle, Awaiting,
      Complete
<1>17. ASSUME NEW f \in Frames, NEW c \in Calls, HandleDone(f, c)
      PROVE Grounded'
  <2>1. TypeOK /\ Grounded
    BY DEF IInv
  <2>2. UNCHANGED <<calls, rpc>>
    BY <1>17, <2>1, NotificationTaken
  <2>3. ASSUME NEW g \in Frames, m_is_cancelled'[g]
        PROVE  \E d \in Calls : d <= calls[g] /\ rpc[g][d] = "cancelled"
    <3>1. CASE m_is_cancelled[g]
      BY <2>1, <3>1 DEF Grounded
    <3>2. CASE g = f /\ c = calls[f] /\ Call(f) = "cancelled"
      BY <3>2
    <3> QED BY <1>17, <2>1, <2>3, <3>1, <3>2, NotificationTaken
  <2> QED BY <2>2, <2>3 DEF Grounded
<1>18. ASSUME NEW f \in Frames, NEW c \in Calls, QueueDone(f, c)
      PROVE Grounded'
  BY <1>18
  DEF IInv, TypeOK, PlaceOK, CallsOK, Grounded, Idle, Awaiting,
      QueueDone
<1>19. CASE ShutdownServer
  BY <1>19
  DEF IInv, TypeOK, PlaceOK, CallsOK, Grounded, Idle, Awaiting,
      ShutdownServer
<1>20. CASE ShutdownCq
  BY <1>20
  DEF IInv, TypeOK, PlaceOK, CallsOK, Grounded, Idle, Awaiting,
      ShutdownCq
<1>21. CASE Join
  BY <1>21
  DEF IInv, TypeOK, PlaceOK, CallsOK, Grounded, Idle, Awaiting,
      Join
<1>22. CASE UNCHANGED vars
  BY <1>22
  DEF IInv, TypeOK, PlaceOK, CallsOK, Grounded, Idle, Awaiting,
      vars
<1> QED
  BY <1>1, <1>2, <1>3, <1>4, <1>5, <1>6, <1>7, <1>8, <1>9, <1>10, <1>11,
     <1>12, <1>13, <1>14, <1>15, <1>16, <1>17, <1>18, <1>19, <1>20, <1>21, <1>22
  DEF Next, Handle, Terminated

(* The thread is joined when no frame is left (server.cpp:73-78,           *)
(* task.h:232, 286).                                                       *)
LEMMA NothingLeakedKept ==
    ASSUME IInv, TypeOK', [Next]_vars
    PROVE  NothingLeaked'
<1> USE TaskAssumption
<1>1. ASSUME NEW f \in Frames, Spawn(f) PROVE NothingLeaked'
  BY <1>1
  DEF IInv, TypeOK, PlaceOK, NothingLeaked, Idle, Awaiting, Delivered,
      ShutdownOK, Held, Spawn
<1>2. ASSUME NEW f \in Frames, HandleRequestFailed(f) PROVE NothingLeaked'
  BY <1>2
  DEF IInv, TypeOK, PlaceOK, NothingLeaked, Idle, Awaiting, Delivered,
      ShutdownOK, Held, HandleRequestFailed
<1>3. ASSUME NEW f \in Frames, HandleRequest(f) PROVE NothingLeaked'
  BY <1>3
  DEF IInv, TypeOK, PlaceOK, NothingLeaked, Idle, Awaiting, Delivered,
      ShutdownOK, Held, HandleRequest
<1>4. ASSUME NEW f \in Frames, HandleRejectSent(f) PROVE NothingLeaked'
  BY <1>4
  DEF IInv, TypeOK, PlaceOK, NothingLeaked, Idle, Awaiting, Delivered,
      ShutdownOK, Held, HandleRejectSent
<1>5. ASSUME NEW f \in Frames, Restart(f) PROVE NothingLeaked'
  BY <1>5
  DEF IInv, TypeOK, PlaceOK, NothingLeaked, Idle, Awaiting, Delivered,
      ShutdownOK, Held, Restart
<1>6. ASSUME NEW f \in Frames, HandleIo(f) PROVE NothingLeaked'
  BY <1>6
  DEF IInv, TypeOK, PlaceOK, NothingLeaked, Idle, Awaiting, Delivered,
      ShutdownOK, Held, HandleIo
<1>7. ASSUME NEW f \in Frames, HandleFinish(f) PROVE NothingLeaked'
  BY <1>7
  DEF IInv, TypeOK, PlaceOK, NothingLeaked, Idle, Awaiting, Delivered,
      ShutdownOK, Held, HandleFinish
<1>8. ASSUME NEW f \in Frames, Authenticated(f) PROVE NothingLeaked'
  BY <1>8
  DEF IInv, TypeOK, PlaceOK, NothingLeaked, Idle, Awaiting, Delivered,
      ShutdownOK, Held, Authenticated
<1>9. ASSUME NEW f \in Frames, Rejected(f) PROVE NothingLeaked'
  BY <1>9
  DEF IInv, TypeOK, PlaceOK, NothingLeaked, Idle, Awaiting, Delivered,
      ShutdownOK, Held, Rejected
<1>10. ASSUME NEW f \in Frames, BodyAwaits(f) PROVE NothingLeaked'
  BY <1>10
  DEF IInv, TypeOK, PlaceOK, NothingLeaked, Idle, Awaiting, Delivered,
      ShutdownOK, Held, BodyAwaits
<1>11. ASSUME NEW f \in Frames, BodyEnds(f) PROVE NothingLeaked'
  BY <1>11
  DEF IInv, TypeOK, PlaceOK, NothingLeaked, Idle, Awaiting, Delivered,
      ShutdownOK, Held, BodyEnds
<1>12. ASSUME NEW f \in Frames, Accept(f) PROVE NothingLeaked'
  BY <1>12
  DEF IInv, TypeOK, PlaceOK, NothingLeaked, Idle, Awaiting, Delivered,
      ShutdownOK, Held, Accept
<1>13. ASSUME NEW f \in Frames, FailRequest(f) PROVE NothingLeaked'
  BY <1>13
  DEF IInv, TypeOK, PlaceOK, NothingLeaked, Idle, Awaiting, Delivered,
      ShutdownOK, Held, FailRequest
<1>14. ASSUME NEW f \in Frames, Cancel(f) PROVE NothingLeaked'
  BY <1>14
  DEF IInv, TypeOK, PlaceOK, NothingLeaked, Idle, Awaiting, Delivered,
      ShutdownOK, Held, Cancel
<1>15. ASSUME NEW f \in Frames, SendStatus(f) PROVE NothingLeaked'
  BY <1>15
  DEF IInv, TypeOK, PlaceOK, NothingLeaked, Idle, Awaiting, Delivered,
      ShutdownOK, Held, SendStatus
<1>16. ASSUME NEW f \in Frames, Complete(f) PROVE NothingLeaked'
  BY <1>16
  DEF IInv, TypeOK, PlaceOK, NothingLeaked, Idle, Awaiting, Delivered,
      ShutdownOK, Held, Complete
<1>17. ASSUME NEW f \in Frames, NEW c \in Calls, HandleDone(f, c)
      PROVE NothingLeaked'
  BY <1>17
  DEF IInv, TypeOK, PlaceOK, NothingLeaked, Idle, Awaiting, Delivered,
      ShutdownOK, Held, HandleDone
<1>18. ASSUME NEW f \in Frames, NEW c \in Calls, QueueDone(f, c)
      PROVE NothingLeaked'
  BY <1>18
  DEF IInv, TypeOK, PlaceOK, NothingLeaked, Idle, Awaiting, Delivered,
      ShutdownOK, Held, QueueDone
<1>19. CASE ShutdownServer
  BY <1>19
  DEF IInv, TypeOK, PlaceOK, NothingLeaked, Idle, Awaiting, Delivered,
      ShutdownOK, Held, ShutdownServer
<1>20. CASE ShutdownCq
  BY <1>20
  DEF IInv, TypeOK, PlaceOK, NothingLeaked, Idle, Awaiting, Delivered,
      ShutdownOK, Held, ShutdownCq
<1>21. CASE Join
  <2>1. ASSUME NEW f \in Frames, frame[f] = "alive" PROVE FALSE
    <3>1. TypeOK /\ PlaceOK(f)
      BY DEF IInv
    <3>2. Ok /\ server = "cq_shutdown" /\ op[f] = "none" /\ event[f] = "none"
      BY <1>21 DEF Join, Drained
    <3>3. pos[f] \in {"auth", "rejecting", "body", "io", "final"}
      BY <1>21, <2>1, <3>1, <3>2 DEF Join, Busy, PlaceOK, Idle, TypeOK
    <3> QED BY <3>2, <3>3, OpenWhileServing
  <2> QED BY <1>21, <2>1 DEF Join, NothingLeaked
<1>22. CASE UNCHANGED vars
  BY <1>22
  DEF IInv, TypeOK, PlaceOK, NothingLeaked, Idle, Awaiting, Delivered,
      ShutdownOK, Held, vars
<1> QED
  BY <1>1, <1>2, <1>3, <1>4, <1>5, <1>6, <1>7, <1>8, <1>9, <1>10, <1>11,
     <1>12, <1>13, <1>14, <1>15, <1>16, <1>17, <1>18, <1>19, <1>20, <1>21, <1>22
  DEF Next, Handle, Terminated

(* Only the request of the next call can meet a drained queue              *)
(* (task.h:249-252).                                                       *)
LEMMA AbortKept ==
    ASSUME IInv, TypeOK', [Next]_vars
    PROVE  AbortOnlyInRestart'
<1> USE TaskAssumption
<1>1. ASSUME NEW f \in Frames, Spawn(f) PROVE AbortOnlyInRestart'
  BY <1>1, OpenWhenSpawning DEF AbortOnlyInRestart, Spawn
<1>2. ASSUME NEW f \in Frames, HandleRequestFailed(f) PROVE AbortOnlyInRestart'
  BY <1>2
  DEF IInv, TypeOK, PlaceOK, AbortOnlyInRestart, Delivered, ShutdownOK, Held,
      Drained, HandleRequestFailed
<1>3. ASSUME NEW f \in Frames, HandleRequest(f) PROVE AbortOnlyInRestart'
  BY <1>3
  DEF IInv, TypeOK, PlaceOK, AbortOnlyInRestart, Delivered, ShutdownOK, Held,
      Drained, HandleRequest
<1>4. ASSUME NEW f \in Frames, HandleRejectSent(f) PROVE AbortOnlyInRestart'
  BY <1>4
  DEF IInv, TypeOK, PlaceOK, AbortOnlyInRestart, Delivered, ShutdownOK, Held,
      Drained, HandleRejectSent
<1>5. ASSUME NEW f \in Frames, Restart(f) PROVE AbortOnlyInRestart'
  <2>1. TypeOK /\ PlaceOK(f)
    BY DEF IInv
  <2>2. pos[f] = "restarting" /\ op[f] = "none" /\ calls[f] > 1 /\ MayReject
    BY <1>5, <2>1 DEF Restart, PlaceOK, Idle, IInv, ShutdownOK
  <2>3. CASE Drained
    BY <1>5, <2>1, <2>2, <2>3 DEF Restart, TypeOK, AbortOnlyInRestart
  <2>4. CASE ~Drained
    BY <1>5, <2>4 DEF Restart, AbortOnlyInRestart
  <2> QED BY <2>3, <2>4
<1>6. ASSUME NEW f \in Frames, HandleIo(f) PROVE AbortOnlyInRestart'
  BY <1>6
  DEF IInv, TypeOK, PlaceOK, AbortOnlyInRestart, Delivered, ShutdownOK, Held,
      Drained, HandleIo
<1>7. ASSUME NEW f \in Frames, HandleFinish(f) PROVE AbortOnlyInRestart'
  BY <1>7
  DEF IInv, TypeOK, PlaceOK, AbortOnlyInRestart, Delivered, ShutdownOK, Held,
      Drained, HandleFinish
<1>8. ASSUME NEW f \in Frames, Authenticated(f) PROVE AbortOnlyInRestart'
  BY <1>8
  DEF IInv, TypeOK, PlaceOK, AbortOnlyInRestart, Delivered, ShutdownOK, Held,
      Drained, Authenticated
<1>9. ASSUME NEW f \in Frames, Rejected(f) PROVE AbortOnlyInRestart'
  BY <1>9, OpenWhileServing DEF AbortOnlyInRestart, Drained, Rejected
<1>10. ASSUME NEW f \in Frames, BodyAwaits(f) PROVE AbortOnlyInRestart'
  BY <1>10, OpenWhileServing DEF AbortOnlyInRestart, Drained, BodyAwaits
<1>11. ASSUME NEW f \in Frames, BodyEnds(f) PROVE AbortOnlyInRestart'
  BY <1>11, OpenWhileServing DEF AbortOnlyInRestart, Drained, BodyEnds
<1>12. ASSUME NEW f \in Frames, Accept(f) PROVE AbortOnlyInRestart'
  BY <1>12
  DEF IInv, TypeOK, PlaceOK, AbortOnlyInRestart, Delivered, ShutdownOK, Held,
      Drained, Accept
<1>13. ASSUME NEW f \in Frames, FailRequest(f) PROVE AbortOnlyInRestart'
  BY <1>13
  DEF IInv, TypeOK, PlaceOK, AbortOnlyInRestart, Delivered, ShutdownOK, Held,
      Drained, FailRequest
<1>14. ASSUME NEW f \in Frames, Cancel(f) PROVE AbortOnlyInRestart'
  BY <1>14
  DEF IInv, TypeOK, PlaceOK, AbortOnlyInRestart, Delivered, ShutdownOK, Held,
      Drained, Cancel
<1>15. ASSUME NEW f \in Frames, SendStatus(f) PROVE AbortOnlyInRestart'
  BY <1>15
  DEF IInv, TypeOK, PlaceOK, AbortOnlyInRestart, Delivered, ShutdownOK, Held,
      Drained, SendStatus
<1>16. ASSUME NEW f \in Frames, Complete(f) PROVE AbortOnlyInRestart'
  BY <1>16
  DEF IInv, TypeOK, PlaceOK, AbortOnlyInRestart, Delivered, ShutdownOK, Held,
      Drained, Complete
<1>17. ASSUME NEW f \in Frames, NEW c \in Calls, HandleDone(f, c)
      PROVE AbortOnlyInRestart'
  BY <1>17
  DEF IInv, TypeOK, PlaceOK, AbortOnlyInRestart, Delivered, ShutdownOK, Held,
      Drained, HandleDone
<1>18. ASSUME NEW f \in Frames, NEW c \in Calls, QueueDone(f, c)
      PROVE AbortOnlyInRestart'
  BY <1>18
  DEF IInv, TypeOK, PlaceOK, AbortOnlyInRestart, Delivered, ShutdownOK, Held,
      Drained, QueueDone
<1>19. CASE ShutdownServer
  BY <1>19
  DEF IInv, TypeOK, PlaceOK, AbortOnlyInRestart, Delivered, ShutdownOK, Held,
      Drained, ShutdownServer
<1>20. CASE ShutdownCq
  BY <1>20
  DEF IInv, TypeOK, PlaceOK, AbortOnlyInRestart, Delivered, ShutdownOK, Held,
      Drained, ShutdownCq
<1>21. CASE Join
  BY <1>21
  DEF IInv, TypeOK, PlaceOK, AbortOnlyInRestart, Delivered, ShutdownOK, Held,
      Drained, Join
<1>22. CASE UNCHANGED vars
  BY <1>22
  DEF IInv, TypeOK, PlaceOK, AbortOnlyInRestart, Delivered, ShutdownOK, Held,
      Drained, vars
<1> QED
  BY <1>1, <1>2, <1>3, <1>4, <1>5, <1>6, <1>7, <1>8, <1>9, <1>10, <1>11,
     <1>12, <1>13, <1>14, <1>15, <1>16, <1>17, <1>18, <1>19, <1>20, <1>21, <1>22
  DEF Next, Handle, Terminated

(* The invariant holds before the first task function is called.           *)
LEMMA Initially == Init => IInv
<1> SUFFICES ASSUME Init PROVE IInv
  OBVIOUS
<1>1. TypeOK
  <2>1. 1 \in Calls
    BY TaskAssumption
  <2>2. /\ m_is_cancelled \in [Frames -> BOOLEAN]
        /\ fault \in {"none", "aborted", "use_after_free"}
    BY DEF Init
  <2>3. /\ rpc \in [Frames -> [Calls -> {"none", "requested", "open",
                                        "cancelled", "closed", "failed"}]]
        /\ done \in [Frames -> [Calls -> {"none", "pending", "queued", "taken"}]]
    BY DEF Init
  <2> QED BY <2>1, <2>2, <2>3 DEF Init, TypeOK
<1>2. ASSUME NEW f \in Frames PROVE PlaceOK(f) /\ CallsOK(f)
  BY TaskAssumption DEF Init, PlaceOK, CallsOK, Idle
<1>3. ShutdownOK /\ Grounded /\ NothingLeaked /\ AbortOnlyInRestart
  BY
  DEF Init, ShutdownOK, Grounded, NothingLeaked, AbortOnlyInRestart
<1> QED BY <1>1, <1>2, <1>3 DEF IInv

(* Every step keeps the invariant.                                         *)
LEMMA Inductive == IInv /\ [Next]_vars => IInv'
  BY Typing, FramesKept, ShutdownKept, CancelKept, NothingLeakedKept, AbortKept
  DEF IInv

-----------------------------------------------------------------------------
(* The inductive invariant holds in every reachable state.                 *)
THEOREM Invariance == Spec => []IInv
  BY Initially, Inductive, PTL DEF Spec

(* Every variable keeps its type, and a coroutine that is suspended or     *)
(* running has a frame (task.h:192-308).                                   *)
THEOREM TypeCorrect == Spec => []TypeOK
<1>1. IInv => TypeOK
  BY DEF IInv
<1> QED BY <1>1, Invariance, PTL

(* Nothing but the done notification of a call that is over can find its   *)
(* frame destroyed, for any number of frames and of calls and in whatever  *)
(* order gRPC delivers the events (task.h:232, 265, 286, 366-374).         *)
THEOREM OperationTagsAreValid == Spec => []OnlyNotificationsDangle
<1>1. IInv => OnlyNotificationsDangle
  <2> SUFFICES ASSUME IInv, NEW f \in Frames, frame[f] # "alive"
               PROVE  /\ op[f] = "none" /\ event[f] = "none"
                      /\ \A c \in Calls : done[f][c] \in {"pending", "queued"} =>
                                             rpc[f][c] \in {"cancelled", "closed"}
    BY DEF OnlyNotificationsDangle
  <2>1. TypeOK /\ PlaceOK(f) /\ CallsOK(f)
    BY DEF IInv
  <2>2. op[f] = "none" /\ event[f] = "none"
    BY <2>1 DEF PlaceOK, Idle
  <2>3. ASSUME NEW c \in Calls, done[f][c] \in {"pending", "queued"}
        PROVE  rpc[f][c] \in {"cancelled", "closed"}
    <3>1. /\ calls[f] \in Calls /\ frame[f] \in {"none", "destroyed"}
          /\ rpc[f][c] \in {"open", "cancelled", "closed"}
      BY <2>1, <2>3 DEF TypeOK, CallsOK
    <3>2. CASE c = calls[f]
      BY <2>1, <2>3, <3>1, <3>2 DEF PlaceOK
    <3>3. CASE c # calls[f]
      <4>1. c < calls[f]
        BY <2>1, <2>3, <3>1, <3>3, TaskAssumption DEF CallsOK
      <4> QED BY <2>1, <4>1 DEF CallsOK
    <3> QED BY <3>2, <3>3
  <2> QED BY <2>2, <2>3
<1> QED BY <1>1, Invariance, PTL

(* A frame has one operation in flight, and is suspended waiting for it:   *)
(* no tag is reused before its event was handled (task.h:104-107, 129-133, *)
(* 154-158, 240-242, 256-259, 289-304).                                    *)
Awaited == {<<"initial", "request">>, <<"rejecting", "reject">>,
            <<"io", "io">>, <<"final", "finish">>}

OneTagInFlight ==
    Ok => \A f \in Frames :
        /\ op[f] = "none" \/ event[f] = "none"
        /\ \A o \in Operations :
              o \in {op[f], event[f]} <=> <<pos[f], o>> \in Awaited

(* The tag of an operation is not used again before its event was handled  *)
(* (task.h:104-107, 129-133, 154-158, 240-242, 256-259, 289-304).          *)
THEOREM TagsAreNotReused == Spec => []OneTagInFlight
<1>1. IInv => OneTagInFlight
  <2> SUFFICES ASSUME IInv, Ok, NEW f \in Frames
               PROVE  /\ op[f] = "none" \/ event[f] = "none"
                      /\ \A o \in Operations :
                            o \in {op[f], event[f]} <=> <<pos[f], o>> \in Awaited
    BY DEF OneTagInFlight
  <2>1. TypeOK /\ PlaceOK(f)
    BY DEF IInv
  <2> QED BY <2>1 DEF PlaceOK, Idle, Awaiting, Awaited, TypeOK
<1> QED BY <1>1, Invariance, PTL

(* on_start() and on_finish() enclose user code, call by call              *)
(* (task.h:231-237, 293-300).                                              *)
THEOREM HooksArePaired == Spec => []HooksPaired
<1>1. IInv => HooksPaired
  BY DEF IInv, TypeOK, PlaceOK, Delivered, HooksPaired
<1> QED BY <1>1, Invariance, PTL

(* A cancellation is signalled only to a frame one of whose calls was      *)
(* cancelled, and no later than the done notification of that call is      *)
(* taken (task.h:369-371).                                                 *)
THEOREM SignalsAreFaithful == Spec => []CancelSignalFaithful
<1>1. IInv => CancelSignalFaithful
  <2> SUFFICES ASSUME IInv, NEW f \in Frames
               PROVE  /\ m_is_cancelled[f] =>
                            \E c \in Calls : c <= calls[f] /\ rpc[f][c] = "cancelled"
                      /\ /\ frame[f] = "alive"
                         /\ Call(f) = "cancelled"
                         /\ done[f][calls[f]] = "taken"
                         => m_is_cancelled[f]
    BY DEF CancelSignalFaithful
  <2>1. calls[f] \in Calls /\ CallsOK(f) /\ Grounded
    BY DEF IInv, TypeOK
  <2> QED BY <2>1 DEF CallsOK, Grounded
<1> QED BY <1>1, Invariance, PTL

(* As long as no call is rejected the signal is exact: user code that sees *)
(* it serves the call that was cancelled (task.h:89, 369-371).             *)
THEOREM SignalIsExact ==
    ASSUME ~MayReject PROVE Spec => []CancelSignalExact
<1>1. IInv => CancelSignalExact
  <2> SUFFICES ASSUME IInv, NEW f \in Frames, m_is_cancelled[f]
               PROVE  Call(f) = "cancelled"
    BY DEF CancelSignalExact
  <2>1. calls[f] \in Calls /\ ~(calls[f] > 1)
    BY DEF IInv, TypeOK, ShutdownOK
  <2>2. PICK c \in Calls : c <= calls[f] /\ rpc[f][c] = "cancelled"
    BY DEF IInv, Grounded
  <2>3. c = calls[f]
    BY <2>1, <2>2, TaskAssumption
  <2> QED BY <2>2, <2>3
<1> QED BY <1>1, Invariance, PTL

(* When the server has stopped every frame was destroyed (server.cpp:68-79,*)
(* task.h:232, 286).                                                       *)
THEOREM NothingIsLeaked == Spec => []NothingLeaked
<1>1. IInv => NothingLeaked
  BY DEF IInv
<1> QED BY <1>1, Invariance, PTL

(* No operation but the request that follows a rejected call can meet the  *)
(* drained queue (task.h:249-252).                                         *)
THEOREM AbortsOnlyInRestart == Spec => []AbortOnlyInRestart
<1>1. IInv => AbortOnlyInRestart
  BY DEF IInv
<1> QED BY <1>1, Invariance, PTL

-----------------------------------------------------------------------------
(* The moves of one party; the others stay. *)
Stays(f) == At(f)' = At(f) /\ Tag(f)' = Tag(f)

Others(f) == \A g \in Frames \ {f} : Stays(g)

Moves(f) ==
    \/ /\ At(f) \in {"none", "running"} /\ At(f)' = "waiting"
       /\ Tag(f) = "idle" /\ Tag(f)' = "issued"
    \/ At(f)' = At(f) /\ Tag(f) = "issued" /\ Tag(f)' = "queued"
    \/ At(f) = "waiting" /\ At(f)' = "running" /\ Tag(f) = "queued" /\ Tag(f)' = "idle"
    \/ At(f) = "waiting" /\ At(f)' = "gone" /\ Tag(f) = "queued" /\ Tag(f)' = "idle"

(* A step that changes nothing of the other frames. *)
LEMMA OthersStay ==
    ASSUME NEW f \in Frames,
           \A g \in Frames \ {f} : /\ frame'[g] = frame[g] /\ pos'[g] = pos[g]
                                   /\ op'[g] = op[g] /\ event'[g] = event[g]
    PROVE  Others(f)
  BY DEF Others, Stays, At, Tag

(* A move of one frame is a step of the abstract specification.            *)
LEMMA MovesAllowed ==
    ASSUME NEW f \in Frames, Ok, fault' = fault, Others(f), Moves(f)
    PROVE  Abstract!Next
<1> USE DEF Abstract!Next, Abstract!Goes, Abstract!TagGoes, Others, Stays
<1>1. CASE /\ At(f) \in {"none", "running"} /\ At(f)' = "waiting"
           /\ Tag(f) = "idle" /\ Tag(f)' = "issued"
  <2>1. Abstract!Await(f)
    BY <1>1 DEF Abstract!Await
  <2> QED BY <2>1
<1>2. CASE At(f)' = At(f) /\ Tag(f) = "issued" /\ Tag(f)' = "queued"
  <2>1. Abstract!Complete(f)
    BY <1>2 DEF Abstract!Complete
  <2> QED BY <2>1
<1>3. CASE /\ At(f) = "waiting" /\ At(f)' = "running"
           /\ Tag(f) = "queued" /\ Tag(f)' = "idle"
  <2>1. Abstract!Resume(f)
    BY <1>3 DEF Abstract!Resume
  <2> QED BY <2>1
<1>4. CASE /\ At(f) = "waiting" /\ At(f)' = "gone"
           /\ Tag(f) = "queued" /\ Tag(f)' = "idle"
  <2>1. Abstract!Free(f)
    BY <1>4 DEF Abstract!Free
  <2> QED BY <2>1
<1> QED BY <1>1, <1>2, <1>3, <1>4 DEF Moves

(* So is the abort that an operation begun by a frame ends in.             *)
LEMMA DeathAllowed ==
    ASSUME NEW f \in Frames, Ok, ~Ok', Others(f),
           At(f) = "running", At(f)' = "waiting", Tag(f)' = Tag(f)
    PROVE  Abstract!Next
<1>1. Abstract!Dies
  BY DEF Abstract!Dies, Abstract!Goes, Others, Stays
<1> QED BY <1>1 DEF Abstract!Next

(* A frame that runs and begins an operation waits for it, or the queue    *)
(* was drained and the process is gone (task.h:98-107, 123-133, 148-158,   *)
(* 225-261, 279-304).                                                      *)
LEMMA BeginMoves ==
    ASSUME IInv, NEW f \in Frames, Ok, Others(f),
           At(f) = "none" \/ (At(f) = "running" /\ Idle(f)),
           At(f)' = "waiting", UNCHANGED event,
           NEW o \in Operations, Begin(f, o),
           Drained => At(f) = "running"
    PROVE  Abstract!Next
<1>1. /\ f \in DOMAIN op
      /\ Idle(f)
  BY DEF IInv, TypeOK, PlaceOK, At, Idle
<1>2. Tag(f) = "idle"
  BY <1>1 DEF Idle, Tag
<1>3. CASE Drained
  <2>1. ~Ok' /\ Tag(f)' = "idle"
    BY <1>1, <1>3 DEF Idle, Tag
  <2> QED BY <1>2, <1>3, <2>1, DeathAllowed
<1>4. CASE ~Drained
  <2>1. op'[f] = o /\ fault' = fault
    BY <1>1, <1>4
  <2>2. Tag(f)' = "issued"
    BY <2>1 DEF Tag
  <2> QED BY <1>2, <2>1, <2>2, MovesAllowed DEF Moves
<1> QED BY <1>3, <1>4

(* A frame whose event is handled is waiting for it.                       *)
LEMMA QueuedWaits ==
    ASSUME IInv, NEW f \in Frames, event[f] # "none"
    PROVE  At(f) = "waiting" /\ Tag(f) = "queued" /\ frame[f] = "alive" /\ op[f] = "none"
<1>1. TypeOK /\ PlaceOK(f)
  BY DEF IInv
<1>2. pos[f] \in {"initial", "io", "rejecting", "final"} /\ op[f] = "none"
  BY <1>1, WhereOperationsAre DEF TypeOK
<1> QED BY <1>1, <1>2 DEF TypeOK, At, Tag

(* A frame is a party that waits for one operation at a time, and nothing  *)
(* else resumes or frees it, whatever order the notifications come in      *)
(* (task.h:98-107, 123-133, 148-158, 225-261, 279-304).                    *)
THEOREM Refinement == Spec => IsAwaiter
<1>1. Init => Abstract!Init
  BY DEF Init, At, Tag, Abstract!Init
<1>2. IInv /\ TypeOK' /\ [Next]_vars => [Abstract!Next]_(Abstract!vars)
  <2> SUFFICES ASSUME IInv, TypeOK', [Next]_vars
               PROVE  \/ Abstract!Next
                      \/ (\A f \in Frames : Stays(f)) /\ fault' = fault
    BY DEF Abstract!vars, Stays
  <2>0. TypeOK
    BY DEF IInv
  <2>1. ASSUME NEW f \in Frames, Spawn(f) PROVE Abstract!Next
    <3>1. Ok /\ ~Drained /\ At(f) = "none" /\ UNCHANGED event /\ Begin(f, "request")
      BY <2>1, OpenWhenSpawning DEF Spawn, At
    <3>2. Others(f)
      BY <2>0, <2>1, <3>1, OthersStay DEF TypeOK, Spawn
    <3>3. At(f)' = "waiting"
      BY <2>0, <2>1 DEF TypeOK, Spawn, At
    <3> QED BY <3>1, <3>2, <3>3, BeginMoves
  <2>2. ASSUME NEW f \in Frames, Rejected(f) \/ BodyAwaits(f) \/ BodyEnds(f) \/ Restart(f)
        PROVE  Abstract!Next
    <3>1. PICK o \in Operations : Begin(f, o)
      BY <2>2 DEF Rejected, BodyAwaits, BodyEnds, Restart
    <3>2. Ok /\ UNCHANGED event /\ pos[f] \in {"auth", "body", "restarting"}
      BY <2>2 DEF Rejected, BodyAwaits, BodyEnds, Restart
    <3>3. frame[f] = "alive" /\ Idle(f)
      BY <2>0, <3>2 DEF TypeOK, IInv, PlaceOK
    <3>4. Others(f)
      BY <2>0, <2>2, OthersStay DEF TypeOK, Rejected, BodyAwaits, BodyEnds, Restart
    <3>5. At(f) = "running" /\ At(f)' = "waiting"
      BY <2>0, <2>2, <3>2, <3>3
      DEF TypeOK, Rejected, BodyAwaits, BodyEnds, Restart, At
    <3> QED BY <3>1, <3>2, <3>3, <3>4, <3>5, BeginMoves
  <2>3. ASSUME NEW f \in Frames, HandleRequest(f) \/ HandleRejectSent(f) \/ HandleIo(f)
        PROVE  Abstract!Next
    <3>1. /\ event[f] # "none" /\ Ok
          /\ UNCHANGED <<frame, op, fault>>
      BY <2>3 DEF HandleRequest, HandleRejectSent, HandleIo
    <3>2. Others(f)
      BY <2>0, <2>3, OthersStay DEF TypeOK, HandleRequest, HandleRejectSent, HandleIo
    <3>3. At(f)' = "running" /\ Tag(f)' = "idle"
      BY <2>0, <2>3, <3>1, QueuedWaits
      DEF TypeOK, HandleRequest, HandleRejectSent, HandleIo, At, Tag
    <3> QED BY <3>1, <3>2, <3>3, QueuedWaits, MovesAllowed DEF Moves
  <2>4. ASSUME NEW f \in Frames, HandleRequestFailed(f) \/ HandleFinish(f)
        PROVE  Abstract!Next
    <3>1. event[f] # "none" /\ Ok /\ UNCHANGED <<op, fault>>
      BY <2>4 DEF HandleRequestFailed, HandleFinish
    <3>2. Others(f)
      BY <2>0, <2>4, OthersStay DEF TypeOK, HandleRequestFailed, HandleFinish
    <3>3. At(f)' = "gone" /\ Tag(f)' = "idle"
      BY <2>0, <2>4, <3>1, QueuedWaits
      DEF TypeOK, HandleRequestFailed, HandleFinish, At, Tag
    <3> QED BY <3>1, <3>2, <3>3, QueuedWaits, MovesAllowed DEF Moves
  <2>5. ASSUME NEW f \in Frames, Accept(f) \/ FailRequest(f) \/ Complete(f)
        PROVE  Abstract!Next
    <3>1. /\ op[f] # "none" /\ op'[f] = "none" /\ event'[f] = op[f]
          /\ Ok /\ UNCHANGED <<frame, pos, fault>>
      BY <2>0, <2>5 DEF TypeOK, Accept, FailRequest, Complete
    <3>2. Others(f)
      BY <2>0, <2>5, <3>1, OthersStay DEF TypeOK, Accept, FailRequest, Complete
    <3>3. At(f)' = At(f)
      BY <3>1 DEF At
    <3>4. Tag(f) = "issued" /\ Tag(f)' = "queued"
      BY <3>1 DEF Tag
    <3> QED BY <3>1, <3>2, <3>3, <3>4, MovesAllowed DEF Moves
  <2>6. ASSUME NEW f \in Frames, Authenticated(f) PROVE \A g \in Frames : Stays(g)
    <3>1. Others(f)
      BY <2>0, <2>6, OthersStay DEF TypeOK, Authenticated
    <3>2. Stays(f)
      BY <2>0, <2>6 DEF TypeOK, Authenticated, Stays, At, Tag
    <3> QED BY <3>1, <3>2 DEF Others
  <2>7. ASSUME UNCHANGED <<frame, pos, op, event>> PROVE \A f \in Frames : Stays(f)
    BY <2>7 DEF Stays, At, Tag
  <2>8. ASSUME NEW f \in Frames, Cancel(f) \/ SendStatus(f)
        PROVE  UNCHANGED <<frame, pos, op, event, fault>>
    BY <2>8 DEF Cancel, SendStatus
  <2>9. ASSUME NEW f \in Frames, NEW c \in Calls, QueueDone(f, c)
        PROVE  UNCHANGED <<frame, pos, op, event, fault>>
    BY <2>9 DEF QueueDone
  <2>10. CASE ShutdownServer \/ ShutdownCq \/ Join \/ UNCHANGED vars
    BY <2>7, <2>10 DEF ShutdownServer, ShutdownCq, Join, vars
  <2>11. ASSUME NEW f \in Frames, Authenticated(f) PROVE fault' = fault
    BY <2>11 DEF Authenticated
  <2>12. ASSUME NEW f \in Frames, NEW c \in Calls, HandleDone(f, c)
         PROVE  Abstract!Next \/ ((\A g \in Frames : Stays(g)) /\ fault' = fault)
    <3>1. \A g \in Frames : Stays(g)
      BY <2>0, <2>7, <2>12, NotificationTaken
    <3>2. CASE frame[f] = "alive"
      BY <2>0, <2>12, <3>1, <3>2, NotificationTaken
    <3>3. CASE frame[f] # "alive"
      <4>1. Ok /\ ~Ok'
        BY <2>0, <2>12, <3>3, NotificationTaken
      <4>2. Abstract!Dies
        BY <3>1, <4>1 DEF Abstract!Dies, Stays
      <4> QED BY <4>1, <4>2 DEF Abstract!Next
    <3> QED BY <3>2, <3>3
  <2> QED
    BY <2>1, <2>2, <2>3, <2>4, <2>5, <2>6, <2>7, <2>8, <2>9, <2>10, <2>11,
       <2>12
    DEF Next, Handle, Terminated
<1> QED BY <1>1, <1>2, Invariance, TypeCorrect, PTL DEF Spec, IsAwaiter, Abstract!Spec
=============================================================================
