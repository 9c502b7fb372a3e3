-------------------------- MODULE RpcStatusProofs --------------------------
(***************************************************************************)
(* Proofs about RpcStatus for integers of any width, an int as narrow as   *)
(* the table of names and a size_t that is at least as wide.               *)
(***************************************************************************)
EXTENDS RpcStatus, TLAPS

(* What a code is taken for: itself, or UNKNOWN. *)
Taken(c) == IF c \in Known THEN c ELSE UNKNOWN

LEMMA NameOfCode == ASSUME NEW c \in Ints PROVE DefaultString(c) = Taken(c)
<1> USE RpcStatusAssumption DEF Ints, ToSizeT, Known, OK, UNAUTHENTICATED, UNKNOWN
<1>1. CASE c >= 0
  <2>1. c % (SizeMax + 1) = c
    BY <1>1
  <2> QED BY <1>1, <2>1 DEF DefaultString, Taken
<1>2. CASE c < 0
  <2>1. c % (SizeMax + 1) = c + SizeMax + 1
    BY <1>2
  <2> QED BY <1>2, <2>1 DEF DefaultString, Taken
<1> QED BY <1>1, <1>2

-----------------------------------------------------------------------------
(* A message that is a name is the name of the code c. *)
Named(message, c) == message.kind = "name" => message.index = Taken(c)

(* What the client's awaiter holds agrees with what the server meant. *)
Agrees == /\ m_reported.code = OK <=> response
          /\ response => meant.code = OK
          /\ \/ m_reported.code = Taken(meant.code)
             \/ m_reported.message \in {Text("broken"), Text("ok=false")}

(* Until the event nothing has reached the client; m_status carries the    *)
(* code that was meant; the awaiter holds the outcome if the event is ok.  *)
IInv == /\ ndebug \in BOOLEAN /\ ok \in BOOLEAN /\ response \in BOOLEAN
        /\ at \in {"auth", "Finish", "FinishWithError", "event", "reported"}
        /\ Named(meant.message, meant.code)
        /\ Named(m_status.message, meant.code)
        /\ Named(m_reported.message, meant.code)
        /\ at \in {"auth", "Finish", "FinishWithError"} =>
              /\ ok /\ ~response
              /\ m_status.code = meant.code
              /\ m_reported.message = Text("none")
        /\ at = "FinishWithError" => m_status.code # OK
        /\ at = "event" => IF ok THEN Agrees ELSE ~response
        /\ at = "reported" => Agrees

(* Whatever is thrown has a status that is named after its own code, and   *)
(* exception_to_status() gives that code (util.cpp:46-60).                 *)
LEMMA StatusOfException ==
    ASSUME NEW e \in Thrown, NEW release \in BOOLEAN
    PROVE  /\ exception_to_status(e, release).code = e.status.code
           /\ Named(e.status.message, e.status.code)
           /\ Named(exception_to_status(e, release).message, e.status.code)
<1> USE DEF exception_to_status, Status, Text, Name, Named
<1>1. CASE e.type \in {"std", "other"}
  <2>1. e.status = Status(INTERNAL, Text("none"))
    BY <1>1 DEF Thrown
  <2>2. e.type # "Status" /\ e.type # "grpc_exception"
    BY <1>1
  <2> QED BY <1>1, <2>1, <2>2
<1>2. CASE e.type \in {"Status", "grpc_exception"}
  <2>1. \/ e.status \in Statuses
        \/ \E c \in Ints : e.status = Status(c, Name(DefaultString(c)))
    BY <1>2 DEF Thrown
  <2>2. CASE e.status \in Statuses
    BY <1>2, <2>2 DEF Statuses
  <2>3. ASSUME NEW c \in Ints, e.status = Status(c, Name(DefaultString(c)))
        PROVE  Named(e.status.message, e.status.code)
    BY <2>3, NameOfCode
  <2>4. exception_to_status(e, release) = e.status
    BY <1>2
  <2> QED BY <2>1, <2>2, <2>3, <2>4
<1> QED BY <1>1, <1>2 DEF Thrown

LEMMA Initially == Init => IInv
<1> SUFFICES ASSUME Init PROVE IInv
  OBVIOUS
<1> USE DEF Init, Status, Text
<1>1. Named(meant.message, meant.code) /\ m_status = meant /\ m_reported = meant
  BY DEF Named
<1>2. at = "auth" /\ m_reported.message = Text("none")
  OBVIOUS
<1> QED BY <1>1, <1>2 DEF IInv

(* One step of the server, of gRPC or of the client keeps the invariant. *)
LEMMA Inductive == IInv /\ [Next]_vars => IInv'
<1> SUFFICES ASSUME IInv, [Next]_vars PROVE IInv'
  OBVIOUS
<1> USE DEF IInv, Status, Text, Named, constants, OK, UNKNOWN
<1>1. ASSUME NEW given, NEW s, Ends(given, s, FinishAs(s)),
             s.code = given.code, Named(given.message, given.code),
             Named(s.message, given.code)
      PROVE  IInv'
  <2>1. at' \in {"Finish", "FinishWithError"} /\ (at' = "FinishWithError" => s.code # OK)
    BY <1>1 DEF Ends, FinishAs
  <2> QED BY <1>1, <2>1 DEF Ends
<1>2. ASSUME NEW s \in Statuses, Reject(s) \/ Return(s) PROVE IInv'
  BY <1>1, <1>2 DEF Statuses, Reject, Return
<1>3. ASSUME NEW e \in Thrown, Throw(e) PROVE IInv'
  BY <1>1, <1>3, StatusOfException DEF Throw
<1>4. CASE Transmit
  <2>1. /\ at' = "event" /\ ok' = ok /\ ok
        /\ m_reported' = IF m_status.code \in Known THEN m_status
                                                   ELSE Status(UNKNOWN, m_status.message)
        /\ response' = (at = "Finish" /\ m_status.code = OK)
        /\ UNCHANGED <<ndebug, meant, m_status>>
    BY <1>4 DEF Transmit
  <2>2. m_reported'.code = Taken(meant.code) /\ m_reported'.message = m_status.message
    BY <1>4, <2>1 DEF Transmit, Taken
  <2>3. response' \in BOOLEAN /\ (m_reported'.code = OK <=> response')
    <3>1. m_reported'.code = OK <=> m_status.code = OK
      BY <1>4, <2>2 DEF Transmit, Taken, Known, UNAUTHENTICATED
    <3>2. at = "Finish" \/ m_status.code # OK
      BY <1>4 DEF Transmit
    <3>3. response' \in BOOLEAN /\ (response' <=> (at = "Finish" /\ m_status.code = OK))
      BY ONLY <2>1, Zenon
    <3> QED BY ONLY <3>1, <3>2, <3>3, Zenon
  <2>4. Agrees'
    BY <1>4, <2>1, <2>2, <2>3 DEF Agrees, Transmit
  <2> QED BY <2>1, <2>2, <2>3, <2>4
<1>5. CASE Break
  <2>1. at' = "event" /\ ~response /\ UNCHANGED <<ndebug, meant, m_status, response>>
    BY <1>5 DEF Break
  <2>2. CASE m_reported' = Status(UNAVAILABLE, Text("broken")) /\ UNCHANGED ok
    <3>1. Agrees'
      BY <2>1, <2>2 DEF Agrees, UNAVAILABLE
    <3> QED BY <2>1, <2>2, <3>1
  <2>3. CASE ok' = FALSE /\ UNCHANGED m_reported
    BY <2>1, <2>3
  <2> QED BY <1>5, <2>2, <2>3 DEF Break
<1>6. CASE HandleEvent
  BY <1>6 DEF HandleEvent, Agrees
<1>7. CASE UNCHANGED vars
  BY <1>7 DEF vars, Agrees
<1> QED BY <1>2, <1>3, <1>4, <1>5, <1>6, <1>7 DEF Next, Terminated

(* The inductive invariant always holds. *)
THEOREM Invariance == Spec => []IInv
  BY Initially, Inductive, PTL DEF Spec

(* The client's co_await ends with the outcome the server's user code      *)
(* meant, for every int as its code (call.h:51-64, task.h:218-220,         *)
(* 289-304).                                                               *)
THEOREM OutcomeIsReported == Spec => []OutcomeReported
<1>1. IInv => OutcomeReported
  BY DEF IInv, OutcomeReported, Agrees, Taken
<1> QED BY <1>1, Invariance, PTL

(* default_strings is never read outside its bounds, whatever the widths   *)
(* of int and size_t (grpc_exception.h:18-21).                             *)
THEOREM NamesAreInTable == Spec => []NamesInTable
<1>1. IInv => NamesInTable
  BY DEF IInv, NamesInTable, Named, Taken, Table, Known, OK, UNKNOWN, UNAUTHENTICATED
<1> QED BY <1>1, Invariance, PTL
=============================================================================
