------------------------------ MODULE RpcStatus ------------------------------
(***************************************************************************)
(* The outcome of one RPC, from the server's user code to the client's:    *)
(* a status that task's promise returns, or the exception that ends it and *)
(* exception_to_status() turns into a status; the choice between Finish()  *)
(* and FinishWithError(); what the awaiter of unary_call makes of the      *)
(* event.  A status has a code, any value of the enumeration's underlying  *)
(* type, and a message: one of grpc_exception's names, given by its index, *)
(* or a text told apart by its origin.                                     *)
(*                                                                         *)
(* External: gRPC takes the response only from Finish() with an OK status, *)
(* aborts on FinishWithError() with one, reads a code it does not know as  *)
(* UNKNOWN, and reports a call that broke with a code of its own, or with  *)
(* an event that failed.                                                   *)
(***************************************************************************)
EXTENDS Integers

CONSTANTS IntMax, SizeMax   \* the largest int and the largest size_t

ASSUME RpcStatusAssumption == /\ IntMax \in Nat /\ IntMax >= 16
                              /\ SizeMax \in Nat /\ SizeMax >= 2 * IntMax + 1

OK == 0
UNKNOWN == 2
INTERNAL == 13
UNAVAILABLE == 14
UNAUTHENTICATED == 16

Known == OK..UNAUTHENTICATED
Ints == (-IntMax - 1)..IntMax

Status(code, message) == [code |-> code, message |-> message]

Text(kind) == [kind |-> kind, index |-> 0]
Name(i) == [kind |-> "name", index |-> i]

Table == Known                    \* the indices of default_strings
ToSizeT(i) == i % (SizeMax + 1)   \* static_cast<size_t>

(* Slip: the code is compared as the signed integer it is. *)
DefaultString_Signed(c) == IF c > UNAUTHENTICATED THEN UNKNOWN ELSE ToSizeT(c)

(* The index of the name that grpc_exception(StatusCode) takes. *)
DefaultString(c) == IF ToSizeT(c) > UNAUTHENTICATED THEN UNKNOWN ELSE ToSizeT(c)

(* What may be thrown, and the status that it means.  grpc_exception is a  *)
(* std::exception too, but caught first.                                   *)
Statuses == {Status(c, Text("user")) : c \in Ints}

Thrown == [type : {"Status"}, status : Statuses]
     \cup [type : {"grpc_exception"},
           status : Statuses \cup {Status(c, Name(DefaultString(c))) : c \in Ints}]
     \cup [type : {"std", "other"}, status : {Status(INTERNAL, Text("none"))}]

exception_to_status(e, release) ==
    IF e.type \in {"Status", "grpc_exception"} THEN e.status
    ELSE Status(INTERNAL, Text(IF e.type # "std" THEN "Unknown exception"
                               ELSE IF release THEN "Internal error" ELSE "what"))

VARIABLES ndebug,            \* whether the server is a release build
          server_streaming,  \* whether the method streams its responses
          at,                \* how far the RPC is
          meant,             \* the status the server's user gave, or threw
          m_status,          \* the task's
          m_reported,        \* the m_status of the client's awaiter
          ok,                \* of the client's event
          response           \* the response message has reached the client

constants == <<ndebug, server_streaming>>
vars == <<constants, at, meant, m_status, m_reported, ok, response>>

Init == /\ ndebug \in BOOLEAN /\ server_streaming \in BOOLEAN
        /\ at = "auth"
        /\ meant = Status(OK, Text("none")) /\ m_status = meant /\ m_reported = meant
        /\ ok = TRUE /\ response = FALSE
-----------------------------------------------------------------------------
(* How the server's side ends: at "FinishWithError" or at "Finish". *)
Ends(given, s, with) ==
    /\ at = "auth"
    /\ at' = with
    /\ meant' = given /\ m_status' = s
    /\ UNCHANGED <<constants, m_reported, ok, response>>

(* final_suspend(); for an error on_authenticate()'s callback does the same *)
FinishAs(s) == IF server_streaming \/ s.code = OK THEN "Finish" ELSE "FinishWithError"

(* on_authenticate() reports an error. *)
Reject(s) == s.code # OK /\ Ends(s, s, FinishAs(s))

(* return_value() *)
Return(s) == Ends(s, s, FinishAs(s))

(* unhandled_exception(), with noop_task_hook::on_unhandled_exception() *)
Throw(e) == LET s == exception_to_status(e, ndebug) IN Ends(e.status, s, FinishAs(s))

(* gRPC: status and response reach the client. *)
Transmit ==
    /\ at \in {"Finish", "FinishWithError"}
    /\ IF at = "FinishWithError" /\ m_status.code = OK
       THEN at' = "aborted" /\ UNCHANGED <<m_reported, response>>
       ELSE /\ at' = "event"
            /\ m_reported' = IF m_status.code \in Known THEN m_status
                                                       ELSE Status(UNKNOWN, m_status.message)
            /\ response' = (at = "Finish" /\ m_status.code = OK)
    /\ UNCHANGED <<constants, meant, m_status, ok>>

(* gRPC: the call breaks before that. *)
Break ==
    /\ at \in {"auth", "Finish", "FinishWithError"}
    /\ at' = "event"
    /\ \/ m_reported' = Status(UNAVAILABLE, Text("broken")) /\ UNCHANGED ok
       \/ ok' = FALSE /\ UNCHANGED m_reported
    /\ UNCHANGED <<constants, meant, m_status, response>>

(* Slip: ok is not looked at, and m_status is still as it was constructed. *)
HandleEvent_AnyResult ==
    /\ at = "event" /\ at' = "reported"
    /\ UNCHANGED <<constants, meant, m_status, m_reported, ok, response>>

(* handle_event() and await_resume() of the client's awaiter: unary_call's, *)
(* or that of streaming_call::finish().                                    *)
HandleEvent ==
    /\ at = "event" /\ at' = "reported"
    /\ m_reported' = IF ok THEN m_reported ELSE Status(UNKNOWN, Text("ok=false"))
    /\ UNCHANGED <<constants, meant, m_status, ok, response>>

Terminated == at \in {"reported", "aborted"} /\ UNCHANGED vars
-----------------------------------------------------------------------------
Next == \/ \E s \in Statuses : Reject(s) \/ Return(s)
        \/ \E e \in Thrown : Throw(e)
        \/ Transmit \/ Break \/ HandleEvent \/ Terminated

Spec == Init /\ [][Next]_vars
-----------------------------------------------------------------------------
(* The client's co_await yields OK if and only if the server's user code   *)
(* ended with OK and the response came with it; an error arrives with the  *)
(* code that user code gave, or threw, INTERNAL when it threw anything     *)
(* else, unless the call broke.  gRPC never aborts over the choice of the  *)
(* finishing operation (util.cpp:46-60, task.h:218-220, 289-304,           *)
(* call.h:51-56, 64).                                                      *)
OutcomeReported ==
    /\ at # "aborted"
    /\ at = "reported" =>
          /\ m_reported.code = OK <=> response
          /\ response => meant.code = OK
          /\ \/ m_reported.code = (IF meant.code \in Known THEN meant.code ELSE UNKNOWN)
             \/ m_reported.message \in {Text("broken"), Text("ok=false")}

(* The name that stands for a code is in the table for every value an int  *)
(* can have, and is the code's own if it has one (grpc_exception.h:18-21). *)
NamesInTable ==
    \A s \in {meant, m_status, m_reported} : s.message.kind = "name" =>
        /\ s.message.index \in Table
        /\ s.message.index = IF meant.code \in Known THEN meant.code ELSE UNKNOWN
=============================================================================
