----------------------------- MODULE CommandService -----------------------------
(***************************************************************************)
(* What SerialManager promises to the threads that call open_slot,         *)
(* close_slot, test_slot and scan_slaves, without the event, the mailbox   *)
(* and the lock it is built from: a call ends with a message that some     *)
(* slave sent and that the listener accepted DURING the call, and that no  *)
(* other call was given, or it ends with a failure.  It does not promise   *)
(* that the message answers the command of the call.                       *)
(***************************************************************************)
CONSTANTS Callers,   \* the threads that send commands
          Message,   \* what slaves can say
          Failure,   \* the outcomes made up by the gateway
          None

VARIABLES phase,     \* "idle", "calling" or "done", per caller
          result,    \* how the call of a caller that is "done" ended
          heard,     \* the messages accepted since a call in progress began
          used       \* the messages already given to a caller

vars == <<phase, result, heard, used>>

Init == /\ phase = [c \in Callers |-> "idle"]
        /\ result = [c \in Callers |-> None]
        /\ heard = [c \in Callers |-> {}]
        /\ used = {}

(* A call begins: heard[c] is empty, nothing was heard for it yet. *)
Begin(c) == /\ phase[c] = "idle"
            /\ phase' = [phase EXCEPT ![c] = "calling"]
            /\ UNCHANGED <<result, heard, used>>

(* A message is accepted: every call in progress hears it. *)
Accept(m) == /\ heard' = [c \in Callers |-> IF phase[c] = "calling"
                                            THEN heard[c] \union {m}
                                            ELSE heard[c]]
             /\ UNCHANGED <<phase, result, used>>

(* A call ends with a message of its own time that nobody was given. *)
Succeed(c) == /\ phase[c] = "calling"
              /\ \E m \in heard[c] \ used :
                   /\ result' = [result EXCEPT ![c] = m]
                   /\ used' = used \union {m}
              /\ phase' = [phase EXCEPT ![c] = "done"]
              /\ UNCHANGED heard

(* A call ends with a failure. *)
Fail(c) == /\ phase[c] = "calling"
           /\ \E f \in Failure : result' = [result EXCEPT ![c] = f]
           /\ phase' = [phase EXCEPT ![c] = "done"]
           /\ UNCHANGED <<heard, used>>

(* The caller takes the result away. *)
End(c) == /\ phase[c] = "done"
          /\ phase' = [phase EXCEPT ![c] = "idle"]
          /\ result' = [result EXCEPT ![c] = None]
          /\ heard' = [heard EXCEPT ![c] = {}]
          /\ UNCHANGED used

Next == \/ \E c \in Callers : Begin(c) \/ Succeed(c) \/ Fail(c) \/ End(c)
        \/ \E m \in Message : Accept(m)

Spec == Init /\ [][Next]_vars
================================================================================
