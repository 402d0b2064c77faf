--------------------------- MODULE PaymentAttempt ---------------------------
(***************************************************************************)
(* What the payments module promises about every PaymentAttempt, whichever *)
(* channel, gateway or background job works on it:                         *)
(*                                                                         *)
(*   - it is opened once, PENDING, and resolved at most once;              *)
(*   - it only succeeds when a gateway captured the money or, where no     *)
(*     gateway is asked, it was recorded on the restaurant's word, and     *)
(*     succeeding and recording one Payment are the same step;             *)
(*   - a failed or unresolved attempt never has a Payment.                 *)
(*                                                                         *)
(* Money may be captured and not recorded (the code cannot exclude it: the *)
(* gateway call is outside the transaction).  What a gateway was asked for *)
(* is never recorded unless it was captured.                               *)
(***************************************************************************)
EXTENDS Integers

CONSTANT Attempts

VARIABLES status,     \* [Attempts -> "NONE" | "PENDING" | "SUCCEEDED" | "FAILED"]
          captured,   \* the attempts whose amount a gateway took
          offline,    \* those recorded on the restaurant's word, no gateway asked
          payments    \* [Attempts -> number of Payment rows recorded]

vars == <<status, captured, offline, payments>>

Init ==
    /\ status = [a \in Attempts |-> "NONE"]
    /\ captured = {}
    /\ offline = {}
    /\ payments = [a \in Attempts |-> 0]

Open(a) ==
    /\ status[a] = "NONE"
    /\ status' = [status EXCEPT ![a] = "PENDING"]
    /\ UNCHANGED <<captured, offline, payments>>

\* The provider takes the money; the program may or may not learn of it.
Capture(a) ==
    /\ status[a] # "NONE"
    /\ captured' = captured \cup {a}
    /\ UNCHANGED <<status, offline, payments>>

\* The offline recorder takes the restaurant's word for it.
RecordOffline(a) ==
    /\ status[a] # "NONE"
    /\ offline' = offline \cup {a}
    /\ UNCHANGED <<status, captured, payments>>

Succeed(a) ==
    /\ status[a] = "PENDING"
    /\ a \in captured \cup offline
    /\ status' = [status EXCEPT ![a] = "SUCCEEDED"]
    /\ payments' = [payments EXCEPT ![a] = @ + 1]
    /\ UNCHANGED <<captured, offline>>

Fail(a) ==
    /\ status[a] = "PENDING"
    /\ status' = [status EXCEPT ![a] = "FAILED"]
    /\ UNCHANGED <<captured, offline, payments>>

Next ==
    \E a \in Attempts :
        Open(a) \/ Capture(a) \/ RecordOffline(a) \/ Succeed(a) \/ Fail(a)

Spec == Init /\ [][Next]_vars
=============================================================================
