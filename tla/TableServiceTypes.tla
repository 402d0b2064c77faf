-------------------------- MODULE TableServiceTypes --------------------------
(***************************************************************************)
(* The steps of TableService keep the types of its variables, for any      *)
(* number of ids and any amounts.  TableServiceProofs builds on these.     *)
(***************************************************************************)
EXTENDS TableService, BillLedgerTheorems, FiniteSetTheorems

USE PriceAssumption, TipsAssumption, AmountsAssumption, NonesAssumption

-----------------------------------------------------------------------------
(* Types                                                                   *)

TypeInv == TypeOK /\ IsFiniteSet(items)

LEMMA InitType == Init => TypeInv
<1> SUFFICES ASSUME Init PROVE TypeInv
  OBVIOUS
<1>1. EmptyBill \in Bills
  BY DEF EmptyBill, Bills, BillStatuses
<1>2. UnusedOrder \in OrderRecords
  BY DEF UnusedOrder, OrderRecords, OrderStatuses
<1>3. UnusedAttempt \in AttemptRecords
  BY DEF UnusedAttempt, AttemptRecords, AttemptStatuses
<1>4. IdleRequest \in RequestRecords
  BY <1>1 DEF IdleRequest, RequestRecords, Steps
<1>5. IsFiniteSet(items)
  BY FS_EmptySet DEF Init
<1> QED
  BY <1>1, <1>2, <1>3, <1>4, <1>5 DEF Init, TypeInv, TypeOK, SessionStatuses

LEMMA IdleType == IdleRequest \in RequestRecords
BY DEF IdleRequest, RequestRecords, Steps, EmptyBill, Bills, BillStatuses

LEMMA SessionStepType ==
    ASSUME TypeInv, NEW r \in Requests, SessionStep(r)
    PROVE  TypeInv'
<1> USE IdleType DEF TypeInv, TypeOK
<1>1. CASE OpenRead(r)
  BY <1>1 DEF OpenRead, Goto, RequestRecords, Steps
<1>2. CASE OpenCommit(r)
  BY <1>2 DEF OpenCommit, CreateSession, End, UnusedSessions, SessionStatuses
<1>3. ASSUME NEW status \in {"CLOSED", "ABANDONED"}, NEW billStatus \in BillStatuses,
             Leave(r, status, billStatus)
      PROVE  TypeInv'
  <2> DEFINE s == req[r].session
  <2>1. session' \in [Sessions -> SessionStatuses]
    BY <1>3 DEF Leave, SessionStatuses
  <2>2. bill' \in [Sessions -> Bills]
    BY <1>3 DEF Leave, Bills
  <2>3. lateClose' \in BOOLEAN
    BY <1>3, Zenon DEF Leave
  <2>4. req' \in [Requests -> RequestRecords]
    BY <1>3 DEF Leave, End
  <2> QED
    BY <1>3, <2>1, <2>2, <2>3, <2>4 DEF Leave
<1>4. CASE CloseCommit(r) \/ AbandonCommit(r)
  BY <1>3, <1>4 DEF CloseCommit, AbandonCommit, BillStatuses
<1>5. ASSUME NEW s \in Sessions, CloseRead(r, s) \/ AbandonRead(r, s)
      PROVE  TypeInv'
  <2>1. CASE CloseRead(r, s)
    <3>1. [IdleRequest EXCEPT !.step = "closing", !.session = s, !.seen = bill[s]]
             \in RequestRecords
      BY DEF RequestRecords, Steps
    <3> QED
      BY <2>1, <3>1 DEF CloseRead
  <2>2. CASE AbandonRead(r, s)
    <3>1. [IdleRequest EXCEPT !.step = "abandoning", !.session = s] \in RequestRecords
      BY DEF RequestRecords, Steps
    <3> QED
      BY <2>2, <3>1 DEF AbandonRead
  <2> QED
    BY <1>5, <2>1, <2>2
<1> QED
  BY <1>1, <1>2, <1>4, <1>5 DEF SessionStep

LEMMA RequestType ==
    ASSUME TypeInv, NEW r \in Requests
    PROVE  /\ req[r] \in RequestRecords
           /\ req[r].step \in Steps
           /\ req[r].session \in Sessions \cup {NoSession}
           /\ req[r].order \in Orders \cup {NoOrder}
           /\ req[r].attempt \in Attempts \cup {NoAttempt}
           /\ req[r].seen \in Bills
           /\ req[r].subtotal \in Nat
           /\ req[r].online \in BOOLEAN
           /\ req' = [req EXCEPT ![r] = IdleRequest]
                 => req' \in [Requests -> RequestRecords]
BY IdleType DEF TypeInv, TypeOK, RequestRecords

LEMMA CancelledType ==
    ASSUME TypeInv, NEW o, order' = [order EXCEPT ![o].status = "CANCELLED"]
    PROVE  order' \in [Orders -> OrderRecords]
<1> DEFINE record == [order[o] EXCEPT !.status = "CANCELLED"]
<1>1. o \in Orders => record \in OrderRecords
  <2>1. order \in [Orders -> OrderRecords]
    BY DEF TypeInv, TypeOK
  <2> QED
    BY <2>1 DEF OrderRecords, OrderStatuses
<1>2. order' = [order EXCEPT ![o] = record]
  OBVIOUS
<1> HIDE DEF record
<1> QED
  BY <1>1, <1>2 DEF TypeInv, TypeOK

LEMMA NewOrderType ==
    ASSUME TypeInv, NEW o \in Orders, NEW s \in Sessions,
           NEW source \in {"QR", "WAITER"}, NEW status \in OrderStatuses,
           NEW tickets \in Nat, NewOrder(o, s, source, status, tickets)
    PROVE  order' \in [Orders -> OrderRecords]
<1>1. [status |-> status, source |-> source, session |-> s, tickets |-> tickets]
         \in OrderRecords
  BY DEF OrderRecords
<1> QED
  BY <1>1 DEF NewOrder, TypeInv, TypeOK

\* The requests that create an order know the session they create it on.
SessionKnown(r) ==
    req[r].step \in {"waiterOrder", "charging", "approved", "rejected", "orderTx",
                     "billTx", "cancelPre", "cancelProd", "cancelTx", "closing",
                     "abandoning"}
        => req[r].session \in Sessions

LEMMA OrderStepType ==
    ASSUME TypeInv, NEW r \in Requests, SessionKnown(r), OrderStep(r)
    PROVE  TypeInv'
<1>1. CASE QrOrderRead(r)
  <2> DEFINE known == IF ActiveSessions = {} THEN {NoSession} ELSE ActiveSessions
  <2>1. PICK s \in known :
           req' = [req EXCEPT ![r] = [IdleRequest EXCEPT !.step = "qrOrder",
                                                           !.session = s]]
    BY <1>1 DEF QrOrderRead
  <2>2. s \in Sessions \cup {NoSession}
    BY DEF ActiveSessions
  <2>3. [IdleRequest EXCEPT !.step = "qrOrder", !.session = s] \in RequestRecords
    BY <2>2, IdleType DEF RequestRecords, Steps
  <2> HIDE DEF known
  <2> QED
    BY <1>1, <2>1, <2>3 DEF QrOrderRead, TypeInv, TypeOK
<1>2. ASSUME NEW s \in Sessions, WaiterRead(r, s)
      PROVE  TypeInv'
  <2>1. [IdleRequest EXCEPT !.step = "waiterOrder", !.session = s, !.seen = bill[s]]
           \in RequestRecords
    BY IdleType DEF RequestRecords, Steps, TypeInv, TypeOK
  <2> QED
    BY <1>2, <2>1 DEF WaiterRead, TypeInv, TypeOK
<1>3. ASSUME NEW o \in Orders, QrOrderOnSession(r, o)
      PROVE  TypeInv'
  <2>1. req[r].session \in Sessions
    BY <1>3, RequestType DEF QrOrderOnSession
  <2>2. order' \in [Orders -> OrderRecords]
    BY <1>3, <2>1, NewOrderType DEF QrOrderOnSession, OrderStatuses
  <2> QED
    BY <1>3, <2>2, RequestType DEF QrOrderOnSession, End, TypeInv, TypeOK
<1>4. ASSUME NEW o \in Orders, QrOrderOnNewSession(r, o)
      PROVE  TypeInv'
  <2>1. PICK s \in UnusedSessions :
           CreateSession(s) /\ NewOrder(o, s, "QR", "AWAITING_PAYMENT", 0)
    BY <1>4 DEF QrOrderOnNewSession
  <2>2. s \in Sessions
    BY DEF UnusedSessions
  <2>3. order' \in [Orders -> OrderRecords]
    BY <2>1, <2>2, NewOrderType DEF OrderStatuses
  <2>4. session' \in [Sessions -> SessionStatuses] /\ table' = "OCCUPIED"
    BY <2>1, <2>2 DEF CreateSession, SessionStatuses, TypeInv, TypeOK
  <2> QED
    BY <1>4, <2>3, <2>4, RequestType DEF QrOrderOnNewSession, End, TypeInv, TypeOK
<1>5. ASSUME NEW o \in Orders, WaiterCommit(r, o)
      PROVE  TypeInv'
  <2> DEFINE s       == req[r].session
             charged == ApplyOrderCharge(bill[s], req[r].seen, Price)
  <2>1. s \in Sessions
    BY <1>5 DEF WaiterCommit, At, SessionKnown
  <2>2. charged \in Bills
    <3>1. bill[s] \in Bills /\ req[r].seen \in Bills /\ Price \in Int
      BY <2>1, RequestType DEF TypeInv, TypeOK
    <3> QED
      BY <3>1, BillRewriteType
  <2>3. order' \in [Orders -> OrderRecords]
    BY <1>5, <2>1, NewOrderType DEF WaiterCommit, OrderStatuses
  <2>4. bill' \in [Sessions -> Bills]
    BY <1>5, <2>1, <2>2 DEF WaiterCommit, TypeInv, TypeOK
  <2>5. session' \in [Sessions -> SessionStatuses]
    BY <1>5, <2>1 DEF WaiterCommit, SessionAfterCharge, SessionStatuses, TypeInv, TypeOK
  <2>6. /\ items' \subseteq Orders \X (Attempts \cup {NoAttempt})
        /\ IsFiniteSet(items')
    <3>1. items' = items \cup {<<o, NoAttempt>>}
      BY <1>5 DEF WaiterCommit
    <3>2. IsFiniteSet(items')
      BY <3>1, FS_AddElement DEF TypeInv
    <3> QED
      BY <3>1, <3>2 DEF TypeInv, TypeOK
  <2>7. overwritten' \subseteq Sessions
    BY <1>5, <2>1 DEF WaiterCommit, NoteRewrite, TypeInv, TypeOK
  <2> QED
    BY <1>5, <2>3, <2>4, <2>5, <2>6, <2>7, RequestType
       DEF WaiterCommit, End, TypeInv, TypeOK
<1>6. ASSUME NEW o \in Orders, CancelRead(r, o)
      PROVE  TypeInv'
  <2>1. PICK step \in {"cancelPre", "cancelProd"} :
           req' = [req EXCEPT ![r] = [IdleRequest EXCEPT !.step = step,
                                        !.order = o, !.session = order[o].session]]
    BY <1>6 DEF CancelRead
  <2>2. [IdleRequest EXCEPT !.step = step, !.order = o, !.session = order[o].session]
           \in RequestRecords
    BY IdleType DEF RequestRecords, Steps, OrderRecords, TypeInv, TypeOK
  <2> QED
    BY <1>6, <2>1, <2>2 DEF CancelRead, TypeInv, TypeOK
<1>7. CASE CancelPreCommit(r)
  <2>1. order' \in [Orders -> OrderRecords]
    BY <1>7, CancelledType DEF CancelPreCommit
  <2> QED
    BY <1>7, <2>1, RequestType DEF CancelPreCommit, End, TypeInv, TypeOK
<1>8. CASE CancelTxRead(r)
  <2> DEFINE s == req[r].session
             subtotal == Price * Cardinality(ItemsOn(s) \ ItemsOf(req[r].order))
  <2>1. s \in Sessions
    BY <1>8 DEF CancelTxRead, At, SessionKnown
  <2>2. ItemsOn(s) \ ItemsOf(req[r].order) \in SUBSET items
    BY DEF ItemsOn, ItemsOf
  <2>3. Cardinality(ItemsOn(s) \ ItemsOf(req[r].order)) \in Nat
    BY <2>2, FS_Subset, FS_CardinalityType DEF TypeInv
  <2>4. subtotal \in Nat
    BY <2>3
  <2>5. req' = [req EXCEPT ![r].step = "cancelTx", ![r].seen = bill[s],
                           ![r].subtotal = subtotal]
    BY <1>8 DEF CancelTxRead
  <2> HIDE DEF subtotal
  <2>6. req' \in [Requests -> RequestRecords]
    <3>1. bill[s] \in Bills /\ req[r] \in RequestRecords
      BY <2>1 DEF TypeInv, TypeOK
    <3>2. [req[r] EXCEPT !.step = "cancelTx", !.seen = bill[s], !.subtotal = subtotal]
             \in RequestRecords
      BY <3>1, <2>4 DEF RequestRecords, Steps
    <3>3. req' = [req EXCEPT ![r] = [req[r] EXCEPT !.step = "cancelTx",
                                !.seen = bill[s], !.subtotal = subtotal]]
      BY <2>5 DEF TypeInv, TypeOK
    <3> QED
      BY <3>2, <3>3 DEF TypeInv, TypeOK
  <2> QED
    BY <1>8, <2>6 DEF CancelTxRead, TypeInv, TypeOK
<1>9. CASE CancelTxCommit(r)
  <2> DEFINE s      == req[r].session
             voided == WithSubtotal(bill[s], req[r].seen, req[r].subtotal)
  <2>1. s \in Sessions
    BY <1>9 DEF CancelTxCommit, At, SessionKnown
  <2>2. voided \in Bills
    <3>1. bill[s] \in Bills /\ req[r].seen \in Bills /\ req[r].subtotal \in Int
      BY <2>1, RequestType DEF TypeInv, TypeOK
    <3> QED
      BY <3>1, BillRewriteType
  <2>3. bill' \in [Sessions -> Bills]
    BY <1>9, <2>1, <2>2 DEF CancelTxCommit, TypeInv, TypeOK
  <2>4. /\ items' \subseteq Orders \X (Attempts \cup {NoAttempt})
        /\ IsFiniteSet(items')
    BY <1>9, FS_Subset DEF CancelTxCommit, TypeInv, TypeOK
  <2>5. order' \in [Orders -> OrderRecords]
    BY <1>9, CancelledType DEF CancelTxCommit
  <2>6. overwritten' \subseteq Sessions
    BY <1>9, <2>1 DEF CancelTxCommit, NoteRewrite, TypeInv, TypeOK
  <2> QED
    BY <1>9, <2>3, <2>4, <2>5, <2>6, RequestType DEF CancelTxCommit, End, TypeInv, TypeOK
<1> QED
  BY <1>1, <1>2, <1>3, <1>4, <1>5, <1>6, <1>7, <1>8, <1>9 DEF OrderStep

\* A request that works on an attempt has one, and the order it pays.
AttemptKnown(r) ==
    /\ req[r].step \in {"charging", "approved", "rejected", "orderTx", "billTx"}
          => req[r].attempt \in Attempts
    /\ req[r].step = "orderTx" => req[r].order \in Orders

LEMMA OrderType ==
    ASSUME TypeInv, NEW o \in Orders
    PROVE  \A status \in OrderStatuses, n \in Nat :
              /\ order[o].tickets + 1 \in Nat
              /\ [order[o] EXCEPT !.status = status] \in OrderRecords
              /\ [order[o] EXCEPT !.status = status, !.tickets = n] \in OrderRecords
<1>1. order[o] \in OrderRecords
  BY DEF TypeInv, TypeOK
<1>2. order[o].tickets + 1 \in Nat
  BY <1>1 DEF OrderRecords
<1>3. \A status \in OrderStatuses : [order[o] EXCEPT !.status = status] \in OrderRecords
  BY <1>1 DEF OrderRecords
<1>4. \A status \in OrderStatuses, n \in Nat :
         [order[o] EXCEPT !.status = status, !.tickets = n] \in OrderRecords
  BY <1>1 DEF OrderRecords
<1> QED
  BY <1>2, <1>3, <1>4

LEMMA AttemptType ==
    ASSUME TypeInv, NEW a \in Attempts
    PROVE  /\ attempt[a] \in AttemptRecords
           /\ attempt[a].amount \in Nat
           /\ attempt[a].tip \in Nat
           /\ attempt[a].payments \in Nat
           /\ Succeeded(a) \in [Attempts -> AttemptRecords]
           /\ Failed(a) \in [Attempts -> AttemptRecords]
<1>1. attempt[a] \in AttemptRecords
  BY DEF TypeInv, TypeOK
<1>2. attempt[a].amount \in Nat /\ attempt[a].tip \in Nat /\ attempt[a].payments \in Nat
  BY <1>1 DEF AttemptRecords
<1>3. \A n \in Nat : [attempt[a] EXCEPT !.status = "SUCCEEDED", !.payments = n]
                        \in AttemptRecords
  BY <1>1 DEF AttemptRecords, AttemptStatuses
<1>4. Succeeded(a) \in [Attempts -> AttemptRecords]
  <2>1. Succeeded(a) = [attempt EXCEPT ![a] = [attempt[a] EXCEPT
                          !.status = "SUCCEEDED", !.payments = attempt[a].payments + 1]]
    BY DEF Succeeded, AttemptRecords, TypeInv, TypeOK
  <2>2. attempt[a].payments + 1 \in Nat
    BY <1>2
  <2>3. [attempt[a] EXCEPT !.status = "SUCCEEDED",
                           !.payments = attempt[a].payments + 1] \in AttemptRecords
    BY <1>3, <2>2
  <2> QED
    BY <2>1, <2>3 DEF TypeInv, TypeOK
<1>5. Failed(a) \in [Attempts -> AttemptRecords]
  BY <1>1 DEF Failed, AttemptRecords, AttemptStatuses, TypeInv, TypeOK
<1> QED
  BY <1>1, <1>2, <1>4, <1>5

LEMMA GotoType ==
    ASSUME TypeInv, NEW r \in Requests, NEW step \in Steps, Goto(r, step)
    PROVE  req' \in [Requests -> RequestRecords]
<1>1. [req[r] EXCEPT !.step = step] \in RequestRecords
  BY RequestType DEF RequestRecords
<1> QED
  BY <1>1 DEF Goto, TypeInv, TypeOK

LEMMA OpenAttemptType ==
    ASSUME TypeInv, NEW r \in Requests, NEW a \in Attempts,
           NEW o \in Orders \cup {NoOrder}, NEW s \in Sessions,
           NEW amount \in Nat, NEW tip \in Nat, NEW online \in BOOLEAN,
           OpenAttempt(r, a, o, s, amount, tip, online)
    PROVE  /\ attempt' \in [Attempts -> AttemptRecords]
           /\ req' \in [Requests -> RequestRecords]
<1>1. [status |-> "PENDING", order |-> o, session |-> s, amount |-> amount,
       tip |-> tip, payments |-> 0] \in AttemptRecords
  BY DEF AttemptRecords, AttemptStatuses
<1>2. [IdleRequest EXCEPT !.step = "charging", !.session = s, !.order = o,
                          !.attempt = a, !.online = online] \in RequestRecords
  BY IdleType DEF RequestRecords, Steps
<1> QED
  BY <1>1, <1>2 DEF OpenAttempt, TypeInv, TypeOK

\* A charge that approves took the money or recorded it on the restaurant's word;
\* it records nothing online where the gateway is required.
LEMMA AnswersKnown ==
    ASSUME NEW online \in BOOLEAN, NEW answer \in Answers(online)
    PROVE  /\ answer[1] \in {"approved", "rejected"}
           /\ answer[1] = "approved" => answer[2] \in {"captured", "recorded"}
           /\ answer[2] = "recorded" => ~(online /\ QrGatewayRequired)
<1>1. \/ answer \in GatewayAnswers
      \/ answer = Recorded /\ ~(online /\ QrGatewayRequired)
  BY GatewayAssumption DEF Answers
<1>2. CASE answer = <<"approved", "captured">>
  BY <1>2
<1>3. CASE answer = <<"rejected", "nothing">>
  BY <1>3
<1>4. CASE answer = <<"rejected", "captured">>
  BY <1>4
<1>5. CASE answer = Recorded /\ ~(online /\ QrGatewayRequired)
  BY <1>5 DEF Recorded
<1> QED
  BY <1>1, <1>2, <1>3, <1>4, <1>5 DEF GatewayAnswers

LEMMA PaymentStepType ==
    ASSUME TypeInv, NEW r \in Requests, SessionKnown(r), AttemptKnown(r),
           \A o \in Orders : order[o].status \in PayableOrderStatuses
                                => order[o].session \in Sessions,
           PaymentStep(r)
    PROVE  TypeInv'
<1>1. ASSUME NEW o \in Orders, NEW a \in Attempts, NEW tip \in Tips,
             PayOrderStart(r, o, a, tip)
      PROVE  TypeInv'
  <2>1. order[o].session \in Sessions
    BY <1>1 DEF PayOrderStart
  <2>2. /\ attempt' \in [Attempts -> AttemptRecords]
        /\ req' \in [Requests -> RequestRecords]
    <3>1. Price + tip \in Nat /\ tip \in Nat
      OBVIOUS
    <3> QED
      BY <1>1, <2>1, <3>1, OpenAttemptType DEF PayOrderStart
  <2> QED
    BY <1>1, <2>2 DEF PayOrderStart, TypeInv, TypeOK
<1>2. ASSUME NEW s \in Sessions, NEW a \in Attempts, NEW amount \in Amounts,
             NEW tip \in Tips, NEW online \in BOOLEAN,
             PayBillStart(r, s, a, amount, tip, online)
      PROVE  TypeInv'
  <2>1. /\ attempt' \in [Attempts -> AttemptRecords]
        /\ req' \in [Requests -> RequestRecords]
    <3>1. amount + tip \in Nat /\ tip \in Nat
      OBVIOUS
    <3> QED
      BY <1>2, <3>1, OpenAttemptType DEF PayBillStart
  <2> QED
    BY <1>2, <2>1 DEF PayBillStart, TypeInv, TypeOK
<1>3. CASE Charge(r)
  <2>1. req[r].attempt \in Attempts
    BY <1>3 DEF Charge, At, AttemptKnown
  <2>2. PICK answer \in Answers(req[r].online) : Goto(r, answer[1])
    BY <1>3 DEF Charge
  <2>3. answer[1] \in Steps
    BY <2>2, AnswersKnown, RequestType DEF Steps
  <2>4. req' \in [Requests -> RequestRecords]
    BY <2>2, <2>3, GotoType
  <2>5. captured' \subseteq Attempts /\ offline' \subseteq Attempts
    BY <1>3, <2>1 DEF Charge, TypeInv, TypeOK
  <2> QED
    BY <1>3, <2>4, <2>5 DEF Charge, TypeInv, TypeOK
<1>4. CASE RejectOrder(r)
  <2>1. attempt' \in [Attempts -> AttemptRecords]
    BY <1>4, AttemptType DEF RejectOrder, At, AttemptKnown
  <2>2. order' \in [Orders -> OrderRecords]
    <3>1. order' = [order EXCEPT ![req[r].order].status = "PAYMENT_FAILED"]
      BY <1>4 DEF RejectOrder
    <3> QED
      BY <3>1, OrderType DEF OrderStatuses, TypeInv, TypeOK
  <2> QED
    BY <1>4, <2>1, <2>2, RequestType DEF RejectOrder, End, TypeInv, TypeOK
<1>5. CASE RejectBill(r)
  <2>1. attempt' \in [Attempts -> AttemptRecords]
    BY <1>5, AttemptType DEF RejectBill, At, AttemptKnown
  <2> QED
    BY <1>5, <2>1, RequestType DEF RejectBill, End, TypeInv, TypeOK
<1>6. CASE OrderTxRead(r) \/ BillTxRead(r)
  <2>1. req[r].session \in Sessions
    BY <1>6 DEF OrderTxRead, BillTxRead, At, SessionKnown
  <2>2. \A step \in Steps :
           [req[r] EXCEPT !.step = step, !.seen = bill[req[r].session]]
              \in RequestRecords
    BY <2>1, RequestType DEF RequestRecords, TypeInv, TypeOK
  <2>3. PICK step \in {"orderTx", "billTx"} :
           req' = [req EXCEPT ![r].step = step, ![r].seen = bill[req[r].session]]
    BY <1>6 DEF OrderTxRead, BillTxRead
  <2>4. req' = [req EXCEPT ![r] =
                  [req[r] EXCEPT !.step = step, !.seen = bill[req[r].session]]]
    BY <2>3 DEF TypeInv, TypeOK
  <2>5. req' \in [Requests -> RequestRecords]
    BY <2>2, <2>4 DEF Steps, TypeInv, TypeOK
  <2> QED
    BY <1>6, <2>5 DEF OrderTxRead, BillTxRead, TypeInv, TypeOK
<1>7. CASE OrderTxCommit(r)
  <2> DEFINE s       == req[r].session
             o       == req[r].order
             a       == req[r].attempt
             charged == ApplyOrderCharge(bill[s], req[r].seen, Price)
             paid    == ApplyPayment(charged, charged, attempt[a].amount, attempt[a].tip)
  <2>1. s \in Sessions /\ a \in Attempts /\ o \in Orders
    BY <1>7 DEF OrderTxCommit, At, SessionKnown, AttemptKnown
  <2>2. charged \in Bills
    <3>1. bill[s] \in Bills /\ req[r].seen \in Bills /\ Price \in Int
      BY <2>1, RequestType DEF TypeInv, TypeOK
    <3> QED
      BY <3>1, BillRewriteType
  <2>3. paid \in Bills
    <3>1. attempt[a].amount \in Int /\ attempt[a].tip \in Int
      BY <2>1, AttemptType
    <3> HIDE DEF charged
    <3> QED
      BY <2>2, <3>1, BillRewriteType
  <2>4. bill' = [bill EXCEPT ![s] = paid]
    BY <1>7 DEF OrderTxCommit
  <2>5. session' = [session EXCEPT ![s] = SessionAfterPayment(
                       SessionAfterCharge(@, charged.remaining), paid.remaining)]
    BY <1>7 DEF OrderTxCommit
  <2> HIDE DEF charged, paid
  <2>6. bill' \in [Sessions -> Bills]
    BY <2>3, <2>4 DEF TypeInv, TypeOK
  <2>7. session' \in [Sessions -> SessionStatuses]
    BY <2>1, <2>5 DEF SessionAfterPayment, SessionAfterCharge, SessionStatuses,
                      TypeInv, TypeOK
  <2>8. order' \in [Orders -> OrderRecords]
    <3>1. order' = [order EXCEPT ![o].status = "ROUTED", ![o].tickets = @ + 1]
      BY <1>7 DEF OrderTxCommit
    <3>2. order' = [order EXCEPT ![o] = [order[o] EXCEPT
                       !.status = "ROUTED", !.tickets = order[o].tickets + 1]]
      BY <2>1, <3>1 DEF OrderRecords, TypeInv, TypeOK
    <3> QED
      BY <2>1, <3>2, OrderType DEF OrderStatuses, TypeInv, TypeOK
  <2>9. attempt' \in [Attempts -> AttemptRecords]
    BY <1>7, <2>1, AttemptType DEF OrderTxCommit
  <2>10. /\ items' \subseteq Orders \X (Attempts \cup {NoAttempt})
         /\ IsFiniteSet(items')
    <3>1. items' = items \cup {<<o, a>>}
      BY <1>7 DEF OrderTxCommit
    <3>2. IsFiniteSet(items')
      BY <3>1, FS_AddElement DEF TypeInv
    <3> QED
      BY <2>1, <3>1, <3>2 DEF TypeInv, TypeOK
  <2>11. overwritten' \subseteq Sessions
    BY <1>7, <2>1 DEF OrderTxCommit, NoteRewrite, TypeInv, TypeOK
  <2> QED
    BY <1>7, <2>6, <2>7, <2>8, <2>9, <2>10, <2>11, RequestType
       DEF OrderTxCommit, End, TypeInv, TypeOK
<1>8. CASE BillTxCommit(r)
  <2> DEFINE s    == req[r].session
             a    == req[r].attempt
             paid == ApplyPayment(bill[s], req[r].seen, attempt[a].amount, attempt[a].tip)
  <2>1. s \in Sessions /\ a \in Attempts
    BY <1>8 DEF BillTxCommit, At, SessionKnown, AttemptKnown
  <2>2. paid \in Bills
    <3>1. /\ bill[s] \in Bills /\ req[r].seen \in Bills
          /\ attempt[a].amount \in Int /\ attempt[a].tip \in Int
      BY <2>1, RequestType, AttemptType DEF TypeInv, TypeOK
    <3> QED
      BY <3>1, BillRewriteType
  <2>3. /\ bill' = [bill EXCEPT ![s] = paid]
        /\ session' = [session EXCEPT ![s] = SessionAfterPayment(@, paid.remaining)]
    BY <1>8 DEF BillTxCommit
  <2> HIDE DEF paid
  <2>4. bill' \in [Sessions -> Bills]
    BY <2>2, <2>3 DEF TypeInv, TypeOK
  <2>5. session' \in [Sessions -> SessionStatuses]
    BY <2>1, <2>3 DEF SessionAfterPayment, SessionStatuses, TypeInv, TypeOK
  <2>6. attempt' \in [Attempts -> AttemptRecords]
    BY <1>8, <2>1, AttemptType DEF BillTxCommit
  <2>7. overwritten' \subseteq Sessions
    BY <1>8, <2>1 DEF BillTxCommit, NoteRewrite, TypeInv, TypeOK
  <2> QED
    BY <1>8, <2>4, <2>5, <2>6, <2>7, RequestType DEF BillTxCommit, End, TypeInv, TypeOK
<1> QED
  BY <1>1, <1>2, <1>3, <1>4, <1>5, <1>6, <1>7, <1>8 DEF PaymentStep
=============================================================================
