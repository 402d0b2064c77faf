------------------------- MODULE TableServiceProofs -------------------------
(***************************************************************************)
(* Theorems of TableService, for any number of sessions, orders, attempts  *)
(* and requests, and any price, tips and amounts.                          *)
(***************************************************************************)
EXTENDS TableServiceTypes

USE PriceAssumption, TipsAssumption, AmountsAssumption, NonesAssumption

-----------------------------------------------------------------------------
(* The inductive invariant                                                 *)

PaymentSteps == {"charging", "approved", "rejected", "orderTx", "billTx"}
InPayment(r) == req[r].step \in PaymentSteps

\* What a request that awaits may rely on, whatever the others do meanwhile.
RequestInv(r) ==
    /\ SessionKnown(r)
    /\ AttemptKnown(r)
    /\ InPayment(r) => /\ attempt[req[r].attempt].status = "PENDING"
                       /\ attempt[req[r].attempt].order = req[r].order
    /\ req[r].step \in {"approved", "orderTx", "billTx"} =>
          req[r].attempt \in captured \cup offline
    /\ InPayment(r) /\ req[r].order \in Orders => req[r].online
    /\ req[r].step = "billTx" => req[r].order = NoOrder
    /\ req[r].step \in {"cancelPre", "cancelProd", "cancelTx"} =>
          req[r].order \in Orders /\ order[req[r].order].status # "NONE"
    /\ req[r].step \in {"cancelProd", "cancelTx"} =>
          order[req[r].order].source = "WAITER"

AttemptInv(a) ==
    /\ attempt[a].status = "NONE" => attempt[a].order = NoOrder
    /\ attempt[a].order \in Orders =>
          /\ order[attempt[a].order].status # "NONE"
          /\ order[attempt[a].order].source = "QR"
    /\ attempt[a].payments = IF attempt[a].status = "SUCCEEDED" THEN 1 ELSE 0
    /\ attempt[a].status = "SUCCEEDED" => a \in captured \cup offline
    /\ QrGatewayRequired /\ attempt[a].order \in Orders => a \notin offline
    /\ a \in offline => attempt[a].status # "NONE"

Paying(o) == {a \in Attempts : attempt[a].order = o /\ attempt[a].payments > 0}

OrderInv(o) ==
    /\ order[o].status = "NONE" =>
          order[o].source = "QR" /\ ItemsOf(o) = {} /\ order[o].tickets = 0
    /\ order[o].status # "NONE" => order[o].session \in Sessions
    /\ order[o].status \in PayableOrderStatuses => order[o].source = "QR"
    /\ order[o].source = "QR" => /\ ItemsOf(o) = {o} \X Paying(o)
                                 /\ order[o].tickets = Cardinality(ItemsOf(o))
    /\ order[o].source = "QR" /\ order[o].status = "ROUTED" => ItemsOf(o) # {}

\* No two requests work on the same attempt.
OwnAttempts ==
    \A r, q \in Requests :
        InPayment(r) /\ InPayment(q) /\ req[r].attempt = req[q].attempt => r = q

Inv ==
    /\ TypeInv
    /\ \A r \in Requests : RequestInv(r)
    /\ \A a \in Attempts : AttemptInv(a)
    /\ \A o \in Orders : OrderInv(o)
    /\ OwnAttempts
    /\ OneActiveSession

LEMMA InitInv == Init => Inv
<1> SUFFICES ASSUME Init PROVE Inv
  OBVIOUS
<1>1. TypeInv
  BY InitType
<1>2. \A r \in Requests : req[r].step = "idle"
  BY DEF Init, IdleRequest
<1>3. ASSUME NEW r \in Requests PROVE RequestInv(r) /\ ~InPayment(r)
  BY <1>2 DEF RequestInv, SessionKnown, AttemptKnown, InPayment, PaymentSteps
<1>4. ASSUME NEW a \in Attempts PROVE AttemptInv(a) /\ attempt[a].payments = 0
  BY DEF Init, UnusedAttempt, AttemptInv
<1>5. ASSUME NEW o \in Orders PROVE OrderInv(o)
  <2>1. order[o] = UnusedOrder /\ items = {}
    BY DEF Init
  <2>2. ItemsOf(o) = {} /\ Cardinality(ItemsOf(o)) = 0
    BY <2>1, FS_EmptySet DEF ItemsOf
  <2>3. Paying(o) = {}
    BY <1>4 DEF Paying
  <2> QED
    BY <2>1, <2>2, <2>3 DEF UnusedOrder, OrderInv, PayableOrderStatuses
<1>6. OneActiveSession
  BY DEF Init, OneActiveSession, ActiveSessions, ActiveTableSessionStatuses
<1>7. OwnAttempts
  BY <1>3 DEF OwnAttempts
<1> QED
  BY <1>1, <1>3, <1>4, <1>5, <1>6, <1>7 DEF Inv

-----------------------------------------------------------------------------
(* What the steps of one request leave alone                               *)

\* The other requests keep what they rely on when a step only moves one request,
\* forgets no capture or record, takes no status away from an order, and resolves no
\* attempt of theirs.
LEMMA OthersKeepInv ==
    ASSUME Inv, NEW r \in Requests, NEW q \in Requests, q # r,
           req'[q] = req[q],
           captured \subseteq captured', offline \subseteq offline',
           InPayment(q) => attempt'[req[q].attempt] = attempt[req[q].attempt],
           \A o \in Orders : order[o].status # "NONE" =>
               order'[o].status # "NONE" /\ order'[o].source = order[o].source
    PROVE  RequestInv(q)'
<1>1. RequestInv(q)
  BY DEF Inv
<1>2. /\ SessionKnown(q)' <=> SessionKnown(q)
      /\ AttemptKnown(q)' <=> AttemptKnown(q)
      /\ InPayment(q)' <=> InPayment(q)
  BY DEF SessionKnown, AttemptKnown, InPayment
<1> QED
  BY <1>1, <1>2 DEF RequestInv, InPayment

\* A step of a request that writes no order, item or attempt.
LEMMA QuietStep ==
    ASSUME Inv, TypeInv', NEW r \in Requests,
           \A q \in Requests : q # r => req'[q] = req[q],
           UNCHANGED <<order, items, attempt>>,
           captured \subseteq captured', offline \subseteq offline',
           RequestInv(r)',
           InPayment(r)' => InPayment(r) /\ req'[r].attempt = req[r].attempt,
           \A a \in offline' \ offline :
               /\ attempt[a].status # "NONE"
               /\ ~(QrGatewayRequired /\ attempt[a].order \in Orders),
           OneActiveSession'
    PROVE  Inv'
<1>1. ASSUME NEW q \in Requests PROVE RequestInv(q)'
  BY OthersKeepInv
<1>2. ASSUME NEW a \in Attempts PROVE AttemptInv(a)'
  BY DEF Inv, AttemptInv
<1>3. ASSUME NEW o \in Orders PROVE OrderInv(o)'
  BY DEF Inv, OrderInv, ItemsOf, Paying
<1>4. OwnAttempts'
  <2>1. \A q \in Requests : InPayment(q)' => InPayment(q) /\ req'[q].attempt = req[q].attempt
    BY DEF InPayment
  <2> QED
    BY <2>1 DEF OwnAttempts, Inv
<1> QED
  BY <1>1, <1>2, <1>3, <1>4 DEF Inv

LEMMA EndKeepsInv ==
    ASSUME Inv, NEW r \in Requests, End(r)
    PROVE  /\ RequestInv(r)'
           /\ ~InPayment(r)'
           /\ \A q \in Requests : q # r => req'[q] = req[q]
<1>1. req' = [req EXCEPT ![r] = IdleRequest] /\ req'[r] = IdleRequest
  BY DEF End, Inv, TypeInv, TypeOK
<1>2. req'[r].step = "idle"
  BY <1>1 DEF IdleRequest
<1> QED
  BY <1>1, <1>2 DEF RequestInv, SessionKnown, AttemptKnown, InPayment, PaymentSteps,
                    Inv, TypeInv, TypeOK

-----------------------------------------------------------------------------
(* Sessions                                                                *)

LEMMA ActiveShrinks ==
    ASSUME OneActiveSession, ActiveSessions' \subseteq ActiveSessions
    PROVE  OneActiveSession'
BY DEF OneActiveSession

LEMMA ActiveOpens ==
    ASSUME TypeInv, IndexAllowsSession, NEW s \in Sessions, CreateSession(s)
    PROVE  OneActiveSession'
<1>1. ActiveSessions' \subseteq {s}
  BY DEF IndexAllowsSession, ActiveSessions, CreateSession, TypeInv, TypeOK
<1> QED
  BY <1>1 DEF OneActiveSession

\* A charge or a payment changes the status of a session within the active ones.
LEMMA LedgerKeepsActivity ==
    ASSUME NEW status, NEW n, NEW m
    PROVE  /\ SessionAfterCharge(status, n) \in ActiveTableSessionStatuses
                <=> status \in ActiveTableSessionStatuses
           /\ SessionAfterPayment(SessionAfterCharge(status, n), m)
                 \in ActiveTableSessionStatuses
                <=> status \in ActiveTableSessionStatuses
           /\ SessionAfterPayment(status, m) \in ActiveTableSessionStatuses
                <=> status \in ActiveTableSessionStatuses
           /\ status \in {"CLOSED", "ABANDONED"} =>
                 /\ SessionAfterCharge(status, n) = status
                 /\ SessionAfterPayment(status, m) = status
BY DEF SessionAfterCharge, SessionAfterPayment, ActiveTableSessionStatuses

LEMMA SessionStepInv ==
    ASSUME Inv, NEW r \in Requests, SessionStep(r)
    PROVE  Inv'
<1>1. TypeInv'
  BY SessionStepType DEF Inv
<1>2. CASE OpenRead(r)
  <2>1. req' = [req EXCEPT ![r].step = "opening"]
    BY <1>2 DEF OpenRead, Goto
  <2>2. /\ req'[r].step = "opening"
        /\ \A q \in Requests : q # r => req'[q] = req[q]
    BY <2>1 DEF RequestRecords, Inv, TypeInv, TypeOK
  <2>3. RequestInv(r)' /\ ~InPayment(r)'
    BY <2>2 DEF RequestInv, SessionKnown, AttemptKnown, InPayment, PaymentSteps
  <2>4. OneActiveSession'
    BY <1>2 DEF OpenRead, OneActiveSession, ActiveSessions, Inv
  <2> QED
    BY <1>1, <1>2, <2>2, <2>3, <2>4, QuietStep DEF OpenRead
<1>3. CASE OpenCommit(r)
  <2>1. OneActiveSession'
    BY <1>3, ActiveOpens DEF OpenCommit, UnusedSessions, Inv
  <2> QED
    BY <1>1, <1>3, <2>1, EndKeepsInv, QuietStep DEF OpenCommit
<1>4. ASSUME NEW status \in {"CLOSED", "ABANDONED"}, NEW billStatus,
             Leave(r, status, billStatus)
      PROVE  Inv'
  <2>1. ActiveSessions' \subseteq ActiveSessions
    BY <1>4 DEF Leave, ActiveSessions, ActiveTableSessionStatuses, Inv, TypeInv, TypeOK
  <2>2. OneActiveSession'
    BY <2>1, ActiveShrinks DEF Inv
  <2> QED
    BY <1>1, <1>4, <2>2, EndKeepsInv, QuietStep DEF Leave
<1>5. CASE CloseCommit(r) \/ AbandonCommit(r)
  BY <1>4, <1>5 DEF CloseCommit, AbandonCommit
<1>6. ASSUME NEW s \in Sessions, CloseRead(r, s) \/ AbandonRead(r, s)
      PROVE  Inv'
  <2>1. PICK x : /\ req' = [req EXCEPT ![r] = x]
                 /\ x.step \in {"closing", "abandoning"}
                 /\ x.session = s
    BY <1>6 DEF CloseRead, AbandonRead, IdleRequest
  <2>2. /\ req'[r] = x
        /\ \A q \in Requests : q # r => req'[q] = req[q]
    BY <2>1 DEF Inv, TypeInv, TypeOK
  <2>3. RequestInv(r)' /\ ~InPayment(r)'
    BY <2>1, <2>2 DEF RequestInv, SessionKnown, AttemptKnown, InPayment, PaymentSteps
  <2>4. OneActiveSession'
    BY <1>6 DEF CloseRead, AbandonRead, OneActiveSession, ActiveSessions, Inv
  <2> QED
    BY <1>1, <1>6, <2>2, <2>3, <2>4, QuietStep DEF CloseRead, AbandonRead
<1> QED
  BY <1>2, <1>3, <1>5, <1>6 DEF SessionStep

-----------------------------------------------------------------------------
(* Orders                                                                  *)

LEMMA EndKeepsRequests ==
    ASSUME Inv, NEW r \in Requests, End(r),
           captured \subseteq captured', offline \subseteq offline',
           \A q \in Requests : q # r /\ InPayment(q) =>
               attempt'[req[q].attempt] = attempt[req[q].attempt],
           \A o \in Orders : order[o].status # "NONE" =>
               order'[o].status # "NONE" /\ order'[o].source = order[o].source
    PROVE  OwnAttempts' /\ \A q \in Requests : RequestInv(q)'
<1>1. \A q \in Requests : q # r => req'[q] = req[q]
  BY EndKeepsInv
<1>2. ~InPayment(r)'
  BY EndKeepsInv
<1>3. OwnAttempts'
  <2>1. \A q \in Requests : InPayment(q)' => InPayment(q) /\ req'[q].attempt = req[q].attempt
    BY <1>1, <1>2 DEF InPayment
  <2> QED
    BY <2>1 DEF OwnAttempts, Inv
<1>4. ASSUME NEW q \in Requests PROVE RequestInv(q)'
  <2>1. CASE q = r
    BY <2>1, EndKeepsInv
  <2>2. CASE q # r
    BY <1>1, <2>2, OthersKeepInv
  <2> QED
    BY <2>1, <2>2
<1> QED
  BY <1>3, <1>4

\* A new order has no attempt yet, and leaves those of the other orders alone.
LEMMA NewOrderInv ==
    ASSUME Inv, NEW o \in UnusedOrders, NEW s \in Sessions,
           NEW source, NEW status, NEW tickets,
           NewOrder(o, s, source, status, tickets),
           \/ /\ source = "QR" /\ status = "AWAITING_PAYMENT" /\ tickets = 0
              /\ items' = items
           \/ /\ source = "WAITER" /\ status = "ROUTED"
              /\ items' = items \cup {<<o, NoAttempt>>},
           attempt' = attempt, captured' = captured, offline' = offline
    PROVE  /\ \A a \in Attempts : AttemptInv(a)'
           /\ \A p \in Orders : OrderInv(p)'
           /\ \A p \in Orders : order[p].status # "NONE" => order'[p] = order[p]
<1>1. /\ o \in Orders
      /\ order[o].status = "NONE"
  BY DEF UnusedOrders
<1>2. /\ order'[o] = [status |-> status, source |-> source, session |-> s,
                      tickets |-> tickets]
      /\ \A p \in Orders : p # o => order'[p] = order[p]
  BY <1>1 DEF NewOrder, Inv, TypeInv, TypeOK
<1>3. \A a \in Attempts : attempt[a].order # o
  BY <1>1 DEF Inv, AttemptInv
<1>4. ASSUME NEW a \in Attempts PROVE AttemptInv(a)'
  BY <1>2, <1>3 DEF Inv, AttemptInv
<1>5. ASSUME NEW p \in Orders, p # o PROVE OrderInv(p)'
  <2>1. ItemsOf(p)' = ItemsOf(p) /\ Paying(p)' = Paying(p)
    BY <1>5 DEF ItemsOf, Paying
  <2>2. order'[p] = order[p]
    BY <1>2, <1>5
  <2>3. OrderInv(p)
    BY DEF Inv
  <2> QED
    BY <2>1, <2>2, <2>3 DEF OrderInv
<1>6. OrderInv(o)'
  <2>1. ItemsOf(o) = {} /\ Cardinality(ItemsOf(o)) = 0
    BY <1>1, FS_EmptySet DEF Inv, OrderInv
  <2>2. Paying(o)' = {}
    BY <1>3 DEF Paying
  <2>3. source = "QR" => ItemsOf(o)' = ItemsOf(o)
    BY DEF ItemsOf
  <2> QED
    BY <1>2, <2>1, <2>2, <2>3 DEF OrderInv, PayableOrderStatuses
<1> QED
  BY <1>1, <1>2, <1>4, <1>5, <1>6

\* The steps of OrderStep that only read.
LEMMA OrderReadInv ==
    ASSUME Inv, TypeInv', NEW r \in Requests,
           \/ QrOrderRead(r)
           \/ \E s \in Sessions : WaiterRead(r, s)
           \/ \E o \in Orders : CancelRead(r, o)
           \/ CancelTxRead(r)
    PROVE  Inv'
<1>1. /\ UNCHANGED <<table, session, bill, order, items, attempt, captured, offline>>
      /\ \A q \in Requests : q # r => req'[q] = req[q]
  BY DEF QrOrderRead, WaiterRead, CancelRead, CancelTxRead, Inv, TypeInv, TypeOK
<1>2. OneActiveSession'
  BY <1>1 DEF OneActiveSession, ActiveSessions, Inv
<1>3. RequestInv(r)' /\ ~InPayment(r)'
  <2>1. CASE QrOrderRead(r)
    <3>1. PICK s : req' = [req EXCEPT ![r] = [IdleRequest EXCEPT !.step = "qrOrder",
                                                                    !.session = s]]
      BY <2>1 DEF QrOrderRead
    <3>2. req'[r].step = "qrOrder"
      BY <3>1 DEF IdleRequest, Inv, TypeInv, TypeOK
    <3> QED
      BY <3>2 DEF RequestInv, SessionKnown, AttemptKnown, InPayment, PaymentSteps
  <2>2. CASE \E s \in Sessions : WaiterRead(r, s)
    <3>1. PICK s \in Sessions :
             req' = [req EXCEPT ![r] = [IdleRequest EXCEPT !.step = "waiterOrder",
                                          !.session = s, !.seen = bill[s]]]
      BY <2>2 DEF WaiterRead
    <3>2. req'[r].step = "waiterOrder" /\ req'[r].session = s
      BY <3>1 DEF IdleRequest, Inv, TypeInv, TypeOK
    <3> QED
      BY <3>2 DEF RequestInv, SessionKnown, AttemptKnown, InPayment, PaymentSteps
  <2>3. ASSUME NEW o \in Orders, CancelRead(r, o)
        PROVE  RequestInv(r)' /\ ~InPayment(r)'
    <3>1. PICK step \in {"cancelPre", "cancelProd"} :
             /\ IF step = "cancelPre"
                THEN order[o].status \in PreProductionStatuses
                ELSE order[o].status = "ROUTED" /\ order[o].source = "WAITER"
             /\ req' = [req EXCEPT ![r] = [IdleRequest EXCEPT !.step = step,
                                        !.order = o, !.session = order[o].session]]
      BY <2>3 DEF CancelRead
    <3>2. /\ req'[r].step = step
          /\ req'[r].order = o
          /\ req'[r].session = order[o].session
      BY <3>1 DEF IdleRequest, Inv, TypeInv, TypeOK
    <3>3. order[o].status # "NONE" /\ order[o].session \in Sessions
      BY <3>1 DEF PreProductionStatuses, Inv, OrderInv
    <3> QED
      BY <1>1, <3>1, <3>2, <3>3
         DEF RequestInv, SessionKnown, AttemptKnown, InPayment, PaymentSteps
  <2>4. CASE CancelTxRead(r)
    <3>1. /\ req'[r].step = "cancelTx"
          /\ req'[r].session = req[r].session
          /\ req'[r].order = req[r].order
          /\ req[r].step = "cancelProd"
      BY <2>4 DEF CancelTxRead, At, RequestRecords, Inv, TypeInv, TypeOK
    <3> QED
      BY <1>1, <3>1
         DEF Inv, RequestInv, SessionKnown, AttemptKnown, InPayment, PaymentSteps
  <2> QED
    BY <2>1, <2>2, <2>3, <2>4
<1> QED
  BY <1>1, <1>2, <1>3, QuietStep

LEMMA OrderStepInv ==
    ASSUME Inv, NEW r \in Requests, OrderStep(r)
    PROVE  Inv'
<1>1. TypeInv'
  BY OrderStepType DEF Inv, RequestInv
<1>2. CASE \/ QrOrderRead(r)
           \/ \E s \in Sessions : WaiterRead(r, s)
           \/ \E o \in Orders : CancelRead(r, o)
           \/ CancelTxRead(r)
  BY <1>1, <1>2, OrderReadInv
<1>3. ASSUME NEW o \in Orders, QrOrderOnSession(r, o)
      PROVE  Inv'
  <2>1. req[r].session \in Sessions /\ o \in UnusedOrders
    BY <1>3, RequestType DEF QrOrderOnSession, Inv
  <2>2. /\ \A a \in Attempts : AttemptInv(a)'
        /\ \A p \in Orders : OrderInv(p)'
        /\ \A p \in Orders : order[p].status # "NONE" => order'[p] = order[p]
    BY <1>3, <2>1, NewOrderInv DEF QrOrderOnSession
  <2>3. OwnAttempts' /\ \A q \in Requests : RequestInv(q)'
    BY <1>3, <2>2, EndKeepsRequests DEF QrOrderOnSession
  <2>4. OneActiveSession'
    BY <1>3 DEF QrOrderOnSession, OneActiveSession, ActiveSessions, Inv
  <2> QED
    BY <1>1, <2>2, <2>3, <2>4 DEF Inv
<1>4. ASSUME NEW o \in Orders, QrOrderOnNewSession(r, o)
      PROVE  Inv'
  <2>1. PICK s \in UnusedSessions :
           CreateSession(s) /\ NewOrder(o, s, "QR", "AWAITING_PAYMENT", 0)
    BY <1>4 DEF QrOrderOnNewSession
  <2>2. s \in Sessions /\ o \in UnusedOrders
    BY <1>4 DEF UnusedSessions, QrOrderOnNewSession
  <2>3. /\ \A a \in Attempts : AttemptInv(a)'
        /\ \A p \in Orders : OrderInv(p)'
        /\ \A p \in Orders : order[p].status # "NONE" => order'[p] = order[p]
    BY <1>4, <2>1, <2>2, NewOrderInv DEF QrOrderOnNewSession
  <2>4. OwnAttempts' /\ \A q \in Requests : RequestInv(q)'
    BY <1>4, <2>3, EndKeepsRequests DEF QrOrderOnNewSession
  <2>5. OneActiveSession'
    BY <1>4, <2>1, <2>2, ActiveOpens DEF QrOrderOnNewSession, Inv
  <2> QED
    BY <1>1, <2>3, <2>4, <2>5 DEF Inv
<1>5. ASSUME NEW o \in Orders, WaiterCommit(r, o)
      PROVE  Inv'
  <2> DEFINE s       == req[r].session
             charged == ApplyOrderCharge(bill[s], req[r].seen, Price)
  <2>1. s \in Sessions /\ o \in UnusedOrders
    BY <1>5 DEF WaiterCommit, At, Inv, RequestInv, SessionKnown
  <2>2. /\ NewOrder(o, s, "WAITER", "ROUTED", 1)
        /\ items' = items \cup {<<o, NoAttempt>>}
        /\ session' = [session EXCEPT ![s] = SessionAfterCharge(@, charged.remaining)]
    BY <1>5 DEF WaiterCommit
  <2>3. /\ \A a \in Attempts : AttemptInv(a)'
        /\ \A p \in Orders : OrderInv(p)'
        /\ \A p \in Orders : order[p].status # "NONE" => order'[p] = order[p]
    BY <1>5, <2>1, <2>2, NewOrderInv DEF WaiterCommit
  <2>4. OwnAttempts' /\ \A q \in Requests : RequestInv(q)'
    BY <1>5, <2>3, EndKeepsRequests DEF WaiterCommit
  <2>5. OneActiveSession'
    <3> HIDE DEF charged
    <3>1. ActiveSessions' \subseteq ActiveSessions
      BY <2>1, <2>2, LedgerKeepsActivity DEF ActiveSessions, Inv, TypeInv, TypeOK
    <3> QED
      BY <3>1, ActiveShrinks DEF Inv
  <2> QED
    BY <1>1, <2>3, <2>4, <2>5 DEF Inv
<1>6. CASE CancelPreCommit(r)
  <2> DEFINE o == req[r].order
  <2>1. o \in Orders /\ order[o].status # "NONE"
    BY <1>6 DEF CancelPreCommit, At, Inv, RequestInv
  <2>2. order' = [order EXCEPT ![o].status = "CANCELLED"]
    BY <1>6 DEF CancelPreCommit
  <2>3. /\ order'[o].status = "CANCELLED"
        /\ \A p \in Orders : /\ p # o => order'[p] = order[p]
                             /\ order'[p].source = order[p].source
                             /\ order'[p].session = order[p].session
                             /\ order'[p].tickets = order[p].tickets
    BY <2>1, <2>2 DEF OrderRecords, Inv, TypeInv, TypeOK
  <2>4. ASSUME NEW a \in Attempts PROVE AttemptInv(a)'
    BY <1>6, <2>1, <2>3 DEF CancelPreCommit, Inv, AttemptInv
  <2>5. ASSUME NEW p \in Orders PROVE OrderInv(p)'
    <3>1. ItemsOf(p)' = ItemsOf(p) /\ Paying(p)' = Paying(p)
      BY <1>6 DEF CancelPreCommit, ItemsOf, Paying
    <3> QED
      BY <2>1, <2>3, <3>1 DEF Inv, OrderInv, PayableOrderStatuses
  <2>6. OwnAttempts' /\ \A q \in Requests : RequestInv(q)'
    BY <1>6, <2>1, <2>3, EndKeepsRequests DEF CancelPreCommit
  <2>7. OneActiveSession'
    BY <1>6 DEF CancelPreCommit, OneActiveSession, ActiveSessions, Inv
  <2> QED
    BY <1>1, <2>4, <2>5, <2>6, <2>7 DEF Inv
<1>7. CASE CancelTxCommit(r)
  <2> DEFINE o == req[r].order
  <2>1. /\ o \in Orders
        /\ order[o].status # "NONE"
        /\ order[o].source = "WAITER"
    BY <1>7 DEF CancelTxCommit, At, Inv, RequestInv
  <2>2. /\ order' = [order EXCEPT ![o].status = "CANCELLED"]
        /\ items' = items \ ItemsOf(o)
    BY <1>7 DEF CancelTxCommit
  <2>3. /\ order'[o].status = "CANCELLED"
        /\ \A p \in Orders : /\ p # o => order'[p] = order[p]
                             /\ order'[p].source = order[p].source
                             /\ order'[p].session = order[p].session
                             /\ order'[p].tickets = order[p].tickets
    BY <2>1, <2>2 DEF OrderRecords, Inv, TypeInv, TypeOK
  <2>4. ASSUME NEW a \in Attempts PROVE AttemptInv(a)'
    BY <1>7, <2>1, <2>3 DEF CancelTxCommit, Inv, AttemptInv
  <2>5. ASSUME NEW p \in Orders PROVE OrderInv(p)'
    <3>1. p # o => ItemsOf(p)' = ItemsOf(p)
      BY <2>2 DEF ItemsOf
    <3>2. Paying(p)' = Paying(p)
      BY <1>7 DEF CancelTxCommit, Paying
    <3> QED
      BY <2>1, <2>3, <3>1, <3>2 DEF Inv, OrderInv, PayableOrderStatuses
  <2>6. OwnAttempts' /\ \A q \in Requests : RequestInv(q)'
    BY <1>7, <2>1, <2>3, EndKeepsRequests DEF CancelTxCommit
  <2>7. OneActiveSession'
    BY <1>7 DEF CancelTxCommit, OneActiveSession, ActiveSessions, Inv
  <2> QED
    BY <1>1, <2>4, <2>5, <2>6, <2>7 DEF Inv
<1> QED
  BY <1>2, <1>3, <1>4, <1>5, <1>6, <1>7 DEF OrderStep

-----------------------------------------------------------------------------
(* Payments                                                                *)

LEMMA OpenAttemptInv ==
    ASSUME Inv, NEW r \in Requests, NEW a \in UnusedAttempts,
           NEW o \in Orders \cup {NoOrder}, NEW s \in Sessions,
           NEW amount, NEW tip, NEW online,
           OpenAttempt(r, a, o, s, amount, tip, online),
           o \in Orders => order[o].status # "NONE" /\ order[o].source = "QR",
           o \in Orders => online,
           UNCHANGED <<order, items, captured, offline>>
    PROVE  /\ \A b \in Attempts : AttemptInv(b)'
           /\ \A p \in Orders : OrderInv(p)'
           /\ \A q \in Requests : RequestInv(q)'
           /\ OwnAttempts'
<1>1. a \in Attempts /\ attempt[a].status = "NONE"
  BY DEF UnusedAttempts
<1>2. /\ attempt'[a] = [status |-> "PENDING", order |-> o, session |-> s,
                        amount |-> amount, tip |-> tip, payments |-> 0]
      /\ \A b \in Attempts : b # a => attempt'[b] = attempt[b]
  BY <1>1 DEF OpenAttempt, Inv, TypeInv, TypeOK
<1>3. /\ req'[r].step = "charging"
      /\ req'[r].session = s
      /\ req'[r].order = o
      /\ req'[r].attempt = a
      /\ req'[r].online = online
      /\ \A q \in Requests : q # r => req'[q] = req[q]
  BY DEF OpenAttempt, IdleRequest, Inv, TypeInv, TypeOK
<1>4. \A q \in Requests : InPayment(q) => req[q].attempt \in Attempts /\ req[q].attempt # a
  BY <1>1 DEF Inv, RequestInv, AttemptKnown, InPayment, PaymentSteps
<1>5. attempt[a].payments = 0
  BY <1>1 DEF Inv, AttemptInv
<1>6. ASSUME NEW b \in Attempts PROVE AttemptInv(b)'
  BY <1>1, <1>2 DEF Inv, AttemptInv
<1>7. ASSUME NEW p \in Orders PROVE OrderInv(p)'
  <2>1. Paying(p)' = Paying(p)
    BY <1>1, <1>2, <1>5 DEF Paying
  <2>2. ItemsOf(p)' = ItemsOf(p)
    BY DEF ItemsOf
  <2> QED
    BY <2>1, <2>2 DEF Inv, OrderInv
<1>8. RequestInv(r)'
  BY <1>1, <1>2, <1>3
     DEF RequestInv, SessionKnown, AttemptKnown, InPayment, PaymentSteps
<1>9. ASSUME NEW q \in Requests, q # r PROVE RequestInv(q)'
  BY <1>2, <1>3, <1>4, <1>9, OthersKeepInv
<1>10. OwnAttempts'
  BY <1>3, <1>4 DEF OwnAttempts, InPayment, Inv
<1> QED
  BY <1>6, <1>7, <1>8, <1>9, <1>10

\* The steps of PaymentStep that move one request on, and may take money.
LEMMA PaymentMoveInv ==
    ASSUME Inv, TypeInv', NEW r \in Requests,
           Charge(r) \/ OrderTxRead(r) \/ BillTxRead(r)
    PROVE  Inv'
<1>1. /\ UNCHANGED <<order, items, attempt, session>>
      /\ \A q \in Requests : q # r => req'[q] = req[q]
      /\ req'[r].attempt = req[r].attempt
      /\ req'[r].order = req[r].order
      /\ req'[r].session = req[r].session
      /\ req'[r].online = req[r].online
      /\ captured \subseteq captured' /\ offline \subseteq offline'
  BY DEF Charge, Goto, OrderTxRead, BillTxRead, RequestRecords, Inv, TypeInv, TypeOK
<1>2. OneActiveSession'
  BY <1>1 DEF OneActiveSession, ActiveSessions, Inv
<1>3. InPayment(r) /\ RequestInv(r)
  BY DEF Charge, OrderTxRead, BillTxRead, At, InPayment, PaymentSteps, Inv
<1>4. RequestInv(r)'
  <2>1. CASE Charge(r)
    <3>1. PICK answer \in Answers(req[r].online) :
             /\ Goto(r, answer[1])
             /\ captured' = IF answer[2] = "captured"
                            THEN captured \cup {req[r].attempt} ELSE captured
             /\ offline' = IF answer[2] = "recorded"
                           THEN offline \cup {req[r].attempt} ELSE offline
      BY <2>1 DEF Charge
    <3>2. /\ answer[1] \in {"approved", "rejected"}
          /\ answer[1] = "approved" => answer[2] \in {"captured", "recorded"}
      BY <3>1, AnswersKnown, RequestType DEF Inv
    <3>3. /\ req'[r].step = answer[1]
          /\ answer[1] = "approved" => req[r].attempt \in captured' \cup offline'
      BY <3>1, <3>2 DEF Goto, RequestRecords, Inv, TypeInv, TypeOK
    <3> QED
      BY <1>1, <1>3, <3>2, <3>3
         DEF RequestInv, SessionKnown, AttemptKnown, InPayment, PaymentSteps
  <2>2. CASE OrderTxRead(r)
    <3>1. /\ req'[r].step = "orderTx"
          /\ req[r].step = "approved"
          /\ req[r].order \in Orders
          /\ captured' = captured /\ offline' = offline
      BY <2>2, RequestType DEF OrderTxRead, At, RequestRecords, Inv, TypeInv, TypeOK
    <3> QED
      BY <1>1, <1>3, <3>1
         DEF RequestInv, SessionKnown, AttemptKnown, InPayment, PaymentSteps
  <2>3. CASE BillTxRead(r)
    <3>1. /\ req'[r].step = "billTx"
          /\ req[r].step = "approved"
          /\ req[r].order = NoOrder
          /\ captured' = captured /\ offline' = offline
      BY <2>3 DEF BillTxRead, At, RequestRecords, Inv, TypeInv, TypeOK
    <3> QED
      BY <1>1, <1>3, <3>1
         DEF RequestInv, SessionKnown, AttemptKnown, InPayment, PaymentSteps
  <2> QED
    BY <2>1, <2>2, <2>3
<1>5. ASSUME NEW a \in offline' \ offline
      PROVE  /\ attempt[a].status # "NONE"
             /\ ~(QrGatewayRequired /\ attempt[a].order \in Orders)
  <2>1. Charge(r)
    BY <1>5 DEF OrderTxRead, BillTxRead
  <2>2. PICK answer \in Answers(req[r].online) :
           offline' = IF answer[2] = "recorded"
                      THEN offline \cup {req[r].attempt} ELSE offline
    BY <2>1 DEF Charge
  <2>3. a = req[r].attempt /\ answer[2] = "recorded"
    BY <1>5, <2>2
  <2>4. ~(req[r].online /\ QrGatewayRequired)
    BY <2>2, <2>3, AnswersKnown, RequestType DEF Inv
  <2> QED
    BY <1>3, <2>3, <2>4 DEF RequestInv
<1> QED
  BY <1>1, <1>2, <1>3, <1>4, <1>5, QuietStep

\* The attempt a request resolves is no other request's.
LEMMA ResolvesOwn ==
    ASSUME Inv, NEW r \in Requests, InPayment(r),
           \/ attempt' = Failed(req[r].attempt)
           \/ attempt' = Succeeded(req[r].attempt)
    PROVE  /\ req[r].attempt \in Attempts
           /\ attempt[req[r].attempt].status = "PENDING"
           /\ attempt[req[r].attempt].payments = 0
           /\ attempt'[req[r].attempt].order = attempt[req[r].attempt].order
           /\ \A a \in Attempts : a # req[r].attempt => attempt'[a] = attempt[a]
           /\ \A q \in Requests : q # r /\ InPayment(q) =>
                 attempt'[req[q].attempt] = attempt[req[q].attempt]
<1>1. /\ req[r].attempt \in Attempts
      /\ attempt[req[r].attempt].status = "PENDING"
  BY DEF Inv, RequestInv, AttemptKnown, InPayment, PaymentSteps
<1>2. attempt[req[r].attempt].payments = 0
  BY <1>1 DEF Inv, AttemptInv
<1>3. /\ \A a \in Attempts : a # req[r].attempt => attempt'[a] = attempt[a]
      /\ attempt'[req[r].attempt].order = attempt[req[r].attempt].order
  BY <1>1 DEF Failed, Succeeded, AttemptRecords, Inv, TypeInv, TypeOK
<1>4. \A q \in Requests : q # r /\ InPayment(q) =>
         req[q].attempt \in Attempts /\ req[q].attempt # req[r].attempt
  BY DEF Inv, OwnAttempts, RequestInv, AttemptKnown, InPayment, PaymentSteps
<1> QED
  BY <1>1, <1>2, <1>3, <1>4

\* An order that is paid is charged and routed with its own payment.
LEMMA OrderTxCommitInv ==
    ASSUME Inv, TypeInv', NEW r \in Requests, OrderTxCommit(r)
    PROVE  Inv'
<1>a. /\ InPayment(r) /\ RequestInv(r)
      /\ req[r].session \in Sessions
      /\ req[r].order \in Orders
      /\ req[r].attempt \in Attempts
      /\ req[r].attempt \in captured \cup offline
      /\ attempt[req[r].attempt].order = req[r].order
  BY DEF OrderTxCommit, At, InPayment, PaymentSteps, Inv, RequestInv, SessionKnown,
         AttemptKnown
<1>b. PICK s \in Sessions, o \in Orders, a \in Attempts :
         s = req[r].session /\ o = req[r].order /\ a = req[r].attempt
  BY <1>a
<1> DEFINE charged == ApplyOrderCharge(bill[s], req[r].seen, Price)
           paid    == ApplyPayment(charged, charged, attempt[a].amount, attempt[a].tip)
<1>1. /\ InPayment(r) /\ RequestInv(r)
      /\ a \in captured \cup offline
      /\ attempt[a].order = o
  BY <1>a, <1>b
<1>2. /\ attempt' = Succeeded(a)
      /\ items' = items \cup {<<o, a>>}
      /\ order' = [order EXCEPT ![o].status = "ROUTED", ![o].tickets = @ + 1]
      /\ session' = [session EXCEPT ![s] = SessionAfterPayment(
                        SessionAfterCharge(@, charged.remaining), paid.remaining)]
      /\ captured' = captured /\ offline' = offline
      /\ End(r)
  BY <1>b DEF OrderTxCommit
<1> HIDE DEF charged, paid
<1>3. /\ attempt[a].payments = 0
      /\ attempt'[a].order = o
      /\ \A b \in Attempts : b # a => attempt'[b] = attempt[b]
      /\ \A q \in Requests : q # r /\ InPayment(q) =>
            attempt'[req[q].attempt] = attempt[req[q].attempt]
  BY <1>1, <1>2, <1>b, ResolvesOwn
<1>4. attempt'[a].status = "SUCCEEDED" /\ attempt'[a].payments = 1
  BY <1>1, <1>2, <1>3 DEF Succeeded, AttemptRecords, Inv, TypeInv, TypeOK
<1>5. order[o].status # "NONE" /\ order[o].source = "QR"
  BY <1>1 DEF Inv, AttemptInv
<1>6. /\ order'[o].status = "ROUTED"
      /\ order'[o].source = "QR"
      /\ order'[o].session = order[o].session
      /\ order'[o].tickets = order[o].tickets + 1
      /\ \A p \in Orders : p # o => order'[p] = order[p]
  BY <1>1, <1>2, <1>5 DEF OrderRecords, Inv, TypeInv, TypeOK
<1>7. ASSUME NEW b \in Attempts PROVE AttemptInv(b)'
  <2>1. CASE b = a
    <3>1. QrGatewayRequired /\ o \in Orders => a \notin offline
      BY <1>1 DEF Inv, AttemptInv
    <3> QED
      BY <1>1, <1>2, <1>3, <1>4, <1>6, <2>1, <3>1 DEF AttemptInv
  <2>2. CASE b # a
    <3>1. AttemptInv(b) /\ attempt'[b] = attempt[b]
      BY <1>3, <2>2 DEF Inv
    <3>2. \A p \in Orders : /\ order[p].status # "NONE" => order'[p].status # "NONE"
                            /\ order[p].source = "QR" => order'[p].source = "QR"
                            /\ order'[p].session = order[p].session
      BY <1>5, <1>6
    <3> QED
      BY <1>2, <3>1, <3>2 DEF AttemptInv
  <2> QED
    BY <2>1, <2>2
<1>8. ASSUME NEW p \in Orders, p # o PROVE OrderInv(p)'
  <2>1. ItemsOf(p)' = ItemsOf(p)
    BY <1>2, <1>8 DEF ItemsOf
  <2>2. Paying(p)' = Paying(p)
    BY <1>1, <1>3, <1>8 DEF Paying
  <2>3. OrderInv(p) /\ order'[p] = order[p]
    BY <1>6, <1>8 DEF Inv
  <2> QED
    BY <2>1, <2>2, <2>3 DEF OrderInv
<1>9. OrderInv(o)'
  <2>1. ItemsOf(o) = {o} \X Paying(o) /\ order[o].tickets = Cardinality(ItemsOf(o))
    BY <1>1, <1>5 DEF Inv, OrderInv
  <2>2. Paying(o)' = Paying(o) \cup {a} /\ a \notin Paying(o)
    BY <1>1, <1>3, <1>4 DEF Paying
  <2>3. ItemsOf(o)' = ItemsOf(o) \cup {<<o, a>>}
    BY <1>2 DEF ItemsOf
  <2>4. <<o, a>> \notin ItemsOf(o)
    BY <2>1, <2>2
  <2>5. IsFiniteSet(ItemsOf(o))
    <3>1. ItemsOf(o) \in SUBSET items
      BY DEF ItemsOf
    <3> QED
      BY <3>1, FS_Subset DEF Inv, TypeInv
  <2>6. Cardinality(ItemsOf(o)') = Cardinality(ItemsOf(o)) + 1
    BY <2>3, <2>4, <2>5, FS_AddElement
  <2>7. ItemsOf(o)' = {o} \X Paying(o)'
    BY <2>1, <2>2, <2>3
  <2>8. ItemsOf(o)' # {}
    BY <2>3
  <2>9. order'[o].session \in Sessions
    BY <1>1, <1>5, <1>6 DEF Inv, OrderInv
  <2>10. order'[o].tickets = Cardinality(ItemsOf(o)')
    BY <1>6, <2>1, <2>6
  <2> QED
    BY <1>6, <2>7, <2>8, <2>9, <2>10 DEF OrderInv, PayableOrderStatuses
<1>10. OwnAttempts' /\ \A q \in Requests : RequestInv(q)'
  BY <1>2, <1>3, <1>5, <1>6, EndKeepsRequests
<1>11. OneActiveSession'
  <2>1. ActiveSessions' \subseteq ActiveSessions
    BY <1>1, <1>2, LedgerKeepsActivity DEF ActiveSessions, Inv, TypeInv, TypeOK
  <2> QED
    BY <2>1, ActiveShrinks DEF Inv
<1>12. \A p \in Orders : OrderInv(p)'
  BY <1>8, <1>9
<1> QED
  BY <1>7, <1>10, <1>11, <1>12 DEF Inv

LEMMA BillTxCommitInv ==
    ASSUME Inv, TypeInv', NEW r \in Requests, BillTxCommit(r)
    PROVE  Inv'
<1> DEFINE s    == req[r].session
           a    == req[r].attempt
           paid == ApplyPayment(bill[s], req[r].seen, attempt[a].amount, attempt[a].tip)
<1>1. /\ InPayment(r) /\ RequestInv(r)
      /\ s \in Sessions /\ a \in Attempts
      /\ a \in captured \cup offline
      /\ attempt[a].order = NoOrder
  BY DEF BillTxCommit, At, InPayment, PaymentSteps, Inv, RequestInv, SessionKnown,
         AttemptKnown
<1>2. /\ attempt' = Succeeded(a)
      /\ session' = [session EXCEPT ![s] = SessionAfterPayment(@, paid.remaining)]
      /\ UNCHANGED <<order, items, captured, offline>>
      /\ End(r)
  BY DEF BillTxCommit
<1> HIDE DEF paid
<1>3. /\ attempt[a].payments = 0
      /\ attempt'[a].order = NoOrder
      /\ \A b \in Attempts : b # a => attempt'[b] = attempt[b]
      /\ \A q \in Requests : q # r /\ InPayment(q) =>
            attempt'[req[q].attempt] = attempt[req[q].attempt]
  BY <1>1, <1>2, ResolvesOwn
<1>4. attempt'[a].status = "SUCCEEDED" /\ attempt'[a].payments = 1
  BY <1>1, <1>2, <1>3 DEF Succeeded, AttemptRecords, Inv, TypeInv, TypeOK
<1>5. ASSUME NEW b \in Attempts PROVE AttemptInv(b)'
  BY <1>1, <1>2, <1>3, <1>4 DEF Inv, AttemptInv
<1>6. ASSUME NEW p \in Orders PROVE OrderInv(p)'
  <2>1. ItemsOf(p)' = ItemsOf(p)
    BY <1>2 DEF ItemsOf
  <2>2. Paying(p)' = Paying(p)
    BY <1>1, <1>3 DEF Paying
  <2> QED
    BY <1>2, <2>1, <2>2 DEF Inv, OrderInv
<1>7. OwnAttempts' /\ \A q \in Requests : RequestInv(q)'
  BY <1>2, <1>3, EndKeepsRequests
<1>8. OneActiveSession'
  <2>1. ActiveSessions' \subseteq ActiveSessions
    BY <1>1, <1>2, LedgerKeepsActivity DEF ActiveSessions, Inv, TypeInv, TypeOK
  <2> QED
    BY <2>1, ActiveShrinks DEF Inv
<1> QED
  BY <1>5, <1>6, <1>7, <1>8 DEF Inv

\* A rejected attempt fails, and the order it was to pay with it.
LEMMA RejectInv ==
    ASSUME Inv, TypeInv', NEW r \in Requests, RejectOrder(r) \/ RejectBill(r)
    PROVE  Inv'
<1> DEFINE o == req[r].order
           a == req[r].attempt
<1>1. /\ InPayment(r)
      /\ a \in Attempts
      /\ attempt[a].order = o
      /\ o \in Orders \cup {NoOrder}
  BY RequestType DEF RejectOrder, RejectBill, At, InPayment, PaymentSteps, Inv,
                     RequestInv, AttemptKnown
<1>2. /\ attempt' = Failed(a)
      /\ order' = order \/ (o # NoOrder /\ order' = [order EXCEPT ![o].status = "PAYMENT_FAILED"])
      /\ UNCHANGED <<items, captured, offline, session>>
      /\ End(r)
  BY DEF RejectOrder, RejectBill
<1>3. /\ attempt[a].payments = 0
      /\ attempt'[a].order = o
      /\ \A b \in Attempts : b # a => attempt'[b] = attempt[b]
      /\ \A q \in Requests : q # r /\ InPayment(q) =>
            attempt'[req[q].attempt] = attempt[req[q].attempt]
  BY <1>1, <1>2, ResolvesOwn
<1>4. attempt'[a].status = "FAILED" /\ attempt'[a].payments = 0
  BY <1>1, <1>2, <1>3 DEF Failed, AttemptRecords, Inv, TypeInv, TypeOK
<1>5. o \in Orders => order[o].status # "NONE" /\ order[o].source = "QR"
  BY <1>1 DEF Inv, AttemptInv
<1>6. \A p \in Orders :
         /\ order'[p].source = order[p].source
         /\ order'[p].session = order[p].session
         /\ order'[p].tickets = order[p].tickets
         /\ \/ order'[p].status = order[p].status
            \/ /\ order'[p].status = "PAYMENT_FAILED"
               /\ order[p].status # "NONE"
               /\ order[p].source = "QR"
  BY <1>1, <1>2, <1>5 DEF OrderRecords, Inv, TypeInv, TypeOK
<1>7. ASSUME NEW b \in Attempts PROVE AttemptInv(b)'
  BY <1>1, <1>2, <1>3, <1>4, <1>6 DEF Inv, AttemptInv
<1>8. ASSUME NEW p \in Orders PROVE OrderInv(p)'
  <2>1. ItemsOf(p)' = ItemsOf(p)
    BY <1>2 DEF ItemsOf
  <2>2. Paying(p)' = Paying(p)
    BY <1>1, <1>3, <1>4 DEF Paying
  <2> QED
    BY <1>6, <2>1, <2>2 DEF Inv, OrderInv, PayableOrderStatuses
<1>9. OwnAttempts' /\ \A q \in Requests : RequestInv(q)'
  BY <1>2, <1>3, <1>6, EndKeepsRequests
<1>10. OneActiveSession'
  BY <1>2 DEF OneActiveSession, ActiveSessions, Inv
<1> QED
  BY <1>7, <1>8, <1>9, <1>10 DEF Inv

LEMMA PaymentStepInv ==
    ASSUME Inv, NEW r \in Requests, PaymentStep(r)
    PROVE  Inv'
<1>1. TypeInv'
  <2>1. \A o \in Orders : order[o].status \in PayableOrderStatuses
                             => order[o].session \in Sessions
    BY DEF Inv, OrderInv, PayableOrderStatuses
  <2> QED
    BY <2>1, PaymentStepType DEF Inv, RequestInv
<1>2. ASSUME NEW o \in Orders, NEW a \in Attempts, NEW tip \in Tips,
             PayOrderStart(r, o, a, tip)
      PROVE  Inv'
  <2>1. /\ order[o].status # "NONE"
        /\ order[o].source = "QR"
        /\ order[o].session \in Sessions
    BY <1>2 DEF PayOrderStart, PayableOrderStatuses, Inv, OrderInv
  <2>2. /\ \A b \in Attempts : AttemptInv(b)'
        /\ \A p \in Orders : OrderInv(p)'
        /\ \A q \in Requests : RequestInv(q)'
        /\ OwnAttempts'
    BY <1>2, <2>1, OpenAttemptInv DEF PayOrderStart
  <2>3. OneActiveSession'
    BY <1>2 DEF PayOrderStart, OneActiveSession, ActiveSessions, Inv
  <2> QED
    BY <1>1, <2>2, <2>3 DEF Inv
<1>3. ASSUME NEW s \in Sessions, NEW a \in Attempts, NEW amount \in Amounts,
             NEW tip \in Tips, NEW online \in BOOLEAN,
             PayBillStart(r, s, a, amount, tip, online)
      PROVE  Inv'
  <2>1. /\ \A b \in Attempts : AttemptInv(b)'
        /\ \A p \in Orders : OrderInv(p)'
        /\ \A q \in Requests : RequestInv(q)'
        /\ OwnAttempts'
    BY <1>3, OpenAttemptInv DEF PayBillStart
  <2>2. OneActiveSession'
    BY <1>3 DEF PayBillStart, OneActiveSession, ActiveSessions, Inv
  <2> QED
    BY <1>1, <2>1, <2>2 DEF Inv
<1> QED
  BY <1>1, <1>2, <1>3, PaymentMoveInv, OrderTxCommitInv, BillTxCommitInv, RejectInv
     DEF PaymentStep

LEMMA DropInv ==
    ASSUME Inv, NEW r \in Requests, Drop(r)
    PROVE  Inv'
<1>1. TypeInv'
  BY RequestType DEF Drop, End, Inv, TypeInv, TypeOK
<1>2. OneActiveSession'
  BY DEF Drop, OneActiveSession, ActiveSessions, Inv
<1> QED
  BY <1>1, <1>2, EndKeepsInv, QuietStep DEF Drop

LEMMA NextInv == Inv /\ [Next]_vars => Inv'
<1> SUFFICES ASSUME Inv, [Next]_vars PROVE Inv'
  OBVIOUS
<1>1. ASSUME NEW r \in Requests,
             SessionStep(r) \/ OrderStep(r) \/ PaymentStep(r) \/ Drop(r)
      PROVE  Inv'
  BY <1>1, SessionStepInv, OrderStepInv, PaymentStepInv, DropInv
<1>2. CASE UNCHANGED vars
  BY <1>2 DEF vars, Inv, TypeInv, TypeOK, RequestInv, SessionKnown, AttemptKnown,
              InPayment, AttemptInv, OrderInv, ItemsOf, Paying, OwnAttempts,
              OneActiveSession, ActiveSessions, Bills
<1> QED
  BY <1>1, <1>2 DEF Next

-----------------------------------------------------------------------------
(* What follows                                                            *)

LEMMA Invariance == Spec => []Inv
<1>1. Init => Inv
  BY InitInv
<1>2. Inv /\ [Next]_vars => Inv'
  BY NextInv
<1> QED
  BY <1>1, <1>2, PTL DEF Spec

\* Every variable keeps its type: in particular no row ever gets a status that
\* is not one of its enumeration, and no request refers to what does not exist.
THEOREM TypeCorrect == Spec => []TypeOK
<1>1. Inv => TypeOK
  BY DEF Inv, TypeInv
<1> QED
  BY <1>1, Invariance, PTL

\* The partial unique index is enough: opening the table and ordering by QR, which
\* both look first and create later, never leave two active sessions.
THEOREM OneActive == Spec => []OneActiveSession
<1>1. Inv => OneActiveSession
  BY DEF Inv
<1> QED
  BY <1>1, Invariance, PTL

\* For every QR order, its items, its tickets and its recorded payments agree:
\* pay-qr-order claims, charges, settles and routes in one transaction.
THEOREM Charged == Spec => []QrOrderChargedPerPayment
<1>1. ASSUME Inv, NEW o \in Orders, order[o].source = "QR"
      PROVE  /\ ItemsOf(o) = {o} \X {a \in Attempts : attempt[a].order = o
                                                     /\ attempt[a].payments > 0}
             /\ order[o].tickets = Cardinality(ItemsOf(o))
  BY <1>1 DEF Inv, OrderInv, Paying
<1>2. Inv => QrOrderChargedPerPayment
  BY <1>1 DEF QrOrderChargedPerPayment
<1> QED
  BY <1>2, Invariance, PTL

\* No QR order is in production, or ever was, without a payment recorded for it that
\* the charge approved: taken by a gateway or recorded on the restaurant's word, and
\* only taken by a gateway in an installation that requires one.
THEOREM Production == Spec => []ProductionNeedsApproval
<1>1. ASSUME Inv, NEW o \in Orders, order[o].source = "QR",
             order[o].status = "ROUTED" \/ order[o].tickets > 0
      PROVE  \E a \in captured \cup offline :
                /\ attempt[a].order = o /\ attempt[a].payments > 0
                /\ QrGatewayRequired => a \in captured
  <2>1. /\ ItemsOf(o) = {o} \X Paying(o)
        /\ order[o].tickets = Cardinality(ItemsOf(o))
        /\ order[o].status = "ROUTED" => ItemsOf(o) # {}
    BY <1>1 DEF Inv, OrderInv
  <2>2. Paying(o) # {}
    <3>1. CASE order[o].status = "ROUTED"
      BY <2>1, <3>1
    <3>2. CASE order[o].tickets > 0
      <4>1. ItemsOf(o) # {}
        BY <2>1, <3>2, FS_EmptySet
      <4> QED
        BY <2>1, <4>1
    <3> QED
      BY <1>1, <3>1, <3>2
  <2>3. PICK a \in Attempts : attempt[a].order = o /\ attempt[a].payments > 0
    BY <2>2 DEF Paying
  <2>4. a \in captured \cup offline /\ (QrGatewayRequired => a \in captured)
    BY <1>1, <2>3 DEF Inv, AttemptInv
  <2> QED
    BY <2>3, <2>4
<1>2. Inv => ProductionNeedsApproval
  BY <1>1 DEF ProductionNeedsApproval
<1> QED
  BY <1>2, Invariance, PTL

-----------------------------------------------------------------------------
(* What a step may do to a session that is over                            *)

LEMMA SessionsStayOver ==
    ASSUME Inv, [Next]_vars, NEW s \in Sessions, session[s] \in {"CLOSED", "ABANDONED"}
    PROVE  session'[s] \in {"CLOSED", "ABANDONED"}
<1>1. s \notin UnusedSessions
  BY DEF UnusedSessions
<1>2. ASSUME NEW t \in UnusedSessions, CreateSession(t)
      PROVE  session'[s] = session[s]
  BY <1>1, <1>2 DEF CreateSession, UnusedSessions, Inv, TypeInv, TypeOK
<1>3. ASSUME NEW r \in Requests, SessionStep(r)
      PROVE  session'[s] \in {"CLOSED", "ABANDONED"}
  <2>1. CASE OpenCommit(r)
    BY <1>2, <2>1 DEF OpenCommit
  <2>2. CASE CloseCommit(r) \/ AbandonCommit(r)
    BY <2>2 DEF CloseCommit, AbandonCommit, Leave, Inv, TypeInv, TypeOK
  <2>3. CASE OpenRead(r) \/ \E t \in Sessions : CloseRead(r, t) \/ AbandonRead(r, t)
    BY <2>3 DEF OpenRead, CloseRead, AbandonRead
  <2> QED
    BY <1>3, <2>1, <2>2, <2>3 DEF SessionStep
<1>4. ASSUME NEW r \in Requests, OrderStep(r)
      PROVE  session'[s] \in {"CLOSED", "ABANDONED"}
  <2>1. CASE \E o \in Orders : WaiterCommit(r, o)
    <3>1. PICK t, n : session' = [session EXCEPT ![t] = SessionAfterCharge(@, n)]
      BY <2>1 DEF WaiterCommit
    <3> QED
      BY <3>1, LedgerKeepsActivity DEF Inv, TypeInv, TypeOK
  <2>2. CASE \E o \in Orders : QrOrderOnNewSession(r, o)
    BY <1>2, <2>2 DEF QrOrderOnNewSession
  <2>3. CASE \/ QrOrderRead(r)
             \/ \E t \in Sessions : WaiterRead(r, t)
             \/ \E o \in Orders : QrOrderOnSession(r, o) \/ CancelRead(r, o)
             \/ CancelPreCommit(r) \/ CancelTxRead(r) \/ CancelTxCommit(r)
    BY <2>3 DEF QrOrderRead, WaiterRead, QrOrderOnSession, CancelRead, CancelPreCommit,
                CancelTxRead, CancelTxCommit
  <2> QED
    BY <1>4, <2>1, <2>2, <2>3 DEF OrderStep
<1>5. ASSUME NEW r \in Requests, PaymentStep(r)
      PROVE  session'[s] \in {"CLOSED", "ABANDONED"}
  <2>1. CASE OrderTxCommit(r)
    <3>1. PICK t, n, m : session' = [session EXCEPT ![t] =
                             SessionAfterPayment(SessionAfterCharge(@, n), m)]
      BY <2>1 DEF OrderTxCommit
    <3> QED
      BY <3>1, LedgerKeepsActivity DEF Inv, TypeInv, TypeOK
  <2>2. CASE BillTxCommit(r)
    <3>1. PICK t, m : session' = [session EXCEPT ![t] = SessionAfterPayment(@, m)]
      BY <2>2 DEF BillTxCommit
    <3> QED
      BY <3>1, LedgerKeepsActivity DEF Inv, TypeInv, TypeOK
  <2>3. CASE ~OrderTxCommit(r) /\ ~BillTxCommit(r)
    BY <1>5, <2>3 DEF PaymentStep, PayOrderStart, PayBillStart, Charge, RejectOrder,
                      RejectBill, OrderTxRead, BillTxRead
  <2> QED
    BY <2>1, <2>2, <2>3
<1> QED
  BY <1>3, <1>4, <1>5 DEF Next, Drop, vars

\* A closed or abandoned session is never brought back by a late charge, payment
\* or session created meanwhile: the reopening UPDATE asks for PAYMENT_COMPLETED.
THEOREM InactiveForever == Spec => InactiveStaysInactive
<1>1. Inv /\ [Next]_vars =>
         [\A s \in Sessions : session[s] \in {"CLOSED", "ABANDONED"}
             => session'[s] \in {"CLOSED", "ABANDONED"}]_session
  BY SessionsStayOver
<1> QED
  BY <1>1, Invariance, PTL DEF Spec, InactiveStaysInactive
-----------------------------------------------------------------------------
(* The table and its sessions                                              *)

LEMMA TracksCreation ==
    ASSUME Inv, NEW s \in Sessions, CreateSession(s)
    PROVE  TableTracksSession'
<1>1. s \in ActiveSessions' /\ table' = "OCCUPIED"
  BY DEF CreateSession, ActiveSessions, ActiveTableSessionStatuses, Inv, TypeInv, TypeOK
<1> QED
  BY <1>1 DEF TableTracksSession

\* A close that finds its session active leaves no other: it was the only one.
LEMMA TracksLeave ==
    ASSUME Inv, NEW r \in Requests, NEW status \in {"CLOSED", "ABANDONED"},
           NEW billStatus, Leave(r, status, billStatus)
    PROVE  TableTracksSession'
<1>1. CASE req[r].session \notin ActiveSessions
  BY <1>1 DEF Leave, TableTracksSession
<1>2. CASE req[r].session \in ActiveSessions
  <2>1. PICK s \in ActiveSessions : s = req[r].session
    BY <1>2
  <2>2. \A t \in ActiveSessions : t = s
    BY DEF Inv, OneActiveSession
  <2>3. session' = [session EXCEPT ![s] = status] /\ table' = "AVAILABLE"
    BY <2>1 DEF Leave
  <2>4. ActiveSessions' = {}
    BY <2>1, <2>2, <2>3 DEF ActiveSessions, ActiveTableSessionStatuses, Inv, TypeInv, TypeOK
  <2> QED
    BY <2>3, <2>4 DEF TableTracksSession
<1> QED
  BY <1>1, <1>2

LEMMA TracksUnchanged ==
    ASSUME TableTracksSession, table' = table, lateClose' = lateClose,
           ActiveSessions' = ActiveSessions
    PROVE  TableTracksSession'
BY DEF TableTracksSession

LEMMA TracksStep ==
    ASSUME Inv, TableTracksSession, [Next]_vars
    PROVE  TableTracksSession'
<1>1. ASSUME session' = session, table' = table, lateClose' = lateClose
      PROVE  TableTracksSession'
  BY <1>1, TracksUnchanged DEF ActiveSessions
<1>2. ASSUME NEW r \in Requests, SessionStep(r)
      PROVE  TableTracksSession'
  <2>1. CASE OpenCommit(r)
    BY <2>1, TracksCreation DEF OpenCommit, UnusedSessions
  <2>2. CASE CloseCommit(r) \/ AbandonCommit(r)
    BY <2>2, TracksLeave DEF CloseCommit, AbandonCommit
  <2>3. CASE OpenRead(r) \/ \E t \in Sessions : CloseRead(r, t) \/ AbandonRead(r, t)
    BY <1>1, <2>3 DEF OpenRead, CloseRead, AbandonRead
  <2> QED
    BY <1>2, <2>1, <2>2, <2>3 DEF SessionStep
<1>3. ASSUME NEW r \in Requests, OrderStep(r)
      PROVE  TableTracksSession'
  <2>1. CASE \E o \in Orders : WaiterCommit(r, o)
    <3>1. PICK t, n : session' = [session EXCEPT ![t] = SessionAfterCharge(@, n)]
      BY <2>1 DEF WaiterCommit
    <3>2. ActiveSessions' = ActiveSessions
      BY <3>1, LedgerKeepsActivity DEF ActiveSessions, Inv, TypeInv, TypeOK
    <3> QED
      BY <2>1, <3>2, TracksUnchanged DEF WaiterCommit
  <2>2. CASE \E o \in Orders : QrOrderOnNewSession(r, o)
    BY <2>2, TracksCreation DEF QrOrderOnNewSession, UnusedSessions
  <2>3. CASE \/ QrOrderRead(r)
             \/ \E t \in Sessions : WaiterRead(r, t)
             \/ \E o \in Orders : QrOrderOnSession(r, o) \/ CancelRead(r, o)
             \/ CancelPreCommit(r) \/ CancelTxRead(r) \/ CancelTxCommit(r)
    BY <1>1, <2>3 DEF QrOrderRead, WaiterRead, QrOrderOnSession, CancelRead,
                      CancelPreCommit, CancelTxRead, CancelTxCommit
  <2> QED
    BY <1>3, <2>1, <2>2, <2>3 DEF OrderStep
<1>4. ASSUME NEW r \in Requests, PaymentStep(r)
      PROVE  TableTracksSession'
  <2>1. CASE OrderTxCommit(r)
    <3>1. PICK t, n, m : session' = [session EXCEPT ![t] =
                             SessionAfterPayment(SessionAfterCharge(@, n), m)]
      BY <2>1 DEF OrderTxCommit
    <3>2. ActiveSessions' = ActiveSessions
      BY <3>1, LedgerKeepsActivity DEF ActiveSessions, Inv, TypeInv, TypeOK
    <3> QED
      BY <2>1, <3>2, TracksUnchanged DEF OrderTxCommit
  <2>2. CASE BillTxCommit(r)
    <3>1. PICK t, m : session' = [session EXCEPT ![t] = SessionAfterPayment(@, m)]
      BY <2>2 DEF BillTxCommit
    <3>2. ActiveSessions' = ActiveSessions
      BY <3>1, LedgerKeepsActivity DEF ActiveSessions, Inv, TypeInv, TypeOK
    <3> QED
      BY <2>2, <3>2, TracksUnchanged DEF BillTxCommit
  <2>3. CASE ~OrderTxCommit(r) /\ ~BillTxCommit(r)
    BY <1>1, <1>4, <2>3 DEF PaymentStep, PayOrderStart, PayBillStart, Charge,
                            RejectOrder, RejectBill, OrderTxRead, BillTxRead
  <2> QED
    BY <2>1, <2>2, <2>3
<1> QED
  BY <1>1, <1>2, <1>3, <1>4 DEF Next, Drop, vars

\* The table's status and its sessions never disagree, as long as every close and
\* abandon finds its session still active (which they do not ask: see lateClose).
THEOREM TableTracks == Spec => []TableTracksSession
<1>1. Init => TableTracksSession
  BY DEF Init, TableTracksSession, ActiveSessions, ActiveTableSessionStatuses
<1>2. Inv /\ TableTracksSession /\ [Next]_vars => TableTracksSession'
  BY TracksStep
<1> QED
  BY <1>1, <1>2, Invariance, PTL DEF Spec

-----------------------------------------------------------------------------
(* TableService implements PaymentAttempt                                  *)

StatusOf   == [a \in Attempts |-> attempt[a].status]
PaymentsOf == [a \in Attempts |-> attempt[a].payments]

LEMMA PromiseInit == Init => Promise!Init
BY DEF Init, UnusedAttempt, Promise!Init

LEMMA PromiseKept ==
    ASSUME attempt' = attempt, captured' = captured, offline' = offline
    PROVE  UNCHANGED Promise!vars
BY DEF Promise!vars

\* Opening an attempt is the promise's Open.
LEMMA PromiseOpened ==
    ASSUME Inv, NEW r \in Requests, NEW a \in UnusedAttempts,
           NEW o, NEW s, NEW amount, NEW tip, NEW online,
           OpenAttempt(r, a, o, s, amount, tip, online),
           captured' = captured, offline' = offline
    PROVE  Promise!Open(a)
<1>1. a \in Attempts /\ attempt[a].status = "NONE" /\ attempt[a].payments = 0
  BY DEF UnusedAttempts, Inv, AttemptInv
<1>2. /\ attempt'[a].status = "PENDING"
      /\ attempt'[a].payments = 0
      /\ \A b \in Attempts : b # a => attempt'[b] = attempt[b]
  BY <1>1 DEF OpenAttempt, Inv, TypeInv, TypeOK
<1>3. StatusOf' = [StatusOf EXCEPT ![a] = "PENDING"]
  BY <1>1, <1>2 DEF StatusOf
<1>4. PaymentsOf' = PaymentsOf
  BY <1>1, <1>2 DEF PaymentsOf
<1> QED
  BY <1>1, <1>3, <1>4 DEF Promise!Open, StatusOf, PaymentsOf

\* An attempt that is still PENDING and becomes FAILED is the promise's Fail.
LEMMA PromiseFailed ==
    ASSUME Inv, NEW a \in Attempts, attempt[a].status = "PENDING",
           attempt' = Failed(a), captured' = captured, offline' = offline
    PROVE  Promise!Fail(a)
<1>1. /\ attempt'[a].status = "FAILED"
      /\ attempt'[a].payments = attempt[a].payments
      /\ \A b \in Attempts : b # a => attempt'[b] = attempt[b]
  BY DEF Failed, AttemptRecords, Inv, TypeInv, TypeOK
<1>2. StatusOf' = [StatusOf EXCEPT ![a] = "FAILED"]
  BY <1>1 DEF StatusOf
<1>3. PaymentsOf' = PaymentsOf
  BY <1>1 DEF PaymentsOf
<1> QED
  BY <1>2, <1>3 DEF Promise!Fail, StatusOf, PaymentsOf

\* One that was captured, or recorded on the restaurant's word, and succeeds with its
\* Payment is the promise's Succeed.
LEMMA PromiseSucceeded ==
    ASSUME Inv, NEW a \in captured \cup offline, a \in Attempts, attempt[a].status = "PENDING",
           attempt' = Succeeded(a), captured' = captured, offline' = offline
    PROVE  Promise!Succeed(a)
<1>1. /\ attempt'[a].status = "SUCCEEDED"
      /\ attempt'[a].payments = attempt[a].payments + 1
      /\ \A b \in Attempts : b # a => attempt'[b] = attempt[b]
  BY DEF Succeeded, AttemptRecords, Inv, TypeInv, TypeOK
<1>2. StatusOf' = [StatusOf EXCEPT ![a] = "SUCCEEDED"]
  BY <1>1 DEF StatusOf
<1>3. PaymentsOf' = [PaymentsOf EXCEPT ![a] = @ + 1]
  BY <1>1 DEF PaymentsOf
<1> QED
  BY <1>2, <1>3 DEF Promise!Succeed, StatusOf, PaymentsOf

LEMMA PromisePayment ==
    ASSUME Inv, NEW r \in Requests, PaymentStep(r)
    PROVE  Promise!Next \/ UNCHANGED Promise!vars
<1> DEFINE a == req[r].attempt
<1>1. InPayment(r) => a \in Attempts /\ attempt[a].status = "PENDING"
  BY DEF Inv, RequestInv, AttemptKnown, InPayment, PaymentSteps
<1>2. CASE \E b \in Attempts, tip \in Tips, o \in Orders : PayOrderStart(r, o, b, tip)
  <2>1. PICK b \in Attempts, tip \in Tips, o \in Orders : PayOrderStart(r, o, b, tip)
    BY <1>2
  <2>2. Promise!Open(b)
    BY <2>1, PromiseOpened DEF PayOrderStart
  <2> QED
    BY <2>2 DEF Promise!Next
<1>3. CASE \E b \in Attempts, tip \in Tips, s \in Sessions, amount \in Amounts,
             online \in BOOLEAN : PayBillStart(r, s, b, amount, tip, online)
  <2>1. PICK b \in Attempts, tip \in Tips, s \in Sessions, amount \in Amounts,
             online \in BOOLEAN : PayBillStart(r, s, b, amount, tip, online)
    BY <1>3
  <2>2. Promise!Open(b)
    BY <2>1, PromiseOpened DEF PayBillStart
  <2> QED
    BY <2>2 DEF Promise!Next
<1>4. CASE Charge(r)
  <2>1. a \in Attempts /\ attempt[a].status = "PENDING"
    BY <1>1, <1>4 DEF Charge, At, InPayment, PaymentSteps
  <2>2. attempt' = attempt
    BY <1>4 DEF Charge
  <2>3. \/ captured' = captured /\ offline' = offline
        \/ captured' = captured \cup {a} /\ offline' = offline
        \/ captured' = captured /\ offline' = offline \cup {a}
    BY <1>4 DEF Charge
  <2>4. CASE captured' = captured /\ offline' = offline
    BY <2>2, <2>4, PromiseKept
  <2>5. CASE captured' = captured \cup {a} /\ offline' = offline
    <3>1. Promise!Capture(a)
      BY <2>1, <2>2, <2>5 DEF Promise!Capture
    <3> QED
      BY <2>1, <3>1 DEF Promise!Next
  <2>6. CASE captured' = captured /\ offline' = offline \cup {a}
    <3>1. Promise!RecordOffline(a)
      BY <2>1, <2>2, <2>6 DEF Promise!RecordOffline
    <3> QED
      BY <2>1, <3>1 DEF Promise!Next
  <2> QED
    BY <2>3, <2>4, <2>5, <2>6
<1>5. CASE RejectOrder(r) \/ RejectBill(r)
  <2>1. PICK b \in Attempts : b = a /\ attempt[b].status = "PENDING"
    BY <1>1, <1>5 DEF RejectOrder, RejectBill, At, InPayment, PaymentSteps
  <2>2. attempt' = Failed(b) /\ captured' = captured /\ offline' = offline
    BY <1>5, <2>1 DEF RejectOrder, RejectBill
  <2>3. Promise!Fail(b)
    BY <2>1, <2>2, PromiseFailed
  <2> QED
    BY <2>3 DEF Promise!Next
<1>6. CASE OrderTxCommit(r) \/ BillTxCommit(r)
  <2>1. PICK b \in Attempts :
           b = a /\ attempt[b].status = "PENDING" /\ b \in captured \cup offline
    BY <1>1, <1>6 DEF OrderTxCommit, BillTxCommit, At, InPayment, PaymentSteps, Inv,
                      RequestInv
  <2>2. attempt' = Succeeded(b) /\ captured' = captured /\ offline' = offline
    BY <1>6, <2>1 DEF OrderTxCommit, BillTxCommit
  <2>3. Promise!Succeed(b)
    BY <2>1, <2>2, PromiseSucceeded
  <2> QED
    BY <2>3 DEF Promise!Next
<1>7. CASE OrderTxRead(r) \/ BillTxRead(r)
  BY <1>7, PromiseKept DEF OrderTxRead, BillTxRead
<1> QED
  BY <1>2, <1>3, <1>4, <1>5, <1>6, <1>7 DEF PaymentStep

LEMMA PromiseStep == Inv /\ [Next]_vars => [Promise!Next]_(Promise!vars)
<1> SUFFICES ASSUME Inv, [Next]_vars
             PROVE  Promise!Next \/ UNCHANGED Promise!vars
  OBVIOUS
<1>1. ASSUME NEW r \in Requests, SessionStep(r) \/ OrderStep(r) \/ Drop(r)
      PROVE  attempt' = attempt /\ captured' = captured /\ offline' = offline
  BY <1>1 DEF SessionStep, OpenRead, OpenCommit, CloseRead, CloseCommit, AbandonRead,
              AbandonCommit, Leave, OrderStep, QrOrderRead, QrOrderOnSession,
              QrOrderOnNewSession, WaiterRead, WaiterCommit, CancelRead,
              CancelPreCommit, CancelTxRead, CancelTxCommit, Drop
<1>2. CASE UNCHANGED vars
  BY <1>2, PromiseKept DEF vars
<1> QED
  BY <1>1, <1>2, PromiseKept, PromisePayment DEF Next

\* The concurrent handlers keep the payments module's promise: an attempt is
\* resolved at most once, and succeeds, with its one Payment, only when a gateway
\* captured its amount or it was recorded on the restaurant's word.
THEOREM ImplementsPromise == Spec => AttemptPromise
<1>1. Init => Promise!Init
  BY PromiseInit
<1>2. Inv /\ [Next]_vars => [Promise!Next]_(Promise!vars)
  BY PromiseStep
<1> QED
  BY <1>1, <1>2, Invariance, PTL DEF Spec, AttemptPromise, Promise!Spec

-----------------------------------------------------------------------------
(* The books: a second invariant, on top of Inv                            *)

AttemptsOn(s) == {a \in Attempts : attempt[a].session = s}
AmountOf == [a \in Attempts |-> attempt[a].payments * attempt[a].amount]
UsedAttempts == {a \in Attempts : attempt[a].status # "NONE"}
CancelSteps == {"cancelPre", "cancelProd", "cancelTx"}

\* A session something refers to was created.
Used(s) == s \in Sessions => session[s] # "NONE"

Balanced(s) ==
    /\ bill[s].total = bill[s].subtotal + bill[s].tip
    /\ bill[s].subtotal = Price * Cardinality(ItemsOn(s))
    /\ Paid(bill[s]) = RecordedOn(s)
    /\ bill[s].remaining >= 0

SessionBooks(s) ==
    /\ s \notin overwritten =>
          /\ Balanced(s)
          /\ s \in ActiveSessions =>
                /\ StatusTells(bill[s])
                /\ session[s] = "PAYMENT_COMPLETED" => bill[s].remaining = 0
    /\ session[s] = "NONE" => bill[s] = EmptyBill

AttemptBooks(a) ==
    /\ Used(attempt[a].session)
    /\ attempt[a].status = "NONE" => attempt[a].session = NoSession
    /\ attempt[a].status # "NONE" => attempt[a].amount > attempt[a].tip

\* What a request that awaits may rely on.  The transaction of a void read the
\* bill and the items it keeps together: what it is to write is right as long as
\* the bill it read is.
RequestBooks(r) ==
    /\ Used(req[r].session)
    /\ InPayment(r) => attempt[req[r].attempt].session = req[r].session
    /\ (InPayment(r) \/ req[r].step \in CancelSteps) /\ req[r].order \in Orders =>
          order[req[r].order].session = req[r].session
    /\ At(r, "cancelTx") /\ req[r].session \notin overwritten =>
          req[r].subtotal =
             req[r].seen.subtotal - Price * Cardinality(ItemsOf(req[r].order))

\* The row locks let one transaction at a time void the items of an order.
OneVoid ==
    \A r, q \in Requests :
        At(r, "cancelTx") /\ At(q, "cancelTx") /\ req[r].order = req[q].order => r = q

Books ==
    /\ \A s \in Sessions : SessionBooks(s)
    /\ \A o \in Orders : Used(order[o].session)
    /\ \A a \in Attempts : AttemptBooks(a)
    /\ \A r \in Requests : RequestBooks(r)
    /\ OneVoid
    /\ IsFiniteSet(UsedAttempts)

\* What is recorded on a session is a sum over finitely many attempts.
LEMMA RecordedType ==
    ASSUME TypeInv, \A a \in Attempts : AttemptBooks(a), IsFiniteSet(UsedAttempts),
           NEW s \in Sessions
    PROVE  /\ RecordedOn(s) = SumFunctionOnSet(AmountOf, AttemptsOn(s))
           /\ IsFiniteSet(AttemptsOn(s))
           /\ \A a \in Attempts : AmountOf[a] \in Nat
           /\ RecordedOn(s) \in Nat
<1>1. RecordedOn(s) = SumFunctionOnSet(AmountOf, AttemptsOn(s))
  BY DEF RecordedOn, AmountOf, AttemptsOn
<1>2. IsFiniteSet(AttemptsOn(s))
  <2>1. AttemptsOn(s) \subseteq UsedAttempts
    BY DEF AttemptsOn, UsedAttempts, AttemptBooks
  <2> QED
    BY <2>1, FS_Subset
<1>3. \A a \in Attempts : AmountOf[a] \in Nat
  <2>1. \A a \in Attempts : attempt[a].payments \in Nat /\ attempt[a].amount \in Nat
    BY AttemptType
  <2> QED
    BY <2>1 DEF AmountOf
<1>4. SumFunctionOnSet(AmountOf, AttemptsOn(s)) \in Nat
  <2>1. \A a \in AttemptsOn(s) : AmountOf[a] \in Nat
    BY <1>3 DEF AttemptsOn
  <2> QED
    BY <1>2, <2>1, SumNat
<1> QED
  BY <1>1, <1>2, <1>3, <1>4

\* A step that writes one attempt, without moving it to another session, changes
\* what is recorded on its session by the difference of what it recorded.
LEMMA RecordedChange ==
    ASSUME TypeInv, \A a \in Attempts : AttemptBooks(a), IsFiniteSet(UsedAttempts),
           NEW s \in Sessions, NEW a \in Attempts,
           attempt' \in [Attempts -> AttemptRecords],
           \A b \in Attempts : b # a => attempt'[b] = attempt[b],
           \/ attempt[a].session = attempt'[a].session
           \/ attempt[a].session = NoSession /\ attempt[a].payments = 0
    PROVE  RecordedOn(s)' =
              IF attempt'[a].session = s
              THEN RecordedOn(s) + (attempt'[a].payments * attempt'[a].amount
                                    - attempt[a].payments * attempt[a].amount)
              ELSE RecordedOn(s)
<1> DEFINE f == AmountOf
           g == [b \in Attempts |-> attempt'[b].payments * attempt'[b].amount]
           S == AttemptsOn(s)
           T == {b \in Attempts : attempt'[b].session = s}
<1>1. /\ RecordedOn(s) = SumFunctionOnSet(f, S)
      /\ IsFiniteSet(S)
      /\ \A b \in Attempts : f[b] \in Nat
      /\ RecordedOn(s) \in Nat
  BY RecordedType
<1>2. RecordedOn(s)' = SumFunctionOnSet(g, T)
  BY DEF RecordedOn
<1>3. \A b \in Attempts : b # a => g[b] = f[b]
  BY DEF AmountOf
<1>4. /\ f[a] = attempt[a].payments * attempt[a].amount
      /\ g[a] = attempt'[a].payments * attempt'[a].amount
      /\ f[a] \in Nat /\ g[a] \in Nat
  <2>1. \A b \in Attempts : attempt'[b].payments \in Nat /\ attempt'[b].amount \in Nat
    BY DEF AttemptRecords
  <2> QED
    BY <1>1, <2>1 DEF AmountOf
<1>5. /\ S \subseteq Attempts /\ T \subseteq Attempts
      /\ \A b \in Attempts : b # a => (b \in S <=> b \in T)
      /\ a \in S <=> attempt[a].session = s
      /\ a \in T <=> attempt'[a].session = s
  BY DEF AttemptsOn
<1> HIDE DEF f, g, S, T
<1>6. CASE attempt'[a].session # s
  <2>1. a \notin S /\ a \notin T
    BY <1>5, <1>6
  <2>2. S = T
    BY <1>5, <2>1
  <2>3. SumFunctionOnSet(f, S) = SumFunctionOnSet(g, S)
    <3>1. \A b \in S : f[b] = g[b]
      BY <1>3, <1>5, <2>1
    <3> QED
      BY <1>1, <3>1, SumSame
  <2>4. SumFunctionOnSet(g, S) = SumFunctionOnSet(g, T)
    BY <2>2, Zenon
  <2> QED
    BY <1>1, <1>2, <1>6, <2>3, <2>4
<1>7. CASE attempt'[a].session = s /\ attempt[a].session = s
  <2>1. S = T /\ a \in S
    BY <1>5, <1>7
  <2>2. SumFunctionOnSet(g, S) = SumFunctionOnSet(f, S) - f[a] + g[a]
    <3>1. (\A b \in S : f[b] \in Int) /\ (\A b \in S \ {a} : g[b] = f[b]) /\ g[a] \in Int
      BY <1>1, <1>3, <1>4, <1>5
    <3> QED
      BY <1>1, <2>1, <3>1, SumUpdate
  <2>3. SumFunctionOnSet(g, S) = SumFunctionOnSet(g, T)
    BY <2>1, Zenon
  <2>4. RecordedOn(s)' = RecordedOn(s) - f[a] + g[a]
    BY <1>1, <1>2, <2>2, <2>3
  <2> QED
    BY <1>1, <1>4, <1>7, <2>4
<1>8. CASE attempt'[a].session = s /\ attempt[a].session # s
  <2>1. T = S \cup {a} /\ a \notin S
    BY <1>5, <1>8
  <2>2. SumFunctionOnSet(g, S \cup {a}) = SumFunctionOnSet(g, S) + g[a]
    <3>1. \A b \in S \cup {a} : g[b] \in Int
      BY <1>1, <1>3, <1>4, <1>5
    <3>2. IsFiniteSet(S) /\ a \notin S
      BY <1>1, <2>1
    <3> QED
      BY <3>1, <3>2, SumAdd
  <2>3. SumFunctionOnSet(f, S) = SumFunctionOnSet(g, S)
    <3>1. \A b \in S : f[b] = g[b]
      BY <1>3, <1>5, <2>1
    <3> QED
      BY <1>1, <3>1, SumSame
  <2>4. SumFunctionOnSet(g, S \cup {a}) = SumFunctionOnSet(g, T)
    BY <2>1, Zenon
  <2>5. RecordedOn(s)' = RecordedOn(s) + g[a]
    BY <1>1, <1>2, <2>2, <2>3, <2>4
  <2>6. f[a] = 0
    <3>1. attempt[a].payments = 0 /\ attempt[a].amount \in Nat
      BY <1>8, AttemptType
    <3> QED
      BY <1>4, <3>1
  <2> QED
    BY <1>1, <1>4, <1>8, <2>5, <2>6
<1> QED
  BY <1>6, <1>7, <1>8

LEMMA InitBooks == Init => Books
<1> SUFFICES ASSUME Init PROVE Books
  OBVIOUS
<1>1. TypeInv
  BY InitType
<1>2. ASSUME NEW a \in Attempts PROVE AttemptBooks(a)
  BY DEF Init, UnusedAttempt, AttemptBooks, Used
<1>3. UsedAttempts = {} /\ IsFiniteSet(UsedAttempts)
  <2>1. UsedAttempts = {}
    BY DEF Init, UnusedAttempt, UsedAttempts
  <2> QED
    BY <2>1, FS_EmptySet
<1>4. ASSUME NEW s \in Sessions PROVE SessionBooks(s)
  <2>1. bill[s] = EmptyBill /\ session[s] = "NONE"
    BY DEF Init
  <2>2. Cardinality(ItemsOn(s)) = 0
    <3>1. ItemsOn(s) = {}
      BY DEF Init, ItemsOn
    <3> QED
      BY <3>1, FS_EmptySet
  <2>3. RecordedOn(s) = 0
    <3>1. AttemptsOn(s) = {}
      BY DEF Init, UnusedAttempt, AttemptsOn
    <3>2. SumFunctionOnSet(AmountOf, AttemptsOn(s)) = 0
      BY <3>1, SumEmpty, Zenon
    <3> QED
      BY <1>1, <1>2, <1>3, <3>2, RecordedType
  <2>4. s \notin ActiveSessions
    BY <2>1 DEF ActiveSessions, ActiveTableSessionStatuses
  <2> QED
    BY <2>1, <2>2, <2>3, <2>4 DEF SessionBooks, Balanced, EmptyBill, Paid
<1>5. ASSUME NEW o \in Orders PROVE Used(order[o].session)
  BY DEF Init, UnusedOrder, Used
<1>6. ASSUME NEW r \in Requests PROVE RequestBooks(r) /\ ~At(r, "cancelTx")
  BY DEF Init, IdleRequest, RequestBooks, Used, InPayment, PaymentSteps, CancelSteps, At
<1> QED
  BY <1>2, <1>3, <1>4, <1>5, <1>6 DEF Books, OneVoid

\* Only orders that exist have items.
LEMMA ItemsOrdered ==
    ASSUME Inv, NEW i \in items
    PROVE  /\ i = <<i[1], i[2]>>
           /\ i[1] \in Orders
           /\ order[i[1]].status # "NONE"
<1>1. i \in Orders \X (Attempts \cup {NoAttempt})
  BY DEF Inv, TypeInv, TypeOK
<1>2. i = <<i[1], i[2]>> /\ i[1] \in Orders
  BY <1>1
<1>3. i \in ItemsOf(i[1])
  BY DEF ItemsOf
<1> QED
  BY <1>2, <1>3 DEF Inv, OrderInv

LEMMA ItemsFinite ==
    ASSUME TypeInv, NEW s, NEW o
    PROVE  /\ IsFiniteSet(ItemsOn(s))
           /\ IsFiniteSet(ItemsOf(o))
           /\ Cardinality(ItemsOn(s)) \in Nat
           /\ Cardinality(ItemsOf(o)) \in Nat
<1>1. ItemsOn(s) \subseteq items /\ ItemsOf(o) \subseteq items
  BY DEF ItemsOn, ItemsOf
<1> QED
  BY <1>1, FS_Subset, FS_CardinalityType DEF TypeInv

\* Requests that exist are not moved to other sessions by what others do.
LEMMA OthersKeepBooks ==
    ASSUME Inv, NEW q \in Requests, RequestBooks(q), req'[q] = req[q],
           overwritten \subseteq overwritten',
           \A s \in Sessions : session[s] # "NONE" => session'[s] # "NONE",
           InPayment(q) => attempt'[req[q].attempt].session
                              = attempt[req[q].attempt].session,
           \A o \in Orders : order[o].status # "NONE" =>
               order'[o].session = order[o].session,
           At(q, "cancelTx") =>
               \A i : i[1] = req[q].order => (i \in items' <=> i \in items)
    PROVE  RequestBooks(q)'
<1>1. /\ Used(req[q].session)'
      /\ InPayment(q)' <=> InPayment(q)
      /\ At(q, "cancelTx")' <=> At(q, "cancelTx")
  BY DEF RequestBooks, Used, InPayment, At
<1>2. (InPayment(q) \/ req[q].step \in CancelSteps) /\ req[q].order \in Orders =>
         order[req[q].order].status # "NONE"
  BY DEF Inv, RequestInv, AttemptInv, AttemptKnown, InPayment, PaymentSteps, CancelSteps
<1>3. (InPayment(q) \/ req[q].step \in CancelSteps) /\ req[q].order \in Orders =>
         order'[req[q].order].session = req[q].session
  BY <1>2 DEF RequestBooks
<1>4. At(q, "cancelTx") => ItemsOf(req[q].order)' = ItemsOf(req[q].order)
  BY DEF ItemsOf
<1>5. InPayment(q) => attempt'[req[q].attempt].session = req[q].session
  BY DEF RequestBooks
<1>6. At(q, "cancelTx") /\ req[q].session \notin overwritten' =>
         req[q].subtotal =
            req[q].seen.subtotal - Price * Cardinality(ItemsOf(req[q].order))'
  <2>1. CASE At(q, "cancelTx")
    <3>1. Cardinality(ItemsOf(req[q].order))' = Cardinality(ItemsOf(req[q].order))
      BY <1>4, <2>1, Zenon
    <3> QED
      BY <2>1, <3>1 DEF RequestBooks
  <2> QED
    BY <2>1
<1> QED
  BY <1>1, <1>3, <1>5, <1>6 DEF RequestBooks

\* A request that ends keeps nothing; the others keep what they rely on.
LEMMA EndKeepsBooks ==
    ASSUME Inv, Books, NEW r \in Requests, End(r),
           overwritten \subseteq overwritten',
           \A s \in Sessions : session[s] # "NONE" => session'[s] # "NONE",
           \A a \in Attempts : attempt[a].status # "NONE" =>
               attempt'[a].session = attempt[a].session,
           \A o \in Orders : order[o].status # "NONE" =>
               order'[o].session = order[o].session,
           \A q \in Requests : q # r /\ At(q, "cancelTx") =>
               \A i : i[1] = req[q].order => (i \in items' <=> i \in items)
    PROVE  OneVoid' /\ \A q \in Requests : RequestBooks(q)'
<1>1. /\ req'[r] = IdleRequest
      /\ \A q \in Requests : q # r => req'[q] = req[q]
  BY DEF End, Inv, TypeInv, TypeOK
<1>2. RequestBooks(r)' /\ ~At(r, "cancelTx")'
  BY <1>1 DEF IdleRequest, RequestBooks, Used, InPayment, PaymentSteps, CancelSteps, At
<1>3. ASSUME NEW q \in Requests, q # r PROVE RequestBooks(q)'
  <2>1. req'[q] = req[q] /\ RequestBooks(q)
    BY <1>1, <1>3 DEF Books
  <2>2. InPayment(q) => attempt'[req[q].attempt].session = attempt[req[q].attempt].session
    BY DEF Inv, RequestInv, AttemptKnown, InPayment, PaymentSteps
  <2> QED
    BY <1>3, <2>1, <2>2, OthersKeepBooks
<1>4. OneVoid'
  BY <1>1, <1>2 DEF OneVoid, At, Books
<1> QED
  BY <1>2, <1>3, <1>4

\* The books of a session nothing was written for.
LEMMA SessionUntouched ==
    ASSUME NEW s \in Sessions, SessionBooks(s),
           bill'[s] = bill[s], session'[s] = session[s],
           overwritten \subseteq overwritten',
           ItemsOn(s)' = ItemsOn(s), RecordedOn(s)' = RecordedOn(s)
    PROVE  SessionBooks(s)'
<1>1. Cardinality(ItemsOn(s))' = Cardinality(ItemsOn(s))
  BY Zenon
<1>2. s \in ActiveSessions' <=> s \in ActiveSessions
  BY DEF ActiveSessions
<1> QED
  BY <1>1, <1>2 DEF SessionBooks, Balanced, StatusTells, Paid

\* A step that ends no session, writes no bill and no amount of an attempt.
LEMMA BooksKept ==
    ASSUME Inv, Books,
           \A s \in Sessions : bill'[s] = bill[s] /\ session'[s] = session[s],
           overwritten' = overwritten, items' = items,
           \A o \in Orders : order'[o].session = order[o].session,
           attempt' = attempt
    PROVE  /\ \A s \in Sessions : SessionBooks(s)'
           /\ \A o \in Orders : Used(order[o].session)'
           /\ \A a \in Attempts : AttemptBooks(a)'
           /\ IsFiniteSet(UsedAttempts)'
<1>1. \A x : Used(x)' <=> Used(x)
  BY DEF Used
<1>2. ASSUME NEW s \in Sessions PROVE SessionBooks(s)'
  <2>1. ItemsOn(s)' = ItemsOn(s)
    BY ItemsOrdered DEF ItemsOn
  <2>2. RecordedOn(s)' = RecordedOn(s)
    BY DEF RecordedOn
  <2>3. SessionBooks(s)
    BY DEF Books
  <2> QED
    BY <2>1, <2>2, <2>3, SessionUntouched
<1>3. ASSUME NEW o \in Orders PROVE Used(order[o].session)'
  BY DEF Books, Used
<1>4. ASSUME NEW a \in Attempts PROVE AttemptBooks(a)'
  BY DEF Books, AttemptBooks, Used
<1>5. UsedAttempts' = UsedAttempts
  BY DEF UsedAttempts
<1>6. IsFiniteSet(UsedAttempts)'
  BY <1>5, Zenon DEF Books
<1> QED
  BY <1>2, <1>3, <1>4, <1>6

\* The steps that only read.
LEMMA ReadKeepsBooks ==
    ASSUME Inv, Books, NEW r \in Requests,
           \A q \in Requests : q # r => req'[q] = req[q],
           session' = session, bill' = bill, order' = order, items' = items,
           attempt' = attempt, overwritten' = overwritten,
           RequestBooks(r)',
           At(r, "cancelTx")' =>
              \A q \in Requests : q # r =>
                 ~(At(q, "cancelTx") /\ req[q].order = req'[r].order)
    PROVE  Books'
<1>1. /\ \A s \in Sessions : SessionBooks(s)'
      /\ \A o \in Orders : Used(order[o].session)'
      /\ \A a \in Attempts : AttemptBooks(a)'
      /\ IsFiniteSet(UsedAttempts)'
  BY BooksKept
<1>2. ASSUME NEW q \in Requests, q # r PROVE RequestBooks(q)'
  BY <1>2, OthersKeepBooks DEF Books
<1>3. OneVoid'
  BY DEF OneVoid, At, Books
<1> QED
  BY <1>1, <1>2, <1>3 DEF Books

LEMMA OpenReadBooks ==
    ASSUME Inv, Books, NEW r \in Requests, OpenRead(r)
    PROVE  Books'
<1>1. req' = [req EXCEPT ![r].step = "opening"]
  BY DEF OpenRead, Goto
<1>2. /\ req'[r].step = "opening"
      /\ req'[r].session = req[r].session
      /\ \A q \in Requests : q # r => req'[q] = req[q]
  BY <1>1 DEF RequestRecords, Inv, TypeInv, TypeOK
<1>3. Used(req[r].session)
  BY DEF Books, RequestBooks
<1>4. RequestBooks(r)' /\ ~At(r, "cancelTx")'
  BY <1>2, <1>3
     DEF OpenRead, RequestBooks, Used, InPayment, PaymentSteps, CancelSteps, At
<1> QED
  BY <1>2, <1>4, ReadKeepsBooks DEF OpenRead

\* A request that found the session it will work on.
LEMMA FoundSessionBooks ==
    ASSUME Inv, Books, NEW r \in Requests, NEW s, Used(s), NEW x,
           req' = [req EXCEPT ![r] = x],
           x.step \in {"qrOrder", "waiterOrder", "closing", "abandoning"}, x.session = s,
           session' = session, bill' = bill, order' = order, items' = items,
           attempt' = attempt, overwritten' = overwritten
    PROVE  Books'
<1>1. /\ req'[r] = x
      /\ \A q \in Requests : q # r => req'[q] = req[q]
  BY DEF Inv, TypeInv, TypeOK
<1>2. RequestBooks(r)' /\ ~At(r, "cancelTx")'
  BY <1>1 DEF RequestBooks, Used, InPayment, PaymentSteps, CancelSteps, At
<1> QED
  BY <1>1, <1>2, ReadKeepsBooks

LEMMA QrOrderReadBooks ==
    ASSUME Inv, Books, NEW r \in Requests, QrOrderRead(r)
    PROVE  Books'
<1> DEFINE known == IF ActiveSessions = {} THEN {NoSession} ELSE ActiveSessions
           x(s)  == [IdleRequest EXCEPT !.step = "qrOrder", !.session = s]
<1>1. \E s \in known : req' = [req EXCEPT ![r] = x(s)]
  BY Zenon DEF QrOrderRead
<1>2. \A s : x(s).step = "qrOrder" /\ x(s).session = s
  BY DEF IdleRequest
<1>3. \A s \in known : Used(s)
  BY DEF Used, ActiveSessions, ActiveTableSessionStatuses
<1> HIDE DEF x, known
<1>4. PICK s \in known : req' = [req EXCEPT ![r] = x(s)]
  BY <1>1
<1> QED
  BY <1>2, <1>3, <1>4, FoundSessionBooks DEF QrOrderRead

LEMMA WaiterReadBooks ==
    ASSUME Inv, Books, NEW r \in Requests, NEW s \in Sessions, WaiterRead(r, s)
    PROVE  Books'
<1> DEFINE x == [IdleRequest EXCEPT !.step = "waiterOrder", !.session = s,
                                    !.seen = bill[s]]
<1>1. x.step = "waiterOrder" /\ x.session = s
  BY DEF IdleRequest
<1>2. req' = [req EXCEPT ![r] = x]
  BY DEF WaiterRead
<1>3. Used(s)
  BY DEF WaiterRead, Used, ActiveSessions, ActiveTableSessionStatuses
<1> HIDE DEF x
<1> QED
  BY <1>1, <1>2, <1>3, FoundSessionBooks DEF WaiterRead

LEMMA CloseReadBooks ==
    ASSUME Inv, Books, NEW r \in Requests, NEW s \in Sessions, CloseRead(r, s)
    PROVE  Books'
<1> DEFINE x == [IdleRequest EXCEPT !.step = "closing", !.session = s,
                                    !.seen = bill[s]]
<1>1. x.step = "closing" /\ x.session = s
  BY DEF IdleRequest
<1>2. req' = [req EXCEPT ![r] = x]
  BY DEF CloseRead
<1>3. Used(s)
  BY DEF CloseRead, Used, ActiveSessions, ActiveTableSessionStatuses
<1> HIDE DEF x
<1> QED
  BY <1>1, <1>2, <1>3, FoundSessionBooks DEF CloseRead

LEMMA AbandonReadBooks ==
    ASSUME Inv, Books, NEW r \in Requests, NEW s \in Sessions, AbandonRead(r, s)
    PROVE  Books'
<1> DEFINE x == [IdleRequest EXCEPT !.step = "abandoning", !.session = s]
<1>1. x.step = "abandoning" /\ x.session = s
  BY DEF IdleRequest
<1>2. req' = [req EXCEPT ![r] = x]
  BY DEF AbandonRead
<1>3. Used(s)
  BY DEF AbandonRead, Used, ActiveSessions, ActiveTableSessionStatuses
<1> HIDE DEF x
<1> QED
  BY <1>1, <1>2, <1>3, FoundSessionBooks DEF AbandonRead

LEMMA CancelReadBooks ==
    ASSUME Inv, Books, NEW r \in Requests, NEW o \in Orders, CancelRead(r, o)
    PROVE  Books'
<1>1. PICK step \in {"cancelPre", "cancelProd"} :
         req' = [req EXCEPT ![r] = [IdleRequest EXCEPT !.step = step,
                                      !.order = o, !.session = order[o].session]]
  BY DEF CancelRead
<1>2. /\ req'[r].step = step
      /\ req'[r].order = o
      /\ req'[r].session = order[o].session
      /\ \A q \in Requests : q # r => req'[q] = req[q]
  BY <1>1 DEF IdleRequest, Inv, TypeInv, TypeOK
<1>3. /\ session' = session /\ bill' = bill /\ order' = order /\ items' = items
      /\ attempt' = attempt /\ overwritten' = overwritten
  BY DEF CancelRead
<1>4. Used(order[o].session)
  BY DEF Books
<1>5. RequestBooks(r)' /\ ~At(r, "cancelTx")'
  BY <1>2, <1>3, <1>4 DEF RequestBooks, Used, InPayment, PaymentSteps, CancelSteps, At
<1> QED
  BY <1>2, <1>3, <1>5, ReadKeepsBooks

\* The transaction of a void reads the bill and the items it keeps at once.
LEMMA CancelTxReadBooks ==
    ASSUME Inv, Books, NEW r \in Requests, CancelTxRead(r)
    PROVE  Books'
<1>0. /\ session' = session /\ bill' = bill /\ order' = order /\ items' = items
      /\ attempt' = attempt /\ overwritten' = overwritten
      /\ \A q \in Requests : q # r => req'[q] = req[q]
  BY DEF CancelTxRead, Inv, TypeInv, TypeOK
<1> DEFINE s == req[r].session
           o == req[r].order
           n == Price * Cardinality(ItemsOn(s) \ ItemsOf(o))
<1>1. /\ req[r].step = "cancelProd"
      /\ \A q \in Requests : ~(At(q, "cancelTx") /\ req[q].order = o)
      /\ req' = [req EXCEPT ![r].step = "cancelTx", ![r].seen = bill[s],
                            ![r].subtotal = n]
  BY DEF CancelTxRead, At
<1>2. s \in Sessions /\ o \in Orders
  BY <1>1 DEF Inv, RequestInv, SessionKnown
<1>3. /\ req'[r].step = "cancelTx"
      /\ req'[r].seen = bill[s]
      /\ req'[r].subtotal = n
      /\ req'[r].order = o
      /\ req'[r].session = s
  <2> HIDE DEF n
  <2> QED
    BY <1>1 DEF RequestRecords, Inv, TypeInv, TypeOK
<1>4. /\ Used(s)
      /\ order[o].session = s
  BY <1>1, <1>2 DEF Books, RequestBooks, CancelSteps
<1>5. ASSUME s \notin overwritten
      PROVE  n = bill[s].subtotal - Price * Cardinality(ItemsOf(o))
  <2>1. bill[s].subtotal = Price * Cardinality(ItemsOn(s))
    BY <1>2, <1>5 DEF Books, SessionBooks, Balanced
  <2>2. ItemsOf(o) \subseteq ItemsOn(s)
    BY <1>4 DEF ItemsOf, ItemsOn
  <2>3. Cardinality(ItemsOn(s) \ ItemsOf(o))
           = Cardinality(ItemsOn(s)) - Cardinality(ItemsOf(o))
    <3>1. ItemsOn(s) \cap ItemsOf(o) = ItemsOf(o)
      BY <2>2
    <3>2. IsFiniteSet(ItemsOn(s))
      BY ItemsFinite DEF Inv
    <3>3. Cardinality(ItemsOn(s) \ ItemsOf(o))
             = Cardinality(ItemsOn(s)) - Cardinality(ItemsOn(s) \cap ItemsOf(o))
      BY <3>2, FS_Difference
    <3> QED
      BY <3>1, <3>3, Zenon
  <2>4. Cardinality(ItemsOn(s)) \in Nat /\ Cardinality(ItemsOf(o)) \in Nat
    BY ItemsFinite DEF Inv
  <2> QED
    BY <2>1, <2>3, <2>4
<1>6. RequestBooks(r)'
  <2>1. Cardinality(ItemsOf(o)') = Cardinality(ItemsOf(o))
    BY <1>0, <1>3, Zenon DEF ItemsOf
  <2>2. /\ Used(req[r].session)'
        /\ ~InPayment(r)'
        /\ order'[o].session = s
    BY <1>0, <1>3, <1>4 DEF Used, InPayment, PaymentSteps
  <2> HIDE DEF n
  <2> QED
    BY <1>0, <1>3, <1>5, <2>1, <2>2 DEF RequestBooks
<1> QED
  BY <1>0, <1>1, <1>3, <1>6, ReadKeepsBooks

LEMMA PaymentReadBooks ==
    ASSUME Inv, Books, NEW r \in Requests,
           Charge(r) \/ OrderTxRead(r) \/ BillTxRead(r)
    PROVE  Books'
<1>1. /\ session' = session /\ bill' = bill /\ order' = order /\ items' = items
      /\ attempt' = attempt /\ overwritten' = overwritten
      /\ \A q \in Requests : q # r => req'[q] = req[q]
      /\ req'[r].attempt = req[r].attempt
      /\ req'[r].order = req[r].order
      /\ req'[r].session = req[r].session
  BY DEF Charge, Goto, OrderTxRead, BillTxRead, RequestRecords, Inv, TypeInv, TypeOK
<1>2. InPayment(r)
  BY DEF Charge, OrderTxRead, BillTxRead, At, InPayment, PaymentSteps
<1>3. req'[r].step \in {"approved", "rejected", "orderTx", "billTx"}
  <2>1. CASE Charge(r)
    <3>1. PICK answer \in Answers(req[r].online) : Goto(r, answer[1])
      BY <2>1 DEF Charge
    <3>2. answer[1] \in {"approved", "rejected"}
      BY AnswersKnown, RequestType DEF Inv
    <3> QED
      BY <3>1, <3>2 DEF Goto, RequestRecords, Inv, TypeInv, TypeOK
  <2>2. CASE OrderTxRead(r) \/ BillTxRead(r)
    BY <2>2 DEF OrderTxRead, BillTxRead, RequestRecords, Inv, TypeInv, TypeOK
  <2> QED
    BY <2>1, <2>2
<1>4. ~At(r, "cancelTx")'
  BY <1>3 DEF At
<1>5. RequestBooks(r)
  BY DEF Books
<1>6. RequestBooks(r)'
  BY <1>1, <1>2, <1>4, <1>5 DEF RequestBooks, Used, InPayment
<1> QED
  BY <1>1, <1>4, <1>6, ReadKeepsBooks

\* What a step that writes no attempt leaves of the attempts' books.
LEMMA AttemptsKeepBooks ==
    ASSUME Inv, Books, attempt' = attempt,
           \A s \in Sessions : session[s] # "NONE" => session'[s] # "NONE"
    PROVE  /\ \A a \in Attempts : AttemptBooks(a)'
           /\ IsFiniteSet(UsedAttempts)'
<1>1. ASSUME NEW a \in Attempts PROVE AttemptBooks(a)'
  BY DEF Books, AttemptBooks, Used
<1>2. UsedAttempts' = UsedAttempts
  BY DEF UsedAttempts
<1>3. IsFiniteSet(UsedAttempts)'
  BY <1>2, Zenon DEF Books
<1> QED
  BY <1>1, <1>3

\* A session that closes keeps its amounts, and its status is no longer looked at.
LEMMA LeaveBooks ==
    ASSUME Inv, Books, NEW r \in Requests, req[r].session \in Sessions,
           NEW status \in {"CLOSED", "ABANDONED"}, NEW billStatus,
           Leave(r, status, billStatus)
    PROVE  Books'
<1>1. PICK s \in Sessions : s = req[r].session
  OBVIOUS
<1>2. /\ session' = [session EXCEPT ![s] = status]
      /\ bill' = [bill EXCEPT ![s].status = billStatus]
      /\ order' = order /\ items' = items /\ attempt' = attempt
      /\ overwritten' = overwritten
      /\ End(r)
  BY <1>1 DEF Leave
<1>3. /\ session'[s] = status
      /\ \A t \in Sessions : t # s => session'[t] = session[t] /\ bill'[t] = bill[t]
      /\ bill'[s].subtotal = bill[s].subtotal
      /\ bill'[s].tip = bill[s].tip
      /\ bill'[s].total = bill[s].total
      /\ bill'[s].remaining = bill[s].remaining
  BY <1>2 DEF Bills, Inv, TypeInv, TypeOK
<1>4. \A t \in Sessions : session[t] # "NONE" => session'[t] # "NONE"
  BY <1>3
<1>5. ASSUME NEW t \in Sessions PROVE SessionBooks(t)'
  <2>1. ItemsOn(t)' = ItemsOn(t) /\ RecordedOn(t)' = RecordedOn(t)
    BY <1>2 DEF ItemsOn, RecordedOn
  <2>2. SessionBooks(t)
    BY DEF Books
  <2>3. CASE t # s
    BY <1>2, <1>3, <2>1, <2>2, <2>3, SessionUntouched
  <2>4. CASE t = s
    <3>1. s \notin ActiveSessions'
      BY <1>3 DEF ActiveSessions, ActiveTableSessionStatuses
    <3>2. Cardinality(ItemsOn(s))' = Cardinality(ItemsOn(s))
      BY <2>1, <2>4, Zenon
    <3> QED
      BY <1>2, <1>3, <2>1, <2>2, <2>4, <3>1, <3>2 DEF SessionBooks, Balanced, Paid
  <2> QED
    BY <2>3, <2>4
<1>6. ASSUME NEW o \in Orders PROVE Used(order[o].session)'
  BY <1>2, <1>4 DEF Books, Used
<1>7. /\ \A a \in Attempts : AttemptBooks(a)'
      /\ IsFiniteSet(UsedAttempts)'
  BY <1>2, <1>4, AttemptsKeepBooks
<1>8. OneVoid' /\ \A q \in Requests : RequestBooks(q)'
  BY <1>2, <1>4, EndKeepsBooks
<1> QED
  BY <1>5, <1>6, <1>7, <1>8 DEF Books

\* A session is created on a bill nobody has written.
LEMMA CreationBooks ==
    ASSUME Inv, Books, NEW s \in UnusedSessions, CreateSession(s), bill' = bill,
           overwritten' = overwritten, attempt' = attempt,
           NEW t \in Sessions, ItemsOn(t)' = ItemsOn(t)
    PROVE  /\ SessionBooks(t)'
           /\ \A u \in Sessions : session[u] # "NONE" => session'[u] # "NONE"
<1>1. /\ s \in Sessions
      /\ session[s] = "NONE"
      /\ session'[s] = "OPEN"
      /\ \A u \in Sessions : u # s => session'[u] = session[u]
  BY DEF UnusedSessions, CreateSession, Inv, TypeInv, TypeOK
<1>2. RecordedOn(t)' = RecordedOn(t)
  BY DEF RecordedOn
<1>3. SessionBooks(t)
  BY DEF Books
<1>4. CASE t # s
  BY <1>1, <1>2, <1>3, <1>4, SessionUntouched
<1>5. CASE t = s
  <2>1. bill[s] = EmptyBill
    BY <1>1 DEF Books, SessionBooks
  <2>2. s \notin overwritten => Balanced(s)
    BY <1>3, <1>5 DEF SessionBooks
  <2>3. Cardinality(ItemsOn(s))' = Cardinality(ItemsOn(s))
    BY <1>5, Zenon
  <2>4. StatusTells(EmptyBill)
    BY DEF StatusTells, EmptyBill, Paid
  <2> QED
    BY <1>1, <1>2, <1>5, <2>1, <2>2, <2>3, <2>4 DEF SessionBooks, Balanced
<1> QED
  BY <1>1, <1>4, <1>5

LEMMA OpenCommitBooks ==
    ASSUME Inv, Books, NEW r \in Requests, OpenCommit(r)
    PROVE  Books'
<1>1. PICK s \in UnusedSessions : CreateSession(s)
  BY DEF OpenCommit
<1>2. /\ bill' = bill /\ order' = order /\ items' = items /\ attempt' = attempt
      /\ overwritten' = overwritten
      /\ End(r)
  BY DEF OpenCommit
<1>3. \A u \in Sessions : session[u] # "NONE" => session'[u] # "NONE"
  BY <1>1 DEF CreateSession, UnusedSessions, Inv, TypeInv, TypeOK
<1>4. ASSUME NEW t \in Sessions PROVE SessionBooks(t)'
  <2>1. ItemsOn(t)' = ItemsOn(t)
    BY <1>2 DEF ItemsOn
  <2> QED
    BY <1>1, <1>2, <2>1, CreationBooks
<1>5. ASSUME NEW o \in Orders PROVE Used(order[o].session)'
  BY <1>2, <1>3 DEF Books, Used
<1>6. /\ \A a \in Attempts : AttemptBooks(a)'
      /\ IsFiniteSet(UsedAttempts)'
  BY <1>2, <1>3, AttemptsKeepBooks
<1>7. OneVoid' /\ \A q \in Requests : RequestBooks(q)'
  BY <1>2, <1>3, EndKeepsBooks
<1> QED
  BY <1>4, <1>5, <1>6, <1>7 DEF Books

\* A new order is on its session, and no item was on it before.
LEMMA NewOrderItems ==
    ASSUME Inv, NEW o \in UnusedOrders, NEW s \in Sessions,
           NEW source, NEW status, NEW tickets,
           NewOrder(o, s, source, status, tickets), NEW t \in Sessions
    PROVE  /\ order'[o].session = s
           /\ \A p \in Orders : p # o => order'[p] = order[p]
           /\ items' = items => ItemsOn(t)' = ItemsOn(t)
           /\ items' = items \cup {<<o, NoAttempt>>} =>
                 /\ t # s => ItemsOn(t)' = ItemsOn(t)
                 /\ t = s => /\ ItemsOn(t)' = ItemsOn(t) \cup {<<o, NoAttempt>>}
                             /\ <<o, NoAttempt>> \notin ItemsOn(t)
<1>1. o \in Orders /\ order[o].status = "NONE"
  BY DEF UnusedOrders
<1>2. /\ order'[o].session = s
      /\ \A p \in Orders : p # o => order'[p] = order[p]
  BY <1>1 DEF NewOrder, Inv, TypeInv, TypeOK
<1>3. \A i \in items : i[1] \in Orders /\ i[1] # o
  BY <1>1, ItemsOrdered
<1>4. items' = items => ItemsOn(t)' = ItemsOn(t)
  BY <1>2, <1>3 DEF ItemsOn
<1>5. ASSUME items' = items \cup {<<o, NoAttempt>>}
      PROVE  /\ t # s => ItemsOn(t)' = ItemsOn(t)
             /\ t = s => /\ ItemsOn(t)' = ItemsOn(t) \cup {<<o, NoAttempt>>}
                         /\ <<o, NoAttempt>> \notin ItemsOn(t)
  <2>1. ItemsOn(t)' = {i \in items \cup {<<o, NoAttempt>>} : order'[i[1]].session = t}
    BY <1>5 DEF ItemsOn
  <2>2. \A i \in items : order'[i[1]] = order[i[1]]
    BY <1>2, <1>3
  <2>3. <<o, NoAttempt>>[1] = o
    OBVIOUS
  <2>4. <<o, NoAttempt>> \notin items
    BY <1>3, <2>3
  <2> QED
    BY <1>2, <2>1, <2>2, <2>3, <2>4 DEF ItemsOn
<1> QED
  BY <1>2, <1>4, <1>5

LEMMA QrOrderOnSessionBooks ==
    ASSUME Inv, Books, NEW r \in Requests, NEW o \in Orders, QrOrderOnSession(r, o)
    PROVE  Books'
<1>1. /\ session' = session /\ bill' = bill /\ items' = items /\ attempt' = attempt
      /\ overwritten' = overwritten
      /\ End(r)
      /\ o \in UnusedOrders
  BY DEF QrOrderOnSession
<1>2. PICK s \in Sessions : s = req[r].session
  BY RequestType DEF QrOrderOnSession, Inv
<1>3. NewOrder(o, s, "QR", "AWAITING_PAYMENT", 0)
  BY <1>2 DEF QrOrderOnSession
<1>4. /\ order'[o].session = s
      /\ \A p \in Orders : p # o => order'[p] = order[p]
  BY <1>1, <1>3, NewOrderItems
<1>5. ASSUME NEW t \in Sessions PROVE SessionBooks(t)'
  <2>1. ItemsOn(t)' = ItemsOn(t)
    BY <1>1, <1>3, NewOrderItems
  <2>2. RecordedOn(t)' = RecordedOn(t)
    BY <1>1 DEF RecordedOn
  <2> QED
    BY <1>1, <2>1, <2>2, SessionUntouched DEF Books
<1>6. ASSUME NEW p \in Orders PROVE Used(order[p].session)'
  BY <1>1, <1>2, <1>4 DEF Books, RequestBooks, Used
<1>7. /\ \A a \in Attempts : AttemptBooks(a)'
      /\ IsFiniteSet(UsedAttempts)'
  BY <1>1, AttemptsKeepBooks
<1>8. OneVoid' /\ \A q \in Requests : RequestBooks(q)'
  BY <1>1, <1>4, EndKeepsBooks DEF UnusedOrders
<1> QED
  BY <1>5, <1>6, <1>7, <1>8 DEF Books

LEMMA QrOrderOnNewSessionBooks ==
    ASSUME Inv, Books, NEW r \in Requests, NEW o \in Orders, QrOrderOnNewSession(r, o)
    PROVE  Books'
<1>1. /\ bill' = bill /\ items' = items /\ attempt' = attempt
      /\ overwritten' = overwritten
      /\ End(r)
      /\ o \in UnusedOrders
  BY DEF QrOrderOnNewSession
<1>2. PICK s \in UnusedSessions :
         CreateSession(s) /\ NewOrder(o, s, "QR", "AWAITING_PAYMENT", 0)
  BY DEF QrOrderOnNewSession
<1>3. /\ s \in Sessions
      /\ session'[s] = "OPEN"
      /\ \A u \in Sessions : session[u] # "NONE" => session'[u] # "NONE"
  BY <1>2 DEF CreateSession, UnusedSessions, Inv, TypeInv, TypeOK
<1>4. /\ order'[o].session = s
      /\ \A p \in Orders : p # o => order'[p] = order[p]
  BY <1>1, <1>2, <1>3, NewOrderItems
<1>5. ASSUME NEW t \in Sessions PROVE SessionBooks(t)'
  <2>1. ItemsOn(t)' = ItemsOn(t)
    BY <1>1, <1>2, <1>3, NewOrderItems
  <2> QED
    BY <1>1, <1>2, <2>1, CreationBooks
<1>6. ASSUME NEW p \in Orders PROVE Used(order[p].session)'
  BY <1>3, <1>4 DEF Books, Used
<1>7. /\ \A a \in Attempts : AttemptBooks(a)'
      /\ IsFiniteSet(UsedAttempts)'
  BY <1>1, <1>3, AttemptsKeepBooks
<1>8. OneVoid' /\ \A q \in Requests : RequestBooks(q)'
  BY <1>1, <1>3, <1>4, EndKeepsBooks DEF UnusedOrders
<1> QED
  BY <1>5, <1>6, <1>7, <1>8 DEF Books

\* A rewrite from a stale read is remembered; any other one was based on the
\* amounts the bill still has.
LEMMA RewriteNoted ==
    ASSUME NEW s \in Sessions, NEW seen, NoteRewrite(s, seen)
    PROVE  /\ overwritten \subseteq overwritten'
           /\ s \notin overwritten' => s \notin overwritten
                                       /\ ~AmountsDiffer(seen, bill[s])
BY DEF NoteRewrite

\* The books of a session whose bill was rewritten.
LEMMA RewrittenBooks ==
    ASSUME Inv, Books, NEW s \in Sessions, NEW b, NEW status,
           bill' = [bill EXCEPT ![s] = b], session' = [session EXCEPT ![s] = status],
           status # "NONE",
           s \notin overwritten' =>
              /\ b.total = b.subtotal + b.tip
              /\ b.subtotal = Price * Cardinality(ItemsOn(s)')
              /\ Paid(b) = RecordedOn(s)'
              /\ b.remaining >= 0
              /\ StatusTells(b)
              /\ s \in ActiveSessions /\ status = "PAYMENT_COMPLETED" => b.remaining = 0,
           status \in ActiveTableSessionStatuses => s \in ActiveSessions
    PROVE  /\ SessionBooks(s)'
           /\ \A u \in Sessions : session[u] # "NONE" => session'[u] # "NONE"
<1>1. /\ bill'[s] = b
      /\ session'[s] = status
      /\ \A u \in Sessions : u # s => session'[u] = session[u]
  BY DEF Inv, TypeInv, TypeOK
<1>2. s \in ActiveSessions' => s \in ActiveSessions
  BY <1>1 DEF ActiveSessions
<1> QED
  BY <1>1, <1>2 DEF SessionBooks, Balanced

\* The sessions a step writes nothing for, when another session's bill is rewritten.
LEMMA OtherSessionBooks ==
    ASSUME Inv, Books, NEW s \in Sessions, NEW t \in Sessions, t # s,
           NEW b, NEW status,
           bill' = [bill EXCEPT ![s] = b], session' = [session EXCEPT ![s] = status],
           overwritten \subseteq overwritten',
           ItemsOn(t)' = ItemsOn(t), RecordedOn(t)' = RecordedOn(t)
    PROVE  SessionBooks(t)'
<1>1. bill'[t] = bill[t] /\ session'[t] = session[t]
  BY DEF Inv, TypeInv, TypeOK
<1>2. SessionBooks(t)
  BY DEF Books
<1> QED
  BY <1>1, <1>2, SessionUntouched

LEMMA WaiterCommitBooks ==
    ASSUME Inv, Books, NEW r \in Requests, NEW o \in Orders, WaiterCommit(r, o)
    PROVE  Books'
<1>1. PICK s \in Sessions : s = req[r].session
  BY DEF WaiterCommit, At, Inv, RequestInv, SessionKnown
<1> DEFINE seen   == req[r].seen
           row    == bill[s]
           c      == ApplyOrderCharge(row, seen, Price)
           status == SessionAfterCharge(session[s], c.remaining)
<1>2. /\ o \in UnusedOrders
      /\ NewOrder(o, s, "WAITER", "ROUTED", 1)
      /\ items' = items \cup {<<o, NoAttempt>>}
      /\ bill' = [bill EXCEPT ![s] = c]
      /\ session' = [session EXCEPT ![s] = status]
      /\ NoteRewrite(s, seen)
      /\ attempt' = attempt
      /\ End(r)
  BY <1>1 DEF WaiterCommit
<1>3. row \in Bills /\ seen \in Bills /\ session[s] # "NONE"
  <2>1. Used(req[r].session)
    BY DEF Books, RequestBooks
  <2> QED
    BY <1>1, <2>1, RequestType DEF Used, Inv, TypeInv, TypeOK
<1>4. /\ status # "NONE"
      /\ status \in ActiveTableSessionStatuses => s \in ActiveSessions
  <2>1. status # "NONE"
    BY <1>3 DEF SessionAfterCharge
  <2>2. status \in ActiveTableSessionStatuses <=> session[s] \in ActiveTableSessionStatuses
    BY DEF SessionAfterCharge, ActiveTableSessionStatuses
  <2> QED
    BY <2>1, <2>2 DEF ActiveSessions
<1>5. /\ order'[o].session = s
      /\ \A p \in Orders : p # o => order'[p] = order[p]
      /\ ItemsOn(s)' = ItemsOn(s) \cup {<<o, NoAttempt>>}
      /\ <<o, NoAttempt>> \notin ItemsOn(s)
  BY <1>2, NewOrderItems
<1>6. \A t \in Sessions : RecordedOn(t) \in Nat
  BY RecordedType DEF Inv, Books
<1>7. RecordedOn(s)' = RecordedOn(s)
  BY <1>2 DEF RecordedOn
<1>8. ASSUME s \notin overwritten'
      PROVE  /\ c.total = c.subtotal + c.tip
             /\ c.subtotal = Price * Cardinality(ItemsOn(s)')
             /\ Paid(c) = RecordedOn(s)'
             /\ c.remaining >= 0
             /\ StatusTells(c)
             /\ status # "PAYMENT_COMPLETED"
  <2>1. Balanced(s) /\ ~AmountsDiffer(seen, row)
    BY <1>2, <1>8, RewriteNoted DEF Books, SessionBooks
  <2>2. /\ row.subtotal \in Int /\ row.remaining \in Int /\ seen.subtotal = row.subtotal
        /\ seen.subtotal + Price \in Int
    BY <1>3, <2>1, AmountsAgree DEF Bills
  <2>3. /\ c.subtotal = seen.subtotal + Price
        /\ c.total = c.subtotal + c.tip
        /\ Paid(c) = Paid(row)
        /\ c.remaining = row.remaining + (seen.subtotal + Price) - row.subtotal
        /\ Paid(row) >= 0 /\ c.remaining >= 0 => StatusTells(c)
    BY <1>3, <2>1, <2>2, SubtotalRewritten DEF Balanced, ApplyOrderCharge
  <2>4. Cardinality(ItemsOn(s)') = Cardinality(ItemsOn(s)) + 1
    <3>1. IsFiniteSet(ItemsOn(s))
      BY ItemsFinite DEF Inv
    <3>2. Cardinality(ItemsOn(s) \cup {<<o, NoAttempt>>}) = Cardinality(ItemsOn(s)) + 1
      BY <1>5, <3>1, FS_AddElement
    <3> QED
      BY <1>5, <3>2, Zenon
  <2>5. Cardinality(ItemsOn(s)) \in Nat
    BY ItemsFinite DEF Inv
  <2> HIDE DEF c
  <2>6. c.subtotal = Price * Cardinality(ItemsOn(s)')
    BY <2>1, <2>2, <2>3, <2>4, <2>5 DEF Balanced
  <2>7. c.remaining = row.remaining + Price /\ c.remaining > 0
    BY <2>1, <2>2, <2>3 DEF Balanced
  <2>8. Paid(row) >= 0 /\ Paid(c) = RecordedOn(s)'
    BY <1>6, <1>7, <2>1, <2>3 DEF Balanced
  <2>9. c.remaining >= 0 /\ status # "PAYMENT_COMPLETED"
    BY <2>2, <2>7 DEF SessionAfterCharge
  <2> QED
    BY <2>3, <2>6, <2>8, <2>9
<1> HIDE DEF c, status, row, seen
<1>9. /\ SessionBooks(s)'
      /\ \A u \in Sessions : session[u] # "NONE" => session'[u] # "NONE"
  BY <1>2, <1>4, <1>8, RewrittenBooks
<1>10. ASSUME NEW t \in Sessions PROVE SessionBooks(t)'
  <2>1. CASE t = s
    BY <1>9, <2>1
  <2>2. CASE t # s
    <3>1. ItemsOn(t)' = ItemsOn(t) /\ RecordedOn(t)' = RecordedOn(t)
      BY <1>2, <2>2, NewOrderItems DEF RecordedOn
    <3> QED
      BY <1>2, <2>2, <3>1, RewriteNoted, OtherSessionBooks
  <2> QED
    BY <2>1, <2>2
<1>11. ASSUME NEW p \in Orders PROVE Used(order[p].session)'
  BY <1>3, <1>5, <1>9 DEF Books, Used
<1>12. /\ \A a \in Attempts : AttemptBooks(a)'
       /\ IsFiniteSet(UsedAttempts)'
  BY <1>2, <1>9, AttemptsKeepBooks
<1>13. OneVoid' /\ \A q \in Requests : RequestBooks(q)'
  <2>1. ASSUME NEW q \in Requests, At(q, "cancelTx"), NEW i, i[1] = req[q].order
        PROVE  i \in items' <=> i \in items
    <3>1. req[q].order \in Orders /\ req[q].order # o
      BY <1>2, <2>1 DEF At, Inv, RequestInv, UnusedOrders
    <3>2. i # <<o, NoAttempt>>
      BY <2>1, <3>1
    <3> QED
      BY <1>2, <3>2
  <2> QED
    BY <1>2, <1>5, <1>9, <2>1, RewriteNoted, EndKeepsBooks DEF UnusedOrders
<1> QED
  BY <1>10, <1>11, <1>12, <1>13 DEF Books

LEMMA CancelPreBooks ==
    ASSUME Inv, Books, NEW r \in Requests, CancelPreCommit(r)
    PROVE  Books'
<1>1. /\ session' = session /\ bill' = bill /\ items' = items /\ attempt' = attempt
      /\ overwritten' = overwritten
      /\ End(r)
      /\ order' = [order EXCEPT ![req[r].order].status = "CANCELLED"]
  BY DEF CancelPreCommit
<1>2. \A o \in Orders : order'[o].session = order[o].session
  BY <1>1 DEF OrderRecords, Inv, TypeInv, TypeOK
<1>3. /\ \A s \in Sessions : SessionBooks(s)'
      /\ \A o \in Orders : Used(order[o].session)'
      /\ \A a \in Attempts : AttemptBooks(a)'
      /\ IsFiniteSet(UsedAttempts)'
  BY <1>1, <1>2, BooksKept
<1>4. OneVoid' /\ \A q \in Requests : RequestBooks(q)'
  BY <1>1, <1>2, EndKeepsBooks
<1> QED
  BY <1>3, <1>4 DEF Books

\* A void takes the price of the order's items off the bill, and them off the
\* session.
LEMMA CancelTxCommitBooks ==
    ASSUME Inv, Books, NEW r \in Requests, CancelTxCommit(r)
    PROVE  Books'
<1>1. PICK s \in Sessions, o \in Orders : s = req[r].session /\ o = req[r].order
  BY DEF CancelTxCommit, At, Inv, RequestInv, SessionKnown
<1> DEFINE seen == req[r].seen
           row  == bill[s]
           v    == WithSubtotal(row, seen, req[r].subtotal)
           k    == Cardinality(ItemsOf(o))
<1>2. /\ At(r, "cancelTx")
      /\ v.remaining >= 0
      /\ bill' = [bill EXCEPT ![s] = v]
      /\ items' = items \ ItemsOf(o)
      /\ order' = [order EXCEPT ![o].status = "CANCELLED"]
      /\ NoteRewrite(s, seen)
      /\ session' = session
      /\ attempt' = attempt
      /\ End(r)
  BY <1>1 DEF CancelTxCommit
<1>3. /\ row \in Bills /\ seen \in Bills /\ req[r].subtotal \in Int
      /\ session[s] # "NONE"
      /\ order[o].session = s
  <2>1. RequestBooks(r)
    BY DEF Books
  <2> QED
    BY <1>1, <1>2, <2>1, RequestType
       DEF RequestBooks, Used, CancelSteps, At, Inv, TypeInv, TypeOK
<1>4. \A p \in Orders : order'[p].session = order[p].session
  BY <1>2 DEF OrderRecords, Inv, TypeInv, TypeOK
<1>5. /\ ItemsOn(s)' = ItemsOn(s) \ ItemsOf(o)
      /\ ItemsOf(o) \subseteq ItemsOn(s)
  <2>1. \A i \in items : i[1] \in Orders
    BY ItemsOrdered
  <2> QED
    BY <1>2, <1>3, <1>4, <2>1 DEF ItemsOn, ItemsOf
<1>6. /\ Cardinality(ItemsOn(s)') = Cardinality(ItemsOn(s)) - k
      /\ Cardinality(ItemsOn(s)) \in Nat
      /\ k \in Nat
  <2>1. ItemsOn(s) \cap ItemsOf(o) = ItemsOf(o)
    BY <1>5
  <2>2. IsFiniteSet(ItemsOn(s))
    BY ItemsFinite DEF Inv
  <2>3. Cardinality(ItemsOn(s) \ ItemsOf(o))
           = Cardinality(ItemsOn(s)) - Cardinality(ItemsOn(s) \cap ItemsOf(o))
    BY <2>2, FS_Difference
  <2>4. Cardinality(ItemsOn(s) \ ItemsOf(o)) = Cardinality(ItemsOn(s)) - k
    BY <2>1, <2>3, Zenon
  <2>5. Cardinality(ItemsOn(s)') = Cardinality(ItemsOn(s)) - k
    BY <1>5, <2>4, Zenon
  <2> QED
    BY <2>5, ItemsFinite DEF Inv
<1>7. RecordedOn(s) \in Nat /\ RecordedOn(s)' = RecordedOn(s)
  BY <1>2, RecordedType DEF Inv, Books, RecordedOn
<1> HIDE DEF k
<1>8. ASSUME s \notin overwritten'
      PROVE  /\ v.total = v.subtotal + v.tip
             /\ v.subtotal = Price * Cardinality(ItemsOn(s)')
             /\ Paid(v) = RecordedOn(s)'
             /\ StatusTells(v)
             /\ s \in ActiveSessions /\ session[s] = "PAYMENT_COMPLETED"
                   => v.remaining = 0
  <2>1. /\ Balanced(s) /\ ~AmountsDiffer(seen, row)
        /\ s \in ActiveSessions /\ session[s] = "PAYMENT_COMPLETED" => row.remaining = 0
        /\ s \notin overwritten
    BY <1>2, <1>8, RewriteNoted DEF Books, SessionBooks
  <2>2. /\ row.subtotal \in Int /\ row.remaining \in Int /\ seen.subtotal = row.subtotal
    BY <1>3, <2>1, AmountsAgree DEF Bills
  <2>3. req[r].subtotal = seen.subtotal - Price * k
    BY <1>1, <1>2, <2>1 DEF Books, RequestBooks, k
  <2>4. /\ v.subtotal = req[r].subtotal
        /\ v.total = v.subtotal + v.tip
        /\ Paid(v) = Paid(row)
        /\ v.remaining = row.remaining + req[r].subtotal - row.subtotal
        /\ Paid(row) >= 0 /\ v.remaining >= 0 => StatusTells(v)
    BY <1>3, <2>1, SubtotalRewritten DEF Balanced
  <2> HIDE DEF v, row, seen
  <2>5. row.subtotal = Price * Cardinality(ItemsOn(s)) /\ Paid(row) = RecordedOn(s)
    BY <2>1 DEF Balanced, row
  <2>6. v.subtotal = Price * Cardinality(ItemsOn(s)')
    BY <1>6, <2>2, <2>3, <2>4, <2>5
  <2>7. v.remaining = row.remaining - Price * k /\ Price * k >= 0
    BY <1>6, <2>2, <2>3, <2>4
  <2>8. row.remaining = 0 => v.remaining = 0
    BY <1>2, <1>6, <2>2, <2>7
  <2>9. Paid(row) >= 0 /\ Paid(v) = RecordedOn(s)'
    BY <1>7, <2>4, <2>5
  <2> QED
    BY <1>2, <2>1, <2>4, <2>6, <2>8, <2>9
<1>9. session' = [session EXCEPT ![s] = session[s]]
  BY <1>2 DEF Inv, TypeInv, TypeOK
<1> HIDE DEF v, row, seen
<1>10. /\ SessionBooks(s)'
       /\ \A u \in Sessions : session[u] # "NONE" => session'[u] # "NONE"
  BY <1>2, <1>3, <1>8, <1>9, RewrittenBooks DEF ActiveSessions
<1>11. ASSUME NEW t \in Sessions PROVE SessionBooks(t)'
  <2>1. CASE t = s
    BY <1>10, <2>1
  <2>2. CASE t # s
    <3>1. ItemsOn(t)' = ItemsOn(t)
      <4>1. \A i \in items : i[1] \in Orders
        BY ItemsOrdered
      <4> QED
        BY <1>2, <1>3, <1>4, <2>2, <4>1 DEF ItemsOn, ItemsOf
    <3>2. RecordedOn(t)' = RecordedOn(t)
      BY <1>2 DEF RecordedOn
    <3> QED
      BY <1>2, <1>9, <2>2, <3>1, <3>2, RewriteNoted, OtherSessionBooks
  <2> QED
    BY <2>1, <2>2
<1>12. ASSUME NEW p \in Orders PROVE Used(order[p].session)'
  BY <1>4, <1>10 DEF Books, Used
<1>13. /\ \A a \in Attempts : AttemptBooks(a)'
       /\ IsFiniteSet(UsedAttempts)'
  BY <1>2, <1>10, AttemptsKeepBooks
<1>14. OneVoid' /\ \A q \in Requests : RequestBooks(q)'
  <2>1. ASSUME NEW q \in Requests, q # r, At(q, "cancelTx"), NEW i,
               i[1] = req[q].order
        PROVE  i \in items' <=> i \in items
    <3>1. req[q].order # o
      BY <1>1, <1>2, <2>1 DEF Books, OneVoid
    <3> QED
      BY <1>2, <2>1, <3>1 DEF ItemsOf
  <2> QED
    BY <1>2, <1>4, <1>10, <2>1, RewriteNoted, EndKeepsBooks
<1> QED
  BY <1>11, <1>12, <1>13, <1>14 DEF Books

\* A new attempt records nothing yet, on a session that exists.
LEMMA OpenAttemptBooks ==
    ASSUME Inv, Books, TypeInv', NEW r \in Requests, NEW a \in UnusedAttempts,
           NEW o \in Orders \cup {NoOrder}, NEW s \in Sessions, session[s] # "NONE",
           o \in Orders => order[o].session = s,
           NEW amount \in Nat, NEW tip \in Nat, amount > tip, NEW online,
           OpenAttempt(r, a, o, s, amount, tip, online),
           session' = session, bill' = bill, order' = order, items' = items,
           overwritten' = overwritten
    PROVE  Books'
<1>1. a \in Attempts /\ attempt[a].status = "NONE" /\ attempt[a].payments = 0
  BY DEF UnusedAttempts, Inv, AttemptInv
<1>2. /\ attempt'[a] = [status |-> "PENDING", order |-> o, session |-> s,
                        amount |-> amount, tip |-> tip, payments |-> 0]
      /\ \A b \in Attempts : b # a => attempt'[b] = attempt[b]
  BY <1>1 DEF OpenAttempt, Inv, TypeInv, TypeOK
<1>3. /\ attempt'[a].status = "PENDING" /\ attempt'[a].session = s
      /\ attempt'[a].amount = amount /\ attempt'[a].tip = tip
      /\ attempt'[a].payments = 0
  BY <1>2
<1>4. /\ req'[r].step = "charging"
      /\ req'[r].session = s
      /\ req'[r].order = o
      /\ req'[r].attempt = a
      /\ req'[r].online = online
      /\ \A q \in Requests : q # r => req'[q] = req[q]
  BY DEF OpenAttempt, IdleRequest, Inv, TypeInv, TypeOK
<1>5. ASSUME NEW t \in Sessions PROVE SessionBooks(t)'
  <2>1. attempt[a].session = NoSession
    BY <1>1 DEF Books, AttemptBooks
  <2>2. RecordedOn(t)' = RecordedOn(t)
    <3>1. attempt[a].amount \in Nat /\ attempt' \in [Attempts -> AttemptRecords]
      BY <1>1, AttemptType DEF Inv, TypeInv, TypeOK
    <3>2. attempt'[a].payments * attempt'[a].amount
             - attempt[a].payments * attempt[a].amount = 0
      BY <1>1, <1>3, <3>1
    <3>3. RecordedOn(t)' =
              IF attempt'[a].session = t
              THEN RecordedOn(t) + (attempt'[a].payments * attempt'[a].amount
                                    - attempt[a].payments * attempt[a].amount)
              ELSE RecordedOn(t)
      BY <1>1, <1>2, <2>1, <3>1, RecordedChange DEF Inv, Books
    <3>4. RecordedOn(t) \in Nat
      BY RecordedType DEF Inv, Books
    <3> QED
      BY <3>2, <3>3, <3>4
  <2>3. ItemsOn(t)' = ItemsOn(t)
    BY DEF ItemsOn
  <2> QED
    BY <2>2, <2>3, SessionUntouched DEF Books
<1>6. ASSUME NEW p \in Orders PROVE Used(order[p].session)'
  BY DEF Books, Used
<1>7. ASSUME NEW b \in Attempts PROVE AttemptBooks(b)'
  <2>1. CASE b = a
    BY <1>3, <2>1 DEF AttemptBooks, Used
  <2>2. CASE b # a
    BY <1>2, <2>2 DEF Books, AttemptBooks, Used
  <2> QED
    BY <2>1, <2>2
<1>8. IsFiniteSet(UsedAttempts)'
  <2>1. UsedAttempts' = UsedAttempts \cup {a}
    BY <1>1, <1>2, <1>3 DEF UsedAttempts
  <2>2. IsFiniteSet(UsedAttempts \cup {a})
    BY FS_AddElement DEF Books
  <2> QED
    BY <2>1, <2>2, Zenon
<1>9. RequestBooks(r)' /\ ~At(r, "cancelTx")'
  BY <1>3, <1>4 DEF RequestBooks, Used, InPayment, PaymentSteps, CancelSteps, At
<1>10. ASSUME NEW q \in Requests, q # r PROVE RequestBooks(q)'
  <2>1. InPayment(q) => req[q].attempt \in Attempts /\ req[q].attempt # a
    BY <1>1 DEF Inv, RequestInv, AttemptKnown, InPayment, PaymentSteps
  <2>2. InPayment(q) => attempt'[req[q].attempt].session = attempt[req[q].attempt].session
    BY <1>2, <2>1
  <2>3. req'[q] = req[q] /\ RequestBooks(q)
    BY <1>4, <1>10 DEF Books
  <2> QED
    BY <2>2, <2>3, OthersKeepBooks
<1>11. OneVoid'
  BY <1>4, <1>9 DEF OneVoid, At, Books
<1> QED
  BY <1>5, <1>6, <1>7, <1>8, <1>9, <1>10, <1>11 DEF Books

LEMMA PaymentStartBooks ==
    ASSUME Inv, Books, TypeInv', NEW r \in Requests, NEW a \in Attempts,
           NEW tip \in Tips
    PROVE  /\ \A o \in Orders : PayOrderStart(r, o, a, tip) => Books'
           /\ \A s \in Sessions, amount \in Amounts, online \in BOOLEAN :
                 PayBillStart(r, s, a, amount, tip, online) => Books'
<1>1. ASSUME NEW o \in Orders, PayOrderStart(r, o, a, tip)
      PROVE  Books'
  <2>1. PICK s \in Sessions : s = order[o].session /\ session[s] # "NONE"
    <3>1. order[o].status # "NONE" /\ Used(order[o].session)
      BY <1>1 DEF PayOrderStart, PayableOrderStatuses, Books
    <3> QED
      BY <3>1 DEF Inv, OrderInv, Used
  <2>2. Price + tip \in Nat /\ tip \in Nat /\ Price + tip > tip
    OBVIOUS
  <2>3. OpenAttempt(r, a, o, s, Price + tip, tip, TRUE) /\ a \in UnusedAttempts
    BY <1>1, <2>1 DEF PayOrderStart
  <2> QED
    BY <1>1, <2>1, <2>2, <2>3, OpenAttemptBooks DEF PayOrderStart
<1>2. ASSUME NEW s \in Sessions, NEW amount \in Amounts, NEW online \in BOOLEAN,
             PayBillStart(r, s, a, amount, tip, online)
      PROVE  Books'
  <2>1. amount + tip \in Nat /\ tip \in Nat /\ amount + tip > tip
    OBVIOUS
  <2>2. /\ OpenAttempt(r, a, NoOrder, s, amount + tip, tip, online)
        /\ a \in UnusedAttempts
        /\ session[s] # "NONE"
    BY <1>2 DEF PayBillStart
  <2> QED
    BY <1>2, <2>1, <2>2, OpenAttemptBooks DEF PayBillStart
<1> QED
  BY <1>1, <1>2

\* What a request relies on when it resolves its attempt, and what a resolution
\* leaves of the attempts' books.
LEMMA ResolutionBooks ==
    ASSUME Inv, Books, TypeInv', NEW r \in Requests, InPayment(r),
           \/ attempt' = Failed(req[r].attempt)
           \/ attempt' = Succeeded(req[r].attempt),
           \A u \in Sessions : session[u] # "NONE" => session'[u] # "NONE"
    PROVE  /\ \A b \in Attempts : AttemptBooks(b)'
           /\ IsFiniteSet(UsedAttempts)'
           /\ \A b \in Attempts : attempt'[b].session = attempt[b].session
<1>1. PICK a \in Attempts : a = req[r].attempt
  BY ResolvesOwn
<1>2. /\ attempt[a].status = "PENDING"
      /\ \A b \in Attempts : b # a => attempt'[b] = attempt[b]
  BY <1>1, ResolvesOwn
<1>3. /\ attempt'[a].status # "NONE"
      /\ attempt'[a].session = attempt[a].session
      /\ attempt'[a].amount = attempt[a].amount
      /\ attempt'[a].tip = attempt[a].tip
  BY <1>1 DEF Failed, Succeeded, AttemptRecords, Inv, TypeInv, TypeOK
<1>4. ASSUME NEW b \in Attempts PROVE AttemptBooks(b)'
  <2>1. CASE b = a
    BY <1>2, <1>3, <2>1 DEF Books, AttemptBooks, Used
  <2>2. CASE b # a
    BY <1>2, <2>2 DEF Books, AttemptBooks, Used
  <2> QED
    BY <2>1, <2>2
<1>5. UsedAttempts' = UsedAttempts
  BY <1>2, <1>3 DEF UsedAttempts
<1>6. IsFiniteSet(UsedAttempts)'
  BY <1>5, Zenon DEF Books
<1> QED
  BY <1>2, <1>3, <1>4, <1>6

\* What an attempt adds to what is recorded on the sessions when it is resolved.
LEMMA ResolutionRecorded ==
    ASSUME Inv, Books, TypeInv', NEW r \in Requests, InPayment(r),
           \/ attempt' = Failed(req[r].attempt)
           \/ attempt' = Succeeded(req[r].attempt),
           NEW t \in Sessions
    PROVE  /\ attempt' = Failed(req[r].attempt) => RecordedOn(t)' = RecordedOn(t)
           /\ t # req[r].session => RecordedOn(t)' = RecordedOn(t)
           /\ attempt' = Succeeded(req[r].attempt) /\ t = req[r].session =>
                 RecordedOn(t)' = RecordedOn(t) + attempt[req[r].attempt].amount
<1>1. PICK a \in Attempts : a = req[r].attempt
  BY ResolvesOwn
<1>2. /\ attempt[a].payments = 0
      /\ attempt[a].session = req[r].session
      /\ \A b \in Attempts : b # a => attempt'[b] = attempt[b]
  BY <1>1, ResolvesOwn DEF Books, RequestBooks
<1>3. /\ attempt' \in [Attempts -> AttemptRecords]
      /\ attempt[a].amount \in Nat
      /\ RecordedOn(t) \in Nat
  BY AttemptType, RecordedType DEF Inv, Books, TypeInv, TypeOK
<1>4. /\ attempt'[a].session = attempt[a].session
      /\ attempt'[a].amount = attempt[a].amount
  BY <1>1 DEF Failed, Succeeded, AttemptRecords, Inv, TypeInv, TypeOK
<1>5. /\ attempt' = Failed(a) => attempt'[a].payments = 0
      /\ attempt' = Succeeded(a) => attempt'[a].payments = 1
  BY <1>2 DEF Failed, Succeeded, AttemptRecords, Inv, TypeInv, TypeOK
<1>6. RecordedOn(t)' =
         IF attempt'[a].session = t
         THEN RecordedOn(t) + (attempt'[a].payments * attempt'[a].amount
                               - attempt[a].payments * attempt[a].amount)
         ELSE RecordedOn(t)
  BY <1>2, <1>3, <1>4, RecordedChange DEF Inv, Books
<1>7. attempt[a].payments * attempt[a].amount = 0
  BY <1>2, <1>3
<1>8. /\ attempt' = Failed(a) => attempt'[a].payments * attempt'[a].amount = 0
      /\ attempt' = Succeeded(a) =>
            attempt'[a].payments * attempt'[a].amount = attempt[a].amount
  BY <1>3, <1>4, <1>5
<1> QED
  BY <1>1, <1>2, <1>3, <1>4, <1>6, <1>7, <1>8

LEMMA RejectBooks ==
    ASSUME Inv, Books, TypeInv', NEW r \in Requests, RejectOrder(r) \/ RejectBill(r)
    PROVE  Books'
<1>1. /\ session' = session /\ bill' = bill /\ items' = items
      /\ overwritten' = overwritten
      /\ attempt' = Failed(req[r].attempt)
      /\ \/ order' = order
         \/ order' = [order EXCEPT ![req[r].order].status = "PAYMENT_FAILED"]
      /\ End(r)
      /\ InPayment(r)
  BY DEF RejectOrder, RejectBill, At, InPayment, PaymentSteps
<1>2. \A o \in Orders : order'[o].session = order[o].session
  BY <1>1 DEF OrderRecords, Inv, TypeInv, TypeOK
<1>3. ASSUME NEW t \in Sessions PROVE SessionBooks(t)'
  <2>1. RecordedOn(t)' = RecordedOn(t)
    BY <1>1, ResolutionRecorded
  <2>2. ItemsOn(t)' = ItemsOn(t)
    BY <1>1, <1>2, ItemsOrdered DEF ItemsOn
  <2> QED
    BY <1>1, <2>1, <2>2, SessionUntouched DEF Books
<1>4. ASSUME NEW o \in Orders PROVE Used(order[o].session)'
  BY <1>1, <1>2 DEF Books, Used
<1>5. /\ \A b \in Attempts : AttemptBooks(b)'
      /\ IsFiniteSet(UsedAttempts)'
      /\ \A b \in Attempts : attempt'[b].session = attempt[b].session
  BY <1>1, ResolutionBooks
<1>6. OneVoid' /\ \A q \in Requests : RequestBooks(q)'
  BY <1>1, <1>2, <1>5, EndKeepsBooks
<1> QED
  BY <1>3, <1>4, <1>5, <1>6 DEF Books

\* A payment of a bill: its amount goes from what is left to what was paid.
LEMMA BillTxCommitBooks ==
    ASSUME Inv, Books, TypeInv', NEW r \in Requests, BillTxCommit(r)
    PROVE  Books'
<1>1. /\ InPayment(r)
      /\ req[r].session \in Sessions
      /\ req[r].attempt \in Attempts
  BY DEF BillTxCommit, At, InPayment, PaymentSteps, Inv, RequestInv, SessionKnown,
         AttemptKnown
<1>2. PICK s \in Sessions, a \in Attempts : s = req[r].session /\ a = req[r].attempt
  BY <1>1
<1> DEFINE seen   == req[r].seen
           row    == bill[s]
           amount == attempt[a].amount
           tip    == attempt[a].tip
           b      == ApplyPayment(row, seen, amount, tip)
           status == SessionAfterPayment(session[s], b.remaining)
<1>3. /\ PaymentFits(seen, amount, tip)
      /\ attempt' = Succeeded(a)
      /\ bill' = [bill EXCEPT ![s] = b]
      /\ session' = [session EXCEPT ![s] = status]
      /\ NoteRewrite(s, seen)
      /\ order' = order /\ items' = items
      /\ End(r)
  BY <1>2 DEF BillTxCommit
<1>4. /\ row \in Bills /\ seen \in Bills
      /\ session[s] # "NONE"
      /\ amount \in Nat /\ tip \in Nat /\ amount > tip
  <2>1. Used(req[r].session)
    BY DEF Books, RequestBooks
  <2>2. attempt[a].status = "PENDING"
    BY <1>1, <1>2, <1>3, ResolvesOwn
  <2>3. amount \in Nat /\ tip \in Nat /\ amount > tip
    BY <2>2, AttemptType DEF Books, AttemptBooks, Inv
  <2> QED
    BY <1>2, <2>1, <2>3, RequestType DEF Used, Inv, TypeInv, TypeOK
<1>5. /\ status # "NONE"
      /\ status \in ActiveTableSessionStatuses => s \in ActiveSessions
      /\ status = "PAYMENT_COMPLETED" =>
            session[s] = "PAYMENT_COMPLETED" \/ b.remaining <= 0
  <2> HIDE DEF b
  <2>1. status # "NONE"
    BY <1>4 DEF SessionAfterPayment
  <2>2. status \in ActiveTableSessionStatuses <=> session[s] \in ActiveTableSessionStatuses
    BY DEF SessionAfterPayment, ActiveTableSessionStatuses
  <2>3. status = "PAYMENT_COMPLETED" =>
            session[s] = "PAYMENT_COMPLETED" \/ b.remaining <= 0
    BY DEF SessionAfterPayment
  <2> QED
    BY <2>1, <2>2, <2>3 DEF ActiveSessions
<1>6. /\ \A t \in Sessions : t # s => RecordedOn(t)' = RecordedOn(t)
      /\ RecordedOn(s)' = RecordedOn(s) + amount
      /\ RecordedOn(s) \in Nat
  BY <1>1, <1>2, <1>3, ResolutionRecorded, RecordedType DEF Inv, Books
<1>7. \A t \in Sessions : ItemsOn(t)' = ItemsOn(t)
  BY <1>3 DEF ItemsOn
<1>8. Cardinality(ItemsOn(s)') = Cardinality(ItemsOn(s))
  BY <1>7, Zenon
<1>9. ASSUME s \notin overwritten'
      PROVE  /\ b.total = b.subtotal + b.tip
             /\ b.subtotal = Price * Cardinality(ItemsOn(s)')
             /\ Paid(b) = RecordedOn(s)'
             /\ b.remaining >= 0
             /\ StatusTells(b)
             /\ s \in ActiveSessions /\ status = "PAYMENT_COMPLETED" => b.remaining = 0
  <2>1. /\ Balanced(s) /\ ~AmountsDiffer(seen, row)
        /\ s \in ActiveSessions /\ session[s] = "PAYMENT_COMPLETED" => row.remaining = 0
    BY <1>3, <1>9, RewriteNoted DEF Books, SessionBooks
  <2>2. /\ b.subtotal = row.subtotal
        /\ b.total = b.subtotal + b.tip
        /\ Paid(b) = Paid(row) + amount
        /\ b.remaining = row.remaining + tip - amount
        /\ b.remaining >= 0
        /\ Paid(row) >= 0 /\ amount > 0 => StatusTells(b)
    BY <1>3, <1>4, <2>1, PaymentApplied DEF Balanced
  <2>3. /\ row.subtotal = Price * Cardinality(ItemsOn(s))
        /\ Paid(row) = RecordedOn(s)
        /\ row.remaining \in Int
    BY <1>4, <2>1 DEF Balanced, Bills
  <2> HIDE DEF b, row, seen, amount, tip
  <2>4. amount > 0 /\ row.remaining # 0
    BY <1>4, <2>2, <2>3
  <2>5. Paid(b) = RecordedOn(s)' /\ StatusTells(b)
    BY <1>6, <2>2, <2>3, <2>4
  <2>6. s \in ActiveSessions /\ status = "PAYMENT_COMPLETED" => b.remaining = 0
    <3>1. b.remaining \in Int
      BY <1>4, <2>2, <2>3
    <3> HIDE DEF status
    <3> QED
      BY <1>5, <2>1, <2>2, <2>4, <3>1
  <2> QED
    BY <1>8, <2>2, <2>3, <2>5, <2>6
<1> HIDE DEF b, status, row, seen, amount, tip
<1>10. /\ SessionBooks(s)'
       /\ \A u \in Sessions : session[u] # "NONE" => session'[u] # "NONE"
  BY <1>3, <1>5, <1>9, RewrittenBooks
<1>11. ASSUME NEW t \in Sessions PROVE SessionBooks(t)'
  <2>1. CASE t = s
    BY <1>10, <2>1
  <2>2. CASE t # s
    BY <1>3, <1>6, <1>7, <2>2, RewriteNoted, OtherSessionBooks
  <2> QED
    BY <2>1, <2>2
<1>12. ASSUME NEW p \in Orders PROVE Used(order[p].session)'
  BY <1>3, <1>10 DEF Books, Used
<1>13. /\ \A c \in Attempts : AttemptBooks(c)'
       /\ IsFiniteSet(UsedAttempts)'
       /\ \A c \in Attempts : attempt'[c].session = attempt[c].session
  BY <1>1, <1>2, <1>3, <1>10, ResolutionBooks
<1>14. OneVoid' /\ \A q \in Requests : RequestBooks(q)'
  BY <1>3, <1>10, <1>13, RewriteNoted, EndKeepsBooks
<1> QED
  BY <1>11, <1>12, <1>13, <1>14 DEF Books

\* An order paid in advance: its price is charged and its amount paid at once, so
\* the bill gains an item and a payment.
LEMMA OrderTxCommitBooks ==
    ASSUME Inv, Books, TypeInv', NEW r \in Requests, OrderTxCommit(r)
    PROVE  Books'
<1>1. /\ InPayment(r)
      /\ req[r].session \in Sessions
      /\ req[r].order \in Orders
      /\ req[r].attempt \in Attempts
      /\ attempt[req[r].attempt].order = req[r].order
  BY DEF OrderTxCommit, At, InPayment, PaymentSteps, Inv, RequestInv, SessionKnown,
         AttemptKnown
<1>2. PICK s \in Sessions, o \in Orders, a \in Attempts :
         s = req[r].session /\ o = req[r].order /\ a = req[r].attempt
  BY <1>1
<1> DEFINE seen   == req[r].seen
           row    == bill[s]
           amount == attempt[a].amount
           tip    == attempt[a].tip
           c      == ApplyOrderCharge(row, seen, Price)
           b      == ApplyPayment(c, c, amount, tip)
           status == SessionAfterPayment(SessionAfterCharge(session[s], c.remaining),
                                         b.remaining)
<1>3. /\ PaymentFits(c, amount, tip)
      /\ attempt' = Succeeded(a)
      /\ items' = items \cup {<<o, a>>}
      /\ bill' = [bill EXCEPT ![s] = b]
      /\ session' = [session EXCEPT ![s] = status]
      /\ order' = [order EXCEPT ![o].status = "ROUTED", ![o].tickets = @ + 1]
      /\ NoteRewrite(s, seen)
      /\ End(r)
  BY <1>2 DEF OrderTxCommit
<1>4. /\ row \in Bills /\ seen \in Bills
      /\ session[s] # "NONE"
      /\ amount \in Nat /\ tip \in Nat /\ amount > tip
      /\ attempt[a].payments = 0
      /\ order[o].session = s
      /\ order[o].source = "QR"
  <2>1. Used(req[r].session) /\ order[o].session = s
    BY <1>1, <1>2 DEF Books, RequestBooks
  <2>2. attempt[a].status = "PENDING" /\ attempt[a].payments = 0
    BY <1>1, <1>2, <1>3, ResolvesOwn
  <2>3. amount \in Nat /\ tip \in Nat /\ amount > tip
    BY <2>2, AttemptType DEF Books, AttemptBooks, Inv
  <2>4. order[o].source = "QR"
    BY <1>1, <1>2 DEF Inv, AttemptInv
  <2> QED
    BY <1>2, <2>1, <2>2, <2>3, <2>4, RequestType DEF Used, Inv, TypeInv, TypeOK
<1>5. /\ status # "NONE"
      /\ status \in ActiveTableSessionStatuses => s \in ActiveSessions
      /\ status = "PAYMENT_COMPLETED" =>
            \/ session[s] = "PAYMENT_COMPLETED" /\ ~(c.remaining > 0)
            \/ b.remaining <= 0
  <2> HIDE DEF b, c
  <2>1. status # "NONE"
    BY <1>4 DEF SessionAfterCharge, SessionAfterPayment
  <2>2. status \in ActiveTableSessionStatuses <=> session[s] \in ActiveTableSessionStatuses
    BY LedgerKeepsActivity
  <2>3. status = "PAYMENT_COMPLETED" =>
            \/ session[s] = "PAYMENT_COMPLETED" /\ ~(c.remaining > 0)
            \/ b.remaining <= 0
    BY DEF SessionAfterCharge, SessionAfterPayment
  <2> QED
    BY <2>1, <2>2, <2>3 DEF ActiveSessions
<1>6. /\ \A t \in Sessions : t # s => RecordedOn(t)' = RecordedOn(t)
      /\ RecordedOn(s)' = RecordedOn(s) + amount
      /\ RecordedOn(s) \in Nat
  BY <1>1, <1>2, <1>3, ResolutionRecorded, RecordedType DEF Inv, Books
<1>7. \A p \in Orders : order'[p].session = order[p].session
  BY <1>3 DEF OrderRecords, Inv, TypeInv, TypeOK
<1>8. <<o, a>> \notin items
  <2>1. ItemsOf(o) = {o} \X Paying(o)
    BY <1>4 DEF Inv, OrderInv
  <2>2. a \notin Paying(o)
    BY <1>4 DEF Paying
  <2>3. <<o, a>> \notin ItemsOf(o)
    BY <2>1, <2>2
  <2> QED
    BY <2>3 DEF ItemsOf
<1>9. /\ ItemsOn(s)' = ItemsOn(s) \cup {<<o, a>>}
      /\ \A t \in Sessions : t # s => ItemsOn(t)' = ItemsOn(t)
  <2>1. \A i \in items : i[1] \in Orders
    BY ItemsOrdered
  <2>2. <<o, a>>[1] = o
    OBVIOUS
  <2>3. ASSUME NEW t
        PROVE  ItemsOn(t)' = {i \in items \cup {<<o, a>>} : order[i[1]].session = t}
    BY <1>3, <1>7, <2>1, <2>2 DEF ItemsOn
  <2> QED
    BY <1>4, <2>2, <2>3 DEF ItemsOn
<1>10. /\ Cardinality(ItemsOn(s)') = Cardinality(ItemsOn(s)) + 1
       /\ Cardinality(ItemsOn(s)) \in Nat
  <2>1. IsFiniteSet(ItemsOn(s)) /\ Cardinality(ItemsOn(s)) \in Nat
    BY ItemsFinite DEF Inv
  <2>2. <<o, a>> \notin ItemsOn(s)
    BY <1>8 DEF ItemsOn
  <2>3. Cardinality(ItemsOn(s) \cup {<<o, a>>}) = Cardinality(ItemsOn(s)) + 1
    BY <2>1, <2>2, FS_AddElement
  <2> QED
    BY <1>9, <2>1, <2>3, Zenon
<1>11. ASSUME s \notin overwritten'
       PROVE  /\ b.total = b.subtotal + b.tip
              /\ b.subtotal = Price * Cardinality(ItemsOn(s)')
              /\ Paid(b) = RecordedOn(s)'
              /\ b.remaining >= 0
              /\ StatusTells(b)
              /\ s \in ActiveSessions /\ status = "PAYMENT_COMPLETED" => b.remaining = 0
  <2>1. Balanced(s) /\ ~AmountsDiffer(seen, row)
    BY <1>3, <1>11, RewriteNoted DEF Books, SessionBooks
  <2>2. /\ row.subtotal \in Int /\ row.remaining \in Int /\ seen.subtotal = row.subtotal
        /\ seen.subtotal + Price \in Int
    BY <1>4, <2>1, AmountsAgree DEF Bills
  <2>3. /\ c.subtotal = seen.subtotal + Price
        /\ c.total = c.subtotal + c.tip
        /\ Paid(c) = Paid(row)
        /\ c.remaining = row.remaining + (seen.subtotal + Price) - row.subtotal
    BY <1>4, <2>1, <2>2, SubtotalRewritten DEF Balanced, ApplyOrderCharge
  <2>4. c \in Bills
    <3>1. Price \in Int
      OBVIOUS
    <3> HIDE DEF row, seen
    <3>2. ApplyOrderCharge(row, seen, Price) \in Bills
      BY <1>4, <3>1, BillRewriteType
    <3> QED
      BY <3>2 DEF c
  <2> HIDE DEF c, row, seen, amount, tip
  <2>5. ~AmountsDiffer(c, c)
    BY <2>4 DEF AmountsDiffer, Bills
  <2>6. /\ b.subtotal = c.subtotal
        /\ b.total = b.subtotal + b.tip
        /\ Paid(b) = Paid(c) + amount
        /\ b.remaining = c.remaining + tip - amount
        /\ b.remaining >= 0
        /\ Paid(c) >= 0 /\ amount > 0 => StatusTells(b)
    BY <1>3, <1>4, <2>3, <2>4, <2>5, PaymentApplied
  <2>7. /\ row.subtotal = Price * Cardinality(ItemsOn(s))
        /\ Paid(row) = RecordedOn(s)
        /\ row.remaining >= 0
    BY <2>1 DEF Balanced, row
  <2> HIDE DEF b
  <2>8. c.remaining = row.remaining + Price /\ c.remaining > 0 /\ amount > 0
    BY <1>4, <2>2, <2>3, <2>7
  <2>9. b.subtotal = Price * Cardinality(ItemsOn(s)')
    BY <1>10, <2>2, <2>3, <2>6, <2>7
  <2>10. Paid(b) = RecordedOn(s)' /\ StatusTells(b)
    BY <1>6, <2>3, <2>6, <2>7, <2>8
  <2>11. status = "PAYMENT_COMPLETED" => b.remaining = 0
    <3>1. b.remaining \in Int
      BY <1>4, <2>2, <2>6, <2>8
    <3> HIDE DEF status
    <3> QED
      BY <1>5, <2>6, <2>8, <3>1
  <2> QED
    BY <2>6, <2>9, <2>10, <2>11
<1> HIDE DEF b, c, status, row, seen, amount, tip
<1>12. /\ SessionBooks(s)'
       /\ \A u \in Sessions : session[u] # "NONE" => session'[u] # "NONE"
  BY <1>3, <1>5, <1>11, RewrittenBooks
<1>13. ASSUME NEW t \in Sessions PROVE SessionBooks(t)'
  <2>1. CASE t = s
    BY <1>12, <2>1
  <2>2. CASE t # s
    BY <1>3, <1>6, <1>9, <2>2, RewriteNoted, OtherSessionBooks
  <2> QED
    BY <2>1, <2>2
<1>14. ASSUME NEW p \in Orders PROVE Used(order[p].session)'
  BY <1>7, <1>12 DEF Books, Used
<1>15. /\ \A d \in Attempts : AttemptBooks(d)'
       /\ IsFiniteSet(UsedAttempts)'
       /\ \A d \in Attempts : attempt'[d].session = attempt[d].session
  BY <1>1, <1>2, <1>3, <1>12, ResolutionBooks
<1>16. OneVoid' /\ \A q \in Requests : RequestBooks(q)'
  <2>1. ASSUME NEW q \in Requests, At(q, "cancelTx"), NEW i, i[1] = req[q].order
        PROVE  i \in items' <=> i \in items
    <3>1. req[q].order # o
      BY <1>4, <2>1 DEF At, Inv, RequestInv
    <3>2. i # <<o, a>>
      BY <2>1, <3>1
    <3> QED
      BY <1>3, <3>2
  <2> QED
    BY <1>3, <1>7, <1>12, <1>15, <2>1, RewriteNoted, EndKeepsBooks
<1> QED
  BY <1>13, <1>14, <1>15, <1>16 DEF Books

\* A request that ends early wrote nothing since its last step.
LEMMA DropBooks ==
    ASSUME Inv, Books, NEW r \in Requests, Drop(r)
    PROVE  Books'
<1>1. /\ session' = session /\ bill' = bill /\ order' = order /\ items' = items
      /\ attempt' = attempt /\ overwritten' = overwritten
      /\ End(r)
  BY DEF Drop
<1>2. /\ \A s \in Sessions : SessionBooks(s)'
      /\ \A o \in Orders : Used(order[o].session)'
      /\ \A a \in Attempts : AttemptBooks(a)'
      /\ IsFiniteSet(UsedAttempts)'
  BY <1>1, BooksKept
<1>3. OneVoid' /\ \A q \in Requests : RequestBooks(q)'
  BY <1>1, EndKeepsBooks
<1> QED
  BY <1>2, <1>3 DEF Books

LEMMA SessionStepBooks ==
    ASSUME Inv, Books, NEW r \in Requests, SessionStep(r)
    PROVE  Books'
<1>1. CASE CloseCommit(r)
  <2>1. req[r].session \in Sessions
    BY <1>1 DEF CloseCommit, At, Inv, RequestInv, SessionKnown
  <2> QED
    BY <1>1, <2>1, LeaveBooks DEF CloseCommit
<1>2. CASE AbandonCommit(r)
  <2>1. req[r].session \in Sessions
    BY <1>2 DEF AbandonCommit, At, Inv, RequestInv, SessionKnown
  <2> QED
    BY <1>2, <2>1, LeaveBooks DEF AbandonCommit
<1>3. CASE OpenRead(r)
  BY <1>3, OpenReadBooks
<1>4. CASE OpenCommit(r)
  BY <1>4, OpenCommitBooks
<1>5. ASSUME NEW s \in Sessions, CloseRead(r, s) PROVE Books'
  BY <1>5, CloseReadBooks
<1>6. ASSUME NEW s \in Sessions, AbandonRead(r, s) PROVE Books'
  BY <1>6, AbandonReadBooks
<1> QED
  BY <1>1, <1>2, <1>3, <1>4, <1>5, <1>6, Zenon DEF SessionStep

LEMMA OrderStepBooks ==
    ASSUME Inv, Books, NEW r \in Requests, OrderStep(r)
    PROVE  Books'
<1>1. CASE QrOrderRead(r)
  BY <1>1, QrOrderReadBooks
<1>2. ASSUME NEW s \in Sessions, WaiterRead(r, s) PROVE Books'
  BY <1>2, WaiterReadBooks
<1>3. ASSUME NEW o \in Orders, QrOrderOnSession(r, o) PROVE Books'
  BY <1>3, QrOrderOnSessionBooks
<1>4. ASSUME NEW o \in Orders, QrOrderOnNewSession(r, o) PROVE Books'
  BY <1>4, QrOrderOnNewSessionBooks
<1>5. ASSUME NEW o \in Orders, WaiterCommit(r, o) PROVE Books'
  BY <1>5, WaiterCommitBooks
<1>6. ASSUME NEW o \in Orders, CancelRead(r, o) PROVE Books'
  BY <1>6, CancelReadBooks
<1>7. CASE CancelPreCommit(r)
  BY <1>7, CancelPreBooks
<1>8. CASE CancelTxRead(r)
  BY <1>8, CancelTxReadBooks
<1>9. CASE CancelTxCommit(r)
  BY <1>9, CancelTxCommitBooks
<1> QED
  BY <1>1, <1>2, <1>3, <1>4, <1>5, <1>6, <1>7, <1>8, <1>9, Zenon DEF OrderStep

LEMMA PaymentStepBooks ==
    ASSUME Inv, Books, TypeInv', NEW r \in Requests, PaymentStep(r)
    PROVE  Books'
<1>1. ASSUME NEW a \in Attempts, NEW tip \in Tips, NEW o \in Orders,
             PayOrderStart(r, o, a, tip)
      PROVE  Books'
  BY <1>1, PaymentStartBooks, Zenon
<1>2. ASSUME NEW a \in Attempts, NEW tip \in Tips, NEW s \in Sessions,
             NEW amount \in Amounts, NEW online \in BOOLEAN,
             PayBillStart(r, s, a, amount, tip, online)
      PROVE  Books'
  BY <1>2, PaymentStartBooks, Zenon
<1>3. CASE Charge(r) \/ OrderTxRead(r) \/ BillTxRead(r)
  BY <1>3, PaymentReadBooks
<1>4. CASE RejectOrder(r) \/ RejectBill(r)
  BY <1>4, RejectBooks
<1>5. CASE OrderTxCommit(r)
  BY <1>5, OrderTxCommitBooks
<1>6. CASE BillTxCommit(r)
  BY <1>6, BillTxCommitBooks
<1> QED
  BY <1>1, <1>2, <1>3, <1>4, <1>5, <1>6, Zenon DEF PaymentStep

LEMMA NextBooks == Inv /\ Books /\ [Next]_vars => Books'
<1> SUFFICES ASSUME Inv, Books, [Next]_vars PROVE Books'
  OBVIOUS
<1>1. TypeInv'
  BY NextInv DEF Inv
<1>2. ASSUME NEW r \in Requests, SessionStep(r) PROVE Books'
  BY <1>2, SessionStepBooks
<1>3. ASSUME NEW r \in Requests, OrderStep(r) PROVE Books'
  BY <1>3, OrderStepBooks
<1>4. ASSUME NEW r \in Requests, PaymentStep(r) PROVE Books'
  BY <1>1, <1>4, PaymentStepBooks
<1>5. ASSUME NEW r \in Requests, Drop(r) PROVE Books'
  BY <1>5, DropBooks
<1>6. CASE UNCHANGED vars
  <2>1. /\ session' = session /\ bill' = bill /\ order' = order /\ items' = items
        /\ attempt' = attempt /\ overwritten' = overwritten /\ req' = req
    BY <1>6 DEF vars
  <2>2. /\ \A s \in Sessions : SessionBooks(s)'
        /\ \A o \in Orders : Used(order[o].session)'
        /\ \A a \in Attempts : AttemptBooks(a)'
        /\ IsFiniteSet(UsedAttempts)'
    BY <2>1, BooksKept
  <2>3. ASSUME NEW q \in Requests PROVE RequestBooks(q)'
    BY <2>1, OthersKeepBooks DEF Books
  <2>4. OneVoid'
    BY <2>1 DEF OneVoid, At, Books
  <2> QED
    BY <2>2, <2>3, <2>4 DEF Books
<1> QED
  BY <1>2, <1>3, <1>4, <1>5, <1>6, Zenon DEF Next

LEMMA BooksInvariance == Spec => []Books
<1>1. Init => Books
  BY InitBooks
<1>2. Inv /\ Books /\ [Next]_vars => Books'
  BY NextBooks
<1> QED
  BY <1>1, <1>2, Invariance, PTL DEF Spec

\* Whatever charges, payments and voids interleave, a bill of which no amount was
\* rewritten from a stale read has a subtotal that is the price of its items, was
\* paid exactly what its payments recorded add up to, and is never overpaid.
THEOREM LedgerAddsUp == Spec => []LedgerIdentity
<1>1. Books => LedgerIdentity
  BY DEF Books, SessionBooks, Balanced, LedgerIdentity
<1> QED
  BY <1>1, BooksInvariance, PTL

\* The status written by the last charge, payment or void of such a bill is right
\* for the balance it has, and its session counts as paid only when nothing is
\* left to pay: a charge reopens it.
THEOREM StatusFollows == Spec => []StatusFollowsBalance
<1>1. Books => StatusFollowsBalance
  BY DEF Books, SessionBooks, StatusTells, StatusFollowsBalance, ActiveSessions
<1> QED
  BY <1>1, BooksInvariance, PTL
=============================================================================
