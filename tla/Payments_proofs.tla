--------------------------- MODULE Payments_proofs ---------------------------
(***************************************************************************)
(* Theorems about Payments, for any set of handlers, guests, references    *)
(* and amounts, in six parts, each on an inductive invariant of its own:   *)
(*                                                                         *)
(*   IInv   what each handler's place in the code, its locals and the      *)
(*          tables know of each other: credits are backed;                 *)
(*   MInv   IInv and the versions of a payment row, who wrote the one a    *)
(*          webhook read: what it takes to pay twice, and that a PAID row  *)
(*          is credited;                                                   *)
(*   CInv   IInv and the history of each contribution: columns agree and   *)
(*          tickets are paid for, unless a handler wrote over a version it *)
(*          had not read;                                                  *)
(*   ExactInv  beside CInv: the paid column of each contribution is the    *)
(*          sum of the amounts credited to it, with the same exceptions;   *)
(*   PayOnce   IInv and who is paying each payment: the pipeline           *)
(*          implements ContributionLedger unless a step writes over a PAID *)
(*          row or an unread version, or an edit sets the paid amount;     *)
(*   LInv   IInv and what handlers that do not overlap know of each other: *)
(*          they take no such step.                                        *)
(***************************************************************************)
EXTENDS Payments, FiniteSetTheorems, TLAPS

\* The shape of a request, and what a webhook's message knows of its charge.
RequestInv(h) ==
    /\ req[h].op = "pay" => req[h].ref \in Refs /\ req[h].amount \in Amounts
    /\ req[h].op = "edit" => req[h].edit \in Edits
    /\ req[h].op = "webhook" =>
          LET c == charges[req[h].charge] IN
          /\ req[h].charge \in Handlers
          /\ req[h].status \in WebhookStatus
          /\ c # None
          /\ req[h].guest = c.guest /\ req[h].amount = c.amount
          /\ req[h].ref \in {c.ref, None}
          /\ req[h].status # "PENDING" => c.outcome = req[h].status

\* Which operation is at which step.
ControlInv(h) ==
    /\ pc[h] = "idle" => /\ req[h] = None /\ pay[h] = None /\ bal[h] = None
                         /\ did[h] = {} /\ charges[h] = None
    /\ pc[h] # "idle" => req[h] # None
    /\ pc[h] \in {"lookup", "charge", "insert"} => req[h].op = "pay"
    /\ pc[h] = "insert" => charges[h] # None
    /\ pc[h] \in {"seen", "find", "mark", "credit", "pledges", "notify", "ack"} =>
          req[h].op = "webhook"
    /\ pc[h] = "save" => req[h].op = "edit"
    /\ pc[h] = "ticket" => req[h].op \in {"webhook", "edit"}
    /\ charges[h] # None => /\ req[h].op = "pay" /\ SameTerms(charges[h], req[h])
                            /\ pc[h] \in {"insert", "done", "failed"}

\* What the locals of a handler know of the tables.
LocalsInv(h) ==
    /\ pc[h] = "mark" => pay[h] # None /\ "marked" \notin did[h]
    /\ pc[h] \in {"seen", "find"} => pay[h] = None /\ bal[h] = None /\ "marked" \notin did[h]
    /\ pc[h] \in {"mark", "ack"} \/ "marked" \in did[h] => pay[h] # None
    /\ pay[h] # None => /\ req[h] # None /\ req[h].op = "webhook"
                        /\ payments[pay[h].ref] # None
                        /\ SameTerms(payments[pay[h].ref], pay[h])
                        /\ SameTerms(charges[req[h].charge], pay[h])
    /\ pc[h] \in {"credit", "save"} => bal[h] # None
    /\ bal[h] # None => contrib[Who(h)] # None

\* What a handler has done.
DidInv(h) ==
    /\ "inserted" \in did[h] => req[h].op = "pay"
    /\ "credited" \in did[h] => "marked" \in did[h] /\ req[h].status = "PAID"
    /\ pc[h] \in {"ensure", "create", "credit", "ticket", "pledges", "notify"}
       /\ req[h].op = "webhook" => "marked" \in did[h] /\ req[h].status = "PAID"
    /\ pc[h] = "done" /\ charges[h] # None =>
          /\ payments[charges[h].ref] # None
          /\ SameTerms(charges[h], payments[charges[h].ref])

RowInv(r) ==
    payments[r] # None =>
        /\ payments[r].ref = r
        /\ charges[payments[r].charge] # None
        /\ SameTerms(charges[payments[r].charge], payments[r])

HandlerInv(h) ==
    (req[h] # None => RequestInv(h)) /\ ControlInv(h) /\ LocalsInv(h) /\ DidInv(h)

IInv ==
    /\ TypeOK
    /\ \A h \in Handlers : HandlerInv(h)
    /\ \A r \in Refs : RowInv(r)

-----------------------------------------------------------------------------
\* The first invariant holds at the start: nobody has asked for anything.
LEMMA InitIInv == Init => IInv
  BY PaymentsAssumption DEF Init, IInv, TypeOK, HandlerInv, RequestInv, ControlInv, LocalsInv,
     DidInv, RowInv, Step, Final

-----------------------------------------------------------------------------
(* Framing: the tables only grow, and a step changes one handler's locals.  *)

\* Rows and charges keep their terms and never disappear, a closed charge stays
\* closed, and only handler h may get a charge.
Grows(h) ==
    /\ \A c \in Handlers : charges[c] # None =>
          /\ charges'[c] # None /\ SameTerms(charges'[c], charges[c])
          /\ charges[c].outcome # "PENDING" => charges'[c].outcome = charges[c].outcome
    /\ \A c \in Handlers \ {h} : charges[c] = None => charges'[c] = None
    /\ \A r \in Refs : payments[r] # None =>
          payments'[r] # None /\ SameTerms(payments'[r], payments[r])
    /\ \A g \in Guests : contrib[g] # None => contrib'[g] # None

SameLocals(k) ==
    /\ pc'[k] = pc[k] /\ req'[k] = req[k] /\ pay'[k] = pay[k]
    /\ bal'[k] = bal[k] /\ did'[k] = did[k]

\* A handler that does not move keeps its invariant while the tables grow.
LEMMA FrameHandler ==
    ASSUME IInv, NEW h, Grows(h), NEW k \in Handlers \ {h}, SameLocals(k)
    PROVE  HandlerInv(k)'
  <1> USE DEF IInv, HandlerInv, SameLocals
  <1>1. (req[k] # None => RequestInv(k))'
    BY DEF RequestInv, Grows, SameTerms
  <1>2. ControlInv(k)'
    BY DEF ControlInv, Grows, SameTerms
  <1>3. LocalsInv(k)'
    <2>1. CASE pay[k] = None
      BY <2>1 DEF LocalsInv, ControlInv, Grows, Who, TypeOK, Request
    <2>2. CASE pay[k] # None
      <3>1. pay[k] \in PaymentRow /\ req[k] \in Request /\ RequestInv(k)
        BY <2>2 DEF LocalsInv, TypeOK
      <3>2. pay[k].ref \in Refs /\ pay[k].guest \in Guests /\ req[k].charge \in Handlers
        BY <3>1, <2>2 DEF PaymentRow, RequestInv, LocalsInv
      <3> QED
        BY <2>2, <3>1, <3>2 DEF LocalsInv, RequestInv, Grows, SameTerms, Who
    <2> QED
      BY <2>1, <2>2
  <1>4. DidInv(k)'
    BY DEF DidInv, ControlInv, Grows, SameTerms, TypeOK, Charge
  <1> QED
    BY <1>1, <1>2, <1>3, <1>4

\* A row that is not written keeps its invariant while the tables grow.
LEMMA FrameRow ==
    ASSUME IInv, NEW h, Grows(h), NEW r \in Refs, payments'[r] = payments[r]
    PROVE  RowInv(r)'
  BY DEF IInv, RowInv, Grows, SameTerms, TypeOK, PaymentRow

\* A step that leaves the three tables alone is one in which they grow.
LEMMA FrameTables ==
    ASSUME UNCHANGED <<payments, contrib, charges>>, NEW h
    PROVE  Grows(h)
  BY DEF Grows, SameTerms

\* Putting the parts of a step of handler h together.
LEMMA StepIInv ==
    ASSUME IInv, TypeOK', NEW h \in Handlers, Grows(h), UNCHANGED payments,
           HandlerInv(h)', \A k \in Handlers \ {h} : SameLocals(k)
    PROVE  IInv'
  <1>1. \A k \in Handlers \ {h} : HandlerInv(k)'
    BY FrameHandler
  <1>2. \A r \in Refs : RowInv(r)'
    BY FrameRow
  <1> QED
    BY <1>1, <1>2 DEF IInv

-----------------------------------------------------------------------------
(* Steps that only move a handler.                                          *)

Moves(h) ==
    \/ EnsureMissing(h) \/ EnsureConflict(h) \/ LookupExisting(h) \/ LookupNew(h)
    \/ InsertConflict(h) \/ SeenDuplicate(h) \/ NotSeen(h) \/ RejectWebhook(h)
    \/ GuestGone(h) \/ Abort(h)

\* A step that only moves the handler on preserves the invariant.
LEMMA MovesIInv ==
    ASSUME IInv, NEW h \in Handlers, Moves(h)
    PROVE  IInv'
  <1>1. /\ UNCHANGED <<tables, req, pay, bal, did>>
        /\ pc' = [pc EXCEPT ![h] = pc'[h]]
        /\ pc[h] \in Step
        /\ \/ pc'[h] = "failed"
           \/ pc[h] = "ensure" /\ pc'[h] = "create"
           \/ pc[h] = "lookup" /\ pc'[h] \in {"done", "charge"}
           \/ pc[h] = "seen" /\ pc'[h] \in {"done", "find"}
    BY DEF Moves, EnsureMissing, EnsureConflict, LookupExisting, LookupNew, InsertConflict,
       SeenDuplicate, NotSeen, RejectWebhook, GuestGone, Abort, Goto, Step, IInv, TypeOK
  <1>2. TypeOK'
    BY <1>1 DEF IInv, TypeOK, tables, Step, Final
  <1>3. Grows(h)
    BY <1>1, FrameTables DEF tables
  <1>4. \A k \in Handlers \ {h} : SameLocals(k)
    BY <1>1 DEF SameLocals, IInv, TypeOK
  <1>5. HandlerInv(h)'
    <2> USE <1>1 DEF IInv, HandlerInv, tables
    <2>0. pc'[h] = pc'[h] /\ req'[h] = req[h] /\ pay'[h] = pay[h] /\ bal'[h] = bal[h]
          /\ did'[h] = did[h] /\ Who(h)' = Who(h)
      BY DEF Who
    <2>1. (req[h] # None => RequestInv(h))'
      BY DEF RequestInv
    <2>2. ControlInv(h)'
      BY DEF ControlInv, Step
    <2>3. LocalsInv(h)'
      BY <2>0 DEF LocalsInv, Step
    <2>4. DidInv(h)'
      BY <2>0 DEF DidInv, ControlInv, Step
    <2> QED
      BY <2>1, <2>2, <2>3, <2>4
  <1> QED
    BY <1>1, <1>2, <1>3, <1>4, <1>5, StepIInv DEF tables

-----------------------------------------------------------------------------
(* Requests arrive.                                                         *)

\* What a handler knows of the request it accepts at its first step.
Fresh(first, request) ==
    /\ request \in Request
    /\ \/ /\ first = "ensure" /\ request.op \in {"pay", "edit", "balance"}
          /\ request.op = "pay" => request.ref \in Refs /\ request.amount \in Amounts
          /\ request.op = "edit" => request.edit \in Edits
       \/ /\ first = "seen" /\ request.op = "webhook"
          /\ request.charge \in Handlers /\ charges[request.charge] # None
          /\ request.status \in WebhookStatus
          /\ request.guest = charges[request.charge].guest
          /\ request.amount = charges[request.charge].amount
          /\ request.ref \in {charges[request.charge].ref, None}
          /\ request.status # "PENDING" => charges[request.charge].outcome = request.status

\* Whoever arrives is accepted with a request whose terms are those of the tables.
LEMMA ArriveFresh ==
    ASSUME IInv, NEW h \in Handlers, Arrive(h)
    PROVE  \E first, request : Accept(h, first, request) /\ Fresh(first, request)
  <1>1. CASE RequestPayment(h)
    <2>1. PICK g \in Guests, r \in Refs, a \in Amounts :
             Accept(h, "ensure", [Blank("pay", g) EXCEPT !.ref = r, !.amount = a])
      BY <1>1 DEF RequestPayment
    <2>2. Fresh("ensure", [Blank("pay", g) EXCEPT !.ref = r, !.amount = a])
      BY DEF Fresh, Blank, Request, Op
    <2> QED
      BY <2>1, <2>2
  <1>2. CASE ReceiveWebhook(h)
    <2>1. PICK c \in Handlers : charges[c] # None /\
             \E s \in Reports(c), r \in {charges[c].ref, None} :
                Accept(h, "seen", [Blank("webhook", charges[c].guest) EXCEPT
                      !.ref = r, !.amount = charges[c].amount, !.charge = c, !.status = s])
      BY <1>2 DEF ReceiveWebhook
    <2>2. PICK s \in Reports(c), r \in {charges[c].ref, None} :
                Accept(h, "seen", [Blank("webhook", charges[c].guest) EXCEPT
                      !.ref = r, !.amount = charges[c].amount, !.charge = c, !.status = s])
      BY <2>1
    <2>3. charges[c] \in Charge
      BY <2>1 DEF IInv, TypeOK
    <2>4. s \in WebhookStatus /\ s \in {"PENDING", charges[c].outcome}
      BY <2>3, PaymentsAssumption DEF Reports, Charge, WebhookStatus
    <2>5. Fresh("seen", [Blank("webhook", charges[c].guest) EXCEPT
                      !.ref = r, !.amount = charges[c].amount, !.charge = c, !.status = s])
      BY <2>1, <2>3, <2>4 DEF Fresh, Blank, Request, Op, Charge
    <2> QED
      BY <2>2, <2>5
  <1>3. CASE RequestEdit(h)
    <2>1. PICK g \in Guests, e \in Edits :
             Accept(h, "ensure", [Blank("edit", g) EXCEPT !.edit = e])
      BY <1>3 DEF RequestEdit
    <2>2. Fresh("ensure", [Blank("edit", g) EXCEPT !.edit = e])
      BY DEF Fresh, Blank, Request, Op
    <2> QED
      BY <2>1, <2>2
  <1>4. CASE RequestBalance(h)
    <2>1. PICK g \in Guests : Accept(h, "ensure", Blank("balance", g))
      BY <1>4 DEF RequestBalance
    <2>2. Fresh("ensure", Blank("balance", g))
      BY DEF Fresh, Blank, Request, Op
    <2> QED
      BY <2>1, <2>2
  <1> QED
    BY <1>1, <1>2, <1>3, <1>4 DEF Arrive

\* An arriving request or webhook preserves the invariant.
LEMMA ArriveIInv ==
    ASSUME IInv, NEW h \in Handlers, Arrive(h)
    PROVE  IInv'
  <1>1. PICK first, request : Accept(h, first, request) /\ Fresh(first, request)
    BY ArriveFresh
  <1>2. /\ pc[h] = "idle" /\ pc' = [pc EXCEPT ![h] = first]
        /\ req' = [req EXCEPT ![h] = request] /\ UNCHANGED <<tables, pay, bal, did>>
    BY <1>1 DEF Accept, Goto
  <1>3. TypeOK'
    BY <1>1, <1>2 DEF Fresh, IInv, TypeOK, tables, Step
  <1>4. Grows(h)
    BY <1>2, FrameTables DEF tables
  <1>5. \A k \in Handlers \ {h} : SameLocals(k)
    BY <1>2 DEF SameLocals, IInv, TypeOK
  <1>6. HandlerInv(h)'
    <2>1. /\ req'[h] = request /\ pc'[h] = first /\ pay'[h] = None /\ bal'[h] = None
          /\ did'[h] = {} /\ charges[h] = None /\ request # None
      BY <1>1, <1>2, NoneAssumption DEF Fresh, IInv, TypeOK, HandlerInv, ControlInv
    <2>2. RequestInv(h)'
      BY <1>1, <1>2, <2>1 DEF Fresh, RequestInv, tables
    <2>3. ControlInv(h)' /\ LocalsInv(h)' /\ DidInv(h)'
      BY <1>1, <1>2, <2>1 DEF Fresh, ControlInv, LocalsInv, DidInv, tables
    <2> QED
      BY <2>2, <2>3 DEF HandlerInv
  <1> QED
    BY <1>2, <1>3, <1>4, <1>5, <1>6, StepIInv DEF tables

-----------------------------------------------------------------------------
(* ensureForGuest                                                           *)

\* Where ensureForGuest returns to fits the kind of the request.
LEMMA AfterEnsureStep ==
    ASSUME IInv, NEW h \in Handlers, pc[h] \in {"ensure", "create"}, NEW row
    PROVE  /\ AfterEnsure(h, row) \in {"credit", "save", "done", "lookup", "failed"}
           /\ AfterEnsure(h, row) = "credit" => req[h].op = "webhook"
           /\ AfterEnsure(h, row) = "save" => req[h].op = "edit"
           /\ AfterEnsure(h, row) = "lookup" => req[h].op = "pay"
           /\ AfterEnsure(h, row) = "done" => req[h].op = "balance"
  <1>1. req[h] \in Request /\ req[h].op \in {"pay", "webhook", "edit", "balance"}
    BY DEF IInv, TypeOK, HandlerInv, ControlInv, Request, Op
  <1> QED
    BY <1>1 DEF AfterEnsure

\* Common part of EnsureFound and EnsureCreate: the handler now holds the row.
LEMMA HoldsRow ==
    ASSUME IInv, NEW h \in Handlers, pc[h] \in {"ensure", "create"}, NEW row \in ContribRow,
           contrib'[Who(h)] # None, Grows(h), UNCHANGED <<payments, charges, req, pay>>,
           bal' = [bal EXCEPT ![h] = row], pc' = [pc EXCEPT ![h] = AfterEnsure(h, row)],
           did'[h] \in {did[h], did[h] \cup {"created"}}
    PROVE  HandlerInv(h)'
  <1>1. /\ pc'[h] = AfterEnsure(h, row) /\ bal'[h] = row /\ row # None /\ Who(h)' = Who(h)
        /\ req[h] # None /\ charges[h] = None
        /\ "marked" \in did'[h] <=> "marked" \in did[h]
        /\ "credited" \in did'[h] <=> "credited" \in did[h]
        /\ "inserted" \in did'[h] <=> "inserted" \in did[h]
    BY NoneAssumption DEF IInv, TypeOK, HandlerInv, ControlInv, Who
  <1>2. RequestInv(h)'
    BY <1>1 DEF IInv, HandlerInv, RequestInv
  <1>3. ControlInv(h)'
    BY <1>1, AfterEnsureStep DEF IInv, HandlerInv, ControlInv
  <1>4. LocalsInv(h)'
    BY <1>1, AfterEnsureStep DEF IInv, HandlerInv, LocalsInv
  <1>5. DidInv(h)'
    BY <1>1, AfterEnsureStep DEF IInv, HandlerInv, DidInv
  <1> QED
    BY <1>1, <1>2, <1>3, <1>4, <1>5 DEF HandlerInv

\* The guest a running handler works for is one of the event's guests.
LEMMA WhoType ==
    ASSUME IInv, NEW h \in Handlers, pc[h] # "idle"
    PROVE  Who(h) \in Guests
  BY DEF IInv, TypeOK, HandlerInv, ControlInv, Who, Request, PaymentRow

\* Finding the contribution row preserves the invariant.
LEMMA EnsureFoundIInv ==
    ASSUME IInv, NEW h \in Handlers, EnsureFound(h)
    PROVE  IInv'
  <1>1. Who(h) \in Guests /\ contrib[Who(h)] \in ContribRow
    BY WhoType DEF EnsureFound, IInv, TypeOK
  <1>2. Grows(h)
    BY FrameTables DEF EnsureFound, tables
  <1>3. TypeOK'
    BY <1>1, AfterEnsureStep DEF EnsureFound, IInv, TypeOK, tables, Step, Final
  <1>4. HandlerInv(h)'
    BY <1>1, <1>2, HoldsRow DEF EnsureFound, tables
  <1>5. \A k \in Handlers \ {h} : SameLocals(k)
    BY DEF EnsureFound, SameLocals, IInv, TypeOK
  <1> QED
    BY <1>2, <1>3, <1>4, <1>5, StepIInv DEF EnsureFound, tables

\* Inserting the contribution row preserves the invariant.
LEMMA EnsureCreateIInv ==
    ASSUME IInv, NEW h \in Handlers, EnsureCreate(h)
    PROVE  IInv'
  <1>1. Who(h) \in Guests /\ NewRow \in ContribRow /\ NewRow # None
    BY WhoType, PaymentsAssumption, NoneAssumption
    DEF EnsureCreate, NewRow, FreshRow, ContribRow, ContributionStatus
  <1>2. Grows(h) /\ contrib'[Who(h)] = NewRow
    BY <1>1 DEF EnsureCreate, Grows, SameTerms, IInv, TypeOK
  <1>3. TypeOK'
    BY <1>1, AfterEnsureStep DEF EnsureCreate, Do, IInv, TypeOK, Step, Final, Effect
  <1>4. HandlerInv(h)'
    BY <1>1, <1>2, HoldsRow DEF EnsureCreate, Do, IInv, TypeOK
  <1>5. \A k \in Handlers \ {h} : SameLocals(k)
    BY DEF EnsureCreate, Do, SameLocals, IInv, TypeOK
  <1> QED
    BY <1>2, <1>3, <1>4, <1>5, StepIInv DEF EnsureCreate

-----------------------------------------------------------------------------
(* createPaymentRequest                                                     *)

\* Opening a charge on the request's terms preserves the invariant.
LEMMA OpenChargeIInv ==
    ASSUME IInv, NEW h \in Handlers, OpenCharge(h)
    PROVE  IInv'
  <1> USE DEF OpenCharge, Goto
  <1>1. /\ pc[h] = "charge" /\ pc'[h] = "insert" /\ charges[h] = None
        /\ req[h] \in Request /\ req[h].ref \in Refs /\ req[h].amount \in Amounts
        /\ req[h].op = "pay" /\ pay[h] = None
    BY DEF IInv, TypeOK, HandlerInv, ControlInv, RequestInv, LocalsInv
  <1>2. charges'[h] \in Charge /\ charges'[h] # None /\ SameTerms(charges'[h], req[h])
    BY <1>1, NoneAssumption DEF Charge, Request, SameTerms, IInv, TypeOK
  <1>3. TypeOK'
    BY <1>1, <1>2 DEF IInv, TypeOK, Step
  <1>4. Grows(h)
    BY <1>1 DEF Grows, SameTerms, IInv, TypeOK
  <1>5. \A k \in Handlers \ {h} : SameLocals(k)
    BY DEF SameLocals, IInv, TypeOK
  <1>6. HandlerInv(h)'
    BY <1>1, <1>2 DEF IInv, HandlerInv, RequestInv, ControlInv, LocalsInv, DidInv, Who
  <1> QED
    BY <1>3, <1>4, <1>5, <1>6, StepIInv

\* The payment row is inserted with the terms of the charge that was opened for it.
LEMMA InsertPaymentIInv ==
    ASSUME IInv, NEW h \in Handlers, InsertPayment(h)
    PROVE  IInv'
  <1> USE DEF InsertPayment, Goto
  <1> DEFINE q == req[h].ref
  <1>1. /\ pc[h] = "insert" /\ pc'[h] = "done" /\ req[h] \in Request /\ req[h] # None
        /\ q \in Refs /\ req[h].amount \in Amounts /\ req[h].op = "pay" /\ payments[q] = None
        /\ pay[h] = None /\ "inserted" \in Effect
    BY DEF IInv, TypeOK, HandlerInv, ControlInv, RequestInv, LocalsInv, ReferenceFree, Effect
  <1>2. /\ payments'[q] \in PaymentRow /\ payments'[q] # None
        /\ payments'[q].ref = q /\ payments'[q].charge = h /\ SameTerms(payments'[q], req[h])
    BY <1>1, NoneAssumption DEF PaymentRow, Request, WebhookStatus, SameTerms, IInv, TypeOK
  <1>3. TypeOK'
    BY <1>1, <1>2 DEF Do, IInv, TypeOK, Final
  <1>4. Grows(h)
    BY <1>1 DEF Grows, SameTerms, IInv, TypeOK
  <1>5. \A k \in Handlers \ {h} : SameLocals(k)
    BY DEF Do, SameLocals, IInv, TypeOK
  <1>6. HandlerInv(h)'
    BY <1>1, <1>2 DEF Do, IInv, TypeOK, HandlerInv, RequestInv, ControlInv, LocalsInv, DidInv,
       Who, SameTerms
  <1>7. ASSUME NEW r \in Refs PROVE RowInv(r)'
    <2>1. CASE r = q
      <3>1. charges[h] # None => SameTerms(charges[h], req[h])
        BY DEF IInv, HandlerInv, ControlInv
      <3>2. charges[h] # None
        BY <1>1 DEF IInv, HandlerInv, ControlInv
      <3> QED
        BY <2>1, <1>2, <3>1, <3>2 DEF RowInv, SameTerms
    <2>2. CASE r # q
      BY <1>4, <2>2, FrameRow DEF IInv, TypeOK
    <2> QED
      BY <2>1, <2>2
  <1> QED
    BY <1>3, <1>4, <1>5, <1>6, <1>7, FrameHandler DEF IInv

-----------------------------------------------------------------------------
(* handleWebhook                                                            *)

\* The row a webhook finds has the terms of its message: the payload was compared.
LEMMA FindPaymentIInv ==
    ASSUME IInv, NEW h \in Handlers, FindPayment(h)
    PROVE  IInv'
  <1> USE DEF FindPayment
  <1>1. PICK r \in Matching(req[h]) :
          /\ InContext(payments[r], req[h])
          /\ pay' = [pay EXCEPT ![h] = payments[r]]
          /\ pc' = [pc EXCEPT ![h] = IF AlreadyPaid(payments[r], req[h]) THEN "ack" ELSE "mark"]
    OBVIOUS
  <1>2. /\ r \in Refs /\ payments[r] # None /\ payments[r] \in PaymentRow
        /\ pay'[h] = payments[r] /\ pc'[h] \in {"mark", "ack"} /\ pc[h] = "find"
        /\ req[h] # None /\ req[h].op = "webhook" /\ req[h] \in Request
        /\ payments[r].ref = r
    BY <1>1 DEF Matching, IInv, TypeOK, HandlerInv, ControlInv, RowInv
  <1>3. SameTerms(charges[req[h].charge], payments[r])
    BY <1>1, <1>2, PaymentsAssumption
    DEF Matching, InContext, SameTerms, IInv, HandlerInv, RequestInv, RowInv, TypeOK, Charge
  <1>4. TypeOK'
    BY <1>1, <1>2 DEF IInv, TypeOK, tables, Step
  <1>5. Grows(h)
    BY FrameTables DEF tables
  <1>6. \A k \in Handlers \ {h} : SameLocals(k)
    BY <1>1 DEF SameLocals, IInv, TypeOK
  <1>7. HandlerInv(h)'
    <2>1. bal[h] = None /\ charges[h] = None /\ "marked" \notin did[h] /\ "inserted" \notin did[h]
      BY <1>2 DEF IInv, HandlerInv, LocalsInv, ControlInv, DidInv
    <2>2. RequestInv(h)' /\ ControlInv(h)'
      BY <1>2, <2>1 DEF IInv, HandlerInv, RequestInv, ControlInv, tables
    <2>3. SameTerms(payments[r], payments[r])
      BY DEF SameTerms
    <2>4. LocalsInv(h)'
      BY <1>2, <1>3, <2>1, <2>3 DEF LocalsInv, tables
    <2>5. DidInv(h)'
      BY <1>2, <2>1 DEF IInv, HandlerInv, DidInv, tables
    <2> QED
      BY <2>2, <2>4, <2>5 DEF HandlerInv
  <1> QED
    BY <1>4, <1>5, <1>6, <1>7, StepIInv DEF tables

\* Marking a row changes neither its guest nor its amount, so that it still agrees
\* with its charge and with what other handlers have read.
LEMMA MarkPaymentIInv ==
    ASSUME IInv, NEW h \in Handlers, MarkPayment(h)
    PROVE  IInv'
  <1> USE DEF MarkPayment, Goto
  <1> DEFINE q == pay[h].ref
             c == charges[req[h].charge]
  <1>0. /\ pc[h] = "mark" /\ pay[h] # None /\ pay[h] \in PaymentRow /\ q \in Refs
        /\ req[h] # None /\ req[h].op = "webhook"
        /\ payments[q] # None /\ SameTerms(c, pay[h])
    BY DEF IInv, TypeOK, HandlerInv, ControlInv, LocalsInv, PaymentRow
  <1>1. /\ pc[h] = "mark" /\ pay[h] # None /\ pay[h] \in PaymentRow /\ q \in Refs
        /\ req[h] # None /\ req[h].op = "webhook" /\ req[h].charge \in Handlers
        /\ req[h].status \in WebhookStatus
        /\ payments[q] # None /\ payments[q] \in PaymentRow /\ payments[q].ref = q
        /\ c # None /\ c \in Charge /\ SameTerms(c, pay[h])
    <2>1. req[h].charge \in Handlers /\ req[h].status \in WebhookStatus /\ c # None
      BY <1>0 DEF IInv, HandlerInv, RequestInv
    <2>2. payments[q] \in PaymentRow /\ payments[q].ref = q /\ c \in Charge
      BY <1>0, <2>1 DEF IInv, TypeOK, RowInv
    <2> QED
      BY <1>0, <2>1, <2>2
  <1> DEFINE row == [ref |-> payments[q].ref, guest |-> payments[q].guest,
                     amount |-> payments[q].amount, status |-> req[h].status,
                     charge |-> req[h].charge, by |-> h]
  <1>2. payments' = [payments EXCEPT ![q] = row]
    OBVIOUS
  <1>3. /\ payments'[q] \in PaymentRow /\ payments'[q] # None
        /\ SameTerms(payments'[q], payments[q]) /\ payments'[q].charge = req[h].charge
    <2>1. payments'[q] = row
      BY <1>1, <1>2 DEF IInv, TypeOK
    <2> HIDE DEF q
    <2>2. row \in PaymentRow
      BY <1>1 DEF PaymentRow
    <2>3. SameTerms(row, payments[q]) /\ row.charge = req[h].charge
      BY DEF SameTerms
    <2> QED
      BY <2>1, <2>2, <2>3, NoneAssumption
  <1>4. SameTerms(c, payments[q])
    <2>1. SameTerms(payments[q], pay[h])
      BY <1>1 DEF IInv, HandlerInv, LocalsInv
    <2> QED
      BY <1>1, <2>1 DEF SameTerms
  <1>5. TypeOK'
    BY <1>1, <1>2, <1>3 DEF Do, Effect, IInv, TypeOK, Step
  <1>6. Grows(h)
    BY <1>1, <1>2, <1>3 DEF Grows, SameTerms, IInv, TypeOK
  <1>7. \A k \in Handlers \ {h} : SameLocals(k)
    BY DEF Do, SameLocals, IInv, TypeOK
  <1>8. HandlerInv(h)'
    <2>1. /\ pc'[h] = (IF req[h].status = "PAID" THEN "ensure" ELSE "ack")
          /\ did'[h] = did[h] \cup {"marked"} /\ charges[h] = None /\ Who(h)' = Who(h)
      BY <1>1 DEF Do, IInv, TypeOK, HandlerInv, ControlInv, Who
    <2>2. RequestInv(h)' /\ ControlInv(h)'
      BY <1>1, <2>1 DEF IInv, HandlerInv, RequestInv, ControlInv
    <2>3. LocalsInv(h)'
      BY SMTT(60), <1>1, <1>3, <1>4, <2>1 DEF IInv, HandlerInv, LocalsInv, SameTerms
    <2>4. DidInv(h)'
      BY SMTT(60), <1>1, <1>3, <1>4, <2>1 DEF IInv, HandlerInv, LocalsInv, DidInv, SameTerms
    <2> QED
      BY <2>2, <2>3, <2>4 DEF HandlerInv
  <1>9. ASSUME NEW r \in Refs PROVE RowInv(r)'
    <2>1. CASE r = q
      BY <2>1, <1>1, <1>3, <1>4 DEF RowInv, SameTerms
    <2>2. CASE r # q
      BY <1>2, <1>6, <2>2, FrameRow DEF IInv, TypeOK
    <2> QED
      BY <2>1, <2>2
  <1> QED
    BY <1>5, <1>6, <1>7, <1>8, <1>9, FrameHandler DEF IInv

\* Steps after which the handler keeps its locals and has only done more.
LEMMA Continues ==
    ASSUME IInv, NEW h \in Handlers, Grows(h), UNCHANGED <<payments, charges, req, pay, bal>>,
           pc[h] \in {"credit", "save", "ticket", "pledges", "notify", "ack"},
           pc'[h] \in {"ticket", "pledges", "notify", "ack", "done"},
           pc'[h] # "done" /\ pc'[h] # "ticket" => req[h].op = "webhook",
           pc'[h] = "ticket" => pc[h] \in {"credit", "save"},
           pc[h] = "notify" <=> pc'[h] = "ack",
           pc[h] = "ack" => pc'[h] = "done",
           did[h] \subseteq did'[h],
           did'[h] \subseteq did[h] \cup {"credited", "saved", "stale", "ticketed", "notified"},
           "credited" \in did'[h] => "credited" \in did[h] \/ pc[h] = "credit"
    PROVE  HandlerInv(h)'
  <1>1. /\ req[h] # None /\ charges[h] = None /\ Who(h)' = Who(h)
        /\ "marked" \in did'[h] <=> "marked" \in did[h]
        /\ "inserted" \in did'[h] <=> "inserted" \in did[h]
    BY DEF IInv, HandlerInv, ControlInv, Who
  <1>2. Who(h) \in Guests
    BY WhoType
  <1>3. RequestInv(h)'
    BY <1>1 DEF IInv, HandlerInv, RequestInv
  <1>4. ControlInv(h)'
    BY <1>1 DEF IInv, HandlerInv, ControlInv
  <1>5. LocalsInv(h)'
    <2>1. "marked" \in did[h] => pay[h] # None
      BY DEF IInv, HandlerInv, LocalsInv
    <2>2. pc'[h] = "ack" => "marked" \in did[h]
      BY DEF IInv, HandlerInv, ControlInv, DidInv
    <2>3. pay[h] # None => /\ req[h].op = "webhook" /\ payments[pay[h].ref] # None
                           /\ SameTerms(payments[pay[h].ref], pay[h])
                           /\ SameTerms(charges[req[h].charge], pay[h])
      BY DEF IInv, HandlerInv, LocalsInv
    <2>4. bal[h] # None => contrib'[Who(h)] # None
      BY <1>2 DEF IInv, HandlerInv, LocalsInv, Grows
    <2> QED
      BY <1>1, <2>1, <2>2, <2>3, <2>4 DEF LocalsInv
  <1>6. DidInv(h)'
    <2>1. /\ "inserted" \in did[h] => req[h].op = "pay"
          /\ "credited" \in did[h] => "marked" \in did[h] /\ req[h].status = "PAID"
          /\ pc[h] \in {"credit", "ticket", "pledges", "notify"} /\ req[h].op = "webhook"
             => "marked" \in did[h] /\ req[h].status = "PAID"
          /\ pc[h] = "credit" => req[h].op = "webhook"
          /\ pc[h] = "save" => req[h].op = "edit"
      BY DEF IInv, HandlerInv, DidInv, ControlInv
    <2> QED
      BY <1>1, <2>1 DEF DidInv
  <1> QED
    BY <1>1, <1>3, <1>4, <1>5, <1>6 DEF HandlerInv

\* computeStatus returns a status and a remainder that is no debt.
LEMMA RulesType ==
    ASSUME NEW required \in Nat, NEW paid \in Nat, NEW waived \in BOOLEAN
    PROVE  /\ ComputeStatus(required, paid, waived).status \in ContributionStatus
           /\ ComputeStatus(required, paid, waived).remaining \in Nat
  BY DEF ComputeStatus, Remaining, ContributionStatus

\* The row CreditContribution writes.
LEMMA CreditedRow ==
    ASSUME IInv, NEW h \in Handlers, CreditContribution(h)
    PROVE  /\ Who(h) \in Guests
           /\ contrib[Who(h)] \in ContribRow /\ bal[h] \in ContribRow
           /\ contrib'[Who(h)] \in ContribRow
           /\ contrib' = [contrib EXCEPT ![Who(h)] = contrib'[Who(h)]]
           /\ contrib'[Who(h)] = [required |-> contrib[Who(h)].required, paid |-> PaidAfter(h),
                                  remaining |-> Assessed(h).remaining,
                                  status |-> Assessed(h).status, by |-> h]
  <1>1. /\ pc[h] = "credit" /\ Who(h) \in Guests /\ bal[h] \in ContribRow
        /\ contrib[Who(h)] \in ContribRow /\ req[h].op = "webhook"
    BY WhoType DEF CreditContribution, Goto, IInv, TypeOK, HandlerInv, LocalsInv, ControlInv
  <1>2. req[h].amount \in Nat
    <2>1. /\ req[h].charge \in Handlers /\ charges[req[h].charge] # None
          /\ req[h].amount = charges[req[h].charge].amount
      BY <1>1 DEF IInv, HandlerInv, ControlInv, RequestInv
    <2> QED
      BY <2>1, PaymentsAssumption DEF IInv, TypeOK, Charge
  <1>3. PaidAfter(h) \in Nat /\ bal[h].required \in Nat
    BY <1>1, <1>2 DEF PaidAfter, ContribRow
  <1>4. Assessed(h).status \in ContributionStatus /\ Assessed(h).remaining \in Nat
    BY <1>3, RulesType DEF Assessed
  <1> QED
    BY <1>1, <1>3, <1>4 DEF CreditContribution, ContribRow, IInv, TypeOK

\* A credit preserves the invariant.
LEMMA CreditIInv ==
    ASSUME IInv, NEW h \in Handlers, CreditContribution(h)
    PROVE  IInv'
  <1> USE DEF CreditContribution, Goto
  <1>1. contrib'[Who(h)] \in ContribRow /\ contrib'[Who(h)] # None /\ Who(h) \in Guests
    BY CreditedRow, NoneAssumption
  <1>2. Overwrites(h) \subseteq {"stale"}
    BY DEF Overwrites
  <1>3. /\ pc'[h] \in {"ticket", "pledges"} /\ pc[h] = "credit" /\ req[h].op = "webhook"
        /\ did'[h] = did[h] \cup {"credited"} \cup Overwrites(h)
    BY DEF Do, IInv, TypeOK, HandlerInv, ControlInv
  <1>4. TypeOK'
    BY <1>1, <1>2, CreditedRow DEF Do, IInv, TypeOK, Step, Effect
  <1>5. Grows(h)
    BY <1>1 DEF Grows, SameTerms, IInv, TypeOK
  <1>6. \A k \in Handlers \ {h} : SameLocals(k)
    BY DEF Do, SameLocals, IInv, TypeOK
  <1>7. HandlerInv(h)'
    BY <1>2, <1>3, <1>5, Continues
  <1> QED
    BY <1>4, <1>5, <1>6, <1>7, StepIInv

\* The row SaveContribution writes.
LEMMA SavedRow ==
    ASSUME IInv, NEW h \in Handlers, SaveContribution(h)
    PROVE  /\ Who(h) \in Guests /\ bal[h] \in ContribRow
           /\ contrib'[Who(h)] \in ContribRow
           /\ contrib' = [contrib EXCEPT ![Who(h)] = contrib'[Who(h)]]
  <1> DEFINE e == req[h].edit
             required == Chosen(e.required, bal[h].required)
             paid == Chosen(e.paid, bal[h].paid)
  <1>1. /\ Who(h) \in Guests /\ bal[h] \in ContribRow /\ e \in Edits /\ req[h] # None
    BY WhoType
    DEF SaveContribution, Goto, IInv, TypeOK, HandlerInv, LocalsInv, ControlInv, RequestInv
  <1>2. required \in Nat /\ paid \in Nat /\ e.waive \in BOOLEAN
    BY <1>1, PaymentsAssumption DEF Edit, Chosen, Keep, ContribRow
  <1>3. /\ ComputeStatus(required, paid, e.waive).status \in ContributionStatus
        /\ ComputeStatus(required, paid, e.waive).remaining \in Nat
    BY <1>2, RulesType
  <1> HIDE DEF required, paid
  <1>4. [required |-> required, paid |-> paid,
         remaining |-> ComputeStatus(required, paid, e.waive).remaining,
         status |-> ComputeStatus(required, paid, e.waive).status, by |-> h] \in ContribRow
    BY <1>2, <1>3 DEF ContribRow
  <1> QED
    BY <1>1, <1>4 DEF SaveContribution, IInv, TypeOK, required, paid

\* An organizer's edit preserves the invariant.
LEMMA SaveIInv ==
    ASSUME IInv, NEW h \in Handlers, SaveContribution(h)
    PROVE  IInv'
  <1>1. contrib'[Who(h)] \in ContribRow /\ contrib'[Who(h)] # None /\ Who(h) \in Guests
    BY SavedRow, NoneAssumption
  <1>2. Overwrites(h) \subseteq {"stale"}
    BY DEF Overwrites
  <1>3. /\ pc[h] = "save" /\ pc'[h] \in {"ticket", "done"} /\ pc' = [pc EXCEPT ![h] = pc'[h]]
        /\ did' = [did EXCEPT ![h] = @ \cup {"saved"} \cup Overwrites(h)]
        /\ UNCHANGED <<payments, charges, seenKeys, visible, ticket, pledge, req, pay, bal>>
    BY DEF SaveContribution, Goto, Do, IInv, TypeOK
  <1>4. TypeOK'
    BY <1>1, <1>2, <1>3, SavedRow DEF IInv, TypeOK, Step, Final, Effect
  <1>5. Grows(h)
    BY <1>1, <1>3, SavedRow DEF Grows, SameTerms, IInv, TypeOK
  <1>6. \A k \in Handlers \ {h} : SameLocals(k)
    BY <1>3 DEF SameLocals, IInv, TypeOK
  <1>7. HandlerInv(h)'
    BY <1>2, <1>3, <1>5, Continues DEF IInv, TypeOK
  <1> QED
    BY <1>3, <1>4, <1>5, <1>6, <1>7, StepIInv

\* The steps that follow a credit touch only tables no other handler relies on.
LEMMA AftermathIInv ==
    ASSUME IInv, NEW h \in Handlers,
           IssueTicket(h) \/ SettlePledges(h) \/ NotifyGuest(h) \/ Acknowledge(h)
    PROVE  IInv'
  <1>1. /\ UNCHANGED <<payments, contrib, charges, visible, req, pay, bal>>
        /\ pc' = [pc EXCEPT ![h] = pc'[h]]
        /\ did' = [did EXCEPT ![h] = did'[h]]
        /\ \/ /\ pc[h] = "ticket" /\ pc'[h] \in {"pledges", "done"}
              /\ pc'[h] = "pledges" => req[h].op = "webhook"
           \/ pc[h] = "pledges" /\ pc'[h] = "notify" /\ req[h].op = "webhook"
           \/ pc[h] = "notify" /\ pc'[h] = "ack" /\ req[h].op = "webhook"
           \/ pc[h] = "ack" /\ pc'[h] = "done"
        /\ did[h] \subseteq did'[h] /\ did'[h] \subseteq did[h] \cup {"ticketed", "notified"}
        /\ Who(h) \in Guests
    <2>1. CASE IssueTicket(h)
      BY <2>1, WhoType DEF IssueTicket, Goto, Do, IInv, TypeOK
    <2>2. CASE SettlePledges(h)
      BY <2>2, WhoType DEF SettlePledges, Goto, IInv, TypeOK, HandlerInv, ControlInv
    <2>3. CASE NotifyGuest(h)
      BY <2>3, WhoType DEF NotifyGuest, Goto, Do, IInv, TypeOK, HandlerInv, ControlInv, tables
    <2>4. CASE Acknowledge(h)
      BY <2>4, WhoType DEF Acknowledge, Goto, IInv, TypeOK
    <2> QED
      BY <2>1, <2>2, <2>3, <2>4
  <1>2. seenKeys' \subseteq Handlers \X WebhookStatus
    <2>1. CASE Acknowledge(h)
      <3>1. req[h].charge \in Handlers /\ req[h].status \in WebhookStatus
        BY <2>1 DEF Acknowledge, Goto, IInv, HandlerInv, ControlInv, RequestInv
      <3> QED
        BY <2>1, <3>1 DEF Acknowledge, Key, IInv, TypeOK
    <2>2. CASE ~Acknowledge(h)
      BY <2>2 DEF IssueTicket, SettlePledges, NotifyGuest, tables, IInv, TypeOK
    <2> QED
      BY <2>1, <2>2
  <1>3. ticket' \subseteq Guests /\ pledge' \in [Guests -> {"ACTIVE", "PAID"}]
    BY <1>1 DEF IssueTicket, SettlePledges, NotifyGuest, Acknowledge, tables, IInv, TypeOK
  <1>4. TypeOK'
    BY <1>1, <1>2, <1>3 DEF IInv, TypeOK, Step, Final, Effect
  <1>5. Grows(h)
    BY <1>1, FrameTables
  <1>6. \A k \in Handlers \ {h} : SameLocals(k)
    BY <1>1 DEF SameLocals, IInv, TypeOK
  <1>7. HandlerInv(h)'
    BY <1>1, <1>5, Continues
  <1> QED
    BY <1>1, <1>4, <1>5, <1>6, <1>7, StepIInv

\* Deleted guests, expired keys and closed charges preserve the invariant.
LEMMA EnvironmentIInv ==
    ASSUME IInv, Environment
    PROVE  IInv'
  <1>1. UNCHANGED locals /\ UNCHANGED <<payments, contrib>>
    BY DEF Environment, CloseCharge, DeleteGuest, ExpireKey
  <1>2. /\ charges' \in [Handlers -> Charge \cup {None}]
        /\ \A c \in Handlers : charges[c] = None => charges'[c] = None
        /\ \A c \in Handlers : charges[c] # None =>
              /\ charges'[c] # None /\ SameTerms(charges'[c], charges[c])
              /\ charges[c].outcome # "PENDING" => charges'[c].outcome = charges[c].outcome
    <2>1. CASE \E c \in Handlers : CloseCharge(c)
      <3>1. PICK c \in Handlers, o \in Outcomes :
              /\ charges[c] # None /\ charges[c].outcome = "PENDING"
              /\ charges' = [charges EXCEPT ![c].outcome = o]
        BY <2>1 DEF CloseCharge
      <3>2. charges[c] \in Charge /\ charges \in [Handlers -> Charge \cup {None}]
        BY <3>1 DEF IInv, TypeOK
      <3>3. /\ charges'[c] = [charges[c] EXCEPT !.outcome = o]
            /\ \A k \in Handlers \ {c} : charges'[k] = charges[k]
        BY <3>1, <3>2
      <3>4. charges'[c] \in Charge /\ SameTerms(charges'[c], charges[c])
        BY <3>2, <3>3 DEF Charge, SameTerms
      <3> QED
        BY <3>1, <3>2, <3>3, <3>4, NoneAssumption DEF SameTerms
    <2>2. CASE UNCHANGED charges
      BY <2>2 DEF IInv, TypeOK, SameTerms
    <2> QED
      BY <2>1, <2>2 DEF Environment, DeleteGuest, ExpireKey
  <1>3. visible' \subseteq Guests /\ ticket' = ticket /\ pledge' = pledge
        /\ seenKeys' \subseteq Handlers \X WebhookStatus
    BY DEF Environment, CloseCharge, DeleteGuest, ExpireKey, IInv, TypeOK
  <1>4. TypeOK'
    BY <1>1, <1>2, <1>3 DEF IInv, TypeOK, locals
  <1>5. ASSUME NEW h \in Handlers PROVE HandlerInv(h)'
    <2>1. Grows(None)
      BY <1>1, <1>2 DEF Grows, SameTerms
    <2>2. SameLocals(h) /\ h # None
      BY <1>1, PaymentsAssumption DEF locals, SameLocals
    <2> QED
      BY <2>1, <2>2, FrameHandler
  <1>6. ASSUME NEW r \in Refs PROVE RowInv(r)'
    <2>1. Grows(None)
      BY <1>1, <1>2 DEF Grows, SameTerms
    <2> QED
      BY <1>1, <2>1, FrameRow
  <1> QED
    BY <1>4, <1>5, <1>6 DEF IInv

\* Every step preserves the first invariant.
LEMMA NextIInv == IInv /\ [Next]_vars => IInv'
  <1> SUFFICES ASSUME IInv, [Next]_vars PROVE IInv'
    OBVIOUS
  <1>1. ASSUME NEW h \in Handlers, Arrive(h) PROVE IInv'
    BY <1>1, ArriveIInv
  <1>2. ASSUME NEW h \in Handlers, Run(h) PROVE IInv'
    <2>1. CASE Moves(h)
      BY <2>1, MovesIInv
    <2>2. CASE EnsureFound(h) \/ EnsureCreate(h)
      BY <2>2, EnsureFoundIInv, EnsureCreateIInv
    <2>3. CASE OpenCharge(h) \/ InsertPayment(h)
      BY <2>3, OpenChargeIInv, InsertPaymentIInv
    <2>4. CASE FindPayment(h) \/ MarkPayment(h)
      BY <2>4, FindPaymentIInv, MarkPaymentIInv
    <2>5. CASE CreditContribution(h) \/ SaveContribution(h)
      BY <2>5, CreditIInv, SaveIInv
    <2>6. CASE IssueTicket(h) \/ SettlePledges(h) \/ NotifyGuest(h) \/ Acknowledge(h)
      BY <2>6, AftermathIInv
    <2> QED
      BY <1>2, <2>1, <2>2, <2>3, <2>4, <2>5, <2>6 DEF Run, Moves
  <1>3. ASSUME NEW h \in Handlers, Abort(h) PROVE IInv'
    BY <1>3, MovesIInv DEF Moves
  <1>4. CASE UNCHANGED vars
    <2>1. UNCHANGED locals /\ UNCHANGED tables
      BY <1>4 DEF vars
    <2> QED
      BY <2>1 DEF locals, tables, IInv, TypeOK, HandlerInv, RequestInv, ControlInv, LocalsInv,
         DidInv, RowInv, Who, SameTerms
  <1> QED
    BY <1>1, <1>2, <1>3, <1>4, EnvironmentIInv DEF Next

\* The first invariant holds in every reachable state.
LEMMA SpecIInv == Spec => []IInv
  BY InitIInv, NextIInv, PTL DEF Spec

-----------------------------------------------------------------------------
(* Theorems.                                                                *)

\* Tables and locals always hold rows of their type: no handler reads a field of
\* a row that is not there (the non-null assertions the code relies on).
THEOREM TypeCorrect == Spec => []TypeOK
  <1>1. IInv => TypeOK
    BY DEF IInv
  <1> QED
    BY <1>1, SpecIInv, PTL

\* Whatever the number of requests, however they interleave and wherever they
\* die, a contribution is credited only for a charge that was paid for it.
THEOREM CreditsAreBacked == Spec => []CreditBacked
  <1>1. IInv => CreditBacked
    <2> SUFFICES ASSUME IInv, NEW h \in Handlers, "credited" \in did[h]
                 PROVE  LET c == charges[req[h].charge] IN
                        c # None /\ c.outcome = "PAID" /\ SameTerms(c, pay[h])
      BY DEF CreditBacked
    <2>1. pay[h] # None /\ req[h].status = "PAID"
      BY DEF IInv, HandlerInv, DidInv, LocalsInv
    <2> QED
      BY <2>1 DEF IInv, HandlerInv, LocalsInv, RequestInv
  <1> QED
    BY <1>1, SpecIInv, PTL

\* Two requests racing with one idempotency key open two charges; the row always
\* has the terms of the charge it points at and of the request that was answered.
THEOREM RowsAgreeWithCharges == Spec => []RowsAndChargesAgree
  <1>1. IInv => RowsAndChargesAgree
    BY DEF RowsAndChargesAgree, IInv, RowInv, HandlerInv, DidInv
  <1> QED
    BY <1>1, SpecIInv, PTL

-----------------------------------------------------------------------------
(***************************************************************************)
(* Versions of a payment row.                                              *)
(***************************************************************************)

Wrote(h) == "inserted" \in did[h] \/ "marked" \in did[h]

\* What a handler knows of the version it read, and how far it got since.
WriterInv(h) ==
    /\ "inserted" \in did[h] => pc[h] = "done"
    /\ "marked" \in did[h] \/ pc[h] = "mark" => ~AlreadyPaid(pay[h], req[h])
    /\ pay[h] # None => Wrote(pay[h].by)
    /\ pay[h] # None /\ pay[h].by = payments[pay[h].ref].by =>
          pay[h].status = payments[pay[h].ref].status
    /\ "marked" \in did[h] /\ req[h].status = "PAID" =>
          "credited" \in did[h] \/ pc[h] \in {"ensure", "credit", "failed"}
    /\ pc[h] \in {"lookup", "charge", "insert"} => contrib[req[h].guest] # None
    /\ pc[h] = "create" => req[h].op # "webhook"

Regressed(r) == \E m \in Handlers : Marks(m, r) /\ req[m].status # "PAID"

ReadUnpaid(h, r) == pay[h] # None /\ pay[h].ref = r /\ pay[h].status # "PAID"

\* All the unpaid versions of a row that were read, and the row itself while it
\* is unpaid, are one version.
OneUnpaidVersion(r) ==
    /\ \A h, k \in Handlers : ReadUnpaid(h, r) /\ ReadUnpaid(k, r) => pay[h].by = pay[k].by
    /\ payments[r] # None /\ payments[r].status # "PAID" =>
          \A h \in Handlers : ReadUnpaid(h, r) => pay[h].by = payments[r].by

VersionInv(r) ==
    /\ payments[r] # None =>
          /\ Wrote(payments[r].by)
          /\ contrib[payments[r].guest] # None
          /\ payments[r].status = "PAID" => /\ Marks(payments[r].by, r)
                                            /\ req[payments[r].by].status = "PAID"
    /\ Regressed(r) \/ OneUnpaidVersion(r)

\* The inductive invariant: the first one, what handlers did to the versions they
\* read, and what is known of the versions of a payment row.
MInv ==
    /\ IInv
    /\ \A h \in Handlers : WriterInv(h)
    /\ \A r \in Refs : VersionInv(r)

-----------------------------------------------------------------------------
\* No row has a version at the start.
LEMMA InitMInv == Init => MInv
  <1> SUFFICES ASSUME Init PROVE MInv
    OBVIOUS
  <1>1. IInv
    BY InitIInv
  <1>2. \A h \in Handlers : WriterInv(h)
    BY DEF Init, WriterInv
  <1>3. \A r \in Refs : VersionInv(r)
    BY DEF Init, VersionInv, OneUnpaidVersion, ReadUnpaid
  <1> QED
    BY <1>1, <1>2, <1>3 DEF MInv

\* A step that writes no payment row, reads none and moves at most handler h,
\* whose request it may set if that handler was idle.
Quiet(h) ==
    /\ UNCHANGED <<payments, pay>>
    /\ \A k \in Handlers : /\ "inserted" \in did'[k] <=> "inserted" \in did[k]
                           /\ "marked" \in did'[k] <=> "marked" \in did[k]
    /\ \A k \in Handlers : k # h => SameLocals(k)
    /\ pc[h] # "idle" => req'[h] = req[h]
    /\ \A g \in Guests : contrib[g] # None => contrib'[g] # None

\* A quiet step preserves the invariant if the handler goes where its program says.
LEMMA QuietMInv ==
    ASSUME MInv, IInv', NEW h \in Handlers, Quiet(h),
           /\ "inserted" \in did[h] => pc'[h] = "done"
           /\ pc'[h] # "mark"
           /\ "marked" \in did[h] /\ req[h].status = "PAID" =>
                 "credited" \in did'[h] \/ pc'[h] \in {"ensure", "credit", "failed"}
           /\ pc'[h] \in {"lookup", "charge", "insert"} => contrib'[req[h].guest] # None
           /\ pc'[h] = "create" => req[h].op # "webhook",
           pc[h] = "idle" => pc'[h] \in {"ensure", "seen"}
    PROVE  MInv'
  <1>1. \A k \in Handlers : Wrote(k)' <=> Wrote(k)
    BY DEF Quiet, Wrote
  <1>2. \A k \in Handlers : pay[k] # None => pay[k].by \in Handlers
    BY DEF MInv, IInv, TypeOK, PaymentRow
  <1>3. \A k \in Handlers, r \in Refs : Marks(k, r)' <=> Marks(k, r)
    BY DEF Quiet, Marks
  <1>4. \A k \in Handlers : "marked" \in did[k] => req'[k] = req[k]
    BY DEF Quiet, SameLocals, MInv, IInv, HandlerInv, ControlInv
  <1>5. ASSUME NEW r \in Refs PROVE VersionInv(r)'
    <2>1. payments[r] # None => payments[r].by \in Handlers /\ payments[r].guest \in Guests
      BY DEF MInv, IInv, TypeOK, PaymentRow
    <2>2. Regressed(r) => Regressed(r)'
      BY <1>3, <1>4 DEF Regressed, Marks
    <2>3. OneUnpaidVersion(r) => OneUnpaidVersion(r)'
      BY DEF OneUnpaidVersion, ReadUnpaid, Quiet
    <2>4. VersionInv(r)
      BY DEF MInv
    <2>5. payments' = payments
      BY DEF Quiet
    <2>6. payments[r] # None /\ payments[r].status = "PAID" =>
             /\ Marks(payments[r].by, r)'
             /\ req'[payments[r].by].status = "PAID"
      <3> SUFFICES ASSUME payments[r] # None, payments[r].status = "PAID"
                   PROVE  Marks(payments[r].by, r)' /\ req'[payments[r].by].status = "PAID"
        OBVIOUS
      <3> DEFINE w == payments[r].by
      <3>1. w \in Handlers /\ w' = w /\ Marks(w, r) /\ req[w].status = "PAID"
        BY <2>1, <2>4, <2>5 DEF VersionInv
      <3> HIDE DEF w
      <3>2. "marked" \in did[w] /\ pay[w].ref = r
        BY <3>1 DEF Marks
      <3>3. "marked" \in did'[w] /\ pay'[w].ref = r /\ req'[w].status = "PAID"
        BY <1>4, <3>1, <3>2 DEF Quiet
      <3> QED
        BY <2>5, <3>1, <3>3 DEF Marks, w
    <2>7. payments[r] # None => Wrote(payments[r].by)' /\ contrib'[payments[r].guest] # None
      BY <1>1, <2>1, <2>4, <2>5 DEF VersionInv, Quiet
    <2> QED
      BY <2>2, <2>3, <2>4, <2>5, <2>6, <2>7 DEF VersionInv
  <1>6. ASSUME NEW k \in Handlers, k # h PROVE WriterInv(k)'
    <2>1. SameLocals(k) /\ WriterInv(k)
      BY <1>6 DEF Quiet, MInv
    <2>2. pc[k] \in {"lookup", "charge", "insert"} => req[k].guest \in Guests
      BY DEF MInv, IInv, TypeOK, HandlerInv, ControlInv, Request
    <2> QED
      BY <1>1, <1>2, <2>1, <2>2 DEF SameLocals, WriterInv, Quiet, AlreadyPaid
  <1>7. WriterInv(h)'
    <2>1. WriterInv(h)
      BY DEF MInv
    <2>2. CASE pc[h] = "idle"
      <3>1. /\ did[h] = {} /\ pay'[h] = None
            /\ "inserted" \notin did'[h] /\ "marked" \notin did'[h]
        BY <2>2 DEF MInv, IInv, HandlerInv, ControlInv, Quiet
      <3> QED
        BY <2>2, <3>1 DEF WriterInv
    <2>3. CASE pc[h] # "idle"
      <3>1. /\ req'[h] = req[h] /\ pay'[h] = pay[h] /\ payments' = payments
            /\ "marked" \in did'[h] <=> "marked" \in did[h]
            /\ "inserted" \in did'[h] <=> "inserted" \in did[h]
        BY <2>3 DEF Quiet
      <3> QED
        BY <1>1, <1>2, <2>1, <3>1 DEF WriterInv, AlreadyPaid
    <2> QED
      BY <2>2, <2>3
  <1> QED
    BY <1>5, <1>6, <1>7 DEF MInv

-----------------------------------------------------------------------------
(* The steps that write no payment row and read none.                       *)

\* The contribution rows never disappear.
LEMMA ContribStays ==
    ASSUME IInv, [Next]_vars, NEW g \in Guests, contrib[g] # None
    PROVE  contrib'[g] # None
  <1>1. ASSUME NEW h \in Handlers, CreditContribution(h) PROVE contrib'[g] # None
    <2>1. /\ Who(h) \in Guests /\ contrib'[Who(h)] \in ContribRow
          /\ contrib' = [contrib EXCEPT ![Who(h)] = contrib'[Who(h)]]
      BY <1>1, CreditedRow
    <2> QED
      BY <2>1, NoneAssumption DEF IInv, TypeOK
  <1>2. ASSUME NEW h \in Handlers, SaveContribution(h) PROVE contrib'[g] # None
    BY <1>2, SavedRow, NoneAssumption DEF IInv, TypeOK
  <1>3. ASSUME NEW h \in Handlers, EnsureCreate(h) PROVE contrib'[g] # None
    BY <1>3 DEF EnsureCreate, IInv, TypeOK
  <1>4. ASSUME NEW h \in Handlers, Arrive(h) PROVE contrib'[g] # None
    BY <1>4 DEF Arrive, RequestPayment, ReceiveWebhook, RequestEdit, RequestBalance, Accept,
       tables
  <1>5. ASSUME NEW h \in Handlers, Run(h) \/ Abort(h), ~CreditContribution(h),
               ~SaveContribution(h), ~EnsureCreate(h)
        PROVE  contrib' = contrib
    BY <1>5 DEF Run, Abort, EnsureFound, EnsureMissing, EnsureConflict, LookupExisting,
       LookupNew, OpenCharge, InsertPayment, InsertConflict, SeenDuplicate, NotSeen,
       FindPayment, RejectWebhook, MarkPayment, IssueTicket, SettlePledges, NotifyGuest,
       Acknowledge, GuestGone, tables
  <1>6. CASE Environment
    BY <1>6 DEF Environment, CloseCharge, DeleteGuest, ExpireKey
  <1>7. CASE UNCHANGED vars
    BY <1>7 DEF vars, tables
  <1> QED
    BY <1>1, <1>2, <1>3, <1>4, <1>5, <1>6, <1>7 DEF Next

\* An arriving request or webhook has read and written nothing.
LEMMA ArriveMInv ==
    ASSUME MInv, IInv', [Next]_vars, NEW h \in Handlers, Arrive(h)
    PROVE  MInv'
  <1>1. IInv
    BY DEF MInv
  <1>2. PICK first, request : Accept(h, first, request) /\ Fresh(first, request)
    BY <1>1, ArriveFresh
  <1>3. /\ pc[h] = "idle" /\ pc' = [pc EXCEPT ![h] = first] /\ first \in {"ensure", "seen"}
        /\ req' = [req EXCEPT ![h] = request] /\ UNCHANGED <<tables, pay, bal, did>>
    BY <1>2 DEF Accept, Fresh, Goto
  <1>4. Quiet(h)
    BY <1>1, <1>3 DEF Quiet, SameLocals, tables, IInv, TypeOK
  <1>5. did[h] = {} /\ pc'[h] = first
    BY <1>1, <1>3 DEF IInv, TypeOK, HandlerInv, ControlInv
  <1> QED
    BY <1>3, <1>4, <1>5, QuietMInv

QuietRun(h) ==
    \/ Moves(h) \/ EnsureFound(h) \/ EnsureCreate(h) \/ OpenCharge(h)
    \/ CreditContribution(h) \/ SaveContribution(h)
    \/ IssueTicket(h) \/ SettlePledges(h) \/ NotifyGuest(h) \/ Acknowledge(h)

\* The steps that write no payment row and read none are quiet.
LEMMA QuietRunQuiet ==
    ASSUME IInv, [Next]_vars, NEW h \in Handlers, QuietRun(h)
    PROVE  /\ Quiet(h) /\ pc[h] \in Step
           /\ did[h] \subseteq did'[h]
  <1>1. \A g \in Guests : contrib[g] # None => contrib'[g] # None
    BY ContribStays
  <1>2. CASE Moves(h)
    BY <1>1, <1>2 DEF Moves, EnsureMissing, EnsureConflict, LookupExisting, LookupNew,
       InsertConflict, SeenDuplicate, NotSeen, RejectWebhook, GuestGone, Abort, Goto, Step,
       Quiet, SameLocals, tables, IInv, TypeOK
  <1>3. CASE EnsureFound(h) \/ EnsureCreate(h)
    BY <1>1, <1>3 DEF EnsureFound, EnsureCreate, Do, Step, Quiet, SameLocals, tables, IInv, TypeOK
  <1>4. CASE OpenCharge(h)
    BY <1>1, <1>4 DEF OpenCharge, Goto, Step, Quiet, SameLocals, IInv, TypeOK
  <1>5. CASE CreditContribution(h) \/ SaveContribution(h)
    BY <1>1, <1>5 DEF CreditContribution, SaveContribution, Overwrites, Goto, Do, Step, Quiet,
       SameLocals, IInv, TypeOK
  <1>6. CASE IssueTicket(h) \/ SettlePledges(h) \/ NotifyGuest(h) \/ Acknowledge(h)
    BY <1>1, <1>6 DEF IssueTicket, SettlePledges, NotifyGuest, Acknowledge, Goto, Do, Step,
       Quiet, SameLocals, tables, IInv, TypeOK
  <1> QED
    BY <1>2, <1>3, <1>4, <1>5, <1>6 DEF QuietRun

\* A webhook that is about to credit finds the contribution row: the payment
\* request that made the payment row had made it before.
LEMMA WebhookFindsContribution ==
    ASSUME MInv, NEW h \in Handlers, pc[h] = "ensure", req[h].op = "webhook"
    PROVE  contrib[Who(h)] # None
  <1>1. "marked" \in did[h]
    BY DEF MInv, IInv, HandlerInv, DidInv
  <1>2. pay[h] # None /\ pay[h] \in PaymentRow /\ payments[pay[h].ref] # None
        /\ payments[pay[h].ref].guest = pay[h].guest
    BY <1>1 DEF MInv, IInv, TypeOK, HandlerInv, LocalsInv, SameTerms
  <1>3. pay[h].ref \in Refs
    BY <1>2 DEF PaymentRow
  <1> QED
    BY <1>2, <1>3 DEF MInv, VersionInv, Who

\* The steps that write no payment row and read none preserve the invariant.
LEMMA QuietRunMInv ==
    ASSUME MInv, IInv', [Next]_vars, NEW h \in Handlers, QuietRun(h)
    PROVE  MInv'
  <1>1. IInv /\ WriterInv(h)
    BY DEF MInv
  <1>2. Quiet(h) /\ pc[h] \in Step /\ did[h] \subseteq did'[h]
    BY <1>1, QuietRunQuiet
  <1>3. /\ "inserted" \notin did[h] /\ pc[h] # "idle"
        /\ req[h] # None /\ (req[h].op # "webhook" => pay[h] = None /\ "marked" \notin did[h])
        /\ pc[h] = "seen" => "marked" \notin did[h]
    BY <1>1, <1>2 DEF WriterInv, Step, IInv, HandlerInv, ControlInv, LocalsInv
  <1>4. /\ pc'[h] # "mark"
        /\ "marked" \in did[h] /\ req[h].status = "PAID" =>
              "credited" \in did'[h] \/ pc'[h] \in {"ensure", "credit", "failed"}
        /\ pc'[h] \in {"lookup", "charge", "insert"} => contrib'[req[h].guest] # None
        /\ pc'[h] = "create" => req[h].op # "webhook"
    <2>1. CASE Moves(h)
      <3>1. /\ contrib' = contrib
            /\ \/ pc'[h] = "failed"
               \/ pc[h] = "ensure" /\ pc'[h] = "create" /\ contrib[Who(h)] = None
               \/ pc[h] = "lookup" /\ pc'[h] \in {"done", "charge"}
               \/ pc[h] = "seen" /\ pc'[h] \in {"done", "find"}
        BY <1>1, <2>1 DEF Moves, EnsureMissing, EnsureConflict, LookupExisting, LookupNew,
           InsertConflict, SeenDuplicate, NotSeen, RejectWebhook, GuestGone, Abort, Goto,
           tables, IInv, TypeOK
      <3>2. pc[h] = "lookup" => req[h].op = "pay" /\ contrib[req[h].guest] # None
        BY <1>1 DEF IInv, HandlerInv, ControlInv, WriterInv
      <3>3. pc[h] = "ensure" /\ contrib[Who(h)] = None => req[h].op # "webhook"
        BY WebhookFindsContribution
      <3> QED
        BY <1>3, <3>1, <3>2, <3>3
    <2>2. CASE EnsureFound(h) \/ EnsureCreate(h)
      <3>1. PICK row : /\ pc[h] \in {"ensure", "create"} /\ pc'[h] = AfterEnsure(h, row)
                       /\ contrib'[Who(h)] # None
        <4>1. CASE EnsureFound(h)
          BY <1>1, <4>1 DEF EnsureFound, IInv, TypeOK, tables
        <4>2. CASE EnsureCreate(h)
          <5>1. Who(h) \in Guests
            BY <1>1, <1>3, WhoType
          <5>2. NewRow # None
            BY PaymentsAssumption, NoneAssumption, RulesType
            DEF NewRow, ContribRow, FreshRow, ContributionStatus
          <5> QED
            BY <1>1, <4>2, <5>1, <5>2 DEF EnsureCreate, IInv, TypeOK
        <4> QED
          BY <2>2, <4>1, <4>2
      <3>2. req[h].op # "webhook" => Who(h) = req[h].guest
        BY <1>3 DEF Who
      <3>3. req[h].op = "webhook" => pc'[h] = "credit"
        BY <3>1 DEF AfterEnsure
      <3>4. /\ pc'[h] \in {"credit", "save", "done", "lookup", "failed"}
        BY <1>1, <3>1, AfterEnsureStep
      <3> QED
        BY <1>3, <3>1, <3>2, <3>3, <3>4
    <2>3. CASE OpenCharge(h)
      <3>1. pc[h] = "charge" /\ pc'[h] = "insert" /\ contrib' = contrib /\ req[h].op = "pay"
        BY <1>1, <2>3 DEF OpenCharge, Goto, IInv, TypeOK, HandlerInv, ControlInv
      <3> QED
        BY <1>1, <1>3, <3>1 DEF WriterInv
    <2>4. CASE CreditContribution(h)
      BY <1>1, <2>4 DEF CreditContribution, Goto, Do, IInv, TypeOK
    <2>5. CASE SaveContribution(h)
      <3>1. req[h].op = "edit" /\ pc'[h] \in {"ticket", "done"}
        BY <1>1, <2>5 DEF SaveContribution, Goto, IInv, TypeOK, HandlerInv, ControlInv
      <3> QED
        BY <1>3, <3>1
    <2>6. CASE IssueTicket(h) \/ SettlePledges(h) \/ NotifyGuest(h) \/ Acknowledge(h)
      <3>1. /\ pc[h] \in {"ticket", "pledges", "notify", "ack"}
            /\ pc'[h] \in {"pledges", "notify", "ack", "done"}
        BY <1>1, <2>6 DEF IssueTicket, SettlePledges, NotifyGuest, Acknowledge, Goto, IInv, TypeOK
      <3> QED
        BY <1>1, <1>2, <3>1 DEF WriterInv
    <2> QED
      BY <2>1, <2>2, <2>3, <2>4, <2>5, <2>6 DEF QuietRun
  <1> QED
    BY <1>2, <1>3, <1>4, QuietMInv

-----------------------------------------------------------------------------
(* The steps that write a payment row or read one.                          *)

\* The first version of a row is the one its insert makes.
LEMMA InsertPaymentMInv ==
    ASSUME MInv, IInv', NEW h \in Handlers, InsertPayment(h)
    PROVE  MInv'
  <1> DEFINE q == req[h].ref
  <1>1. IInv
    BY DEF MInv
  <1>2. /\ pc[h] = "insert" /\ pc' = [pc EXCEPT ![h] = "done"]
        /\ q \in Refs /\ payments[q] = None /\ pay[h] = None /\ req[h].op = "pay"
        /\ did' = [did EXCEPT ![h] = @ \cup {"inserted"}]
        /\ UNCHANGED <<contrib, charges, req, pay>>
        /\ \A r \in Refs : r # q => payments'[r] = payments[r]
    BY <1>1 DEF InsertPayment, ReferenceFree, Goto, Do, IInv, TypeOK, HandlerInv, ControlInv,
       RequestInv, LocalsInv
  <1>3. payments'[q] # None /\ payments'[q].by = h /\ payments'[q].status = "PENDING"
        /\ payments'[q].guest = req[h].guest
    <2>1. payments'[q] \in PaymentRow \cup {None}
      BY <1>2 DEF IInv, TypeOK
    <2>2. payments'[q] = [ref |-> q, guest |-> req[h].guest, amount |-> req[h].amount,
                          status |-> "PENDING", charge |-> h, by |-> h]
      BY <1>1, <1>2 DEF InsertPayment, IInv, TypeOK
    <2>3. req[h] \in Request /\ req[h].amount \in Amounts
      BY <1>1, <1>2 DEF IInv, TypeOK, HandlerInv, ControlInv, RequestInv
    <2>4. payments'[q] \in PaymentRow
      BY <1>2, <2>2, <2>3 DEF PaymentRow, Request, WebhookStatus
    <2> QED
      BY <2>2, <2>4, NoneAssumption
  <1>4. \A k \in Handlers : pay[k] # None => pay[k].ref \in Refs /\ pay[k].ref # q
                                             /\ pay[k].by \in Handlers
    BY <1>1, <1>2 DEF IInv, TypeOK, HandlerInv, LocalsInv, PaymentRow
  <1>5. \A k \in Handlers : Wrote(k) => Wrote(k)'
    BY <1>1, <1>2 DEF Wrote, IInv, TypeOK
  <1>6. \A k \in Handlers : "marked" \in did'[k] <=> "marked" \in did[k]
    BY <1>1, <1>2 DEF IInv, TypeOK
  <1>7. ASSUME NEW k \in Handlers PROVE WriterInv(k)'
    <2>1. WriterInv(k) /\ (pay[k] # None => payments'[pay[k].ref] = payments[pay[k].ref])
      BY <1>2, <1>4 DEF MInv
    <2>2. CASE k = h
      <3>1. pc'[h] = "done" /\ "marked" \notin did'[h]
        BY <1>1, <1>2, <1>6 DEF IInv, TypeOK, HandlerInv, LocalsInv
      <3> QED
        BY <1>2, <2>2, <3>1 DEF WriterInv
    <2>3. CASE k # h
      <3>1. pc'[k] = pc[k] /\ did'[k] = did[k] /\ req'[k] = req[k] /\ pay'[k] = pay[k]
        BY <1>1, <1>2, <2>3 DEF IInv, TypeOK
      <3> QED
        BY <1>2, <1>4, <1>5, <2>1, <3>1 DEF WriterInv, AlreadyPaid
    <2> QED
      BY <2>2, <2>3
  <1>8. ASSUME NEW r \in Refs PROVE VersionInv(r)'
    <2>1. Regressed(r) => Regressed(r)'
      BY <1>2, <1>6 DEF Regressed, Marks
    <2>2. CASE r = q
      <3>1. Wrote(h)' /\ contrib[req[h].guest] # None
        BY <1>1, <1>2 DEF Wrote, IInv, TypeOK, MInv, WriterInv
      <3>2. \A k \in Handlers : ~ReadUnpaid(k, r)'
        BY <1>2, <1>4, <2>2 DEF ReadUnpaid
      <3>3. OneUnpaidVersion(r)'
        <4>1. \A k \in Handlers : ~(pay'[k] # None /\ pay'[k].ref = r /\ pay'[k].status # "PAID")
          BY <3>2 DEF ReadUnpaid
        <4> QED
          BY <4>1 DEF OneUnpaidVersion, ReadUnpaid
      <3> HIDE DEF q
      <3>4. payments'[r].status # "PAID" /\ payments'[r].by = h
            /\ payments'[r].guest = req[h].guest
        BY <1>3, <2>2
      <3>5. Wrote(payments[r].by)' /\ contrib'[payments'[r].guest] # None
        BY <1>2, <3>1, <3>4 DEF Wrote
      <3> QED
        BY <3>3, <3>4, <3>5 DEF VersionInv
    <2>3. CASE r # q
      <3>1. payments'[r] = payments[r] /\ VersionInv(r)
        BY <1>2, <2>3 DEF MInv
      <3>2. payments[r] # None => payments[r].by \in Handlers
        BY <1>1 DEF IInv, TypeOK, PaymentRow
      <3>3. \A k \in Handlers : Marks(k, r)' <=> Marks(k, r)
        BY <1>2, <1>6 DEF Marks
      <3>4. OneUnpaidVersion(r)' <=> OneUnpaidVersion(r)
        BY <1>2, <3>1 DEF OneUnpaidVersion, ReadUnpaid
      <3>5. payments[r] # None => Wrote(payments[r].by)'
        BY <1>5, <3>1, <3>2 DEF VersionInv, Wrote
      <3>6. payments[r] # None /\ payments[r].status = "PAID" => Marks(payments[r].by, r)'
        BY <3>1, <3>2, <3>3 DEF VersionInv, Marks
      <3> QED
        BY <1>2, <2>1, <3>1, <3>4, <3>5, <3>6 DEF VersionInv
    <2> QED
      BY <2>2, <2>3
  <1> QED
    BY <1>7, <1>8 DEF MInv

\* A webhook that reads an unpaid row reads the one unpaid version, if nobody has
\* written a report other than PAID over it.
LEMMA FindPaymentMInv ==
    ASSUME MInv, IInv', NEW h \in Handlers, FindPayment(h)
    PROVE  MInv'
  <1>1. IInv
    BY DEF MInv
  <1>2. PICK q \in Matching(req[h]) :
          /\ pay' = [pay EXCEPT ![h] = payments[q]]
          /\ pc' = [pc EXCEPT ![h] = IF AlreadyPaid(payments[q], req[h]) THEN "ack" ELSE "mark"]
    BY DEF FindPayment
  <1>3. /\ q \in Refs /\ payments[q] # None /\ payments[q] \in PaymentRow /\ payments[q].ref = q
        /\ pc[h] = "find" /\ pay[h] = None /\ "marked" \notin did[h]
        /\ "inserted" \notin did[h]
        /\ UNCHANGED <<payments, contrib, req, did>>
        /\ pay'[h] = payments[q]
        /\ \A k \in Handlers : k # h => pay'[k] = pay[k] /\ pc'[k] = pc[k]
    BY <1>1, <1>2 DEF FindPayment, Matching, tables, IInv, TypeOK, RowInv, HandlerInv, LocalsInv,
       MInv, WriterInv
  <1>4. \A k \in Handlers, r \in Refs : Marks(k, r)' <=> Marks(k, r)
    BY <1>3 DEF Marks
  <1>5. ASSUME NEW k \in Handlers PROVE WriterInv(k)'
    <2>1. WriterInv(k)
      BY DEF MInv
    <2>2. CASE k = h
      <3>1. Wrote(payments[q].by)
        BY <1>3 DEF MInv, VersionInv
      <3>2. /\ pc'[h] \in {"ack", "mark"}
            /\ pc'[h] = "mark" => ~AlreadyPaid(payments[q], req[h])
        BY <1>1, <1>2 DEF IInv, TypeOK
      <3> QED
        BY <1>3, <2>2, <3>1, <3>2 DEF WriterInv, AlreadyPaid, Wrote
    <2>3. CASE k # h
      BY <1>3, <2>1, <2>3 DEF WriterInv, AlreadyPaid, Wrote
    <2> QED
      BY <2>2, <2>3
  <1>6. ASSUME NEW r \in Refs PROVE VersionInv(r)'
    <2>1. VersionInv(r)
      BY DEF MInv
    <2>2. Regressed(r) => Regressed(r)'
      BY <1>3, <1>4 DEF Regressed
    <2>3. OneUnpaidVersion(r) => OneUnpaidVersion(r)'
      <3>1. ReadUnpaid(h, r)' => r = q /\ payments[r].status # "PAID"
                                 /\ pay'[h].by = payments[r].by
        BY <1>3 DEF ReadUnpaid
      <3>2. \A k \in Handlers : k # h => (ReadUnpaid(k, r)' <=> ReadUnpaid(k, r))
        BY <1>3 DEF ReadUnpaid
      <3> QED
        BY <1>3, <3>1, <3>2 DEF OneUnpaidVersion
    <2>4. payments[r] # None => payments[r].by \in Handlers
      BY <1>1 DEF IInv, TypeOK, PaymentRow
    <2>5. payments[r] # None /\ payments[r].status = "PAID" => Marks(payments[r].by, r)'
      <3> SUFFICES ASSUME payments[r] # None, payments[r].status = "PAID"
                   PROVE  Marks(payments[r].by, r)'
        OBVIOUS
      <3> DEFINE w == payments[r].by
      <3>1. w \in Handlers /\ w' = w /\ Marks(w, r)
        BY <1>3, <2>1, <2>4 DEF VersionInv
      <3> HIDE DEF w
      <3>2. "marked" \in did'[w] /\ pay'[w].ref = r
        BY <1>3, <3>1 DEF Marks
      <3> QED
        BY <3>1, <3>2 DEF Marks, w
    <2> QED
      BY <1>3, <2>1, <2>2, <2>3, <2>5 DEF VersionInv, Wrote
  <1> QED
    BY <1>5, <1>6 DEF MInv

\* A webhook that marks a row PAID ends its unpaid version; one that writes another
\* report makes the row regressed.
LEMMA MarkPaymentMInv ==
    ASSUME MInv, IInv', NEW h \in Handlers, MarkPayment(h)
    PROVE  MInv'
  <1> DEFINE q == pay[h].ref
  <1>1. IInv
    BY DEF MInv
  <1>2. /\ pc[h] = "mark" /\ pay[h] # None /\ q \in Refs /\ payments[q] # None
        /\ "marked" \notin did[h] /\ "inserted" \notin did[h]
        /\ UNCHANGED <<contrib, charges, req, pay>>
        /\ did' = [did EXCEPT ![h] = @ \cup {"marked"}]
        /\ pc' = [pc EXCEPT ![h] = IF req[h].status = "PAID" THEN "ensure" ELSE "ack"]
        /\ \A r \in Refs : r # q => payments'[r] = payments[r]
        /\ ~AlreadyPaid(pay[h], req[h])
    <2>1. /\ pc[h] = "mark" /\ UNCHANGED <<contrib, charges, req, pay>>
          /\ did' = [did EXCEPT ![h] = @ \cup {"marked"}]
          /\ pc' = [pc EXCEPT ![h] = IF req[h].status = "PAID" THEN "ensure" ELSE "ack"]
      BY DEF MarkPayment, Goto, Do
    <2>2. pay[h] # None /\ q \in Refs /\ payments[q] # None
      BY <1>1, <2>1 DEF IInv, TypeOK, HandlerInv, LocalsInv, PaymentRow
    <2>3. "marked" \notin did[h] /\ "inserted" \notin did[h] /\ ~AlreadyPaid(pay[h], req[h])
      BY <1>1, <2>1 DEF IInv, HandlerInv, LocalsInv, DidInv, MInv, WriterInv
    <2>4. \A r \in Refs : r # q => payments'[r] = payments[r]
      BY <1>1 DEF MarkPayment, IInv, TypeOK
    <2> QED
      BY <2>1, <2>2, <2>3, <2>4
  <1>3. /\ payments'[q] # None /\ payments'[q].by = h /\ payments'[q].status = req[h].status
        /\ payments'[q].guest = payments[q].guest /\ payments[q].guest \in Guests
    <2>1. payments'[q] = [ref |-> payments[q].ref, guest |-> payments[q].guest,
                          amount |-> payments[q].amount, status |-> req[h].status,
                          charge |-> req[h].charge, by |-> h]
      BY <1>1, <1>2 DEF MarkPayment, IInv, TypeOK
    <2>2. payments[q] \in PaymentRow
      BY <1>1, <1>2 DEF IInv, TypeOK
    <2>3. req[h].status \in WebhookStatus /\ req[h].charge \in Handlers
      BY <1>1, <1>2 DEF IInv, HandlerInv, ControlInv, RequestInv
    <2>4. payments'[q] \in PaymentRow
      BY <2>1, <2>2, <2>3 DEF PaymentRow
    <2>5. payments[q].guest \in Guests
      BY <2>2 DEF PaymentRow
    <2> HIDE DEF q
    <2> QED
      BY <2>1, <2>4, <2>5, NoneAssumption
  <1>4. \A k \in Handlers : pay[k] # None =>
            pay[k].ref \in Refs /\ pay[k].by \in Handlers /\ pay[k].by # h
    BY <1>1, <1>2 DEF IInv, TypeOK, PaymentRow, MInv, WriterInv, Wrote
  <1>5. \A k \in Handlers : Wrote(k) => Wrote(k)'
    BY <1>1, <1>2 DEF Wrote, IInv, TypeOK
  <1>6. \A k \in Handlers, r \in Refs : Marks(k, r) => Marks(k, r)'
    BY <1>1, <1>2 DEF Marks, IInv, TypeOK
  <1>7. Wrote(h)' /\ Marks(h, q)'
    BY <1>1, <1>2 DEF Wrote, Marks, IInv, TypeOK
  <1>8. ASSUME NEW k \in Handlers PROVE WriterInv(k)'
    <2>1. WriterInv(k)
      BY DEF MInv
    <2>2. CASE k = h
      <3>1. pc'[h] = IF req[h].status = "PAID" THEN "ensure" ELSE "ack"
        BY <1>1, <1>2 DEF IInv, TypeOK
      <3>2. "inserted" \notin did'[h]
        BY <1>1, <1>2 DEF IInv, TypeOK
      <3>3. Wrote(pay[h].by)'
        BY <1>2, <1>4, <1>5, <2>1, <2>2 DEF WriterInv, Wrote
      <3> QED
        BY <1>2, <1>3, <1>4, <2>2, <3>1, <3>2, <3>3 DEF WriterInv, AlreadyPaid
    <2>3. CASE k # h
      <3>1. pc'[k] = pc[k] /\ did'[k] = did[k] /\ req'[k] = req[k] /\ pay'[k] = pay[k]
        BY <1>1, <1>2, <2>3 DEF IInv, TypeOK
      <3>2. pay[k] # None => Wrote(pay[k].by)'
        BY <1>2, <1>4, <1>5, <2>1 DEF WriterInv, Wrote
      <3>3. pay[k] # None /\ pay[k].by = payments'[pay[k].ref].by =>
               pay[k].status = payments'[pay[k].ref].status
        BY <1>2, <1>3, <1>4, <2>1 DEF WriterInv
      <3> QED
        BY <1>2, <2>1, <3>1, <3>2, <3>3 DEF WriterInv, AlreadyPaid
    <2> QED
      BY <2>2, <2>3
  <1>9. ASSUME NEW r \in Refs PROVE VersionInv(r)'
    <2>1. VersionInv(r)
      BY DEF MInv
    <2>2. Regressed(r) => Regressed(r)'
      BY <1>2, <1>6 DEF Regressed
    <2>3. CASE r = q
      <3>1. req[h].status # "PAID" => Regressed(r)'
        BY <1>2, <1>7, <2>3 DEF Regressed
      <3>2. req[h].status = "PAID" /\ OneUnpaidVersion(r) => OneUnpaidVersion(r)'
        BY <1>2, <1>3, <2>3 DEF OneUnpaidVersion, ReadUnpaid
      <3>3. contrib'[payments'[r].guest] # None
        BY <1>2, <1>3, <2>1, <2>3 DEF VersionInv
      <3>4. payments'[r].by = h /\ payments'[r].status = req[h].status
        BY <1>3, <2>3
      <3>5. "marked" \in did'[h] /\ pay'[h].ref = r
        BY <1>2, <1>7, <2>3 DEF Marks
      <3>6. Wrote(payments[r].by)'
        BY <3>4, <3>5 DEF Wrote
      <3>7. Marks(payments[r].by, r)'
        BY <3>4, <3>5 DEF Marks
      <3> QED
        BY <1>2, <2>1, <2>2, <3>1, <3>2, <3>3, <3>4, <3>6, <3>7 DEF VersionInv
    <2>4. CASE r # q
      <3>1. payments'[r] = payments[r]
        BY <1>2, <2>4
      <3>2. payments[r] # None => payments[r].by \in Handlers
        BY <1>1 DEF IInv, TypeOK, PaymentRow
      <3>3. OneUnpaidVersion(r) => OneUnpaidVersion(r)'
        BY <1>2, <3>1 DEF OneUnpaidVersion, ReadUnpaid
      <3>4. payments[r] # None => Wrote(payments[r].by)'
        BY <1>5, <2>1, <3>1, <3>2 DEF VersionInv, Wrote
      <3>5. payments[r] # None /\ payments[r].status = "PAID" => Marks(payments[r].by, r)'
        <4> SUFFICES ASSUME payments[r] # None, payments[r].status = "PAID"
                     PROVE  Marks(payments[r].by, r)'
          OBVIOUS
        <4> DEFINE w == payments[r].by
        <4>1. w \in Handlers /\ w' = w /\ Marks(w, r)
          BY <2>1, <3>1, <3>2 DEF VersionInv
        <4> HIDE DEF w
        <4>2. "marked" \in did'[w] /\ pay'[w].ref = r
          BY <1>6, <4>1 DEF Marks
        <4> QED
          BY <4>1, <4>2 DEF Marks, w
      <3> QED
        BY <1>2, <2>1, <2>2, <3>1, <3>3, <3>4, <3>5 DEF VersionInv
    <2> QED
      BY <2>3, <2>4
  <1> QED
    BY <1>8, <1>9 DEF MInv

\* The environment and stuttering leave everything that MInv adds alone.
LEMMA StillMInv ==
    ASSUME MInv, IInv', UNCHANGED <<payments, contrib, locals>>
    PROVE  MInv'
  BY DEF MInv, locals, WriterInv, VersionInv, Regressed, OneUnpaidVersion, ReadUnpaid, Wrote,
     Marks, AlreadyPaid

\* Every step preserves the invariant.
LEMMA NextMInv == MInv /\ [Next]_vars => MInv'
  <1> SUFFICES ASSUME MInv, [Next]_vars PROVE MInv'
    OBVIOUS
  <1>1. IInv'
    BY NextIInv DEF MInv
  <1>2. ASSUME NEW h \in Handlers, Arrive(h) PROVE MInv'
    BY <1>1, <1>2, ArriveMInv
  <1>3. ASSUME NEW h \in Handlers, Run(h) \/ Abort(h) PROVE MInv'
    <2>1. CASE QuietRun(h)
      BY <1>1, <2>1, QuietRunMInv
    <2>2. CASE InsertPayment(h) \/ FindPayment(h) \/ MarkPayment(h)
      BY <1>1, <2>2, InsertPaymentMInv, FindPaymentMInv, MarkPaymentMInv
    <2> QED
      BY <1>3, <2>1, <2>2 DEF Run, QuietRun, Moves
  <1>4. CASE Environment
    BY <1>1, <1>4, StillMInv DEF Environment, CloseCharge, DeleteGuest, ExpireKey
  <1>5. CASE UNCHANGED vars
    BY <1>1, <1>5, StillMInv DEF vars, tables
  <1> QED
    BY <1>2, <1>3, <1>4, <1>5 DEF Next

\* The invariant holds in every reachable state.
LEMMA SpecMInv == Spec => []MInv
  BY InitMInv, NextMInv, PTL DEF Spec

-----------------------------------------------------------------------------
(* Theorems.                                                                *)

\* Two webhooks pay one payment twice only if they read the same version of its
\* row or if a status other than PAID was written over it.
THEOREM DoubleCreditsAreExplained == Spec => []DoubleCreditExplained
  <1>1. MInv => DoubleCreditExplained
    <2> SUFFICES ASSUME MInv, NEW r \in Refs, NEW h \in Handlers, NEW k \in Handlers,
                        Marks(h, r), Marks(k, r), req[h].status = "PAID",
                        req[k].status = "PAID", ~Regressed(r)
                 PROVE  pay[h].by = pay[k].by
      BY DEF DoubleCreditExplained, Regressed
    <2>1. ReadUnpaid(h, r) /\ ReadUnpaid(k, r)
      BY DEF Marks, ReadUnpaid, MInv, WriterInv, AlreadyPaid, IInv, HandlerInv, LocalsInv
    <2> QED
      BY <2>1 DEF MInv, VersionInv, OneUnpaidVersion
  <1> QED
    BY <1>1, SpecMInv, PTL

\* A webhook writes PAID over a PAID row only from an older version of it.
THEOREM PaysTwiceFromStaleReads == Spec => OnlyStaleReadsPayTwice
  <1> DEFINE Stale == \A r \in Refs :
         payments[r] # None /\ payments'[r] # payments[r]
         /\ payments[r].status = "PAID" /\ payments'[r].status = "PAID"
         => pay[payments'[r].by].by # payments[r].by
  <1>1. MInv /\ [Next]_vars => [Stale]_vars
    <2> SUFFICES ASSUME MInv, [Next]_vars, NEW r \in Refs, payments[r] # None,
                        payments'[r] # payments[r], payments[r].status = "PAID",
                        payments'[r].status = "PAID"
                 PROVE  pay[payments'[r].by].by # payments[r].by
      OBVIOUS
    <2>1. IInv
      BY DEF MInv
    <2>2. ASSUME NEW h \in Handlers, QuietRun(h) PROVE FALSE
      BY <2>1, <2>2, QuietRunQuiet DEF Quiet
    <2>3. ASSUME NEW h \in Handlers, InsertPayment(h) PROVE FALSE
      BY <2>1, <2>3 DEF InsertPayment, ReferenceFree, IInv, TypeOK
    <2>4. ASSUME NEW h \in Handlers, FindPayment(h) \/ Arrive(h) PROVE FALSE
      BY <2>4 DEF FindPayment, Arrive, RequestPayment, ReceiveWebhook, RequestEdit,
         RequestBalance, Accept, tables
    <2>5. CASE Environment \/ UNCHANGED vars
      BY <2>5 DEF Environment, CloseCharge, DeleteGuest, ExpireKey, vars, tables
    <2>6. ASSUME NEW h \in Handlers, MarkPayment(h)
          PROVE  pay[payments'[r].by].by # payments[r].by
      <3>1. pay[h].ref = r /\ payments'[r].by = h /\ payments'[r].status = req[h].status
            /\ pay[h] # None /\ pc[h] = "mark"
        BY <2>1, <2>6 DEF MarkPayment, Goto, IInv, TypeOK, HandlerInv, LocalsInv
      <3>2. req[h].status = "PAID" /\ ~AlreadyPaid(pay[h], req[h])
        BY <3>1 DEF MInv, WriterInv
      <3> QED
        BY <3>1, <3>2 DEF AlreadyPaid, MInv, WriterInv
    <2> QED
      BY <2>2, <2>3, <2>4, <2>5, <2>6 DEF Next, Run, QuietRun, Moves
  <1> QED
    BY <1>1, SpecMInv, PTL DEF Spec, OnlyStaleReadsPayTwice

\* A row that is PAID was written by a webhook that credited the contribution,
\* is about to, or failed: no branch of the code skips the credit.
THEOREM PaidRowsAreCredited == Spec => []PaidIsCredited
  <1>1. MInv => PaidIsCredited
    <2> SUFFICES ASSUME MInv, NEW r \in Refs, payments[r] # None, payments[r].status = "PAID"
                 PROVE  \E h \in Handlers :
                           /\ Marks(h, r) /\ req[h].status = "PAID"
                           /\ "credited" \in did[h] \/ pc[h] \in {"ensure", "credit", "failed"}
      BY DEF PaidIsCredited
    <2>1. payments[r].by \in Handlers
      BY DEF MInv, IInv, TypeOK, PaymentRow
    <2> QED
      BY <2>1 DEF MInv, VersionInv, WriterInv, Marks
  <1> QED
    BY <1>1, SpecMInv, PTL

-----------------------------------------------------------------------------
(***************************************************************************)
(* Contributions, and the refinement of the ledger.                        *)
(***************************************************************************)

Changed(h) == "credited" \in did[h] \/ "saved" \in did[h]

\* The steps at which a handler has not yet written a contribution.
Early == {"idle", "seen", "find", "mark", "ensure", "create", "lookup", "charge", "insert",
          "credit", "save"}

PaidUp(g) ==
    \/ contrib[g] # None /\ contrib[g].paid >= contrib[g].required
    \/ StaleWrite(g) \/ Edited(g)

\* What a handler knows of the contribution it read, before and after it wrote.
HistoryInv(h) ==
    /\ pc[h] \in Early => ~Changed(h)
    /\ "stale" \in did[h] => Changed(h)
    /\ "saved" \in did[h] => req[h].op = "edit"
    /\ bal[h] # None =>
          /\ bal[h].by # None => Changed(bal[h].by)
          /\ bal[h].by = contrib[Who(h)].by => bal[h] = contrib[Who(h)]
    /\ pc[h] = "ticket" => PaidUp(Who(h))

ContribInv(g) ==
    /\ contrib[g] # None =>
          /\ contrib[g].by # None => Changed(contrib[g].by)
          /\ Consistent(contrib[g]) \/ StaleWrite(g)
    /\ g \in ticket => PaidUp(g)

\* The inductive invariant: the first one, and the history of the contributions.
CInv ==
    /\ IInv
    /\ \A h \in Handlers : HistoryInv(h)
    /\ \A g \in Guests : ContribInv(g)

-----------------------------------------------------------------------------
\* There are no contributions at the start.
LEMMA InitCInv == Init => CInv
  <1> SUFFICES ASSUME Init PROVE CInv
    OBVIOUS
  <1>1. IInv
    BY InitIInv
  <1>2. \A h \in Handlers : HistoryInv(h)
    BY DEF Init, HistoryInv, Changed
  <1>3. \A g \in Guests : ContribInv(g)
    BY DEF Init, ContribInv
  <1> QED
    BY <1>1, <1>2, <1>3 DEF CInv

-----------------------------------------------------------------------------
(* Steps that neither read nor write a contribution, nor issue a ticket.    *)

Calm ==
    /\ UNCHANGED <<contrib, ticket, bal>>
    /\ \A k \in Handlers :
          /\ \A e \in {"credited", "saved", "stale"} : e \in did'[k] <=> e \in did[k]
          /\ Changed(k) \/ bal[k] # None \/ pc[k] = "ticket" =>
                Who(k)' = Who(k) /\ req'[k] = req[k]
          /\ pc'[k] = "ticket" => pc[k] = "ticket"
          /\ pc'[k] \in Early => pc[k] \in Early

\* Who wrote over a version it had not read, and whose contribution the organizer
\* edited, is not forgotten.
LEMMA CalmKeepsHistory ==
    ASSUME CInv, Calm
    PROVE  /\ \A k \in Handlers : Changed(k)' <=> Changed(k)
           /\ \A g : PaidUp(g) => PaidUp(g)'
           /\ \A g : StaleWrite(g) => StaleWrite(g)'
  <1>1. \A k \in Handlers : Changed(k)' <=> Changed(k)
    BY DEF Calm, Changed
  <1>2. \A g : StaleWrite(g) => StaleWrite(g)'
    <2>1. \A k \in Handlers : "stale" \in did[k] => "stale" \in did'[k] /\ Who(k)' = Who(k)
      BY DEF Calm, CInv, HistoryInv
    <2> QED
      BY <2>1 DEF StaleWrite
  <1>3. \A g : Edited(g) => Edited(g)'
    <2>1. \A k \in Handlers : "saved" \in did[k] => "saved" \in did'[k] /\ req'[k] = req[k]
      BY DEF Calm, Changed
    <2> QED
      BY <2>1 DEF Edited
  <1>4. contrib' = contrib
    BY DEF Calm
  <1> QED
    BY <1>1, <1>2, <1>3, <1>4 DEF PaidUp

\* A calm step preserves the invariant.
LEMMA CalmCInv ==
    ASSUME CInv, IInv', Calm
    PROVE  CInv'
  <1>1. ASSUME NEW h \in Handlers PROVE HistoryInv(h)'
    <2>1. HistoryInv(h)
      BY DEF CInv
    <2>2. bal[h] # None /\ bal[h].by # None => bal[h].by \in Handlers
      BY DEF CInv, IInv, TypeOK, ContribRow
    <2>3. (pc[h] \in Early => ~Changed(h))' /\ ("stale" \in did[h] => Changed(h))'
      BY <2>1, CalmKeepsHistory DEF Calm, HistoryInv
    <2>4. ("saved" \in did[h] => req[h].op = "edit")'
      BY <2>1 DEF Calm, HistoryInv, Changed
    <2>5. (bal[h] # None /\ bal[h].by # None => Changed(bal[h].by))'
      <3> SUFFICES ASSUME bal'[h] # None, bal'[h].by # None
                   PROVE  Changed(bal[h].by)'
        OBVIOUS
      <3> DEFINE w == bal[h].by
      <3>1. w \in Handlers /\ w' = w /\ Changed(w)
        BY <2>1, <2>2 DEF Calm, HistoryInv
      <3> HIDE DEF w
      <3>2. "credited" \in did'[w] \/ "saved" \in did'[w]
        BY <3>1 DEF Calm, Changed
      <3> QED
        BY <3>1, <3>2 DEF Changed, w
    <2>6. (bal[h] # None /\ bal[h].by = contrib[Who(h)].by => bal[h] = contrib[Who(h)])'
      BY <2>1 DEF Calm, HistoryInv
    <2>7. (pc[h] = "ticket" => PaidUp(Who(h)))'
      <3> SUFFICES ASSUME pc'[h] = "ticket" PROVE PaidUp(Who(h))'
        OBVIOUS
      <3>1. pc[h] = "ticket" /\ Who(h)' = Who(h) /\ PaidUp(Who(h))
        BY <2>1 DEF Calm, HistoryInv
      <3>2. PICK g \in Guests : g = Who(h)
        BY <3>1, WhoType DEF CInv
      <3>3. PaidUp(g)'
        BY <3>1, <3>2, CalmKeepsHistory
      <3> QED
        BY <3>1, <3>2, <3>3
    <2> QED
      BY <2>3, <2>4, <2>5, <2>6, <2>7 DEF HistoryInv
  <1>2. ASSUME NEW g \in Guests PROVE ContribInv(g)'
    <2>1. ContribInv(g) /\ contrib' = contrib /\ ticket' = ticket
      BY DEF CInv, Calm
    <2>2. contrib[g] # None /\ contrib[g].by # None => contrib[g].by \in Handlers
      BY DEF CInv, IInv, TypeOK, ContribRow
    <2>3. (contrib[g] # None /\ contrib[g].by # None => Changed(contrib[g].by))'
      <3> SUFFICES ASSUME contrib'[g] # None, contrib'[g].by # None
                   PROVE  Changed(contrib[g].by)'
        OBVIOUS
      <3>1. PICK w \in Handlers : w = contrib[g].by
        BY <2>1, <2>2
      <3>2. Changed(w)'
        BY <2>1, <3>1, CalmKeepsHistory DEF ContribInv
      <3> QED
        BY <2>1, <3>1, <3>2
    <2>4. (g \in ticket => PaidUp(g))'
      BY <2>1, CalmKeepsHistory DEF ContribInv
    <2>5. (contrib[g] # None => Consistent(contrib[g]) \/ StaleWrite(g))'
      BY <2>1, CalmKeepsHistory DEF ContribInv
    <2> QED
      BY <2>3, <2>4, <2>5 DEF ContribInv
  <1> QED
    BY <1>1, <1>2 DEF CInv

\* Whoever arrives has neither read nor written a contribution.
LEMMA ArriveCalm ==
    ASSUME CInv, NEW h \in Handlers, Arrive(h)
    PROVE  Calm
  <1>1. PICK first, request : Accept(h, first, request) /\ Fresh(first, request)
    BY ArriveFresh DEF CInv
  <1>2. /\ pc[h] = "idle" /\ pc' = [pc EXCEPT ![h] = first] /\ first \in {"ensure", "seen"}
        /\ req' = [req EXCEPT ![h] = request] /\ UNCHANGED <<tables, pay, bal, did>>
    BY <1>1 DEF Accept, Fresh, Goto
  <1>3. ~Changed(h) /\ bal[h] = None
    BY <1>2 DEF CInv, HistoryInv, Early, IInv, HandlerInv, ControlInv
  <1>4. \A k \in Handlers \ {h} : pc'[k] = pc[k] /\ req'[k] = req[k] /\ pay'[k] = pay[k]
    BY <1>2 DEF CInv, IInv, TypeOK
  <1>5. pc'[h] = first
    BY <1>2 DEF CInv, IInv, TypeOK
  <1> QED
    BY <1>2, <1>3, <1>4, <1>5 DEF Calm, Who, Early, tables

\* A webhook finds its payment before it reads or writes a contribution.
LEMMA FindPaymentCalm ==
    ASSUME CInv, NEW h \in Handlers, FindPayment(h)
    PROVE  Calm
  <1>1. /\ pc[h] = "find" /\ pc'[h] \in {"mark", "ack"}
        /\ \A k \in Handlers \ {h} : pc'[k] = pc[k] /\ pay'[k] = pay[k]
        /\ UNCHANGED <<tables, req, bal, did>>
    BY DEF FindPayment, CInv, IInv, TypeOK
  <1>2. ~Changed(h) /\ bal[h] = None
    BY <1>1 DEF CInv, HistoryInv, Early, IInv, HandlerInv, LocalsInv
  <1> QED
    BY <1>1, <1>2 DEF Calm, Who, Early, tables

\* The steps that concern the payment, its charge, the pledges or the confirmation.
CalmRun(h) ==
    \/ Moves(h) \/ OpenCharge(h) \/ InsertPayment(h) \/ MarkPayment(h)
    \/ SettlePledges(h) \/ NotifyGuest(h) \/ Acknowledge(h)

\* None of them reads or writes a contribution.
LEMMA CalmRunCalm ==
    ASSUME IInv, NEW h \in Handlers, CalmRun(h)
    PROVE  Calm
  <1>1. /\ UNCHANGED <<contrib, ticket, bal, req, pay>>
        /\ \A k \in Handlers \ {h} : pc'[k] = pc[k]
        /\ \A k \in Handlers : \A e \in {"credited", "saved", "stale"} :
              e \in did'[k] <=> e \in did[k]
    <2>1. CASE Moves(h)
      BY <2>1 DEF Moves, EnsureMissing, EnsureConflict, LookupExisting, LookupNew,
         InsertConflict, SeenDuplicate, NotSeen, RejectWebhook, GuestGone, Abort, Goto,
         tables, IInv, TypeOK
    <2>2. CASE ~Moves(h)
      BY <2>2 DEF CalmRun, OpenCharge, InsertPayment, MarkPayment, SettlePledges, NotifyGuest,
         Acknowledge, Goto, Do, tables, IInv, TypeOK
    <2> QED
      BY <2>1, <2>2
  <1>2. pc'[h] # "ticket" /\ (pc'[h] \in Early => pc[h] \in Early)
    <2>1. CASE Moves(h)
      BY <2>1 DEF Moves, EnsureMissing, EnsureConflict, LookupExisting, LookupNew,
         InsertConflict, SeenDuplicate, NotSeen, RejectWebhook, GuestGone, Abort, Goto,
         Early, IInv, TypeOK
    <2>2. CASE ~Moves(h)
      BY <2>2 DEF CalmRun, OpenCharge, InsertPayment, MarkPayment, SettlePledges, NotifyGuest,
         Acknowledge, Goto, Early, IInv, TypeOK
    <2> QED
      BY <2>1, <2>2
  <1> QED
    BY <1>1, <1>2 DEF Calm, Who

-----------------------------------------------------------------------------
(* Steps that read or write a contribution.                                 *)

\* What was done stays done, and so does what it explains.
LEMMA HistoryGrows ==
    ASSUME UNCHANGED <<req, pay>>, \A k \in Handlers : did[k] \subseteq did'[k]
    PROVE  /\ \A k \in Handlers : Changed(k) => Changed(k)'
           /\ \A g : StaleWrite(g) => StaleWrite(g)'
           /\ \A g : Edited(g) => Edited(g)'
           /\ \A g : contrib'[g] = contrib[g] => (PaidUp(g) => PaidUp(g)')
  BY DEF Changed, StaleWrite, Edited, PaidUp, Who

\* A handler that finds the row holds its present version.
LEMMA EnsureFoundCInv ==
    ASSUME CInv, IInv', NEW h \in Handlers, EnsureFound(h)
    PROVE  CInv'
  <1>1. /\ pc[h] = "ensure" /\ contrib[Who(h)] # None /\ UNCHANGED <<tables, req, pay, did>>
        /\ bal' = [bal EXCEPT ![h] = contrib[Who(h)]]
        /\ pc' = [pc EXCEPT ![h] = AfterEnsure(h, contrib[Who(h)])]
    BY DEF EnsureFound
  <1>2. AfterEnsure(h, contrib[Who(h)]) \in {"credit", "save", "done", "lookup", "failed"}
    BY <1>1, AfterEnsureStep DEF CInv
  <1>3. IInv /\ Who(h) \in Guests
    BY <1>1, WhoType DEF CInv
  <1>4. \A k \in Handlers : (Changed(k)' <=> Changed(k)) /\ Who(k)' = Who(k)
    BY <1>1 DEF Changed, Who
  <1>5. \A g : (PaidUp(g) => PaidUp(g)') /\ (StaleWrite(g) => StaleWrite(g)')
    BY <1>1, HistoryGrows DEF tables
  <1>6. ASSUME NEW k \in Handlers, k # h PROVE HistoryInv(k)'
    <2>1. pc'[k] = pc[k] /\ bal'[k] = bal[k] /\ did'[k] = did[k] /\ req'[k] = req[k]
          /\ contrib' = contrib /\ HistoryInv(k)
      BY <1>1, <1>3, <1>6 DEF IInv, TypeOK, tables, CInv
    <2>2. bal[k] # None /\ bal[k].by # None => bal[k].by \in Handlers
      BY <1>3 DEF IInv, TypeOK, ContribRow
    <2>3. pc[k] = "ticket" => \E g \in Guests : g = Who(k)
      BY <1>3, WhoType
    <2>4. (pc[k] = "ticket" => PaidUp(Who(k)))'
      BY <1>4, <1>5, <2>1, <2>3 DEF HistoryInv
    <2>5. (bal[k] # None /\ bal[k].by # None => Changed(bal[k].by))'
      BY <1>4, <2>1, <2>2 DEF HistoryInv
    <2> QED
      BY <1>4, <2>1, <2>4, <2>5 DEF HistoryInv
  <1>7. HistoryInv(h)'
    <2>1. bal'[h] = contrib[Who(h)] /\ contrib' = contrib /\ pc'[h] # "ticket"
          /\ did' = did /\ req' = req
      BY <1>1, <1>2, <1>3 DEF IInv, TypeOK, tables
    <2>2. contrib[Who(h)].by # None =>
             contrib[Who(h)].by \in Handlers /\ Changed(contrib[Who(h)].by)
      BY <1>1, <1>3 DEF CInv, ContribInv, IInv, TypeOK, ContribRow
    <2>3. (bal[h] # None /\ bal[h].by # None => Changed(bal[h].by))'
      BY <1>4, <2>1, <2>2
    <2>4. pc[h] \in Early /\ HistoryInv(h)
      BY <1>1 DEF Early, CInv
    <2> QED
      BY <1>4, <2>1, <2>3, <2>4 DEF HistoryInv
  <1>8. ASSUME NEW g \in Guests PROVE ContribInv(g)'
    <2>1. contrib' = contrib /\ ticket' = ticket /\ ContribInv(g)
      BY <1>1 DEF tables, CInv
    <2>2. contrib[g] # None /\ contrib[g].by # None => contrib[g].by \in Handlers
      BY <1>3 DEF IInv, TypeOK, ContribRow
    <2>3. (contrib[g] # None /\ contrib[g].by # None => Changed(contrib[g].by))'
      BY <1>4, <2>1, <2>2 DEF ContribInv
    <2> QED
      BY <1>5, <2>1, <2>3 DEF ContribInv
  <1> QED
    BY <1>6, <1>7, <1>8 DEF CInv

\* A new row is settled from the start if nothing is asked of the guest.
LEMMA NewRowConsistent == Consistent(NewRow)
  BY PaymentsAssumption DEF Consistent, NewRow, FreshRow, ComputeStatus, Remaining

\* A handler that inserts the row holds its first version, and nobody else does.
LEMMA EnsureCreateCInv ==
    ASSUME CInv, IInv', NEW h \in Handlers, EnsureCreate(h)
    PROVE  CInv'
  <1>1. IInv /\ pc[h] = "create"
    BY DEF EnsureCreate, CInv
  <1>2. PICK g \in Guests : g = Who(h)
    BY <1>1, WhoType
  <1>3. /\ contrib[g] = None /\ contrib' = [contrib EXCEPT ![g] = NewRow]
        /\ bal' = [bal EXCEPT ![h] = NewRow]
        /\ pc' = [pc EXCEPT ![h] = AfterEnsure(h, NewRow)]
        /\ did' = [did EXCEPT ![h] = @ \cup {"created"}]
        /\ UNCHANGED <<ticket, req, pay>>
    BY <1>2 DEF EnsureCreate, Do
  <1>4. AfterEnsure(h, NewRow) \in {"credit", "save", "done", "lookup", "failed"}
    BY <1>1, AfterEnsureStep
  <1>5. /\ \A k \in Handlers : did[k] \subseteq did'[k]
        /\ \A k \in Handlers : \A e \in {"credited", "saved", "stale"} :
              e \in did'[k] <=> e \in did[k]
        /\ \A k \in Handlers : Who(k)' = Who(k)
    BY <1>1, <1>3 DEF IInv, TypeOK, Who
  <1>6. \A k \in Handlers : Changed(k)' <=> Changed(k)
    BY <1>5 DEF Changed
  <1>7. \A f : (StaleWrite(f) => StaleWrite(f)') /\ (Edited(f) => Edited(f)')
    BY <1>3, <1>5, HistoryGrows
  <1>8. NewRow # None /\ NewRow.by = None
    BY PaymentsAssumption, NoneAssumption
    DEF NewRow, FreshRow, ContribRow, ContributionStatus
  <1>9. contrib'[g] = NewRow /\ \A f \in Guests \ {g} : contrib'[f] = contrib[f]
    BY <1>1, <1>3 DEF IInv, TypeOK
  <1>10. ASSUME NEW f \in Guests, PaidUp(f) PROVE PaidUp(f)'
    BY <1>3, <1>7, <1>9, <1>10 DEF PaidUp
  <1>11. ASSUME NEW k \in Handlers, k # h PROVE HistoryInv(k)'
    <2>1. pc'[k] = pc[k] /\ bal'[k] = bal[k] /\ did'[k] = did[k] /\ req'[k] = req[k]
          /\ HistoryInv(k)
      BY <1>1, <1>3, <1>11 DEF IInv, TypeOK, CInv
    <2>2. bal[k] # None /\ bal[k].by # None => bal[k].by \in Handlers
      BY <1>1 DEF IInv, TypeOK, ContribRow
    <2>3. bal[k] # None => Who(k) \in Guests /\ Who(k) # g
      BY <1>1, <1>3, WhoType DEF IInv, HandlerInv, ControlInv, LocalsInv
    <2>4. (bal[k] # None /\ bal[k].by = contrib[Who(k)].by => bal[k] = contrib[Who(k)])'
      BY <1>5, <1>9, <2>1, <2>3 DEF HistoryInv
    <2>5. (pc[k] = "ticket" => PaidUp(Who(k)))'
      <3>1. pc[k] = "ticket" => \E f \in Guests : f = Who(k)
        BY <1>1, WhoType
      <3> QED
        BY <1>5, <1>10, <2>1, <3>1 DEF HistoryInv
    <2>6. (bal[k] # None /\ bal[k].by # None => Changed(bal[k].by))'
      BY <1>6, <2>1, <2>2 DEF HistoryInv
    <2> QED
      BY <1>6, <2>1, <2>4, <2>5, <2>6 DEF HistoryInv
  <1>12. HistoryInv(h)'
    <2>1. bal'[h] = NewRow /\ pc'[h] # "ticket" /\ req' = req
      BY <1>1, <1>3, <1>4 DEF IInv, TypeOK
    <2>2. pc[h] \in Early /\ HistoryInv(h)
      BY <1>1 DEF Early, CInv
    <2> QED
      BY <1>2, <1>5, <1>6, <1>8, <1>9, <2>1, <2>2 DEF HistoryInv
  <1>13. ASSUME NEW f \in Guests PROVE ContribInv(f)'
    <2>1. ContribInv(f)
      BY DEF CInv
    <2>2. f \in ticket' => PaidUp(f)'
      BY <1>3, <1>10, <2>1 DEF ContribInv
    <2>3. CASE f = g
      BY <1>8, <1>9, <2>2, <2>3, NewRowConsistent DEF ContribInv
    <2>4. CASE f # g
      <3>1. contrib'[f] = contrib[f]
        BY <1>9, <2>4
      <3>2. contrib[f] # None /\ contrib[f].by # None => contrib[f].by \in Handlers
        BY <1>1 DEF IInv, TypeOK, ContribRow
      <3>3. (contrib[f] # None /\ contrib[f].by # None => Changed(contrib[f].by))'
        BY <1>6, <2>1, <3>1, <3>2 DEF ContribInv
      <3> QED
        BY <1>7, <2>1, <2>2, <3>1, <3>3 DEF ContribInv
    <2> QED
      BY <2>3, <2>4
  <1> QED
    BY <1>11, <1>12, <1>13 DEF CInv

\* A handler that writes a row, from the version it read or over another one.
LEMMA WriteCInv ==
    ASSUME CInv, IInv', NEW h \in Handlers, NEW g \in Guests, g = Who(h),
           pc[h] \in {"credit", "save"},
           pc' = [pc EXCEPT ![h] = pc'[h]], pc'[h] \in {"ticket", "pledges", "done"},
           contrib' = [contrib EXCEPT ![g] = contrib'[g]],
           contrib'[g] # None, contrib'[g].by = h,
           did' = [did EXCEPT ![h] = did'[h]], did[h] \subseteq did'[h], Changed(h)',
           "saved" \in did'[h] => req[h].op = "edit",
           UNCHANGED <<ticket, req, pay, bal>>,
           Consistent(contrib'[g]) \/ StaleWrite(g)',
           PaidUp(g) \/ pc'[h] = "ticket" => PaidUp(g)'
    PROVE  CInv'
  <1>1. IInv /\ pc[h] # "idle" /\ pc[h] \in Early /\ HistoryInv(h) /\ ~Changed(h)
    BY DEF CInv, Early, HistoryInv
  <1>2. \A k \in Handlers \ {h} : did'[k] = did[k] /\ pc'[k] = pc[k]
    BY <1>1 DEF IInv, TypeOK
  <1>3. \A k \in Handlers : did[k] \subseteq did'[k] /\ Who(k)' = Who(k)
    BY <1>2 DEF Who
  <1>4. /\ \A k \in Handlers : Changed(k) => Changed(k)'
        /\ \A f : StaleWrite(f) => StaleWrite(f)'
        /\ \A f : contrib'[f] = contrib[f] => (PaidUp(f) => PaidUp(f)')
    BY <1>3, HistoryGrows
  <1>5. \A f \in Guests \ {g} : contrib'[f] = contrib[f]
    BY <1>1 DEF IInv, TypeOK
  <1>6. \A f \in Guests : PaidUp(f) => PaidUp(f)'
    BY <1>4, <1>5
  <1>7. ASSUME NEW k \in Handlers PROVE HistoryInv(k)'
    <2>1. HistoryInv(k) /\ (k # h => did'[k] = did[k] /\ pc'[k] = pc[k])
      BY <1>2 DEF CInv
    <2>2. bal[k] # None /\ bal[k].by # None => bal[k].by \in Handlers
      BY <1>1 DEF IInv, TypeOK, ContribRow
    <2>3. bal[k] # None => Who(k) \in Guests /\ pc[k] # "idle"
      BY <1>1, WhoType DEF IInv, HandlerInv, ControlInv
    <2>4. h # None
      BY PaymentsAssumption
    <2>5. (bal[k] # None /\ bal[k].by = contrib[Who(k)].by => bal[k] = contrib[Who(k)])'
      <3>1. bal[k] # None => bal[k].by # h
        BY <1>1, <2>1, <2>4 DEF HistoryInv
      <3> QED
        BY <1>3, <1>5, <2>1, <2>3, <3>1 DEF HistoryInv
    <2>6. (bal[k] # None /\ bal[k].by # None => Changed(bal[k].by))'
      <3> SUFFICES ASSUME bal'[k] # None, bal'[k].by # None PROVE Changed(bal[k].by)'
        OBVIOUS
      <3>1. PICK w \in Handlers : w = bal[k].by
        BY <2>2
      <3>2. Changed(w)'
        BY <1>4, <2>1, <3>1 DEF HistoryInv
      <3> QED
        BY <3>1, <3>2
    <2>7. (pc[k] = "ticket" => PaidUp(Who(k)))'
      <3> SUFFICES ASSUME pc'[k] = "ticket" PROVE PaidUp(Who(k))'
        OBVIOUS
      <3>1. CASE k = h
        BY <1>3, <3>1
      <3>2. CASE k # h
        <4>1. PICK f \in Guests : f = Who(k)
          BY <1>1, <2>1, <3>2, WhoType
        <4>2. PaidUp(f)'
          BY <1>6, <2>1, <3>2, <4>1 DEF HistoryInv
        <4> QED
          BY <1>3, <4>1, <4>2
      <3> QED
        BY <3>1, <3>2
    <2>8. (pc[k] \in Early => ~Changed(k))'
      <3>1. pc'[h] \notin Early
        BY DEF Early
      <3> QED
        BY <2>1, <3>1 DEF HistoryInv, Changed
    <2>9. ("stale" \in did[k] => Changed(k))'
      BY <2>1 DEF HistoryInv, Changed
    <2>10. ("saved" \in did[k] => req[k].op = "edit")'
      BY <2>1 DEF HistoryInv
    <2> QED
      BY <2>5, <2>6, <2>7, <2>8, <2>9, <2>10 DEF HistoryInv
  <1>8. ASSUME NEW f \in Guests PROVE ContribInv(f)'
    <2>1. ContribInv(f)
      BY DEF CInv
    <2>2. f \in ticket' => PaidUp(f)'
      BY <1>6, <2>1 DEF ContribInv
    <2>3. CASE f = g
      BY <2>2, <2>3 DEF ContribInv
    <2>4. CASE f # g
      <3>1. contrib'[f] = contrib[f]
        BY <1>5, <2>4
      <3>2. contrib[f] # None /\ contrib[f].by # None => contrib[f].by \in Handlers
        BY <1>1 DEF IInv, TypeOK, ContribRow
      <3>3. (contrib[f] # None /\ contrib[f].by # None => Changed(contrib[f].by))'
        <4> SUFFICES ASSUME contrib'[f] # None, contrib'[f].by # None
                     PROVE  Changed(contrib[f].by)'
          OBVIOUS
        <4>1. PICK w \in Handlers : w = contrib[f].by
          BY <3>1, <3>2
        <4>2. Changed(w)'
          BY <1>4, <2>1, <3>1, <4>1 DEF ContribInv
        <4> QED
          BY <3>1, <4>1, <4>2
      <3> QED
        BY <1>4, <2>1, <2>2, <3>1, <3>3 DEF ContribInv
    <2> QED
      BY <2>3, <2>4
  <1> QED
    BY <1>7, <1>8 DEF CInv

\* A credit is never negative.
LEMMA CreditAmount ==
    ASSUME IInv, NEW h \in Handlers, pc[h] = "credit"
    PROVE  req[h].amount \in Nat
  <1>1. req[h].op = "webhook" /\ req[h] # None
    BY DEF IInv, HandlerInv, ControlInv
  <1>2. /\ req[h].charge \in Handlers /\ charges[req[h].charge] # None
        /\ req[h].amount = charges[req[h].charge].amount
    BY <1>1 DEF IInv, HandlerInv, RequestInv
  <1> QED
    BY <1>2, PaymentsAssumption DEF IInv, TypeOK, Charge

\* A row computed from the version that is in the table is consistent, and a
\* guest who was paid up stays so.
LEMMA CreditCInv ==
    ASSUME CInv, IInv', NEW h \in Handlers, CreditContribution(h)
    PROVE  CInv'
  <1>1. IInv /\ pc[h] = "credit" /\ req[h].op = "webhook"
    BY DEF CreditContribution, Goto, CInv, IInv, HandlerInv, ControlInv
  <1>2. PICK g \in Guests : g = Who(h)
    BY <1>1, WhoType
  <1> DEFINE new == contrib'[g]
  <1>3. /\ contrib[g] \in ContribRow /\ bal[h] \in ContribRow /\ new \in ContribRow
        /\ contrib' = [contrib EXCEPT ![g] = new]
        /\ new = [required |-> contrib[g].required, paid |-> PaidAfter(h),
                  remaining |-> Assessed(h).remaining, status |-> Assessed(h).status, by |-> h]
    BY <1>1, <1>2, CreditedRow
  <1>4. /\ pc' = [pc EXCEPT ![h] = IF EarnsTicket(Assessed(h).status) THEN "ticket" ELSE "pledges"]
        /\ did' = [did EXCEPT ![h] = @ \cup ({"credited"} \cup Overwrites(h))]
        /\ UNCHANGED <<ticket, req, pay, bal>>
    BY DEF CreditContribution, Goto, Do
  <1>5. /\ pc'[h] = (IF EarnsTicket(Assessed(h).status) THEN "ticket" ELSE "pledges")
        /\ did'[h] = did[h] \cup {"credited"} \cup Overwrites(h)
        /\ \A k \in Handlers : did[k] \subseteq did'[k]
    BY <1>1, <1>4 DEF IInv, TypeOK
  <1>6. "saved" \notin did'[h]
    BY <1>1, <1>5 DEF Overwrites, CInv, HistoryInv, Early, Changed
  <1>7. CASE bal[h].by # contrib[g].by
    <2>1. "stale" \in did'[h] /\ Who(h)' = g
      BY <1>2, <1>4, <1>5, <1>7 DEF Overwrites, Who
    <2>2. StaleWrite(g)'
      BY <2>1 DEF StaleWrite
    <2>3. PaidUp(g)'
      BY <2>2 DEF PaidUp
    <2>4. Changed(h)'
      BY <1>5 DEF Changed
    <2>5. new # None /\ new.by = h
      BY <1>3, NoneAssumption
    <2> QED
      BY ZenonT(60), <1>1, <1>2, <1>3, <1>4, <1>5, <1>6, <2>2, <2>3, <2>4, <2>5, WriteCInv
  <1>8. CASE bal[h].by = contrib[g].by
    <2>1. bal[h] = contrib[g]
      BY <1>2, <1>3, <1>8, NoneAssumption DEF CInv, HistoryInv
    <2>2. /\ contrib[g].required \in Nat /\ contrib[g].paid \in Nat /\ req[h].amount \in Nat
          /\ PaidAfter(h) = contrib[g].paid + req[h].amount
          /\ Assessed(h) = ComputeStatus(contrib[g].required, PaidAfter(h), FALSE)
      BY <1>1, <1>3, <2>1, CreditAmount DEF ContribRow, PaidAfter, Assessed
    <2>3. Consistent(new)
      BY <1>3, <2>2 DEF Consistent
    <2>4. EarnsTicket(Assessed(h).status) => PaidAfter(h) >= contrib[g].required
      BY <2>2 DEF EarnsTicket, ComputeStatus, Remaining
    <2>5. PaidUp(g) \/ pc'[h] = "ticket" => PaidUp(g)'
      <3>1. new # None /\ new.required = contrib[g].required /\ new.paid = PaidAfter(h)
        BY <1>3, NoneAssumption
      <3>2. new.paid >= new.required => PaidUp(g)'
        BY <3>1 DEF PaidUp
      <3>3. StaleWrite(g) \/ Edited(g) => PaidUp(g)'
        BY <1>4, <1>5, HistoryGrows DEF PaidUp
      <3>4. CASE pc'[h] = "ticket"
        BY <1>5, <2>4, <3>1, <3>2, <3>4
      <3>5. CASE contrib[g].paid >= contrib[g].required
        BY <2>2, <3>1, <3>2, <3>5
      <3> QED
        BY <3>3, <3>4, <3>5 DEF PaidUp
    <2>6. Changed(h)'
      BY <1>5 DEF Changed
    <2>7. new # None /\ new.by = h
      BY <1>3, NoneAssumption
    <2> QED
      BY ZenonT(60), <1>1, <1>2, <1>3, <1>4, <1>5, <1>6, <2>3, <2>5, <2>6, <2>7, WriteCInv
  <1> QED
    BY <1>7, <1>8

\* An organizer's edit writes a consistent row: waived, or computed from its fields.
LEMMA SaveCInv ==
    ASSUME CInv, IInv', NEW h \in Handlers, SaveContribution(h)
    PROVE  CInv'
  <1>1. IInv /\ pc[h] = "save" /\ req[h].op = "edit" /\ pay[h] = None /\ req[h] # None
    BY DEF SaveContribution, Goto, CInv, IInv, HandlerInv, ControlInv, LocalsInv
  <1>2. PICK g \in Guests : g = Who(h)
    BY <1>1, WhoType
  <1> DEFINE e == req[h].edit
             required == Chosen(e.required, bal[h].required)
             paid == Chosen(e.paid, bal[h].paid)
             c == ComputeStatus(required, paid, e.waive)
             new == contrib'[g]
  <1>3. new \in ContribRow /\ contrib' = [contrib EXCEPT ![g] = new]
    BY <1>1, <1>2, SavedRow
  <1>4. /\ new = [required |-> required, paid |-> paid, remaining |-> c.remaining,
                  status |-> c.status, by |-> h]
        /\ pc' = [pc EXCEPT ![h] = IF c.status \in Settled THEN "ticket" ELSE "done"]
        /\ did' = [did EXCEPT ![h] = @ \cup ({"saved"} \cup Overwrites(h))]
        /\ UNCHANGED <<ticket, req, pay, bal>>
    BY <1>1, <1>2 DEF SaveContribution, Goto, Do, IInv, TypeOK
  <1>5. e.waive \in BOOLEAN
    BY <1>1, PaymentsAssumption DEF IInv, HandlerInv, RequestInv, Edit
  <1>6. Consistent(new)
    <2>1. CASE e.waive = TRUE
      <3>1. new.status = c.status /\ new.remaining = c.remaining
        BY <1>4
      <3>2. c = ComputeStatus(required, paid, TRUE)
        BY <2>1
      <3> HIDE DEF new, c, required, paid
      <3>3. c.status = "WAIVED" /\ c.remaining = 0
        BY <3>2 DEF ComputeStatus
      <3> QED
        BY <3>1, <3>3 DEF Consistent
    <2>2. CASE e.waive = FALSE
      <3>1. /\ new.required = required /\ new.paid = paid
            /\ new.status = c.status /\ new.remaining = c.remaining
        BY <1>4
      <3>2. c = ComputeStatus(required, paid, FALSE)
        BY <2>2
      <3> HIDE DEF new, c, required, paid
      <3> QED
        BY <3>1, <3>2 DEF Consistent
    <2> QED
      BY <1>5, <2>1, <2>2
  <1>7. /\ pc'[h] \in {"ticket", "done"} /\ "saved" \in did'[h] /\ did[h] \subseteq did'[h]
        /\ did' = [did EXCEPT ![h] = did'[h]] /\ pc' = [pc EXCEPT ![h] = pc'[h]]
    BY <1>1, <1>4 DEF IInv, TypeOK
  <1>8. Edited(g)' /\ Changed(h)'
    BY <1>1, <1>2, <1>4, <1>7 DEF Edited, Changed, Who
  <1>9. PaidUp(g)'
    BY <1>8 DEF PaidUp
  <1>10. new # None /\ new.by = h
    BY <1>3, <1>4, NoneAssumption
  <1> HIDE DEF e, required, paid, c
  <1> QED
    BY <1>1, <1>2, <1>3, <1>4, <1>6, <1>7, <1>8, <1>9, <1>10, WriteCInv

\* A ticket is issued by a handler whose guest had paid, or was edited.
LEMMA IssueTicketCInv ==
    ASSUME CInv, IInv', NEW h \in Handlers, IssueTicket(h)
    PROVE  CInv'
  <1>1. IInv /\ pc[h] = "ticket"
    BY DEF IssueTicket, Goto, CInv
  <1>2. PICK g \in Guests : g = Who(h)
    BY <1>1, WhoType
  <1>3. /\ ticket' = ticket \cup {g} /\ UNCHANGED <<contrib, req, pay, bal>>
        /\ did' = [did EXCEPT ![h] = @ \cup {"ticketed"}]
        /\ pc' = [pc EXCEPT ![h] = pc'[h]] /\ pc'[h] \in {"pledges", "done"}
    BY <1>1, <1>2 DEF IssueTicket, Goto, Do, IInv, TypeOK
  <1>4. /\ \A k \in Handlers : \A e \in {"credited", "saved", "stale"} :
              e \in did'[k] <=> e \in did[k]
        /\ \A k \in Handlers : did[k] \subseteq did'[k]
        /\ \A k \in Handlers : Who(k)' = Who(k)
        /\ \A k \in Handlers \ {h} : pc'[k] = pc[k]
    BY <1>1, <1>3 DEF IInv, TypeOK, Who
  <1>5. /\ \A k \in Handlers : Changed(k)' <=> Changed(k)
        /\ \A f : PaidUp(f) => PaidUp(f)'
        /\ \A f : StaleWrite(f) => StaleWrite(f)'
    BY <1>3, <1>4, HistoryGrows DEF Changed
  <1>6. PaidUp(g)'
    BY <1>1, <1>2, <1>5 DEF CInv, HistoryInv
  <1>7. ASSUME NEW k \in Handlers PROVE HistoryInv(k)'
    <2>1. HistoryInv(k)
      BY DEF CInv
    <2>2. bal[k] # None /\ bal[k].by # None => bal[k].by \in Handlers
      BY <1>1 DEF IInv, TypeOK, ContribRow
    <2>3. (bal[k] # None /\ bal[k].by # None => Changed(bal[k].by))'
      BY <1>3, <1>5, <2>1, <2>2 DEF HistoryInv
    <2>4. pc[k] = "ticket" => \E f \in Guests : f = Who(k)
      BY <1>1, WhoType
    <2>5. (pc[k] = "ticket" => PaidUp(Who(k)))'
      BY <1>3, <1>4, <1>5, <2>1, <2>4 DEF HistoryInv
    <2>6. pc'[k] \in Early => pc[k] \in Early
      BY <1>3, <1>4 DEF Early
    <2> QED
      BY <1>3, <1>4, <1>5, <2>1, <2>3, <2>5, <2>6 DEF HistoryInv
  <1>8. ASSUME NEW f \in Guests PROVE ContribInv(f)'
    <2>1. ContribInv(f)
      BY DEF CInv
    <2>2. contrib[f] # None /\ contrib[f].by # None => contrib[f].by \in Handlers
      BY <1>1 DEF IInv, TypeOK, ContribRow
    <2>3. (contrib[f] # None /\ contrib[f].by # None => Changed(contrib[f].by))'
      BY <1>3, <1>5, <2>1, <2>2 DEF ContribInv
    <2>4. (f \in ticket => PaidUp(f))'
      BY <1>3, <1>5, <1>6, <2>1 DEF ContribInv
    <2> QED
      BY <1>3, <1>5, <2>1, <2>3, <2>4 DEF ContribInv
  <1> QED
    BY <1>7, <1>8 DEF CInv

\* Every step preserves the invariant.
LEMMA NextCInv == CInv /\ [Next]_vars => CInv'
  <1> SUFFICES ASSUME CInv, [Next]_vars PROVE CInv'
    OBVIOUS
  <1>1. IInv /\ IInv'
    BY NextIInv DEF CInv
  <1>2. ASSUME NEW h \in Handlers, Arrive(h) PROVE CInv'
    BY <1>1, <1>2, ArriveCalm, CalmCInv
  <1>3. ASSUME NEW h \in Handlers, Run(h) \/ Abort(h) PROVE CInv'
    <2>1. CASE CalmRun(h) \/ FindPayment(h)
      BY <1>1, <2>1, CalmRunCalm, FindPaymentCalm, CalmCInv
    <2>2. CASE EnsureFound(h) \/ EnsureCreate(h)
      BY <1>1, <2>2, EnsureFoundCInv, EnsureCreateCInv
    <2>3. CASE CreditContribution(h) \/ SaveContribution(h)
      BY <1>1, <2>3, CreditCInv, SaveCInv
    <2>4. CASE IssueTicket(h)
      BY <1>1, <2>4, IssueTicketCInv
    <2> QED
      BY <1>3, <2>1, <2>2, <2>3, <2>4 DEF Run, CalmRun, Moves
  <1>4. CASE Environment \/ UNCHANGED vars
    <2>1. UNCHANGED <<contrib, ticket, locals>>
      BY <1>4 DEF Environment, CloseCharge, DeleteGuest, ExpireKey, vars, tables
    <2>2. Calm
      BY <2>1 DEF Calm, locals, Who
    <2> QED
      BY <1>1, <2>2, CalmCInv
  <1> QED
    BY <1>2, <1>3, <1>4 DEF Next

\* The invariant holds in every reachable state.
LEMMA SpecCInv == Spec => []CInv
  BY InitCInv, NextCInv, PTL DEF Spec

-----------------------------------------------------------------------------
(* Theorems.                                                                *)

\* However many payments of a guest are credited while the organizer edits the
\* contribution, its columns agree until a handler writes over a version it had
\* not read.
THEOREM ContributionsAgree == Spec => []ContributionConsistent
  <1>1. CInv => ContributionConsistent
    BY DEF CInv, ContribInv, ContributionConsistent
  <1> QED
    BY <1>1, SpecCInv, PTL

\* Only an organizer's edit or a write over a version that was not read can leave
\* a guest with a ticket and a debt.
THEOREM TicketsArePaidFor == Spec => []TicketIsPaidFor
  <1>1. CInv => TicketIsPaidFor
    BY DEF CInv, ContribInv, PaidUp, TicketIsPaidFor, IInv, TypeOK
  <1> QED
    BY <1>1, SpecCInv, PTL

-----------------------------------------------------------------------------
(* Sums.                                                                    *)

\* f with x added to its domain, where it has the value n.
Extends(f2, f, x, n) ==
    /\ x \notin DOMAIN f
    /\ DOMAIN f2 = DOMAIN f \cup {x}
    /\ \A y \in DOMAIN f : f2[y] = f[y]
    /\ f2[x] = n

\* A sum is a natural number, and one number more adds just that number.
LEMMA TotalGrows ==
    ASSUME NEW f, NEW f2, NEW x, NEW n \in Nat, IsFiniteSet(Units(f)), Extends(f2, f, x, n)
    PROVE  /\ IsFiniteSet(Units(f2))
           /\ Total(f) \in Nat /\ Total(f2) = Total(f) + n
  <1> DEFINE own == {x} \X (1 .. n)
  <1>1. Units(f2) = Units(f) \cup own
    BY DEF Units, Extends
  <1>2. Units(f) \cap own = {}
    BY DEF Units, Extends
  <1>3. IsFiniteSet(own) /\ Cardinality(own) = n
    <2>1. IsFiniteSet({x}) /\ Cardinality({x}) = 1
      BY FS_Singleton
    <2>2. IsFiniteSet(1 .. n) /\ Cardinality(1 .. n) = n
      BY FS_Interval
    <2>3. IsFiniteSet(own) /\ Cardinality(own) = Cardinality({x}) * Cardinality(1 .. n)
      BY <2>1, <2>2, FS_Product, Zenon
    <2> QED
      BY <2>1, <2>2, <2>3
  <1>4. Cardinality(Units(f)) \in Nat
    BY FS_CardinalityType
  <1>5. Cardinality(Units(f) \cap own) = 0
    BY <1>2, FS_EmptySet
  <1> HIDE DEF own
  <1> QED
    BY <1>1, <1>3, <1>4, <1>5, FS_Union DEF Total

\* Nothing adds up to nothing.
LEMMA TotalOfNothing ==
    ASSUME NEW f, DOMAIN f = {}
    PROVE  IsFiniteSet(Units(f)) /\ Total(f) = 0
  <1>1. Units(f) = {}
    BY DEF Units
  <1> QED
    BY <1>1, FS_EmptySet DEF Total

-----------------------------------------------------------------------------
(* The total of a contribution.                                             *)

AmountsCredited(g) == [h \in Credits(g) |-> req[h].amount]

\* Credits need a contribution, and what was paid is their sum, unless ...
ExactInv(g) ==
    /\ IsFiniteSet(Units(AmountsCredited(g)))
    /\ contrib[g] = None => Credits(g) = {}
    /\ contrib[g] # None =>
          contrib[g].paid = Total(AmountsCredited(g)) \/ StaleWrite(g) \/ SetsPaid(g)

\* A step that leaves the contribution of g alone, and what handlers did to it.
Undisturbed(g) ==
    /\ contrib'[g] = contrib[g]
    /\ \A k \in Handlers : Changed(k) \/ Changed(k)' =>
          \/ Who(k) # g /\ Who(k)' # g
          \/ /\ Who(k)' = Who(k) /\ req'[k] = req[k]
             /\ \A e \in {"credited", "saved", "stale"} : e \in did'[k] <=> e \in did[k]

\* It leaves the total alone.
LEMMA UndisturbedExact ==
    ASSUME CInv, CInv', NEW g \in Guests, ExactInv(g), Undisturbed(g)
    PROVE  ExactInv(g)'
  <1>1. \A k \in Handlers : "stale" \in did[k] \/ "saved" \in did[k] \/ "credited" \in did[k] => Changed(k)
    BY DEF CInv, HistoryInv, Changed
  <1>2. \A k \in Handlers :
           "stale" \in did'[k] \/ "saved" \in did'[k] \/ "credited" \in did'[k] => Changed(k)'
    BY DEF CInv, HistoryInv, Changed
  <1>3. Credits(g)' = Credits(g) /\ \A k \in Credits(g) : req'[k] = req[k]
    BY <1>1, <1>2 DEF Undisturbed, Credits
  <1>4. AmountsCredited(g)' = AmountsCredited(g)
    BY <1>3 DEF AmountsCredited
  <1>5. (StaleWrite(g) => StaleWrite(g)') /\ (SetsPaid(g) => SetsPaid(g)')
    BY <1>1 DEF Undisturbed, StaleWrite, SetsPaid
  <1>6. contrib'[g] = contrib[g]
    BY DEF Undisturbed
  <1> QED
    BY <1>3, <1>4, <1>5, <1>6 DEF ExactInv

\* The steps that write no contribution disturb none.
LEMMA CalmUndisturbed ==
    ASSUME Calm, NEW g \in Guests
    PROVE  Undisturbed(g)
  BY DEF Calm, Undisturbed, Changed

\* What the steps of a handler other than a calm one do to contributions.
LEMMA OthersUndisturbed ==
    ASSUME CInv, NEW h \in Handlers, NEW g \in Guests,
           \/ EnsureFound(h) \/ IssueTicket(h)
           \/ Who(h) # g /\ (EnsureCreate(h) \/ CreditContribution(h) \/ SaveContribution(h))
    PROVE  Undisturbed(g)
  <1>1. /\ contrib \in [Guests -> ContribRow \cup {None}] /\ did \in [Handlers -> SUBSET Effect]
        /\ UNCHANGED <<req, pay>> /\ \A k \in Handlers : Who(k)' = Who(k)
    BY DEF CInv, IInv, TypeOK, EnsureFound, IssueTicket, EnsureCreate, CreditContribution,
       SaveContribution, Who
  <1>2. CASE EnsureFound(h)
    BY <1>1, <1>2 DEF EnsureFound, tables, Undisturbed
  <1>3. CASE IssueTicket(h)
    BY <1>1, <1>3 DEF IssueTicket, Do, Undisturbed
  <1>4. CASE Who(h) # g
    <2>1. contrib'[g] = contrib[g] /\ \A k \in Handlers \ {h} : did'[k] = did[k]
      <3>1. CASE EnsureFound(h) \/ IssueTicket(h)
        BY <1>1, <3>1 DEF EnsureFound, IssueTicket, Do, tables
      <3>2. CASE EnsureCreate(h)
        BY <1>1, <1>4, <3>2 DEF EnsureCreate, Do
      <3>3. CASE CreditContribution(h)
        BY <1>1, <1>4, <3>3 DEF CreditContribution, Do
      <3>4. CASE SaveContribution(h)
        BY <1>1, <1>4, <3>4 DEF SaveContribution, Do
      <3> QED
        BY <3>1, <3>2, <3>3, <3>4
    <2> QED
      BY <1>1, <1>4, <2>1 DEF Undisturbed
  <1> QED
    BY <1>2, <1>3, <1>4

\* A new row starts with no credits and nothing paid.
LEMMA CreateExact ==
    ASSUME CInv, CInv', NEW h \in Handlers, EnsureCreate(h), ExactInv(Who(h))
    PROVE  ExactInv(Who(h))'
  <1>1. PICK g \in Guests : g = Who(h)
    BY WhoType DEF EnsureCreate, CInv, IInv
  <1>2. /\ contrib[g] = None /\ contrib' = [contrib EXCEPT ![g] = NewRow]
        /\ did' = [did EXCEPT ![h] = @ \cup {"created"}] /\ UNCHANGED <<req, pay>>
    BY <1>1 DEF EnsureCreate, Do
  <1>3. /\ contrib'[g] = NewRow /\ \A k \in Handlers : Who(k)' = Who(k)
        /\ \A k \in Handlers : "credited" \in did'[k] <=> "credited" \in did[k]
    BY <1>2 DEF CInv, IInv, TypeOK, Who
  <1>4. Credits(g) = {}
    BY <1>1, <1>2 DEF ExactInv
  <1>5. Credits(g)' = {}
    BY <1>3, <1>4 DEF Credits
  <1>6. IsFiniteSet(Units(AmountsCredited(g)')) /\ Total(AmountsCredited(g)') = 0
    <2>1. DOMAIN AmountsCredited(g)' = {}
      BY <1>5 DEF AmountsCredited
    <2> QED
      BY <2>1, TotalOfNothing
  <1>7. NewRow.paid = 0
    BY DEF NewRow
  <1>8. ExactInv(g)'
    BY <1>3, <1>5, <1>6, <1>7 DEF ExactInv
  <1> QED
    BY <1>1, <1>3, <1>8

\* A credit adds its amount to a version that it read, or wrote over another.
LEMMA CreditExact ==
    ASSUME CInv, CInv', NEW h \in Handlers, CreditContribution(h), ExactInv(Who(h))
    PROVE  ExactInv(Who(h))'
  <1>1. IInv /\ pc[h] = "credit" /\ req[h].op = "webhook"
    BY DEF CreditContribution, Goto, CInv, IInv, HandlerInv, ControlInv
  <1>2. PICK g \in Guests : g = Who(h)
    BY <1>1, WhoType
  <1>3. /\ contrib[g] \in ContribRow /\ contrib[g] # None /\ bal[h] # None
        /\ contrib'[g] # None /\ contrib'[g].paid = PaidAfter(h)
    <2>1. /\ contrib[g] \in ContribRow /\ contrib'[g] \in ContribRow
          /\ contrib'[g] = [required |-> contrib[g].required, paid |-> PaidAfter(h),
                  remaining |-> Assessed(h).remaining, status |-> Assessed(h).status, by |-> h]
      BY <1>1, <1>2, CreditedRow
    <2>2. bal[h] # None
      BY <1>1 DEF IInv, HandlerInv, LocalsInv
    <2> QED
      BY <2>1, <2>2, NoneAssumption
  <1>4. /\ did' = [did EXCEPT ![h] = @ \cup ({"credited"} \cup Overwrites(h))]
        /\ UNCHANGED <<req, pay>>
    BY DEF CreditContribution, Do
  <1>5. /\ did'[h] = did[h] \cup {"credited"} \cup Overwrites(h)
        /\ \A k \in Handlers \ {h} : did'[k] = did[k]
        /\ \A k \in Handlers : Who(k)' = Who(k)
    BY <1>1, <1>4 DEF IInv, TypeOK, Who
  <1>6. "credited" \notin did[h]
    BY <1>1 DEF CInv, HistoryInv, Early, Changed
  <1>7. Credits(g)' = Credits(g) \cup {h} /\ h \notin Credits(g)
    BY <1>2, <1>5, <1>6 DEF Credits
  <1> DEFINE old == AmountsCredited(g)
             new == AmountsCredited(g)'
             n == req[h].amount
  <1>8. Extends(new, old, h, n)
    BY <1>4, <1>7 DEF AmountsCredited, Extends
  <1>9. n \in Nat /\ IsFiniteSet(Units(old))
    BY <1>1, <1>2, CreditAmount DEF ExactInv
  <1>10. IsFiniteSet(Units(new)) /\ Total(old) \in Nat /\ Total(new) = Total(old) + n
    <2> HIDE DEF old, new, n
    <2> QED
      BY <1>8, <1>9, TotalGrows
  <1>11. (StaleWrite(g) => StaleWrite(g)') /\ (SetsPaid(g) => SetsPaid(g)')
    BY <1>4, <1>5 DEF StaleWrite, SetsPaid
  <1>12. CASE bal[h].by # contrib[g].by
    <2>1. StaleWrite(g)'
      BY <1>2, <1>5, <1>12 DEF StaleWrite, Overwrites
    <2>2. ExactInv(g)'
      BY <1>3, <1>10, <2>1 DEF ExactInv
    <2> QED
      BY <1>2, <1>5, <2>2
  <1>13. CASE bal[h].by = contrib[g].by
    <2>1. bal[h] = contrib[g]
      BY <1>2, <1>3, <1>13 DEF CInv, HistoryInv
    <2>2. PaidAfter(h) = contrib[g].paid + n
      BY <2>1 DEF PaidAfter
    <2>3. contrib[g].paid = Total(old) \/ StaleWrite(g) \/ SetsPaid(g)
      BY <1>2, <1>3 DEF ExactInv
    <2> HIDE DEF old, n
    <2>4. contrib'[g].paid = Total(new) \/ StaleWrite(g)' \/ SetsPaid(g)'
      BY <1>3, <1>10, <1>11, <2>2, <2>3
    <2>5. ExactInv(g)'
      BY <1>3, <1>10, <2>4 DEF ExactInv
    <2> QED
      BY <1>2, <1>5, <2>5
  <1> QED
    BY <1>12, <1>13

\* An edit that leaves the amount alone writes what it read of it.
LEMMA SaveExact ==
    ASSUME CInv, CInv', NEW h \in Handlers, SaveContribution(h), ExactInv(Who(h))
    PROVE  ExactInv(Who(h))'
  <1>1. IInv /\ pc[h] = "save" /\ req[h].op = "edit"
    BY DEF SaveContribution, Goto, CInv, IInv, HandlerInv, ControlInv
  <1>2. PICK g \in Guests : g = Who(h)
    BY <1>1, WhoType
  <1>3. bal[h] # None /\ contrib[g] # None
    BY <1>1, <1>2 DEF IInv, HandlerInv, LocalsInv
  <1>4. /\ contrib'[g] # None /\ contrib'[g].paid = Chosen(req[h].edit.paid, bal[h].paid)
        /\ did' = [did EXCEPT ![h] = @ \cup ({"saved"} \cup Overwrites(h))]
        /\ UNCHANGED <<req, pay>>
    <2>1. contrib'[g] \in ContribRow
      BY <1>1, <1>2, SavedRow
    <2> QED
      BY <1>1, <1>2, <2>1, NoneAssumption DEF SaveContribution, Do, IInv, TypeOK
  <1>5. /\ did'[h] = did[h] \cup {"saved"} \cup Overwrites(h)
        /\ \A k \in Handlers \ {h} : did'[k] = did[k]
        /\ \A k \in Handlers : Who(k)' = Who(k)
    BY <1>1, <1>4 DEF IInv, TypeOK, Who
  <1>6. Credits(g)' = Credits(g) /\ AmountsCredited(g)' = AmountsCredited(g)
    <2>1. \A k \in Handlers : "credited" \in did'[k] <=> "credited" \in did[k]
      BY <1>5 DEF Overwrites
    <2>2. Credits(g)' = Credits(g)
      BY <1>5, <2>1 DEF Credits
    <2> QED
      BY <1>4, <2>2 DEF AmountsCredited
  <1>7. (StaleWrite(g) => StaleWrite(g)') /\ (SetsPaid(g) => SetsPaid(g)')
    BY <1>4, <1>5 DEF StaleWrite, SetsPaid
  <1>8. \/ StaleWrite(g)' \/ SetsPaid(g)'
         \/ contrib'[g].paid = contrib[g].paid
    <2>1. bal[h].by # contrib[g].by => StaleWrite(g)'
      BY <1>2, <1>5 DEF StaleWrite, Overwrites
    <2>2. req[h].edit.paid # Keep => SetsPaid(g)'
      BY <1>2, <1>4, <1>5 DEF SetsPaid
    <2>3. bal[h].by = contrib[g].by /\ req[h].edit.paid = Keep => contrib'[g].paid = contrib[g].paid
      BY <1>2, <1>3, <1>4 DEF CInv, HistoryInv, Chosen
    <2> QED
      BY <2>1, <2>2, <2>3
  <1>9. ExactInv(g)'
    BY <1>2, <1>3, <1>4, <1>6, <1>7, <1>8 DEF ExactInv
  <1> QED
    BY <1>2, <1>5, <1>9

\* There are no credits at the start.
LEMMA InitExact == Init => \A g \in Guests : ExactInv(g)
  <1> SUFFICES ASSUME Init, NEW g \in Guests PROVE ExactInv(g)
    OBVIOUS
  <1>1. Credits(g) = {} /\ contrib[g] = None
    BY DEF Init, Credits
  <1>2. DOMAIN AmountsCredited(g) = {}
    BY <1>1 DEF AmountsCredited
  <1> QED
    BY <1>1, <1>2, TotalOfNothing DEF ExactInv

\* Every step keeps the totals.
LEMMA NextExact ==
    ASSUME CInv, CInv', [Next]_vars, NEW g \in Guests, ExactInv(g)
    PROVE  ExactInv(g)'
  <1>1. ASSUME NEW h \in Handlers, Arrive(h) PROVE ExactInv(g)'
    BY <1>1, ArriveCalm, CalmUndisturbed, UndisturbedExact
  <1>2. ASSUME NEW h \in Handlers, Run(h) \/ Abort(h) PROVE ExactInv(g)'
    <2>1. CASE CalmRun(h) \/ FindPayment(h)
      BY <2>1, CalmRunCalm, FindPaymentCalm, CalmUndisturbed, UndisturbedExact DEF CInv
    <2>2. CASE EnsureFound(h) \/ IssueTicket(h)
      BY <2>2, OthersUndisturbed, UndisturbedExact
    <2>3. CASE EnsureCreate(h) \/ CreditContribution(h) \/ SaveContribution(h)
      <3>1. CASE Who(h) # g
        BY <2>3, <3>1, OthersUndisturbed, UndisturbedExact
      <3>2. CASE Who(h) = g
        <4>1. UNCHANGED <<req, pay>>
          BY <2>3 DEF EnsureCreate, CreditContribution, SaveContribution
        <4>2. Who(h)' = g
          BY <3>2, <4>1 DEF Who
        <4> QED
          BY <2>3, <3>2, <4>2, CreateExact, CreditExact, SaveExact
      <3> QED
        BY <3>1, <3>2
    <2> QED
      BY <1>2, <2>1, <2>2, <2>3 DEF Run, CalmRun, Moves
  <1>3. CASE Environment \/ UNCHANGED vars
    <2>1. UNCHANGED <<contrib, ticket, locals>>
      BY <1>3 DEF Environment, CloseCharge, DeleteGuest, ExpireKey, vars, tables
    <2>2. Calm
      BY <2>1 DEF Calm, locals, Who
    <2> QED
      BY <2>2, CalmUndisturbed, UndisturbedExact
  <1> QED
    BY <1>1, <1>2, <1>3 DEF Next

\* applyPayment adds to the paid amount it read: however credits and edits of one
\* guest interleave, the amount in the table is the sum of the credits, until a
\* handler writes over a version it had not read or the organizer sets the amount.
THEOREM LedgerStaysExact == Spec => []LedgerExact
  <1> DEFINE EInv == CInv /\ \A g \in Guests : ExactInv(g)
  <1>1. Init => EInv
    BY InitCInv, InitExact
  <1>2. EInv /\ [Next]_vars => EInv'
    BY NextCInv, NextExact
  <1>3. EInv => LedgerExact
    BY DEF ExactInv, AmountsCredited, LedgerExact
  <1> QED
    BY <1>1, <1>2, <1>3, PTL DEF Spec

-----------------------------------------------------------------------------
(* The refinement.                                                          *)

Invoices ==
    [r \in Refs |-> IF payments[r] = None THEN None
                    ELSE [guest |-> payments[r].guest, amount |-> payments[r].amount]]

SettledRefs == {r \in Refs : \E h \in Handlers : "credited" \in did[h] /\ pay[h].ref = r}

Balances == [g \in Guests |-> IF contrib[g] = None THEN 0 ELSE contrib[g].paid]

Ledger == INSTANCE ContributionLedger WITH
              invoice <- Invoices, settled <- SettledRefs, paid <- Balances

\* The pipeline implements the ledger: a payment's terms are fixed, every payment is
\* counted at most once and the balance is the exact sum of what was counted.
ImplementsLedger == Ledger!Spec

\* A step that credits nothing settles nothing.
LEMMA SameSettled ==
    ASSUME \A k \in Handlers : /\ "credited" \in did'[k] <=> "credited" \in did[k]
                               /\ "credited" \in did[k] => pay'[k] = pay[k]
    PROVE  SettledRefs' = SettledRefs
  BY DEF SettledRefs


\* What a credit settles.
LEMMA CreditSettles ==
    ASSUME IInv, NEW h \in Handlers, CreditContribution(h)
    PROVE  \A r \in Refs : r \in SettledRefs' <=> r \in SettledRefs \/ r = pay[h].ref
  <1>1. /\ \A k \in Handlers : "credited" \in did'[k] <=> "credited" \in did[k] \/ k = h
        /\ pay' = pay
    BY DEF CreditContribution, Do, Overwrites, IInv, TypeOK
  <1> QED
    BY <1>1 DEF SettledRefs

-----------------------------------------------------------------------------
(* Every step of the pipeline is a step of the ledger or a stutter.         *)

\* Nothing is invoiced, settled or paid at the start.
LEMMA InitLedger == Init => Ledger!Init
  BY DEF Init, Ledger!Init, Invoices, SettledRefs, Balances

LedgerVars == <<Invoices, SettledRefs, Balances>>

\* Inserting a payment row issues its invoice.
LEMMA InsertInvoices ==
    ASSUME IInv, NEW h \in Handlers, InsertPayment(h)
    PROVE  Ledger!Next
  <1>1. PICK q \in Refs : q = req[h].ref
    BY DEF InsertPayment, Goto, IInv, HandlerInv, ControlInv, RequestInv
  <1> DEFINE row == [ref |-> req[h].ref, guest |-> req[h].guest, amount |-> req[h].amount,
                     status |-> "PENDING", charge |-> h, by |-> h]
             terms == [guest |-> req[h].guest, amount |-> req[h].amount]
  <1>2. /\ req[h].guest \in Guests /\ req[h].amount \in Amounts /\ payments[q] = None
        /\ payments' = [payments EXCEPT ![q] = row] /\ UNCHANGED contrib
        /\ UNCHANGED pay /\ \A k \in Handlers : "credited" \in did'[k] <=> "credited" \in did[k]
    BY <1>1 DEF InsertPayment, ReferenceFree, Goto, Do, IInv, TypeOK, HandlerInv, ControlInv,
       RequestInv, Request
  <1>3. row \in PaymentRow
    BY <1>1, <1>2 DEF PaymentRow, WebhookStatus
  <1>4. row # None /\ row.guest = req[h].guest /\ row.amount = req[h].amount
    BY <1>3, NoneAssumption
  <1> HIDE DEF row
  <1>5. Invoices[q] = None /\ Invoices' = [Invoices EXCEPT ![q] = terms]
    BY <1>1, <1>2, <1>4 DEF Invoices, IInv, TypeOK
  <1>6. SettledRefs' = SettledRefs
    BY <1>2, SameSettled
  <1>7. Balances' = Balances
    BY <1>2 DEF Balances
  <1> QED
    BY <1>2, <1>5, <1>6, <1>7 DEF Ledger!Next, Ledger!Invoice

\* A credit that comes once and from the current row settles the invoice and adds
\* its amount to what the guest has paid.
LEMMA CreditSettlesInvoice ==
    ASSUME IInv, NEW h \in Handlers, CreditContribution(h),
           pay[h].ref \notin SettledRefs, bal[h] = contrib[Who(h)]
    PROVE  Ledger!Next
  <1>1. /\ IInv /\ pc[h] = "credit" /\ UNCHANGED payments /\ pay[h] # None
        /\ req[h] # None /\ req[h].op = "webhook" /\ req[h].status = "PAID"
        /\ pay[h] \in PaymentRow
    BY DEF CreditContribution, Goto, IInv, TypeOK, HandlerInv, ControlInv, DidInv, LocalsInv
  <1>2. PICK q \in Refs : q = pay[h].ref
    BY <1>1 DEF PaymentRow
  <1>3. PICK g \in Guests : g = Who(h)
    BY <1>1, WhoType
  <1> DEFINE a == req[h].amount
  <1>4. /\ payments[q] # None /\ payments[q] \in PaymentRow
        /\ payments[q].guest = g /\ payments[q].amount = a
    <2>1. /\ payments[q] # None /\ SameTerms(payments[q], pay[h])
          /\ SameTerms(charges[req[h].charge], pay[h])
          /\ req[h].amount = charges[req[h].charge].amount
      BY <1>1, <1>2 DEF IInv, HandlerInv, LocalsInv, RequestInv
    <2> QED
      BY <1>1, <1>3, <2>1 DEF SameTerms, Who, IInv, TypeOK
  <1>5. Invoices[q] = [guest |-> g, amount |-> a] /\ Invoices' = Invoices
    BY <1>1, <1>4 DEF Invoices
  <1>6. Invoices[q] # None
    <2>1. a \in Amounts
      BY <1>4 DEF PaymentRow
    <2> QED
      BY <1>5, <2>1, NoneAssumption
  <1>7. q \notin SettledRefs
    BY <1>2
  <1>8. SettledRefs' = SettledRefs \cup {q}
    <2>1. SettledRefs' \subseteq Refs /\ SettledRefs \subseteq Refs
      BY DEF SettledRefs
    <2> QED
      BY <1>1, <1>2, <2>1, CreditSettles
  <1>9. Balances' = [Balances EXCEPT ![g] = @ + a]
    <2>1. /\ contrib[g] # None /\ bal[h] = contrib[g]
      BY <1>1, <1>3 DEF IInv, HandlerInv, LocalsInv
    <2>2. /\ contrib' = [contrib EXCEPT ![g] = contrib'[g]] /\ contrib'[g] # None
          /\ contrib'[g].paid = contrib[g].paid + a
      <3>1. /\ contrib' = [contrib EXCEPT ![g] = contrib'[g]] /\ contrib'[g] \in ContribRow
            /\ contrib'[g].paid = PaidAfter(h)
        <4>1. /\ contrib' = [contrib EXCEPT ![g] = contrib'[g]] /\ contrib'[g] \in ContribRow
              /\ contrib'[g] = [required |-> contrib[g].required, paid |-> PaidAfter(h),
                                remaining |-> Assessed(h).remaining,
                                status |-> Assessed(h).status, by |-> h]
          BY <1>1, <1>3, CreditedRow
        <4> QED
          BY <4>1
      <3>2. PaidAfter(h) = contrib[g].paid + a
        BY <2>1 DEF PaidAfter
      <3> HIDE DEF a
      <3> QED
        BY <3>1, <3>2, NoneAssumption
    <2> HIDE DEF a
    <2>3. \A f \in Guests : contrib'[f] = IF f = g THEN contrib'[g] ELSE contrib[f]
      BY <1>1, <2>2 DEF IInv, TypeOK
    <2> QED
      BY <2>1, <2>2, <2>3 DEF Balances
  <1>10. Invoices[q].guest = g /\ Invoices[q].amount = a
    BY <1>5
  <1> HIDE DEF a
  <1>11. Ledger!Settle(q)
    BY <1>5, <1>6, <1>7, <1>8, <1>9, <1>10 DEF Ledger!Settle
  <1> QED
    BY <1>2, <1>11 DEF Ledger!Next

\* Marking a row with a report keeps its terms.
LEMMA MarkKeepsLedger ==
    ASSUME IInv, NEW h \in Handlers, MarkPayment(h)
    PROVE  UNCHANGED LedgerVars
  <1>1. /\ pc[h] = "mark" /\ UNCHANGED <<contrib, pay>>
        /\ pay[h].ref \in Refs /\ payments[pay[h].ref] # None
    BY DEF MarkPayment, Goto, IInv, TypeOK, HandlerInv, LocalsInv, PaymentRow
  <1>2. PICK q \in Refs : q = pay[h].ref
    BY <1>1
  <1>3. /\ payments'[q].guest = payments[q].guest /\ payments'[q].amount = payments[q].amount
        /\ \A r \in Refs \ {q} : payments'[r] = payments[r]
        /\ \A k \in Handlers : "credited" \in did'[k] <=> "credited" \in did[k]
    BY <1>1, <1>2 DEF MarkPayment, Do, IInv, TypeOK
  <1>4. IInv'
    BY MarkPaymentIInv
  <1>5. payments'[q] # None
    BY <1>1, <1>2, <1>4 DEF IInv, HandlerInv, LocalsInv, MarkPayment
  <1>6. Invoices' = Invoices
    BY <1>1, <1>2, <1>3, <1>5 DEF Invoices
  <1>7. SettledRefs' = SettledRefs
    BY <1>1, <1>3, SameSettled
  <1>8. Balances' = Balances
    BY <1>1 DEF Balances
  <1> QED
    BY <1>6, <1>7, <1>8 DEF LedgerVars

\* A new contribution has nothing paid.
LEMMA CreateKeepsLedger ==
    ASSUME IInv, NEW h \in Handlers, EnsureCreate(h)
    PROVE  UNCHANGED LedgerVars
  <1>1. PICK g \in Guests : g = Who(h)
    BY WhoType DEF EnsureCreate
  <1>2. /\ contrib[g] = None /\ contrib'[g] = NewRow /\ UNCHANGED <<payments, pay>>
        /\ \A f \in Guests \ {g} : contrib'[f] = contrib[f]
        /\ \A k \in Handlers : "credited" \in did'[k] <=> "credited" \in did[k]
    BY <1>1 DEF EnsureCreate, Do, IInv, TypeOK
  <1>3. NewRow # None /\ NewRow.paid = 0
    BY PaymentsAssumption, NoneAssumption
    DEF NewRow, FreshRow, ContribRow, ContributionStatus
  <1>4. Balances' = Balances
    BY <1>2, <1>3 DEF Balances
  <1>5. Invoices' = Invoices /\ SettledRefs' = SettledRefs
    BY <1>2, SameSettled DEF Invoices
  <1> QED
    BY <1>4, <1>5 DEF LedgerVars

\* No other step concerns the ledger.
LEMMA OthersKeepLedger ==
    ASSUME IInv, UNCHANGED <<payments, contrib>>,
           \A k \in Handlers : /\ "credited" \in did'[k] <=> "credited" \in did[k]
                               /\ "credited" \in did[k] => pay'[k] = pay[k]
    PROVE  UNCHANGED LedgerVars
  BY SameSettled DEF LedgerVars, Invoices, Balances

\* A step is a step of the ledger or leaves it alone, if the credits come once and
\* from the current row and the edits keep the balances.
LEMMA StepLedger ==
    ASSUME IInv, [Next]_vars,
           \A h \in Handlers : CreditContribution(h) =>
              pay[h].ref \notin SettledRefs /\ bal[h] = contrib[Who(h)],
           \A h \in Handlers : SaveContribution(h) => UNCHANGED LedgerVars
    PROVE  [Ledger!Next]_LedgerVars
  <1>1. IInv
    OBVIOUS
  <1>2. ASSUME NEW h \in Handlers, Arrive(h) PROVE UNCHANGED LedgerVars
    <2>1. UNCHANGED <<payments, contrib, pay, did>>
      BY <1>2 DEF Arrive, RequestPayment, ReceiveWebhook, RequestEdit, RequestBalance, Accept,
         tables
    <2> QED
      BY <1>1, <2>1, OthersKeepLedger
  <1>3. ASSUME NEW h \in Handlers, Run(h) \/ Abort(h) PROVE [Ledger!Next]_LedgerVars
    <2>1. CASE InsertPayment(h) \/ CreditContribution(h)
      BY <1>1, <2>1, InsertInvoices, CreditSettlesInvoice
    <2>2. CASE MarkPayment(h) \/ EnsureCreate(h)
      BY <1>1, <2>2, MarkKeepsLedger, CreateKeepsLedger
    <2>3. CASE FindPayment(h)
      <3>1. /\ UNCHANGED <<payments, contrib, did>> /\ "credited" \notin did[h]
            /\ \A k \in Handlers \ {h} : pay'[k] = pay[k]
        BY <1>1, <2>3 DEF FindPayment, tables, IInv, TypeOK, HandlerInv, LocalsInv, DidInv
      <3> QED
        BY <1>1, <3>1, OthersKeepLedger
    <2>4. CASE Moves(h) \/ EnsureFound(h) \/ OpenCharge(h)
      <3>1. UNCHANGED <<payments, contrib, did, pay>>
        BY <2>4 DEF Moves, EnsureMissing, EnsureConflict, LookupExisting, LookupNew,
           InsertConflict, SeenDuplicate, NotSeen, RejectWebhook, GuestGone, Abort, EnsureFound,
           OpenCharge, tables
      <3> QED
        BY <1>1, <3>1, OthersKeepLedger
    <2>5. CASE IssueTicket(h) \/ SettlePledges(h) \/ NotifyGuest(h) \/ Acknowledge(h)
      <3>1. /\ UNCHANGED <<payments, contrib, pay>>
            /\ \A k \in Handlers : "credited" \in did'[k] <=> "credited" \in did[k]
        BY <1>1, <2>5 DEF IssueTicket, SettlePledges, NotifyGuest, Acknowledge, Do, tables,
           IInv, TypeOK
      <3> QED
        BY <1>1, <3>1, OthersKeepLedger
    <2>6. CASE SaveContribution(h)
      BY <2>6
    <2> QED
      BY <1>3, <2>1, <2>2, <2>3, <2>4, <2>5, <2>6 DEF Run, Moves
  <1>4. CASE Environment \/ UNCHANGED vars
    <2>1. UNCHANGED <<payments, contrib, locals>>
      BY <1>4 DEF Environment, CloseCharge, DeleteGuest, ExpireKey, vars, tables
    <2> QED
      BY <1>1, <2>1, OthersKeepLedger DEF locals
  <1> QED
    BY <1>2, <1>3, <1>4 DEF Next

-----------------------------------------------------------------------------
(* The refinement when handlers overlap.                                    *)

\* A step that could not have disturbed the ledger: no report is written over a row
\* that is PAID, a contribution is written only over the version that was read,
\* and an edit leaves the paid amount out.
Orderly ==
    \A h \in Handlers :
        /\ MarkPayment(h) => payments[pay[h].ref].status # "PAID"
        /\ CreditContribution(h) \/ SaveContribution(h) => bal[h] = contrib[Who(h)]
        /\ SaveContribution(h) => req[h].edit.paid = Keep

\* A webhook that has marked a payment PAID and not credited it yet.
Paying(h) == pc[h] \in {"ensure", "create", "credit"} /\ req[h].op = "webhook"

\* The inductive invariant of orderly behaviours: at most one webhook pays a
\* payment, and nobody does once it is settled.
PayOnce ==
    /\ IInv
    /\ \A r \in SettledRefs : payments[r].status = "PAID"
    /\ \A h \in Handlers : Paying(h) =>
          payments[pay[h].ref].status = "PAID" /\ pay[h].ref \notin SettledRefs
    /\ \A h, k \in Handlers : Paying(h) /\ Paying(k) /\ pay[h].ref = pay[k].ref => h = k

\* Nobody pays at the start.
LEMMA InitPayOnce == Init => PayOnce
  BY InitIInv DEF Init, PayOnce, SettledRefs, Paying

\* Rows that are settled or being paid exist.
LEMMA SettledRows ==
    ASSUME IInv
    PROVE  /\ \A r \in SettledRefs : r \in Refs /\ payments[r] # None
           /\ \A h \in Handlers : Paying(h) => pay[h].ref \in Refs /\ payments[pay[h].ref] # None
  <1>1. ASSUME NEW h \in Handlers, pay[h] # None
        PROVE  pay[h].ref \in Refs /\ payments[pay[h].ref] # None
    BY <1>1 DEF IInv, TypeOK, PaymentRow, HandlerInv, LocalsInv
  <1>2. ASSUME NEW h \in Handlers, "marked" \in did[h] PROVE pay[h] # None
    BY <1>2 DEF IInv, HandlerInv, LocalsInv
  <1>3. ASSUME NEW h \in Handlers, Paying(h) \/ "credited" \in did[h] PROVE "marked" \in did[h]
    BY <1>3 DEF IInv, HandlerInv, DidInv, Paying
  <1> QED
    BY <1>1, <1>2, <1>3 DEF SettledRefs

\* A step that settles nothing, brings nobody to paying and keeps the PAID rows.
LEMMA FramePayOnce ==
    ASSUME PayOnce, IInv', SettledRefs' = SettledRefs,
           \A r \in Refs : payments[r] # None /\ payments[r].status = "PAID" =>
              payments'[r].status = "PAID",
           \A h \in Handlers : Paying(h)' => Paying(h) /\ pay'[h] = pay[h]
    PROVE  PayOnce'
  <1>1. /\ \A r \in SettledRefs : payments'[r].status = "PAID"
        /\ \A h \in Handlers : Paying(h) => payments'[pay[h].ref].status = "PAID"
    BY SettledRows DEF PayOnce
  <1> QED
    BY <1>1 DEF PayOnce

\* The steps that neither mark a payment nor credit a contribution.
LEMMA OthersPayOnce ==
    ASSUME PayOnce, IInv', [Next]_vars,
           \A h \in Handlers : ~MarkPayment(h) /\ ~CreditContribution(h)
    PROVE  PayOnce'
  <1>1. IInv
    BY DEF PayOnce
  <1> DEFINE Keeps(h) ==
        /\ \A r \in Refs : payments[r] # None => payments'[r] = payments[r]
        /\ \A k \in Handlers : /\ "credited" \in did'[k] <=> "credited" \in did[k]
                               /\ "credited" \in did[k] => pay'[k] = pay[k]
        /\ \A k \in Handlers \ {h} : pc'[k] = pc[k] /\ req'[k] = req[k] /\ pay'[k] = pay[k]
        /\ Paying(h)' => Paying(h) /\ pay'[h] = pay[h]
  <1>2. ASSUME NEW h \in Handlers, Keeps(h) PROVE PayOnce'
    <2>1. SettledRefs' = SettledRefs
      BY <1>2, SameSettled
    <2>2. \A k \in Handlers : Paying(k)' => Paying(k) /\ pay'[k] = pay[k]
      BY <1>2 DEF Paying
    <2> QED
      BY <1>2, <2>1, <2>2, FramePayOnce
  <1>3. ASSUME NEW h \in Handlers, Arrive(h) PROVE Keeps(h)
    <2>1. PICK first, request : Accept(h, first, request) /\ Fresh(first, request)
      BY <1>1, <1>3, ArriveFresh
    <2>2. /\ pc'[h] = first /\ req'[h] = request
          /\ UNCHANGED <<payments, did, pay>>
          /\ \A k \in Handlers \ {h} : pc'[k] = pc[k] /\ req'[k] = req[k]
      BY <1>1, <2>1 DEF Accept, Goto, tables, IInv, TypeOK
    <2>3. ~Paying(h)'
      BY <2>1, <2>2 DEF Fresh, Paying
    <2> QED
      BY <2>2, <2>3
  <1>4. ASSUME NEW h \in Handlers, Run(h) \/ Abort(h) PROVE Keeps(h)
    <2>1. CASE Moves(h)
      <3>1. /\ UNCHANGED <<payments, req, pay, did>>
            /\ \A k \in Handlers \ {h} : pc'[k] = pc[k]
            /\ pc'[h] = "create" => pc[h] = "ensure"
            /\ pc'[h] \in {"create", "failed", "done", "find", "charge"}
        BY <1>1, <2>1 DEF Moves, EnsureMissing, EnsureConflict, LookupExisting, LookupNew,
           InsertConflict, SeenDuplicate, NotSeen, RejectWebhook, GuestGone, Abort, Goto, tables,
           IInv, TypeOK
      <3> QED
        BY <3>1 DEF Paying
    <2>2. CASE EnsureFound(h) \/ EnsureCreate(h)
      <3>1. /\ UNCHANGED <<payments, req, pay>> /\ pc[h] \in {"ensure", "create"}
            /\ \A k \in Handlers \ {h} : pc'[k] = pc[k]
            /\ \A k \in Handlers : "credited" \in did'[k] <=> "credited" \in did[k]
        BY <1>1, <2>2 DEF EnsureFound, EnsureCreate, Do, tables, IInv, TypeOK
      <3> QED
        BY <3>1 DEF Paying
    <2>3. CASE OpenCharge(h) \/ InsertPayment(h)
      <3>1. /\ \A r \in Refs : payments[r] # None => payments'[r] = payments[r]
            /\ UNCHANGED <<req, pay>> /\ pc'[h] \in {"insert", "done"}
            /\ \A k \in Handlers \ {h} : pc'[k] = pc[k]
            /\ \A k \in Handlers : "credited" \in did'[k] <=> "credited" \in did[k]
        BY <1>1, <2>3 DEF OpenCharge, InsertPayment, ReferenceFree, Goto, Do, IInv, TypeOK
      <3> QED
        BY <3>1 DEF Paying
    <2>4. CASE FindPayment(h)
      <3>1. /\ UNCHANGED <<payments, req, did>> /\ "credited" \notin did[h]
            /\ pc'[h] \in {"ack", "mark"}
            /\ \A k \in Handlers \ {h} : pc'[k] = pc[k] /\ pay'[k] = pay[k]
        BY <1>1, <2>4 DEF FindPayment, tables, IInv, TypeOK, HandlerInv, LocalsInv, DidInv
      <3> QED
        BY <3>1 DEF Paying
    <2>5. CASE SaveContribution(h) \/ IssueTicket(h) \/ SettlePledges(h) \/ NotifyGuest(h)
               \/ Acknowledge(h)
      <3>1. /\ UNCHANGED <<payments, req, pay>>
            /\ pc'[h] \in {"ticket", "pledges", "notify", "ack", "done"}
            /\ \A k \in Handlers \ {h} : pc'[k] = pc[k]
            /\ \A k \in Handlers : "credited" \in did'[k] <=> "credited" \in did[k]
        BY <1>1, <2>5 DEF SaveContribution, Overwrites, IssueTicket, SettlePledges, NotifyGuest,
           Acknowledge, Goto, Do, tables, IInv, TypeOK
      <3> QED
        BY <3>1 DEF Paying
    <2> QED
      BY <1>4, <2>1, <2>2, <2>3, <2>4, <2>5 DEF Run, Moves
  <1>5. CASE Environment \/ UNCHANGED vars
    <2>1. UNCHANGED <<payments, locals>>
      BY <1>5 DEF Environment, CloseCharge, DeleteGuest, ExpireKey, vars, tables
    <2>2. SettledRefs' = SettledRefs
      BY <2>1, SameSettled DEF locals
    <2> QED
      BY <2>1, <2>2, FramePayOnce DEF locals, Paying
  <1> HIDE DEF Keeps
  <1> QED
    BY <1>2, <1>3, <1>4, <1>5 DEF Next

\* Whoever marks a row that is not PAID is the only one to pay it.
LEMMA MarkPayOnce ==
    ASSUME PayOnce, IInv', NEW h \in Handlers, MarkPayment(h),
           payments[pay[h].ref].status # "PAID"
    PROVE  PayOnce'
  <1>1. /\ IInv /\ pc[h] = "mark" /\ pay[h] # None /\ pay[h] \in PaymentRow
        /\ UNCHANGED <<req, pay>>
    BY DEF PayOnce, MarkPayment, Goto, IInv, TypeOK, HandlerInv, LocalsInv
  <1>2. PICK q \in Refs : q = pay[h].ref
    BY <1>1 DEF PaymentRow
  <1>3. /\ \A k \in Handlers \ {h} : pc'[k] = pc[k]
        /\ \A k \in Handlers : "credited" \in did'[k] <=> "credited" \in did[k]
        /\ \A r \in Refs \ {q} : payments'[r] = payments[r]
        /\ payments'[q].status = req[h].status
        /\ pc'[h] = (IF req[h].status = "PAID" THEN "ensure" ELSE "ack")
    BY <1>1, <1>2 DEF MarkPayment, Goto, Do, IInv, TypeOK
  <1>4. SettledRefs' = SettledRefs /\ q \notin SettledRefs
    BY <1>1, <1>2, <1>3, SameSettled DEF PayOnce
  <1>5. ASSUME NEW k \in Handlers, k # h, Paying(k)'
        PROVE  Paying(k) /\ pay[k].ref # q /\ pay[k].ref \in Refs
    <2>1. Paying(k)
      BY <1>1, <1>3, <1>5 DEF Paying
    <2> QED
      BY <1>1, <1>2, <2>1, SettledRows DEF PayOnce
  <1>6. Paying(h)' => payments'[q].status = "PAID"
    BY <1>3 DEF Paying
  <1>7. \A r \in SettledRefs : payments'[r] = payments[r]
    BY <1>1, <1>3, <1>4, SettledRows
  <1>8. ASSUME NEW k \in Handlers, Paying(k)'
        PROVE  payments'[pay[k].ref].status = "PAID" /\ pay[k].ref \notin SettledRefs
    <2>1. CASE k = h
      BY <1>2, <1>4, <1>6, <1>8, <2>1
    <2>2. CASE k # h
      <3>1. Paying(k) /\ pay[k].ref # q /\ pay[k].ref \in Refs
        BY <1>5, <1>8, <2>2
      <3> QED
        BY <1>3, <3>1 DEF PayOnce
    <2> QED
      BY <2>1, <2>2
  <1>9. ASSUME NEW j \in Handlers, NEW k \in Handlers, Paying(j)', Paying(k)',
                pay[j].ref = pay[k].ref
         PROVE  j = k
    <2>1. CASE j = h \/ k = h
      BY <1>2, <1>5, <1>9, <2>1
    <2>2. CASE j # h /\ k # h
      BY <1>5, <1>9, <2>2 DEF PayOnce
    <2> QED
      BY <2>1, <2>2
  <1> QED
    BY <1>1, <1>4, <1>7, <1>8, <1>9 DEF PayOnce

\* Who credits a payment leaves nobody behind to credit it again.
LEMMA CreditPayOnce ==
    ASSUME PayOnce, IInv', NEW h \in Handlers, CreditContribution(h)
    PROVE  PayOnce'
  <1>1. /\ IInv /\ pc[h] = "credit" /\ req[h].op = "webhook" /\ UNCHANGED <<payments, req, pay>>
        /\ pc'[h] \in {"ticket", "pledges"} /\ \A k \in Handlers \ {h} : pc'[k] = pc[k]
    BY DEF PayOnce, CreditContribution, Goto, IInv, TypeOK, HandlerInv, ControlInv
  <1>2. Paying(h) /\ ~Paying(h)' /\ \A k \in Handlers \ {h} : Paying(k)' <=> Paying(k)
    BY <1>1 DEF Paying
  <1>3. pay[h].ref \in Refs
    BY <1>1, <1>2, SettledRows
  <1>4. SettledRefs' = SettledRefs \cup {pay[h].ref}
    <2>1. SettledRefs' \subseteq Refs /\ SettledRefs \subseteq Refs
      BY DEF SettledRefs
    <2> QED
      BY <1>1, <1>3, <2>1, CreditSettles
  <1> QED
    BY <1>1, <1>2, <1>4 DEF PayOnce

\* Every orderly step preserves the invariant.
LEMMA NextPayOnce == PayOnce /\ [Next]_vars /\ [Orderly]_vars => PayOnce'
  <1> SUFFICES ASSUME PayOnce, [Next]_vars, [Orderly]_vars PROVE PayOnce'
    OBVIOUS
  <1>1. IInv'
    BY NextIInv DEF PayOnce
  <1>2. ASSUME NEW h \in Handlers, MarkPayment(h) PROVE PayOnce'
    <2>1. ~UNCHANGED vars
      BY <1>2 DEF MarkPayment, Goto, vars, locals, PayOnce, IInv, TypeOK
    <2> QED
      BY <1>1, <1>2, <2>1, MarkPayOnce DEF Orderly
  <1>3. ASSUME NEW h \in Handlers, CreditContribution(h) PROVE PayOnce'
    BY <1>1, <1>3, CreditPayOnce
  <1> QED
    BY <1>1, <1>2, <1>3, OthersPayOnce

\* An orderly edit leaves the balances alone.
LEMMA OrderlyEdit ==
    ASSUME IInv, NEW h \in Handlers, SaveContribution(h),
           bal[h] = contrib[Who(h)], req[h].edit.paid = Keep
    PROVE  UNCHANGED LedgerVars
  <1>1. /\ pc[h] = "save" /\ bal[h] # None /\ UNCHANGED <<payments, pay>>
        /\ \A k \in Handlers : "credited" \in did'[k] <=> "credited" \in did[k]
    BY DEF SaveContribution, Overwrites, Goto, Do, IInv, TypeOK, HandlerInv, LocalsInv
  <1>2. PICK g \in Guests : g = Who(h)
    BY <1>1, WhoType
  <1>3. /\ contrib'[g].paid = contrib[g].paid
        /\ \A f \in Guests \ {g} : contrib'[f] = contrib[f]
    BY <1>2 DEF SaveContribution, Chosen, IInv, TypeOK
  <1>4. contrib[g] # None /\ contrib'[g] # None
    BY <1>1, <1>2, SavedRow, NoneAssumption DEF IInv, HandlerInv, LocalsInv
  <1>5. Balances' = Balances
    BY <1>2, <1>3, <1>4 DEF Balances
  <1>6. Invoices' = Invoices /\ SettledRefs' = SettledRefs
    BY <1>1, SameSettled DEF Invoices
  <1> QED
    BY <1>5, <1>6 DEF LedgerVars

\* However many handlers overlap, die or are retried, and whatever the organizer
\* edits and the provider reports: a behaviour in which no report is written over a
\* row that is PAID, no contribution over a version that was not read, and no paid
\* amount by hand, is a behaviour of the ledger.  Those three steps are the only
\* ways in which the pipeline can count a payment twice or lose one that it counted.
THEOREM OrderlyLedger == Spec /\ [][Orderly]_vars => ImplementsLedger
  <1>1. PayOnce /\ [Next]_vars /\ [Orderly]_vars
           => [Ledger!Next]_<<Invoices, SettledRefs, Balances>>
    <2> SUFFICES ASSUME PayOnce, [Next]_vars, [Orderly]_vars PROVE [Ledger!Next]_LedgerVars
      BY DEF LedgerVars
    <2>1. IInv
      BY DEF PayOnce
    <2>2. ASSUME NEW h \in Handlers, CreditContribution(h)
          PROVE  pay[h].ref \notin SettledRefs /\ bal[h] = contrib[Who(h)]
      <3>1. Paying(h)
        BY <2>1, <2>2 DEF CreditContribution, Goto, Paying, IInv, HandlerInv, ControlInv
      <3>2. ~UNCHANGED vars
        BY <2>1, <2>2 DEF CreditContribution, Goto, vars, locals, IInv, TypeOK, EarnsTicket
      <3> QED
        BY <2>2, <3>1, <3>2 DEF PayOnce, Orderly
    <2>3. ASSUME NEW h \in Handlers, SaveContribution(h) PROVE UNCHANGED LedgerVars
      <3>1. ~UNCHANGED vars
        BY <2>1, <2>3 DEF SaveContribution, Goto, vars, locals, IInv, TypeOK
      <3> QED
        BY <2>1, <2>3, <3>1, OrderlyEdit DEF Orderly
    <2> QED
      BY <2>1, <2>2, <2>3, StepLedger
  <1> QED
    BY <1>1, InitLedger, InitPayOnce, NextPayOnce, PTL DEF Spec, ImplementsLedger, Ledger!Spec

-----------------------------------------------------------------------------
(* Handlers that do not overlap.                                            *)

\* One handler at a time, no organizer's edit, no payment request that dies between
\* its charge and its row, and no PENDING report after the charge closed.
OneAtATime ==
    /\ MaxInFlight = 1 /\ LateReports = FALSE
    /\ "edit" \notin Ops /\ "pay" \notin Faults

ChargeOf(r) == payments[r].charge

\* What handlers that never overlap know of the charge, the row and the contribution.
TurnInv(h) ==
    /\ req[h] # None => req[h].op # "edit"
    /\ pc[h] \in {"charge", "insert"} => payments[req[h].ref] = None
    /\ charges[h] # None /\ pc[h] # "insert" =>
          payments[charges[h].ref] # None /\ ChargeOf(charges[h].ref) = h
    /\ pc[h] \in {"seen", "find", "mark"} /\ req[h].status = "PENDING" =>
          \A r \in Refs : payments[r] # None /\ ChargeOf(r) = req[h].charge =>
             payments[r].status # "PAID"
    /\ pc[h] = "mark" =>
          pay[h] = payments[pay[h].ref] /\ ~AlreadyPaid(pay[h], req[h])
    /\ pc[h] = "credit" => bal[h] = contrib[Who(h)]

\* A row is PAID only if its charge closed so.
ClosedAsPaid(r) ==
    payments[r] # None /\ payments[r].status = "PAID" => charges[ChargeOf(r)].outcome = "PAID"

\* The inductive invariant of handlers that take turns.
LInv ==
    /\ IInv
    /\ \A h, k \in Handlers : pc[h] \in Step /\ pc[k] \in Step => h = k
    /\ \A h \in Handlers : TurnInv(h)
    /\ \A r \in Refs : ClosedAsPaid(r)

\* Nobody has been charged at the start.
LEMMA InitLInv == Init => LInv
  <1> SUFFICES ASSUME Init PROVE LInv
    OBVIOUS
  <1>1. IInv
    BY InitIInv
  <1>2. \A h \in Handlers : TurnInv(h) /\ pc[h] \notin Step
    BY DEF Init, TurnInv, Step
  <1>3. \A r \in Refs : ClosedAsPaid(r)
    BY DEF Init, ClosedAsPaid
  <1> QED
    BY <1>1, <1>2, <1>3 DEF LInv

\* Every report about a payment is about the only charge of its row.
LEMMA ReportsOneCharge ==
    ASSUME LInv, NEW h \in Handlers, pay[h] # None
    PROVE  /\ pay[h].ref \in Refs /\ req[h].charge \in Handlers
           /\ req[h].charge = ChargeOf(pay[h].ref)
  <1> DEFINE c == req[h].charge
  <1>1. /\ IInv /\ req[h] # None /\ req[h].op = "webhook" /\ pay[h] \in PaymentRow
        /\ payments[pay[h].ref] # None /\ SameTerms(charges[c], pay[h])
    BY DEF LInv, IInv, TypeOK, HandlerInv, LocalsInv
  <1>2. pay[h].ref \in Refs /\ c \in Handlers /\ charges[c] # None
    BY <1>1 DEF IInv, HandlerInv, RequestInv, PaymentRow
  <1> HIDE DEF c
  <1>3. /\ charges[c].ref = pay[h].ref /\ charges[c].ref = req[c].ref
    BY <1>1, <1>2 DEF SameTerms, IInv, HandlerInv, ControlInv
  <1>4. pc[c] # "insert"
    BY <1>1, <1>2, <1>3 DEF LInv, TurnInv
  <1> QED
    BY <1>2, <1>3, <1>4 DEF LInv, TurnInv, c

\* A step of the only handler in flight, with what it has to keep.
LEMMA TurnLInv ==
    ASSUME LInv, IInv', NEW h \in Handlers, pc[h] \in Step, TurnInv(h)', UNCHANGED req,
           \A k \in Handlers \ {h} : pc'[k] = pc[k] /\ charges'[k] = charges[k],
           \A r \in Refs : payments[r] # None =>
              payments'[r] # None /\ payments'[r].charge = payments[r].charge,
           \A r \in Refs : ClosedAsPaid(r)'
    PROVE  LInv'
  <1>1. ASSUME NEW k \in Handlers, k # h PROVE TurnInv(k)' /\ pc'[k] \notin Step
    <2>1. TurnInv(k) /\ pc[k] \notin Step /\ pc'[k] = pc[k] /\ charges'[k] = charges[k]
      BY <1>1 DEF LInv
    <2>2. charges[k] # None => charges[k].ref \in Refs
      BY DEF LInv, IInv, TypeOK, Charge
    <2> QED
      BY <2>1, <2>2 DEF TurnInv, Step, ChargeOf
  <1> QED
    BY <1>1 DEF LInv

-----------------------------------------------------------------------------
(* The steps of the only handler in flight.                                 *)

\* Whoever arrives finds nobody in flight, and a charge that is reported PENDING
\* was not counted.
LEMMA ArriveLInv ==
    ASSUME OneAtATime, LInv, IInv', NEW h \in Handlers, Arrive(h)
    PROVE  LInv'
  <1>1. IInv
    BY DEF LInv
  <1>2. PICK first, request : Accept(h, first, request) /\ Fresh(first, request)
    BY <1>1, ArriveFresh
  <1>3. /\ pc[h] = "idle" /\ pc' = [pc EXCEPT ![h] = first] /\ first \in {"ensure", "seen"}
        /\ first = "seen" <=> request.op = "webhook"
        /\ req' = [req EXCEPT ![h] = request] /\ UNCHANGED <<tables, pay, bal, did>>
        /\ Cardinality(InFlight) < 1 /\ request.op # "edit" /\ request # None
    BY <1>2, NoneAssumption DEF Accept, Fresh, Goto, OneAtATime
  <1>4. \A k \in Handlers : pc[k] \notin Step
    <2> SUFFICES ASSUME NEW k \in Handlers, pc[k] \in Step PROVE FALSE
      OBVIOUS
    <2>1. InFlight = {k}
      BY DEF LInv, InFlight
    <2>2. Cardinality({k}) = 1
      BY FS_Singleton
    <2>3. Cardinality(InFlight) = 1
      BY <2>1, <2>2
    <2> QED
      BY <1>3, <2>3
  <1>5. /\ req'[h] = request /\ pc'[h] = first /\ did[h] = {} /\ charges[h] = None
        /\ \A k \in Handlers \ {h} : pc'[k] = pc[k] /\ req'[k] = req[k]
    BY <1>1, <1>3 DEF IInv, TypeOK, HandlerInv, ControlInv
  <1>6. UNCHANGED <<payments, contrib, charges>>
    BY <1>3 DEF tables
  <1>7. request.op = "webhook" /\ request.status = "PENDING" =>
           charges[request.charge].outcome = "PENDING"
    <2> SUFFICES ASSUME request.op = "webhook", request.status = "PENDING"
                 PROVE  charges[request.charge].outcome = "PENDING"
      OBVIOUS
    <2>1. ReceiveWebhook(h)
      <3>1. ASSUME NEW step, NEW other, Accept(h, step, other) PROVE other.op = "webhook"
        BY <1>1, <1>5, <3>1 DEF Accept, IInv, TypeOK
      <3>2. ~RequestPayment(h)
        <4> SUFFICES ASSUME NEW g \in Guests, NEW r \in Refs, NEW a \in Amounts,
                            Accept(h, "ensure", [Blank("pay", g) EXCEPT !.ref = r, !.amount = a])
                     PROVE  FALSE
          BY DEF RequestPayment
        <4>1. [Blank("pay", g) EXCEPT !.ref = r, !.amount = a].op = "webhook"
          BY <3>1
        <4> QED
          BY <4>1 DEF Blank
      <3>3. ~RequestEdit(h)
        <4> SUFFICES ASSUME NEW g \in Guests, NEW e \in Edits,
                            Accept(h, "ensure", [Blank("edit", g) EXCEPT !.edit = e])
                     PROVE  FALSE
          BY DEF RequestEdit
        <4>1. [Blank("edit", g) EXCEPT !.edit = e].op = "webhook"
          BY <3>1
        <4> QED
          BY <4>1 DEF Blank
      <3>4. ~RequestBalance(h)
        <4> SUFFICES ASSUME NEW g \in Guests, Accept(h, "ensure", Blank("balance", g))
                     PROVE  FALSE
          BY DEF RequestBalance
        <4>1. Blank("balance", g).op = "webhook"
          BY <3>1
        <4> QED
          BY <4>1 DEF Blank
      <3> QED
        BY <3>2, <3>3, <3>4 DEF Arrive
    <2>2. PICK c \in Handlers : charges[c] # None /\
             \E s \in Reports(c), r \in {charges[c].ref, None} :
                Accept(h, "seen", [Blank("webhook", charges[c].guest) EXCEPT
                      !.ref = r, !.amount = charges[c].amount, !.charge = c, !.status = s])
      BY <2>1 DEF ReceiveWebhook
    <2>3. PICK s \in Reports(c), r \in {charges[c].ref, None} :
             req' = [req EXCEPT ![h] = [Blank("webhook", charges[c].guest) EXCEPT
                      !.ref = r, !.amount = charges[c].amount, !.charge = c, !.status = s]]
      BY <2>2 DEF Accept
    <2>4. request.charge = c /\ request.status = s
      BY <1>1, <1>5, <2>3 DEF Blank, IInv, TypeOK
    <2> QED
      BY <2>3, <2>4 DEF Reports, OneAtATime
  <1>8. TurnInv(h)'
    BY <1>3, <1>5, <1>6, <1>7 DEF TurnInv, LInv, ClosedAsPaid, ChargeOf
  <1>9. ASSUME NEW k \in Handlers, k # h PROVE TurnInv(k)'
    <2>1. TurnInv(k) /\ pc[k] \notin Step
      BY <1>4 DEF LInv
    <2> QED
      BY <1>5, <1>6, <1>9, <2>1 DEF TurnInv, Step, ChargeOf
  <1>10. \A j, k \in Handlers : pc'[j] \in Step /\ pc'[k] \in Step => j = k
    BY <1>4, <1>5
  <1> QED
    BY <1>6, <1>8, <1>9, <1>10 DEF LInv, ClosedAsPaid, ChargeOf

\* A payment request neither dies nor is refused between its charge and its row.
LEMMA MovesLInv ==
    ASSUME OneAtATime, LInv, IInv', NEW h \in Handlers, Moves(h)
    PROVE  LInv'
  <1>1. IInv /\ TurnInv(h)
    BY DEF LInv
  <1>2. /\ UNCHANGED <<tables, req, pay, bal, did>>
        /\ pc' = [pc EXCEPT ![h] = pc'[h]]
        /\ pc[h] \in Step
        /\ \/ pc'[h] = "failed"
           \/ pc[h] = "ensure" /\ pc'[h] = "create"
           \/ pc[h] = "lookup" /\ pc'[h] = "done"
           \/ pc[h] = "lookup" /\ pc'[h] = "charge" /\ payments[req[h].ref] = None
           \/ pc[h] = "seen" /\ pc'[h] \in {"done", "find"}
    BY <1>1 DEF Moves, EnsureMissing, EnsureConflict, LookupExisting, LookupNew, InsertConflict,
       SeenDuplicate, NotSeen, RejectWebhook, GuestGone, Abort, Goto, Step, IInv, TypeOK
  <1>3. charges[h] = None
    <2>1. pc[h] # "insert"
      BY <1>1 DEF Moves, EnsureMissing, EnsureConflict, LookupExisting, LookupNew,
         InsertConflict, SeenDuplicate, NotSeen, RejectWebhook, GuestGone, Abort, Goto,
         ReferenceFree, TurnInv, OneAtATime, IInv, HandlerInv, ControlInv
    <2> QED
      BY <1>1, <1>2, <2>1 DEF Step, IInv, HandlerInv, ControlInv
  <1>4. \A r \in Refs : ClosedAsPaid(r)'
    BY <1>2 DEF LInv, ClosedAsPaid, ChargeOf, tables
  <1>5. TurnInv(h)'
    BY <1>1, <1>2, <1>3 DEF TurnInv, ChargeOf, tables
  <1>6. \A k \in Handlers \ {h} : pc'[k] = pc[k]
    BY <1>1, <1>2 DEF IInv, TypeOK
  <1> QED
    BY <1>2, <1>4, <1>5, <1>6, TurnLInv DEF tables, LInv

\* The row a handler found or made is still the table's when it credits it.
LEMMA EnsureLInv ==
    ASSUME LInv, IInv', NEW h \in Handlers, EnsureFound(h) \/ EnsureCreate(h)
    PROVE  LInv'
  <1>1. IInv /\ TurnInv(h) /\ pc[h] \in {"ensure", "create"}
    BY DEF LInv, EnsureFound, EnsureCreate
  <1>2. PICK g \in Guests : g = Who(h)
    BY <1>1, WhoType
  <1>3. PICK row : /\ bal' = [bal EXCEPT ![h] = row]
                   /\ pc' = [pc EXCEPT ![h] = AfterEnsure(h, row)]
                   /\ contrib'[g] = row
                   /\ UNCHANGED <<payments, charges, req, pay>>
    <2>1. CASE EnsureFound(h)
      BY <1>2, <2>1 DEF EnsureFound, tables
    <2>2. CASE EnsureCreate(h)
      BY <1>1, <1>2, <2>2 DEF EnsureCreate, IInv, TypeOK
    <2> QED
      BY <2>1, <2>2
  <1>4. /\ AfterEnsure(h, row) \in {"credit", "save", "done", "lookup", "failed"}
        /\ charges[h] = None
    BY <1>1, AfterEnsureStep DEF IInv, HandlerInv, ControlInv
  <1>5. /\ pc'[h] = AfterEnsure(h, row) /\ bal'[h] = row /\ Who(h)' = g
        /\ \A k \in Handlers \ {h} : pc'[k] = pc[k]
    BY <1>1, <1>2, <1>3 DEF IInv, TypeOK, Who
  <1>6. \A r \in Refs : ClosedAsPaid(r)'
    BY <1>3 DEF LInv, ClosedAsPaid, ChargeOf
  <1>7. TurnInv(h)'
    BY <1>1, <1>3, <1>4, <1>5 DEF TurnInv
  <1> QED
    BY <1>1, <1>3, <1>5, <1>6, <1>7, TurnLInv DEF LInv, Step

\* The charge and the row of a payment request are opened by one handler, in one turn.
LEMMA PayLInv ==
    ASSUME LInv, IInv', NEW h \in Handlers, OpenCharge(h) \/ InsertPayment(h)
    PROVE  LInv'
  <1>1. /\ IInv /\ TurnInv(h) /\ pc[h] \in {"charge", "insert"} /\ req[h].op = "pay"
        /\ req[h].ref \in Refs
    BY DEF LInv, OpenCharge, InsertPayment, Goto, IInv, HandlerInv, ControlInv, RequestInv
  <1>2. UNCHANGED <<req, pay>>
    BY DEF OpenCharge, InsertPayment
  <1>3. CASE OpenCharge(h)
    <2>1. /\ pc'[h] = "insert" /\ UNCHANGED payments
          /\ \A k \in Handlers \ {h} : pc'[k] = pc[k] /\ charges'[k] = charges[k]
      BY <1>1, <1>3 DEF OpenCharge, Goto, IInv, TypeOK
    <2>2. pc[h] = "charge"
      BY <1>3 DEF OpenCharge, Goto
    <2>3. TurnInv(h)'
      BY <1>1, <1>2, <2>1, <2>2 DEF TurnInv
    <2>4. charges[h] = None
      BY <1>1, <2>2 DEF IInv, HandlerInv, ControlInv
    <2>5. \A r \in Refs : ClosedAsPaid(r)'
      BY <2>1, <2>4 DEF LInv, ClosedAsPaid, ChargeOf, IInv, TypeOK, RowInv, PaymentRow
    <2> QED
      BY <1>1, <1>2, <2>1, <2>3, <2>5, TurnLInv DEF Step
  <1>4. CASE InsertPayment(h)
    <2> DEFINE q == req[h].ref
    <2>1. /\ pc[h] = "insert" /\ pc'[h] = "done" /\ UNCHANGED charges /\ payments[q] = None
          /\ \A k \in Handlers \ {h} : pc'[k] = pc[k]
          /\ \A r \in Refs \ {q} : payments'[r] = payments[r]
          /\ payments'[q].charge = h /\ payments'[q].status = "PENDING"
      BY <1>1, <1>4 DEF InsertPayment, ReferenceFree, Goto, IInv, TypeOK
    <2>2. payments'[q] # None
      BY <1>1, <2>1, NoneAssumption DEF IInv, TypeOK, InsertPayment, HandlerInv,
         ControlInv, DidInv, SameTerms
    <2>3. charges[h].ref = q
      BY <1>1, <2>1 DEF IInv, HandlerInv, ControlInv, SameTerms
    <2>4. TurnInv(h)'
      BY <1>1, <1>2, <2>1, <2>2, <2>3 DEF TurnInv, ChargeOf
    <2>5. \A r \in Refs : ClosedAsPaid(r)'
      BY <1>1, <2>1 DEF LInv, ClosedAsPaid, ChargeOf
    <2> QED
      BY <1>1, <1>2, <2>1, <2>4, <2>5, TurnLInv DEF Step
  <1> QED
    BY <1>3, <1>4

\* A webhook that is going to write has the row of the table.
LEMMA FindPaymentLInv ==
    ASSUME LInv, IInv', NEW h \in Handlers, FindPayment(h)
    PROVE  LInv'
  <1>1. /\ IInv /\ TurnInv(h) /\ pc[h] = "find" /\ UNCHANGED <<tables, req, bal, did>>
        /\ "credited" \notin did[h] /\ charges[h] = None
    BY DEF LInv, FindPayment, IInv, HandlerInv, LocalsInv, DidInv, ControlInv
  <1>2. PICK r \in Matching(req[h]) :
          /\ pay' = [pay EXCEPT ![h] = payments[r]]
          /\ pc' = [pc EXCEPT ![h] = IF AlreadyPaid(payments[r], req[h]) THEN "ack" ELSE "mark"]
    BY DEF FindPayment
  <1>3. r \in Refs /\ payments[r].ref = r
    BY <1>1, <1>2 DEF Matching, IInv, RowInv
  <1>4. /\ pay'[h] = payments[r]
        /\ pc'[h] = (IF AlreadyPaid(payments[r], req[h]) THEN "ack" ELSE "mark")
        /\ \A k \in Handlers \ {h} : pc'[k] = pc[k] /\ pay'[k] = pay[k]
    BY <1>1, <1>2 DEF IInv, TypeOK
  <1>5. \A k \in Refs : ClosedAsPaid(k)'
    BY <1>1 DEF LInv, ClosedAsPaid, ChargeOf, tables
  <1>6. TurnInv(h)'
    BY <1>1, <1>3, <1>4 DEF TurnInv, ChargeOf, AlreadyPaid, tables
  <1> QED
    BY <1>1, <1>4, <1>5, <1>6, TurnLInv DEF Step, tables

\* A report written over a settled row says PAID again: its charge closed as PAID
\* before the payment was counted, and is the only one of the row.
LEMMA MarkPaymentLInv ==
    ASSUME LInv, IInv', NEW h \in Handlers, MarkPayment(h)
    PROVE  LInv'
  <1>1. /\ IInv /\ IInv' /\ TurnInv(h) /\ pc[h] = "mark" /\ pay[h] # None
        /\ req[h] # None /\ req[h].op = "webhook" /\ charges[h] = None
        /\ UNCHANGED <<contrib, charges, req, pay, bal>>
    BY DEF LInv, MarkPayment, Goto, IInv, HandlerInv, LocalsInv, ControlInv
  <1>2. PICK q \in Refs : q = pay[h].ref
    BY <1>1, ReportsOneCharge
  <1>3. req[h].charge = ChargeOf(q) /\ payments[q] # None
    BY <1>1, <1>2, ReportsOneCharge DEF IInv, HandlerInv, LocalsInv
  <1>4. /\ pc'[h] = (IF req[h].status = "PAID" THEN "ensure" ELSE "ack")
        /\ \A k \in Handlers \ {h} : pc'[k] = pc[k]
        /\ \A r \in Refs \ {q} : payments'[r] = payments[r]
        /\ payments'[q].charge = req[h].charge /\ payments'[q].status = req[h].status
    BY <1>1, <1>2 DEF MarkPayment, Goto, IInv, TypeOK
  <1>5. payments'[q] # None
    BY <1>1, <1>2 DEF IInv, HandlerInv, LocalsInv
  <1>6. req[h].status = "PAID" => charges[req[h].charge].outcome = "PAID"
    BY <1>1 DEF IInv, HandlerInv, RequestInv
  <1>7. \A r \in Refs : ClosedAsPaid(r)'
    BY <1>1, <1>4, <1>6 DEF LInv, ClosedAsPaid, ChargeOf
  <1>8. TurnInv(h)'
    BY <1>1, <1>4 DEF TurnInv
  <1> QED
    BY <1>1, <1>3, <1>4, <1>5, <1>7, <1>8, TurnLInv DEF Step, ChargeOf

\* A credit settles a row that the handler has marked PAID.
LEMMA CreditLInv ==
    ASSUME LInv, IInv', NEW h \in Handlers, CreditContribution(h)
    PROVE  LInv'
  <1>1. /\ IInv /\ TurnInv(h) /\ pc[h] = "credit" /\ UNCHANGED <<payments, charges, req, pay>>
        /\ charges[h] = None /\ req[h] # None /\ req[h].op = "webhook"
    BY DEF LInv, CreditContribution, Goto, IInv, HandlerInv, ControlInv
  <1>2. pc'[h] \in {"ticket", "pledges"} /\ \A k \in Handlers \ {h} : pc'[k] = pc[k]
    BY <1>1 DEF CreditContribution, Goto, IInv, TypeOK
  <1>3. TurnInv(h)'
    BY <1>1, <1>2 DEF TurnInv
  <1>4. \A r \in Refs : ClosedAsPaid(r)'
    BY <1>1 DEF LInv, ClosedAsPaid, ChargeOf
  <1> QED
    BY <1>1, <1>2, <1>3, <1>4, TurnLInv DEF Step

\* What follows a credit neither settles nor charges anything.
LEMMA AftermathLInv ==
    ASSUME LInv, IInv', NEW h \in Handlers,
           IssueTicket(h) \/ SettlePledges(h) \/ NotifyGuest(h) \/ Acknowledge(h)
    PROVE  LInv'
  <1>1. /\ IInv /\ TurnInv(h) /\ UNCHANGED <<payments, charges, req, pay>>
        /\ pc[h] \in {"ticket", "pledges", "notify", "ack"} /\ charges[h] = None
    BY DEF LInv, IssueTicket, SettlePledges, NotifyGuest, Acknowledge, Goto, tables,
       IInv, HandlerInv, ControlInv
  <1>2. /\ pc'[h] \in {"pledges", "notify", "ack", "done"}
        /\ \A k \in Handlers \ {h} : pc'[k] = pc[k]
    BY <1>1 DEF IssueTicket, SettlePledges, NotifyGuest, Acknowledge, Goto, IInv, TypeOK
  <1>3. \A r \in Refs : ClosedAsPaid(r)'
    BY <1>1 DEF LInv, ClosedAsPaid, ChargeOf
  <1>4. TurnInv(h)'
    BY <1>1, <1>2 DEF TurnInv
  <1> QED
    BY <1>1, <1>2, <1>3, <1>4, TurnLInv DEF LInv, Step

\* A charge that closes changes neither its row nor what was counted.
LEMMA StillLInv ==
    ASSUME LInv, IInv', Environment \/ UNCHANGED vars
    PROVE  LInv'
  <1>1. UNCHANGED <<payments, contrib, locals>>
    BY DEF Environment, CloseCharge, DeleteGuest, ExpireKey, vars, tables
  <1>2. ASSUME NEW k \in Handlers
        PROVE  /\ charges'[k] # None => charges[k] # None /\ charges'[k].ref = charges[k].ref
               /\ charges[k] # None /\ charges[k].outcome = "PAID" => charges'[k].outcome = "PAID"
    BY SMTT(30) DEF Environment, CloseCharge, DeleteGuest, ExpireKey, vars, tables, LInv, IInv,
       TypeOK, Charge
  <1>3. \A r \in Refs : ClosedAsPaid(r)'
    BY <1>1, <1>2 DEF LInv, ClosedAsPaid, ChargeOf, IInv, TypeOK, RowInv, PaymentRow
  <1>4. ASSUME NEW k \in Handlers PROVE TurnInv(k)'
    <2>1. TurnInv(k)
      BY DEF LInv
    <2> QED
      BY <1>1, <1>2, <2>1 DEF TurnInv, locals, ChargeOf, AlreadyPaid, Who
  <1> QED
    BY <1>1, <1>3, <1>4 DEF LInv, locals

\* Every step preserves the invariant while handlers take turns.
LEMMA NextLInv == OneAtATime /\ LInv /\ [Next]_vars => LInv'
  <1> SUFFICES ASSUME OneAtATime, LInv, [Next]_vars PROVE LInv'
    OBVIOUS
  <1>1. IInv'
    BY NextIInv DEF LInv
  <1>2. ASSUME NEW h \in Handlers, Arrive(h) PROVE LInv'
    BY <1>1, <1>2, ArriveLInv
  <1>3. ASSUME NEW h \in Handlers, Run(h) \/ Abort(h) PROVE LInv'
    <2>1. CASE Moves(h)
      BY <1>1, <2>1, MovesLInv
    <2>2. CASE EnsureFound(h) \/ EnsureCreate(h) \/ OpenCharge(h) \/ InsertPayment(h)
      BY <1>1, <2>2, EnsureLInv, PayLInv
    <2>3. CASE FindPayment(h) \/ MarkPayment(h) \/ CreditContribution(h)
      BY <1>1, <2>3, FindPaymentLInv, MarkPaymentLInv, CreditLInv
    <2>4. CASE IssueTicket(h) \/ SettlePledges(h) \/ NotifyGuest(h) \/ Acknowledge(h)
      BY <1>1, <2>4, AftermathLInv
    <2>5. CASE SaveContribution(h)
      BY <2>5 DEF SaveContribution, Goto, LInv, TurnInv, IInv, HandlerInv, ControlInv
    <2> QED
      BY <1>3, <2>1, <2>2, <2>3, <2>4, <2>5 DEF Run, Moves
  <1>4. CASE Environment \/ UNCHANGED vars
    BY <1>1, <1>4, StillLInv
  <1> QED
    BY <1>2, <1>3, <1>4 DEF Next

\* The invariant of the refinement holds in every state if handlers take turns.
LEMMA SpecLInv == ASSUME OneAtATime PROVE Spec => []LInv
  <1>1. LInv /\ [Next]_vars => LInv'
    BY NextLInv
  <1> QED
    BY <1>1, InitLInv, PTL DEF Spec

\* Handlers that take turns disturb no contribution and write over no PAID row: whoever
\* marks a row has the version of the table, a repeated PAID is seen to be one, and the
\* only charge of the row did not close in two ways.
THEOREM OneAtATimeIsOrderly == ASSUME OneAtATime PROVE Spec => [][Orderly]_vars
  <1>1. LInv => Orderly
    <2> SUFFICES ASSUME LInv, NEW h \in Handlers
                 PROVE  /\ MarkPayment(h) => payments[pay[h].ref].status # "PAID"
                        /\ CreditContribution(h) \/ SaveContribution(h) => bal[h] = contrib[Who(h)]
                        /\ SaveContribution(h) => req[h].edit.paid = Keep
      BY DEF Orderly
    <2>1. IInv /\ TurnInv(h) /\ HandlerInv(h)
      BY DEF LInv, IInv
    <2>2. ASSUME pc[h] = "mark" PROVE payments[pay[h].ref].status # "PAID"
      <3>1. /\ pay[h] # None /\ req[h] # None /\ req[h].op = "webhook"
            /\ payments[pay[h].ref] # None /\ req[h].status \in WebhookStatus
        BY <2>1, <2>2 DEF HandlerInv, ControlInv, LocalsInv, RequestInv
      <3>2. pay[h].ref \in Refs /\ req[h].charge = ChargeOf(pay[h].ref)
        BY <3>1, ReportsOneCharge
      <3>3. CASE req[h].status = "PAID"
        BY <2>1, <2>2, <3>3 DEF TurnInv, AlreadyPaid
      <3>4. CASE req[h].status = "PENDING"
        BY <2>1, <2>2, <3>1, <3>2, <3>4 DEF TurnInv
      <3>5. CASE req[h].status \notin {"PAID", "PENDING"}
        BY <2>1, <3>1, <3>2, <3>5 DEF HandlerInv, RequestInv, LInv, ClosedAsPaid
      <3> QED
        BY <3>3, <3>4, <3>5
    <2>3. pc[h] # "save"
      BY <2>1 DEF TurnInv, HandlerInv, ControlInv
    <2>4. pc[h] = "credit" => bal[h] = contrib[Who(h)]
      BY <2>1 DEF TurnInv
    <2> QED
      BY <2>2, <2>3, <2>4 DEF MarkPayment, CreditContribution, SaveContribution, Goto
  <1> QED
    BY <1>1, SpecLInv, PTL

\* One handler at a time, every payment is counted at most once, for the guest and
\* the amount it was requested for, and the balance is the exact sum, through dying
\* webhooks, redeliveries in any order and expired keys, for any number of requests.
THEOREM LedgerIsImplemented == ASSUME OneAtATime PROVE Spec => ImplementsLedger
  BY OneAtATimeIsOrderly, OrderlyLedger, PTL
=============================================================================
