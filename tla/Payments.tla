------------------------------ MODULE Payments ------------------------------
(***************************************************************************)
(* The money path: payment requests, provider webhooks, the contribution   *)
(* ledger they credit, the organizer's edits of the same ledger, and the   *)
(* ticket, pledge and confirmation that follow a credit.                   *)
(*                                                                         *)
(* Every HTTP request is one handler.  A handler runs once, one step per   *)
(* awaited call that touches shared state, and keeps the rows it read in   *)
(* its locals, as the async functions do; steps of different handlers      *)
(* interleave (ten API instances, no database transaction anywhere).  A    *)
(* webhook retried by the provider is a new handler with the same message. *)
(* The event is fixed, so a contribution, ticket or pledge row is named by *)
(* its guest.                                                              *)
(***************************************************************************)
EXTENDS Integers, FiniteSets, ContributionRules, Totals

CONSTANTS
    Handlers,     \* the requests of a behaviour; a charge is named by the handler that made it
    Guests,       \* guests of the event
    Refs,         \* internal references (PAY-<idempotency key>)
    Amounts,      \* amounts a payer may choose
    Target,       \* settings.contributionAmount of the event
    Edits,        \* bodies of the organizer's PATCH .../contribution
    Outcomes,     \* how the provider may close a charge
    None,         \* null
    Ops,          \* the kinds of request that arrive
    MaxInFlight,  \* bound: handlers running at the same time
    Faults,       \* the kinds of request whose handler may die or throw between two steps
    KeysExpire,   \* whether the 24h webhook keys may expire
    LateReports   \* whether PENDING may be reported after the charge closed

Keep == -1        \* a field the organizer's PATCH leaves out

Edit == [required : Nat \cup {Keep}, paid : Nat \cup {Keep}, waive : BOOLEAN]

Op == {"pay", "webhook", "edit", "balance"}

WebhookStatus == {"PENDING", "PAID", "FAILED", "EXPIRED", "CANCELLED"}

ASSUME PaymentsAssumption ==
    /\ Amounts \subseteq Nat \ {0}
    /\ Target \in Nat
    /\ Edits \subseteq Edit
    /\ Ops \subseteq Op /\ Faults \subseteq Op
    /\ Outcomes \subseteq WebhookStatus \ {"PENDING"}
    /\ \A S \in {Handlers, Guests, Refs, Edits, WebhookStatus} : None \notin S
    /\ None \notin Amounts
    /\ MaxInFlight \in Nat \ {0}
    /\ {KeysExpire, LateReports} \subseteq BOOLEAN

VARIABLES
    payments,  \* payments table by internal reference
    contrib,   \* guest_contributions table by guest
    charges,   \* the provider's charges, by the handler that requested them
    seenKeys,  \* redis keys snippe:webhook:<providerReference>:<status>:<amount>
    visible,   \* guests that are not soft-deleted
    ticket,    \* guests that have a ticket row
    pledge,    \* status of the guest's pledge
    pc,        \* next step of each handler
    req,       \* its request
    pay,       \* the payment row it read
    bal,       \* the contribution row it read
    did        \* what it has done so far

tables == <<payments, contrib, charges, seenKeys, visible, ticket, pledge>>
locals == <<pc, req, pay, bal, did>>
vars == <<tables, locals>>

-----------------------------------------------------------------------------
(* Rows.  `by' names the last writer of a row, which stands for updatedAt:  *)
(* two reads of a row return the same version iff `by' is the same.         *)

PaymentRow == [ref : Refs, guest : Guests, amount : Amounts, status : WebhookStatus,
               charge : Handlers, by : Handlers]

ContribRow == [required : Nat, paid : Nat, remaining : Nat,
               status : ContributionStatus, by : Handlers \cup {None}]

Charge == [ref : Refs, guest : Guests, amount : Amounts, outcome : Outcomes \cup {"PENDING"}]

Request == [op : Op, guest : Guests, ref : Refs \cup {None}, amount : Amounts \cup {None},
            charge : Handlers \cup {None}, status : WebhookStatus \cup {None},
            edit : Edits \cup {None}]

Step == {"seen", "find", "mark", "ensure", "create", "lookup", "charge", "insert",
         "credit", "save", "ticket", "pledges", "notify", "ack"}

Final == {"done", "failed"}

Effect == {"inserted", "marked", "created", "credited", "saved", "stale",
           "ticketed", "notified"}

\* null is no row, no request and no terms of a payment.
ASSUME NoneAssumption ==
    /\ None \notin PaymentRow /\ None \notin ContribRow
    /\ None \notin Charge     /\ None \notin Request
    /\ None \notin [guest : Guests, amount : Amounts]

InFlight == {h \in Handlers : pc[h] \in Step}

Init ==
    /\ payments = [r \in Refs |-> None]
    /\ contrib = [g \in Guests |-> None]
    /\ charges = [h \in Handlers |-> None]
    /\ seenKeys = {}
    /\ visible = Guests
    /\ ticket = {}
    /\ pledge = [g \in Guests |-> "ACTIVE"]
    /\ pc = [h \in Handlers |-> "idle"]
    /\ req = [h \in Handlers |-> None]
    /\ pay = [h \in Handlers |-> None]
    /\ bal = [h \in Handlers |-> None]
    /\ did = [h \in Handlers |-> {}]

Goto(h, from, to) == pc[h] = from /\ pc' = [pc EXCEPT ![h] = to]

Do(h, effects) == did' = [did EXCEPT ![h] = @ \cup effects]

\* The guest a handler works for: the webhook goes by the payment row it found.
Who(h) == IF pay[h] # None THEN pay[h].guest ELSE req[h].guest

-----------------------------------------------------------------------------
(* Requests arrive.                                                         *)

Accept(h, first, request) ==
    /\ Goto(h, "idle", first)
    /\ request.op \in Ops
    /\ Cardinality(InFlight) < MaxInFlight
    /\ req' = [req EXCEPT ![h] = request]
    /\ UNCHANGED <<tables, pay, bal, did>>

Blank(op, g) == [op |-> op, guest |-> g, ref |-> None, amount |-> None,
                 charge |-> None, status |-> None, edit |-> None]

\* POST /payments/create with an idempotency key: guest, amount and key are the
\* caller's choice, so one key may come with different guests and amounts.
RequestPayment(h) ==
    \E g \in Guests, r \in Refs, a \in Amounts :
        Accept(h, "ensure", [Blank("pay", g) EXCEPT !.ref = r, !.amount = a])

\* What the provider may report of a charge: that it is pending, or how it
\* closed; any number of times and in any order.
Reports(c) ==
    {s \in {"PENDING", charges[c].outcome} :
        s = "PENDING" /\ ~LateReports => charges[c].outcome = "PENDING"}

\* POST /webhooks/snippe: an authentic message about a charge of this system,
\* with or without the optional internalReference.
ReceiveWebhook(h) ==
    \E c \in Handlers :
        /\ charges[c] # None
        /\ \E s \in Reports(c), r \in {charges[c].ref, None} :
              Accept(h, "seen", [Blank("webhook", charges[c].guest) EXCEPT
                        !.ref = r, !.amount = charges[c].amount, !.charge = c, !.status = s])

\* PATCH /events/:eventId/guests/:guestId/contribution
RequestEdit(h) ==
    \E g \in Guests, e \in Edits : Accept(h, "ensure", [Blank("edit", g) EXCEPT !.edit = e])

\* GET /events/:eventId/guests/:guestId/balance
RequestBalance(h) == \E g \in Guests : Accept(h, "ensure", Blank("balance", g))

-----------------------------------------------------------------------------
(* ensureForGuest, shared by every operation: the row it finds or inserts.  *)

\* createPaymentRequest's guards on the balance it got.
Payable(row, amount) ==
    /\ row.status \notin Settled
    /\ ~(amount > row.remaining /\ row.remaining > 0)

\* A webhook that settles pledges and notifies without crediting.
MutAfterEnsure(h, row) ==
    CASE req[h].op = "webhook" -> "pledges"
      [] req[h].op = "edit"    -> "save"
      [] req[h].op = "balance" -> "done"
      [] req[h].op = "pay"     -> IF Payable(row, req[h].amount) THEN "lookup" ELSE "failed"

AfterEnsure(h, row) ==
    CASE req[h].op = "webhook" -> "credit"
      [] req[h].op = "edit"    -> "save"
      [] req[h].op = "balance" -> "done"
      [] req[h].op = "pay"     -> IF Payable(row, req[h].amount) THEN "lookup" ELSE "failed"

EnsureFound(h) ==
    LET g == Who(h) IN
    /\ pc[h] = "ensure" /\ g \in visible
    /\ contrib[g] # None
    /\ bal' = [bal EXCEPT ![h] = contrib[g]]
    /\ pc' = [pc EXCEPT ![h] = AfterEnsure(h, contrib[g])]
    /\ UNCHANGED <<tables, req, pay, did>>

EnsureMissing(h) ==
    /\ Goto(h, "ensure", "create")
    /\ Who(h) \in visible
    /\ contrib[Who(h)] = None
    /\ UNCHANGED <<tables, req, pay, bal, did>>

NewRow == [required |-> Target, paid |-> 0, remaining |-> FreshRow(Target).remaining,
           status |-> FreshRow(Target).status, by |-> None]

EnsureCreate(h) ==
    LET g == Who(h) IN
    /\ pc[h] = "create"
    /\ contrib[g] = None
    /\ contrib' = [contrib EXCEPT ![g] = NewRow]
    /\ bal' = [bal EXCEPT ![h] = NewRow]
    /\ pc' = [pc EXCEPT ![h] = AfterEnsure(h, NewRow)]
    /\ Do(h, {"created"})
    /\ UNCHANGED <<payments, charges, seenKeys, visible, ticket, pledge, req, pay>>

\* The unique constraint on (eventId, guestId) rejects the second insert.
EnsureConflict(h) ==
    /\ Goto(h, "create", "failed")
    /\ contrib[Who(h)] # None
    /\ UNCHANGED <<tables, req, pay, bal, did>>

-----------------------------------------------------------------------------
(* createPaymentRequest                                                     *)

\* An existing payment with this reference is answered as it is, whoever and
\* whatever it is for.
LookupExisting(h) ==
    /\ Goto(h, "lookup", "done")
    /\ payments[req[h].ref] # None
    /\ UNCHANGED <<tables, req, pay, bal, did>>

LookupNew(h) ==
    /\ Goto(h, "lookup", "charge")
    /\ payments[req[h].ref] = None
    /\ UNCHANGED <<tables, req, pay, bal, did>>

\* snippeProvider.createPaymentRequest: the provider opens a charge.
OpenCharge(h) ==
    /\ Goto(h, "charge", "insert")
    /\ charges' = [charges EXCEPT ![h] =
            [ref |-> req[h].ref, guest |-> req[h].guest, amount |-> req[h].amount,
             outcome |-> "PENDING"]]
    /\ UNCHANGED <<payments, contrib, seenKeys, visible, ticket, pledge, req, pay, bal, did>>

\* A create that overwrites the row another request inserted (an upsert).
MutReferenceFree(r) == TRUE

\* The unique constraint on internalReference.
ReferenceFree(r) == payments[r] = None

InsertPayment(h) ==
    /\ Goto(h, "insert", "done")
    /\ ReferenceFree(req[h].ref)
    /\ payments' = [payments EXCEPT ![req[h].ref] =
            [ref |-> req[h].ref, guest |-> req[h].guest, amount |-> req[h].amount,
             status |-> "PENDING", charge |-> h, by |-> h]]
    /\ Do(h, {"inserted"})
    /\ UNCHANGED <<contrib, charges, seenKeys, visible, ticket, pledge, req, pay, bal>>

InsertConflict(h) ==
    /\ Goto(h, "insert", "failed")
    /\ ~ReferenceFree(req[h].ref)
    /\ UNCHANGED <<tables, req, pay, bal, did>>

-----------------------------------------------------------------------------
(* handleWebhook                                                            *)

\* The amount in the key is the charge's, which never changes, so charge and
\* status name the key.
Key(m) == <<m.charge, m.status>>

SeenDuplicate(h) ==
    /\ Goto(h, "seen", "done")
    /\ Key(req[h]) \in seenKeys
    /\ UNCHANGED <<tables, req, pay, bal, did>>

NotSeen(h) ==
    /\ Goto(h, "seen", "find")
    /\ Key(req[h]) \notin seenKeys
    /\ UNCHANGED <<tables, req, pay, bal, did>>

\* findByInternalReference, or findByProviderReference when the message has none.
Matching(m) ==
    {r \in Refs : /\ payments[r] # None
                  /\ IF m.ref # None THEN r = m.ref ELSE payments[r].charge = m.charge}

\* Without the checks of the payload against the row.
MutInContext(row, m) == TRUE

\* The message must be about the row's guest and amount.
InContext(row, m) == row.guest = m.guest /\ row.amount = m.amount

MutAlreadyPaid(row, m) == FALSE

\* payment.status === PAID && payload.status === 'PAID'
AlreadyPaid(row, m) == row.status = "PAID" /\ m.status = "PAID"

FindPayment(h) ==
    /\ pc[h] = "find"
    /\ \E r \in Matching(req[h]) :
        /\ InContext(payments[r], req[h])
        /\ pay' = [pay EXCEPT ![h] = payments[r]]
        /\ pc' = [pc EXCEPT ![h] = IF AlreadyPaid(payments[r], req[h]) THEN "ack" ELSE "mark"]
    /\ UNCHANGED <<tables, req, bal, did>>

\* No such payment, or a payload that does not match it.
RejectWebhook(h) ==
    /\ Goto(h, "find", "failed")
    /\ \A r \in Matching(req[h]) : ~InContext(payments[r], req[h])
    /\ UNCHANGED <<tables, req, pay, bal, did>>

\* paymentRepo.update: whatever status was reported is written over the row.
MarkPayment(h) ==
    LET r == pay[h].ref  paid == req[h].status = "PAID" IN
    /\ Goto(h, "mark", IF paid THEN "ensure" ELSE "ack")
    /\ payments' = [payments EXCEPT ![r] =
            [ref |-> @.ref, guest |-> @.guest, amount |-> @.amount,
             status |-> req[h].status, charge |-> req[h].charge, by |-> h]]
    /\ Do(h, {"marked"})
    /\ UNCHANGED <<contrib, charges, seenKeys, visible, ticket, pledge, req, pay, bal>>

\* Which contribution write happens over a row that changed since it was read.
Overwrites(h) ==
    IF bal[h].by = contrib[Who(h)].by THEN {} ELSE {"stale"}

\* The amount replaces what was paid before.
MutPaidAfter(h) == req[h].amount

\* Number(balance.paidAmount) + amount
PaidAfter(h) == bal[h].paid + req[h].amount

\* The status is computed from the balance before the payment.
MutAssessed(h) == ComputeStatus(bal[h].required, bal[h].paid, FALSE)

\* No explicit status is passed: WAIVED is not carried over.
Assessed(h) == ComputeStatus(bal[h].required, PaidAfter(h), FALSE)

\* A ticket for every paying guest.
MutEarnsTicket(status) == status \in {"PARTIAL", "COMPLETED"}

EarnsTicket(status) == status = "COMPLETED"

\* applyPayment: paid, remaining and status come from the row that was read; the
\* required amount in the table is left alone.
CreditContribution(h) ==
    LET g == Who(h)  c == Assessed(h) IN
    /\ Goto(h, "credit", IF EarnsTicket(c.status) THEN "ticket" ELSE "pledges")
    /\ contrib' = [contrib EXCEPT ![g] =
            [required |-> @.required, paid |-> PaidAfter(h), remaining |-> c.remaining,
             status |-> c.status, by |-> h]]
    /\ Do(h, {"credited"} \cup Overwrites(h))
    /\ UNCHANGED <<payments, charges, seenKeys, visible, ticket, pledge, req, pay, bal>>

\* issueTicket creates or reactivates the guest's ticket row.
IssueTicket(h) ==
    LET g == Who(h) IN
    /\ Goto(h, "ticket", IF req[h].op = "webhook" THEN "pledges" ELSE "done")
    /\ g \in visible
    /\ ticket' = ticket \cup {g}
    /\ Do(h, {"ticketed"})
    /\ UNCHANGED <<payments, contrib, charges, seenKeys, visible, pledge, req, pay, bal>>

\* markCompletedForGuest: every ACTIVE pledge of the guest becomes PAID.
SettlePledges(h) ==
    LET g == Who(h) IN
    /\ Goto(h, "pledges", "notify")
    /\ pledge' = [pledge EXCEPT ![g] = IF @ = "ACTIVE" THEN "PAID" ELSE @]
    /\ UNCHANGED <<payments, contrib, charges, seenKeys, visible, ticket, req, pay, bal, did>>

\* sendPaymentConfirmationCard
NotifyGuest(h) ==
    /\ Goto(h, "notify", "ack")
    /\ Who(h) \in visible
    /\ Do(h, {"notified"})
    /\ UNCHANGED <<tables, req, pay, bal>>

\* redis.setex(idempotencyKey, 24h)
Acknowledge(h) ==
    /\ Goto(h, "ack", "done")
    /\ seenKeys' = seenKeys \cup {Key(req[h])}
    /\ UNCHANGED <<payments, contrib, charges, visible, ticket, pledge, req, pay, bal, did>>

-----------------------------------------------------------------------------
(* updateContribution                                                       *)

Chosen(field, current) == IF field = Keep THEN current ELSE field

SaveContribution(h) ==
    LET g == Who(h)
        e == req[h].edit
        required == Chosen(e.required, bal[h].required)
        paid == Chosen(e.paid, bal[h].paid)
        c == ComputeStatus(required, paid, e.waive) IN
    /\ Goto(h, "save", IF c.status \in Settled THEN "ticket" ELSE "done")
    /\ contrib' = [contrib EXCEPT ![g] =
            [required |-> required, paid |-> paid, remaining |-> c.remaining,
             status |-> c.status, by |-> h]]
    /\ Do(h, {"saved"} \cup Overwrites(h))
    /\ UNCHANGED <<payments, charges, seenKeys, visible, ticket, pledge, req, pay, bal>>

-----------------------------------------------------------------------------
(* What the environment does.                                               *)

\* ensureForGuest, issueTicket and the card builder throw for a deleted guest.
GuestGone(h) ==
    /\ pc[h] \in {"ensure", "ticket", "notify"}
    /\ Who(h) \notin visible
    /\ pc' = [pc EXCEPT ![h] = "failed"]
    /\ UNCHANGED <<tables, req, pay, bal, did>>

\* A crash of the instance, a database, provider or audit error, a message that
\* cannot be delivered: the rest of the handler does not happen.
Abort(h) ==
    /\ pc[h] \in Step
    /\ req[h].op \in Faults
    /\ pc' = [pc EXCEPT ![h] = "failed"]
    /\ UNCHANGED <<tables, req, pay, bal, did>>

CloseCharge(c) ==
    /\ charges[c] # None /\ charges[c].outcome = "PENDING"
    /\ \E o \in Outcomes : charges' = [charges EXCEPT ![c].outcome = o]
    /\ UNCHANGED <<payments, contrib, seenKeys, visible, ticket, pledge, locals>>

DeleteGuest(g) ==
    /\ g \in visible
    /\ visible' = visible \ {g}
    /\ UNCHANGED <<payments, contrib, charges, seenKeys, ticket, pledge, locals>>

ExpireKey ==
    /\ KeysExpire
    /\ \E k \in seenKeys : seenKeys' = seenKeys \ {k}
    /\ UNCHANGED <<payments, contrib, charges, visible, ticket, pledge, locals>>

Arrive(h) == RequestPayment(h) \/ ReceiveWebhook(h) \/ RequestEdit(h) \/ RequestBalance(h)

Run(h) ==
    \/ EnsureFound(h) \/ EnsureMissing(h) \/ EnsureCreate(h) \/ EnsureConflict(h)
    \/ LookupExisting(h) \/ LookupNew(h) \/ OpenCharge(h)
    \/ InsertPayment(h) \/ InsertConflict(h)
    \/ SeenDuplicate(h) \/ NotSeen(h) \/ FindPayment(h) \/ RejectWebhook(h)
    \/ MarkPayment(h) \/ CreditContribution(h) \/ SaveContribution(h)
    \/ IssueTicket(h) \/ SettlePledges(h) \/ NotifyGuest(h) \/ Acknowledge(h)
    \/ GuestGone(h)

Environment ==
    \/ \E c \in Handlers : CloseCharge(c)
    \/ \E g \in Guests : DeleteGuest(g)
    \/ ExpireKey

Next ==
    \/ \E h \in Handlers : Arrive(h) \/ Run(h) \/ Abort(h)
    \/ Environment

Spec == Init /\ [][Next]_vars

\* The event loop resumes an awaiting handler; nothing obliges a client to call.
FairSpec == Spec /\ \A h \in Handlers : WF_vars(Run(h))

-----------------------------------------------------------------------------
(* Properties.                                                              *)

\* Every table and every handler's locals hold rows of their type.
TypeOK ==
    /\ payments \in [Refs -> PaymentRow \cup {None}]
    /\ contrib \in [Guests -> ContribRow \cup {None}]
    /\ charges \in [Handlers -> Charge \cup {None}]
    /\ seenKeys \subseteq Handlers \X WebhookStatus
    /\ visible \subseteq Guests
    /\ ticket \subseteq Guests
    /\ pledge \in [Guests -> {"ACTIVE", "PAID"}]
    /\ pc \in [Handlers -> {"idle"} \cup Step \cup Final]
    /\ req \in [Handlers -> Request \cup {None}]
    /\ pay \in [Handlers -> PaymentRow \cup {None}]
    /\ bal \in [Handlers -> ContribRow \cup {None}]
    /\ did \in [Handlers -> SUBSET Effect]

SameTerms(x, y) == x.ref = y.ref /\ x.guest = y.guest /\ x.amount = y.amount

\* A payment row always points at a provider charge for the same reference, guest
\* and amount, and a request that was answered with its own new charge finds
\* that charge's terms in the row for ever: neither two requests racing with one
\* idempotency key nor a webhook of the losing charge can rewrite the terms.
RowsAndChargesAgree ==
    /\ \A r \in Refs : payments[r] # None =>
          /\ charges[payments[r].charge] # None
          /\ SameTerms(charges[payments[r].charge], payments[r])
    /\ \A h \in Handlers : charges[h] # None /\ pc[h] = "done" =>
          /\ payments[charges[h].ref] # None
          /\ SameTerms(charges[h], payments[charges[h].ref])

\* Money reaches a guest's contribution only on account of a charge that the
\* provider closed as PAID for this very guest, reference and amount, however
\* the charges of a raced idempotency key and their reports interleave.
CreditBacked ==
    \A h \in Handlers : "credited" \in did[h] =>
        LET c == charges[req[h].charge] IN
        c # None /\ c.outcome = "PAID" /\ SameTerms(c, pay[h])

Marks(h, r) == "marked" \in did[h] /\ pay[h].ref = r

\* If two webhooks both took the paying branch of one payment, then either they
\* read the very same version of its row (they overlapped), or some webhook
\* wrote a status other than PAID over it: sequential redeliveries of PAID alone
\* never pay twice, with or without crashes and with or without the redis key.
DoubleCreditExplained ==
    \A r \in Refs : \A h, k \in Handlers :
        /\ h # k /\ Marks(h, r) /\ Marks(k, r)
        /\ req[h].status = "PAID" /\ req[k].status = "PAID"
        => \/ pay[h].by = pay[k].by
           \/ \E m \in Handlers : Marks(m, r) /\ req[m].status # "PAID"

\* A payment that is PAID is written PAID again only by a handler that read an
\* older version of the row: whoever saw the current row takes the duplicate
\* branch.
OnlyStaleReadsPayTwice ==
    [][\A r \in Refs :
         payments[r] # None /\ payments'[r] # payments[r]
         /\ payments[r].status = "PAID" /\ payments'[r].status = "PAID"
         => pay[payments'[r].by].by # payments[r].by]_vars

\* A PAID row is never orphaned by the code's own branches: some handler that
\* wrote it has credited the contribution, is still on its way to, or died.
PaidIsCredited ==
    \A r \in Refs : payments[r] # None /\ payments[r].status = "PAID" =>
        \E h \in Handlers :
            /\ Marks(h, r) /\ req[h].status = "PAID"
            /\ "credited" \in did[h] \/ pc[h] \in {"ensure", "credit", "failed"}

StaleWrite(g) == \E h \in Handlers : "stale" \in did[h] /\ Who(h) = g

Edited(g) == \E h \in Handlers : "saved" \in did[h] /\ req[h].guest = g

\* Status and remaining amount of a contribution agree with its required and
\* paid amounts, unless a handler wrote over a row that had changed since it
\* was read (a credit keeps the table's required amount but computes from the
\* one it read).
ContributionConsistent ==
    \A g \in Guests : contrib[g] # None => Consistent(contrib[g]) \/ StaleWrite(g)

\* A guest whom the pipeline gave a ticket has paid the required amount in full,
\* for as long as no organizer edit and no stale write touched the contribution.
TicketIsPaidFor ==
    \A g \in ticket :
        contrib[g].paid >= contrib[g].required \/ StaleWrite(g) \/ Edited(g)

Credits(g) == {h \in Handlers : "credited" \in did[h] /\ Who(h) = g}

SetsPaid(g) ==
    \E h \in Handlers : "saved" \in did[h] /\ Who(h) = g /\ req[h].edit.paid # Keep

\* The paid amount is exactly the sum of the credits: nothing else adds to it and
\* none is lost, as long as no handler wrote over a row it had not read and the
\* organizer did not set the amount by hand.
LedgerExact ==
    \A g \in Guests :
        contrib[g] # None =>
            \/ contrib[g].paid = Total([h \in Credits(g) |-> req[h].amount])
            \/ StaleWrite(g) \/ SetsPaid(g)

\* In every behaviour where the event loop keeps resuming handlers, a payment
\* that becomes PAID is eventually credited, unless its handler failed.
PaidLeadsToCredit ==
    \A r \in Refs :
        (payments[r] # None /\ payments[r].status = "PAID")
            ~> \E h \in Handlers : /\ Marks(h, r) /\ req[h].status = "PAID"
                                   /\ "credited" \in did[h] \/ pc[h] = "failed"
=============================================================================
