--------------------------- MODULE WhatsAppDelivery ---------------------------
(***************************************************************************)
(* WhatsApp messages: the requests that queue them, the worker's jobs that *)
(* hand them to the gateway, and the delivery reports that come back.      *)
(*                                                                         *)
(* A request handler sends a text to one guest (sendSingle) or to all of   *)
(* them (sendBulk), or the invitation template to one guest or to all.  A  *)
(* worker slot is one attempt of one job.  Both take a step per awaited    *)
(* call that touches shared state.  A whatsapp_messages row is named by    *)
(* the handler or the campaign attempt that created it and the guest; a    *)
(* gateway message by the row and by who sent it; the job that sends a row *)
(* by the row.                                                             *)
(***************************************************************************)
EXTENDS Integers, FiniteSets

CONSTANTS
    Handlers,          \* requests
    Workers,           \* attempts of jobs
    Guests,            \* the guests with a phone
    None,
    Scheduled,         \* scheduled campaigns; each names its job
    Traffic,           \* sets of kinds of event; those of a behaviour are of one set
    MaxSends,          \* bound: rows that the requests of a behaviour make
    Attempts,          \* attempts of a job that sends a row
    CampaignAttempts,  \* attempts of a campaign's job
    Stalls,            \* times the queue gives a dead worker's job to another
    Crashes            \* whether a handler or worker may die between two steps

Kind == {"single", "bulk", "invite", "invites", "campaign", "report"}

ASSUME WhatsAppAssumption ==
    /\ Traffic \subseteq SUBSET Kind
    /\ {Attempts, CampaignAttempts} \subseteq Nat \ {0} /\ {Stalls, MaxSends} \subseteq Nat
    /\ Crashes \in BOOLEAN
    /\ Guests # {} /\ Handlers \cap Workers = {}
    /\ Scheduled \cap (Handlers \cup ((Handlers \cup Workers) \X Guests)) = {}
    /\ None \notin Handlers \cup Workers \cup Guests \cup Scheduled

All == Handlers \cup Workers
Rows == All \X Guests

SendJobs == Handlers \X Guests
Jobs == SendJobs \cup Scheduled

\* A bulk send is a campaign of its request.
Campaigns == Scheduled \cup Handlers

Messages == Rows \X All

MessageStatus == {"QUEUED", "SENT", "DELIVERED", "READ", "FAILED"}

Row == [status : MessageStatus, ext : Messages \cup {None}]

ASSUME NoneIsNoRow == None \notin Row \cup Messages \cup Rows \cup Jobs

VARIABLES
    rows,      \* whatsapp_messages
    campaign,  \* status of each campaign: none, scheduled, sending or sent
    job,       \* state of each job: none, waiting, active, done or failed
    tries,     \* its failed attempts
    stalls,    \* its attempts whose worker died
    accepted,  \* messages the gateway accepted
    fate,      \* what became of them on the phone: <<message, status>>
    pc,        \* next step of each handler and worker
    on,        \* the kind of a handler, the job of a worker
    cur,       \* the row it is at
    got,       \* the gateway's id of the message sent last, None if it refused
    todo,      \* guests a handler or a campaign attempt has yet to serve
    kinds      \* the kinds of event of this behaviour

outside == <<accepted, fate>>
counts == <<tries, stalls>>
locals == <<on, cur, got, todo, kinds>>
vars == <<rows, campaign, job, counts, outside, pc, locals>>

Final == {"done", "failed", "dead"}

Init ==
    /\ rows = [m \in Rows |-> None]
    /\ campaign = [c \in Campaigns |-> "none"]
    /\ job = [j \in Jobs |-> "none"]
    /\ tries = [j \in Jobs |-> 0]
    /\ stalls = [j \in Jobs |-> 0]
    /\ accepted = {}
    /\ fate = {}
    /\ pc = [x \in All |-> "idle"]
    /\ on = [x \in All |-> None]
    /\ cur = [x \in All |-> None]
    /\ got = [x \in All |-> None]
    /\ todo = [x \in All |-> {}]
    /\ kinds \in Traffic

\* Requests, and attempts, are interchangeable: a new one takes an unused name.
Fresh(S) == CHOOSE x \in S : pc[x] = "idle"

Goto(x, from, to) == pc[x] = from /\ pc' = [pc EXCEPT ![x] = to]

Queued == [status |-> "QUEUED", ext |-> None]

-----------------------------------------------------------------------------
(* Requests.                                                                *)

Serving(h) == todo[h] \cup {g \in Guests : rows[<<h, g>>] # None \/ cur[h] = <<h, g>>}

Room == MaxSends - Cardinality({m \in SendJobs : m[2] \in Serving(m[1])})

\* The row is made, or the template sent, in the steps that follow.
Start(h, kind, guests, first) ==
    /\ kind \in kinds
    /\ Cardinality(guests) <= Room
    /\ Goto(h, "idle", first)
    /\ h = Fresh(Handlers)
    /\ on' = [on EXCEPT ![h] = kind]
    /\ todo' = [todo EXCEPT ![h] = guests]
    /\ UNCHANGED <<rows, job, counts, outside, cur, got, kinds>>

\* The guest of the requests for one guest: no step looks at two guests' messages.
Someone == CHOOSE g \in Guests : TRUE

SendSingle(h) == Start(h, "single", {Someone}, "insert") /\ UNCHANGED campaign

\* sendBulk: a campaign, then the rows of the guests, then their jobs.
SendBulk(h) ==
    /\ Start(h, "bulk", Guests, "insert")
    /\ campaign' = [campaign EXCEPT ![h] = "sending"]

SendInvitation(h) == Start(h, "invite", {Someone}, "template") /\ UNCHANGED campaign

\* sendBulkInvitations serves one guest after the other.
SendBulkInvitations(h) == Start(h, "invites", Guests, "template") /\ UNCHANGED campaign

Served(h) == {g \in Guests : rows[<<h, g>>] # None}

InsertRow(h) ==
    /\ \E g \in todo[h] :
        /\ Goto(h, "insert", IF todo[h] = {g} THEN "enqueue" ELSE "insert")
        /\ rows' = [rows EXCEPT ![<<h, g>>] = Queued]
        /\ todo' = [todo EXCEPT ![h] = IF @ = {g} THEN Served(h) \cup {g} ELSE @ \ {g}]
    /\ UNCHANGED <<campaign, job, counts, outside, on, cur, got, kinds>>

EnqueueSend(h) ==
    /\ \E g \in todo[h] :
        /\ Goto(h, "enqueue", IF todo[h] # {g} THEN "enqueue"
                              ELSE IF on[h] = "bulk" THEN "close" ELSE "done")
        /\ job' = [job EXCEPT ![<<h, g>>] = "waiting"]
        /\ todo' = [todo EXCEPT ![h] = @ \ {g}]
    /\ UNCHANGED <<rows, campaign, counts, outside, on, cur, got, kinds>>

\* A bulk send is sent when its jobs are queued.
CloseBulk(h) ==
    /\ Goto(h, "close", "done")
    /\ campaign' = [campaign EXCEPT ![h] = "sent"]
    /\ UNCHANGED <<rows, job, counts, outside, locals>>

\* A send that ends in an error: the gateway refused the message, or took it and its
\* answer was lost.
Refused(e) == accepted' = accepted \/ accepted' = accepted \cup {e}

\* The template first; its outcome decides the row.
SendTemplate(h) ==
    /\ Goto(h, "template", "record")
    /\ \E g \in todo[h] :
        LET e == <<<<h, g>>, h>> IN
        /\ cur' = [cur EXCEPT ![h] = <<h, g>>]
        /\ todo' = [todo EXCEPT ![h] = @ \ {g}]
        /\ \/ accepted' = accepted \cup {e} /\ got' = [got EXCEPT ![h] = e]
           \/ Refused(e) /\ got' = [got EXCEPT ![h] = None]
    /\ UNCHANGED <<rows, campaign, job, counts, fate, on, kinds>>

Onward(h) == IF todo[h] = {} THEN "done" ELSE "template"

RecordTemplate(h) ==
    /\ Goto(h, "record", IF got[h] = None THEN "fallback" ELSE Onward(h))
    /\ rows' = [rows EXCEPT ![cur[h]] =
            [status |-> IF got[h] = None THEN "FAILED" ELSE "QUEUED", ext |-> got[h]]]
    /\ UNCHANGED <<campaign, job, counts, outside, locals>>

\* The text in place of a template that failed: a job for the row, which is FAILED.
EnqueueFallback(h) ==
    /\ Goto(h, "fallback", Onward(h))
    /\ job' = [job EXCEPT ![cur[h]] = "waiting"]
    /\ UNCHANGED <<rows, campaign, counts, outside, locals>>

\* scheduleCampaign: the campaign, then its job, if the request lives that long; the
\* job is seen here when its delay has passed.
ScheduleCampaign(c) ==
    /\ "campaign" \in kinds
    /\ campaign[c] = "none"
    /\ campaign' = [campaign EXCEPT ![c] = "scheduled"]
    /\ UNCHANGED <<rows, job, counts, outside, pc, locals>>

EnqueueCampaign(c) ==
    /\ campaign[c] = "scheduled" /\ job[c] = "none"
    /\ job' = [job EXCEPT ![c] = "waiting"]
    /\ UNCHANGED <<rows, campaign, counts, outside, pc, locals>>

-----------------------------------------------------------------------------
(* The worker.                                                              *)

TakeJob(w) ==
    \E j \in Jobs :
        /\ job[j] = "waiting"
        /\ Goto(w, "idle", IF j \in Scheduled THEN "next" ELSE "read")
        /\ w = Fresh(Workers)
        /\ job' = [job EXCEPT ![j] = "active"]
        /\ on' = [on EXCEPT ![w] = j]
        /\ cur' = [cur EXCEPT ![w] = IF j \in Scheduled THEN None ELSE j]
        /\ todo' = [todo EXCEPT ![w] = IF j \in Scheduled THEN Guests ELSE {}]
        /\ UNCHANGED <<rows, campaign, counts, outside, got, kinds>>

\* Where an attempt goes when processSendMessage returns: on with the campaign,
\* or to the end of the job.
Returned(w) == IF on[w] \in Scheduled THEN "next" ELSE "complete"

\* A row is sent whatever its status.
MutSendable(m) == TRUE

\* if (!message || message.status !== QUEUED) return
Sendable(m) == rows[m].status = "QUEUED"

ReadRow(w) ==
    /\ Goto(w, "read", IF Sendable(cur[w]) THEN "send" ELSE Returned(w))
    /\ UNCHANGED <<rows, campaign, job, counts, outside, locals>>

SendAccepted(w) ==
    LET e == <<cur[w], w>> IN
    /\ Goto(w, "send", "sent")
    /\ accepted' = accepted \cup {e}
    /\ got' = [got EXCEPT ![w] = e]
    /\ UNCHANGED <<rows, campaign, job, counts, fate, on, cur, todo, kinds>>

SendRefused(w) ==
    /\ Goto(w, "send", "refused")
    /\ Refused(<<cur[w], w>>)
    /\ UNCHANGED <<rows, campaign, job, counts, fate, locals>>

StoreSent(w) ==
    /\ Goto(w, "sent", Returned(w))
    /\ rows' = [rows EXCEPT ![cur[w]].status = "SENT", ![cur[w]].ext = got[w]]
    /\ UNCHANGED <<campaign, job, counts, outside, locals>>

\* A campaign goes on to the next guest when one send fails.
MutAfterRefusal(w) == IF on[w] \in Scheduled THEN "next" ELSE "throw"

\* The error ends the whole attempt, the rest of a campaign included.
AfterRefusal(w) == "throw"

StoreFailed(w) ==
    /\ Goto(w, "refused", AfterRefusal(w))
    /\ rows' = [rows EXCEPT ![cur[w]].status = "FAILED"]
    /\ UNCHANGED <<campaign, job, counts, outside, locals>>

\* processCampaign: a new row for the next guest of the list, sent at once.
NextGuest(w) ==
    /\ Goto(w, "next", "read")
    /\ \E g \in todo[w] :
        /\ rows' = [rows EXCEPT ![<<w, g>>] = Queued]
        /\ cur' = [cur EXCEPT ![w] = <<w, g>>]
        /\ todo' = [todo EXCEPT ![w] = @ \ {g}]
    /\ UNCHANGED <<campaign, job, counts, outside, on, got, kinds>>

FinishCampaign(w) ==
    /\ Goto(w, "next", "complete")
    /\ todo[w] = {}
    /\ campaign' = [campaign EXCEPT ![on[w]] = "sent"]
    /\ UNCHANGED <<rows, job, counts, outside, locals>>

\* The processor returned: the queue removes the job.
CompleteJob(w) ==
    /\ Goto(w, "complete", "done")
    /\ job' = [job EXCEPT ![on[w]] = "done"]
    /\ UNCHANGED <<rows, campaign, counts, outside, locals>>

\* The attempts that the queue gives a job.
Limit(j) == IF j \in Scheduled THEN CampaignAttempts ELSE Attempts

\* A failed attempt is given back, unless it was the last one.
AfterFailure(j) == IF tries[j] + 1 < Limit(j) THEN "waiting" ELSE "failed"

FailAttempt(w) ==
    /\ Goto(w, "throw", "failed")
    /\ tries' = [tries EXCEPT ![on[w]] = @ + 1]
    /\ job' = [job EXCEPT ![on[w]] = AfterFailure(on[w])]
    /\ UNCHANGED <<rows, campaign, stalls, outside, locals>>

\* A stalled job is never found.
MutLostJob(j) == "active"

AfterStall(j) == IF stalls[j] < Stalls THEN "waiting" ELSE "failed"

\* The worker's process dies: another one finds the job stalled.
CrashWorker(w) ==
    /\ Crashes
    /\ pc[w] \notin {"idle"} \cup Final
    /\ pc' = [pc EXCEPT ![w] = "dead"]
    /\ stalls' = [stalls EXCEPT ![on[w]] = @ + 1]
    /\ job' = [job EXCEPT ![on[w]] = AfterStall(on[w])]
    /\ UNCHANGED <<rows, campaign, tries, outside, locals>>

-----------------------------------------------------------------------------
(* The gateway, the phones and the reports.                                 *)

Arrived(e) == <<e, "DELIVERED">> \in fate
Lost(e) == <<e, "FAILED">> \in fate

\* Messages whose id some row has: the reports of others match no row, so what
\* becomes of them is left open.
Traceable == {e \in accepted : \E m \in Rows : rows[m] # None /\ rows[m].ext = e}

PhoneEvent ==
    /\ "report" \in kinds
    /\ \E e \in Traceable :
        \/ ~Arrived(e) /\ ~Lost(e) /\ \E s \in {"DELIVERED", "FAILED"} : fate' = fate \cup {<<e, s>>}
        \/ Arrived(e) /\ <<e, "READ">> \notin fate /\ fate' = fate \cup {<<e, "READ">>}
    /\ UNCHANGED <<rows, campaign, job, counts, accepted, pc, locals>>

\* Reports of one message, now or long after: that it was sent, and its fate.
Reports == {<<e, "SENT">> : e \in accepted} \cup fate

\* The rows of the same guest.
MutReportedRows(e) == {m \in Rows : rows[m] # None /\ m[2] = e[1][2]}

\* where: { externalId }
ReportedRows(e) == {m \in Rows : rows[m] # None /\ rows[m].ext = e}

\* POST /webhook/whatsapp: the reported status is written as it comes.
ReceiveReport ==
    /\ "report" \in kinds
    /\ \E r \in Reports :
        /\ ReportedRows(r[1]) # {}
        /\ rows' = [m \in Rows |-> IF m \in ReportedRows(r[1])
                                   THEN [rows[m] EXCEPT !.status = r[2]] ELSE rows[m]]
    /\ UNCHANGED <<campaign, job, counts, outside, pc, locals>>

CrashHandler(h) ==
    /\ Crashes
    /\ pc[h] \notin {"idle"} \cup Final
    /\ pc' = [pc EXCEPT ![h] = "dead"]
    /\ UNCHANGED <<rows, campaign, job, counts, outside, locals>>

Serve(h) ==
    \/ InsertRow(h) \/ EnqueueSend(h) \/ CloseBulk(h)
    \/ SendTemplate(h) \/ RecordTemplate(h) \/ EnqueueFallback(h)

Work(w) ==
    \/ TakeJob(w) \/ ReadRow(w) \/ SendAccepted(w) \/ SendRefused(w)
    \/ StoreSent(w) \/ StoreFailed(w) \/ NextGuest(w) \/ FinishCampaign(w)
    \/ CompleteJob(w) \/ FailAttempt(w)

Next ==
    \/ \E h \in Handlers :
        \/ SendSingle(h) \/ SendBulk(h) \/ SendInvitation(h) \/ SendBulkInvitations(h)
        \/ Serve(h) \/ CrashHandler(h)
    \/ \E c \in Scheduled : ScheduleCampaign(c) \/ EnqueueCampaign(c)
    \/ \E w \in Workers : Work(w) \/ CrashWorker(w)
    \/ PhoneEvent \/ ReceiveReport

Spec == Init /\ [][Next]_vars

\* The worker process keeps taking jobs and finishing them.
FairSpec == Spec /\ \A w \in Workers : WF_vars(Work(w))

-----------------------------------------------------------------------------
(* Properties.                                                              *)

\* An actor's places in the code.
HandlerPlace ==
    {"idle", "insert", "enqueue", "close", "template", "record", "fallback", "done", "dead"}

WorkerPlace ==
    {"idle", "read", "send", "sent", "refused", "throw", "next", "complete"} \cup Final

\* Types: rows, jobs with no more attempts than the queue counts, and what the gateway
\* and the phones know of a message.
TypeOK ==
    /\ rows \in [Rows -> Row \cup {None}]
    /\ campaign \in [Campaigns -> {"none", "scheduled", "sending", "sent"}]
    /\ job \in [Jobs -> {"none", "waiting", "active", "done", "failed"}]
    /\ tries \in [Jobs -> Nat] /\ \A j \in Jobs : tries[j] <= Limit(j)
    /\ stalls \in [Jobs -> 0 .. Stalls + 1]
    /\ accepted \subseteq Messages
    /\ fate \subseteq Messages \X {"DELIVERED", "READ", "FAILED"}
    /\ pc \in [All -> HandlerPlace \cup WorkerPlace]
    /\ on \in [All -> Kind \cup Jobs \cup {None}]
    /\ cur \in [All -> Rows \cup {None}]
    /\ got \in [All -> Messages \cup {None}]
    /\ todo \in [All -> SUBSET Guests]

Copies(m) == {e \in accepted : e[1] = m}

\* The message of a row goes to the gateway again only after the worker that sent it
\* died before it could record that: no retry, stalled job or delivery report makes
\* a row sendable again.  A guest gets a scheduled campaign a second time only if an
\* earlier attempt of its job failed or died on the way.
RepeatedOnlyAfterFailure ==
    /\ \A m \in Rows : \A e, f \in Copies(m) :
        e # f => \E x \in {e, f} : x[2] \in Workers /\ pc[x[2]] = "dead" /\ rows[m].ext # x
    /\ \A c \in Scheduled, g \in Guests :
        LET senders == {w \in Workers : on[w] = c /\ Copies(<<w, g>>) # {}} IN
        /\ Cardinality(senders) <= CampaignAttempts + Stalls
        /\ Cardinality(senders) <= 1 + Cardinality({w \in senders : pc[w] \in {"failed", "dead"}})

\* What a row says of a message in somebody's phone is true of that message: it was
\* accepted under the id in the row, and delivered or read if the row says so.
StatusIsBacked ==
    \A m \in Rows : rows[m] # None =>
        /\ rows[m].ext # None => rows[m].ext \in Copies(m)
        /\ rows[m].status \in {"DELIVERED", "READ"} => <<rows[m].ext, rows[m].status>> \in fate

\* A scheduled campaign is marked as sent only when a message for every one of its
\* guests was accepted: one refused send fails the attempt, so no guest is skipped.
\* A bulk send is marked as sent only when every guest's message has its job.
SentCampaignReachedEveryGuest ==
    \A c \in Campaigns : campaign[c] = "sent" =>
        \A g \in Guests :
            IF c \in Scheduled THEN \E w \in Workers : on[w] = c /\ Copies(<<w, g>>) # {}
            ELSE rows[<<c, g>>] # None /\ job[<<c, g>>] # "none"

Untried(m) == rows[m] # None /\ rows[m].status = "QUEUED"

\* A message that was queued with its job is tried: the row does not stay QUEUED,
\* unless its worker died more often than the queue replaces it.
QueuedMessageIsTried ==
    \A m \in SendJobs : job[m] = "waiting" ~> (~Untried(m) \/ job[m] = "failed")

\* ARCHITECTURE.md: WhatsApp messages go through BullMQ with retry logic (3 attempts).
\* A job with a refused attempt behind it and attempts left does not end well while its
\* message is still FAILED.
FailedMessagesAreRetried ==
    [][\A m \in SendJobs : \A w \in Workers :
         ~(CompleteJob(w) /\ on[w] = m /\ tries[m] \in 1 .. Attempts - 1
           /\ rows[m].status = "FAILED")]_vars

\* WhatsAppService.ts: if the template failed, fall back to plain text.  The job of the
\* fallback text does not end well without having handed the text to the gateway.
FallbackIsSent ==
    [][\A m \in SendJobs : \A w \in Workers :
         CompleteJob(w) /\ on[w] = m /\ on[m[1]] \in {"invite", "invites"} => <<m, w>> \in accepted]_vars
=============================================================================
