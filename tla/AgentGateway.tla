----------------------------- MODULE AgentGateway -----------------------------
(***************************************************************************)
(* Guests who write to the agent, and the tools the agent works with:      *)
(* AgentService with its sessions and messages, McpService with its log of *)
(* calls, the reminders that it queues and the worker that sends them.     *)
(* Payments are credited and rows deleted meanwhile; what a service behind *)
(* a tool does step by step is in the module of that service.              *)
(*                                                                         *)
(* A request is a handler that takes one step per awaited call of these    *)
(* classes; it is a message with an intent, or a tool called directly.     *)
(* One that dies takes no step more.                                       *)
(***************************************************************************)
EXTENDS Integers, Sequences, FiniteSets, Functions, Totals

CONSTANTS
    Handlers,      \* the requests of a behaviour
    Guests,        \* the guests of the event
    TheEvent,
    None,
    Channels,
    Traffic,       \* sets of kinds of request; those of a behaviour are of one set
    Texts,         \* messages without an intent, as the sets of topics they touch
    Required,      \* what a guest has to contribute
    MaxInFlight,   \* bound: handlers running at the same time
    MaxRedelivery, \* bound: jobs delivered again
    Faults         \* whether services and the worker fail

\* The topics in the order in which inferIntent looks for them.
Topics == <<"GREETING", "EVENT_INFO", "RSVP_YES", "RSVP_NO", "CHECK_BALANCE", "MAKE_PLEDGE",
            "REQUEST_TICKET", "REQUEST_INVITE_CARD", "PAYMENT_STATUS", "HUMAN_SUPPORT",
            "PAY_FULL", "PAY_PARTIAL">>

Intent == Range(Topics)

\* The tools that an intent calls.
Plan ==
    [GREETING |-> <<>>, EVENT_INFO |-> <<"getEventDetails">>,
     RSVP_YES |-> <<"updateRSVP">>, RSVP_NO |-> <<"updateRSVP">>,
     CHECK_BALANCE |-> <<"getGuestBalance">>, MAKE_PLEDGE |-> <<"recordPledge">>,
     REQUEST_TICKET |-> <<"issueTicket">>, REQUEST_INVITE_CARD |-> <<"sendInvitationCard">>,
     PAYMENT_STATUS |-> <<"checkPaymentStatus">>, HUMAN_SUPPORT |-> <<"handoffToOrganizer">>,
     PAY_FULL |-> <<"getGuestBalance", "createPaymentRequest">>,
     PAY_PARTIAL |-> <<"getGuestBalance", "createPaymentRequest">>]

\* Tools that change something, those that need the guest, those that need the event.
Effective == {"updateRSVP", "createPaymentRequest", "recordPledge", "sendInvitationCard",
              "issueTicket", "sendPaymentReminder"}
ForGuest == Effective \cup {"getGuestContext", "getGuestBalance", "handoffToOrganizer"}
ForEvent == ForGuest \cup {"getEventDetails", "getEventAnalytics"}
Tool == ForEvent \cup {"checkPaymentStatus", "verifyQRCode"}

Op == Intent \cup Tool \cup {"pay", "remove"}

ASSUME AgentAssumption ==
    /\ Traffic \subseteq SUBSET Op /\ Texts \subseteq SUBSET Intent
    /\ Required \in Nat /\ MaxInFlight \in Nat \ {0} /\ MaxRedelivery \in Nat
    /\ None \notin Handlers \cup Guests \cup Channels /\ TheEvent \notin Guests
    /\ Faults \in BOOLEAN

VARIABLES
    removed,    \* guests that are deleted, and the event if it is
    effects,    \* what tools and payments did: tool, guest, request, amount
    paid,       \* the requests whose charges are paid
    sessions,   \* agent_sessions, by updatedAt
    messages,   \* agent_messages
    calls,      \* mcp_tool_calls
    job,        \* the job payment-reminder:<event>:<guest> of each guest
    reminders,  \* reminders sent to each guest
    again,      \* jobs delivered again
    pc,         \* next step of each handler
    op,         \* its operation
    arg,        \* the guest, the channel and the amount it came with
    got,        \* its session, the balance it read, the tools it has still to call
    pre,        \* the handlers that had finished when it started
    kinds       \* the kinds of request of this behaviour

talk == <<sessions, messages>>
queue == <<job, reminders, again>>
locals == <<op, arg, pre, kinds>>
vars == <<removed, effects, paid, talk, calls, queue, pc, locals, got>>

Final == {"done", "failed"}

Effect == [tool : Tool \cup {"pay"}, guest : Guests, by : Handlers, amount : {0, 1} \cup 1 .. Required]
Session == [guest : Guests, channel : Channels, by : Handlers, step : {"new", "handled"}]
Message == [session : Handlers, sender : {"USER", "AGENT"}, by : Handlers]
ToolCall == [by : Handlers, tool : Tool, success : BOOLEAN]
JobState == {"none", "waiting", "active", "kept"}

Init ==
    /\ removed = {} /\ effects = {} /\ paid = {}
    /\ sessions = <<>> /\ messages = {} /\ calls = {}
    /\ job = [g \in Guests |-> "none"]
    /\ reminders = [g \in Guests |-> 0]
    /\ again = 0
    /\ pc = [h \in Handlers |-> "idle"]
    /\ op = [h \in Handlers |-> None]
    /\ arg = [h \in Handlers |-> None]
    /\ got = [h \in Handlers |-> None]
    /\ pre = [h \in Handlers |-> {}]
    /\ kinds \in Traffic

Goto(h, from, to) == pc[h] = from /\ pc' = [pc EXCEPT ![h] = to]

\* Requests are interchangeable: a new one takes a name no request has had.
Fresh == CHOOSE h \in Handlers : pc[h] = "idle"

Ended == {h \in Handlers : pc[h] \in Final}

Start(h, kind, x, todo, first) ==
    /\ kind \in kinds
    /\ Goto(h, "idle", first)
    /\ h = Fresh
    /\ Cardinality({k \in Handlers : pc[k] \notin {"idle"} \cup Final}) < MaxInFlight
    /\ op' = [op EXCEPT ![h] = kind]
    /\ arg' = [arg EXCEPT ![h] = x]
    /\ got' = [got EXCEPT ![h] = [session |-> None, read |-> 0, todo |-> todo]]
    /\ pre' = [pre EXCEPT ![h] = Ended]
    /\ UNCHANGED <<talk, calls, queue, kinds>>

\* What the guest has still to pay.
PaidCharges(g) ==
    {e \in effects : e.tool = "createPaymentRequest" /\ e.guest = g /\ e.by \in paid}

Credited(g) == Total([e \in PaidCharges(g) |-> e.amount])

Remaining(g) == IF Credited(g) < Required THEN Required - Credited(g) ELSE 0

Present(g) == TheEvent \notin removed /\ g \notin removed

-----------------------------------------------------------------------------
(* Messages.                                                                *)

\* The first topic that the text touches, or a greeting.
Infer(text) ==
    IF text = {} THEN "GREETING"
    ELSE Topics[CHOOSE i \in DOMAIN Topics :
                    Topics[i] \in text /\ \A j \in 1 .. i - 1 : Topics[j] \notin text]

\* A PAY_PARTIAL names an amount, or means all that remains, which 0 stands for.
HandleMessage(h) ==
    \E g \in Guests, c \in Channels, i \in (kinds \cap Intent) \cup {Infer(t) : t \in Texts} :
        \E n \in IF i = "PAY_PARTIAL" THEN {0, 1} ELSE {0} :
            /\ Start(h, i, [guest |-> g, channel |-> c, amount |-> n], Plan[i], "context")
            /\ UNCHANGED <<removed, effects, paid>>

\* By the code of the event or by the phone of the guest: both rows are needed.
ResolveContext(h) ==
    /\ Goto(h, "context", IF Present(arg[h].guest) THEN "session" ELSE "failed")
    /\ UNCHANGED <<removed, effects, paid, talk, calls, queue, locals, got>>

\* A conversation that has been handled is over.
MutContinues(s, x) == s.guest = x.guest /\ s.channel = x.channel /\ s.step = "new"

\* findActiveSession: no session is ever closed.
Continues(s, x) == s.guest = x.guest /\ s.channel = x.channel

\* orderBy: { updatedAt: 'desc' }
FindSession(h) ==
    /\ \/ /\ Goto(h, "session", "open") /\ UNCHANGED got
          /\ \A s \in Range(sessions) : ~Continues(s, arg[h])
       \/ \E i \in DOMAIN sessions :
             /\ Goto(h, "session", "log")
             /\ Continues(sessions[i], arg[h])
             /\ \A j \in DOMAIN sessions : Continues(sessions[j], arg[h]) => j <= i
             /\ got' = [got EXCEPT ![h].session = sessions[i].by]
    /\ UNCHANGED <<removed, effects, paid, talk, calls, queue, locals>>

\* The session that was created is forgotten.
MutOpened(h) == None

Opened(h) == h

CreateSession(h) ==
    /\ Goto(h, "open", "log")
    /\ sessions' = Append(sessions, [guest |-> arg[h].guest, channel |-> arg[h].channel,
                                     by |-> h, step |-> "new"])
    /\ got' = [got EXCEPT ![h].session = Opened(h)]
    /\ UNCHANGED <<removed, effects, paid, messages, calls, queue, locals>>

\* A pledge without amount or date, or a status without reference, ends here.
LogMessage(h) ==
    /\ \E lacks \in IF op[h] \in {"MAKE_PLEDGE", "PAYMENT_STATUS"} THEN BOOLEAN ELSE {FALSE} :
            Goto(h, "log", IF lacks THEN "failed"
                           ELSE IF got[h].todo = <<>> THEN "close" ELSE "tool")
    /\ messages' = messages \cup {[session |-> got[h].session, sender |-> "USER", by |-> h]}
    /\ UNCHANGED <<removed, effects, paid, sessions, calls, queue, locals, got>>

\* The rows with the i-th updated, which makes it the latest.
Touched(i) ==
    [j \in DOMAIN sessions |-> IF j < i THEN sessions[j]
                               ELSE IF j < Len(sessions) THEN sessions[j + 1]
                               ELSE [sessions[i] EXCEPT !.step = "handled"]]

UpdateSession(h) ==
    /\ Goto(h, "close", "reply")
    /\ \E i \in DOMAIN sessions : sessions[i].by = got[h].session /\ sessions' = Touched(i)
    /\ UNCHANGED <<removed, effects, paid, messages, calls, queue, locals, got>>

\* The trace for Sarufi that follows changes nothing here.
Reply(h) ==
    /\ Goto(h, "reply", "done")
    /\ messages' = messages \cup {[session |-> got[h].session, sender |-> "AGENT", by |-> h]}
    /\ UNCHANGED <<removed, effects, paid, sessions, calls, queue, locals, got>>

-----------------------------------------------------------------------------
(* Tools.                                                                   *)

CallTool(h) ==
    \E t \in kinds \cap Tool, g \in Guests :
        \E n \in IF t = "createPaymentRequest" THEN 1 .. Required ELSE {0} :
            /\ Start(h, t, [guest |-> g, channel |-> None, amount |-> n], <<t>>, "tool")
            /\ UNCHANGED <<removed, effects, paid>>

This(h) == Head(got[h].todo)

ResolveGuest(h) ==
    LET missing == \/ This(h) \in ForGuest /\ ~Present(arg[h].guest)
                   \/ This(h) \in ForEvent /\ TheEvent \in removed IN
    /\ Goto(h, "tool", IF missing THEN "refuse"
                       ELSE IF This(h) = "createPaymentRequest" THEN "balance" ELSE "work")
    /\ UNCHANGED <<removed, effects, paid, talk, calls, queue, locals, got>>

\* The balance that the message before has read, or the amount the guest names.
AmountOf(h) == IF arg[h].amount = 0 THEN got[h].read ELSE arg[h].amount

\* A charge of any amount for a guest who owes something.
MutPayable(n, owed) == owed > 0

\* createPaymentRequest: neither complete nor waived, and no more than remains.
Payable(n, owed) == owed > 0 /\ n \in 1 .. owed

CheckBalance(h) ==
    /\ Goto(h, "balance", IF Payable(AmountOf(h), Remaining(arg[h].guest)) THEN "work" ELSE "refuse")
    /\ UNCHANGED <<removed, effects, paid, talk, calls, queue, locals, got>>

\* The amount of a charge, and 1 for a reminder that finds no job of its guest.
EffectOf(h) ==
    [tool |-> This(h), guest |-> arg[h].guest, by |-> h,
     amount |-> CASE This(h) = "createPaymentRequest" -> AmountOf(h)
                  [] This(h) = "sendPaymentReminder" /\ job[arg[h].guest] = "none" -> 1
                  [] OTHER -> 0]

\* Every reminder becomes a job.
MutQueued(g) == [job EXCEPT ![g] = "waiting"]

\* A job with the id of one that is kept is not added; the tool says queued all the same.
Queued(g) == IF job[g] = "none" THEN [job EXCEPT ![g] = "waiting"] ELSE job

Work(h) ==
    /\ Goto(h, "work", "record")
    /\ effects' = IF This(h) \in Effective THEN effects \cup {EffectOf(h)} ELSE effects
    /\ job' = IF This(h) = "sendPaymentReminder" THEN Queued(arg[h].guest) ELSE job
    /\ got' = IF This(h) = "getGuestBalance"
              THEN [got EXCEPT ![h].read = Remaining(arg[h].guest)] ELSE got
    /\ UNCHANGED <<removed, paid, talk, calls, reminders, again, locals>>

\* Tools whose service writes first and may fail after.
Halfway == {"updateRSVP", "recordPledge", "sendInvitationCard", "issueTicket"}

\* A service throws: the answer of the provider, the card or the last write is
\* missing, and what came before it stays.
WorkFails(h) ==
    /\ Faults
    /\ Goto(h, "work", "refuse")
    /\ \E half \in BOOLEAN :
           effects' = IF half /\ This(h) \in Halfway
                      THEN effects \cup {EffectOf(h)} ELSE effects
    /\ UNCHANGED <<removed, paid, talk, calls, queue, locals, got>>

AfterCall(h) ==
    IF Len(got[h].todo) > 1 THEN "tool" ELSE IF op[h] \in Intent THEN "close" ELSE "done"

\* The call is on record when it is answered.
RecordCall(h) ==
    /\ Goto(h, "record", AfterCall(h))
    /\ calls' = calls \cup {[by |-> h, tool |-> This(h), success |-> TRUE]}
    /\ got' = [got EXCEPT ![h].todo = Tail(@)]
    /\ UNCHANGED <<removed, effects, paid, talk, queue, locals>>

\* Failures are not recorded.
MutAfterFailedRecord == "failed"

\* The record of a success is written where its failure is caught, too.
AfterFailedRecord == "refuse"

RecordFails(h) ==
    /\ Faults
    /\ Goto(h, "record", AfterFailedRecord)
    /\ UNCHANGED <<removed, effects, paid, talk, calls, queue, locals, got>>

RecordFailure(h) ==
    /\ Goto(h, "refuse", "failed")
    /\ calls' = calls \cup {[by |-> h, tool |-> This(h), success |-> FALSE]}
    /\ UNCHANGED <<removed, effects, paid, talk, queue, locals, got>>

-----------------------------------------------------------------------------
(* The worker and the reminders.                                            *)

TakeJob(g) ==
    /\ job[g] = "waiting" /\ job' = [job EXCEPT ![g] = "active"]
    /\ UNCHANGED <<removed, effects, paid, talk, calls, reminders, again, pc, locals, got>>

\* Whatever remains, and whatever the gateway answers: the job is complete.
SendReminder(g) ==
    /\ job[g] = "active" /\ job' = [job EXCEPT ![g] = "kept"]
    /\ \E sent \in {TRUE, ~Faults} :
           reminders' = IF sent THEN [reminders EXCEPT ![g] = @ + 1] ELSE reminders
    /\ UNCHANGED <<removed, effects, paid, talk, calls, again, pc, locals, got>>

\* The worker dies with the job, before or after it has sent, or the read fails.
JobStalls(g) ==
    /\ Faults /\ again < MaxRedelivery
    /\ job[g] = "active" /\ job' = [job EXCEPT ![g] = "waiting"]
    /\ again' = again + 1
    /\ \E sent \in BOOLEAN :
           reminders' = IF sent THEN [reminders EXCEPT ![g] = @ + 1] ELSE reminders
    /\ UNCHANGED <<removed, effects, paid, talk, calls, pc, locals, got>>

\* A hundred jobs completed later, the id is free.
ForgetJob(g) ==
    /\ job[g] = "kept" /\ job' = [job EXCEPT ![g] = "none"]
    /\ UNCHANGED <<removed, effects, paid, talk, calls, reminders, again, pc, locals, got>>

-----------------------------------------------------------------------------
(* What happens elsewhere.                                                  *)

\* The provider reports a charge as paid, and the last payment brings the ticket.
Pay(h) ==
    \E e \in effects :
        /\ e.tool = "createPaymentRequest" /\ e.by \notin paid
        /\ Start(h, "pay", [guest |-> e.guest, channel |-> None, amount |-> e.amount], <<>>, "done")
        /\ paid' = paid \cup {e.by}
        /\ effects' = IF Remaining(e.guest) <= e.amount
                      THEN effects \cup {[tool |-> "pay", guest |-> e.guest, by |-> h, amount |-> 0]}
                      ELSE effects
        /\ UNCHANGED removed

Delete(h) ==
    \E x \in (Guests \cup {TheEvent}) \ removed :
        /\ Start(h, "remove", [guest |-> x, channel |-> None, amount |-> 0], <<>>, "done")
        /\ removed' = removed \cup {x}
        /\ UNCHANGED <<effects, paid>>

Arrive(h) == HandleMessage(h) \/ CallTool(h) \/ Pay(h) \/ Delete(h)

Run(h) ==
    \/ ResolveContext(h) \/ FindSession(h) \/ CreateSession(h) \/ LogMessage(h)
    \/ ResolveGuest(h) \/ CheckBalance(h) \/ Work(h) \/ WorkFails(h)
    \/ RecordCall(h) \/ RecordFails(h) \/ RecordFailure(h)
    \/ UpdateSession(h) \/ Reply(h)

Next ==
    \/ \E h \in Handlers : Arrive(h) \/ Run(h)
    \/ \E g \in Guests : TakeJob(g) \/ SendReminder(g) \/ JobStalls(g) \/ ForgetJob(g)

Spec == Init /\ [][Next]_vars

-----------------------------------------------------------------------------
(* Properties.                                                              *)

Overlap(h, k) == h \notin pre[k] /\ k \notin pre[h]

\* Types: rows, calls and effects; a session in use exists, and a charge was
\* opened by a message or a call that asks for one.
TypeOK ==
    /\ removed \subseteq Guests \cup {TheEvent}
    /\ effects \subseteq Effect
    /\ paid \subseteq {e.by : e \in {x \in effects : x.tool = "createPaymentRequest"}}
    /\ sessions \in Seq(Session)
    /\ messages \subseteq Message
    /\ \A m \in messages : \E i \in DOMAIN sessions : sessions[i].by = m.session
    /\ calls \subseteq ToolCall
    /\ job \in [Guests -> JobState]
    /\ op \in [Handlers -> Op \cup {None}]
    /\ pre \in [Handlers -> SUBSET Handlers]

\* A guest has one conversation on a channel: two sessions were opened by
\* messages that overlapped.
OneConversation ==
    \A i, j \in DOMAIN sessions :
        /\ i # j /\ sessions[i].guest = sessions[j].guest
        /\ sessions[i].channel = sessions[j].channel
        => Overlap(sessions[i].by, sessions[j].by)

PaidBefore(h, g) == {k \in pre[h] : op[k] = "pay" /\ arg[k].guest = g}

Owed(h, g) == Required - Total([k \in PaidBefore(h, g) |-> arg[k].amount])

\* A charge asks for no more than what remained when its request started, and a
\* PAY_FULL for exactly that, unless a payment was credited in between.
ChargesAskWhatRemains ==
    \A e \in effects :
        e.tool = "createPaymentRequest" =>
            \/ /\ e.amount <= Owed(e.by, e.guest)
               /\ op[e.by] = "PAY_FULL" => e.amount = Owed(e.by, e.guest)
            \/ \E k \in Handlers : op[k] = "pay" /\ arg[k].guest = e.guest /\ Overlap(k, e.by)

\* The log of calls accounts for what the tools did: what a request that was
\* answered changed is on record as a success, what a request changed that ended
\* with an error is on record at least as a failure, and a success is on record
\* only for what was done.
CallsAreOnRecord ==
    /\ \A e \in effects :
        e.tool # "pay" =>
            /\ pc[e.by] = "done" => [by |-> e.by, tool |-> e.tool, success |-> TRUE] \in calls
            /\ pc[e.by] = "failed" => \E c \in calls : c.by = e.by /\ ~c.success
    /\ \A c \in calls :
        c.success /\ c.tool \in Effective => \E e \in effects : e.by = c.by /\ e.tool = c.tool

\* A guest gets no more reminders than jobs: of the requests for a reminder that
\* overlap or follow each other while the job is kept, one is carried out; a
\* second reminder needs a job delivered again or one that was forgotten.
RemindersAreSpaced ==
    \A g \in Guests :
        reminders[g] <= again + Cardinality(
            {e \in effects : e.tool = "sendPaymentReminder" /\ e.guest = g /\ e.amount = 1})
=============================================================================
