------------------------------- MODULE Pledges -------------------------------
(***************************************************************************)
(* Pledges and their reminders: PledgeService (create, updateStatus,       *)
(* markCompletedForGuest) and the sendPledgeReminderJob of the automation  *)
(* worker, over the pledges table and the delayed jobs in Redis.           *)
(*                                                                         *)
(* A handler is one HTTP request, one settlement by the payment pipeline,  *)
(* or one attempt of a reminder job; it takes a step per awaited call that *)
(* reads or writes shared state.  The delay of a job ends on the promised  *)
(* date, so a job that runs finds the date passed by its own clock; the    *)
(* worker's clock may lag behind the one that computed the delay.          *)
(***************************************************************************)
EXTENDS Integers, FiniteSets

CONSTANTS
    Handlers,    \* HTTP requests and settlements
    Workers,     \* attempts of reminder jobs
    Pledges,     \* identifiers of the pledges that may be created
    Guests,
    None,
    Attempts,    \* attempts of a job (3 in the queue's default options)
    Stalls,      \* times the queue gives a dead worker's job to another (1)
    ClocksLag,   \* whether a worker's clock may lag behind
    Patches,     \* statuses the organizer may set
    Faults       \* whether a handler may die or throw

PledgeStatus == {"ACTIVE", "PAID", "MISSED", "CANCELLED"}

ASSUME PledgesAssumption ==
    /\ Attempts \in Nat \ {0} /\ Stalls \in Nat
    /\ Patches \subseteq PledgeStatus
    /\ {ClocksLag, Faults} \subseteq BOOLEAN
    /\ Handlers \cap Workers = {}
    /\ \A S \in {Handlers, Workers, Guests, Pledges} : None \notin S

All == Handlers \cup Workers

VARIABLES
    owner,    \* the guest of each pledge, None before it is created
    status,   \* its status
    due,      \* pledges whose promised date has passed
    job,      \* state of its reminder job: none, delayed, active, done or failed
    tries,    \* failed attempts of the job
    stalls,   \* attempts of the job whose worker died
    told,     \* attempts that sent the reminder
    wrote,    \* who wrote the pledge last, which stands for updatedAt
    pc,       \* next step of each handler
    op,       \* its operation
    on,       \* the pledge or guest it is about
    snap      \* the pledges it read and has yet to write, with their version

counts == <<tries, stalls>>
tables == <<owner, status, due, job, counts>>
locals == <<op, on, snap>>
vars == <<tables, told, pc, locals, wrote>>

Final == {"done", "failed"}

Init ==
    /\ owner = [p \in Pledges |-> None]
    /\ status = [p \in Pledges |-> "ACTIVE"]
    /\ due = {}
    /\ job = [p \in Pledges |-> "none"]
    /\ tries = [p \in Pledges |-> 0]
    /\ stalls = [p \in Pledges |-> 0]
    /\ told = {}
    /\ pc = [h \in All |-> "idle"]
    /\ op = [h \in All |-> None]
    /\ on = [h \in All |-> None]
    /\ snap = [h \in All |-> {}]
    /\ wrote = [p \in Pledges |-> None]

Goto(h, from, to) == pc[h] = from /\ pc' = [pc EXCEPT ![h] = to]

Begin(h, kind, target, first) ==
    /\ Goto(h, "idle", first)
    /\ op' = [op EXCEPT ![h] = kind]
    /\ on' = [on EXCEPT ![h] = target]

Exists(p) == owner[p] # None

Version(p) == <<p, wrote[p]>>

Write(h, p, s) ==
    /\ status' = [status EXCEPT ![p] = s]
    /\ wrote' = [wrote EXCEPT ![p] = h]

-----------------------------------------------------------------------------
(* create: the row, then the job that will remind the guest.                *)

CreatePledge(h) ==
    \E p \in Pledges, g \in Guests :
        /\ ~Exists(p)
        /\ Begin(h, "create", p, "enqueue")
        /\ owner' = [owner EXCEPT ![p] = g]
        /\ UNCHANGED <<status, due, job, counts, told, snap, wrote>>

\* A fixed job id: one job per pledge.
EnqueueReminder(h) ==
    /\ Goto(h, "enqueue", "done")
    /\ job' = [job EXCEPT ![on[h]] = "delayed"]
    /\ UNCHANGED <<owner, status, due, counts, told, locals, wrote>>

(* updateStatus: any status over any other.                                 *)
PatchStatus(h) ==
    \E p \in Pledges, s \in Patches :
        /\ Exists(p)
        /\ Begin(h, "patch", p, "done")
        /\ Write(h, p, s)
        /\ UNCHANGED <<owner, due, job, counts, told, snap>>

-----------------------------------------------------------------------------
(* markCompletedForGuest, called when a payment of the guest was credited.  *)

BeginSettle(h) ==
    \E g \in Guests :
        /\ Begin(h, "settle", g, "list")
        /\ UNCHANGED <<tables, told, snap, wrote>>

ToSettle(g) == {p \in Pledges : owner[p] = g /\ status[p] = "ACTIVE"}

ListPledges(h) ==
    /\ Goto(h, "list", "update")
    /\ snap' = [snap EXCEPT ![h] = {Version(p) : p \in ToSettle(on[h])}]
    /\ UNCHANGED <<tables, told, op, on, wrote>>

\* The updates run concurrently, so one by one in any order.
SettlePledge(h) ==
    /\ pc[h] = "update"
    /\ \E v \in snap[h] :
        /\ Write(h, v[1], "PAID")
        /\ snap' = [snap EXCEPT ![h] = @ \ {v}]
    /\ UNCHANGED <<owner, due, job, counts, told, pc, op, on>>

SettleDone(h) ==
    /\ Goto(h, "update", "done")
    /\ snap[h] = {}
    /\ UNCHANGED <<tables, told, locals, wrote>>

-----------------------------------------------------------------------------
(* sendPledgeReminderJob                                                    *)

\* Attempts are interchangeable: a new one takes a name no attempt has had.
Fresh == CHOOSE h \in Workers : pc[h] = "idle"

TakeJob(h) ==
    \E p \in due :
        /\ job[p] = "delayed"
        /\ Begin(h, "remind", p, "read")
        /\ h = Fresh
        /\ job' = [job EXCEPT ![p] = "active"]
        /\ UNCHANGED <<owner, status, due, counts, told, snap, wrote>>

\* Whoever is not PAID is reminded.
MutRemindable(p) == status[p] # "PAID"

Remindable(p) == status[p] = "ACTIVE"

ReadPledge(h) ==
    LET p == on[h] IN
    /\ pc[h] = "read"
    /\ pc' = [pc EXCEPT ![h] = IF Remindable(p) THEN "send" ELSE "complete"]
    /\ snap' = [snap EXCEPT ![h] = IF Remindable(p) THEN {Version(p)} ELSE @]
    /\ UNCHANGED <<tables, told, op, on, wrote>>

SendReminder(h) ==
    /\ Goto(h, "send", "close")
    /\ told' = told \cup {h}
    /\ UNCHANGED <<tables, locals, wrote>>

\* status: promisedDate < now ? MISSED : the status that was read
AfterReminder == {"MISSED"} \cup (IF ClocksLag THEN {"ACTIVE"} ELSE {})

CloseReminder(h) ==
    LET p == on[h] IN
    /\ Goto(h, "close", "complete")
    /\ \E s \in AfterReminder : Write(h, p, s)
    /\ snap' = [snap EXCEPT ![h] = {}]
    /\ UNCHANGED <<owner, due, job, counts, told, op, on>>

\* The processor returned: the queue removes the job.
CompleteJob(h) ==
    /\ Goto(h, "complete", "done")
    /\ job' = [job EXCEPT ![on[h]] = "done"]
    /\ UNCHANGED <<owner, status, due, counts, told, locals, wrote>>

\* A failed attempt is never given back.
MutLostAttempt(p) == "active"

\* A failed attempt is repeated unless it was the last one.
AfterFailure(p) == IF tries[p] + 1 < Attempts THEN "delayed" ELSE "failed"

\* A job found stalled is given back for ever.
MutAfterStall(p) == "delayed"

AfterStall(p) == IF stalls[p] < Stalls THEN "delayed" ELSE "failed"

Stop(h) == Faults /\ pc[h] \notin {"idle"} \cup Final /\ pc' = [pc EXCEPT ![h] = "failed"]

\* A request that fails or dies: the rest of it does not happen.
AbortRequest(h) ==
    /\ Stop(h)
    /\ UNCHANGED <<tables, told, locals, wrote>>

\* An awaited call of the job throws: the queue counts a failed attempt.
FailAttempt(h) ==
    LET p == on[h] IN
    /\ pc[h] # "complete"
    /\ Stop(h)
    /\ tries' = [tries EXCEPT ![p] = @ + 1]
    /\ job' = [job EXCEPT ![p] = AfterFailure(p)]
    /\ UNCHANGED <<owner, status, due, stalls, told, locals, wrote>>

\* The worker's process dies: another one finds the job stalled.
CrashWorker(h) ==
    LET p == on[h] IN
    /\ Stop(h)
    /\ stalls' = [stalls EXCEPT ![p] = @ + 1]
    /\ job' = [job EXCEPT ![p] = AfterStall(p)]
    /\ UNCHANGED <<owner, status, due, tries, told, locals, wrote>>

DatePasses(p) ==
    /\ Exists(p) /\ p \notin due
    /\ due' = due \cup {p}
    /\ UNCHANGED <<owner, status, job, counts, told, pc, locals, wrote>>

Serve(h) == EnqueueReminder(h) \/ ListPledges(h) \/ SettlePledge(h) \/ SettleDone(h)

Work(h) ==
    TakeJob(h) \/ ReadPledge(h) \/ SendReminder(h) \/ CloseReminder(h) \/ CompleteJob(h)

Next ==
    \/ \E h \in Handlers : CreatePledge(h) \/ PatchStatus(h) \/ BeginSettle(h) \/ Serve(h)
                            \/ AbortRequest(h)
    \/ \E h \in Workers : Work(h) \/ FailAttempt(h) \/ CrashWorker(h)
    \/ \E p \in Pledges : DatePasses(p)

Spec == Init /\ [][Next]_vars

\* A worker process keeps taking jobs and finishing them; time passes.
FairSpec ==
    /\ Spec
    /\ \A h \in Workers : WF_vars(Work(h))
    /\ \A p \in Pledges : WF_vars(DatePasses(p))

-----------------------------------------------------------------------------
(* Properties.                                                              *)

\* Types: pledges, their jobs with no more attempts and dead workers than the queue
\* counts, and the versions of a pledge that a handler may have read.
TypeOK ==
    /\ owner \in [Pledges -> Guests \cup {None}]
    /\ status \in [Pledges -> PledgeStatus]
    /\ due \subseteq Pledges
    /\ job \in [Pledges -> {"none", "delayed", "active", "done", "failed"}]
    /\ tries \in [Pledges -> 0 .. Attempts]
    /\ stalls \in [Pledges -> 0 .. Stalls + 1]
    /\ told \subseteq Workers
    /\ wrote \in [Pledges -> All \cup {None}]
    /\ pc \in [All -> {"idle", "enqueue", "list", "update", "read", "send", "close",
                    "complete"} \cup Final]
    /\ op \in [All -> {"create", "patch", "settle", "remind", None}]
    /\ on \in [All -> Pledges \cup Guests \cup {None}]
    /\ snap \in [All -> SUBSET (Pledges \X (All \cup {None}))]

\* A pledge that was paid or cancelled changes only when the organizer says so or
\* when a handler writes over it that had read an older version of it: no handler
\* that saw it settled touches it.
SettledUndoneOnlyByStaleReads ==
    [][\A p \in Pledges :
         status[p] \in {"PAID", "CANCELLED"} /\ status'[p] # status[p]
         => LET h == wrote'[p] IN op'[h] = "patch" \/ Version(p) \notin snap[h]]_vars

\* A guest is not reminded twice of one pledge unless an attempt that had sent the
\* reminder failed or died, and never more often than the attempts the queue makes
\* and the dead workers it replaces.
RemindersAreBounded ==
    \A p \in Pledges :
        LET sent == {h \in told : on[h] = p} IN
        /\ Cardinality(sent) <= Attempts + Stalls
        /\ Cardinality(sent) <= 1 + Cardinality({h \in sent : pc[h] = "failed"})

Reminded(p) == \E h \in told : on[h] = p

\* An active pledge whose reminder is in the queue does not stay there past its
\* date: the guest is reminded, or the pledge is settled first, or every attempt
\* failed.
DuePledgeIsReminded ==
    \A p \in Pledges :
        (status[p] = "ACTIVE" /\ job[p] = "delayed")
            ~> (Reminded(p) \/ status[p] # "ACTIVE" \/ job[p] = "failed")
=============================================================================
