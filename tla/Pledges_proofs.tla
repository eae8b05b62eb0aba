---------------------------- MODULE Pledges_proofs ----------------------------
(***************************************************************************)
(* Theorems about Pledges, for any sets of requests, attempts, pledges and *)
(* guests, and any numbers of attempts and stalls.  The inductive          *)
(* invariant IInv says what each request and each attempt knows of its     *)
(* pledge, that the queue counts the attempts that ended badly, and that   *)
(* nobody has read a version of a pledge that its writer has yet to write. *)
(***************************************************************************)
EXTENDS Pledges, FiniteSetTheorems, TLAPS

\* Who settles and who creates: a new pledge has no job until its request enqueues it.
RequestInv(h) ==
    /\ pc[h] \in {"idle", "enqueue", "list", "update"} \cup Final
    /\ pc[h] = "enqueue" => on[h] \in Pledges /\ Exists(on[h]) /\ job[on[h]] = "none"

OneCreator ==
    \A h, k \in Handlers : pc[h] = "enqueue" /\ pc[k] = "enqueue" /\ on[h] = on[k] => h = k

\* An attempt has the job that it works on, and has reminded the guest only after it
\* had read the pledge.
AttemptInv(w) ==
    /\ pc[w] \in {"idle", "read", "send", "close", "complete"} \cup Final
    /\ pc[w] # "idle" => on[w] \in Pledges
    /\ pc[w] \notin {"idle"} \cup Final => job[on[w]] = "active"
    /\ pc[w] = "done" => job[on[w]] = "done"
    /\ w \in told => pc[w] \in {"close", "complete"} \cup Final

OneAttempt ==
    \A w, v \in Workers :
        on[w] = on[v] /\ {pc[w], pc[v]} \cap {"idle", "failed"} = {} => w = v

\* The attempts of a pledge's job that threw or died are those that the queue counts.
Spent(p) == {w \in Workers : pc[w] = "failed" /\ on[w] = p}

JobInv(p) ==
    /\ job[p] # "none" => Exists(p)
    /\ IsFiniteSet(Spent(p)) /\ Cardinality(Spent(p)) = tries[p] + stalls[p]
    /\ tries[p] + stalls[p] <= Attempts + Stalls
    /\ job[p] # "failed" => tries[p] < Attempts /\ stalls[p] <= Stalls

\* A handler that may still write a pledge.
MayWrite(h, p) ==
    \/ pc[h] \in {"idle", "list", "read", "send", "close"}
    \/ pc[h] = "update" /\ \E v \in snap[h] : v[1] = p

\* The versions a handler read are of different pledges, and those that are still
\* current are of active ones.
ReadInv(h) ==
    /\ \A u, v \in snap[h] : u[1] = v[1] => u = v
    /\ \A v \in snap[h] : v = Version(v[1]) => status[v[1]] = "ACTIVE"

UnwrittenInv(h) ==
    \A p \in Pledges : MayWrite(h, p) => wrote[p] # h /\ \A k \in All : <<p, h>> \notin snap[k]

IInv ==
    /\ TypeOK
    /\ \A h \in Handlers : RequestInv(h)
    /\ \A w \in Workers : AttemptInv(w)
    /\ OneCreator /\ OneAttempt
    /\ \A p \in Pledges : JobInv(p)
    /\ \A h \in All : ReadInv(h) /\ UnwrittenInv(h)

-----------------------------------------------------------------------------
\* The invariant holds at the start: there are no pledges.
LEMMA InitIInv == Init => IInv
  <1> SUFFICES ASSUME Init PROVE IInv
    OBVIOUS
  <1>1. TypeOK
    BY PledgesAssumption DEF Init, TypeOK, PledgeStatus
  <1>2. \A h \in Handlers : RequestInv(h)
    BY DEF Init, RequestInv, All
  <1>3. \A w \in Workers : AttemptInv(w)
    BY DEF Init, AttemptInv, All
  <1>4. OneCreator /\ OneAttempt
    BY DEF Init, OneCreator, OneAttempt, All
  <1>5. ASSUME NEW p \in Pledges PROVE JobInv(p)
    <2>1. Spent(p) = {}
      BY DEF Init, Spent, All
    <2> QED
      BY <2>1, FS_EmptySet, PledgesAssumption DEF Init, JobInv
  <1>6. \A h \in All : ReadInv(h) /\ UnwrittenInv(h)
    BY PledgesAssumption DEF Init, ReadInv, UnwrittenInv, All
  <1> QED
    BY <1>1, <1>2, <1>3, <1>4, <1>5, <1>6 DEF IInv

-----------------------------------------------------------------------------
(* What the steps do.                                                       *)

\* What a request does.
Asks(h) == CreatePledge(h) \/ PatchStatus(h) \/ BeginSettle(h) \/ Serve(h) \/ AbortRequest(h)

\* What an attempt of a job does.
Tries(w) == Work(w) \/ FailAttempt(w) \/ CrashWorker(w)

\* The pledge or guest of a handler in flight stays the same.
SameOthers(h) ==
    /\ \A k \in All \ {h} : pc'[k] = pc[k] /\ on'[k] = on[k] /\ snap'[k] = snap[k]
    /\ pc[h] # "idle" => on'[h] = on[h]

\* A step of one handler leaves the locals of the others alone.
LEMMA OthersStay ==
    ASSUME TypeOK, NEW h \in All, Asks(h) \/ Tries(h)
    PROVE  SameOthers(h)
  <1>1. CASE CreatePledge(h) \/ PatchStatus(h) \/ BeginSettle(h) \/ TakeJob(h)
    BY <1>1 DEF CreatePledge, PatchStatus, BeginSettle, TakeJob, Begin, Goto, SameOthers, TypeOK
  <1>2. CASE Serve(h)
    BY <1>2 DEF Serve, EnqueueReminder, ListPledges, SettlePledge, SettleDone, Goto, locals,
                SameOthers, TypeOK
  <1>3. CASE AbortRequest(h) \/ FailAttempt(h) \/ CrashWorker(h)
    BY <1>3 DEF AbortRequest, FailAttempt, CrashWorker, Stop, locals, SameOthers, TypeOK
  <1>4. CASE ReadPledge(h) \/ SendReminder(h) \/ CloseReminder(h) \/ CompleteJob(h)
    BY <1>4 DEF ReadPledge, SendReminder, CloseReminder, CompleteJob, Goto, locals, SameOthers, TypeOK
  <1> QED
    BY <1>1, <1>2, <1>3, <1>4 DEF Asks, Tries, Work
\* How a request moves, and what it does to pledges and jobs.
LEMMA RequestSteps ==
    ASSUME TypeOK, NEW h \in Handlers, Asks(h)
    PROVE  /\ UNCHANGED <<due, tries, stalls, told>>
           /\ pc[h] \notin Final
           /\ \/ /\ pc[h] = "idle" /\ pc'[h] = "enqueue" /\ on'[h] \in Pledges
                 /\ ~Exists(on'[h]) /\ \E g \in Guests : owner' = [owner EXCEPT ![on'[h]] = g]
                 /\ UNCHANGED job
              \/ /\ pc[h] = "enqueue" /\ pc'[h] = "done" /\ UNCHANGED owner
                 /\ job' = [job EXCEPT ![on[h]] = "delayed"]
              \/ /\ pc'[h] \in {"list", "update", "done", "failed"}
                 /\ UNCHANGED <<owner, job>>
  <1>1. CASE CreatePledge(h)
    <2>1. PICK p \in Pledges, g \in Guests :
             /\ ~Exists(p) /\ Begin(h, "create", p, "enqueue") /\ owner' = [owner EXCEPT ![p] = g]
             /\ UNCHANGED <<due, job, counts, told>>
      BY <1>1 DEF CreatePledge
    <2>2. pc[h] = "idle" /\ pc'[h] = "enqueue" /\ on'[h] = p
      BY <2>1 DEF Begin, Goto, TypeOK, All
    <2> QED
      BY <2>1, <2>2 DEF counts, Final
  <1>2. CASE EnqueueReminder(h)
    BY <1>2 DEF EnqueueReminder, Goto, TypeOK, All, counts, locals, Final
  <1>3. CASE PatchStatus(h) \/ BeginSettle(h)
    BY <1>3 DEF PatchStatus, BeginSettle, Begin, Goto, TypeOK, All, counts, tables, Write, Final
  <1>4. CASE ListPledges(h) \/ SettlePledge(h) \/ SettleDone(h)
    BY <1>4 DEF ListPledges, SettlePledge, SettleDone, Goto, TypeOK, All, counts, tables, Write, Final
  <1>5. CASE AbortRequest(h)
    BY <1>5 DEF AbortRequest, Stop, TypeOK, All, counts, tables, Final
  <1> QED
    BY <1>1, <1>2, <1>3, <1>4, <1>5 DEF Asks, Serve

\* How an attempt moves with its job: it starts, goes on, completes the job, throws, or dies.
LEMMA AttemptSteps ==
    ASSUME IInv, NEW w \in Workers, Tries(w)
    PROVE  /\ UNCHANGED <<owner, due>>
           /\ \/ /\ pc[w] = "idle" /\ pc'[w] = "read" /\ on'[w] \in Pledges
                 /\ job[on'[w]] = "delayed" /\ job' = [job EXCEPT ![on'[w]] = "active"]
                 /\ UNCHANGED <<told, tries, stalls>>
              \/ /\ on[w] \in Pledges /\ on'[w] = on[w] /\ UNCHANGED <<job, tries, stalls>>
                 /\ \/ pc[w] = "read" /\ pc'[w] \in {"send", "complete"} /\ told' = told
                    \/ pc[w] = "send" /\ pc'[w] = "close" /\ told' = told \cup {w}
                    \/ pc[w] = "close" /\ pc'[w] = "complete" /\ told' = told
              \/ /\ on[w] \in Pledges /\ on'[w] = on[w] /\ pc[w] = "complete" /\ pc'[w] = "done"
                 /\ job' = [job EXCEPT ![on[w]] = "done"] /\ UNCHANGED <<told, tries, stalls>>
              \/ /\ on[w] \in Pledges /\ on'[w] = on[w] /\ pc[w] \notin {"idle"} \cup Final
                 /\ pc'[w] = "failed" /\ told' = told
                 /\ \/ /\ tries' = [tries EXCEPT ![on[w]] = @ + 1] /\ stalls' = stalls
                       /\ job' = [job EXCEPT ![on[w]] = AfterFailure(on[w])]
                    \/ /\ stalls' = [stalls EXCEPT ![on[w]] = @ + 1] /\ tries' = tries
                       /\ job' = [job EXCEPT ![on[w]] = AfterStall(on[w])]
  <1> USE DEF IInv
  <1>1. pc[w] # "idle" => on[w] \in Pledges
    BY DEF AttemptInv
  <1>2. CASE TakeJob(w)
    BY <1>2 DEF TakeJob, Begin, Goto, TypeOK, All, counts
  <1>3. CASE ReadPledge(w) \/ SendReminder(w)
    BY <1>1, <1>3 DEF ReadPledge, SendReminder, Goto, TypeOK, All, counts, tables, locals
  <1>4. CASE CloseReminder(w)
    BY <1>1, <1>4 DEF CloseReminder, Goto, TypeOK, All, counts, Write
  <1>5. CASE CompleteJob(w)
    BY <1>1, <1>5 DEF CompleteJob, Goto, TypeOK, All, counts, locals
  <1>6. CASE FailAttempt(w)
    BY <1>1, <1>6 DEF FailAttempt, Stop, TypeOK, All, locals
  <1>7. CASE CrashWorker(w)
    BY <1>1, <1>7 DEF CrashWorker, Stop, TypeOK, All, locals
  <1> QED
    BY <1>2, <1>3, <1>4, <1>5, <1>6, <1>7 DEF Tries, Work

\* Who writes a pledge: the organizer over anything, a settlement or an attempt over
\* a version that it read.
LEMMA Writers ==
    ASSUME IInv, NEW h \in All, \/ h \in Handlers /\ Asks(h)
                                \/ h \in Workers /\ Tries(h)
    PROVE  \/ UNCHANGED <<status, wrote>>
           \/ \E p \in Pledges, s \in PledgeStatus :
                 /\ Write(h, p, s)
                 /\ \/ pc[h] = "idle" /\ pc'[h] = "done" /\ op'[h] = "patch"
                    \/ /\ pc[h] = "update" /\ pc'[h] = "update"
                       /\ \E v \in snap[h] : v[1] = p /\ snap'[h] = snap[h] \ {v}
                    \/ pc[h] = "close" /\ pc'[h] = "complete" /\ snap'[h] = {} /\ p = on[h]
  <1> USE DEF IInv
  <1>1. CASE PatchStatus(h)
    BY <1>1, PledgesAssumption DEF PatchStatus, Begin, Goto, TypeOK
  <1>2. CASE SettlePledge(h)
    <2>1. PICK v \in snap[h] : Write(h, v[1], "PAID") /\ snap' = [snap EXCEPT ![h] = @ \ {v}]
      BY <1>2 DEF SettlePledge
    <2>2. v[1] \in Pledges /\ "PAID" \in PledgeStatus
      BY DEF TypeOK, PledgeStatus
    <2>3. pc[h] = "update" /\ pc'[h] = "update" /\ snap'[h] = snap[h] \ {v}
      BY <1>2, <2>1 DEF SettlePledge, TypeOK
    <2> QED
      BY <2>1, <2>2, <2>3
  <1>3. CASE h \in Workers /\ CloseReminder(h)
    <2>1. pc[h] = "close" /\ on[h] \in Pledges
      BY <1>3 DEF CloseReminder, Goto, AttemptInv
    <2>2. pc'[h] = "complete" /\ snap'[h] = {}
      BY <1>3 DEF CloseReminder, Goto, TypeOK
    <2>3. \E s \in PledgeStatus : Write(h, on[h], s)
      BY <1>3 DEF CloseReminder, AfterReminder, PledgeStatus
    <2> QED
      BY <2>1, <2>2, <2>3
  <1>4. CASE \/ CreatePledge(h) \/ BeginSettle(h) \/ EnqueueReminder(h) \/ ListPledges(h)
             \/ SettleDone(h) \/ AbortRequest(h) \/ TakeJob(h) \/ ReadPledge(h)
             \/ SendReminder(h) \/ CompleteJob(h) \/ FailAttempt(h) \/ CrashWorker(h)
    BY <1>4 DEF CreatePledge, BeginSettle, EnqueueReminder, ListPledges, SettleDone, AbortRequest,
                TakeJob, ReadPledge, SendReminder, CompleteJob, FailAttempt, CrashWorker, tables
  <1> QED
    BY <1>1, <1>2, <1>3, <1>4 DEF Asks, Serve, Tries, Work
-----------------------------------------------------------------------------
(* The parts of the invariant.                                              *)

\* Every variable keeps its type.
LEMMA TypesStay ==
    ASSUME IInv, NEW h \in All, \/ h \in Handlers /\ Asks(h)
                                \/ h \in Workers /\ Tries(h)
    PROVE  TypeOK'
  <1> USE DEF IInv
  <1>1. CASE h \in Handlers /\ Asks(h)
    <2> USE <1>1
    <2>1. CASE CreatePledge(h)
      BY <2>1 DEF CreatePledge, Begin, Goto, counts, TypeOK
    <2>6. CASE PatchStatus(h)
      BY <2>6, PledgesAssumption DEF PatchStatus, Begin, Goto, Write, counts, TypeOK, Final
    <2>7. CASE BeginSettle(h)
      BY <2>7 DEF BeginSettle, Begin, Goto, tables, counts, TypeOK
    <2>2. CASE EnqueueReminder(h)
      BY <2>2 DEF EnqueueReminder, Goto, counts, locals, TypeOK, Final
    <2>3. CASE ListPledges(h)
      <3>1. {Version(p) : p \in ToSettle(on[h])} \subseteq Pledges \X (All \cup {None})
        BY DEF ToSettle, Version, TypeOK
      <3> QED
        BY <2>3, <3>1 DEF ListPledges, Goto, tables, counts, TypeOK
    <2>4. CASE SettlePledge(h)
      <3>1. PICK v \in snap[h] : Write(h, v[1], "PAID") /\ snap' = [snap EXCEPT ![h] = @ \ {v}]
        BY <2>4 DEF SettlePledge
      <3>2. v[1] \in Pledges /\ "PAID" \in PledgeStatus
        BY DEF TypeOK, PledgeStatus
      <3> QED
        BY <2>4, <3>1, <3>2 DEF SettlePledge, Write, counts, TypeOK
    <2>5. CASE SettleDone(h) \/ AbortRequest(h)
      BY <2>5 DEF SettleDone, AbortRequest, Stop, Goto, tables, counts, locals, TypeOK, Final
    <2> QED
      BY <2>1, <2>2, <2>3, <2>4, <2>5, <2>6, <2>7 DEF Asks, Serve
  <1>2. CASE h \in Workers /\ Tries(h)
    <2> USE <1>2
    <2>1. /\ pc' \in [All -> {"idle", "enqueue", "list", "update", "read", "send", "close",
                              "complete"} \cup Final]
          /\ op' \in [All -> {"create", "patch", "settle", "remind", None}]
          /\ on' \in [All -> Pledges \cup Guests \cup {None}]
          /\ snap' \in [All -> SUBSET (Pledges \X (All \cup {None}))]
      <3>1. CASE TakeJob(h)
        BY <3>1 DEF TakeJob, Begin, Goto, TypeOK
      <3>2. CASE ReadPledge(h)
        <4>1. on[h] \in Pledges
          BY <3>2 DEF ReadPledge, AttemptInv
        <4>2. {Version(on[h])} \subseteq Pledges \X (All \cup {None})
          BY <4>1 DEF Version, TypeOK
        <4> QED
          BY <3>2, <4>2 DEF ReadPledge, TypeOK
      <3>3. CASE SendReminder(h) \/ CloseReminder(h) \/ CompleteJob(h)
        BY <3>3 DEF SendReminder, CloseReminder, CompleteJob, Goto, locals, TypeOK, Final
      <3>4. CASE FailAttempt(h) \/ CrashWorker(h)
        BY <3>4 DEF FailAttempt, CrashWorker, Stop, locals, TypeOK, Final
      <3> QED
        BY <3>1, <3>2, <3>3, <3>4 DEF Tries, Work
    <2>2. told' \subseteq Workers /\ owner' = owner /\ due' = due
      BY AttemptSteps DEF TypeOK
    <2>3. job' \in [Pledges -> {"none", "delayed", "active", "done", "failed"}]
      BY AttemptSteps DEF TypeOK, AfterFailure, AfterStall
    <2>4. status' \in [Pledges -> PledgeStatus] /\ wrote' \in [Pledges -> All \cup {None}]
      BY Writers DEF Write, TypeOK
    <2>5. tries' \in [Pledges -> 0 .. Attempts] /\ stalls' \in [Pledges -> 0 .. Stalls + 1]
      <3>1. \A p \in Pledges : /\ tries[p] \in Nat /\ stalls[p] \in Nat
                               /\ job[p] # "failed" => tries[p] < Attempts /\ stalls[p] <= Stalls
        BY DEF TypeOK, JobInv
      <3>2. pc[h] \notin {"idle"} \cup Final => job[on[h]] = "active"
        BY DEF AttemptInv
      <3> QED
        BY <3>1, <3>2, AttemptSteps, PledgesAssumption DEF TypeOK
    <2> QED
      BY <2>1, <2>2, <2>3, <2>4, <2>5 DEF TypeOK
  <1> QED
    BY <1>1, <1>2
\* Requests and their pledges.
LEMMA RequestsStay ==
    ASSUME IInv, NEW h \in All, \/ h \in Handlers /\ Asks(h)
                                \/ h \in Workers /\ Tries(h)
    PROVE  OneCreator' /\ \A k \in Handlers : RequestInv(k)'
  <1> USE DEF IInv
  <1>0. SameOthers(h)
    BY OthersStay
  <1>1. CASE h \in Workers /\ Tries(h)
    <2>1. /\ owner' = owner
          /\ \A p \in Pledges : job[p] = "none" => job'[p] = job[p]
      BY <1>1, AttemptSteps DEF AttemptInv, TypeOK, Final
    <2>2. \A k \in Handlers : k \in All \ {h}
      BY <1>1, PledgesAssumption DEF All
    <2> QED
      BY <1>0, <2>1, <2>2 DEF SameOthers, OneCreator, RequestInv, Exists
  <1>2. CASE h \in Handlers /\ Asks(h)
    <2>1. \A k \in Handlers \ {h} : pc'[k] = pc[k] /\ on'[k] = on[k]
      BY <1>0 DEF SameOthers, All
    <2>2. pc[h] # "idle" => on'[h] = on[h]
      BY <1>0 DEF SameOthers
    <2>3. CASE /\ pc[h] = "idle" /\ pc'[h] = "enqueue" /\ on'[h] \in Pledges
               /\ ~Exists(on'[h]) /\ \E g \in Guests : owner' = [owner EXCEPT ![on'[h]] = g]
               /\ UNCHANGED job
      <3>1. \A p \in Pledges : Exists(p) => Exists(p)'
        BY <2>3, PledgesAssumption DEF TypeOK, Exists
      <3>2. owner'[on'[h]] # None /\ job[on'[h]] = "none"
        BY <2>3, PledgesAssumption DEF TypeOK, Exists, JobInv
      <3>3. RequestInv(h)'
        BY <2>3, <3>2 DEF RequestInv, Exists
      <3>4. \A k \in Handlers \ {h} : pc[k] = "enqueue" => on[k] # on'[h]
        BY <2>3 DEF RequestInv
      <3> QED
        BY <2>1, <2>3, <3>1, <3>3, <3>4 DEF OneCreator, RequestInv
    <2>4. CASE /\ pc[h] = "enqueue" /\ pc'[h] = "done" /\ UNCHANGED owner
               /\ job' = [job EXCEPT ![on[h]] = "delayed"]
      <3>1. \A k \in Handlers \ {h} : pc[k] = "enqueue" => on[k] \in Pledges /\ on[k] # on[h]
        BY <1>2, <2>4 DEF OneCreator, RequestInv
      <3> QED
        BY <1>2, <2>1, <2>4, <3>1 DEF OneCreator, RequestInv, Exists, TypeOK, Final
    <2>5. CASE pc'[h] \in {"list", "update", "done", "failed"} /\ UNCHANGED <<owner, job>>
      BY <1>2, <2>1, <2>5 DEF OneCreator, RequestInv, Exists, Final
    <2> QED
      BY <1>2, <2>3, <2>4, <2>5, RequestSteps
  <1> QED
    BY <1>1, <1>2

\* Attempts and their jobs.
LEMMA AttemptsStay ==
    ASSUME IInv, NEW h \in All, \/ h \in Handlers /\ Asks(h)
                                \/ h \in Workers /\ Tries(h)
    PROVE  OneAttempt' /\ \A w \in Workers : AttemptInv(w)'
  <1> USE DEF IInv
  <1>0. SameOthers(h)
    BY OthersStay
  <1>1. CASE h \in Handlers /\ Asks(h)
    <2>1. \A w \in Workers : w \in All \ {h}
      BY <1>1, PledgesAssumption DEF All
    <2>2. told' = told /\ \A p \in Pledges : job[p] # "none" => job'[p] = job[p]
      BY <1>1, RequestSteps DEF RequestInv, TypeOK
    <2> QED
      BY <1>0, <2>1, <2>2 DEF SameOthers, OneAttempt, AttemptInv
  <1>2. CASE h \in Workers /\ Tries(h)
    <2>1. \A w \in Workers \ {h} : pc'[w] = pc[w] /\ on'[w] = on[w]
      BY <1>0 DEF SameOthers, All
    <2>2. /\ \A w \in Workers \ {h} : w \in told' => w \in told
          /\ told' # told => pc'[h] = "close"
      BY <1>2, AttemptSteps
    <2>3. \A w \in Workers \ {h} : pc[w] \notin {"idle", "failed"} /\ pc[h] \notin {"idle", "failed"}
                                      => on[w] # on[h]
      BY <1>2 DEF OneAttempt
    <2>4. CASE /\ pc[h] = "idle" /\ pc'[h] = "read" /\ on'[h] \in Pledges
               /\ job[on'[h]] = "delayed" /\ job' = [job EXCEPT ![on'[h]] = "active"]
      <3>1. \A w \in Workers \ {h} : pc[w] \notin {"idle", "failed"} => on[w] # on'[h]
        BY <2>4 DEF AttemptInv, Final
      <3>2. AttemptInv(h)'
        BY <1>2, <2>2, <2>4 DEF AttemptInv, TypeOK, Final
      <3>3. \A w \in Workers \ {h} : AttemptInv(w)'
        BY <2>1, <2>2, <2>4, <3>1 DEF AttemptInv, TypeOK, Final
      <3>4. ASSUME NEW w \in Workers \ {h}, pc'[w] \notin {"idle", "failed"} PROVE on'[w] # on'[h]
        <4>1. pc'[w] = pc[w] /\ on'[w] = on[w]
          BY <2>1
        <4> QED
          BY <3>1, <3>4, <4>1
      <3>5. OneAttempt'
        BY <2>1, <3>4 DEF OneAttempt
      <3> QED
        BY <3>2, <3>3, <3>5
    <2>5. CASE /\ on'[h] = on[h] /\ on[h] \in Pledges /\ pc[h] \notin {"idle"} \cup Final
               /\ pc'[h] \in {"send", "close", "complete", "done", "failed"}
               /\ \A p \in Pledges : p # on[h] => job'[p] = job[p]
               /\ pc'[h] # "failed" => job'[on[h]] = IF pc'[h] = "done" THEN "done" ELSE job[on[h]]
      <3>1. AttemptInv(h)'
        <4>1. h \in told' => pc'[h] \in {"close", "complete"} \cup Final
          BY <1>2, <2>5, AttemptSteps DEF AttemptInv, Final
        <4> QED
          BY <1>2, <2>5, <4>1 DEF AttemptInv, Final
      <3>2. \A w \in Workers \ {h} : AttemptInv(w)'
        BY <2>1, <2>2, <2>3, <2>5 DEF AttemptInv, Final
      <3>3. OneAttempt'
        BY <2>1, <2>3, <2>5 DEF OneAttempt, Final
      <3> QED
        BY <3>1, <3>2, <3>3
    <2> QED
      BY <1>2, <2>4, <2>5, AttemptSteps DEF TypeOK, Final
  <1> QED
    BY <1>1, <1>2
\* The queue counts every attempt that ends badly, and gives no more than its limits.
LEMMA JobsStay ==
    ASSUME IInv, NEW h \in All, \/ h \in Handlers /\ Asks(h)
                                \/ h \in Workers /\ Tries(h),
           NEW p \in Pledges
    PROVE  JobInv(p)'
  <1> USE DEF IInv
  <1>0. SameOthers(h)
    BY OthersStay
  <1>1. /\ tries[p] \in Nat /\ stalls[p] \in Nat
        /\ IsFiniteSet(Spent(p)) /\ Cardinality(Spent(p)) = tries[p] + stalls[p]
        /\ tries[p] + stalls[p] <= Attempts + Stalls
        /\ job[p] # "failed" => tries[p] < Attempts /\ stalls[p] <= Stalls
        /\ job[p] # "none" => Exists(p)
    BY DEF TypeOK, JobInv
  <1>2. CASE h \in Handlers /\ Asks(h)
    <2>1. \A w \in Workers : pc'[w] = pc[w] /\ on'[w] = on[w]
      BY <1>0, <1>2, PledgesAssumption DEF SameOthers, All
    <2>2. Spent(p)' = Spent(p)
      BY <2>1 DEF Spent
    <2>3. Exists(p) => Exists(p)'
      BY <1>2, RequestSteps, PledgesAssumption DEF Exists, TypeOK
    <2>4. tries' = tries /\ stalls' = stalls
      BY <1>2, RequestSteps
    <2>5. job'[p] = job[p] \/ (job[p] = "none" /\ job'[p] = "delayed" /\ Exists(p))
      BY <1>2, RequestSteps DEF RequestInv, TypeOK
    <2> QED
      BY <1>1, <2>2, <2>3, <2>4, <2>5 DEF JobInv
  <1>3. CASE h \in Workers /\ Tries(h)
    <2>1. \A w \in Workers \ {h} : pc'[w] = pc[w] /\ on'[w] = on[w]
      BY <1>0 DEF SameOthers, All
    <2>2. Exists(p)' <=> Exists(p)
      BY <1>3, AttemptSteps DEF Exists
    <2>3. CASE /\ pc'[h] # "failed" /\ pc[h] # "failed" /\ UNCHANGED <<tries, stalls>>
               /\ job'[p] = job[p] \/ (job[p] \in {"delayed", "active"} /\ job'[p] # "failed")
      <3>1. Spent(p)' = Spent(p)
        BY <2>1, <2>3 DEF Spent
      <3> QED
        BY <1>1, <2>2, <2>3, <3>1 DEF JobInv
    <2>4. CASE /\ on[h] \in Pledges /\ on'[h] = on[h] /\ pc[h] \notin {"idle"} \cup Final
               /\ pc'[h] = "failed"
      <3>1. job[on[h]] = "active"
        BY <1>3, <2>4 DEF AttemptInv
      <3>2. CASE on[h] = p
        <4>1. Spent(p)' = Spent(p) \cup {h} /\ h \notin Spent(p)
          BY <1>3, <2>1, <2>4, <3>2 DEF Spent, Final
        <4>2. IsFiniteSet(Spent(p)') /\ Cardinality(Spent(p)') = tries[p] + stalls[p] + 1
          BY <1>1, <4>1, FS_AddElement
        <4>3. \/ tries'[p] = tries[p] + 1 /\ stalls' = stalls /\ job'[p] = AfterFailure(p)
              \/ stalls'[p] = stalls[p] + 1 /\ tries' = tries /\ job'[p] = AfterStall(p)
          BY <1>3, <2>4, <3>2, AttemptSteps DEF TypeOK, Final
        <4>4. tries'[p] \in Nat /\ stalls'[p] \in Nat /\ tries'[p] + stalls'[p] = tries[p] + stalls[p] + 1
          BY <1>1, <4>3
        <4>5. tries[p] < Attempts /\ stalls[p] <= Stalls /\ Exists(p)
          BY <1>1, <3>1, <3>2
        <4>6. job'[p] # "failed" => tries'[p] < Attempts /\ stalls'[p] <= Stalls
          BY <1>1, <4>3, <4>5, PledgesAssumption DEF AfterFailure, AfterStall
        <4>7. tries'[p] + stalls'[p] <= Attempts + Stalls
          BY <1>1, <4>4, <4>5, PledgesAssumption
        <4> QED
          BY <2>2, <4>2, <4>4, <4>5, <4>6, <4>7 DEF JobInv
      <3>3. CASE on[h] # p
        <4>1. Spent(p)' = Spent(p)
          BY <1>3, <2>1, <2>4, <3>3 DEF Spent
        <4>2. tries'[p] = tries[p] /\ stalls'[p] = stalls[p] /\ job'[p] = job[p]
          BY <1>3, <2>4, <3>3, AttemptSteps DEF TypeOK, Final
        <4> QED
          BY <1>1, <2>2, <4>1, <4>2 DEF JobInv
      <3> QED
        BY <3>2, <3>3
    <2>5. pc[h] \notin {"idle"} \cup Final => job[on[h]] = "active"
      BY <1>3 DEF AttemptInv
    <2> QED
      BY <1>3, <2>3, <2>4, <2>5, AttemptSteps DEF TypeOK, Final
  <1> QED
    BY <1>2, <1>3
\* What a handler reads it reads from the table, as it is then.
LEMMA Readers ==
    ASSUME IInv, NEW h \in All, \/ h \in Handlers /\ Asks(h)
                                \/ h \in Workers /\ Tries(h)
    PROVE  \/ /\ snap'[h] \subseteq snap[h]
              /\ \A p \in Pledges : MayWrite(h, p)' => MayWrite(h, p)
           \/ /\ UNCHANGED <<status, wrote>> /\ pc[h] \in {"list", "read"}
              /\ \E S \in SUBSET {p \in Pledges : status[p] = "ACTIVE"} :
                     snap'[h] = {Version(p) : p \in S}
  <1> USE DEF IInv
  <1>1. CASE CreatePledge(h) \/ PatchStatus(h) \/ BeginSettle(h) \/ TakeJob(h)
    BY <1>1 DEF CreatePledge, PatchStatus, BeginSettle, TakeJob, Begin, Goto, MayWrite
  <1>2. CASE EnqueueReminder(h) \/ SettleDone(h) \/ SendReminder(h) \/ CompleteJob(h)
    BY <1>2 DEF EnqueueReminder, SettleDone, SendReminder, CompleteJob, Goto, locals, TypeOK, MayWrite
  <1>3. CASE AbortRequest(h) \/ FailAttempt(h) \/ CrashWorker(h)
    BY <1>3 DEF AbortRequest, FailAttempt, CrashWorker, Stop, locals, TypeOK, MayWrite
  <1>4. CASE SettlePledge(h)
    BY <1>4 DEF SettlePledge, TypeOK, MayWrite
  <1>5. CASE CloseReminder(h)
    BY <1>5 DEF CloseReminder, Goto, TypeOK, MayWrite
  <1>6. CASE ListPledges(h)
    <2>1. ToSettle(on[h]) \in SUBSET {p \in Pledges : status[p] = "ACTIVE"}
      BY DEF ToSettle
    <2>2. snap'[h] = {Version(p) : p \in ToSettle(on[h])}
      BY <1>6 DEF ListPledges, TypeOK
    <2>3. UNCHANGED <<status, wrote>> /\ pc[h] = "list"
      BY <1>6 DEF ListPledges, Goto, tables
    <2> QED
      BY <2>1, <2>2, <2>3
  <1>7. CASE h \in Workers /\ ReadPledge(h)
    <2>1. on[h] \in Pledges /\ pc[h] = "read" /\ UNCHANGED <<status, wrote>>
      BY <1>7 DEF ReadPledge, AttemptInv, tables
    <2>2. CASE Remindable(on[h])
      <3>1. snap'[h] = {Version(p) : p \in {on[h]}}
        BY <1>7, <2>2 DEF ReadPledge, TypeOK
      <3>2. {on[h]} \in SUBSET {p \in Pledges : status[p] = "ACTIVE"}
        BY <2>1, <2>2 DEF Remindable
      <3> QED
        BY <2>1, <3>1, <3>2
    <2>3. CASE ~Remindable(on[h])
      BY <1>7, <2>3 DEF ReadPledge, TypeOK, MayWrite
    <2> QED
      BY <2>2, <2>3
  <1> QED
    BY <1>1, <1>2, <1>3, <1>4, <1>5, <1>6, <1>7 DEF Asks, Serve, Tries, Work

\* A writer writes a pledge for the last time.
LEMMA WritesOnce ==
    ASSUME IInv, NEW h \in All, \/ h \in Handlers /\ Asks(h)
                                \/ h \in Workers /\ Tries(h)
    PROVE  \/ UNCHANGED <<status, wrote>>
           \/ \E p \in Pledges, s \in PledgeStatus :
                  Write(h, p, s) /\ MayWrite(h, p) /\ ~MayWrite(h, p)'
  <1>1. CASE UNCHANGED <<status, wrote>>
    BY <1>1
  <1>2. ASSUME NEW p \in Pledges, NEW s \in PledgeStatus, Write(h, p, s),
               \/ pc[h] = "idle" /\ pc'[h] = "done" /\ op'[h] = "patch"
               \/ /\ pc[h] = "update" /\ pc'[h] = "update"
                  /\ \E v \in snap[h] : v[1] = p /\ snap'[h] = snap[h] \ {v}
               \/ pc[h] = "close" /\ pc'[h] = "complete" /\ snap'[h] = {} /\ p = on[h]
        PROVE  MayWrite(h, p) /\ ~MayWrite(h, p)'
    <2>1. CASE pc[h] = "update" /\ pc'[h] = "update"
      <3>1. PICK v \in snap[h] : v[1] = p /\ snap'[h] = snap[h] \ {v}
        BY <1>2, <2>1
      <3>2. \A u \in snap[h] : u[1] = p => u = v
        BY <3>1 DEF IInv, ReadInv
      <3> QED
        BY <2>1, <3>1, <3>2 DEF MayWrite
    <2>2. CASE pc'[h] \in {"done", "complete"} /\ pc[h] \in {"idle", "close"}
      BY <2>2 DEF MayWrite
    <2> QED
      BY <1>2, <2>1, <2>2
  <1> QED
    BY <1>1, <1>2, Writers

\* What was read stays behind what is written.
LEMMA VersionsStay ==
    ASSUME IInv, NEW h \in All, \/ h \in Handlers /\ Asks(h)
                                \/ h \in Workers /\ Tries(h),
           NEW k \in All
    PROVE  ReadInv(k)' /\ UnwrittenInv(k)'
  <1> USE DEF IInv
  <1>0. SameOthers(h)
    BY OthersStay
  <1>1. \A x \in All : snap[x] \subseteq Pledges \X (All \cup {None})
    BY DEF TypeOK
  <1>2. CASE /\ snap'[h] \subseteq snap[h]
             /\ \A p \in Pledges : MayWrite(h, p)' => MayWrite(h, p)
    <2>1. /\ \A x \in All : snap'[x] \subseteq snap[x]
          /\ \A p \in Pledges : MayWrite(k, p)' => MayWrite(k, p)
      BY <1>0, <1>2 DEF SameOthers, MayWrite
    <2>2. CASE UNCHANGED <<status, wrote>>
      <3>1. ReadInv(k)'
        BY <2>1, <2>2 DEF ReadInv, Version
      <3>2. UnwrittenInv(k)'
        BY <2>1, <2>2 DEF UnwrittenInv
      <3> QED
        BY <3>1, <3>2
    <2>3. ASSUME NEW p \in Pledges, NEW s \in PledgeStatus,
                 Write(h, p, s), MayWrite(h, p), ~MayWrite(h, p)'
          PROVE  ReadInv(k)' /\ UnwrittenInv(k)'
      <3>1. wrote' = [wrote EXCEPT ![p] = h] /\ status' = [status EXCEPT ![p] = s]
        BY <2>3 DEF Write
      <3>2. wrote[p] # h /\ \A x \in All : <<p, h>> \notin snap[x]
        BY <2>3 DEF UnwrittenInv
      <3>3. ASSUME NEW v \in snap'[k], v = Version(v[1])' PROVE status'[v[1]] = "ACTIVE"
        <4>1. v \in snap[k] /\ v[1] \in Pledges /\ v = <<v[1], wrote'[v[1]]>>
          BY <1>1, <2>1, <3>3 DEF Version
        <4>2. v[1] # p
          BY <3>1, <3>2, <4>1 DEF TypeOK
        <4>3. v = Version(v[1])
          BY <3>1, <4>1, <4>2 DEF TypeOK, Version
        <4> QED
          BY <3>1, <4>1, <4>2, <4>3 DEF ReadInv, TypeOK
      <3>4. ReadInv(k)'
        BY <2>1, <3>3 DEF ReadInv
      <3>5. ASSUME NEW q \in Pledges, MayWrite(k, q)'
            PROVE  wrote'[q] # k /\ \A x \in All : <<q, k>> \notin snap'[x]
        <4>1. wrote[q] # k /\ \A x \in All : <<q, k>> \notin snap[x]
          BY <2>1, <3>5 DEF UnwrittenInv
        <4>2. ~(q = p /\ k = h)
          BY <2>3, <3>5
        <4> QED
          BY <2>1, <3>1, <4>1, <4>2 DEF TypeOK
      <3>6. UnwrittenInv(k)'
        BY <3>5 DEF UnwrittenInv
      <3> QED
        BY <3>4, <3>6
    <2> QED
      BY <2>2, <2>3, WritesOnce
  <1>3. CASE /\ UNCHANGED <<status, wrote>> /\ pc[h] \in {"list", "read"}
             /\ \E S \in SUBSET {p \in Pledges : status[p] = "ACTIVE"} :
                    snap'[h] = {Version(p) : p \in S}
    <2>1. PICK S \in SUBSET {p \in Pledges : status[p] = "ACTIVE"} : snap'[h] = {Version(p) : p \in S}
      BY <1>3
    <2>2. \A x \in All \ {h} : snap'[x] = snap[x] /\ pc'[x] = pc[x]
      BY <1>0 DEF SameOthers
    <2>3. \A v \in snap'[h] : v[1] \in S /\ v = <<v[1], wrote[v[1]]>>
      BY <2>1 DEF Version
    <2>4. ReadInv(k)'
      <3>1. CASE k = h
        BY <1>3, <2>3, <3>1 DEF ReadInv
      <3>2. CASE k # h
        BY <1>3, <2>2, <3>2 DEF ReadInv, Version
      <3> QED
        BY <3>1, <3>2
    <2>5. ASSUME NEW q \in Pledges, MayWrite(k, q)'
          PROVE  wrote'[q] # k /\ \A x \in All : <<q, k>> \notin snap'[x]
      <3>1. MayWrite(k, q)
        BY <1>3, <2>2, <2>5 DEF MayWrite
      <3>2. wrote[q] # k /\ \A x \in All : <<q, k>> \notin snap[x]
        BY <3>1 DEF UnwrittenInv
      <3> QED
        BY <1>3, <2>2, <2>3, <3>2
    <2> QED
      BY <2>4, <2>5 DEF UnwrittenInv
  <1> QED
    BY <1>2, <1>3, Readers

\* The invariant speaks of neither due dates nor kinds of request.
LEMMA NothingChanges ==
    ASSUME IInv, TypeOK', UNCHANGED <<owner, status, job, tries, stalls, told, pc, on, snap, wrote>>
    PROVE  IInv'
  <1>1. \A h \in Handlers : RequestInv(h)'
    BY DEF IInv, RequestInv, Exists
  <1>2. \A w \in Workers : AttemptInv(w)'
    BY DEF IInv, AttemptInv
  <1>3. OneCreator' /\ OneAttempt'
    BY DEF IInv, OneCreator, OneAttempt
  <1>4. \A p \in Pledges : JobInv(p)'
    BY DEF IInv, JobInv, Exists, Spent
  <1>5. \A h \in All : ReadInv(h)'
    BY DEF IInv, ReadInv, Version
  <1>6. \A h \in All : UnwrittenInv(h)'
    BY DEF IInv, UnwrittenInv, MayWrite
  <1> QED
    BY <1>1, <1>2, <1>3, <1>4, <1>5, <1>6 DEF IInv

\* Every step preserves the invariant.
LEMMA NextIInv == IInv /\ [Next]_vars => IInv'
  <1> SUFFICES ASSUME IInv, [Next]_vars PROVE IInv'
    OBVIOUS
  <1>1. ASSUME NEW h \in All, \/ h \in Handlers /\ Asks(h)
                              \/ h \in Workers /\ Tries(h)
        PROVE  IInv'
    BY <1>1, TypesStay, RequestsStay, AttemptsStay, JobsStay, VersionsStay DEF IInv
  <1>2. CASE \E p \in Pledges : DatePasses(p)
    <2>1. TypeOK' /\ UNCHANGED <<owner, status, job, tries, stalls, told, pc, on, snap, wrote>>
      BY <1>2 DEF DatePasses, counts, locals, IInv, TypeOK
    <2> QED
      BY <2>1, NothingChanges
  <1>3. CASE UNCHANGED vars
    <2>1. TypeOK' /\ UNCHANGED <<owner, status, job, tries, stalls, told, pc, on, snap, wrote>>
      BY <1>3 DEF vars, tables, counts, locals, IInv, TypeOK
    <2> QED
      BY <2>1, NothingChanges
  <1> QED
    BY <1>1, <1>2, <1>3 DEF Next, Asks, Tries, All

\* The invariant holds throughout every behaviour.
THEOREM Invariance == Spec => []IInv
  BY InitIInv, NextIInv, PTL DEF Spec

\* Pledges, jobs and the versions that were read are of their types, and no job has
\* more attempts and dead workers than the queue counts.
THEOREM TypeCorrect == Spec => []TypeOK
  <1>1. IInv => TypeOK
    BY DEF IInv
  <1> QED
    BY <1>1, Invariance, PTL

\* sendPledgeReminderJob reminds a guest of a pledge once, and again only when an
\* attempt that had sent the reminder threw or died; never more often than the queue
\* makes attempts and replaces dead workers.
THEOREM RemindersStayBounded == Spec => []RemindersAreBounded
  <1>1. ASSUME IInv, NEW p \in Pledges
        PROVE  LET sent == {h \in told : on[h] = p} IN
               /\ Cardinality(sent) <= Attempts + Stalls
               /\ Cardinality(sent) <= 1 + Cardinality({h \in sent : pc[h] = "failed"})
    <2> DEFINE sent == {h \in told : on[h] = p}
               failed == {h \in sent : pc[h] = "failed"}
               ended == Spent(p)
    <2>1. /\ IsFiniteSet(ended) /\ Cardinality(ended) = tries[p] + stalls[p]
          /\ tries[p] + stalls[p] <= Attempts + Stalls
          /\ job[p] # "failed" => tries[p] < Attempts /\ stalls[p] <= Stalls
          /\ tries[p] \in Nat /\ stalls[p] \in Nat
      BY <1>1 DEF IInv, JobInv, TypeOK
    <2>2. sent \subseteq Workers /\ failed \subseteq ended
      BY <1>1 DEF IInv, TypeOK, Spent
    <2>3. \A h \in sent \ failed : job[p] \in {"active", "done"}
      BY <1>1, <2>2 DEF IInv, AttemptInv, Final
    <2>4. \A h, k \in sent \ failed : h = k
      BY <1>1, <2>2 DEF IInv, OneAttempt, AttemptInv, Final
    <2>5. IsFiniteSet(failed) /\ Cardinality(failed) <= Cardinality(ended)
      BY <2>1, <2>2, FS_Subset
    <2>6. CASE sent = failed
      <3>1. Cardinality(failed) \in Nat
        BY <2>5, FS_CardinalityType
      <3>2. {h \in sent : pc[h] = "failed"} = sent
        BY <2>6
      <3> HIDE DEF sent, failed, ended
      <3>3. Cardinality(sent) <= Attempts + Stalls /\ Cardinality(sent) <= 1 + Cardinality(failed)
        BY <2>1, <2>5, <2>6, <3>1, PledgesAssumption
      <3> QED
        BY <3>3 DEF sent, failed
    <2>7. CASE sent # failed
      <3>1. PICK h \in sent : h \notin failed
        BY <2>7
      <3>2. sent = failed \cup {h}
        BY <2>4, <3>1
      <3>3. job[p] \in {"active", "done"}
        BY <2>3, <3>1
      <3> HIDE DEF sent, failed, ended
      <3>4. Cardinality(sent) = Cardinality(failed) + 1 /\ Cardinality(failed) \in Nat
        BY <2>5, <3>1, <3>2, FS_AddElement, FS_CardinalityType
      <3>5. Cardinality(sent) <= Attempts + Stalls
        BY <2>1, <2>5, <3>3, <3>4, PledgesAssumption
      <3>6. Cardinality(sent) <= 1 + Cardinality(failed)
        BY <3>4
      <3> QED
        BY <3>5, <3>6 DEF sent, failed
    <2> QED
      BY <2>6, <2>7
  <1>2. IInv => RemindersAreBounded
    BY <1>1 DEF RemindersAreBounded
  <1> QED
    BY <1>2, Invariance, PTL

\* A pledge that is paid or cancelled is undone only by the organizer or by a
\* settlement or a reminder that had read an older version of it.
THEOREM SettledPledgesStand == Spec => SettledUndoneOnlyByStaleReads
  <1> DEFINE Undone(p) ==
          status[p] \in {"PAID", "CANCELLED"} /\ status'[p] # status[p]
          => LET h == wrote'[p] IN op'[h] = "patch" \/ Version(p) \notin snap[h]
  <1>1. ASSUME IInv, [Next]_vars PROVE \A p \in Pledges : Undone(p)
    <2>1. CASE UNCHANGED status
      BY <2>1
    <2>2. ASSUME NEW h \in All, \/ h \in Handlers /\ Asks(h)
                                \/ h \in Workers /\ Tries(h),
                 NEW p \in Pledges, status[p] \in {"PAID", "CANCELLED"}, status'[p] # status[p]
          PROVE  op'[wrote'[p]] = "patch" \/ Version(p) \notin snap[wrote'[p]]
      <3>1. wrote'[p] = h
        BY <1>1, <2>2, Writers DEF Write, IInv, TypeOK
      <3>2. Version(p)[1] = p
        BY DEF Version
      <3>3. Version(p) \notin snap[h]
        BY <1>1, <2>2, <3>2 DEF IInv, ReadInv
      <3> QED
        BY <3>1, <3>3
    <2>3. CASE \E p \in Pledges : DatePasses(p)
      BY <2>1, <2>3 DEF DatePasses
    <2> QED
      BY <1>1, <2>1, <2>2, <2>3 DEF Next, Asks, Tries, All, vars, tables
  <1>2. IInv /\ [Next]_vars => [\A p \in Pledges : Undone(p)]_vars
    BY <1>1
  <1> QED
    BY <1>2, Invariance, PTL DEF Spec, SettledUndoneOnlyByStaleReads
=============================================================================
