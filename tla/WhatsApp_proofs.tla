---------------------------- MODULE WhatsApp_proofs ----------------------------
(***************************************************************************)
(* Theorems about WhatsAppDelivery, for any number of requests, attempts,  *)
(* guests and campaigns.  Every safety invariant follows from one          *)
(* inductive invariant, IInv: what each handler, each worker, each row and *)
(* each message that the gateway accepted know of the others.              *)
(***************************************************************************)
EXTENDS WhatsAppDelivery, FiniteSetTheorems, TLAPS

\* What a handler knows of its rows and their jobs.
HandlerInv(h) ==
    /\ pc[h] \in HandlerPlace
    /\ pc[h] = "idle" => on[h] = None /\ campaign[h] = "none" /\ \A g \in Guests : rows[<<h, g>>] = None
    /\ pc[h] \in {"insert", "enqueue"} => on[h] \in {"single", "bulk"}
    /\ pc[h] = "close" => on[h] = "bulk"
    /\ pc[h] \in {"template", "record", "fallback"} => on[h] \in {"invite", "invites"}
    /\ pc[h] = "insert" => \A g \in Guests : job[<<h, g>>] = "none"
    /\ pc[h] = "enqueue" => \A g \in todo[h] : rows[<<h, g>>] # None /\ job[<<h, g>>] = "none"
    /\ pc[h] \in {"insert", "template", "record", "fallback"} =>
          \A g \in todo[h] : rows[<<h, g>>] = None
    /\ pc[h] \in {"record", "fallback"} => \E g \in Guests \ todo[h] : cur[h] = <<h, g>>
    /\ pc[h] = "record" => /\ rows[cur[h]] = None
                           /\ got[h] # None => got[h] = <<cur[h], h>> /\ got[h] \in accepted
    /\ pc[h] = "fallback" => /\ rows[cur[h]] # None /\ rows[cur[h]].status # "QUEUED"
                             /\ job[cur[h]] = "none"
    /\ \A g \in Guests : rows[<<h, g>>] = None => job[<<h, g>>] = "none"

\* How far a bulk send has come.
BulkInv(h) ==
    /\ on[h] = "bulk" /\ pc[h] = "insert" =>
          \A g \in Guests : g \in todo[h] \/ rows[<<h, g>>] # None
    /\ on[h] = "bulk" /\ pc[h] = "enqueue" =>
          \A g \in Guests : rows[<<h, g>>] # None /\ (g \in todo[h] \/ job[<<h, g>>] # "none")
    /\ pc[h] = "close" \/ campaign[h] = "sent" =>
          \A g \in Guests : rows[<<h, g>>] # None /\ job[<<h, g>>] # "none"

Busy(w) == pc[w] \notin {"idle"} \cup Final

\* A worker with the row it is at.
WorkerInv(w) ==
    /\ pc[w] \in WorkerPlace
    /\ pc[w] = "idle" => on[w] = None
    /\ pc[w] # "idle" => on[w] \in Jobs
    /\ on[w] \in SendJobs => cur[w] = on[w] /\ rows[on[w]] # None /\ job[on[w]] # "none" /\ pc[w] # "next"
    /\ Busy(w) => job[on[w]] = "active"
    /\ pc[w] = "done" => job[on[w]] = "done"
    /\ pc[w] \in {"read", "send", "sent", "refused"} => cur[w] # None
    /\ pc[w] \in {"send", "sent", "refused"} => rows[cur[w]] = Queued
    /\ pc[w] = "sent" => got[w] = <<cur[w], w>> /\ got[w] \in accepted

\* How far an attempt of a campaign has come.
AttemptInv(w) ==
    /\ on[w] \notin Scheduled => \A g \in Guests : rows[<<w, g>>] = None
    /\ on[w] \in Scheduled =>
          /\ \A g \in todo[w] : rows[<<w, g>>] = None
          /\ cur[w] # None => rows[cur[w]] # None /\ \E g \in Guests \ todo[w] : cur[w] = <<w, g>>
          /\ pc[w] = "read" => rows[cur[w]] = Queued
          /\ pc[w] \in {"next", "read", "send", "sent"} =>
                \A g \in Guests \ todo[w] :
                    Copies(<<w, g>>) # {} \/ (cur[w] = <<w, g>> /\ pc[w] \in {"read", "send"})

\* A copy whose worker died before it could record it.
Dropped(e) ==
    /\ e[2] \in Workers /\ pc[e[2]] = "dead"
    /\ rows[e[1]].ext # e

\* Who sent an accepted message, and why its row is still QUEUED if it is.
CopyInv(e) ==
    /\ e[2] \in Handlers => /\ e[1][1] = e[2] /\ on[e[2]] \in {"invite", "invites"}
                            /\ pc[e[2]] # "idle"
    /\ e[2] \in Workers => /\ rows[e[1]] # None
                           /\ on[e[2]] = e[1] \/ (on[e[2]] \in Scheduled /\ e[1][1] = e[2])
    /\ rows[e[1]] # None /\ rows[e[1]].status = "QUEUED" =>
          \/ Dropped(e)
          \/ e[2] \in Workers /\ pc[e[2]] \in {"sent", "refused"} /\ cur[e[2]] = e[1]
          \/ e[2] \in Handlers /\ job[e[1]] = "none"

RowInv(m) ==
    rows[m] # None =>
        /\ rows[m].ext # None => rows[m].ext \in Copies(m)
        /\ rows[m].ext # None /\ rows[m].status = "QUEUED" =>
              rows[m].ext[2] \in Handlers /\ job[m] = "none"
        /\ rows[m].status \in {"DELIVERED", "READ"} => <<rows[m].ext, rows[m].status>> \in fate

CopiesInv(m) == \A e, f \in Copies(m) : e # f => Dropped(e) \/ Dropped(f)

\* One attempt of a job at a time.
OneAttempt ==
    \A w, v \in Workers :
        on[w] = on[v] /\ {pc[w], pc[v]} \cap {"idle", "failed", "dead"} = {} => w = v

\* The attempts of a job that are left.
JobInv(j) ==
    job[j] \in {"none", "waiting", "active"} => tries[j] < Limit(j) /\ stalls[j] <= Stalls

Ended(j, how) == {w \in Workers : on[w] = j /\ pc[w] = how}

\* The queue counts the attempts of a campaign that failed and those that died.
CampaignInv(c) ==
    /\ IsFiniteSet(Ended(c, "failed")) /\ Cardinality(Ended(c, "failed")) = tries[c]
    /\ IsFiniteSet(Ended(c, "dead")) /\ Cardinality(Ended(c, "dead")) = stalls[c]
    /\ tries[c] + stalls[c] <= CampaignAttempts + Stalls
    /\ job[c] \in {"active", "done"} => tries[c] + stalls[c] < CampaignAttempts + Stalls
    /\ campaign[c] = "sent" =>
          \A g \in Guests : \E w \in Workers : on[w] = c /\ Copies(<<w, g>>) # {}

IInv ==
    /\ TypeOK
    /\ \A h \in Handlers : HandlerInv(h) /\ BulkInv(h)
    /\ \A w \in Workers : WorkerInv(w) /\ AttemptInv(w)
    /\ \A e \in accepted : CopyInv(e)
    /\ \A m \in Rows : RowInv(m) /\ CopiesInv(m)
    /\ OneAttempt
    /\ \A j \in Jobs : JobInv(j)
    /\ \A c \in Scheduled : CampaignInv(c)

-----------------------------------------------------------------------------
(* What the names of rows, messages and jobs are made of.                   *)

\* A message names its row and its sender, a row its maker and its guest.
LEMMA Shapes ==
    /\ \A e \in Messages : e[1] \in Rows /\ e[2] \in All /\ e = <<e[1], e[2]>>
    /\ \A m \in Rows : m[1] \in All /\ m[2] \in Guests /\ m = <<m[1], m[2]>>
    /\ SendJobs \subseteq Rows /\ Rows \cap Scheduled = {}
    /\ \A m \in Rows : m \in SendJobs <=> m[1] \in Handlers
    /\ \A x \in All, g \in Guests : <<x, g>> \in Rows
    /\ \A h \in Handlers, g \in Guests : <<h, g>> \in SendJobs /\ <<h, g>> \in Jobs
    /\ \A w \in Workers : w \notin Handlers
    /\ \A c \in Scheduled : c \notin Handlers
    /\ None \notin Row /\ None \notin Messages /\ None \notin Rows /\ None \notin Jobs
  BY WhatsAppAssumption, NoneIsNoRow DEF Messages, Rows, SendJobs, Jobs, All

\* What TypeOK says of one row and of one actor.
LEMMA Types ==
    ASSUME TypeOK
    PROVE  /\ \A m \in Rows : rows[m] # None =>
                 /\ rows[m] \in Row
                 /\ rows[m].status \in MessageStatus /\ rows[m].ext \in Messages \cup {None}
           /\ \A x \in All : on[x] \in Kind \cup Jobs \cup {None} /\ cur[x] \in Rows \cup {None}
                             /\ got[x] \in Messages \cup {None} /\ todo[x] \subseteq Guests
           /\ accepted \subseteq Messages
  <1>1. \A m \in Rows : rows[m] # None => rows[m] \in Row
    BY DEF TypeOK
  <1>2. \A m \in Rows : rows[m] # None =>
            rows[m].status \in MessageStatus /\ rows[m].ext \in Messages \cup {None}
    BY <1>1 DEF Row
  <1> QED
    BY <1>1, <1>2 DEF TypeOK

\* A row that is queued is no row that was never made.
LEMMA QueuedRow == Queued \in Row /\ Queued # None /\ Queued.status = "QUEUED" /\ Queued.ext = None
  <1>1. Queued \in Row /\ Queued.status = "QUEUED" /\ Queued.ext = None
    BY DEF Queued, Row, MessageStatus
  <1> QED
    BY <1>1, NoneIsNoRow

\* The invariant holds at the start: nothing is queued, nothing was sent.
LEMMA InitIInv == Init => IInv
  <1> SUFFICES ASSUME Init PROVE IInv
    OBVIOUS
  <1>1. TypeOK
    BY WhatsAppAssumption DEF Init, TypeOK, Limit, HandlerPlace, WorkerPlace, Final, Campaigns
  <1>2. \A h \in Handlers : HandlerInv(h) /\ BulkInv(h)
    BY Shapes DEF Init, HandlerInv, BulkInv, HandlerPlace, All, Campaigns
  <1>3. \A w \in Workers : WorkerInv(w) /\ AttemptInv(w)
    BY Shapes, WhatsAppAssumption DEF Init, WorkerInv, AttemptInv, WorkerPlace, Busy, Final, All, Jobs
  <1>4. \A m \in Rows : RowInv(m) /\ CopiesInv(m)
    BY DEF Init, RowInv, CopiesInv, Copies
  <1>5. OneAttempt
    BY DEF Init, OneAttempt, All
  <1>6. \A j \in Jobs : JobInv(j)
    BY WhatsAppAssumption DEF Init, JobInv, Limit
  <1>7. \A c \in Scheduled : CampaignInv(c)
    <2>1. \A c, how : c \in Scheduled => Ended(c, how) = {}
      BY WhatsAppAssumption DEF Init, Ended, All
    <2>2. \A c \in Scheduled : tries[c] = 0 /\ stalls[c] = 0 /\ job[c] = "none" /\ campaign[c] = "none"
      BY DEF Init, Jobs, Campaigns
    <2>3. IsFiniteSet({}) /\ Cardinality({}) = 0
      BY FS_EmptySet
    <2>4. CampaignAttempts \in Nat \ {0} /\ Stalls \in Nat
      BY WhatsAppAssumption
    <2> SUFFICES ASSUME NEW c \in Scheduled PROVE CampaignInv(c)
      OBVIOUS
    <2>5. Ended(c, "failed") = {} /\ Ended(c, "dead") = {}
      BY <2>1
    <2> QED
      BY <2>2, <2>3, <2>4, <2>5 DEF CampaignInv
  <1> QED
    BY <1>1, <1>2, <1>3, <1>4, <1>5, <1>6, <1>7 DEF Init, IInv

-----------------------------------------------------------------------------
(* Framing: the actors and rows that a step leaves alone.                   *)

SameActor(x) ==
    /\ pc'[x] = pc[x] /\ on'[x] = on[x] /\ cur'[x] = cur[x]
    /\ got'[x] = got[x] /\ todo'[x] = todo[x]

\* Rows and messages stay, and what is no longer queued is not queued again.
RowsStay ==
    /\ accepted \subseteq accepted' /\ fate \subseteq fate'
    /\ \A m \in Rows : rows[m] # None =>
          /\ rows'[m] # None
          /\ rows'[m].status = "QUEUED" => rows[m].status = "QUEUED"

\* Nobody makes a row of this actor, or the first job of one.
NoNewRows(x) == \A g \in Guests : rows[<<x, g>>] = None => rows'[<<x, g>>] = None
NoNewJobs(h) == \A g \in Guests : job'[<<h, g>>] = "none" <=> job[<<h, g>>] = "none"

\* A handler that does not move, and whose rows and jobs nobody makes, is as before.
LEMMA FrameHandler ==
    ASSUME IInv, RowsStay, NEW h \in Handlers, SameActor(h), campaign'[h] = campaign[h],
           NoNewRows(h), NoNewJobs(h)
    PROVE  HandlerInv(h)' /\ BulkInv(h)'
  <1>1. HandlerInv(h) /\ BulkInv(h)
    BY DEF IInv
  <1>2. todo[h] \subseteq Guests
    BY Types, Shapes DEF IInv, All
  <1>3. \A g \in Guests : /\ rows'[<<h, g>>] = None <=> rows[<<h, g>>] = None
                          /\ job'[<<h, g>>] = "none" <=> job[<<h, g>>] = "none"
    BY Shapes DEF RowsStay, All, NoNewRows, NoNewJobs
  <1>4. BulkInv(h)'
    BY <1>1, <1>2, <1>3 DEF BulkInv, SameActor
  <1>5. /\ pc[h] \in HandlerPlace
        /\ pc[h] = "idle" => on[h] = None /\ campaign[h] = "none" /\ \A g \in Guests : rows[<<h, g>>] = None
        /\ pc[h] \in {"insert", "enqueue"} => on[h] \in {"single", "bulk"}
        /\ pc[h] = "close" => on[h] = "bulk"
        /\ pc[h] \in {"template", "record", "fallback"} => on[h] \in {"invite", "invites"}
    BY <1>1 DEF HandlerInv
  <1>6. /\ pc[h] = "insert" => \A g \in Guests : job'[<<h, g>>] = "none"
        /\ pc[h] = "enqueue" => \A g \in todo[h] : rows'[<<h, g>>] # None /\ job'[<<h, g>>] = "none"
        /\ pc[h] \in {"insert", "template", "record", "fallback"} =>
              \A g \in todo[h] : rows'[<<h, g>>] = None
        /\ \A g \in Guests : rows'[<<h, g>>] = None => job'[<<h, g>>] = "none"
    BY <1>1, <1>2, <1>3 DEF HandlerInv
  <1>7. CASE pc[h] \in {"record", "fallback"}
    <2>1. PICK g \in Guests \ todo[h] : cur[h] = <<h, g>>
      BY <1>1, <1>7 DEF HandlerInv
    <2>2. /\ pc[h] = "record" => /\ rows'[cur[h]] = None
                                 /\ got[h] # None => got[h] = <<cur[h], h>> /\ got[h] \in accepted'
          /\ pc[h] = "fallback" => /\ rows'[cur[h]] # None /\ rows'[cur[h]].status # "QUEUED"
                                   /\ job'[cur[h]] = "none"
      BY <1>1, <1>3, <2>1, Shapes DEF HandlerInv, RowsStay, All
    <2>3. \E k \in Guests \ todo'[h] : cur'[h] = <<h, k>>
      BY <2>1 DEF SameActor
    <2>4. pc'[h] \in {"record", "fallback"} /\ pc'[h] = pc[h]
      BY <1>7 DEF SameActor
    <2>5. /\ pc'[h] = "record" => /\ rows'[cur'[h]] = None
                                  /\ got'[h] # None => got'[h] = <<cur'[h], h>> /\ got'[h] \in accepted'
          /\ pc'[h] = "fallback" => /\ rows'[cur'[h]] # None /\ rows'[cur'[h]].status # "QUEUED"
                                    /\ job'[cur'[h]] = "none"
      BY <2>2 DEF SameActor
    <2>6. on'[h] \in {"invite", "invites"} /\ pc'[h] \in HandlerPlace
      BY <1>5, <1>7 DEF SameActor
    <2>7. \A k \in todo'[h] : rows'[<<h, k>>] = None
      BY <1>6, <1>7 DEF SameActor
    <2> QED
      BY <1>4, <1>6, <2>3, <2>4, <2>5, <2>6, <2>7 DEF HandlerInv
  <1>8. CASE pc[h] \notin {"record", "fallback"}
    <2>1. pc'[h] = pc[h] /\ on'[h] = on[h] /\ todo'[h] = todo[h]
      BY DEF SameActor
    <2>2. pc[h] = "idle" => \A g \in Guests : rows'[<<h, g>>] = None
      BY <1>3, <1>5
    <2> QED
      BY <1>4, <1>5, <1>6, <1>8, <2>1, <2>2 DEF HandlerInv
  <1> QED
    BY <1>7, <1>8

\* A worker that does not move keeps its row and, as long as it is busy, its job.
LEMMA FrameWorker ==
    ASSUME IInv, RowsStay, NEW w \in Workers, SameActor(w), NoNewRows(w),
           pc[w] \in {"read", "send", "sent", "refused"} /\ rows[cur[w]] = Queued
               => rows'[cur[w]] = Queued,
           on[w] \in Jobs => \/ job'[on[w]] = job[on[w]]
                             \/ pc[w] \in {"failed", "dead"} /\ job'[on[w]] # "none"
    PROVE  WorkerInv(w)' /\ AttemptInv(w)'
  <1>1. WorkerInv(w) /\ AttemptInv(w)
    BY DEF IInv
  <1>2. /\ todo[w] \subseteq Guests
        /\ cur[w] # None => cur[w] \in Rows
        /\ on[w] \in SendJobs => on[w] \in Rows /\ on[w] \in Jobs
    BY Types, Shapes DEF IInv, All, Jobs
  <1>3. WorkerInv(w)'
    <2>1. /\ pc[w] \in WorkerPlace
          /\ pc[w] = "idle" => on[w] = None
          /\ pc[w] # "idle" => on[w] \in Jobs
          /\ pc[w] \in {"read", "send", "sent", "refused"} => cur[w] # None
      BY <1>1 DEF WorkerInv
    <2>2. on[w] \in SendJobs => cur[w] = on[w] /\ rows'[on[w]] # None /\ job'[on[w]] # "none" /\ pc[w] # "next"
      BY <1>1, <1>2 DEF WorkerInv, RowsStay
    <2>3. Busy(w) => job'[on[w]] = "active"
      BY <1>1, <2>1 DEF WorkerInv, Busy, Final
    <2>4. pc[w] = "done" => job'[on[w]] = "done"
      BY <1>1, <2>1 DEF WorkerInv
    <2>5. pc[w] \in {"send", "sent", "refused"} => rows'[cur[w]] = Queued
      BY <1>1 DEF WorkerInv
    <2>6. pc[w] = "sent" => got[w] = <<cur[w], w>> /\ got[w] \in accepted'
      BY <1>1 DEF WorkerInv, RowsStay
    <2> QED
      BY <2>1, <2>2, <2>3, <2>4, <2>5, <2>6 DEF WorkerInv, SameActor, Busy
  <1>4. AttemptInv(w)'
    <2>1. \A g \in Guests : Copies(<<w, g>>) \subseteq Copies(<<w, g>>)'
      BY DEF Copies, RowsStay
    <2>2. on[w] \notin Scheduled => \A g \in Guests : rows'[<<w, g>>] = None
      BY <1>1 DEF AttemptInv, NoNewRows
    <2>3. ASSUME on[w] \in Scheduled
          PROVE  /\ \A g \in todo[w] : rows'[<<w, g>>] = None
                 /\ cur[w] # None => rows'[cur[w]] # None /\ \E g \in Guests \ todo[w] : cur[w] = <<w, g>>
                 /\ pc[w] = "read" => rows'[cur[w]] = Queued
      BY <1>1, <1>2, <2>3 DEF AttemptInv, NoNewRows, RowsStay
    <2>4. ASSUME on[w] \in Scheduled, pc[w] \in {"next", "read", "send", "sent"}, NEW g \in Guests \ todo[w]
          PROVE  Copies(<<w, g>>)' # {} \/ (cur[w] = <<w, g>> /\ pc[w] \in {"read", "send"})
      BY <1>1, <2>1, <2>4 DEF AttemptInv
    <2> QED
      BY <2>2, <2>3, <2>4 DEF AttemptInv, SameActor
  <1> QED
    BY <1>3, <1>4

\* A message whose sender does not move: its row was written by somebody else.
LEMMA FrameCopy ==
    ASSUME IInv, RowsStay, NEW e \in accepted, SameActor(e[2]), NoNewRows(e[2]),
           e[2] \in Handlers => NoNewJobs(e[2]),
           rows[e[1]] # None => rows'[e[1]].ext = rows[e[1]].ext \/ rows'[e[1]].ext # e
    PROVE  CopyInv(e)' /\ (Dropped(e) => Dropped(e)')
  <1>1. CopyInv(e) /\ e \in Messages /\ e[1] \in Rows /\ e[2] \in All
    BY Types, Shapes DEF IInv
  <1>2. PICK m \in Rows, x \in All : m = e[1] /\ x = e[2]
    BY <1>1
  <1>3. rows[m] = None => rows'[m] = None
    <2>1. rows[m] = None => x \in Handlers /\ m[1] = x
      BY <1>1, <1>2 DEF CopyInv, All
    <2> QED
      BY <1>2, <2>1, Shapes DEF NoNewRows
  <1>4. x \in Handlers => m[1] = x /\ (job[m] = "none" => job'[m] = "none")
    BY <1>1, <1>2, Shapes DEF CopyInv, NoNewJobs
  <1>5. Dropped(e) /\ rows[m] # None => Dropped(e)'
    BY <1>2 DEF Dropped, SameActor
  <1>6. CopyInv(e)'
    <2>1. /\ x \in Handlers => m[1] = x /\ on'[x] \in {"invite", "invites"} /\ pc'[x] # "idle"
          /\ x \in Workers => /\ rows'[m] # None
                              /\ on'[x] = m \/ (on'[x] \in Scheduled /\ m[1] = x)
      BY <1>1, <1>2 DEF CopyInv, SameActor, RowsStay
    <2>2. rows'[m] # None /\ rows'[m].status = "QUEUED" =>
            \/ Dropped(e)'
            \/ x \in Workers /\ pc'[x] \in {"sent", "refused"} /\ cur'[x] = m
            \/ x \in Handlers /\ job'[m] = "none"
      BY <1>1, <1>2, <1>3, <1>4, <1>5 DEF CopyInv, SameActor, RowsStay
    <2> QED
      BY <1>2, <2>1, <2>2 DEF CopyInv
  <1>7. Dropped(e) => Dropped(e)'
    BY <1>1, <1>2, <1>5 DEF Dropped, CopyInv
  <1> QED
    BY <1>6, <1>7

\* A row that nobody writes.
LEMMA FrameRow ==
    ASSUME IInv, RowsStay, NEW m \in Rows, rows'[m] = rows[m],
           m \in SendJobs => (job[m] = "none" => job'[m] = "none")
    PROVE  RowInv(m)'
  <1>1. RowInv(m) /\ Copies(m) \subseteq Copies(m)'
    BY DEF IInv, Copies, RowsStay
  <1>2. ASSUME rows[m] # None, rows[m].ext # None, rows[m].status = "QUEUED"
        PROVE  m \in SendJobs
    <2>1. PICK e \in accepted : e = rows[m].ext /\ e[1] = m /\ e[2] \in Handlers
      BY <1>1, <1>2 DEF RowInv, Copies
    <2>2. m[1] \in Handlers
      BY <2>1 DEF IInv, CopyInv
    <2> QED
      BY <2>2, Shapes
  <1> QED
    BY <1>1, <1>2 DEF RowInv, RowsStay

\* No two messages of a row, if the step adds none and drops stay drops.
LEMMA FrameCopies ==
    ASSUME IInv, NEW m \in Rows, Copies(m)' = Copies(m),
           \A e \in Copies(m) : Dropped(e) => Dropped(e)'
    PROVE  CopiesInv(m)'
  <1>1. CopiesInv(m)
    BY DEF IInv
  <1> QED
    BY <1>1 DEF CopiesInv

\* The attempts of a campaign that no attempt of it leaves or ends.
LEMMA FrameCampaign ==
    ASSUME IInv, NEW c \in Scheduled, accepted \subseteq accepted',
           \A w \in Workers : on[w] = c \/ on'[w] = c => SameActor(w),
           job'[c] \in {"active", "done"} => job[c] \in {"active", "done"},
           tries'[c] = tries[c], stalls'[c] = stalls[c],
           campaign'[c] = "sent" => campaign[c] = "sent"
    PROVE  CampaignInv(c)'
  <1>1. CampaignInv(c)
    BY DEF IInv
  <1>2. \A how : Ended(c, how)' = Ended(c, how)
    BY DEF Ended, SameActor
  <1>3. campaign'[c] = "sent" => \A g \in Guests : \E w \in Workers : on'[w] = c /\ Copies(<<w, g>>)' # {}
    BY SMTT(30), <1>1 DEF CampaignInv, Copies, SameActor
  <1> QED
    BY <1>1, <1>2, <1>3 DEF CampaignInv

\* A step of a handler makes rows and jobs of its own, and writes no other row.
HandlerMoves(h) ==
    /\ \A x \in All \ {h} : SameActor(x)
    /\ \A m \in Rows : rows'[m] = rows[m] \/ (rows[m] = None /\ m[1] = h)
    /\ \A j \in Jobs : \/ job'[j] = job[j]
                       \/ job[j] = "none" /\ job'[j] = "waiting" /\ j \in SendJobs /\ j[1] = h
    /\ \A c \in Campaigns \ {h} : campaign'[c] = campaign[c]
    /\ UNCHANGED <<tries, stalls, fate>>
    /\ accepted \subseteq accepted' /\ \A e \in accepted' \ accepted : e[2] = h /\ e[1][1] = h

\* Nobody else makes rows or jobs of theirs.
LEMMA OthersStay ==
    ASSUME NEW h \in Handlers, HandlerMoves(h), NEW x \in All \ {h}
    PROVE  SameActor(x) /\ NoNewRows(x) /\ (x \in Handlers => NoNewJobs(x))
  <1>1. \A g \in Guests : <<x, g>> \in Rows /\ <<x, g>>[1] = x
    BY DEF Rows
  <1>2. NoNewRows(x)
    BY <1>1 DEF HandlerMoves, NoNewRows
  <1>3. x \in Handlers => NoNewJobs(x)
    BY <1>1, Shapes DEF HandlerMoves, NoNewJobs
  <1> QED
    BY <1>2, <1>3 DEF HandlerMoves

\* Putting the parts of a step of handler h together: what is to be shown is its own
\* invariant, that of the messages it sent, and that of the rows it wrote.
LEMMA HandlerStep ==
    ASSUME IInv, TypeOK', NEW h \in Handlers, HandlerMoves(h), HandlerInv(h)', BulkInv(h)',
           \A e \in accepted' : e[2] = h => CopyInv(e)',
           \A m \in Rows : m[1] = h /\ (rows'[m] # rows[m] \/ job'[m] # job[m]) => RowInv(m)',
           \A e \in accepted' \ accepted : CopiesInv(e[1])'
    PROVE  IInv'
  <1>1. RowsStay
    BY DEF HandlerMoves, RowsStay
  <1>2. \A x \in All \ {h} : SameActor(x) /\ NoNewRows(x) /\ (x \in Handlers => NoNewJobs(x))
    BY OthersStay
  <1>3. \A k \in Handlers \ {h} : HandlerInv(k)' /\ BulkInv(k)'
    BY <1>1, <1>2, FrameHandler, Shapes DEF HandlerMoves, All, Campaigns
  <1>4. \A w \in Workers : WorkerInv(w)' /\ AttemptInv(w)'
    <2> SUFFICES ASSUME NEW w \in Workers PROVE WorkerInv(w)' /\ AttemptInv(w)'
      OBVIOUS
    <2>1. w \in All \ {h}
      BY Shapes DEF All
    <2>2. WorkerInv(w) /\ (cur[w] # None => cur[w] \in Rows)
      BY <2>1, Types DEF IInv
    <2>3. pc[w] \in {"read", "send", "sent", "refused"} /\ rows[cur[w]] = Queued => rows'[cur[w]] = Queued
      BY <2>2, QueuedRow DEF WorkerInv, HandlerMoves
    <2>4. on[w] \in Jobs => job'[on[w]] = job[on[w]]
      <3>1. on[w] \in SendJobs => job[on[w]] # "none"
        BY <2>2 DEF WorkerInv
      <3> QED
        BY <3>1 DEF HandlerMoves
    <2> QED
      BY <1>1, <1>2, <2>1, <2>3, <2>4, FrameWorker
  <1>5. \A e \in accepted : e[2] # h => CopyInv(e)' /\ (Dropped(e) => Dropped(e)')
    <2> SUFFICES ASSUME NEW e \in accepted, e[2] # h PROVE CopyInv(e)' /\ (Dropped(e) => Dropped(e)')
      OBVIOUS
    <2>1. CopyInv(e) /\ e[1] \in Rows /\ e[2] \in All
      BY Types, Shapes DEF IInv
    <2>2. rows[e[1]] # None => rows'[e[1]] = rows[e[1]]
      BY <2>1 DEF HandlerMoves
    <2> QED
      BY <1>1, <1>2, <2>1, <2>2, FrameCopy
  <1>6. \A e \in accepted' : CopyInv(e)'
    BY <1>5 DEF HandlerMoves
  <1>7. \A e \in accepted : Dropped(e) => Dropped(e)'
    BY <1>5, Shapes DEF Dropped
  <1>8. \A m \in Rows : RowInv(m)'
    <2> SUFFICES ASSUME NEW m \in Rows, rows'[m] = rows[m] /\ (job'[m] = job[m] \/ m[1] # h) PROVE RowInv(m)'
      BY DEF HandlerMoves
    <2>1. m \in SendJobs => (job[m] = "none" => job'[m] = "none")
      BY DEF HandlerMoves, Jobs
    <2> QED
      BY <1>1, <2>1, FrameRow
  <1>9. \A m \in Rows : CopiesInv(m)'
    <2> SUFFICES ASSUME NEW m \in Rows, \A e \in accepted' \ accepted : e[1] # m PROVE CopiesInv(m)'
      OBVIOUS
    <2>1. Copies(m)' = Copies(m)
      BY DEF Copies, HandlerMoves
    <2>2. \A e \in Copies(m) : Dropped(e) => Dropped(e)'
      BY <1>7 DEF Copies
    <2> QED
      BY <2>1, <2>2, FrameCopies
  <1>10. OneAttempt'
    <2>1. \A w \in Workers : SameActor(w)
      BY <1>2, Shapes DEF All
    <2> QED
      BY <2>1 DEF IInv, OneAttempt, SameActor
  <1>11. \A j \in Jobs : JobInv(j)'
    BY DEF IInv, JobInv, HandlerMoves
  <1>12. \A c \in Scheduled : CampaignInv(c)'
    <2> SUFFICES ASSUME NEW c \in Scheduled PROVE CampaignInv(c)'
      OBVIOUS
    <2>1. \A w \in Workers : SameActor(w)
      BY <1>2, Shapes DEF All
    <2>2. c \in Jobs /\ c \notin SendJobs /\ c \in Campaigns \ {h}
      BY Shapes DEF Jobs, Campaigns
    <2>3. job'[c] = job[c] /\ campaign'[c] = campaign[c]
      BY <2>2 DEF HandlerMoves
    <2> QED
      BY <2>1, <2>3, FrameCampaign DEF HandlerMoves
  <1> QED
    BY <1>3, <1>4, <1>6, <1>8, <1>9, <1>10, <1>11, <1>12 DEF IInv

-----------------------------------------------------------------------------
(* The steps of the requests.                                               *)

\* A request that begins, with the guests it is for.
LEMMA StartPreserves ==
    ASSUME IInv, NEW h \in Handlers, NEW kind \in Kind, NEW guests \in SUBSET Guests, NEW first,
           Start(h, kind, guests, first),
           \/ kind \in {"single", "bulk"} /\ first = "insert"
           \/ kind \in {"invite", "invites"} /\ first = "template",
           \/ kind = "bulk" /\ guests = Guests /\ campaign' = [campaign EXCEPT ![h] = "sending"]
           \/ kind # "bulk" /\ campaign' = campaign
    PROVE  IInv'
  <1>1. /\ TypeOK /\ HandlerInv(h)
        /\ pc[h] = "idle" /\ pc' = [pc EXCEPT ![h] = first]
        /\ on' = [on EXCEPT ![h] = kind] /\ todo' = [todo EXCEPT ![h] = guests]
        /\ UNCHANGED <<rows, job, tries, stalls, accepted, fate, cur, got>>
    BY DEF IInv, Start, Goto, counts, outside
  <1>2. h \in All /\ h \in Campaigns
    BY DEF All, Campaigns
  <1>3. TypeOK'
    <2>1. pc' \in [All -> HandlerPlace \cup WorkerPlace] /\ on' \in [All -> Kind \cup Jobs \cup {None}]
          /\ todo' \in [All -> SUBSET Guests]
      BY <1>1, <1>2 DEF TypeOK, HandlerPlace
    <2>2. campaign' \in [Campaigns -> {"none", "scheduled", "sending", "sent"}]
      BY <1>1, <1>2 DEF TypeOK
    <2> QED
      BY <1>1, <2>1, <2>2 DEF TypeOK
  <1>4. /\ pc'[h] = first /\ on'[h] = kind /\ todo'[h] = guests
        /\ campaign[h] = "none" /\ campaign'[h] # "sent"
        /\ \A g \in Guests : rows[<<h, g>>] = None /\ job[<<h, g>>] = "none"
    BY <1>1, <1>2 DEF HandlerInv, TypeOK
  <1>5. HandlerMoves(h)
    <2>1. \A x \in All \ {h} : SameActor(x)
      BY <1>1 DEF SameActor, TypeOK
    <2>2. \A c \in Campaigns \ {h} : campaign'[c] = campaign[c]
      BY <1>1 DEF TypeOK
    <2> QED
      BY <1>1, <2>1, <2>2 DEF HandlerMoves
  <1>6. HandlerInv(h)' /\ BulkInv(h)'
    BY <1>1, <1>4 DEF HandlerInv, BulkInv, HandlerPlace
  <1>7. \A e \in accepted : e[2] # h
    BY <1>1 DEF IInv, CopyInv
  <1> QED
    BY <1>1, <1>3, <1>5, <1>6, <1>7, HandlerStep

\* A request of each kind begins.
LEMMA RequestPreserves ==
    ASSUME IInv, NEW h \in Handlers,
           SendSingle(h) \/ SendBulk(h) \/ SendInvitation(h) \/ SendBulkInvitations(h)
    PROVE  IInv'
  <1>1. {"single", "bulk", "invite", "invites"} \subseteq Kind
    BY DEF Kind
  <1>2. {Someone} \in SUBSET Guests
    BY WhatsAppAssumption DEF Someone
  <1>3. CASE SendSingle(h)
    BY <1>1, <1>2, <1>3, StartPreserves DEF SendSingle
  <1>4. CASE SendBulk(h)
    BY <1>1, <1>4, StartPreserves DEF SendBulk
  <1>5. CASE SendInvitation(h)
    BY <1>1, <1>2, <1>5, StartPreserves DEF SendInvitation
  <1>6. CASE SendBulkInvitations(h)
    BY <1>1, <1>6, StartPreserves DEF SendBulkInvitations
  <1> QED
    BY <1>3, <1>4, <1>5, <1>6

\* A row is made for one of the guests: queued, and with no job yet.
LEMMA InsertRowPreserves ==
    ASSUME IInv, NEW h \in Handlers, InsertRow(h)
    PROVE  IInv'
  <1>1. PICK g \in todo[h] :
            /\ Goto(h, "insert", IF todo[h] = {g} THEN "enqueue" ELSE "insert")
            /\ rows' = [rows EXCEPT ![<<h, g>>] = Queued]
            /\ todo' = [todo EXCEPT ![h] = IF @ = {g} THEN Served(h) \cup {g} ELSE @ \ {g}]
    BY DEF InsertRow
  <1>2. /\ TypeOK /\ HandlerInv(h) /\ BulkInv(h)
        /\ pc[h] = "insert" /\ pc' = [pc EXCEPT ![h] = IF todo[h] = {g} THEN "enqueue" ELSE "insert"]
        /\ UNCHANGED <<campaign, job, tries, stalls, accepted, fate, on, cur, got>>
    BY <1>1 DEF IInv, InsertRow, Goto, counts, outside
  <1>3. h \in All /\ todo[h] \subseteq Guests /\ g \in Guests /\ <<h, g>> \in Rows
    BY <1>2, Types, Shapes DEF All
  <1>4. TypeOK'
    <2>1. pc' \in [All -> HandlerPlace \cup WorkerPlace]
      BY <1>2, <1>3 DEF TypeOK, HandlerPlace
    <2>2. rows' \in [Rows -> Row \cup {None}]
      BY <1>1, <1>2, <1>3, QueuedRow DEF TypeOK
    <2>3. todo' \in [All -> SUBSET Guests]
      BY <1>1, <1>2, <1>3 DEF TypeOK, Served
    <2> QED
      BY <1>2, <2>1, <2>2, <2>3 DEF TypeOK
  <1>5. /\ pc'[h] = IF todo[h] = {g} THEN "enqueue" ELSE "insert"
        /\ todo'[h] = IF todo[h] = {g} THEN Served(h) \cup {g} ELSE todo[h] \ {g}
        /\ rows'[<<h, g>>] = Queued
        /\ \A m \in Rows : m # <<h, g>> => rows'[m] = rows[m]
    BY <1>1, <1>2, <1>3 DEF TypeOK
  <1>6. /\ on[h] \in {"single", "bulk"}
        /\ \A k \in todo[h] : rows[<<h, k>>] = None
        /\ \A k \in Guests : job[<<h, k>>] = "none"
    BY <1>2 DEF HandlerInv
  <1>7. HandlerMoves(h)
    <2>1. \A x \in All \ {h} : SameActor(x)
      BY <1>1, <1>2 DEF SameActor, TypeOK
    <2> QED
      BY <1>2, <1>3, <1>5, <1>6, <2>1 DEF HandlerMoves
  <1>8. \A k \in Guests : rows'[<<h, k>>] = IF k = g THEN Queued ELSE rows[<<h, k>>]
    <2>1. \A k \in Guests : <<h, k>> \in Rows /\ (<<h, k>> = <<h, g>> => k = g)
      BY <1>3, Shapes
    <2> QED
      BY <1>5, <2>1
  <1>9. HandlerInv(h)'
    BY <1>2, <1>3, <1>5, <1>6, <1>8, QueuedRow DEF HandlerInv, HandlerPlace, Served
  <1>10. BulkInv(h)'
    BY <1>2, <1>3, <1>5, <1>6, <1>8, QueuedRow DEF BulkInv, Served
  <1>11. \A e \in accepted : e[2] # h
    BY <1>6 DEF IInv, CopyInv
  <1>12. \A m \in Rows : m[1] = h /\ (rows'[m] # rows[m] \/ job'[m] # job[m]) => RowInv(m)'
    BY <1>2, <1>5, QueuedRow DEF RowInv
  <1> QED
    BY <1>2, <1>4, <1>7, <1>9, <1>10, <1>11, <1>12, HandlerStep

\* The job of one of the rows is queued.
LEMMA EnqueueSendPreserves ==
    ASSUME IInv, NEW h \in Handlers, EnqueueSend(h)
    PROVE  IInv'
  <1>1. PICK g \in todo[h] :
            /\ Goto(h, "enqueue", IF todo[h] # {g} THEN "enqueue"
                                  ELSE IF on[h] = "bulk" THEN "close" ELSE "done")
            /\ job' = [job EXCEPT ![<<h, g>>] = "waiting"]
            /\ todo' = [todo EXCEPT ![h] = @ \ {g}]
    BY DEF EnqueueSend
  <1>2. /\ TypeOK /\ HandlerInv(h) /\ BulkInv(h) /\ pc[h] = "enqueue"
        /\ pc' = [pc EXCEPT ![h] = IF todo[h] # {g} THEN "enqueue"
                                   ELSE IF on[h] = "bulk" THEN "close" ELSE "done"]
        /\ UNCHANGED <<rows, campaign, tries, stalls, accepted, fate, on, cur, got>>
    BY <1>1 DEF IInv, EnqueueSend, Goto, counts, outside
  <1>3. h \in All /\ todo[h] \subseteq Guests /\ g \in Guests /\ <<h, g>> \in Rows /\ <<h, g>> \in Jobs
        /\ <<h, g>> \in SendJobs
    BY <1>2, Types, Shapes DEF All
  <1>4. TypeOK'
    <2>1. pc' \in [All -> HandlerPlace \cup WorkerPlace]
      BY <1>2, <1>3 DEF TypeOK, HandlerPlace
    <2>2. job' \in [Jobs -> {"none", "waiting", "active", "done", "failed"}]
      BY <1>1, <1>2, <1>3 DEF TypeOK
    <2>3. todo' \in [All -> SUBSET Guests]
      BY <1>1, <1>2, <1>3 DEF TypeOK
    <2> QED
      BY <1>2, <2>1, <2>2, <2>3 DEF TypeOK
  <1>5. /\ pc'[h] = IF todo[h] # {g} THEN "enqueue"
                    ELSE IF on[h] = "bulk" THEN "close" ELSE "done"
        /\ todo'[h] = todo[h] \ {g}
        /\ \A j \in Jobs : job'[j] = IF j = <<h, g>> THEN "waiting" ELSE job[j]
    BY <1>1, <1>2, <1>3 DEF TypeOK
  <1>6. /\ on[h] \in {"single", "bulk"}
        /\ \A k \in todo[h] : rows[<<h, k>>] # None /\ job[<<h, k>>] = "none"
    BY <1>2 DEF HandlerInv
  <1>7. HandlerMoves(h)
    <2>1. \A x \in All \ {h} : SameActor(x)
      BY <1>1, <1>2 DEF SameActor, TypeOK
    <2>2. \A j \in Jobs : \/ job'[j] = job[j]
                          \/ job[j] = "none" /\ job'[j] = "waiting" /\ j \in SendJobs /\ j[1] = h
      BY <1>3, <1>5, <1>6
    <2> QED
      BY <1>2, <2>1, <2>2 DEF HandlerMoves
  <1>8. \A k \in Guests : job'[<<h, k>>] = IF k = g THEN "waiting" ELSE job[<<h, k>>]
    <2>1. \A k \in Guests : <<h, k>> \in Jobs /\ (<<h, k>> = <<h, g>> => k = g)
      BY <1>3, Shapes
    <2> QED
      BY <1>5, <2>1
  <1>9. HandlerInv(h)'
    BY <1>2, <1>3, <1>5, <1>6, <1>8 DEF HandlerInv, HandlerPlace
  <1>10. BulkInv(h)'
    BY <1>2, <1>3, <1>5, <1>6, <1>8 DEF BulkInv
  <1>11. \A e \in accepted : e[2] # h
    BY <1>6 DEF IInv, CopyInv
  <1>12. \A m \in Rows : m[1] = h /\ (rows'[m] # rows[m] \/ job'[m] # job[m]) => RowInv(m)'
    <2> SUFFICES ASSUME NEW m \in Rows, m[1] = h PROVE RowInv(m)'
      OBVIOUS
    <2>1. RowInv(m)
      BY DEF IInv
    <2>2. ~(rows[m] # None /\ rows[m].ext # None /\ rows[m].status = "QUEUED")
      <3> SUFFICES ASSUME rows[m] # None, rows[m].ext # None, rows[m].status = "QUEUED" PROVE FALSE
        OBVIOUS
      <3>1. PICK e \in accepted : e = rows[m].ext /\ e[1] = m /\ e[2] \in Handlers
        BY <2>1 DEF RowInv, Copies
      <3>2. e[2] = h
        BY <3>1 DEF IInv, CopyInv
      <3> QED
        BY <1>11, <3>1, <3>2
    <2> QED
      BY <1>2, <2>1, <2>2 DEF RowInv, Copies
  <1> QED
    BY <1>2, <1>4, <1>7, <1>9, <1>10, <1>11, <1>12, HandlerStep

\* A bulk send is closed, or a handler dies.
LEMMA HandlerEndsPreserves ==
    ASSUME IInv, NEW h \in Handlers, CloseBulk(h) \/ CrashHandler(h)
    PROVE  IInv'
  <1>1. /\ TypeOK /\ HandlerInv(h) /\ BulkInv(h) /\ pc[h] # "idle"
        /\ pc' = [pc EXCEPT ![h] = pc'[h]] /\ pc'[h] \in {"done", "dead"}
        /\ UNCHANGED <<rows, job, tries, stalls, accepted, fate, on, cur, got, todo>>
        /\ \/ campaign' = campaign
           \/ campaign' = [campaign EXCEPT ![h] = "sent"] /\ pc[h] = "close"
    BY DEF IInv, CloseBulk, CrashHandler, Goto, counts, outside, locals, TypeOK, All
  <1>2. h \in All /\ h \in Campaigns
    BY DEF All, Campaigns
  <1>3. TypeOK'
    <2>1. pc' \in [All -> HandlerPlace \cup WorkerPlace]
      BY <1>1 DEF TypeOK, HandlerPlace
    <2>2. campaign' \in [Campaigns -> {"none", "scheduled", "sending", "sent"}]
      BY <1>1, <1>2 DEF TypeOK
    <2> QED
      BY <1>1, <2>1, <2>2 DEF TypeOK
  <1>4. HandlerMoves(h)
    <2>1. \A x \in All \ {h} : SameActor(x)
      BY <1>1 DEF SameActor, TypeOK
    <2>2. \A c \in Campaigns \ {h} : campaign'[c] = campaign[c]
      BY <1>1 DEF TypeOK
    <2> QED
      BY <1>1, <2>1, <2>2 DEF HandlerMoves
  <1>5. HandlerInv(h)'
    BY <1>1 DEF HandlerInv, HandlerPlace
  <1>6. BulkInv(h)'
    BY <1>1, <1>2 DEF BulkInv, TypeOK
  <1>7. \A e \in accepted : e[2] = h => CopyInv(e)'
    <2>1. \A e \in accepted : CopyInv(e) /\ (e[2] \in Handlers => ~Dropped(e))
      BY Shapes DEF IInv, Dropped
    <2> QED
      BY <1>1, <2>1, Shapes DEF CopyInv, Dropped
  <1> QED
    BY <1>1, <1>3, <1>4, <1>5, <1>6, <1>7, HandlerStep

\* The template goes to one of the guests, who has no row of this request yet.
LEMMA SendTemplatePreserves ==
    ASSUME IInv, NEW h \in Handlers, SendTemplate(h)
    PROVE  IInv'
  <1>1. PICK g \in todo[h] :
            /\ cur' = [cur EXCEPT ![h] = <<h, g>>]
            /\ todo' = [todo EXCEPT ![h] = @ \ {g}]
            /\ \/ accepted' = accepted \cup {<<<<h, g>>, h>>} /\ got' = [got EXCEPT ![h] = <<<<h, g>>, h>>]
               \/ Refused(<<<<h, g>>, h>>) /\ got' = [got EXCEPT ![h] = None]
    BY DEF SendTemplate
  <1>2. /\ TypeOK /\ HandlerInv(h) /\ BulkInv(h) /\ pc[h] = "template"
        /\ pc' = [pc EXCEPT ![h] = "record"]
        /\ UNCHANGED <<rows, campaign, job, tries, stalls, fate, on>>
    BY DEF IInv, SendTemplate, Goto, counts
  <1>3. h \in All /\ todo[h] \subseteq Guests /\ g \in Guests /\ <<h, g>> \in Rows
        /\ <<<<h, g>>, h>> \in Messages
    BY <1>2, Types, Shapes DEF All, Messages
  <1>4. accepted' = accepted \/ accepted' = accepted \cup {<<<<h, g>>, h>>}
    BY <1>1 DEF Refused
  <1>5. TypeOK'
    <2>1. pc' \in [All -> HandlerPlace \cup WorkerPlace]
      BY <1>2, <1>3 DEF TypeOK, HandlerPlace
    <2>2. cur' \in [All -> Rows \cup {None}] /\ todo' \in [All -> SUBSET Guests]
      BY <1>1, <1>2, <1>3 DEF TypeOK
    <2>3. got' \in [All -> Messages \cup {None}]
      BY <1>1, <1>2, <1>3 DEF TypeOK
    <2>4. accepted' \subseteq Messages
      BY <1>2, <1>3, <1>4 DEF TypeOK
    <2> QED
      BY <1>2, <2>1, <2>2, <2>3, <2>4 DEF TypeOK
  <1>6. /\ pc'[h] = "record" /\ todo'[h] = todo[h] \ {g} /\ cur'[h] = <<h, g>>
        /\ got'[h] = None \/ (got'[h] = <<<<h, g>>, h>> /\ got'[h] \in accepted')
    BY <1>1, <1>2, <1>3 DEF TypeOK
  <1>7. /\ on[h] \in {"invite", "invites"}
        /\ \A k \in todo[h] : rows[<<h, k>>] = None
    BY <1>2 DEF HandlerInv
  <1>8. HandlerMoves(h)
    <2>1. \A x \in All \ {h} : SameActor(x)
      BY <1>1, <1>2 DEF SameActor, TypeOK
    <2>2. \A e \in accepted' \ accepted : e[2] = h /\ e[1][1] = h
      BY <1>4
    <2> QED
      BY <1>2, <1>4, <2>1, <2>2 DEF HandlerMoves
  <1>9. HandlerInv(h)'
    <2>1. \E k \in Guests \ todo'[h] : cur'[h] = <<h, k>>
      BY <1>3, <1>6
    <2>2. \A k \in todo'[h] : rows'[<<h, k>>] = None
      BY <1>2, <1>6, <1>7
    <2>3. rows'[cur'[h]] = None /\ (got'[h] # None => got'[h] = <<cur'[h], h>> /\ got'[h] \in accepted')
      BY <1>2, <1>6, <1>7
    <2>4. \A k \in Guests : rows'[<<h, k>>] = None => job'[<<h, k>>] = "none"
      BY <1>2 DEF HandlerInv
    <2> QED
      BY <1>2, <1>6, <1>7, <2>1, <2>2, <2>3, <2>4 DEF HandlerInv, HandlerPlace
  <1>10. BulkInv(h)'
    BY <1>2, <1>6, <1>7 DEF BulkInv
  <1>11. \A e \in accepted' : e[2] = h => CopyInv(e)'
    <2> SUFFICES ASSUME NEW e \in accepted', e[2] = h PROVE CopyInv(e)'
      OBVIOUS
    <2>1. CASE e \in accepted
      <3>1. CopyInv(e) /\ ~Dropped(e)
        BY <2>1, Shapes DEF IInv, Dropped
      <3> QED
        BY <1>2, <1>6, <3>1, Shapes DEF CopyInv, Dropped
    <2>2. CASE e = <<<<h, g>>, h>>
      <3>1. e[1] = <<h, g>> /\ e[1][1] = h /\ e[2] = h
        BY <2>2
      <3>2. rows'[e[1]] = None
        BY <1>2, <1>7, <3>1
      <3>3. h \notin Workers
        BY Shapes
      <3> QED
        BY <1>2, <1>6, <1>7, <3>1, <3>2, <3>3 DEF CopyInv
    <2> QED
      BY <1>4, <2>1, <2>2
  <1>12. \A e \in accepted' \ accepted : CopiesInv(e[1])'
    <2> SUFFICES CopiesInv(<<h, g>>)'
      BY <1>4
    <2>1. \A f \in accepted : f[1] = <<h, g>> => f = <<<<h, g>>, h>>
      <3> SUFFICES ASSUME NEW f \in accepted, f[1] = <<h, g>> PROVE f = <<<<h, g>>, h>>
        OBVIOUS
      <3>1. CopyInv(f) /\ f = <<f[1], f[2]>> /\ f[2] \in All
        BY <1>2, Types, Shapes DEF IInv
      <3>2. rows[f[1]] = None /\ f[1][1] = h
        BY <1>7
      <3>3. f[2] = h
        BY <3>1, <3>2 DEF CopyInv, All
      <3> QED
        BY <3>1, <3>3
    <2>2. \A e, f : e \in Copies(<<h, g>>)' /\ f \in Copies(<<h, g>>)' => e = f
      BY <1>4, <2>1 DEF Copies
    <2> QED
      BY <2>2 DEF CopiesInv
  <1> QED
    BY <1>2, <1>5, <1>8, <1>9, <1>10, <1>11, <1>12, HandlerStep

\* The outcome of the template decides its row: QUEUED under its id, or FAILED.
LEMMA RecordTemplatePreserves ==
    ASSUME IInv, NEW h \in Handlers, RecordTemplate(h)
    PROVE  IInv'
  <1> DEFINE r == [status |-> IF got[h] = None THEN "FAILED" ELSE "QUEUED", ext |-> got[h]]
  <1>1. /\ TypeOK /\ HandlerInv(h) /\ BulkInv(h) /\ pc[h] = "record"
        /\ pc' = [pc EXCEPT ![h] = IF got[h] = None THEN "fallback" ELSE Onward(h)]
        /\ rows' = [rows EXCEPT ![cur[h]] = r]
        /\ UNCHANGED <<campaign, job, tries, stalls, accepted, fate, on, cur, got, todo>>
    BY DEF IInv, RecordTemplate, Goto, counts, outside, locals
  <1>2. h \in All /\ todo[h] \subseteq Guests /\ got[h] \in Messages \cup {None}
    BY <1>1, Types DEF All
  <1>3. PICK g \in Guests \ todo[h] : cur[h] = <<h, g>>
    BY <1>1 DEF HandlerInv
  <1>4. PICK m \in Rows : m = cur[h] /\ m = <<h, g>> /\ m[1] = h
    BY <1>3, Shapes, <1>2
  <1>5. /\ on[h] \in {"invite", "invites"} /\ rows[m] = None /\ job[m] = "none"
        /\ \A k \in todo[h] : rows[<<h, k>>] = None
        /\ got[h] # None => got[h] = <<m, h>> /\ got[h] \in accepted
    <2>1. rows[m] = None => job[m] = "none"
      BY <1>1, <1>3, <1>4 DEF HandlerInv
    <2> QED
      BY <1>1, <1>3, <1>4, <2>1 DEF HandlerInv
  <1>6. r \in Row /\ r # None /\ r.ext = got[h]
        /\ r.status = IF got[h] = None THEN "FAILED" ELSE "QUEUED"
    <2>1. r \in Row
      BY <1>2 DEF Row, MessageStatus
    <2> QED
      BY <2>1, NoneIsNoRow
  <1> HIDE DEF r
  <1>7. TypeOK'
    <2>1. pc' \in [All -> HandlerPlace \cup WorkerPlace]
      BY <1>1, <1>2 DEF TypeOK, HandlerPlace, Onward
    <2>2. rows' \in [Rows -> Row \cup {None}]
      BY <1>1, <1>4, <1>6 DEF TypeOK
    <2> QED
      BY <1>1, <2>1, <2>2 DEF TypeOK
  <1>8. /\ pc'[h] = IF got[h] = None THEN "fallback" ELSE Onward(h)
        /\ \A n \in Rows : rows'[n] = IF n = m THEN r ELSE rows[n]
    BY <1>1, <1>2, <1>4 DEF TypeOK
  <1>9. HandlerMoves(h)
    <2>1. \A x \in All \ {h} : SameActor(x)
      BY <1>1 DEF SameActor, TypeOK
    <2> QED
      BY <1>1, <1>4, <1>5, <1>8, <2>1 DEF HandlerMoves
  <1>10. \A k \in Guests : rows'[<<h, k>>] = IF k = g THEN r ELSE rows[<<h, k>>]
    <2>1. \A k \in Guests : <<h, k>> \in Rows /\ (<<h, k>> = <<h, g>> => k = g)
      BY <1>2, Shapes
    <2> QED
      BY <1>4, <1>8, <2>1
  <1>11. HandlerInv(h)'
    <2>1. \E k \in Guests \ todo'[h] : cur'[h] = <<h, k>>
      BY <1>1, <1>3
    <2>2. \A k \in todo'[h] : rows'[<<h, k>>] = None
      BY <1>1, <1>2, <1>3, <1>5, <1>10
    <2>3. pc'[h] = "fallback" => rows'[cur'[h]] # None /\ rows'[cur'[h]].status # "QUEUED" /\ job'[cur'[h]] = "none"
      BY <1>1, <1>4, <1>5, <1>6, <1>8 DEF Onward
    <2>4. \A k \in Guests : rows'[<<h, k>>] = None => job'[<<h, k>>] = "none"
      BY <1>1, <1>6, <1>10 DEF HandlerInv
    <2>5. pc'[h] \in {"template", "fallback", "done"} /\ on'[h] = on[h]
      BY <1>1, <1>8 DEF Onward
    <2> QED
      BY <1>5, <2>1, <2>2, <2>3, <2>4, <2>5 DEF HandlerInv, HandlerPlace
  <1>12. BulkInv(h)'
    <2>1. pc'[h] # "close" /\ on'[h] # "bulk"
      BY <1>1, <1>5, <1>8 DEF Onward
    <2>2. campaign'[h] # "sent"
      BY <1>1, <1>3, <1>4, <1>5 DEF BulkInv
    <2> QED
      BY <2>1, <2>2 DEF BulkInv
  <1>13. \A e \in accepted : e[2] = h => CopyInv(e)'
    <2> SUFFICES ASSUME NEW e \in accepted, e[2] = h PROVE CopyInv(e)'
      OBVIOUS
    <2>1. CopyInv(e) /\ ~Dropped(e) /\ h \notin Workers /\ e[1] \in Rows
      BY <1>1, Types, Shapes DEF IInv, Dropped
    <2>2. pc'[h] # "idle" /\ on'[h] = on[h] /\ job'[e[1]] = job[e[1]]
      BY <1>1, <1>8 DEF Onward
    <2>3. CASE e[1] = m
      BY <1>5, <2>1, <2>2, <2>3 DEF CopyInv
    <2>4. CASE e[1] # m
      BY <1>8, <2>1, <2>2, <2>4 DEF CopyInv
    <2> QED
      BY <2>3, <2>4
  <1>14. RowInv(m)'
    <2>1. rows'[m] = r /\ job'[m] = "none"
      BY <1>1, <1>5, <1>8
    <2>2. got[h] # None => got[h] \in Copies(m)' /\ got[h][2] \in Handlers
      BY <1>1, <1>5 DEF Copies
    <2> QED
      BY <1>6, <2>1, <2>2 DEF RowInv
  <1> QED
    BY <1>1, <1>7, <1>8, <1>9, <1>11, <1>12, <1>13, <1>14, HandlerStep

\* The text in place of the template: the job of a row that is FAILED.
LEMMA EnqueueFallbackPreserves ==
    ASSUME IInv, NEW h \in Handlers, EnqueueFallback(h)
    PROVE  IInv'
  <1>1. /\ TypeOK /\ HandlerInv(h) /\ BulkInv(h) /\ pc[h] = "fallback"
        /\ pc' = [pc EXCEPT ![h] = Onward(h)]
        /\ job' = [job EXCEPT ![cur[h]] = "waiting"]
        /\ UNCHANGED <<rows, campaign, tries, stalls, accepted, fate, on, cur, got, todo>>
    BY DEF IInv, EnqueueFallback, Goto, counts, outside, locals
  <1>2. h \in All /\ todo[h] \subseteq Guests
    BY <1>1, Types DEF All
  <1>3. PICK g \in Guests \ todo[h] : cur[h] = <<h, g>>
    BY <1>1 DEF HandlerInv
  <1>4. PICK m \in SendJobs : m = cur[h] /\ m = <<h, g>> /\ m[1] = h /\ m \in Jobs /\ m \in Rows
    BY <1>3, Shapes, <1>2
  <1>5. /\ on[h] \in {"invite", "invites"}
        /\ rows[m] # None /\ rows[m].status # "QUEUED" /\ job[m] = "none"
        /\ \A k \in todo[h] : rows[<<h, k>>] = None
    BY <1>1, <1>4 DEF HandlerInv
  <1>6. TypeOK'
    <2>1. pc' \in [All -> HandlerPlace \cup WorkerPlace]
      BY <1>1, <1>2 DEF TypeOK, HandlerPlace, Onward
    <2>2. job' \in [Jobs -> {"none", "waiting", "active", "done", "failed"}]
      BY <1>1, <1>4 DEF TypeOK
    <2> QED
      BY <1>1, <2>1, <2>2 DEF TypeOK
  <1>7. /\ pc'[h] = Onward(h)
        /\ \A j \in Jobs : job'[j] = IF j = m THEN "waiting" ELSE job[j]
    BY <1>1, <1>2, <1>4 DEF TypeOK
  <1>8. HandlerMoves(h)
    <2>1. \A x \in All \ {h} : SameActor(x)
      BY <1>1 DEF SameActor, TypeOK
    <2> QED
      BY <1>1, <1>4, <1>5, <1>7, <2>1 DEF HandlerMoves
  <1>9. \A k \in Guests : job'[<<h, k>>] = IF k = g THEN "waiting" ELSE job[<<h, k>>]
    <2>1. \A k \in Guests : <<h, k>> \in Jobs /\ (<<h, k>> = <<h, g>> => k = g)
      BY <1>2, Shapes
    <2> QED
      BY <1>4, <1>7, <2>1
  <1>10. HandlerInv(h)'
    <2>1. \A k \in Guests : rows'[<<h, k>>] = None => job'[<<h, k>>] = "none"
      BY <1>1, <1>4, <1>5, <1>9 DEF HandlerInv
    <2>2. pc'[h] \in {"template", "done"}
      BY <1>7 DEF Onward
    <2> QED
      BY <1>1, <1>5, <2>1, <2>2 DEF HandlerInv, HandlerPlace
  <1>11. BulkInv(h)'
    <2>1. pc'[h] # "close" /\ on'[h] # "bulk"
      BY <1>1, <1>5, <1>7 DEF Onward
    <2>2. campaign'[h] # "sent"
      BY <1>1, <1>3, <1>4, <1>5 DEF BulkInv
    <2> QED
      BY <2>1, <2>2 DEF BulkInv
  <1>12. \A e \in accepted : e[2] = h => CopyInv(e)'
    <2> SUFFICES ASSUME NEW e \in accepted, e[2] = h PROVE CopyInv(e)'
      OBVIOUS
    <2>1. CopyInv(e) /\ ~Dropped(e) /\ h \notin Workers /\ e[1] \in Rows
      BY <1>1, Types, Shapes DEF IInv, Dropped
    <2>2. pc'[h] # "idle" /\ on'[h] = on[h]
      BY <1>1, <1>7 DEF Onward
    <2>3. e[1][1] = h
      BY <2>1 DEF CopyInv
    <2>4. e[1] \in Jobs
      BY <2>1, <2>3, Shapes DEF Jobs
    <2>5. CASE e[1] = m
      BY <1>1, <1>5, <2>1, <2>2, <2>5 DEF CopyInv
    <2>6. CASE e[1] # m
      BY <1>1, <1>7, <2>1, <2>2, <2>4, <2>6 DEF CopyInv
    <2> QED
      BY <2>5, <2>6
  <1>13. \A n \in Rows : n[1] = h /\ (rows'[n] # rows[n] \/ job'[n] # job[n]) => RowInv(n)'
    <2> SUFFICES ASSUME NEW n \in Rows, n[1] = h, job'[n] # job[n] PROVE RowInv(n)'
      BY <1>1
    <2>1. n \in Jobs /\ n = m
      BY <1>7, Shapes DEF Jobs
    <2>2. RowInv(n)
      BY DEF IInv
    <2> QED
      BY <1>1, <1>5, <2>1, <2>2 DEF RowInv, Copies
  <1> QED
    BY <1>1, <1>6, <1>8, <1>10, <1>11, <1>12, <1>13, HandlerStep

\* Every step of a request.
LEMMA ServePreserves ==
    ASSUME IInv, NEW h \in Handlers, Serve(h)
    PROVE  IInv'
  BY InsertRowPreserves, EnqueueSendPreserves, HandlerEndsPreserves, SendTemplatePreserves,
     RecordTemplatePreserves, EnqueueFallbackPreserves DEF Serve

-----------------------------------------------------------------------------
(* The steps of the worker.                                                 *)

\* Every other attempt of job j ended without finishing it.
Alone(w, j) == \A v \in Workers \ {w} : on[v] = j => pc[v] \in {"failed", "dead"}

\* A worker writes a row of its own campaign or the queued row it is at, and its job.
WorkerMoves(w, j) ==
    /\ pc[w] \notin Final /\ j \in Jobs /\ on'[w] = j /\ on[w] \in {j, None}
    /\ \A x \in All \ {w} : SameActor(x)
    /\ \A m \in Rows :
          \/ rows'[m] = rows[m]
          \/ rows[m] = None /\ m[1] = w /\ rows'[m] # None
          \/ /\ rows[m] = Queued /\ m = cur[w] /\ on[w] = j /\ rows'[m] # None
             /\ rows'[m].status # "QUEUED" /\ rows'[m].ext \in {None, <<m, w>>}
    /\ \A k \in Jobs \ {j} : job'[k] = job[k] /\ tries'[k] = tries[k] /\ stalls'[k] = stalls[k]
    /\ job[j] # "none" /\ job'[j] # "none"
    /\ \A c \in Campaigns : campaign'[c] = campaign[c] \/ (c = j /\ c \in Scheduled)
    /\ fate' = fate
    /\ accepted \subseteq accepted' /\ \A e \in accepted' \ accepted : e[2] = w

\* A worker is at the row of its job, or at one that its attempt of a campaign made.
LEMMA RowOwner ==
    ASSUME IInv, NEW w \in Workers, on[w] \in Jobs, cur[w] # None
    PROVE  IF on[w] \in SendJobs THEN cur[w] = on[w] ELSE cur[w][1] = w
  <1>1. WorkerInv(w) /\ AttemptInv(w)
    BY DEF IInv
  <1> QED
    BY <1>1 DEF WorkerInv, AttemptInv, Jobs

\* A busy worker's job has no other attempt that is under way or done.
LEMMA BusyAlone ==
    ASSUME IInv, NEW w \in Workers, Busy(w)
    PROVE  Alone(w, on[w]) /\ on[w] \in Jobs /\ job[on[w]] = "active"
  <1>1. on[w] \in Jobs /\ job[on[w]] = "active"
    BY DEF IInv, WorkerInv, Busy
  <1>2. ASSUME NEW v \in Workers \ {w}, on[v] = on[w] PROVE pc[v] \in {"failed", "dead"}
    <2>1. pc[v] # "idle"
      BY <1>1, <1>2, Shapes DEF IInv, WorkerInv
    <2> QED
      BY <1>2, <2>1 DEF IInv, OneAttempt, Busy, Final
  <1> QED
    BY <1>1, <1>2 DEF Alone

\* Nobody else's rows and jobs are made, and the row another worker is at stays.
LEMMA OthersStayWorker ==
    ASSUME IInv, NEW w \in Workers, NEW j \in Jobs, WorkerMoves(w, j), Alone(w, j), NEW x \in All \ {w}
    PROVE  /\ SameActor(x) /\ NoNewRows(x)
           /\ x \in Handlers => NoNewJobs(x)
           /\ x \in Workers => WorkerInv(x)' /\ AttemptInv(x)'
  <1>1. RowsStay
    BY QueuedRow DEF WorkerMoves, RowsStay
  <1>2. \A g \in Guests : <<x, g>> \in Rows /\ <<x, g>>[1] = x
    BY DEF Rows
  <1>3. NoNewRows(x)
    BY <1>2, QueuedRow DEF WorkerMoves, NoNewRows
  <1>4. x \in Handlers => NoNewJobs(x)
    BY Shapes DEF WorkerMoves, NoNewJobs
  <1>5. ASSUME x \in Workers PROVE WorkerInv(x)' /\ AttemptInv(x)'
    <2>1. WorkerInv(x) /\ (cur[x] # None => cur[x] \in Rows)
      BY <1>5, Types DEF IInv
    <2>2. ASSUME pc[x] \in {"read", "send", "sent", "refused"}, rows[cur[x]] = Queued
          PROVE  rows'[cur[x]] = Queued
      <3>1. PICK m \in Rows : m = cur[x]
        BY <2>1, <2>2 DEF WorkerInv
      <3>2. on[x] \in Jobs /\ cur[x] # None
        BY <2>1, <2>2 DEF WorkerInv
      <3>3. IF on[x] \in SendJobs THEN m = on[x] ELSE m[1] = x
        BY <1>5, <3>1, <3>2, RowOwner
      <3>4. on[x] # j
        BY <1>5, <2>2 DEF Alone
      <3>5. ASSUME m = cur[w], on[w] = j PROVE FALSE
        <4>1. cur[w] # None
          BY <3>1, <3>2, <3>5
        <4>2. IF on[w] \in SendJobs THEN m = on[w] ELSE m[1] = w
          BY <3>5, <4>1, RowOwner
        <4> QED
          BY <1>5, <3>3, <3>4, <3>5, <4>2, Shapes
      <3> QED
        BY <2>2, <3>1, <3>5, QueuedRow DEF WorkerMoves
    <2>3. on[x] \in Jobs => \/ job'[on[x]] = job[on[x]]
                            \/ pc[x] \in {"failed", "dead"} /\ job'[on[x]] # "none"
      BY <1>5 DEF WorkerMoves, Alone
    <2>4. SameActor(x)
      BY DEF WorkerMoves
    <2> QED
      BY <1>1, <1>3, <1>5, <2>2, <2>3, <2>4, FrameWorker
  <1> QED
    BY <1>3, <1>4, <1>5 DEF WorkerMoves

\* Putting the parts of a step of worker w together.
LEMMA WorkerStep ==
    ASSUME IInv, TypeOK', NEW w \in Workers, NEW j \in Jobs, WorkerMoves(w, j), Alone(w, j),
           WorkerInv(w)', AttemptInv(w)', JobInv(j)', j \in Scheduled => CampaignInv(j)',
           \A e \in accepted' : e[2] = w => CopyInv(e)',
           \A m \in Rows : rows'[m] # rows[m] => RowInv(m)',
           \A e \in accepted' \ accepted : CopiesInv(e[1])'
    PROVE  IInv'
  <1>1. RowsStay
    BY QueuedRow DEF WorkerMoves, RowsStay
  <1>2. \A x \in All \ {w} : /\ SameActor(x) /\ NoNewRows(x)
                             /\ x \in Handlers => NoNewJobs(x)
                             /\ x \in Workers => WorkerInv(x)' /\ AttemptInv(x)'
    BY OthersStayWorker
  <1>3. \A h \in Handlers : HandlerInv(h)' /\ BulkInv(h)'
    <2> SUFFICES ASSUME NEW h \in Handlers PROVE HandlerInv(h)' /\ BulkInv(h)'
      OBVIOUS
    <2>1. h \in All \ {w} /\ h \in Campaigns /\ h \notin Scheduled
      BY Shapes DEF All, Campaigns
    <2>2. campaign'[h] = campaign[h]
      BY <2>1 DEF WorkerMoves
    <2> QED
      BY <1>1, <1>2, <2>1, <2>2, FrameHandler
  <1>4. \A v \in Workers : WorkerInv(v)' /\ AttemptInv(v)'
    BY <1>2 DEF All
  <1>5. \A e \in accepted : e[2] # w => CopyInv(e)' /\ (Dropped(e) => Dropped(e)')
    <2> SUFFICES ASSUME NEW e \in accepted, e[2] # w PROVE CopyInv(e)' /\ (Dropped(e) => Dropped(e)')
      OBVIOUS
    <2>1. e[1] \in Rows /\ e[2] \in All \ {w} /\ e # None
      BY Types, Shapes DEF IInv
    <2>2. PICK m \in Rows : m = e[1]
      BY <2>1
    <2>3. e # <<m, w>>
      OBVIOUS
    <2>4. rows[m] # None => rows'[m].ext = rows[m].ext \/ rows'[m].ext # e
      BY <2>1, <2>3 DEF WorkerMoves
    <2> QED
      BY <1>1, <1>2, <2>1, <2>2, <2>4, FrameCopy
  <1>6. \A e \in accepted' : CopyInv(e)'
    BY <1>5 DEF WorkerMoves
  <1>7. \A e \in accepted : Dropped(e) => Dropped(e)'
    BY <1>5 DEF Dropped, WorkerMoves, Final
  <1>8. \A m \in Rows : RowInv(m)'
    <2> SUFFICES ASSUME NEW m \in Rows, rows'[m] = rows[m] PROVE RowInv(m)'
      OBVIOUS
    <2>1. m \in SendJobs => (job[m] = "none" => job'[m] = "none")
      BY DEF WorkerMoves, Jobs
    <2> QED
      BY <1>1, <2>1, FrameRow
  <1>9. \A m \in Rows : CopiesInv(m)'
    <2> SUFFICES ASSUME NEW m \in Rows, \A e \in accepted' \ accepted : e[1] # m PROVE CopiesInv(m)'
      OBVIOUS
    <2>1. Copies(m)' = Copies(m)
      BY DEF Copies, WorkerMoves
    <2>2. \A e \in Copies(m) : Dropped(e) => Dropped(e)'
      BY <1>7 DEF Copies
    <2> QED
      BY <2>1, <2>2, FrameCopies
  <1>10. OneAttempt'
    <2>1. \A v \in Workers \ {w} : SameActor(v)
      BY <1>2 DEF All
    <2>2. \A v \in Workers \ {w} : on'[v] = j => pc'[v] \in {"failed", "dead"}
      BY <2>1 DEF Alone, SameActor
    <2>3. on'[w] = j
      BY DEF WorkerMoves
    <2>4. \A u, v \in Workers \ {w} :
              on'[u] = on'[v] /\ {pc'[u], pc'[v]} \cap {"idle", "failed", "dead"} = {} => u = v
      BY <2>1 DEF IInv, OneAttempt, SameActor
    <2> QED
      BY <2>2, <2>3, <2>4 DEF OneAttempt
  <1>11. \A k \in Jobs : JobInv(k)'
    BY DEF IInv, JobInv, WorkerMoves
  <1>12. \A c \in Scheduled : CampaignInv(c)'
    <2> SUFFICES ASSUME NEW c \in Scheduled, c # j PROVE CampaignInv(c)'
      OBVIOUS
    <2>1. c \in Jobs /\ c \in Campaigns /\ c # None
      BY WhatsAppAssumption DEF Jobs, Campaigns
    <2>2. \A v \in Workers : on[v] = c \/ on'[v] = c => SameActor(v)
      BY <1>2, <2>1 DEF All, WorkerMoves
    <2>3. job'[c] = job[c] /\ campaign'[c] = campaign[c] /\ tries'[c] = tries[c] /\ stalls'[c] = stalls[c]
      BY <2>1 DEF WorkerMoves
    <2> QED
      BY <2>2, <2>3, FrameCampaign DEF WorkerMoves
  <1> QED
    BY <1>3, <1>4, <1>6, <1>8, <1>9, <1>10, <1>11, <1>12 DEF IInv

\* The messages a busy worker sent: one whose row is still queued is the last one.
LEMMA OwnCopies ==
    ASSUME IInv, NEW w \in Workers, Busy(w), NEW e \in accepted, e[2] = w
    PROVE  /\ e[1] \in Rows /\ rows[e[1]] # None /\ w \notin Handlers
           /\ on[w] = e[1] \/ (on[w] \in Scheduled /\ e[1][1] = w)
           /\ rows[e[1]].status = "QUEUED" => pc[w] \in {"sent", "refused"} /\ cur[w] = e[1]
  <1>1. CopyInv(e) /\ e[1] \in Rows /\ w \notin Handlers
    BY Types, Shapes DEF IInv
  <1>2. ~Dropped(e)
    BY DEF Dropped, Busy, Final
  <1> QED
    BY <1>1, <1>2 DEF CopyInv

\* They stay explained when the row that was to be written has been.
LEMMA OwnCopiesStay ==
    ASSUME IInv, NEW w \in Workers, Busy(w), NEW j \in Jobs, WorkerMoves(w, j), on[w] = j,
           pc[w] \in {"sent", "refused"} => rows'[cur[w]].status # "QUEUED",
           NEW e \in accepted, e[2] = w
    PROVE  CopyInv(e)'
  <1>1. /\ e[1] \in Rows /\ rows[e[1]] # None /\ w \notin Handlers
        /\ on[w] = e[1] \/ (on[w] \in Scheduled /\ e[1][1] = w)
        /\ rows[e[1]].status = "QUEUED" => pc[w] \in {"sent", "refused"} /\ cur[w] = e[1]
    BY OwnCopies
  <1>2. PICK m \in Rows : m = e[1]
    BY <1>1
  <1>3. rows'[m] # None
    BY <1>1, <1>2 DEF WorkerMoves
  <1>4. rows'[m].status # "QUEUED"
    BY <1>1, <1>2 DEF WorkerMoves
  <1> QED
    BY <1>1, <1>2, <1>3, <1>4 DEF CopyInv, WorkerMoves

\* An attempt of a waiting job begins.
LEMMA TakeJobPreserves ==
    ASSUME IInv, NEW w \in Workers, TakeJob(w)
    PROVE  IInv'
  <1>1. PICK j \in Jobs :
            /\ job[j] = "waiting" /\ pc[w] = "idle"
            /\ pc' = [pc EXCEPT ![w] = IF j \in Scheduled THEN "next" ELSE "read"]
            /\ job' = [job EXCEPT ![j] = "active"]
            /\ on' = [on EXCEPT ![w] = j]
            /\ cur' = [cur EXCEPT ![w] = IF j \in Scheduled THEN None ELSE j]
            /\ todo' = [todo EXCEPT ![w] = IF j \in Scheduled THEN Guests ELSE {}]
            /\ UNCHANGED <<rows, campaign, tries, stalls, accepted, fate, got>>
    BY DEF TakeJob, Goto, counts, outside
  <1>2. TypeOK /\ WorkerInv(w) /\ AttemptInv(w) /\ w \in All /\ on[w] = None /\ None \notin Jobs
    BY <1>1, Shapes DEF IInv, All, WorkerInv
  <1>3. j \in Scheduled \/ (j \in SendJobs /\ j \in Rows /\ j \notin Scheduled)
    BY Shapes DEF Jobs
  <1>4. TypeOK'
    <2>1. pc' \in [All -> HandlerPlace \cup WorkerPlace] /\ on' \in [All -> Kind \cup Jobs \cup {None}]
      BY <1>1, <1>2 DEF TypeOK, WorkerPlace
    <2>2. job' \in [Jobs -> {"none", "waiting", "active", "done", "failed"}]
      BY <1>1, <1>2 DEF TypeOK
    <2>3. cur' \in [All -> Rows \cup {None}] /\ todo' \in [All -> SUBSET Guests]
      BY <1>1, <1>2, <1>3 DEF TypeOK
    <2> QED
      BY <1>1, <1>2, <2>1, <2>2, <2>3 DEF TypeOK
  <1>5. /\ pc'[w] = IF j \in Scheduled THEN "next" ELSE "read"
        /\ on'[w] = j /\ cur'[w] = IF j \in Scheduled THEN None ELSE j
        /\ todo'[w] = IF j \in Scheduled THEN Guests ELSE {}
        /\ \A k \in Jobs : job'[k] = IF k = j THEN "active" ELSE job[k]
    BY <1>1, <1>2 DEF TypeOK
  <1>6. WorkerMoves(w, j)
    <2>1. \A x \in All \ {w} : SameActor(x)
      BY <1>1, <1>2 DEF SameActor, TypeOK
    <2> QED
      BY <1>1, <1>2, <1>5, <2>1 DEF WorkerMoves, Final
  <1>7. Alone(w, j)
    <2> SUFFICES ASSUME NEW v \in Workers, on[v] = j PROVE pc[v] \in {"failed", "dead"}
      BY DEF Alone
    <2> QED
      BY <1>1, <1>2 DEF IInv, WorkerInv, Busy, Final, WorkerPlace
  <1>8. j \in SendJobs => rows[j] # None
    <2> SUFFICES ASSUME j \in SendJobs PROVE rows[j] # None
      OBVIOUS
    <2>1. PICK h \in Handlers, g \in Guests : j = <<h, g>>
      BY DEF SendJobs
    <2> QED
      BY <1>1, <2>1 DEF IInv, HandlerInv
  <1>9. WorkerInv(w)'
    BY <1>1, <1>2, <1>3, <1>5, <1>8, Shapes DEF WorkerInv, WorkerPlace, Busy, Final
  <1>10. AttemptInv(w)'
    <2>1. \A g \in Guests : rows[<<w, g>>] = None
      BY <1>2 DEF AttemptInv, Jobs
    <2> QED
      BY <1>1, <1>5, <2>1 DEF AttemptInv
  <1>11. JobInv(j)' /\ (job[j] \in {"waiting"} => tries[j] < Limit(j) /\ stalls[j] <= Stalls)
    BY <1>1 DEF IInv, JobInv
  <1>12. ASSUME j \in Scheduled PROVE CampaignInv(j)'
    <2>1. CampaignInv(j)
      BY <1>12 DEF IInv
    <2>2. /\ Ended(j, "failed")' = Ended(j, "failed") /\ Ended(j, "dead")' = Ended(j, "dead")
      BY <1>1, <1>2, <1>5, <1>6 DEF Ended, WorkerMoves, SameActor, All
    <2>3. tries[j] + stalls[j] < CampaignAttempts + Stalls
      <3>1. tries[j] \in Nat /\ stalls[j] \in Nat /\ CampaignAttempts \in Nat /\ Stalls \in Nat
        BY <1>2, WhatsAppAssumption DEF TypeOK
      <3>2. tries[j] < CampaignAttempts /\ stalls[j] <= Stalls
        BY <1>1, <1>11, <1>12 DEF Limit
      <3> QED
        BY <3>1, <3>2
    <2>4. \A v, g : Copies(<<v, g>>)' = Copies(<<v, g>>)
      BY <1>1 DEF Copies
    <2>5. \A v \in Workers : on[v] = j => on'[v] = j
      BY <1>2, <1>6 DEF WorkerMoves, SameActor, All
    <2>6. campaign'[j] = "sent" => \A g \in Guests : \E v \in Workers : on'[v] = j /\ Copies(<<v, g>>)' # {}
      BY <1>1, <2>1, <2>4, <2>5 DEF CampaignInv
    <2> QED
      BY <1>1, <2>1, <2>2, <2>3, <2>6 DEF CampaignInv
  <1>13. \A e \in accepted : e[2] # w
    <2> SUFFICES ASSUME NEW e \in accepted, e[2] = w PROVE FALSE
      OBVIOUS
    <2>1. CopyInv(e) /\ e[1] \in Rows
      BY Types, Shapes DEF IInv
    <2> QED
      BY <1>2, <2>1, Shapes, WhatsAppAssumption DEF CopyInv
  <1> QED
    BY <1>1, <1>4, <1>6, <1>7, <1>9, <1>10, <1>11, <1>12, <1>13, WorkerStep

\* What every step of a busy worker that neither ends its job nor its campaign leaves.
LEMMA CampaignGoesOn ==
    ASSUME IInv, NEW w \in Workers, Busy(w), NEW j \in Scheduled, WorkerMoves(w, j), on[w] = j,
           pc'[w] \notin {"failed", "dead"},
           job'[j] = "active" \/ job'[j] = "done", job[j] = "active",
           tries'[j] = tries[j], stalls'[j] = stalls[j],
           campaign'[j] = "sent" =>
               campaign[j] = "sent" \/ \A g \in Guests : Copies(<<w, g>>)' # {}
    PROVE  CampaignInv(j)'
  <1>1. CampaignInv(j)
    BY DEF IInv
  <1>2. \A v \in Workers \ {w} : SameActor(v)
    BY DEF WorkerMoves, All
  <1>3. Ended(j, "failed")' = Ended(j, "failed") /\ Ended(j, "dead")' = Ended(j, "dead")
    BY <1>2 DEF Ended, SameActor, Busy, Final
  <1>4. \A v, g : Copies(<<v, g>>) \subseteq Copies(<<v, g>>)'
    BY DEF Copies, WorkerMoves
  <1>5. \A v \in Workers : on[v] = j => on'[v] = j
    BY <1>2 DEF WorkerMoves, SameActor
  <1>6. campaign'[j] = "sent" => \A g \in Guests : \E v \in Workers : on'[v] = j /\ Copies(<<v, g>>)' # {}
    <2>1. CASE campaign[j] = "sent"
      BY <1>1, <1>4, <1>5, <2>1 DEF CampaignInv
    <2>2. CASE campaign[j] # "sent"
      BY <1>5, <2>2
    <2> QED
      BY <2>1, <2>2
  <1> QED
    BY <1>1, <1>3, <1>6 DEF CampaignInv

\* What a busy worker knows of the row it is at.
LEMMA AtRow ==
    ASSUME IInv, NEW w \in Workers, pc[w] \in {"read", "send", "sent", "refused"}
    PROVE  /\ Busy(w) /\ w \in All /\ w \notin Handlers
           /\ cur[w] \in Rows /\ rows[cur[w]] # None /\ rows[cur[w]] \in Row
           /\ IF on[w] \in Scheduled
              THEN cur[w][1] = w /\ \E g \in Guests \ todo[w] : cur[w] = <<w, g>>
              ELSE on[w] \in SendJobs /\ cur[w] = on[w] /\ job[cur[w]] = "active"
           /\ on[w] \notin Scheduled => \A g \in Guests : rows[<<w, g>>] = None
           /\ on[w] \in Jobs /\ job[on[w]] = "active" /\ Alone(w, on[w]) /\ JobInv(on[w])
  <1>1. Busy(w) /\ w \in All /\ w \notin Handlers
    BY Shapes DEF Busy, Final, All
  <1>2. on[w] \in Jobs /\ job[on[w]] = "active" /\ Alone(w, on[w])
    BY <1>1, BusyAlone
  <1>3. WorkerInv(w) /\ AttemptInv(w) /\ JobInv(on[w])
    BY <1>2 DEF IInv
  <1>4. cur[w] \in Rows
    BY <1>1, <1>3, Types DEF IInv, WorkerInv
  <1>5. CASE on[w] \in Scheduled
    <2>1. rows[cur[w]] # None /\ \E g \in Guests \ todo[w] : cur[w] = <<w, g>>
      BY <1>3, <1>5 DEF AttemptInv, WorkerInv
    <2>2. rows[cur[w]] \in Row
      BY <1>4, <2>1, Types DEF IInv
    <2> QED
      BY <1>1, <1>2, <1>3, <1>4, <1>5, <2>1, <2>2
  <1>6. CASE on[w] \notin Scheduled
    <2>1. on[w] \in SendJobs
      BY <1>2, <1>6 DEF Jobs
    <2>2. rows[cur[w]] # None /\ cur[w] = on[w]
      BY <1>3, <2>1 DEF WorkerInv
    <2>3. rows[cur[w]] \in Row
      BY <1>4, <2>2, Types DEF IInv
    <2>4. \A g \in Guests : rows[<<w, g>>] = None
      BY <1>3, <1>6 DEF AttemptInv
    <2> QED
      BY <1>1, <1>2, <1>3, <1>4, <1>6, <2>1, <2>2, <2>3, <2>4
  <1> QED
    BY <1>5, <1>6

\* The status of the row decides whether it is sent.
LEMMA ReadRowPreserves ==
    ASSUME IInv, NEW w \in Workers, ReadRow(w)
    PROVE  IInv'
  <1>1. /\ TypeOK /\ pc[w] = "read" /\ WorkerInv(w) /\ AttemptInv(w)
        /\ pc' = [pc EXCEPT ![w] = IF Sendable(cur[w]) THEN "send" ELSE Returned(w)]
        /\ UNCHANGED <<rows, campaign, job, tries, stalls, accepted, fate, on, cur, got, todo>>
    BY DEF IInv, ReadRow, Goto, counts, outside, locals
  <1>2. PICK j \in Jobs : j = on[w]
    BY <1>1, AtRow
  <1>3. PICK m \in Rows : m = cur[w]
    BY <1>1, AtRow
  <1>4. /\ Busy(w) /\ w \in All /\ rows[m] # None /\ rows[m] \in Row
        /\ job[j] = "active" /\ Alone(w, j) /\ JobInv(j)
        /\ j \notin Scheduled => m = j
    BY <1>1, <1>2, <1>3, AtRow
  <1>5. TypeOK'
    <2>1. pc' \in [All -> HandlerPlace \cup WorkerPlace]
      BY <1>1, <1>4 DEF TypeOK, WorkerPlace, Returned
    <2> QED
      BY <1>1, <2>1 DEF TypeOK
  <1>6. pc'[w] = IF Sendable(m) THEN "send" ELSE Returned(w)
    BY <1>1, <1>3, <1>4 DEF TypeOK
  <1>7. Sendable(m) => rows[m] = Queued
    <2> SUFFICES ASSUME rows[m].status = "QUEUED" PROVE rows[m] = Queued
      BY DEF Sendable
    <2>1. CASE j \in Scheduled
      BY <1>1, <1>2, <1>3, <2>1 DEF AttemptInv
    <2>2. CASE j \notin Scheduled
      <3>1. RowInv(m) /\ job[m] # "none"
        BY <1>4, <2>2 DEF IInv
      <3>2. rows[m].ext = None
        BY <1>4, <3>1 DEF RowInv
      <3> QED
        BY <1>4, <3>2 DEF Row, Queued
    <2> QED
      BY <2>1, <2>2
  <1>8. j \in Scheduled => Sendable(m)
    BY <1>1, <1>2, <1>3 DEF AttemptInv, Queued, Sendable
  <1>9. WorkerMoves(w, j)
    <2>1. \A x \in All \ {w} : SameActor(x)
      BY <1>1 DEF SameActor, TypeOK
    <2> QED
      BY <1>1, <1>2, <1>4, <2>1 DEF WorkerMoves, Busy
  <1>10. pc'[w] \in {"send", "complete"} /\ (pc'[w] = "send" => rows[m] = Queued)
    BY <1>2, <1>6, <1>7, <1>8 DEF Returned
  <1>11. WorkerInv(w)'
    BY <1>1, <1>2, <1>3, <1>4, <1>10 DEF WorkerInv, WorkerPlace, Busy, Final
  <1>12. AttemptInv(w)'
    <2>1. j \in Scheduled => pc'[w] = "send"
      BY <1>6, <1>8
    <2>2. \A g : Copies(<<w, g>>)' = Copies(<<w, g>>)
      BY <1>1 DEF Copies
    <2> QED
      BY <1>1, <1>2, <2>1, <2>2 DEF AttemptInv
  <1>13. j \in Scheduled => CampaignInv(j)'
    BY <1>1, <1>2, <1>4, <1>9, <1>10, CampaignGoesOn
  <1>14. \A e \in accepted : e[2] = w => CopyInv(e)'
    BY <1>1, <1>2, <1>4, <1>9, OwnCopiesStay
  <1>15. JobInv(j)'
    BY <1>1, <1>4 DEF JobInv
  <1> QED
    BY <1>1, <1>4, <1>5, <1>9, <1>11, <1>12, <1>13, <1>14, <1>15, WorkerStep

\* The gateway is asked: the message that the answer is about, if there is one, is the
\* only one of a row that is still queued but those whose worker died.
LEMMA SendPreserves ==
    ASSUME IInv, NEW w \in Workers, SendAccepted(w) \/ SendRefused(w)
    PROVE  IInv'
  <1>1. /\ TypeOK /\ pc[w] = "send" /\ WorkerInv(w) /\ AttemptInv(w)
        /\ pc' = [pc EXCEPT ![w] = pc'[w]] /\ pc'[w] \in {"sent", "refused"}
        /\ \/ pc'[w] = "sent" /\ accepted' = accepted \cup {<<cur[w], w>>}
              /\ got' = [got EXCEPT ![w] = <<cur[w], w>>]
           \/ pc'[w] = "refused" /\ got' = got
              /\ (accepted' = accepted \/ accepted' = accepted \cup {<<cur[w], w>>})
        /\ UNCHANGED <<rows, campaign, job, tries, stalls, fate, on, cur, todo>>
    BY DEF IInv, SendAccepted, SendRefused, Refused, Goto, counts, locals, TypeOK, All
  <1>2. PICK j \in Jobs : j = on[w]
    BY <1>1, AtRow
  <1>3. PICK m \in Rows : m = cur[w]
    BY <1>1, AtRow
  <1>4. /\ Busy(w) /\ w \in All /\ w \notin Handlers /\ rows[m] # None /\ rows[m] \in Row
        /\ job[j] = "active" /\ Alone(w, j) /\ JobInv(j)
        /\ IF j \in Scheduled THEN m[1] = w /\ \E g \in Guests \ todo[w] : m = <<w, g>>
           ELSE m = j /\ job[m] = "active"
        /\ rows[m] = Queued
    BY <1>1, <1>2, <1>3, AtRow DEF WorkerInv
  <1>5. TypeOK'
    <2>1. pc' \in [All -> HandlerPlace \cup WorkerPlace]
      BY <1>1, <1>4 DEF TypeOK, WorkerPlace
    <2>2. <<cur[w], w>> \in Messages
      BY <1>3, <1>4 DEF Messages
    <2>3. accepted' \subseteq Messages /\ got' \in [All -> Messages \cup {None}]
      BY <1>1, <1>4, <2>2 DEF TypeOK
    <2> QED
      BY <1>1, <2>1, <2>3 DEF TypeOK
  <1>6. pc'[w] = "sent" => got'[w] = <<m, w>> /\ <<m, w>> \in accepted'
    BY <1>1, <1>3, <1>4 DEF TypeOK
  <1>7. WorkerMoves(w, j)
    <2>1. \A x \in All \ {w} : SameActor(x)
      BY <1>1 DEF SameActor, TypeOK
    <2> QED
      BY <1>1, <1>2, <1>4, <2>1 DEF WorkerMoves, Busy
  <1>8. WorkerInv(w)'
    BY <1>1, <1>2, <1>3, <1>4, <1>6 DEF WorkerInv, WorkerPlace, Busy, Final
  <1>9. AttemptInv(w)'
    <2>1. \A g : Copies(<<w, g>>) \subseteq Copies(<<w, g>>)'
      BY <1>1 DEF Copies
    <2>2. pc'[w] = "sent" => Copies(m)' # {}
      BY <1>6 DEF Copies
    <2>3. j \in Scheduled /\ pc'[w] = "sent" => \A g \in Guests \ todo[w] : Copies(<<w, g>>)' # {}
      BY <1>1, <1>2, <1>3, <2>1, <2>2 DEF AttemptInv
    <2> QED
      BY <1>1, <1>2, <1>3, <2>3 DEF AttemptInv
  <1>10. j \in Scheduled => CampaignInv(j)'
    BY <1>1, <1>2, <1>4, <1>7, CampaignGoesOn
  <1>11. \A e \in accepted' : e[2] = w => CopyInv(e)'
    <2> SUFFICES ASSUME NEW e \in accepted', e[2] = w PROVE CopyInv(e)'
      OBVIOUS
    <2>1. CASE e \in accepted
      BY <1>1, <1>2, <1>4, <1>7, <2>1, OwnCopiesStay
    <2>2. CASE e = <<m, w>>
      <3>1. e[1] = m /\ e[2] = w
        BY <2>2
      <3> QED
        BY <1>1, <1>2, <1>3, <1>4, <3>1 DEF CopyInv
    <2> QED
      BY <1>1, <1>3, <2>1, <2>2
  <1>12. \A e \in accepted' \ accepted : CopiesInv(e[1])'
    <2> SUFFICES CopiesInv(m)'
      BY <1>1, <1>3
    <2>1. \A f \in accepted : f[1] = m => Dropped(f) \/ f = <<m, w>>
      <3> SUFFICES ASSUME NEW f \in accepted, f[1] = m PROVE Dropped(f) \/ f = <<m, w>>
        OBVIOUS
      <3>1. CopyInv(f) /\ f = <<f[1], f[2]>> /\ f[2] \in All
        BY <1>1, Types, Shapes DEF IInv
      <3>2. CASE f[2] \in Handlers
        <4>1. m[1] \in Handlers /\ (job[m] = "none" \/ Dropped(f))
          BY <1>4, <3>1, <3>2, QueuedRow, Shapes DEF CopyInv, Dropped
        <4> QED
          BY <1>4, <4>1
      <3>3. CASE f[2] \in Workers /\ ~Dropped(f)
        <4>1. pc[f[2]] \in {"sent", "refused"} /\ (on[f[2]] = m \/ (on[f[2]] \in Scheduled /\ m[1] = f[2]))
          BY <1>4, <3>1, <3>3, QueuedRow, Shapes DEF CopyInv
        <4>2. f[2] = w
          <5>1. CASE j \in Scheduled
            <6>1. m[1] = w /\ m \notin Jobs
              BY <1>4, <5>1, Shapes DEF Jobs
            <6>2. on[f[2]] \in Jobs
              BY <3>3, <4>1, AtRow
            <6> QED
              BY <4>1, <6>1, <6>2
          <5>2. CASE j \notin Scheduled
            <6>1. m = j /\ m[1] \in Handlers
              BY <1>4, <5>2, Shapes DEF Jobs
            <6>2. on[f[2]] = j
              BY <3>3, <4>1, <6>1, Shapes
            <6> QED
              BY <1>4, <3>3, <4>1, <6>2 DEF Alone
          <5> QED
            BY <5>1, <5>2
        <4> QED
          BY <3>1, <4>2
      <3> QED
        BY <3>1, <3>2, <3>3 DEF All
    <2>2. \A f \in accepted : Dropped(f) => Dropped(f)'
      BY <1>1, <1>7, Shapes DEF Dropped, WorkerMoves, SameActor, All, Busy, Final
    <2>3. \A e, f : /\ e \in Copies(m)' /\ f \in Copies(m)' /\ e # f
                    => Dropped(e)' \/ Dropped(f)'
      BY <1>1, <1>3, <2>1, <2>2 DEF Copies
    <2> QED
      BY <2>3 DEF CopiesInv
  <1>13. JobInv(j)'
    BY <1>1, <1>4 DEF JobInv
  <1> QED
    BY <1>1, <1>4, <1>5, <1>7, <1>8, <1>9, <1>10, <1>11, <1>12, <1>13, WorkerStep

\* The outcome of a send is recorded in the row: it is queued no longer.
LEMMA StorePreserves ==
    ASSUME IInv, NEW w \in Workers, StoreSent(w) \/ StoreFailed(w)
    PROVE  IInv'
  <1> DEFINE r == IF pc[w] = "sent" THEN [status |-> "SENT", ext |-> got[w]]
                  ELSE [status |-> "FAILED", ext |-> None]
  <1>1. /\ TypeOK /\ pc[w] \in {"sent", "refused"} /\ WorkerInv(w) /\ AttemptInv(w)
        /\ pc' = [pc EXCEPT ![w] = IF pc[w] = "sent" THEN Returned(w) ELSE "throw"]
        /\ UNCHANGED <<campaign, job, tries, stalls, accepted, fate, on, cur, got, todo>>
    BY DEF IInv, StoreSent, StoreFailed, AfterRefusal, Goto, counts, outside, locals
  <1>2. PICK j \in Jobs : j = on[w]
    BY <1>1, AtRow
  <1>3. PICK m \in Rows : m = cur[w]
    BY <1>1, AtRow
  <1>4. /\ Busy(w) /\ w \in All /\ w \notin Handlers
        /\ job[j] = "active" /\ Alone(w, j) /\ JobInv(j)
        /\ IF j \in Scheduled THEN m[1] = w /\ \E g \in Guests \ todo[w] : m = <<w, g>>
           ELSE m = j /\ j \in SendJobs
        /\ j \notin Scheduled => \A g \in Guests : rows[<<w, g>>] = None
        /\ rows[m] = Queued
        /\ pc[w] = "sent" => got[w] = <<m, w>> /\ got[w] \in accepted
    BY <1>1, <1>2, <1>3, AtRow DEF WorkerInv
  <1>5. /\ r \in Row /\ r # None /\ r.status \in {"SENT", "FAILED"}
        /\ r.ext = None \/ (r.ext = <<m, w>> /\ r.ext \in accepted)
    <2>1. /\ r \in Row /\ r.status \in {"SENT", "FAILED"}
          /\ r.ext = None \/ (r.ext = <<m, w>> /\ r.ext \in accepted)
      BY <1>1, <1>4 DEF Row, MessageStatus, TypeOK
    <2> QED
      BY <2>1, NoneIsNoRow
  <1>6. rows' = [rows EXCEPT ![m] = r]
    <2>1. CASE StoreSent(w)
      <3>1. rows' = [rows EXCEPT ![m].status = "SENT", ![m].ext = got[w]] /\ pc[w] = "sent"
        BY <1>3, <2>1 DEF StoreSent, Goto
      <3>2. [[Queued EXCEPT !.status = "SENT"] EXCEPT !.ext = got[w]] = [status |-> "SENT", ext |-> got[w]]
        <4>1. [Queued EXCEPT !.status = "SENT"] = [status |-> "SENT", ext |-> None]
          BY DEF Queued
        <4>2. [[status |-> "SENT", ext |-> None] EXCEPT !.ext = got[w]] = [status |-> "SENT", ext |-> got[w]]
          OBVIOUS
        <4> QED
          BY <4>1, <4>2
      <3>3. r = [status |-> "SENT", ext |-> got[w]]
        BY <3>1
      <3> QED
        BY <1>1, <1>3, <1>4, <3>1, <3>2, <3>3 DEF TypeOK
    <2>2. CASE StoreFailed(w)
      <3>1. rows' = [rows EXCEPT ![m].status = "FAILED"] /\ pc[w] = "refused"
        BY <1>3, <2>2 DEF StoreFailed, Goto
      <3>2. [rows[m] EXCEPT !.status = "FAILED"] = r
        BY <1>4, <3>1 DEF Queued
      <3> QED
        BY <1>1, <1>3, <3>1, <3>2 DEF TypeOK
    <2> QED
      BY <2>1, <2>2
  <1> HIDE DEF r
  <1>7. TypeOK'
    <2>1. pc' \in [All -> HandlerPlace \cup WorkerPlace]
      BY <1>1, <1>4 DEF TypeOK, WorkerPlace, Returned
    <2>2. rows' \in [Rows -> Row \cup {None}]
      BY <1>1, <1>5, <1>6 DEF TypeOK
    <2> QED
      BY <1>1, <2>1, <2>2 DEF TypeOK
  <1>8. /\ \A n \in Rows : rows'[n] = IF n = m THEN r ELSE rows[n]
        /\ pc'[w] = IF pc[w] = "refused" THEN "throw" ELSE IF j \in Scheduled THEN "next" ELSE "complete"
    BY <1>1, <1>2, <1>4, <1>6 DEF TypeOK, Returned
  <1>9. WorkerMoves(w, j)
    <2>1. \A x \in All \ {w} : SameActor(x)
      BY <1>1 DEF SameActor, TypeOK
    <2> QED
      BY <1>1, <1>2, <1>3, <1>4, <1>5, <1>8, <2>1 DEF WorkerMoves, Busy
  <1>10. WorkerInv(w)'
    BY <1>1, <1>2, <1>3, <1>4, <1>5, <1>8, Shapes DEF WorkerInv, WorkerPlace, Busy, Final
  <1>11. AttemptInv(w)'
    <2>1. \A g : Copies(<<w, g>>)' = Copies(<<w, g>>)
      BY <1>1 DEF Copies
    <2>2. CASE j \in Scheduled
      <3>1. \A g \in Guests : <<w, g>> \in Rows
        BY <1>4, Shapes
      <3>2. \A g \in todo'[w] : rows'[<<w, g>>] = None
        <4>1. PICK k \in Guests \ todo[w] : m = <<w, k>>
          BY <1>4, <2>2
        <4>2. todo[w] \subseteq Guests
          BY <1>1, <1>4 DEF TypeOK
        <4> QED
          BY <1>1, <1>2, <1>8, <2>2, <3>1, <4>1, <4>2 DEF AttemptInv
      <3>3. cur'[w] # None => rows'[cur'[w]] # None /\ \E g \in Guests \ todo'[w] : cur'[w] = <<w, g>>
        BY <1>1, <1>3, <1>4, <1>5, <1>8, <2>2
      <3>4. pc'[w] = "next" => \A g \in Guests \ todo'[w] : Copies(<<w, g>>)' # {}
        BY <1>1, <1>2, <1>8, <2>1, <2>2 DEF AttemptInv
      <3>5. pc'[w] \in {"throw", "next"} /\ on'[w] \in Scheduled
        BY <1>1, <1>2, <1>8, <2>2
      <3> QED
        BY <3>2, <3>3, <3>4, <3>5 DEF AttemptInv
    <2>3. CASE j \notin Scheduled
      <3>1. \A g \in Guests : <<w, g>> \in Rows /\ <<w, g>> # m
        BY <1>4, <2>3, Shapes
      <3> QED
        BY <1>1, <1>2, <1>4, <1>8, <2>3, <3>1 DEF AttemptInv
    <2> QED
      BY <2>2, <2>3
  <1>12. j \in Scheduled => CampaignInv(j)'
    BY <1>1, <1>2, <1>4, <1>8, <1>9, CampaignGoesOn
  <1>13. \A e \in accepted : e[2] = w => CopyInv(e)'
    BY <1>1, <1>2, <1>3, <1>4, <1>5, <1>8, <1>9, OwnCopiesStay
  <1>14. RowInv(m)'
    BY <1>1, <1>5, <1>8 DEF RowInv, Copies
  <1>15. JobInv(j)'
    BY <1>1, <1>4 DEF JobInv
  <1> QED
    BY <1>1, <1>4, <1>7, <1>8, <1>9, <1>10, <1>11, <1>12, <1>13, <1>14, <1>15, WorkerStep

\* What a worker knows of its campaign between two guests.
LEMMA AtNext ==
    ASSUME IInv, NEW w \in Workers, pc[w] = "next"
    PROVE  /\ Busy(w) /\ w \in All /\ w \notin Handlers
           /\ on[w] \in Scheduled /\ on[w] \in Jobs /\ job[on[w]] = "active"
           /\ Alone(w, on[w]) /\ JobInv(on[w])
  <1>1. Busy(w) /\ w \in All /\ w \notin Handlers
    BY Shapes DEF Busy, Final, All
  <1>2. on[w] \in Jobs /\ job[on[w]] = "active" /\ Alone(w, on[w]) /\ WorkerInv(w)
    BY <1>1, BusyAlone DEF IInv
  <1>3. on[w] \in Scheduled
    BY <1>2 DEF WorkerInv, Jobs
  <1> QED
    BY <1>1, <1>2, <1>3 DEF IInv

\* A campaign makes the row of its next guest.
LEMMA NextGuestPreserves ==
    ASSUME IInv, NEW w \in Workers, NextGuest(w)
    PROVE  IInv'
  <1>1. PICK g \in todo[w] :
            /\ rows' = [rows EXCEPT ![<<w, g>>] = Queued]
            /\ cur' = [cur EXCEPT ![w] = <<w, g>>]
            /\ todo' = [todo EXCEPT ![w] = @ \ {g}]
    BY DEF NextGuest
  <1>2. /\ TypeOK /\ pc[w] = "next" /\ WorkerInv(w) /\ AttemptInv(w)
        /\ pc' = [pc EXCEPT ![w] = "read"]
        /\ UNCHANGED <<campaign, job, tries, stalls, accepted, fate, on, got>>
    BY DEF IInv, NextGuest, Goto, counts, outside
  <1>3. PICK j \in Scheduled : j = on[w]
    BY <1>2, AtNext
  <1>4. /\ Busy(w) /\ w \in All /\ w \notin Handlers /\ j \in Jobs
        /\ job[j] = "active" /\ Alone(w, j) /\ JobInv(j)
    BY <1>2, <1>3, AtNext
  <1>5. PICK m \in Rows : m = <<w, g>> /\ m[1] = w /\ g \in Guests /\ todo[w] \subseteq Guests
    <2>1. todo[w] \subseteq Guests
      BY <1>2, <1>4, Types
    <2> QED
      BY ZenonT(40), <1>4, <2>1, Shapes
  <1>6. rows[m] = None
    BY <1>2, <1>3, <1>5 DEF AttemptInv
  <1>7. TypeOK'
    <2>1. pc' \in [All -> HandlerPlace \cup WorkerPlace]
      BY <1>2, <1>4 DEF TypeOK, WorkerPlace
    <2>2. rows' \in [Rows -> Row \cup {None}]
      BY <1>1, <1>2, <1>5, QueuedRow DEF TypeOK
    <2>3. cur' \in [All -> Rows \cup {None}] /\ todo' \in [All -> SUBSET Guests]
      BY <1>1, <1>2, <1>4, <1>5 DEF TypeOK
    <2> QED
      BY <1>2, <2>1, <2>2, <2>3 DEF TypeOK
  <1>8. /\ pc'[w] = "read" /\ cur'[w] = m /\ todo'[w] = todo[w] \ {g}
        /\ \A n \in Rows : rows'[n] = IF n = m THEN Queued ELSE rows[n]
    BY <1>1, <1>2, <1>4, <1>5 DEF TypeOK
  <1>9. WorkerMoves(w, j)
    <2>1. \A x \in All \ {w} : SameActor(x)
      BY <1>1, <1>2 DEF SameActor, TypeOK
    <2> QED
      BY <1>2, <1>3, <1>4, <1>5, <1>6, <1>8, <2>1, QueuedRow DEF WorkerMoves, Busy
  <1>10. j \notin SendJobs /\ m # None
    BY <1>5, Shapes
  <1>11. WorkerInv(w)'
    BY <1>2, <1>3, <1>4, <1>8, <1>10 DEF WorkerInv, WorkerPlace, Busy, Final
  <1>12. AttemptInv(w)'
    <2>1. \A k \in Guests : <<w, k>> \in Rows /\ (<<w, k>> = m => k = g)
      BY <1>4, <1>5, Shapes
    <2>2. \A k \in todo'[w] : rows'[<<w, k>>] = None
      BY <1>2, <1>3, <1>5, <1>8, <2>1 DEF AttemptInv
    <2>3. \A k \in Guests \ todo[w] : Copies(<<w, k>>) # {}
      BY <1>2, <1>3 DEF AttemptInv
    <2>4. \A k : Copies(<<w, k>>)' = Copies(<<w, k>>)
      BY <1>2 DEF Copies
    <2>5. \A k \in Guests \ todo'[w] : Copies(<<w, k>>)' # {} \/ cur'[w] = <<w, k>>
      BY <1>5, <1>8, <2>3, <2>4
    <2>6. rows'[cur'[w]] = Queued /\ \E k \in Guests \ todo'[w] : cur'[w] = <<w, k>>
      BY <1>5, <1>8
    <2> QED
      BY <1>2, <1>3, <1>8, <2>2, <2>5, <2>6, QueuedRow DEF AttemptInv
  <1>13. CampaignInv(j)'
    BY <1>2, <1>3, <1>4, <1>8, <1>9, CampaignGoesOn
  <1>14. \A e \in accepted : e[2] = w => CopyInv(e)'
    BY <1>2, <1>3, <1>4, <1>9, OwnCopiesStay
  <1>15. RowInv(m)'
    BY <1>8, QueuedRow DEF RowInv
  <1>16. JobInv(j)'
    BY <1>2, <1>4 DEF JobInv
  <1> QED
    BY <1>2, <1>4, <1>7, <1>8, <1>9, <1>11, <1>12, <1>13, <1>14, <1>15, <1>16, WorkerStep

\* A campaign is marked as sent when no guest is left: each has a message.
LEMMA FinishCampaignPreserves ==
    ASSUME IInv, NEW w \in Workers, FinishCampaign(w)
    PROVE  IInv'
  <1>1. /\ TypeOK /\ pc[w] = "next" /\ todo[w] = {} /\ WorkerInv(w) /\ AttemptInv(w)
        /\ pc' = [pc EXCEPT ![w] = "complete"]
        /\ campaign' = [campaign EXCEPT ![on[w]] = "sent"]
        /\ UNCHANGED <<rows, job, tries, stalls, accepted, fate, on, cur, got, todo>>
    BY DEF IInv, FinishCampaign, Goto, counts, outside, locals
  <1>2. PICK j \in Scheduled : j = on[w]
    BY <1>1, AtNext
  <1>3. /\ Busy(w) /\ w \in All /\ j \in Jobs /\ j \in Campaigns
        /\ job[j] = "active" /\ Alone(w, j) /\ JobInv(j)
    BY <1>1, <1>2, AtNext DEF Campaigns
  <1>4. TypeOK'
    <2>1. pc' \in [All -> HandlerPlace \cup WorkerPlace]
      BY <1>1, <1>3 DEF TypeOK, WorkerPlace
    <2>2. campaign' \in [Campaigns -> {"none", "scheduled", "sending", "sent"}]
      BY <1>1, <1>2, <1>3 DEF TypeOK
    <2> QED
      BY <1>1, <2>1, <2>2 DEF TypeOK
  <1>5. pc'[w] = "complete" /\ \A c \in Campaigns : campaign'[c] = IF c = j THEN "sent" ELSE campaign[c]
    BY <1>1, <1>2, <1>3 DEF TypeOK
  <1>6. WorkerMoves(w, j)
    <2>1. \A x \in All \ {w} : SameActor(x)
      BY <1>1 DEF SameActor, TypeOK
    <2> QED
      BY <1>1, <1>2, <1>3, <1>5, <2>1 DEF WorkerMoves, Busy
  <1>7. WorkerInv(w)'
    BY <1>1, <1>2, <1>3, <1>5 DEF WorkerInv, WorkerPlace, Busy, Final
  <1>8. AttemptInv(w)'
    BY <1>1, <1>2, <1>5 DEF AttemptInv
  <1>9. CampaignInv(j)'
    <2>1. \A g \in Guests : Copies(<<w, g>>)' # {}
      BY <1>1, <1>2 DEF AttemptInv, Copies
    <2> QED
      BY <1>1, <1>2, <1>3, <1>5, <1>6, <2>1, CampaignGoesOn
  <1>10. \A e \in accepted : e[2] = w => CopyInv(e)'
    BY <1>1, <1>2, <1>3, <1>6, OwnCopiesStay
  <1>11. JobInv(j)'
    BY <1>1, <1>3 DEF JobInv
  <1> QED
    BY <1>1, <1>3, <1>4, <1>6, <1>7, <1>8, <1>9, <1>10, <1>11, WorkerStep

\* A job is done: nobody else was at it, and nobody will be.
LEMMA CompleteJobPreserves ==
    ASSUME IInv, NEW w \in Workers, CompleteJob(w)
    PROVE  IInv'
  <1>1. /\ TypeOK /\ pc[w] = "complete" /\ WorkerInv(w) /\ AttemptInv(w)
        /\ pc' = [pc EXCEPT ![w] = "done"]
        /\ job' = [job EXCEPT ![on[w]] = "done"]
        /\ UNCHANGED <<rows, campaign, tries, stalls, accepted, fate, on, cur, got, todo>>
    BY DEF IInv, CompleteJob, Goto, counts, outside, locals
  <1>2. Busy(w) /\ w \in All
    BY <1>1 DEF Busy, Final, All
  <1>3. PICK j \in Jobs : j = on[w] /\ job[j] = "active" /\ Alone(w, j)
    BY <1>2, BusyAlone
  <1>4. TypeOK'
    <2>1. pc' \in [All -> HandlerPlace \cup WorkerPlace]
      BY <1>1, <1>2 DEF TypeOK, WorkerPlace, Final
    <2>2. job' \in [Jobs -> {"none", "waiting", "active", "done", "failed"}]
      BY <1>1, <1>3 DEF TypeOK
    <2> QED
      BY <1>1, <2>1, <2>2 DEF TypeOK
  <1>5. pc'[w] = "done" /\ \A k \in Jobs : job'[k] = IF k = j THEN "done" ELSE job[k]
    BY <1>1, <1>2, <1>3 DEF TypeOK
  <1>6. WorkerMoves(w, j)
    <2>1. \A x \in All \ {w} : SameActor(x)
      BY <1>1 DEF SameActor, TypeOK
    <2> QED
      BY <1>1, <1>2, <1>3, <1>5, <2>1 DEF WorkerMoves, Busy
  <1>7. WorkerInv(w)'
    BY <1>1, <1>2, <1>3, <1>5 DEF WorkerInv, WorkerPlace, Busy, Final
  <1>8. AttemptInv(w)'
    BY <1>1, <1>5 DEF AttemptInv
  <1>9. j \in Scheduled => CampaignInv(j)'
    BY <1>1, <1>2, <1>3, <1>5, <1>6, CampaignGoesOn
  <1>10. \A e \in accepted : e[2] = w => CopyInv(e)'
    BY <1>1, <1>2, <1>3, <1>6, OwnCopiesStay
  <1>11. JobInv(j)'
    BY <1>5 DEF JobInv
  <1> QED
    BY <1>1, <1>3, <1>4, <1>6, <1>7, <1>8, <1>9, <1>10, <1>11, WorkerStep

\* An attempt ends without finishing the job, in an error or with its worker: the job
\* is given back as long as there are attempts left.
LEMMA EndAttemptPreserves ==
    ASSUME IInv, NEW w \in Workers, FailAttempt(w) \/ CrashWorker(w)
    PROVE  IInv'
  <1> DEFINE failed == pc'[w] = "failed"
  <1>1. /\ TypeOK /\ Busy(w) /\ WorkerInv(w) /\ AttemptInv(w) /\ w \in All
        /\ pc' = [pc EXCEPT ![w] = pc'[w]] /\ pc'[w] \in {"failed", "dead"}
        /\ failed => /\ pc[w] = "throw" /\ stalls' = stalls
                     /\ tries' = [tries EXCEPT ![on[w]] = @ + 1]
                     /\ job' = [job EXCEPT ![on[w]] = AfterFailure(on[w])]
        /\ ~failed => /\ tries' = tries
                      /\ stalls' = [stalls EXCEPT ![on[w]] = @ + 1]
                      /\ job' = [job EXCEPT ![on[w]] = AfterStall(on[w])]
        /\ UNCHANGED <<rows, campaign, accepted, fate, on, cur, got, todo>>
    BY DEF IInv, FailAttempt, CrashWorker, Goto, outside, locals, TypeOK, All, Busy, Final
  <1> HIDE DEF failed
  <1>2. PICK j \in Jobs : j = on[w] /\ job[j] = "active" /\ Alone(w, j) /\ JobInv(j)
    BY <1>1, BusyAlone DEF IInv
  <1>3. /\ tries[j] \in Nat /\ stalls[j] \in Nat /\ Limit(j) \in Nat /\ Stalls \in Nat
        /\ CampaignAttempts \in Nat
        /\ tries[j] < Limit(j) /\ stalls[j] <= Stalls
    BY <1>1, <1>2, WhatsAppAssumption DEF TypeOK, JobInv, Limit
  <1>4. /\ \A k \in Jobs : job'[k] = IF k # j THEN job[k]
                                     ELSE IF failed THEN AfterFailure(j) ELSE AfterStall(j)
        /\ \A k \in Jobs : tries'[k] = IF k = j /\ failed THEN tries[j] + 1 ELSE tries[k]
        /\ \A k \in Jobs : stalls'[k] = IF k = j /\ ~failed THEN stalls[j] + 1 ELSE stalls[k]
    BY <1>1, <1>2 DEF TypeOK
  <1>5. job'[j] \in {"waiting", "failed"}
    BY <1>4 DEF AfterFailure, AfterStall
  <1>6. TypeOK'
    <2>1. pc' \in [All -> HandlerPlace \cup WorkerPlace]
      BY <1>1 DEF TypeOK, WorkerPlace, Final
    <2>2. job' \in [Jobs -> {"none", "waiting", "active", "done", "failed"}]
      BY <1>1, <1>2 DEF TypeOK, AfterFailure, AfterStall
    <2>3. tries' \in [Jobs -> Nat] /\ \A k \in Jobs : tries'[k] <= Limit(k)
      <3>1. tries' \in [Jobs -> Nat]
        BY <1>1, <1>2, <1>3 DEF TypeOK
      <3>2. \A k \in Jobs : tries[k] <= Limit(k)
        BY <1>1 DEF TypeOK
      <3> QED
        BY <1>3, <1>4, <3>1, <3>2
    <2>4. stalls' \in [Jobs -> 0 .. Stalls + 1]
      BY <1>1, <1>2, <1>3 DEF TypeOK
    <2> QED
      BY <1>1, <2>1, <2>2, <2>3, <2>4 DEF TypeOK, Limit
  <1>7. WorkerMoves(w, j)
    <2>1. \A x \in All \ {w} : SameActor(x)
      BY <1>1 DEF SameActor, TypeOK
    <2>2. \A k \in Jobs \ {j} : job'[k] = job[k] /\ tries'[k] = tries[k] /\ stalls'[k] = stalls[k]
      BY <1>4
    <2> QED
      BY <1>1, <1>2, <1>5, <2>1, <2>2 DEF WorkerMoves, Busy
  <1>8. WorkerInv(w)'
    BY <1>1, <1>2, <1>5 DEF WorkerInv, WorkerPlace, Busy, Final
  <1>9. AttemptInv(w)'
    BY <1>1 DEF AttemptInv
  <1>10. JobInv(j)'
    <2>1. Limit(j)' = Limit(j)
      BY DEF Limit
    <2>2. failed /\ job'[j] = "waiting" => tries[j] + 1 < Limit(j)
      BY <1>4 DEF AfterFailure
    <2>3. ~failed /\ job'[j] = "waiting" => stalls[j] < Stalls
      BY <1>4 DEF AfterStall
    <2> QED
      BY <1>3, <1>4, <1>5, <2>1, <2>2, <2>3 DEF JobInv
  <1>11. ASSUME j \in Scheduled PROVE CampaignInv(j)'
    <2>1. CampaignInv(j)
      BY <1>11 DEF IInv
    <2>2. \A v \in Workers \ {w} : SameActor(v)
      BY <1>7 DEF WorkerMoves, All
    <2>3. on'[w] = j /\ w \notin Ended(j, "failed") /\ w \notin Ended(j, "dead")
      BY <1>1, <1>2 DEF Ended, Busy, Final
    <2>4. /\ Ended(j, "failed")' = IF failed THEN Ended(j, "failed") \cup {w} ELSE Ended(j, "failed")
          /\ Ended(j, "dead")' = IF failed THEN Ended(j, "dead") ELSE Ended(j, "dead") \cup {w}
      BY <1>1, <2>2, <2>3 DEF Ended, SameActor, failed
    <2>5. IsFiniteSet(Ended(j, "failed")') /\ Cardinality(Ended(j, "failed")') = tries'[j]
      BY <1>4, <2>1, <2>3, <2>4, FS_AddElement DEF CampaignInv
    <2>6. IsFiniteSet(Ended(j, "dead")') /\ Cardinality(Ended(j, "dead")') = stalls'[j]
      BY <1>4, <2>1, <2>3, <2>4, FS_AddElement DEF CampaignInv
    <2>7. tries'[j] + stalls'[j] <= CampaignAttempts + Stalls
      <3>1. tries[j] + stalls[j] < CampaignAttempts + Stalls
        BY <1>2, <2>1 DEF CampaignInv
      <3> QED
        BY <1>3, <1>4, <3>1
    <2>8. campaign'[j] = "sent" => \A g \in Guests : \E v \in Workers : on'[v] = j /\ Copies(<<v, g>>)' # {}
      BY <1>1, <2>1 DEF CampaignInv, Copies
    <2> QED
      BY <1>5, <2>5, <2>6, <2>7, <2>8 DEF CampaignInv
  <1>12. \A e \in accepted : e[2] = w => CopyInv(e)'
    <2> SUFFICES ASSUME NEW e \in accepted, e[2] = w PROVE CopyInv(e)'
      OBVIOUS
    <2>1. /\ e[1] \in Rows /\ rows[e[1]] # None /\ w \notin Handlers
          /\ on[w] = e[1] \/ (on[w] \in Scheduled /\ e[1][1] = w)
          /\ rows[e[1]].status = "QUEUED" => pc[w] \in {"sent", "refused"} /\ cur[w] = e[1]
      BY <1>1, OwnCopies
    <2>2. rows[e[1]].status = "QUEUED" => Dropped(e)'
      <3> SUFFICES ASSUME rows[e[1]].status = "QUEUED" PROVE Dropped(e)'
        OBVIOUS
      <3>1. rows[e[1]] = Queued /\ pc[w] \in {"sent", "refused"}
        BY <1>1, <2>1 DEF WorkerInv
      <3>2. pc'[w] = "dead"
        BY <1>1, <3>1 DEF failed
      <3>3. e # None
        BY Types, <1>1, Shapes
      <3> QED
        BY <1>1, <3>1, <3>2, <3>3, QueuedRow DEF Dropped
    <2> QED
      BY <1>1, <2>1, <2>2 DEF CopyInv
  <1> QED
    BY <1>1, <1>2, <1>6, <1>7, <1>8, <1>9, <1>10, <1>11, <1>12, WorkerStep

\* Every step of a worker.
LEMMA WorkPreserves ==
    ASSUME IInv, NEW w \in Workers, Work(w) \/ CrashWorker(w)
    PROVE  IInv'
  BY TakeJobPreserves, ReadRowPreserves, SendPreserves, StorePreserves, NextGuestPreserves,
     FinishCampaignPreserves, CompleteJobPreserves, EndAttemptPreserves DEF Work

-----------------------------------------------------------------------------
(* The steps of the queue, the phones and the reports.                      *)

\* No handler and no worker moves; a campaign may be scheduled or its job queued, and
\* the status of a row that has an id may be overwritten.
OutsideMoves ==
    /\ \A x \in All : SameActor(x)
    /\ \A m \in Rows : rows'[m] = rows[m] \/ (/\ rows[m] # None /\ rows[m].ext # None /\ rows'[m] # None
                                              /\ rows'[m].ext = rows[m].ext
                                              /\ rows'[m].status # "QUEUED")
    /\ \A k \in Jobs : job'[k] = job[k] \/ (k \in Scheduled /\ job[k] = "none" /\ job'[k] = "waiting")
    /\ \A c \in Campaigns : campaign'[c] = campaign[c] \/ (c \in Scheduled /\ campaign'[c] # "sent")
    /\ UNCHANGED <<tries, stalls, accepted>> /\ fate \subseteq fate'

\* Putting the parts of such a step together.
LEMMA OutsideStep ==
    ASSUME IInv, TypeOK', OutsideMoves,
           \A m \in Rows : rows'[m] # rows[m] => RowInv(m)'
    PROVE  IInv'
  <1>1. RowsStay
    BY DEF OutsideMoves, RowsStay
  <1>2. \A x \in All : /\ SameActor(x) /\ NoNewRows(x)
                       /\ x \in Handlers => NoNewJobs(x) /\ campaign'[x] = campaign[x]
    <2> SUFFICES ASSUME NEW x \in All
                 PROVE  /\ SameActor(x) /\ NoNewRows(x)
                        /\ x \in Handlers => NoNewJobs(x) /\ campaign'[x] = campaign[x]
      OBVIOUS
    <2>1. \A g \in Guests : <<x, g>> \in Rows /\ <<x, g>> \notin Scheduled
      BY Shapes
    <2>2. x \in Handlers => x \in Campaigns /\ x \notin Scheduled /\ \A g \in Guests : <<x, g>> \in Jobs
      BY Shapes DEF Campaigns
    <2> QED
      BY <2>1, <2>2 DEF OutsideMoves, NoNewRows, NoNewJobs
  <1>3. \A h \in Handlers : HandlerInv(h)' /\ BulkInv(h)'
    BY <1>1, <1>2, FrameHandler DEF All
  <1>4. \A w \in Workers : WorkerInv(w)' /\ AttemptInv(w)'
    <2> SUFFICES ASSUME NEW w \in Workers PROVE WorkerInv(w)' /\ AttemptInv(w)'
      OBVIOUS
    <2>1. WorkerInv(w) /\ w \in All /\ (cur[w] # None => cur[w] \in Rows)
      BY Types DEF IInv, All
    <2>2. pc[w] \in {"read", "send", "sent", "refused"} /\ rows[cur[w]] = Queued => rows'[cur[w]] = Queued
      BY <2>1, QueuedRow DEF WorkerInv, OutsideMoves
    <2>3. on[w] \in Jobs => \/ job'[on[w]] = job[on[w]]
                            \/ pc[w] \in {"failed", "dead"} /\ job'[on[w]] # "none"
      <3> SUFFICES ASSUME on[w] \in Jobs, job[on[w]] = "none", job'[on[w]] = "waiting"
                   PROVE  pc[w] \in {"failed", "dead"}
        BY DEF OutsideMoves
      <3> QED
        BY <2>1, Shapes DEF WorkerInv, WorkerPlace, Busy, Final
    <2> QED
      BY <1>1, <1>2, <2>1, <2>2, <2>3, FrameWorker
  <1>5. \A e \in accepted : CopyInv(e)' /\ (Dropped(e) => Dropped(e)')
    <2> SUFFICES ASSUME NEW e \in accepted PROVE CopyInv(e)' /\ (Dropped(e) => Dropped(e)')
      OBVIOUS
    <2>1. e[1] \in Rows /\ e[2] \in All
      BY Types, Shapes DEF IInv
    <2>2. rows[e[1]] # None => rows'[e[1]].ext = rows[e[1]].ext
      BY <2>1 DEF OutsideMoves
    <2> QED
      BY <1>1, <1>2, <2>1, <2>2, FrameCopy
  <1>6. \A m \in Rows : RowInv(m)' /\ CopiesInv(m)'
    <2> SUFFICES ASSUME NEW m \in Rows PROVE RowInv(m)' /\ CopiesInv(m)'
      OBVIOUS
    <2>1. m \in SendJobs => (job[m] = "none" => job'[m] = "none")
      BY Shapes DEF OutsideMoves, Jobs
    <2>2. RowInv(m)'
      BY <1>1, <2>1, FrameRow
    <2>3. Copies(m)' = Copies(m) /\ \A e \in Copies(m) : Dropped(e) => Dropped(e)'
      BY <1>5 DEF Copies, OutsideMoves
    <2> QED
      BY <2>2, <2>3, FrameCopies
  <1>7. OneAttempt'
    <2>1. \A w \in Workers : SameActor(w)
      BY <1>2 DEF All
    <2> QED
      BY <2>1 DEF IInv, OneAttempt, SameActor
  <1>8. \A j \in Jobs : JobInv(j)'
    BY DEF IInv, JobInv, OutsideMoves
  <1>9. \A c \in Scheduled : CampaignInv(c)'
    <2> SUFFICES ASSUME NEW c \in Scheduled PROVE CampaignInv(c)'
      OBVIOUS
    <2>1. c \in Jobs /\ c \in Campaigns /\ \A w \in Workers : SameActor(w)
      BY <1>2 DEF Jobs, Campaigns, All
    <2>2. /\ job'[c] \in {"active", "done"} => job[c] \in {"active", "done"}
          /\ campaign'[c] = "sent" => campaign[c] = "sent"
      BY <2>1 DEF OutsideMoves
    <2> QED
      BY <2>1, <2>2, FrameCampaign DEF OutsideMoves
  <1> QED
    BY <1>3, <1>4, <1>5, <1>6, <1>7, <1>8, <1>9 DEF IInv, OutsideMoves

\* A campaign is scheduled, or its job is queued.
LEMMA SchedulePreserves ==
    ASSUME IInv, NEW c \in Scheduled, ScheduleCampaign(c) \/ EnqueueCampaign(c)
    PROVE  IInv'
  <1>1. /\ TypeOK /\ c \in Jobs /\ c \in Campaigns
        /\ UNCHANGED <<rows, tries, stalls, accepted, fate, pc, on, cur, got, todo>>
        /\ \/ campaign' = [campaign EXCEPT ![c] = "scheduled"] /\ job' = job
           \/ job' = [job EXCEPT ![c] = "waiting"] /\ job[c] = "none" /\ campaign' = campaign
    BY DEF IInv, ScheduleCampaign, EnqueueCampaign, counts, outside, locals, Jobs, Campaigns
  <1>2. TypeOK'
    BY <1>1 DEF TypeOK
  <1>3. OutsideMoves
    <2>1. \A x \in All : SameActor(x)
      BY <1>1 DEF SameActor
    <2>2. /\ \A k \in Jobs : job'[k] = job[k] \/ (k \in Scheduled /\ job[k] = "none" /\ job'[k] = "waiting")
          /\ \A d \in Campaigns : campaign'[d] = campaign[d] \/ (d \in Scheduled /\ campaign'[d] # "sent")
      BY <1>1 DEF TypeOK
    <2> QED
      BY <1>1, <2>1, <2>2 DEF OutsideMoves
  <1> QED
    BY <1>1, <1>2, <1>3, OutsideStep

\* Something becomes of a message.
LEMMA PhonePreserves ==
    ASSUME IInv, PhoneEvent
    PROVE  IInv'
  <1>1. PICK e \in accepted, s \in {"DELIVERED", "FAILED", "READ"} :
            fate' = fate \cup {<<e, s>>}
    BY DEF PhoneEvent, Traceable
  <1>2. TypeOK /\ UNCHANGED <<rows, campaign, job, tries, stalls, accepted, pc, on, cur, got, todo>>
    BY DEF IInv, PhoneEvent, counts, locals
  <1>3. TypeOK'
    BY <1>1, <1>2 DEF TypeOK
  <1>4. OutsideMoves
    BY <1>1, <1>2 DEF OutsideMoves, SameActor
  <1> QED
    BY <1>2, <1>3, <1>4, OutsideStep

\* A report overwrites the status of the rows that have the id.
LEMMA ReportPreserves ==
    ASSUME IInv, ReceiveReport
    PROVE  IInv'
  <1>1. PICK r \in Reports :
            rows' = [m \in Rows |-> IF m \in ReportedRows(r[1])
                                    THEN [rows[m] EXCEPT !.status = r[2]] ELSE rows[m]]
    BY DEF ReceiveReport
  <1>2. TypeOK /\ UNCHANGED <<campaign, job, tries, stalls, accepted, fate, pc, on, cur, got, todo>>
    BY DEF IInv, ReceiveReport, counts, outside, locals
  <1>3. /\ r[1] # None /\ r[2] \in {"SENT", "DELIVERED", "READ", "FAILED"}
        /\ r[2] \in {"DELIVERED", "READ"} => r \in fate /\ r = <<r[1], r[2]>>
    <2>1. accepted \subseteq Messages /\ fate \subseteq Messages \X {"DELIVERED", "READ", "FAILED"}
      BY <1>2 DEF TypeOK
    <2>2. CASE r \in fate
      BY <2>1, <2>2, Shapes
    <2>3. CASE \E e \in accepted : r = <<e, "SENT">>
      BY <2>1, <2>3, Shapes
    <2> QED
      BY <2>2, <2>3 DEF Reports
  <1>4. ASSUME NEW m \in Rows, m \in ReportedRows(r[1])
        PROVE  /\ rows[m] # None /\ rows[m].ext = r[1] /\ rows'[m] \in Row /\ rows'[m] # None
               /\ rows'[m].ext = r[1] /\ rows'[m].status = r[2]
    <2>1. rows[m] # None /\ rows[m].ext = r[1] /\ rows'[m] = [rows[m] EXCEPT !.status = r[2]]
      BY <1>1, <1>4 DEF ReportedRows
    <2>2. rows[m] \in Row
      BY <1>2, <2>1, Types
    <2>3. rows'[m] \in Row /\ rows'[m].ext = r[1] /\ rows'[m].status = r[2]
      BY <1>3, <2>1, <2>2 DEF Row, MessageStatus
    <2> QED
      BY <2>1, <2>3, Shapes
  <1>5. \A m \in Rows : m \notin ReportedRows(r[1]) => rows'[m] = rows[m]
    BY <1>1
  <1>6. TypeOK'
    <2>1. \A m \in Rows : rows'[m] \in Row \cup {None}
      BY <1>2, <1>4, <1>5 DEF TypeOK
    <2>2. rows' \in [Rows -> Row \cup {None}]
      BY <1>1, <2>1
    <2> QED
      BY <1>2, <2>2 DEF TypeOK
  <1>7. OutsideMoves
    <2>1. \A m \in Rows : rows'[m] = rows[m] \/ (/\ rows[m] # None /\ rows[m].ext # None /\ rows'[m] # None
                                                 /\ rows'[m].ext = rows[m].ext
                                                 /\ rows'[m].status # "QUEUED")
      BY <1>3, <1>4, <1>5
    <2> QED
      BY <1>2, <2>1 DEF OutsideMoves, SameActor
  <1>8. \A m \in Rows : m \in ReportedRows(r[1]) => RowInv(m)'
    <2> SUFFICES ASSUME NEW m \in Rows, m \in ReportedRows(r[1]) PROVE RowInv(m)'
      OBVIOUS
    <2>1. RowInv(m) /\ Copies(m)' = Copies(m)
      BY <1>2 DEF IInv, Copies
    <2>2. rows[m].ext = r[1] /\ rows'[m].ext = r[1] /\ rows'[m].status = r[2] /\ rows[m] # None
      BY <1>4
    <2>3. rows'[m].status \in {"DELIVERED", "READ"} => <<rows'[m].ext, rows'[m].status>> \in fate'
      BY <1>2, <1>3, <2>2
    <2> QED
      BY <1>3, <2>1, <2>2, <2>3 DEF RowInv
  <1> QED
    BY <1>5, <1>6, <1>7, <1>8, OutsideStep

-----------------------------------------------------------------------------
(* The theorems.                                                            *)

\* Every step keeps the invariant.
LEMMA NextIInv == IInv /\ [Next]_vars => IInv'
  <1> SUFFICES ASSUME IInv, [Next]_vars PROVE IInv'
    OBVIOUS
  <1>1. CASE Next
    <2>1. ASSUME NEW h \in Handlers,
                 \/ SendSingle(h) \/ SendBulk(h) \/ SendInvitation(h) \/ SendBulkInvitations(h)
                 \/ Serve(h) \/ CrashHandler(h)
          PROVE  IInv'
      BY <2>1, RequestPreserves, ServePreserves, HandlerEndsPreserves
    <2>2. ASSUME NEW c \in Scheduled, ScheduleCampaign(c) \/ EnqueueCampaign(c) PROVE IInv'
      BY <2>2, SchedulePreserves
    <2>3. ASSUME NEW w \in Workers, Work(w) \/ CrashWorker(w) PROVE IInv'
      BY <2>3, WorkPreserves
    <2> QED
      BY <1>1, <2>1, <2>2, <2>3, PhonePreserves, ReportPreserves DEF Next
  <1>2. CASE UNCHANGED vars
    <2>1. /\ TypeOK
          /\ UNCHANGED <<rows, campaign, job, tries, stalls, accepted, fate, pc, on, cur, got, todo>>
      BY <1>2 DEF IInv, vars, counts, outside, locals
    <2>2. TypeOK' /\ OutsideMoves
      BY <2>1 DEF TypeOK, OutsideMoves, SameActor
    <2> QED
      BY <2>1, <2>2, OutsideStep
  <1> QED
    BY <1>1, <1>2

\* The requests, the jobs, the rows and the accepted messages agree on who sent what, in
\* every state: the invariant the other theorems follow from.
THEOREM Invariance == Spec => []IInv
  BY InitIInv, NextIInv, PTL DEF Spec

\* Every variable keeps its type, and no job has more attempts than the queue counts.
THEOREM TypeCorrect == Spec => []TypeOK
  <1>1. IInv => TypeOK
    BY DEF IInv
  <1> QED
    BY <1>1, Invariance, PTL

\* A row never says of a message in somebody's phone what is not so: its id is that of a
\* message accepted for this row, and it is DELIVERED or READ only if the phone was.
THEOREM StatusesAreBacked == Spec => []StatusIsBacked
  <1>1. IInv => StatusIsBacked
    BY DEF IInv, RowInv, StatusIsBacked
  <1> QED
    BY <1>1, Invariance, PTL

\* A scheduled campaign that is marked as sent left a message for every guest with the
\* gateway, and a bulk send a job for every guest, whoever died on the way.
THEOREM SentCampaignsReachEveryGuest == Spec => []SentCampaignReachedEveryGuest
  <1>1. IInv => SentCampaignReachedEveryGuest
    BY DEF IInv, CampaignInv, BulkInv, Campaigns, SentCampaignReachedEveryGuest
  <1> QED
    BY <1>1, Invariance, PTL

\* The attempts of a campaign that sent a message to one guest: all but one ended.
LEMMA CampaignSenders ==
    ASSUME IInv, NEW c \in Scheduled, NEW S \in SUBSET Workers, \A w \in S : on[w] = c
    PROVE  /\ Cardinality(S) <= CampaignAttempts + Stalls
           /\ Cardinality(S) <= 1 + Cardinality({w \in S : pc[w] \in {"failed", "dead"}})
  <1> DEFINE F == Ended(c, "failed")
             D == Ended(c, "dead")
             E == {w \in S : pc[w] \in {"failed", "dead"}}
  <1>1. /\ CampaignInv(c) /\ TypeOK /\ c \in Jobs /\ c # None
        /\ tries[c] \in Nat /\ stalls[c] \in Nat /\ CampaignAttempts \in Nat /\ Stalls \in Nat
    BY WhatsAppAssumption DEF IInv, TypeOK, Jobs
  <1>2. IsFiniteSet(F \cup D) /\ Cardinality(F \cup D) = tries[c] + stalls[c]
    <2>1. F \cap D = {}
      BY DEF Ended
    <2>2. Cardinality(F \cap D) = 0
      BY <2>1, FS_EmptySet
    <2>3. IsFiniteSet(F) /\ IsFiniteSet(D) /\ Cardinality(F) = tries[c] /\ Cardinality(D) = stalls[c]
      BY <1>1 DEF CampaignInv
    <2>4. /\ IsFiniteSet(F \cup D)
          /\ Cardinality(F \cup D) = Cardinality(F) + Cardinality(D) - Cardinality(F \cap D)
      BY <2>3, FS_Union
    <2> QED
      BY <1>1, <2>2, <2>3, <2>4
  <1>3. E \subseteq F \cup D
    BY DEF Ended
  <1>4. IsFiniteSet(E) /\ Cardinality(E) <= tries[c] + stalls[c] /\ Cardinality(E) \in Nat
    <2>1. E \in SUBSET (F \cup D)
      BY <1>3
    <2>2. IsFiniteSet(E) /\ Cardinality(E) <= Cardinality(F \cup D)
      BY <1>2, <2>1, FS_Subset
    <2> QED
      BY <1>2, <2>2, FS_CardinalityType
  <1>5. CASE S = E
    <2>1. Cardinality(S) = Cardinality(E)
      BY <1>5
    <2>2. tries[c] + stalls[c] <= CampaignAttempts + Stalls
      BY <1>1 DEF CampaignInv
    <2> QED
      BY <1>1, <1>4, <2>1, <2>2
  <1>6. ASSUME NEW u \in S \ E
        PROVE  /\ Cardinality(S) = Cardinality(E) + 1
               /\ tries[c] + stalls[c] < CampaignAttempts + Stalls
    <2>1. \A v \in S \ E : pc[v] \notin {"idle", "failed", "dead"} /\ WorkerInv(v)
      BY <1>1 DEF IInv, WorkerInv
    <2>2. S \ E = {u}
      BY <2>1 DEF IInv, OneAttempt
    <2>3. S = E \cup {u} /\ u \notin E
      BY <2>2
    <2>4. Cardinality(E \cup {u}) = Cardinality(E) + 1
      BY <1>4, <2>3, FS_AddElement
    <2>5. job[c] \in {"active", "done"}
      BY <2>1 DEF WorkerInv, Busy, Final
    <2> QED
      BY <1>1, <2>3, <2>4, <2>5 DEF CampaignInv
  <1>7. CASE S # E
    <2>1. PICK u \in S \ E : TRUE
      BY <1>7
    <2>2. /\ Cardinality(S) = Cardinality(E) + 1
          /\ tries[c] + stalls[c] < CampaignAttempts + Stalls
      BY <1>6, <2>1
    <2> QED
      BY <1>1, <1>4, <2>2
  <1> QED
    BY <1>5, <1>7

\* A row's message reaches the gateway again only after the worker that sent it died
\* before it could record that, and a guest gets a campaign again only after an attempt
\* of its job failed or died, whatever is retried, found stalled or reported.
THEOREM NothingIsRepeatedInPeace == Spec => []RepeatedOnlyAfterFailure
  <1>1. IInv => RepeatedOnlyAfterFailure
    <2> SUFFICES ASSUME IInv PROVE RepeatedOnlyAfterFailure
      OBVIOUS
    <2>1. ASSUME NEW m \in Rows, NEW e \in Copies(m), NEW f \in Copies(m), e # f
          PROVE  \E x \in {e, f} : x[2] \in Workers /\ pc[x[2]] = "dead" /\ rows[m].ext # x
      <3>1. Dropped(e) \/ Dropped(f)
        BY <2>1 DEF IInv, CopiesInv
      <3>2. e[1] = m /\ f[1] = m
        BY DEF Copies
      <3> QED
        BY <3>1, <3>2 DEF Dropped
    <2>2. ASSUME NEW c \in Scheduled, NEW g \in Guests
          PROVE  LET senders == {w \in Workers : on[w] = c /\ Copies(<<w, g>>) # {}} IN
                 /\ Cardinality(senders) <= CampaignAttempts + Stalls
                 /\ Cardinality(senders) <= 1 + Cardinality({w \in senders : pc[w] \in {"failed", "dead"}})
      <3> DEFINE S == {w \in Workers : on[w] = c /\ Copies(<<w, g>>) # {}}
      <3>1. S \in SUBSET Workers /\ \A w \in S : on[w] = c
        OBVIOUS
      <3> HIDE DEF S
      <3>2. /\ Cardinality(S) <= CampaignAttempts + Stalls
            /\ Cardinality(S) <= 1 + Cardinality({w \in S : pc[w] \in {"failed", "dead"}})
        BY <3>1, CampaignSenders
      <3> QED
        BY <3>2 DEF S
    <2> QED
      BY <2>1, <2>2 DEF RepeatedOnlyAfterFailure
  <1> QED
    BY <1>1, Invariance, PTL
=============================================================================
