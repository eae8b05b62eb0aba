------------------------- MODULE EventPlanning_proofs -------------------------
(***************************************************************************)
(* Theorems about EventPlanning, for any number of requests at once.  Every *)
(* safety invariant follows from one inductive invariant, IInv, whose parts *)
(* follow the event with its cache, the analytics, the removals, the        *)
(* invitations, the answers and the contributions.                          *)
(***************************************************************************)
EXTENDS EventPlanning, FiniteSetTheorems, TLAPS

\* Where the requests of each kind can be.
PlaceInv(h) ==
    /\ pc[h] = "idle" => op[h] = None /\ got[h] = None /\ pre[h] = {}
    /\ pc[h] # "idle" => op[h] \in Op
    /\ pc[h] \in {"cache", "load", "fill"} => op[h] = "get"
    /\ pc[h] \in {"cached", "keep"} => op[h] = "stats"
    /\ pc[h] = "count" => op[h] \in {"stats", "report"}
    /\ pc[h] = "forget" => op[h] \in {"update", "remove"}
    /\ pc[h] = "code" => op[h] = "add"
    /\ pc[h] = "page" => op[h] = "import"
    /\ pc[h] = "ensure" => op[h] \in {"add", "import"}
    /\ pc[h] = "insert" => op[h] \in {"add", "import", "invite"}
    /\ pc[h] = "guest" => op[h] \in {"edit", "drop"}
    /\ pc[h] \in {"find", "answer", "save"} => op[h] = "rsvp"
    /\ pc[h] = "invitation" => op[h] \in {"revise", "publish", "discard", "preview"}
    /\ pc[h] = "reread" => op[h] = "preview"
    /\ pc[h] = "write" => op[h] \in {"update", "remove", "edit", "drop", "revise", "publish", "discard"}
    /\ pc[h] = "access" => op[h] \notin {"get", "rsvp"}

Place == {"idle", "cache", "load", "cached", "keep", "forget", "guest", "find", "invitation", "access"}
         \cup Acting \cup Final

\* What a request came with, and what it has not made yet.
ArgInv(h) ==
    /\ op[h] = "update" => arg[h] \subseteq Column
    /\ op[h] \in {"edit", "drop", "rsvp"} => arg[h].guest \in Guest /\ guests[arg[h].guest] # None
    /\ op[h] = "import" => arg[h] \in 1..Rows
    /\ op[h] \in {"revise", "publish", "discard", "preview"} =>
           arg[h].invitation \in Invitation /\ invitations[arg[h].invitation] # None
    /\ op[h] = "revise" => arg[h].parts \subseteq Part
    /\ op[h] = "report" => arg[h] \in SUBSET {"page", "TOTAL", "breakdown"}
    /\ pc[h] \notin {"code", "page", "ensure"} \cup Final =>
           (\A n \in 1..Rows : guests[<<h, n>>] = None) /\ invitations[h] = None
    /\ pc[h] = "code" => guests[<<h, 1>>] # None
    /\ pre[h] \subseteq Ended

Functions ==
    /\ pc \in [Handlers -> Place]
    /\ arg = [h \in Handlers |-> arg[h]] /\ got = [h \in Handlers |-> got[h]]
    /\ contributions \subseteq Guest

Base == TypeOK /\ Functions /\ \A h \in Handlers : PlaceInv(h) /\ ArgInv(h)

\* The event shows what was written to it.
EventInv(w) ==
    pc[w] \in {"forget", "done"} =>
        /\ op[w] = "update" => \A c \in arg[w] : event[c] \in Handlers \ pre[w]
        /\ op[w] = "remove" => event.deleted

WroteEvent(w) == op[w] \in {"update", "remove"} /\ pc[w] = "done"

\* A value that was loaded after the event was written.
CurrentValue(v) ==
    /\ v \in CachedEvent /\ pc[v.by] # "idle"
    /\ \A w \in pre[v.by] : WroteEvent(w) =>
          op[w] = "update" /\ \A c \in arg[w] : v.row[c] \in Handlers \ pre[w]

\* A value that was not loaded before the writer came.
NotOlder(v, w) == WroteEvent(w) => v.by \notin pre[w]

CacheInv == eventCache # None => CurrentValue(eventCache) /\ \A w \in Handlers : NotOlder(eventCache, w)

ReadInv(r) ==
    op[r] = "get" =>
        /\ pc[r] = "fill" => CurrentValue(got[r]) /\ got[r].by = r
        /\ pc[r] = "done" => CurrentValue(got[r]) /\ \A w \in pre[r] : NotOlder(got[r], w)

EventPart == CacheInv /\ \A h \in Handlers : EventInv(h) /\ ReadInv(h)

\* Counts that are exact now.
Answerers(c) == Cardinality({g \in Listed : Status(g) = c})

Exact(q, x) ==
    CASE q = "page" -> x = Listed
      [] q = "TOTAL" -> x = Cardinality(Listed)
      [] q = "breakdown" -> \A c \in DOMAIN x : x[c] = Answerers(c)
      [] OTHER -> x = Answerers(q)

CountsInv(v) ==
    /\ v.by \in Handlers /\ pc[v.by] # "idle"
    /\ GuestWriters \subseteq pre[v.by] => \A q \in DOMAIN v.counts : Exact(q, v.counts[q])

StatsInv(r) ==
    op[r] \in {"stats", "report"} =>
        /\ pc[r] \in {"count", "keep"} =>
              got[r].by = r /\ got[r] = [by |-> r, counts |-> got[r].counts]
        /\ pc[r] = "keep" => DOMAIN got[r].counts = Counter
        /\ pc[r] \in {"count", "keep", "done"} => CountsInv(got[r])

StatsPart == (statsCache # None => CountsInv(statsCache)) /\ \A h \in Handlers : StatsInv(h)

\* What was removed stays removed, and who comes later is turned away.
RemovedInv(h) ==
    pc[h] = "done" =>
        /\ op[h] = "remove" => event.deleted
        /\ op[h] = "drop" => guests[arg[h].guest].deleted
        /\ op[h] = "discard" => invitations[arg[h].invitation].deleted

SameGuest(h, k) == op[h] = "drop" /\ op[k] \in {"drop", "edit", "rsvp"} /\ arg[k].guest = arg[h].guest

SameInvitation(h, k) ==
    /\ op[h] = "discard" /\ op[k] \in {"revise", "publish", "discard", "preview"}
    /\ arg[k].invitation = arg[h].invitation

Barred(h, k) ==
    pc[h] = "done" /\ h \in pre[k] =>
        /\ op[h] = "remove" /\ op[k] # "rsvp" => pc[k] \notin Acting
        /\ SameGuest(h, k) \/ SameInvitation(h, k) => pc[k] \notin Acting \cup {"access"}

RemovalPart == \A h \in Handlers : RemovedInv(h) /\ \A k \in Handlers : Barred(h, k)

\* A row of an invitation that shows what w wrote, or something later.
Keeps(w, row) ==
    IF op[w] = "publish" THEN row.published
    ELSE \A p \in arg[w].parts :
             row[p] \in {k \in Handlers \ pre[w] : op[k] = "revise" /\ p \in arg[k].parts}

WroteInvitation(w) == op[w] \in {"revise", "publish"} /\ pc[w] = "done"

PreviewInv(r) ==
    op[r] = "preview" /\ pc[r] \in {"access", "reread", "done"} =>
        /\ got[r] = [row |-> got[r].row, event |-> got[r].event]
        /\ \A w \in pre[r] :
              WroteInvitation(w) /\ arg[w].invitation = arg[r].invitation => Keeps(w, got[r].row)

InvitationPart ==
    \A h \in Handlers :
        /\ WroteInvitation(h) => Keeps(h, invitations[arg[h].invitation])
        /\ PreviewInv(h)

\* The history of the answers, and the answer in each row.
ResponseInv(i) ==
    /\ op[responses[i].by] = "rsvp" /\ pc[responses[i].by] \in {"save", "done"}
    /\ arg[responses[i].by].guest = responses[i].guest

Latest(i) == \A j \in DOMAIN responses : responses[j].guest = responses[i].guest => j <= i

AnswerPart ==
    /\ \A i \in DOMAIN responses : ResponseInv(i)
    /\ \A i, j \in DOMAIN responses : i < j => responses[i].by # responses[j].by /\ responses[j].by \notin pre[responses[i].by]
    /\ \A h \in Handlers : pc[h] = "save" => \E i \in DOMAIN responses : responses[i].by = h
    /\ \A g \in Guest : guests[g] # None /\ guests[g].rsvp # None =>
          \E i \in DOMAIN responses : responses[i].by = guests[g].rsvp /\ responses[i].guest = g
    /\ \A i \in DOMAIN responses : Latest(i) /\ pc[responses[i].by] = "done" =>
          LET k == guests[responses[i].guest].rsvp IN
          k # None /\ (k = responses[i].by \/ k \notin pre[responses[i].by])

\* The guests that have a contribution, or will have one.
Known == {g \in Guest : guests[g] # None}

Wanted(h) == contributions \cup got[h].look \cup got[h].make

\* Guests of an import that are left out are outweighed by others.
Outweighed(h, S) ==
    Cardinality({g \in Imported(h) : ~guests[g].deleted /\ g \notin S}) <= Cardinality(S \ Imported(h))

EnsureInv(h) ==
    op[h] \in {"add", "import"} =>
        /\ pc[h] \in {"access", "insert", "code", "page"} => got[h] = None
        /\ pc[h] = "ensure" \/ (pc[h] = "failed" /\ got[h] # None) =>
              /\ got[h] \in [look : SUBSET Guest, make : SUBSET Guest]
              /\ got[h].look \cup got[h].make \subseteq Known
        /\ op[h] = "add" => /\ pc[h] = "ensure" => <<h, 1>> \in Wanted(h)
                            /\ pc[h] = "done" => <<h, 1>> \in contributions
        /\ op[h] = "import" => /\ pc[h] \in {"page", "ensure", "done"} => Imported(h) \subseteq Known
                               /\ pc[h] = "ensure" => Outweighed(h, Wanted(h))
                               /\ pc[h] = "done" => Outweighed(h, contributions)

ContributionPart == IsFiniteSet(Known) /\ \A h \in Handlers : EnsureInv(h)

IInv ==
    /\ Base /\ EventPart /\ StatsPart /\ RemovalPart
    /\ InvitationPart /\ AnswerPart /\ ContributionPart

-----------------------------------------------------------------------------
(* What the steps do.                                                       *)

\* A request of some kind comes in, with what requests of that kind come with.
Arrival(h, kind, x, first) ==
    /\ kind \in Op /\ Start(h, kind, x, first)
    /\ first = CASE kind = "get" -> "cache"
                 [] kind = "stats" -> "cached"
                 [] kind \in {"edit", "drop"} -> "guest"
                 [] kind = "rsvp" -> "find"
                 [] kind \in {"revise", "publish", "discard", "preview"} -> "invitation"
                 [] OTHER -> "access"
    /\ kind = "update" => x \subseteq Column
    /\ kind \in {"edit", "drop", "rsvp"} => x.guest \in Guest /\ guests[x.guest] # None
    /\ kind = "import" => x \in 1..Rows
    /\ kind \in {"revise", "publish", "discard", "preview"} =>
           x.invitation \in Invitation /\ invitations[x.invitation] # None
    /\ kind = "revise" => x.parts \subseteq Part
    /\ kind = "report" => x \in SUBSET {"page", "TOTAL", "breakdown"}

\* Every arrival is one of these.
LEMMA ArriveStart ==
    ASSUME NEW h \in Handlers, Arrive(h)
    PROVE  \E kind, x, first : Arrival(h, kind, x, first)
<1> USE DEF Arrival, Op
<1>1. CASE GetEvent(h)
  BY <1>1 DEF GetEvent
<1>11. CASE GetStats(h)
  BY <1>11 DEF GetStats
<1>2. CASE UpdateEvent(h)
  <2>1. PICK cs \in SUBSET Column \ {{}} : Start(h, "update", cs, "access")
    BY <1>2 DEF UpdateEvent
  <2>2. Arrival(h, "update", cs, "access")
    BY <2>1
  <2> QED BY <2>2
<1>3. CASE UploadCover(h) \/ UpdateSettings(h)
  BY SMTT(30), <1>3 DEF UploadCover, UpdateSettings, Column
<1>4. CASE DeleteEvent(h) \/ AddGuest(h) \/ CreateInvitation(h)
  BY <1>4 DEF DeleteEvent, AddGuest, CreateInvitation
<1>5. CASE ListGuests(h) \/ ExportGuests(h) \/ RsvpAnalytics(h)
  BY <1>5 DEF ListGuests, ExportGuests, RsvpAnalytics
<1>6. CASE EditGuest(h) \/ DropGuest(h)
  <2>1. PICK g \in Guest, kind \in {"edit", "drop"} :
           guests[g] # None /\ Start(h, kind, [guest |-> g], "guest")
    BY <1>6 DEF EditGuest, DropGuest
  <2>2. Arrival(h, kind, [guest |-> g], "guest")
    BY <2>1
  <2> QED BY <2>2
<1>7. CASE ImportGuests(h)
  BY <1>7 DEF ImportGuests
<1>8. CASE Respond(h)
  <2>1. PICK g \in Guest, a \in Answers :
           guests[g] # None /\ Start(h, "rsvp", [guest |-> g, answer |-> a], "find")
    BY <1>8 DEF Respond
  <2>2. Arrival(h, "rsvp", [guest |-> g, answer |-> a], "find")
    BY <2>1
  <2> QED BY <2>2
<1>9. CASE ReviseInvitation(h)
  <2>1. PICK i \in Invitation, ps \in SUBSET Part \ {{}} :
           invitations[i] # None /\ Start(h, "revise", [invitation |-> i, parts |-> ps], "invitation")
    BY <1>9 DEF ReviseInvitation
  <2>2. Arrival(h, "revise", [invitation |-> i, parts |-> ps], "invitation")
    BY <2>1
  <2> QED BY <2>2
<1>10. CASE PublishInvitation(h) \/ DeleteInvitation(h) \/ PreviewInvitation(h)
  <2>1. PICK i \in Invitation, kind \in {"publish", "discard", "preview"} :
           invitations[i] # None /\ Start(h, kind, [invitation |-> i], "invitation")
    BY <1>10 DEF PublishInvitation, DeleteInvitation, PreviewInvitation, OnInvitation
  <2>2. Arrival(h, kind, [invitation |-> i], "invitation")
    BY <2>1
  <2> QED BY <2>2
<1> QED BY <1>1, <1>2, <1>3, <1>4, <1>5, <1>6, <1>7, <1>8, <1>9, <1>10, <1>11 DEF Arrive

\* What an arrival changes: the new request alone.
LEMMA ArrivalFrame ==
    ASSUME Base, NEW h \in Handlers, NEW kind, NEW x, NEW first, Arrival(h, kind, x, first)
    PROVE  /\ UNCHANGED <<tables, caches, got>>
           /\ pc[h] = "idle" /\ pc' = [pc EXCEPT ![h] = first]
           /\ first \in {"cache", "cached", "access", "guest", "find", "invitation"}
           /\ op' = [op EXCEPT ![h] = kind] /\ op[h] = None /\ got[h] = None
           /\ arg' = [arg EXCEPT ![h] = x] /\ pre' = [pre EXCEPT ![h] = Ended]
           /\ op'[h] = kind /\ arg'[h] = x /\ pre'[h] = Ended /\ pc'[h] = first
           /\ \A k \in Handlers \ {h} : pc'[k] = pc[k] /\ op'[k] = op[k] /\ arg'[k] = arg[k] /\ pre'[k] = pre[k]
           /\ Ended' = Ended /\ h \notin Ended
BY DEF Arrival, Start, Goto, Base, TypeOK, Functions, PlaceInv, Ended, Final

\* What a step of a request leaves alone: what it came with, and the others.
Steps(h) ==
    /\ op' = op /\ arg' = arg /\ pre' = pre
    /\ pc[h] \notin {"idle", "done"} /\ pc'[h] # "idle" /\ pc'[h] \in Place
    /\ pc[h] = "failed" => pc'[h] = "failed"
    /\ pc' = [pc EXCEPT ![h] = pc'[h]] /\ got' = [got EXCEPT ![h] = got'[h]]

\* A step of a handler in flight is one of these.
LEMMA RunSteps ==
    ASSUME Base, NEW h \in Handlers, Run(h)
    PROVE  Steps(h)
<1> USE DEF Base, Functions, Steps, Goto, locals, Place, Acting, Final
<1>1. CASE \/ ReadEventCache(h) \/ LoadEvent(h) \/ FillEventCache(h)
           \/ WriteEvent(h) \/ ForgetEvent(h) \/ ReadStatsCache(h) \/ KeepStats(h)
  BY <1>1 DEF ReadEventCache, LoadEvent, FillEventCache, WriteEvent, ForgetEvent, ReadStatsCache, KeepStats
<1>2. CASE CheckAccess(h)
  BY <1>2 DEF CheckAccess, Admitted
<1>3. CASE CountOne(h)
  <2>1. PICK x : got' = [got EXCEPT ![h].counts = x]
    BY <1>3 DEF CountOne
  <2>2. got' = [got EXCEPT ![h] = got'[h]]
    BY <2>1
  <2>3. PICK to \in {"count", "keep", "done"} : pc[h] = "count" /\ pc' = [pc EXCEPT ![h] = to]
    BY <1>3 DEF CountOne
  <2> QED BY <2>2, <2>3, <1>3 DEF CountOne
<1>4. CASE FindGuest(h) \/ InsertGuest(h) \/ StoreCode(h) \/ InsertMany(h) \/ ReadPage(h) \/ WriteGuest(h)
  BY <1>4 DEF FindGuest, InsertGuest, StoreCode, InsertMany, ReadPage, WriteGuest
<1>5. CASE LookUp(h) \/ InsertContribution(h)
  BY <1>5 DEF LookUp, InsertContribution, AfterEnsure
<1>6. CASE \/ UnknownTemplate(h) \/ InsertInvitation(h) \/ FindInvitation(h)
           \/ ReadPreviewedEvent(h) \/ WriteInvitation(h)
           \/ FindByCode(h) \/ InsertResponse(h) \/ SaveAnswer(h)
  BY <1>6 DEF UnknownTemplate, InsertInvitation, FindInvitation, ReadPreviewedEvent,
              WriteInvitation, FindByCode, InsertResponse, SaveAnswer
<1> QED BY <1>1, <1>2, <1>3, <1>4, <1>5, <1>6 DEF Run

\* What stays true of every request, whatever happens: the one that takes a step
\* had not finished before, so nobody came after it.
Others(h) ==
    /\ \A k \in Handlers \ {h} : /\ pc'[k] = pc[k] /\ op'[k] = op[k] /\ arg'[k] = arg[k]
                                 /\ got'[k] = got[k] /\ pre'[k] = pre[k]
    /\ h \in Handlers /\ pc'[h] # "idle"
    /\ \A k \in Handlers : h \in pre[k] => pc[h] = "failed"
    /\ \A k \in Handlers : pc[k] \in Final => pc'[k] = pc[k]
    /\ \A k \in Handlers : pc[k] # "idle" => op'[k] = op[k] /\ arg'[k] = arg[k] /\ pre'[k] = pre[k]
    /\ \A k \in Handlers : pre[k] \subseteq Ended
    /\ Ended \subseteq Ended'

\* A step of one handler leaves the locals of the others alone.
LEMMA OthersStay ==
    ASSUME Base, NEW h \in Handlers, Arrive(h) \/ Run(h)
    PROVE  Others(h)
<1>1. \A k \in Handlers : pre[k] \subseteq Ended
  BY DEF Base, ArgInv
<1>2. CASE Arrive(h)
  <2>1. PICK kind, x, first : Arrival(h, kind, x, first)
    BY <1>2, ArriveStart
  <2> QED BY <1>1, <2>1, ArrivalFrame DEF Others, Ended, Final, Base, Functions, PlaceInv
<1>3. CASE Run(h)
  <2>1. Steps(h)
    BY <1>3, RunSteps
  <2> QED BY <1>1, <2>1 DEF Steps, Others, Ended, Final, Base, Functions, TypeOK
<1> QED BY <1>2, <1>3

\* Who writes what.
LEMMA Writers ==
    ASSUME NEW h \in Handlers, Run(h)
    PROVE  /\ event' = event \/ WriteEvent(h)
           /\ eventCache' = eventCache \/ FillEventCache(h) \/ ForgetEvent(h)
           /\ statsCache' = statsCache \/ KeepStats(h)
           /\ guests' = guests \/ InsertGuest(h) \/ StoreCode(h) \/ InsertMany(h) \/ WriteGuest(h) \/ SaveAnswer(h)
           /\ contributions' = contributions \/ InsertContribution(h)
           /\ responses' = responses \/ InsertResponse(h)
           /\ invitations' = invitations \/ InsertInvitation(h) \/ WriteInvitation(h)
<1> USE DEF tables, caches, locals
<1>1. CASE \/ ReadEventCache(h) \/ LoadEvent(h) \/ FillEventCache(h)
           \/ WriteEvent(h) \/ ForgetEvent(h) \/ ReadStatsCache(h) \/ KeepStats(h)
  BY <1>1 DEF ReadEventCache, LoadEvent, FillEventCache, WriteEvent, ForgetEvent, ReadStatsCache, KeepStats
<1>2. CASE CheckAccess(h) \/ CountOne(h) \/ FindGuest(h) \/ ReadPage(h) \/ LookUp(h) \/ UnknownTemplate(h)
  BY <1>2 DEF CheckAccess, CountOne, FindGuest, ReadPage, LookUp, UnknownTemplate
<1>3. CASE InsertGuest(h) \/ StoreCode(h) \/ InsertMany(h) \/ WriteGuest(h) \/ SaveAnswer(h)
  BY <1>3 DEF InsertGuest, StoreCode, InsertMany, WriteGuest, SaveAnswer
<1>4. CASE InsertContribution(h) \/ InsertInvitation(h) \/ FindInvitation(h) \/ ReadPreviewedEvent(h)
           \/ WriteInvitation(h) \/ FindByCode(h) \/ InsertResponse(h)
  BY <1>4 DEF InsertContribution, InsertInvitation, FindInvitation, ReadPreviewedEvent, WriteInvitation,
              FindByCode, InsertResponse
<1> QED BY <1>1, <1>2, <1>3, <1>4 DEF Run

\* Which step a request of a kind takes next, and where it leads.
LEMMA Course ==
    ASSUME Base, NEW h \in Handlers, Run(h)
    PROVE  /\ op[h] = "get" => ReadEventCache(h) \/ LoadEvent(h) \/ FillEventCache(h)
           /\ op[h] \in {"update", "remove"} => CheckAccess(h) \/ WriteEvent(h) \/ ForgetEvent(h)
           /\ op[h] \in {"stats", "report"} => ReadStatsCache(h) \/ CheckAccess(h) \/ CountOne(h) \/ KeepStats(h)
           /\ op[h] \in {"edit", "drop"} => FindGuest(h) \/ CheckAccess(h) \/ WriteGuest(h)
           /\ op[h] = "add" => CheckAccess(h) \/ InsertGuest(h) \/ StoreCode(h) \/ LookUp(h) \/ InsertContribution(h)
           /\ op[h] = "import" =>
                  CheckAccess(h) \/ InsertMany(h) \/ ReadPage(h) \/ LookUp(h) \/ InsertContribution(h)
           /\ op[h] = "rsvp" => FindByCode(h) \/ InsertResponse(h) \/ SaveAnswer(h)
           /\ op[h] = "invite" => CheckAccess(h) \/ UnknownTemplate(h) \/ InsertInvitation(h)
           /\ op[h] \in {"revise", "publish", "discard"} =>
                  FindInvitation(h) \/ CheckAccess(h) \/ WriteInvitation(h)
           /\ op[h] = "preview" => FindInvitation(h) \/ CheckAccess(h) \/ ReadPreviewedEvent(h)
           /\ op[h] \in Op
<1>0. op[h] \in Op
  BY RunSteps DEF Base, PlaceInv, Steps
<1> USE DEF Base, PlaceInv, Goto
<1>1. CASE \/ ReadEventCache(h) \/ LoadEvent(h) \/ FillEventCache(h)
           \/ WriteEvent(h) \/ ForgetEvent(h) \/ ReadStatsCache(h) \/ KeepStats(h)
  <2>1. /\ ReadEventCache(h) \/ LoadEvent(h) \/ FillEventCache(h) => op[h] = "get"
        /\ WriteEvent(h) \/ ForgetEvent(h) => op[h] \in {"update", "remove"}
        /\ ReadStatsCache(h) \/ KeepStats(h) => op[h] = "stats"
    BY DEF ReadEventCache, LoadEvent, FillEventCache, WriteEvent, ForgetEvent, ReadStatsCache, KeepStats
  <2> QED BY <1>0, <1>1, <2>1
<1>2. CASE CheckAccess(h) \/ CountOne(h) \/ UnknownTemplate(h)
  <2>1. /\ CheckAccess(h) => op[h] \notin {"get", "rsvp"}
        /\ CountOne(h) => op[h] \in {"stats", "report"}
        /\ UnknownTemplate(h) => op[h] = "invite"
    BY DEF CheckAccess, CountOne, UnknownTemplate
  <2> QED BY <1>0, <1>2, <2>1 DEF Op
<1>3. CASE FindGuest(h) \/ WriteGuest(h) \/ InsertGuest(h) \/ StoreCode(h) \/ InsertMany(h) \/ ReadPage(h)
           \/ LookUp(h) \/ InsertContribution(h)
  <2>1. /\ FindGuest(h) \/ WriteGuest(h) => op[h] \in {"edit", "drop"}
        /\ InsertGuest(h) \/ StoreCode(h) => op[h] = "add"
        /\ InsertMany(h) \/ ReadPage(h) => op[h] = "import"
        /\ LookUp(h) \/ InsertContribution(h) => op[h] \in {"add", "import"}
    BY DEF FindGuest, WriteGuest, InsertGuest, StoreCode, InsertMany, ReadPage, LookUp, InsertContribution
  <2> QED BY <1>0, <1>3, <2>1
<1>4. CASE \/ InsertInvitation(h) \/ FindInvitation(h) \/ ReadPreviewedEvent(h) \/ WriteInvitation(h)
           \/ FindByCode(h) \/ InsertResponse(h) \/ SaveAnswer(h)
  <2>1. /\ InsertInvitation(h) => op[h] = "invite"
        /\ FindInvitation(h) => op[h] \in {"revise", "publish", "discard", "preview"}
        /\ ReadPreviewedEvent(h) => op[h] = "preview"
        /\ WriteInvitation(h) => op[h] \in {"revise", "publish", "discard"}
        /\ FindByCode(h) \/ InsertResponse(h) \/ SaveAnswer(h) => op[h] = "rsvp"
    BY DEF InsertInvitation, FindInvitation, ReadPreviewedEvent, WriteInvitation,
           FindByCode, InsertResponse, SaveAnswer
  <2> QED BY <1>0, <1>4, <2>1
<1> QED BY <1>1, <1>2, <1>3, <1>4 DEF Run

-----------------------------------------------------------------------------
(* The event and its cache.                                                 *)

\* A handler that wrote the event and was answered had then deleted the key.
LEMMA WritersForget ==
    ASSUME Base, NEW h \in Handlers, Run(h), op[h] \in {"update", "remove"}, pc'[h] \in {"forget", "done"}
    PROVE  WriteEvent(h) \/ (ForgetEvent(h) /\ eventCache' = None)
BY Course DEF CheckAccess, Goto, Admitted, ForgetEvent, Forgets, Base, Functions

\* What was written to the event stays in it until somebody else writes it.
LEMMA EventStays ==
    ASSUME Base, NEW h \in Handlers, Arrive(h) \/ Run(h), NEW w \in Handlers, EventInv(w)
    PROVE  EventInv(w)'
<1>0. Others(h)
  BY OthersStay
<1>1. CASE Arrive(h)
  <2>1. PICK kind, x, first : Arrival(h, kind, x, first)
    BY <1>1, ArriveStart
  <2>2. event' = event
    BY <2>1, ArrivalFrame DEF tables
  <2>3. CASE w = h
    BY <2>1, <2>3, ArrivalFrame DEF EventInv
  <2>4. CASE w # h
    BY <1>0, <2>2, <2>4 DEF EventInv, Others
  <2> QED BY <2>3, <2>4
<1>2. CASE Run(h)
  <2>0. Steps(h)
    BY <1>2, RunSteps
  <2>1. h \notin pre[w] \/ pc[h] = "failed"
    BY <1>0 DEF Others
  <2>2. CASE WriteEvent(h)
    <3>1. /\ pc[h] = "write" /\ pc' = [pc EXCEPT ![h] = "forget"] /\ op[h] \in {"update", "remove"}
          /\ event' = IF op[h] = "remove" THEN [event EXCEPT !.deleted = TRUE] ELSE Updated(h)
      BY <2>2 DEF WriteEvent, Goto
    <3>2. /\ event'.deleted = (event.deleted \/ op[h] = "remove")
          /\ op[h] = "remove" => event'.details = event.details /\ event'.settings = event.settings
          /\ op[h] = "update" => /\ event'.details = IF "details" \in arg[h] THEN h ELSE event.details
                                 /\ event'.settings = IF "settings" \in arg[h] THEN h ELSE event.settings
      BY <3>1 DEF Updated, Base, TypeOK, Row
    <3>3. CASE w = h
      <4>1. op'[w] = op[w] /\ arg'[w] = arg[w] /\ pre'[w] = pre[w] /\ h \notin pre[w]
        BY <2>0, <2>1, <3>1 DEF Steps
      <4>2. op[w] = "update" => arg[w] \subseteq Column
        BY DEF Base, ArgInv
      <4>3. op[w] = "update" => \A c \in arg[w] : event'[c] = h
        BY <3>2, <3>3, <4>2 DEF Column
      <4> QED BY <3>1, <3>2, <3>3, <4>1, <4>3 DEF EventInv
    <3>4. CASE w # h
      <4>1. pc'[w] = pc[w] /\ op'[w] = op[w] /\ arg'[w] = arg[w] /\ pre'[w] = pre[w] /\ h \notin pre[w]
        BY <1>0, <2>1, <3>1, <3>4 DEF Others
      <4>2. op[w] = "update" => arg[w] \subseteq Column
        BY DEF Base, ArgInv
      <4>3. \A c \in Column : event'[c] \in {event[c], h}
        BY <3>1, <3>2 DEF Column
      <4> QED BY <3>2, <4>1, <4>2, <4>3 DEF EventInv
    <3> QED BY <3>3, <3>4
  <2>3. CASE event' = event
    <3>1. CASE w = h
      <4>1. CASE op[h] \in {"update", "remove"} /\ pc'[h] \in {"forget", "done"} /\ ~WriteEvent(h)
        <5>1. pc[h] = "forget"
          BY <1>2, <4>1, WritersForget DEF ForgetEvent, Goto
        <5> QED BY <2>0, <2>3, <3>1, <5>1 DEF EventInv, Steps
      <4> QED BY <2>0, <2>2, <3>1, <4>1 DEF EventInv, Steps
    <3>2. CASE w # h
      BY <1>0, <2>3, <3>2 DEF EventInv, Others
    <3> QED BY <3>1, <3>2
  <2> QED BY <1>2, <2>2, <2>3, Writers
<1> QED BY <1>1, <1>2

\* A value that is current stays so: who came before its reader has finished.
LEMMA CurrentStays ==
    ASSUME Base, NEW h \in Handlers, Arrive(h) \/ Run(h), NEW v, CurrentValue(v)
    PROVE  /\ v \in CachedEvent /\ pc'[v.by] # "idle"
           /\ \A w \in pre'[v.by] : op'[w] \in {"update", "remove"} /\ pc'[w] = "done" =>
                 op'[w] = "update" /\ \A c \in arg'[w] : v.row[c] \in Handlers \ pre'[w]
<1>1. Others(h)
  BY OthersStay
<1>2. v.by \in Handlers /\ pc[v.by] # "idle" /\ v \in CachedEvent
  BY DEF CurrentValue, CachedEvent
<1>3. pre'[v.by] = pre[v.by] /\ pc'[v.by] # "idle"
  BY <1>1, <1>2 DEF Others
<1>4. ASSUME NEW w \in pre[v.by], op'[w] \in {"update", "remove"}, pc'[w] = "done"
      PROVE  op'[w] = "update" /\ \A c \in arg'[w] : v.row[c] \in Handlers \ pre'[w]
  <2>1. w \in Handlers /\ pc[w] \in Final /\ pc[w] # "idle"
    BY <1>1, <1>2 DEF Others, Ended, Final
  <2>2. pc'[w] = pc[w] /\ op'[w] = op[w] /\ arg'[w] = arg[w] /\ pre'[w] = pre[w]
    BY <1>1, <2>1 DEF Others
  <2> QED BY <1>4, <2>2 DEF CurrentValue, WroteEvent
<1> QED BY <1>2, <1>3, <1>4

\* The cached event stays current, and is not older than a write that was answered.
LEMMA CacheStays ==
    ASSUME Base, EventPart, NEW h \in Handlers, Arrive(h) \/ Run(h)
    PROVE  CacheInv'
<1>0. Others(h)
  BY OthersStay
<1>1. CASE eventCache' = None
  BY <1>1 DEF CacheInv
<1>2. CASE eventCache' # None /\ eventCache' = eventCache
  <2>1. CurrentValue(eventCache) /\ \A w \in Handlers : NotOlder(eventCache, w)
    BY <1>2 DEF EventPart, CacheInv
  <2>2. CurrentValue(eventCache)'
    BY <1>2, <2>1, CurrentStays DEF CurrentValue, WroteEvent
  <2>3. ASSUME NEW w \in Handlers, op'[w] \in {"update", "remove"}, pc'[w] = "done"
        PROVE  eventCache.by \notin pre'[w]
    <3>1. CASE w = h
      <4>1. CASE Arrive(h)
        <5>1. PICK kind, x, first : Arrival(h, kind, x, first)
          BY <4>1, ArriveStart
        <5> QED BY <2>3, <3>1, <5>1, ArrivalFrame
      <4>2. CASE Run(h)
        BY <1>2, <2>3, <3>1, <4>2, WritersForget, RunSteps DEF Steps, WriteEvent, Goto, Base, Functions
      <4> QED BY <4>1, <4>2
    <3>2. CASE w # h
      BY <1>0, <2>1, <2>3, <3>2 DEF Others, NotOlder, WroteEvent
    <3> QED BY <3>1, <3>2
  <2> QED BY <1>2, <2>2, <2>3 DEF CacheInv, NotOlder, WroteEvent
<1>3. CASE Run(h) /\ FillEventCache(h)
  <2>1. /\ pc[h] = "fill" /\ eventCache' = got[h] /\ op[h] = "get" /\ got' = got
        /\ op' = op /\ arg' = arg /\ pre' = pre /\ pc' = [pc EXCEPT ![h] = "done"]
    BY <1>3 DEF FillEventCache, Goto, locals, Base, PlaceInv
  <2>2. CurrentValue(got[h]) /\ got[h].by = h
    BY <2>1 DEF EventPart, ReadInv
  <2>3. CurrentValue(got[h])'
    BY <2>1, <2>2, CurrentStays DEF CurrentValue, WroteEvent
  <2>4. \A w \in Handlers : h \notin pre[w]
    BY <1>0, <2>1 DEF Others
  <2> QED BY <2>1, <2>2, <2>3, <2>4 DEF CacheInv, NotOlder, CurrentValue, WroteEvent
<1>4. CASE Run(h) /\ ForgetEvent(h)
  BY <1>1, <1>4 DEF ForgetEvent, Forgets
<1>5. CASE Arrive(h)
  <2>1. PICK kind, x, first : Arrival(h, kind, x, first)
    BY <1>5, ArriveStart
  <2> QED BY <1>1, <1>2, <2>1, ArrivalFrame DEF caches
<1> QED BY <1>1, <1>2, <1>3, <1>4, <1>5, Writers

\* What a request for the event holds stays current.
LEMMA ReadsStay ==
    ASSUME Base, EventPart, NEW h \in Handlers, Arrive(h) \/ Run(h), NEW r \in Handlers
    PROVE  ReadInv(r)'
<1>0. Others(h)
  BY OthersStay
<1>1. CASE r # h
  <2>1. pc'[r] = pc[r] /\ op'[r] = op[r] /\ got'[r] = got[r] /\ pre'[r] = pre[r]
    BY <1>0, <1>1 DEF Others
  <2>2. CASE op[r] = "get" /\ pc[r] \in {"fill", "done"}
    <3>1. CurrentValue(got[r])
      BY <2>2 DEF EventPart, ReadInv
    <3>2. CurrentValue(got[r])'
      BY <2>1, <3>1, CurrentStays DEF CurrentValue, WroteEvent
    <3>3. ASSUME pc[r] = "done", NEW w \in pre[r], op'[w] \in {"update", "remove"}, pc'[w] = "done"
          PROVE  got[r].by \notin pre'[w]
      <4>1. w \in Handlers /\ pc[w] \in Final /\ pc[w] # "idle"
        BY <1>0 DEF Others, Ended, Final
      <4>2. pc'[w] = pc[w] /\ op'[w] = op[w] /\ pre'[w] = pre[w]
        BY <1>0, <4>1 DEF Others
      <4> QED BY <2>2, <3>3, <4>2 DEF EventPart, ReadInv, NotOlder, WroteEvent
    <3> QED BY <2>1, <2>2, <3>2, <3>3 DEF ReadInv, EventPart, NotOlder, WroteEvent
  <2> QED BY <2>1, <2>2 DEF ReadInv
<1>2. CASE r = h /\ Arrive(h)
  <2>1. PICK kind, x, first : Arrival(h, kind, x, first)
    BY <1>2, ArriveStart
  <2> QED BY <1>2, <2>1, ArrivalFrame DEF ReadInv
<1>3. CASE r = h /\ Run(h) /\ op[h] = "get"
  <2>0. op' = op /\ arg' = arg /\ pre' = pre
    BY <1>3, RunSteps DEF Steps
  <2>1. CASE ReadEventCache(h)
    <3>1. /\ pc[h] = "cache" /\ pc'[h] = IF eventCache = None THEN "load" ELSE "done"
          /\ got'[h] = eventCache
      BY <2>1 DEF ReadEventCache, Goto, Base, Functions
    <3>2. CASE eventCache # None
      <4>1. CurrentValue(eventCache) /\ \A w \in Handlers : NotOlder(eventCache, w)
        BY <3>2 DEF EventPart, CacheInv
      <4>2. /\ eventCache \in CachedEvent /\ pc'[eventCache.by] # "idle"
            /\ \A w \in pre'[eventCache.by] : op'[w] \in {"update", "remove"} /\ pc'[w] = "done" =>
                  op'[w] = "update" /\ \A c \in arg'[w] : eventCache.row[c] \in Handlers \ pre'[w]
        BY <4>1, CurrentStays
      <4>3. CurrentValue(got[h])'
        BY <3>1, <4>2 DEF CurrentValue, WroteEvent
      <4>4. \A w \in pre[h] : w \in Handlers /\ w # h /\ pc'[w] = pc[w]
        BY <1>0, <3>1 DEF Others, Ended, Final
      <4>5. \A w \in pre'[h] : op'[w] \in {"update", "remove"} /\ pc'[w] = "done" => got'[h].by \notin pre'[w]
        BY <2>0, <3>1, <4>1, <4>4 DEF NotOlder, WroteEvent
      <4> QED BY <1>3, <3>1, <3>2, <4>3, <4>5 DEF ReadInv, NotOlder, WroteEvent
    <3>3. CASE eventCache = None
      BY <1>3, <3>1, <3>3 DEF ReadInv
    <3> QED BY <3>2, <3>3
  <2>2. CASE LoadEvent(h)
    <3>1. /\ pc[h] = "load" /\ pc' = [pc EXCEPT ![h] = IF event.deleted THEN "failed" ELSE "fill"]
          /\ got'[h] = IF event.deleted THEN None ELSE [row |-> event, by |-> h]
          /\ event \in Row /\ pc \in [Handlers -> Place]
      BY <2>2 DEF LoadEvent, Goto, Base, Functions, TypeOK
    <3>2. CASE ~event.deleted
      <4>1. /\ pc'[h] = "fill" /\ got'[h] = [row |-> event, by |-> h]
            /\ got'[h].by = h /\ got'[h].row = event /\ got'[h] \in CachedEvent
        BY <3>1, <3>2 DEF CachedEvent
      <4>2. ASSUME NEW w \in pre[h], op[w] \in {"update", "remove"}, pc'[w] = "done"
            PROVE  op[w] = "update" /\ \A c \in arg[w] : event[c] \in Handlers \ pre[w]
        <5>1. w \in Handlers /\ w # h /\ pc'[w] = pc[w]
          BY <1>0, <3>1 DEF Others, Ended, Final
        <5> QED BY <3>2, <4>2, <5>1 DEF EventPart, EventInv
      <4>3. CurrentValue(got[h])'
        BY <2>0, <4>1, <4>2 DEF CurrentValue, WroteEvent
      <4> QED BY <1>3, <4>1, <4>3 DEF ReadInv
    <3>3. CASE event.deleted
      BY <1>3, <3>1, <3>3 DEF ReadInv
    <3> QED BY <3>2, <3>3
  <2>3. CASE FillEventCache(h)
    <3>1. /\ pc[h] = "fill" /\ got' = got /\ pc' = [pc EXCEPT ![h] = "done"]
      BY <2>3 DEF FillEventCache, Goto
    <3>2. CurrentValue(got[h]) /\ got[h].by = h
      BY <1>3, <3>1 DEF EventPart, ReadInv
    <3>3. CurrentValue(got[h])'
      BY <3>1, <3>2, CurrentStays DEF CurrentValue, WroteEvent
    <3>4. \A w \in Handlers : h \notin pre[w]
      BY <1>0, <3>1 DEF Others
    <3>5. \A w \in pre'[h] : got'[h].by \notin pre'[w]
      BY <1>0, <2>0, <3>1, <3>2, <3>4 DEF Others, Ended
    <3> QED BY <1>3, <3>1, <3>3, <3>5 DEF ReadInv, NotOlder, WroteEvent, Base, Functions
  <2> QED BY <1>3, <2>1, <2>2, <2>3, Course
<1>4. CASE r = h /\ Run(h) /\ op[h] # "get"
  BY <1>4, RunSteps DEF Steps, ReadInv
<1> QED BY <1>1, <1>2, <1>3, <1>4

\* The part of the invariant about the event and its cache is preserved.
LEMMA EventPartStays ==
    ASSUME Base, EventPart, NEW h \in Handlers, Arrive(h) \/ Run(h)
    PROVE  EventPart'
<1>1. \A k \in Handlers : EventInv(k)'
  BY EventStays DEF EventPart
<1>2. \A k \in Handlers : ReadInv(k)'
  BY ReadsStay
<1> QED BY <1>1, <1>2, CacheStays DEF EventPart

-----------------------------------------------------------------------------
(* The analytics.                                                           *)

\* A request that changes the guest list has not finished while it does.
LEMMA ListStays ==
    ASSUME Base, AnswerPart, NEW h \in Handlers, Arrive(h) \/ Run(h), GuestWriters \subseteq Ended
    PROVE  Listed' = Listed /\ \A g \in Listed : Status(g)' = Status(g)
<1>0. Others(h)
  BY OthersStay
<1>1. CASE Arrive(h)
  <2>1. PICK kind, x, first : Arrival(h, kind, x, first)
    BY <1>1, ArriveStart
  <2>2. guests' = guests /\ pc[h] = "idle" /\ \A k \in Handlers \ {h} : arg'[k] = arg[k]
    BY <2>1, ArrivalFrame DEF tables
  <2>3. ASSUME NEW g \in Guest, guests[g] # None, guests[g].rsvp # None
        PROVE  guests[g].rsvp \in Handlers \ {h}
    <3>1. PICK i \in DOMAIN responses : responses[i].by = guests[g].rsvp
      BY <2>3 DEF AnswerPart
    <3>2. responses[i] \in Response /\ pc[responses[i].by] \in {"save", "done"}
      BY DEF AnswerPart, ResponseInv, Base, TypeOK
    <3> QED BY <2>2, <3>1, <3>2 DEF Response
  <2> QED BY <2>2, <2>3 DEF Listed, Status
<1>2. CASE Run(h)
  <2>0. arg' = arg /\ pc[h] # "done"
    BY <1>2, RunSteps DEF Steps
  <2>1. CASE guests' = guests
    BY <2>0, <2>1 DEF Listed, Status
  <2>2. op[h] \in {"add", "drop", "import", "rsvp"} => pc[h] \in Final
    BY DEF GuestWriters, Ended
  <2>3. ~InsertGuest(h) /\ ~StoreCode(h) /\ ~InsertMany(h) /\ ~SaveAnswer(h)
    BY <2>2 DEF InsertGuest, StoreCode, InsertMany, SaveAnswer, Goto, Base, PlaceInv, Final
  <2>4. CASE WriteGuest(h)
    <3>1. op[h] = "edit"
      BY <2>2, <2>4 DEF WriteGuest, Goto, Final
    <3>2. guests' = [guests EXCEPT ![arg[h].guest] = [@ EXCEPT !.by = h]]
      BY <2>4, <3>1 DEF WriteGuest
    <3>3. arg[h].guest \in Guest /\ guests[arg[h].guest] \in GuestRow /\ guests \in [Guest -> GuestRow \cup {None}]
      BY ZenonT(40), <3>1 DEF Base, ArgInv, TypeOK
    <3>4. /\ guests'[arg[h].guest] \in GuestRow
          /\ guests'[arg[h].guest].rsvp = guests[arg[h].guest].rsvp
          /\ guests'[arg[h].guest].deleted = guests[arg[h].guest].deleted
      BY <3>2, <3>3 DEF GuestRow
    <3>5. \A g \in Guest \ {arg[h].guest} : guests'[g] = guests[g]
      BY <3>2, <3>3
    <3>6. \A g \in Guest : guests[g] # None <=> guests'[g] # None
      BY <3>3, <3>4, <3>5, NoneIsNoRow
    <3>7. \A g \in Guest : guests[g] # None => guests'[g].rsvp = guests[g].rsvp /\ guests'[g].deleted = guests[g].deleted
      BY <3>4, <3>5
    <3>8. Listed' = Listed
      BY <3>6, <3>7 DEF Listed
    <3>9. \A g \in Listed : Status(g)' = Status(g)
      BY <2>0, <3>7 DEF Listed, Status
    <3> QED BY <3>8, <3>9
  <2> QED BY <1>2, <2>1, <2>3, <2>4, Writers
<1> QED BY <1>1, <1>2

\* So what was counted after all of them stays exact.
LEMMA CountsStay ==
    ASSUME Base, AnswerPart, NEW h \in Handlers, Arrive(h) \/ Run(h), NEW v, CountsInv(v)
    PROVE  /\ v.by \in Handlers /\ pc'[v.by] # "idle"
           /\ GuestWriters' \subseteq pre'[v.by] =>
                  /\ \A q \in DOMAIN v.counts : Exact(q, v.counts[q])
                  /\ Listed' = Listed /\ \A c : Answerers(c)' = Answerers(c)
<1>0. Others(h)
  BY OthersStay
<1>1. v.by \in Handlers /\ pc[v.by] # "idle" /\ pc'[v.by] # "idle" /\ pre'[v.by] = pre[v.by]
  BY <1>0 DEF CountsInv, Others
<1>2. ASSUME GuestWriters' \subseteq pre'[v.by]
      PROVE  /\ \A q \in DOMAIN v.counts : Exact(q, v.counts[q])
             /\ Listed' = Listed /\ \A c : Answerers(c)' = Answerers(c)
  <2>1. GuestWriters \subseteq pre[v.by]
    <3> SUFFICES ASSUME NEW k \in GuestWriters PROVE k \in pre[v.by]
      OBVIOUS
    <3>1. op[k] # None /\ k \in Handlers
      BY PlanningAssumption DEF GuestWriters, Op
    <3>2. op'[k] = op[k]
      BY <1>0, <3>1 DEF Others, Base, PlaceInv
    <3> QED BY <1>1, <1>2, <3>1, <3>2 DEF GuestWriters
  <2>2. GuestWriters \subseteq Ended
    BY <1>0, <1>1, <2>1 DEF Others
  <2>3. Listed' = Listed /\ \A g \in Listed : Status(g)' = Status(g)
    BY <2>2, ListStays
  <2>4. ASSUME NEW c PROVE Answerers(c)' = Answerers(c)
    <3>1. {g \in Listed : Status(g) = c}' = {g \in Listed : Status(g) = c}
      BY <2>3
    <3> QED BY <3>1 DEF Answerers
  <2> QED BY <2>1, <2>3, <2>4 DEF CountsInv
<1> QED BY <1>1, <1>2

\* What is put into the cache of analytics was counted as CountsInv says.
LEMMA StatsCacheStays ==
    ASSUME Base, StatsPart, AnswerPart, NEW h \in Handlers, Arrive(h) \/ Run(h), statsCache' # None
    PROVE  CountsInv(statsCache)'
<1>1. CASE statsCache' = statsCache
  <2>1. CountsInv(statsCache)
    BY <1>1 DEF StatsPart
  <2> QED BY <1>1, <2>1, CountsStay DEF CountsInv, Exact
<1>2. CASE Run(h) /\ KeepStats(h)
  <2>1. statsCache' = got[h] /\ op[h] = "stats" /\ pc[h] = "keep"
    BY <1>2 DEF KeepStats, Goto, Base, PlaceInv
  <2>2. CountsInv(got[h])
    BY <2>1 DEF StatsPart, StatsInv
  <2> QED BY <2>1, <2>2, CountsStay DEF CountsInv, Exact
<1>3. CASE Arrive(h)
  <2>1. PICK kind, x, first : Arrival(h, kind, x, first)
    BY <1>3, ArriveStart
  <2> QED BY <1>1, <2>1, ArrivalFrame DEF caches
<1> QED BY <1>1, <1>2, <1>3, Writers

\* What one query finds is exact.
LEMMA FoundIsExact ==
    ASSUME NEW q
    PROVE  Exact(q, Found(q))
<1>1. Count("TOTAL") = Cardinality(Listed)
  <2>1. {g \in Listed : "TOTAL" \in {"TOTAL", Status(g)}} = Listed
    OBVIOUS
  <2> QED BY <2>1 DEF Count
<1>2. ASSUME NEW c, c # "TOTAL" PROVE Count(c) = Answerers(c)
  <2>1. {g \in Listed : c \in {"TOTAL", Status(g)}} = {g \in Listed : Status(g) = c}
    BY <1>2
  <2> QED BY <2>1 DEF Count, Answerers
<1>3. CASE q = "breakdown"
  BY <1>2, <1>3 DEF Exact, Found, Breakdown
<1>4. CASE q # "breakdown" /\ q # "TOTAL"
  BY <1>2, <1>4 DEF Exact, Found
<1>5. CASE q = "TOTAL"
  BY <1>1, <1>5 DEF Exact, Found
<1> QED BY <1>3, <1>4, <1>5

\* The query q is answered.
Counted(h, q) ==
    \E counts :
        /\ counts = [r \in DOMAIN got[h].counts \cup {q} |->
                        IF r = q THEN Found(q) ELSE got[h].counts[r]]
        /\ got' = [got EXCEPT ![h].counts = counts]
        /\ pc' = [pc EXCEPT ![h] = IF DOMAIN counts # Queries(h) THEN "count"
                                   ELSE IF op[h] = "stats" THEN "keep" ELSE "done"]

\* A query that is answered adds an exact count to exact ones.
LEMMA CountingStays ==
    ASSUME Base, StatsPart, AnswerPart, NEW h \in Handlers, Run(h), CountOne(h)
    PROVE  StatsInv(h)'
<1>1. /\ pc[h] = "count" /\ op[h] \in {"stats", "report"} /\ op' = op /\ pre' = pre
  BY RunSteps DEF CountOne, Goto, Base, PlaceInv, Steps
<1> DEFINE old == got[h].counts
<1>2. PICK q \in Queries(h) \ DOMAIN old : Counted(h, q)
  BY DEF CountOne, Goto, Counted
<1>11. PICK counts :
         /\ counts = [r \in DOMAIN old \cup {q} |-> IF r = q THEN Found(q) ELSE old[r]]
         /\ got' = [got EXCEPT ![h].counts = counts]
         /\ pc' = [pc EXCEPT ![h] = IF DOMAIN counts # Queries(h) THEN "count"
                                    ELSE IF op[h] = "stats" THEN "keep" ELSE "done"]
  BY <1>2 DEF Counted
<1>3. got[h].by = h /\ got[h] = [by |-> h, counts |-> old] /\ CountsInv(got[h])
  BY <1>1 DEF StatsPart, StatsInv
<1>4. got'[h] = [by |-> h, counts |-> counts]
  <2>1. got'[h] = [got[h] EXCEPT !.counts = counts]
    BY <1>11 DEF Base, Functions
  <2> HIDE DEF old
  <2> QED BY <1>3, <2>1
<1>5. DOMAIN counts = DOMAIN old \cup {q} /\ counts[q] = Found(q) /\ \A r \in DOMAIN old : counts[r] = old[r]
  BY <1>11
<1>6. /\ h \in Handlers /\ pc'[h] # "idle"
      /\ GuestWriters' \subseteq pre'[h] => /\ \A r \in DOMAIN old : Exact(r, old[r])
                                            /\ Listed' = Listed /\ \A c : Answerers(c)' = Answerers(c)
  BY <1>3, CountsStay
<1>7. GuestWriters' \subseteq pre'[h] => \A r \in DOMAIN counts : Exact(r, counts[r])
  BY <1>5, <1>6, FoundIsExact
<1>8. got'[h].by = h /\ got'[h].counts = counts
  BY <1>4
<1> HIDE DEF old
<1>9. CountsInv(got[h])'
  BY <1>6, <1>7, <1>8 DEF CountsInv, Exact
<1>10. pc'[h] = "keep" => DOMAIN counts = Counter
  BY <1>11 DEF Queries, Base, Functions
<1> QED BY <1>4, <1>8, <1>9, <1>10 DEF StatsInv

\* What a reader has counted stays as StatsInv says.
LEMMA StatsStay ==
    ASSUME Base, StatsPart, AnswerPart, NEW h \in Handlers, Arrive(h) \/ Run(h), NEW r \in Handlers
    PROVE  StatsInv(r)'
<1>0. Others(h)
  BY OthersStay
<1>1. CASE r # h
  <2>1. pc'[r] = pc[r] /\ op'[r] = op[r] /\ got'[r] = got[r]
    BY <1>0, <1>1 DEF Others
  <2>2. CASE op[r] \in {"stats", "report"} /\ pc[r] \in {"count", "keep", "done"}
    <3>1. CountsInv(got[r])
      BY <2>2 DEF StatsPart, StatsInv
    <3>2. CountsInv(got[r])'
      BY <2>1, <3>1, CountsStay DEF CountsInv, Exact
    <3> QED BY <2>1, <2>2, <3>2 DEF StatsPart, StatsInv
  <2> QED BY <2>1, <2>2 DEF StatsInv
<1>2. CASE r = h /\ Arrive(h)
  <2>1. PICK kind, x, first : Arrival(h, kind, x, first)
    BY <1>2, ArriveStart
  <2> QED BY <1>2, <2>1, ArrivalFrame DEF StatsInv
<1>3. CASE r = h /\ Run(h) /\ op[h] \in {"stats", "report"}
  <2>0. op' = op /\ pre' = pre /\ pc' = [pc EXCEPT ![h] = pc'[h]] /\ pc \in [Handlers -> Place]
    BY <1>3, RunSteps DEF Steps, Base, Functions
  <2>1. CASE ReadStatsCache(h)
    <3>1. /\ pc'[h] = IF statsCache = None THEN "access" ELSE "done"
          /\ got'[h] = statsCache
      BY <2>0, <2>1 DEF ReadStatsCache, Goto, Base, Functions
    <3>2. CASE statsCache # None
      <4>1. CountsInv(statsCache)
        BY <3>2 DEF StatsPart
      <4>2. CountsInv(got[h])'
        BY <3>1, <4>1, CountsStay DEF CountsInv, Exact
      <4> QED BY <1>3, <3>1, <3>2, <4>2 DEF StatsInv
    <3> QED BY <1>3, <3>1, <3>2 DEF StatsInv
  <2>2. CASE CheckAccess(h)
    <3>1. got'[h] = [by |-> h, counts |-> <<>>]
      BY <1>3, <2>2 DEF CheckAccess, Base, Functions
    <3>2. pc'[h] \in {"count", "failed"}
      BY <1>3, <2>0, <2>2 DEF CheckAccess, Goto, Admitted
    <3>3. got'[h].by = h /\ got'[h].counts = <<>> /\ DOMAIN got'[h].counts = {}
      BY <3>1
    <3>4. CountsInv(got[h])'
      BY <3>2, <3>3 DEF CountsInv
    <3> QED BY <1>3, <3>1, <3>2, <3>3, <3>4 DEF StatsInv
  <2>3. CASE CountOne(h)
    BY <1>3, <2>3, CountingStays
  <2>4. CASE KeepStats(h)
    <3>1. pc[h] = "keep" /\ got' = got /\ pc'[h] = "done"
      BY <2>0, <2>4 DEF KeepStats, Goto
    <3>2. CountsInv(got[h])
      BY <1>3, <3>1 DEF StatsPart, StatsInv
    <3>3. CountsInv(got[h])'
      BY <3>1, <3>2, CountsStay DEF CountsInv, Exact
    <3> QED BY <3>1, <3>3, <1>3 DEF StatsInv
  <2> QED BY <1>3, <2>1, <2>2, <2>3, <2>4, Course
<1>4. CASE r = h /\ Run(h) /\ op[h] \notin {"stats", "report"}
  BY <1>4, RunSteps DEF Steps, StatsInv
<1> QED BY <1>1, <1>2, <1>3, <1>4

\* The part of the invariant about counts is preserved.
LEMMA StatsPartStays ==
    ASSUME Base, StatsPart, AnswerPart, NEW h \in Handlers, Arrive(h) \/ Run(h)
    PROVE  StatsPart'
<1>1. \A k \in Handlers : StatsInv(k)'
  BY StatsStay
<1> QED BY <1>1, StatsCacheStays DEF StatsPart

-----------------------------------------------------------------------------
(* The removals.                                                            *)

\* Nobody undoes a removal.
LEMMA RemovalsStand ==
    ASSUME Base, NEW h \in Handlers, Arrive(h) \/ Run(h)
    PROVE  /\ event.deleted => event'.deleted
           /\ \A g \in Guest : guests[g] # None => guests'[g] # None /\ (guests[g].deleted => guests'[g].deleted)
           /\ \A i \in Invitation : invitations[i] # None =>
                  invitations'[i] # None /\ (invitations[i].deleted => invitations'[i].deleted)
<1>1. CASE Arrive(h)
  <2>1. PICK kind, x, first : Arrival(h, kind, x, first)
    BY <1>1, ArriveStart
  <2> QED BY <2>1, ArrivalFrame DEF tables
<1>2. CASE Run(h)
  <2>1. event.deleted => event'.deleted
    BY <1>2, Writers DEF WriteEvent, Updated, Base, TypeOK, Row
  <2>2. ASSUME NEW g \in Guest, guests[g] # None
        PROVE  guests'[g] # None /\ (guests[g].deleted => guests'[g].deleted)
    <3>0. guests \in [Guest -> GuestRow \cup {None}] /\ guests[g] \in GuestRow
      BY <2>2 DEF Base, TypeOK
    <3>1. CASE InsertGuest(h) \/ InsertMany(h)
      <4>1. \A n \in 1..Rows : guests[<<h, n>>] = None
        BY <3>1 DEF InsertGuest, InsertMany, Goto, Base, ArgInv, Final
      <4>2. InsertMany(h) => arg[h] \in 1..Rows
        BY DEF InsertMany, Base, ArgInv
      <4>3. InsertMany(h) => g \notin Imported(h)
        BY <2>2, <4>1, <4>2, PlanningAssumption DEF Imported
      <4>4. InsertGuest(h) => g # <<h, 1>>
        BY <2>2, <4>1, PlanningAssumption
      <4>5. InsertGuest(h) => guests'[g] = guests[g]
        BY <3>0, <4>4 DEF InsertGuest
      <4>6. InsertMany(h) => guests'[g] = guests[g]
        BY <4>3 DEF InsertMany
      <4> QED BY <2>2, <3>1, <4>5, <4>6
    <3>2. CASE StoreCode(h)
      <4>1. guests' = [guests EXCEPT ![<<h, 1>>].code = TRUE]
        BY <3>2 DEF StoreCode
      <4>2. guests'[g] \in GuestRow /\ guests'[g].deleted = guests[g].deleted
        BY <3>0, <4>1 DEF GuestRow
      <4> QED BY <4>2, NoneIsNoRow
    <3>3. CASE WriteGuest(h)
      <4>1. \/ guests' = [guests EXCEPT ![arg[h].guest] = [@ EXCEPT !.deleted = TRUE]]
            \/ guests' = [guests EXCEPT ![arg[h].guest] = [@ EXCEPT !.by = h]]
        BY <3>3 DEF WriteGuest
      <4>2. \/ guests'[g] = guests[g]
            \/ guests'[g] = [guests[g] EXCEPT !.deleted = TRUE]
            \/ guests'[g] = [guests[g] EXCEPT !.by = h]
        BY <3>0, <4>1
      <4>3. guests'[g] \in GuestRow /\ (guests[g].deleted => guests'[g].deleted)
        BY <3>0, <4>2 DEF GuestRow
      <4> QED BY <4>3, NoneIsNoRow
    <3>4. CASE SaveAnswer(h)
      <4>1. guests' = [guests EXCEPT ![arg[h].guest] = [@ EXCEPT !.rsvp = h]]
        BY <3>4 DEF SaveAnswer, Answered
      <4>2. guests'[g] \in GuestRow /\ guests'[g].deleted = guests[g].deleted
        BY <3>0, <4>1 DEF GuestRow
      <4> QED BY <4>2, NoneIsNoRow
    <3> QED BY <1>2, <2>2, <3>1, <3>2, <3>3, <3>4, Writers
  <2>3. ASSUME NEW i \in Invitation, invitations[i] # None
        PROVE  invitations'[i] # None /\ (invitations[i].deleted => invitations'[i].deleted)
    <3>0. invitations \in [Invitation -> InvitationRow \cup {None}] /\ invitations[i] \in InvitationRow
      BY <2>3 DEF Base, TypeOK
    <3>1. CASE InsertInvitation(h)
      <4>1. invitations[h] = None
        BY <3>1 DEF InsertInvitation, Goto, Base, ArgInv, Final
      <4> QED BY <2>3, <3>0, <3>1, <4>1 DEF InsertInvitation
    <3>2. CASE WriteInvitation(h)
      <4>1. \/ invitations' = [invitations EXCEPT ![arg[h].invitation] = Revised(h, @)]
            \/ invitations' = [invitations EXCEPT ![arg[h].invitation] = [@ EXCEPT !.published = TRUE]]
            \/ invitations' = [invitations EXCEPT ![arg[h].invitation] = [@ EXCEPT !.deleted = TRUE]]
        BY <3>2 DEF WriteInvitation
      <4>2. \/ invitations'[i] = invitations[i]
            \/ invitations'[i] = Revised(h, invitations[i])
            \/ invitations'[i] = [invitations[i] EXCEPT !.published = TRUE]
            \/ invitations'[i] = [invitations[i] EXCEPT !.deleted = TRUE]
        BY <3>0, <4>1 DEF Revised
      <4>3. invitations'[i] \in InvitationRow /\ (invitations[i].deleted => invitations'[i].deleted)
        BY <3>0, <4>2 DEF InvitationRow, Revised
      <4> QED BY <4>3, NoneIsNoRow
    <3> QED BY <1>2, <2>3, <3>1, <3>2, Writers
  <2> QED BY <2>1, <2>2, <2>3
<1> QED BY <1>1, <1>2

\* Who removed something and was answered finds it removed.
LEMMA RemovedStays ==
    ASSUME Base, EventPart, RemovalPart, NEW h \in Handlers, Arrive(h) \/ Run(h), NEW k \in Handlers
    PROVE  RemovedInv(k)'
<1>0. Others(h)
  BY OthersStay
<1>1. CASE k # h
  <2>1. pc'[k] = pc[k] /\ op'[k] = op[k] /\ arg'[k] = arg[k]
    BY <1>0, <1>1 DEF Others
  <2>2. /\ op[k] = "drop" => arg[k].guest \in Guest /\ guests[arg[k].guest] # None
        /\ op[k] = "discard" => arg[k].invitation \in Invitation /\ invitations[arg[k].invitation] # None
    BY DEF Base, ArgInv
  <2> QED BY <2>1, <2>2, RemovalsStand DEF RemovalPart, RemovedInv
<1>2. CASE k = h /\ Arrive(h)
  <2>1. PICK kind, x, first : Arrival(h, kind, x, first)
    BY <1>2, ArriveStart
  <2> QED BY <1>2, <2>1, ArrivalFrame DEF RemovedInv
<1>3. CASE k = h /\ Run(h)
  <2>0. op' = op /\ arg' = arg /\ pc' = [pc EXCEPT ![h] = pc'[h]] /\ pc \in [Handlers -> Place]
    BY <1>3, RunSteps DEF Steps, Base, Functions
  <2>1. ASSUME op[h] = "remove", pc'[h] = "done" PROVE event'.deleted
    <3>1. ForgetEvent(h)
      BY <1>3, <2>0, <2>1, WritersForget DEF WriteEvent, Goto
    <3>2. pc[h] = "forget" /\ event' = event
      BY <3>1 DEF ForgetEvent, Goto, tables
    <3> QED BY <2>1, <3>2 DEF EventPart, EventInv
  <2>2. ASSUME op[h] = "drop", pc'[h] = "done" PROVE guests'[arg[h].guest].deleted
    <3>1. WriteGuest(h)
      BY <1>3, <2>0, <2>2, Course DEF FindGuest, CheckAccess, Admitted, Goto
    <3>2. guests' = [guests EXCEPT ![arg[h].guest] = [@ EXCEPT !.deleted = TRUE]]
      BY <2>2, <3>1 DEF WriteGuest
    <3>3. arg[h].guest \in Guest /\ guests[arg[h].guest] \in GuestRow /\ guests \in [Guest -> GuestRow \cup {None}]
      BY ZenonT(40), <2>2 DEF Base, ArgInv, TypeOK
    <3> QED BY <3>2, <3>3 DEF GuestRow
  <2>3. ASSUME op[h] = "discard", pc'[h] = "done" PROVE invitations'[arg[h].invitation].deleted
    <3>1. WriteInvitation(h)
      BY <1>3, <2>0, <2>3, Course DEF FindInvitation, CheckAccess, Admitted, Goto
    <3>2. invitations' = [invitations EXCEPT ![arg[h].invitation] = [@ EXCEPT !.deleted = TRUE]]
      BY <2>3, <3>1 DEF WriteInvitation
    <3>3. /\ arg[h].invitation \in Invitation /\ invitations[arg[h].invitation] \in InvitationRow
          /\ invitations \in [Invitation -> InvitationRow \cup {None}]
      BY ZenonT(40), <2>3 DEF Base, ArgInv, TypeOK
    <3> QED BY <3>2, <3>3 DEF InvitationRow
  <2> QED BY <1>3, <2>0, <2>1, <2>2, <2>3 DEF RemovedInv
<1> QED BY <1>1, <1>2, <1>3

\* Who comes after a removal is not let through by any of the checks.
LEMMA BarredStays ==
    ASSUME Base, RemovalPart, NEW j \in Handlers, Arrive(j) \/ Run(j),
           NEW h \in Handlers, NEW k \in Handlers
    PROVE  Barred(h, k)'
<1>0. Others(j)
  BY OthersStay
<1>1. CASE k = j /\ Arrive(j)
  <2>1. PICK kind, x, first : Arrival(j, kind, x, first)
    BY <1>1, ArriveStart
  <2>2. pc'[j] = first /\ op'[j] = kind /\ first \notin Acting
    BY <2>1, ArrivalFrame DEF Acting
  <2>3. kind \in {"drop", "edit", "rsvp", "revise", "publish", "discard", "preview"} => first # "access"
    BY <2>1 DEF Arrival
  <2> QED BY <1>1, <2>2, <2>3 DEF Barred, SameGuest, SameInvitation
<1>2. ASSUME ~(k = j /\ Arrive(j)), pc'[h] = "done", h \in pre'[k], k # j \/ pc[k] # "failed",
             \/ op'[h] = "remove" /\ op'[k] # "rsvp"
             \/ SameGuest(h, k)' \/ SameInvitation(h, k)'
      PROVE  /\ op'[h] = "remove" /\ op'[k] # "rsvp" => pc'[k] \notin Acting
             /\ SameGuest(h, k)' \/ SameInvitation(h, k)' => pc'[k] \notin Acting \cup {"access"}
  <2>1. pre'[k] = pre[k] /\ op'[k] = op[k] /\ arg'[k] = arg[k]
    BY <1>0, <1>2, RunSteps DEF Others, Steps
  <2>2. pc[h] \in Final /\ pc[h] # "idle"
    BY <1>0, <1>2, <2>1 DEF Others, Ended, Final
  <2>3. pc[h] = "done" /\ op'[h] = op[h] /\ arg'[h] = arg[h]
    BY <1>0, <1>2, <2>2 DEF Others
  <2>4. /\ op[h] = "remove" /\ op[k] # "rsvp" => pc[k] \notin Acting
        /\ SameGuest(h, k) \/ SameInvitation(h, k) => pc[k] \notin Acting \cup {"access"}
    BY <1>2, <2>1, <2>3 DEF RemovalPart, Barred
  <2>5. (SameGuest(h, k)' <=> SameGuest(h, k)) /\ (SameInvitation(h, k)' <=> SameInvitation(h, k))
    BY <2>1, <2>3 DEF SameGuest, SameInvitation
  <2>6. CASE k # j
    BY <1>0, <2>1, <2>3, <2>4, <2>5, <2>6 DEF Others
  <2>7. CASE k = j /\ Run(k)
    <3>0. pc \in [Handlers -> Place] /\ RemovedInv(h)
      BY DEF Base, Functions, RemovalPart
    <3>1. ASSUME op[h] = "remove", op[k] # "rsvp" PROVE pc'[k] \notin Acting
      <4>1. event.deleted /\ pc[k] \notin Acting
        BY <2>3, <2>4, <3>0, <3>1 DEF RemovedInv
      <4>2. ReadEventCache(k) \/ LoadEvent(k) \/ CheckAccess(k) \/ ReadStatsCache(k) \/ FindGuest(k)
               \/ FindInvitation(k) \/ LookUp(k) \/ InsertContribution(k)
        <5>1. /\ ~FillEventCache(k) /\ ~WriteEvent(k) /\ ~ForgetEvent(k) /\ ~CountOne(k) /\ ~KeepStats(k)
              /\ ~InsertGuest(k) /\ ~StoreCode(k) /\ ~InsertMany(k) /\ ~ReadPage(k) /\ ~WriteGuest(k)
              /\ ~UnknownTemplate(k) /\ ~InsertInvitation(k) /\ ~WriteInvitation(k) /\ ~ReadPreviewedEvent(k)
          BY <4>1 DEF Acting, FillEventCache, WriteEvent, ForgetEvent, CountOne, KeepStats, InsertGuest, StoreCode,
                      InsertMany, ReadPage, WriteGuest, UnknownTemplate, InsertInvitation, WriteInvitation,
                      ReadPreviewedEvent, Goto
        <5> QED BY <2>7, <3>1, <5>1, Course DEF Op
      <4>3. ~LookUp(k) /\ ~InsertContribution(k)
        BY <1>2, <2>7, <4>1 DEF LookUp, InsertContribution, Acting
      <4> QED BY <3>0, <4>1, <4>2, <4>3 DEF ReadEventCache, LoadEvent, CheckAccess, ReadStatsCache, FindGuest,
                                            FindInvitation, Goto, Acting
    <3>2. ASSUME SameGuest(h, k) PROVE pc'[k] \notin Acting \cup {"access"}
      <4>1. guests[arg[k].guest].deleted /\ pc[k] \notin Acting \cup {"access"} /\ op[k] \in {"drop", "edit", "rsvp"}
        BY <2>3, <2>4, <3>0, <3>2 DEF RemovedInv, SameGuest
      <4>2. arg[k].guest \notin Listed
        BY <4>1 DEF Listed
      <4>3. FindGuest(k) \/ FindByCode(k)
        BY <2>7, <4>1, Course DEF CheckAccess, WriteGuest, InsertResponse, SaveAnswer, Goto, Acting
      <4> QED BY <3>0, <4>2, <4>3 DEF FindGuest, FindByCode, CodeOpens, Goto, Acting
    <3>3. ASSUME SameInvitation(h, k) PROVE pc'[k] \notin Acting \cup {"access"}
      <4>1. /\ invitations[arg[k].invitation].deleted /\ pc[k] \notin Acting \cup {"access"}
            /\ op[k] \in {"revise", "publish", "discard", "preview"}
        BY <2>3, <2>4, <3>0, <3>3 DEF RemovedInv, SameInvitation
      <4>2. FindInvitation(k)
        BY <2>7, <4>1, Course DEF CheckAccess, WriteInvitation, ReadPreviewedEvent, Goto, Acting
      <4> QED BY <3>0, <4>1, <4>2 DEF FindInvitation, Goto, Acting
    <3> QED BY <2>1, <2>3, <2>5, <3>1, <3>2, <3>3
  <2> QED BY <1>2, <2>6, <2>7
<1>3. CASE k = j /\ pc[k] = "failed"
  <2>1. pc'[k] = "failed"
    BY <1>0, <1>3 DEF Others, Final
  <2> QED BY <2>1 DEF Barred, Acting
<1> QED BY <1>1, <1>2, <1>3 DEF Barred

\* The part of the invariant about removals is preserved.
LEMMA RemovalPartStays ==
    ASSUME Base, EventPart, RemovalPart, NEW h \in Handlers, Arrive(h) \/ Run(h)
    PROVE  RemovalPart'
<1>1. \A k \in Handlers : RemovedInv(k)'
  BY RemovedStays
<1>2. \A k, l \in Handlers : Barred(k, l)'
  BY BarredStays
<1> QED BY <1>1, <1>2 DEF RemovalPart

-----------------------------------------------------------------------------
(* The invitations.                                                         *)

\* A row that shows what w wrote goes on showing it, as w has finished.
LEMMA KeepsStays ==
    ASSUME Base, NEW h \in Handlers, Arrive(h) \/ Run(h), NEW w \in Handlers, pc[w] # "idle", NEW row,
           op[w] \in {"revise", "publish"}, Keeps(w, row)
    PROVE  IF op'[w] = "publish" THEN row.published
           ELSE \A p \in arg'[w].parts :
                    row[p] \in {k \in Handlers \ pre'[w] : op'[k] = "revise" /\ p \in arg'[k].parts}
<1>0. Others(h)
  BY OthersStay
<1>1. op'[w] = op[w] /\ arg'[w] = arg[w] /\ pre'[w] = pre[w]
  BY <1>0 DEF Others
<1>2. ASSUME NEW k \in Handlers, op[k] = "revise" PROVE op'[k] = op[k] /\ arg'[k] = arg[k]
  <2>1. pc[k] # "idle"
    BY <1>2, PlanningAssumption DEF Base, PlaceInv, Op
  <2> QED BY <1>0, <2>1 DEF Others
<1> QED BY <1>1, <1>2 DEF Keeps

\* The rows of invitations keep what those who have finished wrote.
LEMMA InvitationStays ==
    ASSUME Base, InvitationPart, NEW h \in Handlers, Arrive(h) \/ Run(h), NEW w \in Handlers,
           op'[w] \in {"revise", "publish"}, pc'[w] = "done"
    PROVE  Keeps(w, invitations[arg[w].invitation])'
<1>0. Others(h)
  BY OthersStay
<1>1. CASE Arrive(h)
  <2>1. PICK kind, x, first : Arrival(h, kind, x, first)
    BY <1>1, ArriveStart
  <2>2. w # h /\ invitations' = invitations
    BY <2>1, ArrivalFrame DEF tables
  <2>3. op'[w] = op[w] /\ pc'[w] = pc[w] /\ arg'[w] = arg[w]
    BY <1>0, <2>2 DEF Others
  <2>4. Keeps(w, invitations[arg[w].invitation])
    BY <2>3 DEF InvitationPart, WroteInvitation
  <2> QED BY <2>2, <2>3, <2>4, KeepsStays DEF Keeps
<1>2. CASE Run(h)
  <2>0. op' = op /\ arg' = arg /\ pre' = pre
    BY <1>2, RunSteps DEF Steps
  <2>1. arg[w].invitation \in Invitation /\ invitations[arg[w].invitation] # None
    BY <2>0 DEF Base, ArgInv
  <2>2. CASE w # h \/ pc'[h] = pc[h]
    <3>1. Keeps(w, invitations[arg[w].invitation])
      BY <1>0, <2>0, <2>2 DEF InvitationPart, WroteInvitation, Others
    <3>2. CASE WriteInvitation(h) /\ arg[h].invitation = arg[w].invitation
      <4>1. PICK i \in Invitation : i = arg[w].invitation
        BY <2>1
      <4>2. /\ pc[h] = "write" /\ op[h] \in {"revise", "publish", "discard"}
            /\ invitations' = [invitations EXCEPT ![i] =
                  CASE op[h] = "revise" -> Revised(h, @)
                    [] op[h] = "publish" -> [@ EXCEPT !.published = TRUE]
                    [] OTHER -> [@ EXCEPT !.deleted = TRUE]]
            /\ invitations[i] \in InvitationRow /\ invitations \in [Invitation -> InvitationRow \cup {None}]
        BY <2>1, <3>2, <4>1 DEF WriteInvitation, Goto, Base, TypeOK
      <4>3. \/ op[h] = "revise" /\ invitations'[i] = Revised(h, invitations[i])
            \/ op[h] = "publish" /\ invitations'[i] = [invitations[i] EXCEPT !.published = TRUE]
            \/ op[h] = "discard" /\ invitations'[i] = [invitations[i] EXCEPT !.deleted = TRUE]
        BY <4>2
      <4>4. /\ invitations[i].published => invitations'[i].published
            /\ \A p \in Part : \/ invitations'[i][p] = invitations[i][p]
                               \/ invitations'[i][p] = h /\ op[h] = "revise" /\ p \in arg[h].parts
        BY <4>2, <4>3 DEF InvitationRow, Revised, Part
      <4>5. h \in Handlers \ pre[w]
        BY <1>0, <4>2 DEF Others
      <4>6. op[w] = "revise" => arg[w].parts \subseteq Part
        BY DEF Base, ArgInv
      <4>7. Keeps(w, invitations[i])
        BY <3>1, <4>1
      <4> QED BY <2>0, <4>1, <4>4, <4>5, <4>6, <4>7 DEF Keeps
    <3>3. CASE ~(WriteInvitation(h) /\ arg[h].invitation = arg[w].invitation)
      <4>1. InsertInvitation(h) => invitations[h] = None /\ invitations' = [invitations EXCEPT ![h] = Draft(h)]
        BY DEF InsertInvitation, Goto, Base, ArgInv, Final
      <4>2. WriteInvitation(h) => invitations' = [invitations EXCEPT ![arg[h].invitation] =
                  CASE op[h] = "revise" -> Revised(h, @)
                    [] op[h] = "publish" -> [@ EXCEPT !.published = TRUE]
                    [] OTHER -> [@ EXCEPT !.deleted = TRUE]]
        BY DEF WriteInvitation
      <4>3. invitations'[arg[w].invitation] = invitations[arg[w].invitation]
        BY <1>2, <2>1, <3>3, <4>1, <4>2, Writers DEF Base, TypeOK
      <4> QED BY <2>0, <3>1, <4>3 DEF Keeps
    <3> QED BY <3>2, <3>3
  <2>3. CASE w = h /\ pc'[h] # pc[h]
    <3>1. WriteInvitation(h)
      BY <1>2, <2>0, <2>3, Course DEF FindInvitation, CheckAccess, Admitted, Goto, Base, Functions
    <3>2. PICK i \in Invitation : i = arg[h].invitation
      BY <2>1, <2>3
    <3>3. /\ invitations' = [invitations EXCEPT ![i] =
                CASE op[h] = "revise" -> Revised(h, @)
                  [] op[h] = "publish" -> [@ EXCEPT !.published = TRUE]
                  [] OTHER -> [@ EXCEPT !.deleted = TRUE]]
          /\ invitations[i] \in InvitationRow /\ invitations \in [Invitation -> InvitationRow \cup {None}]
          /\ h \notin pre[h]
      BY <1>0, <2>1, <2>3, <3>1, <3>2 DEF WriteInvitation, Goto, Base, TypeOK, Others
    <3>4. \/ op[h] = "revise" /\ invitations'[i] = Revised(h, invitations[i])
          \/ op[h] = "publish" /\ invitations'[i] = [invitations[i] EXCEPT !.published = TRUE]
      BY <2>0, <2>3, <3>3
    <3>5. /\ op[h] = "publish" => invitations'[i].published
          /\ op[h] = "revise" => \A p \in Part \cap arg[h].parts : invitations'[i][p] = h
      BY <3>3, <3>4 DEF InvitationRow, Revised, Part
    <3>6. op[h] = "revise" => arg[h].parts \subseteq Part
      BY DEF Base, ArgInv
    <3> QED BY <2>0, <2>3, <3>2, <3>3, <3>4, <3>5, <3>6 DEF Keeps
  <2> QED BY <2>2, <2>3
<1> QED BY <1>1, <1>2

\* What a preview has read keeps what those who had finished before it wrote.
LEMMA PreviewsStay ==
    ASSUME Base, InvitationPart, NEW h \in Handlers, Arrive(h) \/ Run(h), NEW r \in Handlers
    PROVE  PreviewInv(r)'
<1>0. Others(h)
  BY OthersStay
<1>1. CASE r = h /\ Arrive(h)
  <2>1. PICK kind, x, first : Arrival(h, kind, x, first)
    BY <1>1, ArriveStart
  <2>2. pc'[h] = first /\ op'[h] = kind /\ (kind = "preview" => first = "invitation")
    BY SMTT(30), <2>1, ArrivalFrame DEF Arrival
  <2> QED BY <1>1, <2>1, <2>2, ArrivalFrame DEF PreviewInv, Arrival
<1>2. ASSUME ~(r = h /\ Arrive(h)), op'[r] = "preview", pc'[r] \in {"access", "reread", "done"}
      PROVE  /\ got'[r] = [row |-> got'[r].row, event |-> got'[r].event]
             /\ \A w \in pre'[r] :
                   op'[w] \in {"revise", "publish"} /\ pc'[w] = "done" /\ arg'[w].invitation = arg'[r].invitation =>
                      Keeps(w, got[r].row)'
  <2>1. op'[r] = op[r] /\ arg'[r] = arg[r] /\ pre'[r] = pre[r]
    BY <1>0, <1>2, RunSteps DEF Others, Steps
  <2>2. \A w \in pre[r] : w \in Handlers /\ pc'[w] = pc[w] /\ pc[w] # "idle" /\ op'[w] = op[w] /\ arg'[w] = arg[w]
    BY <1>0 DEF Others, Ended, Final
  <2>3. PICK row, ev :
           /\ got'[r] = [row |-> row, event |-> ev]
           /\ \A w \in pre[r] : WroteInvitation(w) /\ arg[w].invitation = arg[r].invitation => Keeps(w, row)
    <3>1. CASE got'[r] = got[r] /\ pc[r] \in {"access", "reread", "done"}
      BY <1>2, <2>1, <3>1 DEF InvitationPart, PreviewInv
    <3>2. CASE r = h /\ Run(h) /\ FindInvitation(h)
      <4>1. got'[h] = [row |-> invitations[arg[h].invitation], event |-> None]
        BY <1>2, <2>1, <3>2 DEF FindInvitation, Base, Functions
      <4>2. \A w \in pre[h] : WroteInvitation(w) /\ arg[w].invitation = arg[h].invitation =>
               Keeps(w, invitations[arg[h].invitation])
        BY <1>0 DEF InvitationPart, Others, Ended
      <4> QED BY <3>2, <4>1, <4>2
    <3>3. CASE r = h /\ Run(h) /\ ReadPreviewedEvent(h)
      <4>1. pc[h] = "reread" /\ got' = [got EXCEPT ![h].event = IF event.deleted THEN None ELSE event]
        BY <3>3 DEF ReadPreviewedEvent, Goto
      <4>2. /\ got[h] = [row |-> got[h].row, event |-> got[h].event]
            /\ \A w \in pre[r] : WroteInvitation(w) /\ arg[w].invitation = arg[r].invitation => Keeps(w, got[h].row)
        BY <1>2, <2>1, <3>3, <4>1 DEF InvitationPart, PreviewInv
      <4>3. got'[h] = [got[h] EXCEPT !.event = IF event.deleted THEN None ELSE event]
        BY <4>1 DEF Base, Functions
      <4>4. got'[h] = [row |-> got[h].row, event |-> IF event.deleted THEN None ELSE event]
        BY <4>2, <4>3
      <4> QED BY <3>3, <4>2, <4>4
    <3>4. CASE r = h /\ Run(h) /\ CheckAccess(h)
      BY <1>2, <2>1, <3>1, <3>4 DEF CheckAccess, Goto
    <3>5. CASE r # h
      BY <1>0, <1>2, <3>1, <3>5 DEF Others
    <3> QED BY <1>2, <2>1, <3>2, <3>3, <3>4, <3>5, Course
  <2>4. got'[r].row = row /\ got'[r].event = ev
    BY <2>3
  <2>5. ASSUME NEW w \in pre[r], op'[w] \in {"revise", "publish"}, pc'[w] = "done",
               arg'[w].invitation = arg'[r].invitation
        PROVE  Keeps(w, got[r].row)'
    <3>1. Keeps(w, row) /\ op[w] \in {"revise", "publish"} /\ w \in Handlers /\ pc[w] # "idle"
      BY <2>1, <2>2, <2>3, <2>5 DEF WroteInvitation
    <3> QED BY <2>4, <3>1, KeepsStays DEF Keeps
  <2> QED BY <2>1, <2>3, <2>4, <2>5
<1> QED BY <1>1, <1>2 DEF PreviewInv, WroteInvitation

\* The part of the invariant about invitations is preserved.
LEMMA InvitationPartStays ==
    ASSUME Base, InvitationPart, NEW h \in Handlers, Arrive(h) \/ Run(h)
    PROVE  InvitationPart'
<1>1. \A k \in Handlers : PreviewInv(k)'
  BY PreviewsStay
<1>2. \A k \in Handlers : op'[k] \in {"revise", "publish"} /\ pc'[k] = "done" =>
          Keeps(k, invitations[arg[k].invitation])'
  BY InvitationStays
<1> QED BY <1>1, <1>2 DEF InvitationPart, WroteInvitation

-----------------------------------------------------------------------------
(* The answers.                                                             *)

\* Whose answer a row shows changes only when an answer is saved.
LEMMA RsvpStays ==
    ASSUME Base, NEW h \in Handlers, Arrive(h) \/ Run(h), NEW g \in Guest, guests[g] # None
    PROVE  \/ guests'[g].rsvp = guests[g].rsvp
           \/ /\ SaveAnswer(h) /\ Run(h) /\ g = arg[h].guest /\ guests'[g].rsvp = h
<1>0. guests \in [Guest -> GuestRow \cup {None}] /\ guests[g] \in GuestRow
  BY DEF Base, TypeOK
<1>1. CASE Arrive(h)
  <2>1. PICK kind, x, first : Arrival(h, kind, x, first)
    BY <1>1, ArriveStart
  <2> QED BY <2>1, ArrivalFrame DEF tables
<1>2. CASE Run(h)
  <2>1. CASE InsertGuest(h) \/ InsertMany(h)
    <3>1. \A n \in 1..Rows : guests[<<h, n>>] = None
      BY <2>1 DEF InsertGuest, InsertMany, Goto, Base, ArgInv, Final
    <3>2. InsertMany(h) => arg[h] \in 1..Rows
      BY DEF InsertMany, Base, ArgInv
    <3>3. InsertMany(h) => g \notin Imported(h)
      BY <3>1, <3>2, PlanningAssumption DEF Imported
    <3>4. InsertGuest(h) => g # <<h, 1>>
      BY <3>1, PlanningAssumption
    <3>5. InsertGuest(h) => guests'[g] = guests[g]
      BY <1>0, <3>4 DEF InsertGuest
    <3>6. InsertMany(h) => guests'[g] = guests[g]
      BY <3>3 DEF InsertMany
    <3> QED BY <2>1, <3>5, <3>6
  <2>2. CASE StoreCode(h)
    <3>1. guests' = [guests EXCEPT ![<<h, 1>>].code = TRUE]
      BY <2>2 DEF StoreCode
    <3> QED BY <1>0, <3>1 DEF GuestRow
  <2>3. CASE WriteGuest(h)
    <3>1. \/ guests' = [guests EXCEPT ![arg[h].guest] = [@ EXCEPT !.deleted = TRUE]]
          \/ guests' = [guests EXCEPT ![arg[h].guest] = [@ EXCEPT !.by = h]]
      BY <2>3 DEF WriteGuest
    <3>2. \/ guests'[g] = guests[g]
          \/ guests'[g] = [guests[g] EXCEPT !.deleted = TRUE]
          \/ guests'[g] = [guests[g] EXCEPT !.by = h]
      BY <1>0, <3>1
    <3> QED BY <1>0, <3>2 DEF GuestRow
  <2>4. CASE SaveAnswer(h)
    <3>1. guests' = [guests EXCEPT ![arg[h].guest] = [@ EXCEPT !.rsvp = h]]
      BY <2>4 DEF SaveAnswer, Answered
    <3>2. \/ guests'[g] = guests[g]
          \/ g = arg[h].guest /\ guests'[g] = [guests[g] EXCEPT !.rsvp = h]
      BY <1>0, <3>1
    <3> QED BY <1>0, <1>2, <2>4, <3>2 DEF GuestRow
  <2> QED BY <1>2, <2>1, <2>2, <2>3, <2>4, Writers
<1> QED BY <1>1, <1>2

\* A row that appears shows no answer.
LEMMA NewRows ==
    ASSUME Base, NEW h \in Handlers, Arrive(h) \/ Run(h), NEW g \in Guest, guests[g] = None, guests'[g] # None
    PROVE  /\ guests'[g] = NewGuest(h, FALSE) \/ guests'[g] = NewGuest(h, TRUE)
           /\ \E n \in 1..Rows : g = <<h, n>>
           /\ InsertGuest(h) \/ InsertMany(h)
<1>0. guests \in [Guest -> GuestRow \cup {None}]
  BY DEF Base, TypeOK
<1>1. Run(h)
  BY ArriveStart, ArrivalFrame DEF tables
<1>2. op[h] \in {"edit", "drop", "rsvp"} => guests[arg[h].guest] # None
  BY DEF Base, ArgInv
<1>3. ~WriteGuest(h)
  BY <1>0, <1>2 DEF WriteGuest
<1>4. ~SaveAnswer(h)
  <2>1. SaveAnswer(h) => op[h] = "rsvp" /\ guests' = [guests EXCEPT ![arg[h].guest] = Answered(h, @)]
    BY DEF SaveAnswer, Goto, Base, PlaceInv
  <2> QED BY <1>0, <1>2, <2>1
<1>5. ~StoreCode(h)
  <2>1. StoreCode(h) => guests' = [guests EXCEPT ![<<h, 1>>].code = TRUE]
    BY DEF StoreCode
  <2>2. StoreCode(h) => g = <<h, 1>>
    BY <1>0, <2>1
  <2>3. StoreCode(h) => guests[<<h, 1>>] # None
    BY DEF StoreCode, Goto, Base, ArgInv
  <2> QED BY <2>2, <2>3
<1>6. CASE InsertGuest(h)
  <2>1. guests' = [guests EXCEPT ![<<h, 1>>] = NewGuest(h, FALSE)]
    BY <1>6 DEF InsertGuest
  <2>2. g = <<h, 1>> /\ guests'[g] = NewGuest(h, FALSE)
    BY <1>0, <2>1
  <2> QED BY <1>6, <2>2, PlanningAssumption
<1>7. CASE InsertMany(h)
  <2>1. /\ guests' = [k \in Guest |-> IF k \in Imported(h) THEN NewGuest(h, TRUE) ELSE guests[k]]
        /\ arg[h] \in 1..Rows
    BY <1>7 DEF InsertMany, Base, ArgInv
  <2>2. g \in Imported(h) /\ guests'[g] = NewGuest(h, TRUE)
    BY <2>1
  <2>3. PICK n \in 1..arg[h] : g = <<h, n>>
    BY <2>2 DEF Imported
  <2>4. n \in 1..Rows
    BY <2>1, <2>3, PlanningAssumption
  <2> QED BY <1>7, <2>2, <2>3, <2>4
<1> QED BY <1>1, <1>3, <1>4, <1>5, <1>6, <1>7, Writers

\* The answer of h is appended to a history of n answers.
Appended(h, n) ==
    /\ DOMAIN responses = 1..n /\ DOMAIN responses' = 1..(n + 1)
    /\ \A i \in 1..n : responses'[i] = responses[i]
    /\ responses'[n + 1].guest = arg[h].guest /\ responses'[n + 1].by = h

\* An answer is appended to the history by a request that has none in it.
LEMMA HistoryGrows ==
    ASSUME Base, NEW h \in Handlers, Arrive(h) \/ Run(h)
    PROVE  \/ responses' = responses
           \/ /\ Run(h) /\ pc[h] = "answer" /\ pc'[h] = "save" /\ op[h] = "rsvp"
              /\ guests' = guests
              /\ \E n \in Nat : Appended(h, n)
<1>1. CASE Arrive(h)
  BY <1>1, ArriveStart, ArrivalFrame DEF tables
<1>2. CASE Run(h) /\ InsertResponse(h)
  <2>1. /\ responses' = Append(responses, [guest |-> arg[h].guest, by |-> h])
        /\ pc[h] = "answer" /\ pc'[h] = "save" /\ op[h] = "rsvp" /\ guests' = guests
    BY <1>2 DEF InsertResponse, Goto, Base, PlaceInv, Functions
  <2>2. responses \in Seq(Response)
    BY DEF Base, TypeOK
  <2>3. [guest |-> arg[h].guest, by |-> h] \in Response
    BY <2>1 DEF Base, ArgInv, Response
  <2>4. PICK n \in Nat : n = Len(responses)
    BY <2>2
  <2>5. DOMAIN responses = 1..n
    BY <2>2, <2>4
  <2>6. DOMAIN responses' = 1..(n + 1)
    BY <2>1, <2>2, <2>3, <2>4
  <2>7. \A i \in 1..n : responses'[i] = responses[i]
    BY <2>1, <2>2, <2>3, <2>4
  <2>8. responses'[n + 1] = [guest |-> arg[h].guest, by |-> h]
    BY <2>1, <2>2, <2>3, <2>4
  <2>9. responses'[n + 1].guest = arg[h].guest /\ responses'[n + 1].by = h
    BY <2>8
  <2>10. Appended(h, n)
    BY <2>5, <2>6, <2>7, <2>9 DEF Appended
  <2> QED BY <1>2, <2>1, <2>10
<1> QED BY <1>1, <1>2, Writers

\* The part of the invariant about answers and their history is preserved.
LEMMA AnswerPartStays ==
    ASSUME Base, AnswerPart, NEW h \in Handlers, Arrive(h) \/ Run(h)
    PROVE  AnswerPart'
<1>0. Others(h)
  BY OthersStay
<1>1. \A i \in DOMAIN responses : responses[i] \in Response /\ responses'[i] = responses[i] /\ i \in DOMAIN responses'
  <2>1. \A i \in DOMAIN responses : responses[i] \in Response
    BY DEF Base, TypeOK
  <2>2. CASE responses' = responses
    BY <2>1, <2>2
  <2>3. CASE responses' # responses
    <3>1. PICK n \in Nat : Appended(h, n)
      BY <2>3, HistoryGrows
    <3> QED BY <2>1, <3>1 DEF Appended
  <2> QED BY <2>2, <2>3
<1>2. \A i \in DOMAIN responses' \ DOMAIN responses :
          /\ responses'[i].by = h /\ responses'[i].guest = arg[h].guest
          /\ pc[h] = "answer" /\ pc'[h] = "save" /\ op[h] = "rsvp" /\ Run(h) /\ guests' = guests
          /\ \A j \in DOMAIN responses' : ~(i < j)
  <2>1. CASE responses' # responses
    <3>1. PICK n \in Nat : Appended(h, n)
      BY <2>1, HistoryGrows
    <3>2. \A i \in DOMAIN responses' \ DOMAIN responses : i = n + 1 /\ \A j \in DOMAIN responses' : ~(i < j)
      BY <3>1 DEF Appended
    <3> QED BY <2>1, <3>1, <3>2, HistoryGrows DEF Appended
  <2>2. CASE responses' = responses
    BY <2>2
  <2> QED BY <2>1, <2>2
<1>3. \A i \in DOMAIN responses :
          LET k == responses[i].by IN
          /\ k \in Handlers /\ op[k] = "rsvp" /\ pc[k] \in {"save", "done"} /\ arg[k].guest = responses[i].guest
          /\ responses[i].guest \in Guest /\ guests[responses[i].guest] # None
          /\ op'[k] = op[k] /\ arg'[k] = arg[k] /\ pre'[k] = pre[k]
  <2> SUFFICES ASSUME NEW i \in DOMAIN responses, NEW k, k = responses[i].by
               PROVE  /\ k \in Handlers /\ op[k] = "rsvp" /\ pc[k] \in {"save", "done"} /\ arg[k].guest = responses[i].guest
                      /\ responses[i].guest \in Guest /\ guests[responses[i].guest] # None
                      /\ op'[k] = op[k] /\ arg'[k] = arg[k] /\ pre'[k] = pre[k]
    BY Zenon
  <2>1. k \in Handlers /\ op[k] = "rsvp" /\ pc[k] \in {"save", "done"} /\ arg[k].guest = responses[i].guest
    BY <1>1 DEF AnswerPart, ResponseInv, Response
  <2>2. responses[i].guest \in Guest /\ guests[responses[i].guest] # None
    BY <2>1 DEF Base, ArgInv
  <2>3. op'[k] = op[k] /\ arg'[k] = arg[k] /\ pre'[k] = pre[k]
    BY <1>0, <2>1 DEF Others
  <2> QED BY <2>1, <2>2, <2>3
<1>4. ASSUME NEW i \in DOMAIN responses PROVE pc'[responses[i].by] \in {"save", "done"}
  <2>1. CASE responses[i].by = h
    <3>1. Run(h) /\ op[h] = "rsvp" /\ pc[h] \in {"save", "done"}
      BY <1>3, <2>1, ArriveStart, ArrivalFrame
    <3> QED BY <2>1, <3>1, Course DEF FindByCode, InsertResponse, SaveAnswer, Goto, Base, Functions
  <2>2. CASE responses[i].by # h
    BY <1>0, <1>3, <2>2 DEF Others
  <2> QED BY <2>1, <2>2
<1>5. Run(h) => op' = op /\ arg' = arg /\ pre' = pre
  BY RunSteps DEF Steps
<1>6. \A i \in DOMAIN responses' : ResponseInv(i)'
  <2> SUFFICES ASSUME NEW i \in DOMAIN responses' PROVE ResponseInv(i)'
    OBVIOUS
  <2>1. CASE i \in DOMAIN responses
    BY <1>1, <1>3, <1>4, <2>1 DEF ResponseInv
  <2>2. CASE i \notin DOMAIN responses
    BY <1>2, <1>5, <2>2 DEF ResponseInv
  <2> QED BY <2>1, <2>2
<1>7. \A i, j \in DOMAIN responses' : i < j =>
          responses'[i].by # responses'[j].by /\ responses'[j].by \notin pre'[responses'[i].by]
  <2> SUFFICES ASSUME NEW i \in DOMAIN responses', NEW j \in DOMAIN responses', i < j
               PROVE  responses'[i].by # responses'[j].by /\ responses'[j].by \notin pre'[responses'[i].by]
    OBVIOUS
  <2>1. CASE i \in DOMAIN responses /\ j \in DOMAIN responses
    BY <1>1, <1>3, <2>1 DEF AnswerPart
  <2>2. CASE i \in DOMAIN responses /\ j \notin DOMAIN responses
    BY <1>0, <1>1, <1>2, <1>3, <2>2 DEF Others
  <2>3. CASE i \notin DOMAIN responses
    BY <1>2, <2>3
  <2> QED BY <2>1, <2>2, <2>3
<1>8. ASSUME NEW k \in Handlers, pc'[k] = "save"
      PROVE  \E i \in DOMAIN responses' : responses'[i].by = k
  <2>1. CASE pc[k] = "save"
    BY <1>1, <2>1 DEF AnswerPart
  <2>2. CASE pc[k] # "save"
    <3>1. k = h /\ Run(h)
      BY <1>0, <1>8, <2>2, ArriveStart, ArrivalFrame DEF Others
    <3>2. InsertResponse(h)
      <4>1. op[h] = "rsvp"
        BY <1>5, <1>8, <3>1, <2>2, Course DEF ReadEventCache, LoadEvent, FillEventCache, CheckAccess, WriteEvent,
             ForgetEvent, ReadStatsCache, CountOne, KeepStats, FindGuest, WriteGuest, InsertGuest, StoreCode,
             InsertMany, ReadPage, LookUp, InsertContribution, UnknownTemplate, InsertInvitation, FindInvitation,
             WriteInvitation, ReadPreviewedEvent, Goto, Admitted, AfterEnsure, Base, Functions, Op
      <4> QED BY <1>8, <3>1, <2>2, <4>1, Course DEF FindByCode, SaveAnswer, Goto, Base, Functions
    <3>3. responses' = Append(responses, [guest |-> arg[h].guest, by |-> h]) /\ responses \in Seq(Response)
      BY <3>2 DEF InsertResponse, Base, TypeOK
    <3>4. [guest |-> arg[h].guest, by |-> h] \in Response
      BY <3>2 DEF InsertResponse, Goto, Base, PlaceInv, ArgInv, Response
    <3>5. PICK n \in Nat : n = Len(responses) + 1
      BY <3>3
    <3>6. n \in DOMAIN responses' /\ responses'[n] = [guest |-> arg[h].guest, by |-> h]
      BY <3>3, <3>4, <3>5
    <3> QED BY <3>1, <3>6
  <2> QED BY <2>1, <2>2
<1>9. ASSUME NEW g \in Guest, guests'[g] # None, guests'[g].rsvp # None
      PROVE  \E i \in DOMAIN responses' : responses'[i].by = guests'[g].rsvp /\ responses'[i].guest = g
  <2>1. CASE guests[g] # None /\ guests'[g].rsvp = guests[g].rsvp
    BY <1>1, <1>9, <2>1 DEF AnswerPart
  <2>2. CASE guests[g] # None /\ SaveAnswer(h) /\ g = arg[h].guest /\ guests'[g].rsvp = h
    <3>1. PICK i \in DOMAIN responses : responses[i].by = h
      BY <2>2 DEF SaveAnswer, Goto, AnswerPart
    <3> QED BY <1>1, <1>3, <2>2, <3>1
  <2>3. guests[g] # None
    <3>0. NewGuest(h, TRUE).rsvp = None /\ NewGuest(h, FALSE).rsvp = None
      BY DEF NewGuest
    <3>1. guests[g] = None => guests'[g].rsvp = None
      BY <1>9, <3>0, NewRows
    <3> QED BY <1>9, <3>1
  <2> QED BY <2>1, <2>2, <2>3, RsvpStays
<1>10. ASSUME NEW i \in DOMAIN responses', Latest(i)', pc'[responses'[i].by] = "done"
       PROVE  LET k == guests'[responses'[i].guest].rsvp IN
              k # None /\ (k = responses'[i].by \/ k \notin pre'[responses'[i].by])
  <2>1. i \in DOMAIN responses
    BY <1>2, <1>10
  <2>2. Latest(i)
    BY <1>1, <1>10, <2>1 DEF Latest
  <2>3. /\ responses'[i] = responses[i] /\ responses[i].by \in Handlers /\ pre'[responses[i].by] = pre[responses[i].by]
        /\ responses[i].guest \in Guest /\ guests[responses[i].guest] # None
    BY <1>1, <1>3, <2>1
  <2>4. PICK g \in Guest, a \in Handlers : g = responses[i].guest /\ a = responses[i].by
    BY <2>3
  <2>5. CASE SaveAnswer(h) /\ Run(h) /\ g = arg[h].guest /\ guests'[g].rsvp = h
    <3>1. h \notin pre[a]
      BY <1>0, <2>5 DEF SaveAnswer, Goto, Others
    <3>2. h # None
      BY PlanningAssumption
    <3> QED BY <2>3, <2>4, <2>5, <3>1, <3>2
  <2>6. CASE guests'[g].rsvp = guests[g].rsvp /\ pc[a] = "done"
    BY <2>1, <2>2, <2>3, <2>4, <2>6 DEF AnswerPart
  <2>7. CASE guests'[g].rsvp = guests[g].rsvp /\ pc[a] # "done"
    <3>1. a = h /\ Run(h) /\ op[h] = "rsvp" /\ pc[h] = "save" /\ arg[h].guest = g
      BY <1>0, <1>3, <1>10, <2>1, <2>3, <2>4, <2>7, ArriveStart, ArrivalFrame DEF Others
    <3>2. SaveAnswer(h)
      BY <3>1, Course DEF FindByCode, InsertResponse, Goto
    <3>3. guests' = [guests EXCEPT ![g] = [@ EXCEPT !.rsvp = h]] /\ guests[g] \in GuestRow
          /\ guests \in [Guest -> GuestRow \cup {None}]
      BY <2>3, <2>4, <3>1, <3>2 DEF SaveAnswer, Answered, Base, TypeOK
    <3>4. guests'[g].rsvp = h /\ h # None
      BY <3>3, PlanningAssumption DEF GuestRow
    <3> QED BY <2>3, <2>4, <3>1, <3>4
  <2> QED BY <2>3, <2>4, <2>5, <2>6, <2>7, RsvpStays
<1> QED BY <1>6, <1>7, <1>8, <1>9, <1>10 DEF AnswerPart

-----------------------------------------------------------------------------
(* The contributions.                                                       *)

\* A request imports as many guests as it brought rows.
LEMMA ImportedAreCounted ==
    ASSUME NEW h \in Handlers, arg[h] \in 1..Rows
    PROVE  IsFiniteSet(Imported(h)) /\ Cardinality(Imported(h)) = arg[h]
<1>1. PICK n \in Nat : n = arg[h] /\ n >= 1
  BY PlanningAssumption
<1>2. IsFiniteSet({h}) /\ Cardinality({h}) = 1
  BY FS_Singleton
<1>3. IsFiniteSet(1..n) /\ Cardinality(1..n) = n
  <2>1. 1 \in Int /\ n \in Int
    BY <1>1
  <2>2. IsFiniteSet(1..n) /\ Cardinality(1..n) = IF 1 > n THEN 0 ELSE n - 1 + 1
    BY ONLY <2>1, FS_Interval
  <2> QED BY <1>1, <2>2
<1>4. IsFiniteSet({h} \X (1..n)) /\ Cardinality({h} \X (1..n)) = 1 * n
  BY ZenonT(40), <1>2, <1>3, FS_Product
<1> QED BY <1>1, <1>4 DEF Imported

\* The guests of the event stay finitely many, and none of them disappears.
LEMMA KnownGrows ==
    ASSUME Base, IsFiniteSet(Known), NEW h \in Handlers, Arrive(h) \/ Run(h)
    PROVE  Known \subseteq Known' /\ IsFiniteSet(Known')
<1>1. Known \subseteq Known'
  BY RemovalsStand DEF Known
<1>2. Known' \subseteq Known \cup ({h} \X (1..Rows))
  <2> SUFFICES ASSUME NEW g \in Known', g \notin Known PROVE g \in {h} \X (1..Rows)
    OBVIOUS
  <2>1. g \in Guest /\ guests[g] = None /\ guests'[g] # None
    BY DEF Known
  <2>2. \E n \in 1..Rows : g = <<h, n>>
    BY <2>1, NewRows
  <2> QED BY <2>2
<1>3. IsFiniteSet({h} \X (1..Rows))
  <2>1. IsFiniteSet({h})
    BY FS_Singleton
  <2>2. IsFiniteSet(1..Rows)
    BY PlanningAssumption, FS_Interval
  <2> QED BY <2>1, <2>2, FS_Product
<1>4. IsFiniteSet(Known \cup ({h} \X (1..Rows)))
  BY <1>3, FS_Union
<1> QED BY <1>1, <1>2, <1>4, FS_Subset

\* The guests of an import stay outweighed while more guests are ensured and
\* guests are removed.
LEMMA OutweighedStays ==
    ASSUME Base, IsFiniteSet(Known), NEW h \in Handlers, Arrive(h) \/ Run(h),
           NEW k \in Handlers, arg[k] \in 1..Rows, arg'[k] = arg[k], Imported(k) \subseteq Known,
           NEW S, NEW T, S \subseteq T, T \subseteq Known', Outweighed(k, S)
    PROVE  Cardinality({g \in Imported(k)' : ~guests'[g].deleted /\ g \notin T}) <= Cardinality(T \ Imported(k)')
<1> DEFINE L == {g \in Imported(k) : ~guests[g].deleted /\ g \notin S}
           M == {g \in Imported(k) : ~guests'[g].deleted /\ g \notin T}
<1>1. Imported(k)' = Imported(k)
  BY DEF Imported
<1>2. \A g \in Imported(k) : guests[g].deleted => guests'[g].deleted
  BY RemovalsStand DEF Known
<1>3. M \subseteq L /\ L \subseteq Imported(k)
  BY <1>2
<1>4. IsFiniteSet(Imported(k))
  BY ImportedAreCounted
<1>5. IsFiniteSet(L)
  BY <1>3, <1>4, FS_Subset
<1>6. IsFiniteSet(M) /\ Cardinality(M) <= Cardinality(L)
  BY <1>3, <1>5, FS_Subset
<1>7. IsFiniteSet(T)
  BY KnownGrows, FS_Subset
<1>8. IsFiniteSet(T \ Imported(k))
  BY <1>7, FS_Subset
<1>9. IsFiniteSet(S \ Imported(k)) /\ Cardinality(S \ Imported(k)) <= Cardinality(T \ Imported(k))
  <2>1. S \ Imported(k) \subseteq T \ Imported(k)
    OBVIOUS
  <2> QED BY <1>8, <2>1, FS_Subset
<1>10. Cardinality(L) <= Cardinality(S \ Imported(k))
  BY DEF Outweighed
<1>11. /\ Cardinality(L) \in Nat /\ Cardinality(M) \in Nat
       /\ Cardinality(S \ Imported(k)) \in Nat /\ Cardinality(T \ Imported(k)) \in Nat
  BY <1>5, <1>6, <1>8, <1>9, FS_CardinalityType
<1> HIDE DEF L
<1>12. Cardinality(M) <= Cardinality(T \ Imported(k))
  BY <1>6, <1>9, <1>10, <1>11
<1>13. {g \in Imported(k)' : ~guests'[g].deleted /\ g \notin T} = M
  BY <1>1
<1> QED BY <1>1, <1>12, <1>13

\* The first page holds all of the guests, or as many as were imported.
LEMMA PageOutweighs ==
    ASSUME Base, IsFiniteSet(Known), NEW h \in Handlers, arg[h] \in 1..Rows, Imported(h) \subseteq Known,
           NEW page \in FirstPage(h), NEW S, page \subseteq S, S \subseteq Known
    PROVE  Outweighed(h, S)
<1> DEFINE L == {g \in Imported(h) : ~guests[g].deleted /\ g \notin S}
<1>1. IsFiniteSet(Imported(h)) /\ Cardinality(Imported(h)) = arg[h] /\ arg[h] \in Nat
  BY ImportedAreCounted, PlanningAssumption
<1>2. Listed \subseteq Known /\ page \subseteq Listed
  BY DEF Listed, Known, FirstPage
<1>3. IsFiniteSet(Listed) /\ IsFiniteSet(page)
  BY <1>2, FS_Subset
<1>4. IsFiniteSet(S)
  BY FS_Subset
<1>5. L \subseteq Listed /\ L \subseteq Imported(h) \ page
  BY DEF Listed, Known
<1>6. Cardinality(Listed) \in Nat /\ Cardinality(page) \in Nat
  BY <1>3, FS_CardinalityType
<1>7. IsFiniteSet(S \ Imported(h)) /\ Cardinality(S \ Imported(h)) \in Nat
  <2>1. IsFiniteSet(S \ Imported(h))
    BY <1>4, FS_Subset
  <2> QED BY <2>1, FS_CardinalityType
<1>8. CASE Cardinality(page) = Cardinality(Listed)
  <2>1. page = Listed
    BY <1>2, <1>3, <1>8, FS_Subset
  <2>2. L = {}
    BY <1>5, <2>1
  <2>3. Cardinality(L) = 0
    BY <2>2, FS_EmptySet
  <2> HIDE DEF L
  <2>4. Cardinality(L) <= Cardinality(S \ Imported(h))
    BY <1>7, <2>3
  <2> QED BY <2>4 DEF Outweighed, L
<1>9. CASE Cardinality(page) = arg[h]
  <2>1. /\ IsFiniteSet(Imported(h) \ page) /\ IsFiniteSet(page \ Imported(h))
        /\ Cardinality(Imported(h) \ page) = Cardinality(Imported(h)) - Cardinality(Imported(h) \cap page)
        /\ Cardinality(page \ Imported(h)) = Cardinality(page) - Cardinality(page \cap Imported(h))
    BY <1>1, <1>3, FS_Difference
  <2>2. Imported(h) \cap page = page \cap Imported(h)
    OBVIOUS
  <2>3. Cardinality(Imported(h) \ page) = Cardinality(page \ Imported(h))
    BY <1>1, <1>9, <2>1, <2>2
  <2>4. IsFiniteSet(L) /\ Cardinality(L) <= Cardinality(Imported(h) \ page)
    BY <1>5, <2>1, FS_Subset
  <2>5. page \ Imported(h) \subseteq S \ Imported(h)
    OBVIOUS
  <2>6. Cardinality(page \ Imported(h)) <= Cardinality(S \ Imported(h))
    BY <1>7, <2>5, FS_Subset
  <2>7. Cardinality(L) \in Nat /\ Cardinality(page \ Imported(h)) \in Nat
    BY <2>1, <2>4, FS_CardinalityType
  <2> HIDE DEF L
  <2>8. Cardinality(L) <= Cardinality(S \ Imported(h))
    BY <1>7, <2>3, <2>4, <2>6, <2>7
  <2> QED BY <2>8 DEF Outweighed, L
<1> QED BY <1>8, <1>9 DEF FirstPage, PageSize

\* A contribution is inserted for a guest that exists.
LEMMA ContributionsGrow ==
    ASSUME Base, ContributionPart, NEW h \in Handlers, Arrive(h) \/ Run(h)
    PROVE  contributions \subseteq contributions' /\ contributions' \subseteq Known'
<1>1. contributions \subseteq Known
  BY DEF Base, TypeOK, Functions, Known
<1>2. Known \subseteq Known'
  BY KnownGrows DEF ContributionPart
<1>3. CASE contributions' = contributions
  BY <1>1, <1>2, <1>3
<1>4. CASE InsertContribution(h)
  <2>1. PICK g \in got[h].make : contributions' = contributions \cup {g}
    BY <1>4 DEF InsertContribution
  <2>2. got[h].look \cup got[h].make \subseteq Known
    BY <1>4 DEF InsertContribution, ContributionPart, EnsureInv
  <2> QED BY <1>1, <1>2, <2>1, <2>2
<1>5. CASE Arrive(h)
  BY <1>3, <1>5, ArriveStart, ArrivalFrame DEF tables
<1> QED BY <1>3, <1>4, <1>5, Writers

\* What another request ensures stays ensured.
LEMMA OthersEnsure ==
    ASSUME Base, ContributionPart, NEW h \in Handlers, Arrive(h) \/ Run(h), NEW k \in Handlers \ {h}
    PROVE  EnsureInv(k)'
<1>0. pc'[k] = pc[k] /\ op'[k] = op[k] /\ arg'[k] = arg[k] /\ got'[k] = got[k]
  BY OthersStay DEF Others
<1>1. EnsureInv(k)
  BY DEF ContributionPart
<1>2. Known \subseteq Known' /\ contributions \subseteq contributions' /\ contributions' \subseteq Known'
  BY KnownGrows, ContributionsGrow DEF ContributionPart
<1>3. Imported(k)' = Imported(k)
  BY <1>0 DEF Imported
<1>4. Wanted(k) \subseteq Wanted(k)'
  BY <1>0, <1>2 DEF Wanted
<1>5. ASSUME op[k] = "import", pc[k] = "ensure" PROVE Outweighed(k, Wanted(k))'
  <2>1. Outweighed(k, Wanted(k)) /\ Imported(k) \subseteq Known /\ got[k].look \cup got[k].make \subseteq Known
    BY <1>1, <1>5 DEF EnsureInv
  <2>2. arg[k] \in 1..Rows
    BY <1>5 DEF Base, ArgInv
  <2>3. Wanted(k)' \subseteq Known'
    BY <1>0, <1>2, <2>1 DEF Wanted
  <2>4. PICK S, T : S = Wanted(k) /\ T = Wanted(k)'
    OBVIOUS
  <2>5. Outweighed(k, S)
    BY <2>1, <2>4
  <2>6. Cardinality({g \in Imported(k)' : ~guests'[g].deleted /\ g \notin T}) <= Cardinality(T \ Imported(k)')
    BY <1>0, <1>4, <2>1, <2>2, <2>3, <2>4, <2>5, OutweighedStays DEF ContributionPart
  <2> QED BY <2>4, <2>6 DEF Outweighed
<1>6. ASSUME op[k] = "import", pc[k] = "done" PROVE Outweighed(k, contributions)'
  <2>1. Outweighed(k, contributions) /\ Imported(k) \subseteq Known
    BY <1>1, <1>6 DEF EnsureInv
  <2>2. arg[k] \in 1..Rows
    BY <1>6 DEF Base, ArgInv
  <2>4. PICK S, T : S = contributions /\ T = contributions'
    OBVIOUS
  <2>5. Outweighed(k, S)
    BY <2>1, <2>4
  <2>6. Cardinality({g \in Imported(k)' : ~guests'[g].deleted /\ g \notin T}) <= Cardinality(T \ Imported(k)')
    BY <1>0, <1>2, <2>1, <2>2, <2>4, <2>5, OutweighedStays DEF ContributionPart
  <2> QED BY <2>4, <2>6 DEF Outweighed
<1> QED BY <1>0, <1>1, <1>2, <1>3, <1>4, <1>5, <1>6 DEF EnsureInv

\* A request that works off what it ensures loses none of it.
LEMMA EnsuringStays ==
    ASSUME Base, ContributionPart, NEW h \in Handlers, Run(h), LookUp(h) \/ InsertContribution(h)
    PROVE  EnsureInv(h)'
<1>0. /\ pc[h] \in {"ensure", "failed"} /\ op[h] \in {"add", "import"} /\ got[h] # None
      /\ op' = op /\ arg' = arg
  BY RunSteps DEF LookUp, InsertContribution, Steps
<1>1. EnsureInv(h)
  BY DEF ContributionPart
<1>2. got[h] \in [look : SUBSET Guest, make : SUBSET Guest] /\ got[h].look \cup got[h].make \subseteq Known
  BY <1>0, <1>1 DEF EnsureInv
<1>3. Known \subseteq Known' /\ contributions \subseteq contributions' /\ contributions' \subseteq Known'
  BY KnownGrows, ContributionsGrow DEF ContributionPart
<1>4. Imported(h)' = Imported(h)
  BY <1>0 DEF Imported
<1>5. PICK look \in SUBSET Guest, make \in SUBSET Guest :
         /\ got'[h] = [look |-> look, make |-> make]
         /\ look \cup make \subseteq got[h].look \cup got[h].make
         /\ pc'[h] # "failed" => /\ pc[h] = "ensure" /\ pc'[h] = IF look \cup make = {} THEN "done" ELSE "ensure"
                                 /\ contributions' \cup look \cup make = Wanted(h)
  <2>1. CASE LookUp(h)
    <3>1. PICK g \in got[h].look :
             LET missing == event.deleted \/ g \notin Listed
                 rest == [look |-> got[h].look \ {g},
                          make |-> IF missing \/ g \in contributions THEN got[h].make
                                   ELSE got[h].make \cup {g}] IN
             /\ got' = [got EXCEPT ![h] = rest]
             /\ pc' = [pc EXCEPT ![h] = IF missing THEN "failed" ELSE AfterEnsure(h, rest)]
      BY <2>1 DEF LookUp
    <3>2. contributions' = contributions /\ g \in Guest
      BY <1>2, <2>1 DEF LookUp, tables
    <3>3. PICK make \in SUBSET Guest :
             /\ make = IF (event.deleted \/ g \notin Listed) \/ g \in contributions THEN got[h].make
                       ELSE got[h].make \cup {g}
             /\ make \subseteq got[h].look \cup got[h].make
      BY <1>2
    <3>4. /\ got'[h] = [look |-> got[h].look \ {g}, make |-> make]
          /\ pc'[h] = IF event.deleted \/ g \notin Listed THEN "failed"
                      ELSE AfterEnsure(h, [look |-> got[h].look \ {g}, make |-> make])
      BY <3>1, <3>3 DEF Base, Functions
    <3>5. pc'[h] # "failed" => /\ pc[h] = "ensure"
                               /\ pc'[h] = IF (got[h].look \ {g}) \cup make = {} THEN "done" ELSE "ensure"
                               /\ ~(event.deleted \/ g \notin Listed)
      BY <1>0, <3>4 DEF AfterEnsure
    <3>6. ~(event.deleted \/ g \notin Listed) => contributions \cup (got[h].look \ {g}) \cup make = Wanted(h)
      BY <3>3 DEF Wanted
    <3>7. got[h].look \ {g} \in SUBSET Guest
      BY <1>2
    <3>8. (got[h].look \ {g}) \cup make \subseteq got[h].look \cup got[h].make
      BY <3>3
    <3> QED BY <3>2, <3>4, <3>5, <3>6, <3>7, <3>8
  <2>2. CASE InsertContribution(h)
    <3>1. PICK g \in got[h].make :
             LET rest == [got[h] EXCEPT !.make = @ \ {g}] IN
             /\ contributions' = contributions \cup {g}
             /\ got' = [got EXCEPT ![h] = rest]
             /\ pc' = [pc EXCEPT ![h] = IF g \in contributions THEN "failed" ELSE AfterEnsure(h, rest)]
      BY <2>2 DEF InsertContribution
    <3>2. [got[h] EXCEPT !.make = @ \ {g}] = [look |-> got[h].look, make |-> got[h].make \ {g}]
      BY <1>2
    <3>3. PICK make \in SUBSET Guest : make = got[h].make \ {g}
      BY <1>2
    <3>4. /\ got'[h] = [look |-> got[h].look, make |-> make]
          /\ pc'[h] = IF g \in contributions THEN "failed"
                      ELSE AfterEnsure(h, [look |-> got[h].look, make |-> make])
      BY <3>1, <3>2, <3>3 DEF Base, Functions
    <3>5. pc'[h] # "failed" => /\ pc[h] = "ensure"
                               /\ pc'[h] = IF got[h].look \cup make = {} THEN "done" ELSE "ensure"
      BY <1>0, <3>4 DEF AfterEnsure
    <3>6. contributions' \cup got[h].look \cup make = Wanted(h)
      BY <3>1, <3>3 DEF Wanted
    <3>7. got[h].look \in SUBSET Guest
      BY <1>2
    <3>8. got[h].look \cup make \subseteq got[h].look \cup got[h].make
      BY <3>3
    <3> QED BY <3>4, <3>5, <3>6, <3>7, <3>8
  <2> QED BY <2>1, <2>2
<1>6. got'[h].look = look /\ got'[h].make = make /\ got'[h] \in [look : SUBSET Guest, make : SUBSET Guest]
  BY <1>5
<1>7. look \cup make \subseteq Known'
  BY <1>2, <1>3, <1>5
<1>8. ASSUME op[h] = "import", pc'[h] # "failed"
      PROVE  /\ Imported(h) \subseteq Known
             /\ Cardinality({g \in Imported(h)' : ~guests'[g].deleted /\ g \notin contributions' \cup look \cup make})
                  <= Cardinality((contributions' \cup look \cup make) \ Imported(h)')
  <2>1. pc[h] = "ensure" /\ arg[h] \in 1..Rows
    BY <1>5, <1>8 DEF Base, ArgInv
  <2>2. Outweighed(h, Wanted(h)) /\ Imported(h) \subseteq Known
    BY <1>1, <1>8, <2>1 DEF EnsureInv
  <2>3. PICK S, T : S = Wanted(h) /\ T = contributions' \cup look \cup make
    OBVIOUS
  <2>4. S \subseteq T /\ T \subseteq Known' /\ Outweighed(h, S) /\ arg'[h] = arg[h]
    BY <1>0, <1>3, <1>5, <1>7, <1>8, <2>2, <2>3
  <2>5. Cardinality({g \in Imported(h)' : ~guests'[g].deleted /\ g \notin T}) <= Cardinality(T \ Imported(h)')
    BY <2>1, <2>2, <2>4, OutweighedStays DEF ContributionPart
  <2> QED BY <2>2, <2>3, <2>5
<1>9. pc'[h] # "failed" /\ op[h] = "add" => <<h, 1>> \in contributions' \cup look \cup make
  BY <1>1, <1>5 DEF EnsureInv
<1>10. pc'[h] \in {"failed", "done", "ensure"} /\ (pc'[h] = "done" => look \cup make = {})
  BY <1>5
<1>11. ASSUME pc'[h] = "ensure" PROVE op[h] = "import" => Outweighed(h, Wanted(h))'
  BY <1>6, <1>8, <1>11 DEF Outweighed, Wanted
<1>12. ASSUME pc'[h] = "done" PROVE op[h] = "import" => Outweighed(h, contributions)'
  <2>1. contributions' \cup look \cup make = contributions'
    BY <1>10, <1>12
  <2> QED BY <1>8, <1>12, <2>1 DEF Outweighed
<1>13. pc'[h] = "ensure" /\ op[h] = "add" => <<h, 1>> \in Wanted(h)'
  BY <1>6, <1>9 DEF Wanted
<1>14. pc'[h] = "done" /\ op[h] = "add" => <<h, 1>> \in contributions'
  BY <1>9, <1>10
<1>15. pc'[h] # "failed" /\ op[h] = "import" => Imported(h)' \subseteq Known'
  BY <1>3, <1>4, <1>8
<1> QED BY <1>0, <1>6, <1>7, <1>10, <1>11, <1>12, <1>13, <1>14, <1>15 DEF EnsureInv

\* An addition and an import ensure what they are to ensure.
LEMMA EnsureStays ==
    ASSUME Base, ContributionPart, NEW h \in Handlers, Arrive(h) \/ Run(h)
    PROVE  EnsureInv(h)'
<1>1. CASE Arrive(h)
  <2>1. PICK kind, x, first : Arrival(h, kind, x, first)
    BY <1>1, ArriveStart
  <2>2. /\ pc'[h] \in {"cache", "cached", "access", "guest", "find", "invitation"}
        /\ got'[h] = None
    BY <2>1, ArrivalFrame
  <2> QED BY <2>2 DEF EnsureInv
<1>2. CASE Run(h) /\ (LookUp(h) \/ InsertContribution(h))
  BY <1>2, EnsuringStays
<1>3. CASE Run(h) /\ op[h] \notin {"add", "import"}
  BY <1>3, RunSteps DEF Steps, EnsureInv
<1>4. CASE Run(h) /\ op[h] \in {"add", "import"} /\ ~(LookUp(h) \/ InsertContribution(h))
  <2>0. op' = op /\ arg' = arg /\ pc \in [Handlers -> Place] /\ EnsureInv(h) /\ Imported(h)' = Imported(h)
    BY <1>4, RunSteps DEF Steps, Base, Functions, ContributionPart, Imported
  <2>1. Known \subseteq Known' /\ IsFiniteSet(Known') /\ contributions \subseteq contributions'
        /\ contributions' \subseteq Known'
    BY <1>4, KnownGrows, ContributionsGrow DEF ContributionPart
  <2>2. CASE CheckAccess(h)
    <3>1. pc[h] = "access" /\ pc'[h] \in {"insert", "failed"} /\ got' = got
      BY <1>4, <2>0, <2>2 DEF CheckAccess, Goto, Admitted
    <3>2. got[h] = None
      BY <1>4, <2>0, <3>1 DEF EnsureInv
    <3> QED BY <2>0, <3>1, <3>2 DEF EnsureInv
  <2>3. CASE InsertGuest(h)
    <3>1. pc[h] = "insert" /\ pc'[h] = "code" /\ got' = got /\ op[h] = "add"
      BY <2>0, <2>3 DEF InsertGuest, Goto
    <3>2. got[h] = None
      BY <2>0, <3>1 DEF EnsureInv
    <3> QED BY <2>0, <3>1, <3>2 DEF EnsureInv
  <2>4. CASE StoreCode(h)
    <3>1. /\ pc[h] = "code" /\ pc'[h] = "ensure" /\ op[h] = "add"
          /\ got'[h] = [look |-> {<<h, 1>>}, make |-> {}]
      BY <2>0, <2>4 DEF StoreCode, Goto, Ensures, Base, Functions, PlaceInv
    <3>2. <<h, 1>> \in Guest
      BY PlanningAssumption DEF Guest
    <3>3. <<h, 1>> \in Known'
      BY <2>1, <3>1, <3>2 DEF Base, ArgInv, Known
    <3>4. /\ got'[h].look = {<<h, 1>>} /\ got'[h].make = {}
          /\ got'[h] \in [look : SUBSET Guest, make : SUBSET Guest]
      BY <3>1, <3>2
    <3>5. <<h, 1>> \in Wanted(h)'
      BY <3>4 DEF Wanted
    <3> QED BY <2>0, <3>1, <3>3, <3>4, <3>5 DEF EnsureInv
  <2>5. CASE InsertMany(h)
    <3>1. /\ pc[h] = "insert" /\ pc'[h] = "page" /\ got' = got /\ op[h] = "import" /\ arg[h] \in 1..Rows
          /\ guests' = [g \in Guest |-> IF g \in Imported(h) THEN NewGuest(h, TRUE) ELSE guests[g]]
      BY <2>0, <2>5 DEF InsertMany, Goto, Base, ArgInv
    <3>2. got[h] = None
      BY <2>0, <3>1 DEF EnsureInv
    <3>3. NewGuest(h, TRUE) \in GuestRow
      BY DEF NewGuest, GuestRow
    <3>4. Imported(h) \subseteq Guest
      BY <3>1, PlanningAssumption DEF Imported, Guest
    <3>5. Imported(h) \subseteq Known'
      BY <3>1, <3>3, <3>4, NoneIsNoRow DEF Known
    <3> QED BY <2>0, <3>1, <3>2, <3>5 DEF EnsureInv
  <2>6. CASE ReadPage(h)
    <3>1. PICK page \in FirstPage(h) :
             /\ pc' = [pc EXCEPT ![h] = IF page = {} THEN "done" ELSE "ensure"]
             /\ got' = [got EXCEPT ![h] = Ensures(page)]
      BY <2>6 DEF ReadPage, Goto
    <3>2. /\ pc[h] = "page" /\ op[h] = "import" /\ arg[h] \in 1..Rows
          /\ contributions' = contributions /\ guests' = guests
      BY <2>0, <2>6 DEF ReadPage, Base, PlaceInv, ArgInv, tables
    <3>3. Imported(h) \subseteq Known /\ IsFiniteSet(Known)
      BY <2>0, <3>2 DEF EnsureInv, ContributionPart
    <3>4. page \subseteq Known /\ page \subseteq Guest /\ contributions \subseteq Known
      BY DEF FirstPage, Listed, Known, Base, TypeOK, Functions
    <3>5. pc'[h] = IF page = {} THEN "done" ELSE "ensure"
      BY <2>0, <3>1
    <3>6. /\ got'[h].look = page /\ got'[h].make = {}
          /\ got'[h] \in [look : SUBSET Guest, make : SUBSET Guest]
      BY <3>1, <3>4 DEF Ensures, Base, Functions
    <3>7. Outweighed(h, contributions \cup page)
      BY <3>2, <3>3, <3>4, PageOutweighs
    <3>8. Wanted(h)' = contributions \cup page
      BY <3>2, <3>6 DEF Wanted
    <3>9. pc'[h] = "ensure" => Outweighed(h, Wanted(h))'
      BY <2>0, <3>2, <3>7, <3>8 DEF Outweighed
    <3>10. pc'[h] = "done" => Outweighed(h, contributions)'
      <4>1. pc'[h] = "done" => contributions \cup page = contributions
        BY <3>5
      <4> QED BY <2>0, <3>2, <3>7, <4>1 DEF Outweighed
    <3>11. got'[h].look \cup got'[h].make \subseteq Known' /\ Imported(h)' \subseteq Known'
      BY <2>0, <2>1, <3>3, <3>4, <3>6
    <3> QED BY <2>0, <3>2, <3>5, <3>6, <3>9, <3>10, <3>11 DEF EnsureInv
  <2> QED BY <1>4, <2>2, <2>3, <2>4, <2>5, <2>6, Course
<1> QED BY <1>1, <1>2, <1>3, <1>4

\* The part of the invariant about imports is preserved.
LEMMA ContributionPartStays ==
    ASSUME Base, ContributionPart, NEW h \in Handlers, Arrive(h) \/ Run(h)
    PROVE  ContributionPart'
<1>1. IsFiniteSet(Known')
  BY KnownGrows DEF ContributionPart
<1>2. \A k \in Handlers : EnsureInv(k)'
  BY EnsureStays, OthersEnsure
<1> QED BY <1>1, <1>2 DEF ContributionPart

-----------------------------------------------------------------------------
(* Where the requests are, and what their rows look like.                   *)

\* Every request is at a step of its kind.
LEMMA PlacesStay ==
    ASSUME Base, NEW h \in Handlers, Run(h)
    PROVE  PlaceInv(h)'
<1> USE DEF Base, Functions, Goto, Final
<1>0. op' = op /\ pc'[h] # "idle" /\ op[h] \in Op /\ PlaceInv(h) /\ pc \in [Handlers -> Place]
  BY RunSteps, Course DEF Steps
<1>1. CASE \/ ReadEventCache(h) \/ LoadEvent(h) \/ FillEventCache(h)
           \/ WriteEvent(h) \/ ForgetEvent(h) \/ ReadStatsCache(h) \/ KeepStats(h)
  BY <1>0, <1>1 DEF ReadEventCache, LoadEvent, FillEventCache, WriteEvent, ForgetEvent, ReadStatsCache, KeepStats,
                    PlaceInv
<1>2. CASE CheckAccess(h)
  BY <1>0, <1>2 DEF CheckAccess, Admitted, PlaceInv, Op
<1>3. CASE CountOne(h)
  <2>1. PICK to \in {"count", "keep", "done"} :
           /\ pc[h] = "count" /\ pc' = [pc EXCEPT ![h] = to] /\ (to = "keep" => op[h] = "stats")
    BY <1>3 DEF CountOne
  <2> QED BY <1>0, <2>1 DEF PlaceInv
<1>4. CASE FindGuest(h) \/ InsertGuest(h) \/ StoreCode(h) \/ InsertMany(h) \/ ReadPage(h) \/ WriteGuest(h)
  BY <1>0, <1>4 DEF FindGuest, InsertGuest, StoreCode, InsertMany, ReadPage, WriteGuest, PlaceInv
<1>5. CASE LookUp(h) \/ InsertContribution(h)
  <2>1. pc'[h] \in {"done", "failed", pc[h]} /\ op[h] \in {"add", "import"}
    BY <1>5 DEF LookUp, InsertContribution, AfterEnsure
  <2> QED BY <1>0, <2>1 DEF PlaceInv
<1>6. CASE \/ UnknownTemplate(h) \/ InsertInvitation(h) \/ FindInvitation(h)
           \/ ReadPreviewedEvent(h) \/ WriteInvitation(h)
           \/ FindByCode(h) \/ InsertResponse(h) \/ SaveAnswer(h)
  BY <1>0, <1>6 DEF UnknownTemplate, InsertInvitation, FindInvitation, ReadPreviewedEvent,
              WriteInvitation, FindByCode, InsertResponse, SaveAnswer, PlaceInv
<1> QED BY <1>1, <1>2, <1>3, <1>4, <1>5, <1>6 DEF Run

\* An invitation appears when the request that creates it inserts it.
LEMMA NewInvitations ==
    ASSUME Base, NEW h \in Handlers, Arrive(h) \/ Run(h), NEW i \in Invitation,
           invitations[i] = None, invitations'[i] # None
    PROVE  i = h /\ Run(h) /\ InsertInvitation(h)
<1>0. invitations \in [Invitation -> InvitationRow \cup {None}]
  BY DEF Base, TypeOK
<1>1. Run(h)
  BY ArriveStart, ArrivalFrame DEF tables
<1>2. ~WriteInvitation(h)
  <2>1. WriteInvitation(h) =>
           /\ invitations[arg[h].invitation] # None
           /\ invitations' = [invitations EXCEPT ![arg[h].invitation] =
                 CASE op[h] = "revise" -> Revised(h, @)
                   [] op[h] = "publish" -> [@ EXCEPT !.published = TRUE]
                   [] OTHER -> [@ EXCEPT !.deleted = TRUE]]
    BY DEF WriteInvitation, Base, ArgInv
  <2> QED BY <1>0, <2>1
<1>3. InsertInvitation(h)
  BY <1>1, <1>2, Writers
<1>4. i = h
  BY <1>0, <1>3 DEF InsertInvitation
<1> QED BY <1>1, <1>3, <1>4

\* The arguments of a request keep what its program counter says of them.
LEMMA ArgsStay ==
    ASSUME Base, NEW h \in Handlers, Arrive(h) \/ Run(h), NEW k \in Handlers
    PROVE  ArgInv(k)'
<1>0. Others(h) /\ ArgInv(k)
  BY OthersStay DEF Base
<1>1. pre'[k] \subseteq Ended'
  <2>1. CASE pre'[k] = pre[k]
    BY <1>0, <2>1 DEF Others
  <2>2. CASE pre'[k] # pre[k]
    <3>1. Arrive(h) /\ k = h
      BY <1>0, <2>2, RunSteps DEF Others, Steps
    <3> QED BY <3>1, ArriveStart, ArrivalFrame
  <2> QED BY <2>1, <2>2
<1>2. /\ op'[k] = "update" => arg'[k] \subseteq Column
      /\ op'[k] \in {"edit", "drop", "rsvp"} => arg'[k].guest \in Guest /\ guests[arg'[k].guest] # None
      /\ op'[k] = "import" => arg'[k] \in 1..Rows
      /\ op'[k] \in {"revise", "publish", "discard", "preview"} =>
             arg'[k].invitation \in Invitation /\ invitations[arg'[k].invitation] # None
      /\ op'[k] = "revise" => arg'[k].parts \subseteq Part
      /\ op'[k] = "report" => arg'[k] \in SUBSET {"page", "TOTAL", "breakdown"}
  <2>1. CASE Arrive(h) /\ k = h
    <3>1. PICK kind, x, first : Arrival(h, kind, x, first)
      BY <2>1, ArriveStart
    <3>2. op'[k] = kind /\ arg'[k] = x
      BY <2>1, <3>1, ArrivalFrame
    <3> QED BY <3>1, <3>2 DEF Arrival
  <2>2. CASE op'[k] = op[k] /\ arg'[k] = arg[k]
    BY <1>0, <2>2 DEF ArgInv
  <2> QED BY <1>0, <2>1, <2>2, RunSteps DEF Others, Steps
<1>3. /\ op'[k] \in {"edit", "drop", "rsvp"} => guests'[arg'[k].guest] # None
      /\ op'[k] \in {"revise", "publish", "discard", "preview"} => invitations'[arg'[k].invitation] # None
  BY <1>2, RemovalsStand
<1> DEFINE Made == {"code", "page", "ensure"} \cup Final
<1>4. ASSUME pc'[k] \notin Made PROVE pc[k] \notin Made
  <2>1. CASE k # h
    BY <1>0, <1>4, <2>1 DEF Others
  <2>2. CASE k = h /\ Arrive(h)
    BY <2>2, ArriveStart, ArrivalFrame DEF Final
  <2>3. CASE k = h /\ Run(h)
    <3>1. pc[h] \notin Final
      BY <1>0, <1>4, <2>3 DEF Others, Final
    <3>2. ASSUME pc[h] \in {"code", "page", "ensure"} PROVE FALSE
      <4>1. op[h] \in {"add", "import"} /\ pc \in [Handlers -> Place]
        BY <3>2 DEF Base, PlaceInv, Functions
      <4>2. ~CheckAccess(h) /\ ~InsertGuest(h) /\ ~InsertMany(h)
        BY <3>2 DEF CheckAccess, InsertGuest, InsertMany, Goto
      <4>3. StoreCode(h) \/ ReadPage(h) \/ LookUp(h) \/ InsertContribution(h)
        BY <2>3, <4>1, <4>2, Course
      <4>4. CASE StoreCode(h) \/ ReadPage(h)
        BY <1>4, <2>3, <4>1, <4>4 DEF StoreCode, ReadPage, Goto, Final
      <4>5. CASE LookUp(h) \/ InsertContribution(h)
        BY <1>4, <2>3, <3>2, <4>1, <4>5 DEF LookUp, InsertContribution, AfterEnsure, Final
      <4> QED BY <4>3, <4>4, <4>5
    <3> QED BY <2>3, <3>1, <3>2
  <2> QED BY <2>1, <2>2, <2>3
<1>5. ASSUME pc'[k] \notin Made PROVE (\A n \in 1..Rows : guests'[<<k, n>>] = None) /\ invitations'[k] = None
  <2>1. (\A n \in 1..Rows : guests[<<k, n>>] = None) /\ invitations[k] = None
    BY <1>0, <1>4, <1>5 DEF ArgInv
  <2>2. ASSUME NEW n \in 1..Rows, guests'[<<k, n>>] # None PROVE FALSE
    <3>1. <<k, n>> \in Guest
      BY DEF Guest
    <3>2. (InsertGuest(h) \/ InsertMany(h)) /\ \E m \in 1..Rows : <<k, n>> = <<h, m>>
      BY <2>1, <2>2, <3>1, NewRows
    <3>3. k = h /\ pc'[h] \in {"code", "page"}
      BY <3>2 DEF InsertGuest, InsertMany, Goto, Base, Functions
    <3> QED BY <1>5, <3>3
  <2>3. ASSUME invitations'[k] # None PROVE FALSE
    <3>1. k \in Invitation
      BY DEF Invitation
    <3>2. k = h /\ InsertInvitation(h)
      BY <2>1, <2>3, <3>1, NewInvitations
    <3> QED BY <1>5, <3>2 DEF InsertInvitation, Goto, Base, Functions, Final
  <2> QED BY <2>1, <2>2, <2>3
<1>6. ASSUME pc'[k] = "code" PROVE guests'[<<k, 1>>] # None
  <2>0. <<k, 1>> \in Guest
    BY PlanningAssumption DEF Guest
  <2>1. CASE pc[k] = "code"
    BY <1>0, <2>0, <2>1, RemovalsStand DEF ArgInv
  <2>2. CASE pc[k] # "code"
    <3>1. k = h /\ Run(h)
      BY <1>0, <1>6, <2>2, ArriveStart, ArrivalFrame DEF Others
    <3>2. op[h] = "add"
      BY <1>6, <3>1, PlacesStay, RunSteps DEF PlaceInv, Steps
    <3>3. InsertGuest(h)
      BY <1>6, <2>2, <3>1, <3>2, Course DEF CheckAccess, Admitted, StoreCode, LookUp, InsertContribution, AfterEnsure,
         Goto, Base, Functions
    <3>4. guests' = [guests EXCEPT ![<<h, 1>>] = NewGuest(h, FALSE)] /\ NewGuest(h, FALSE) \in GuestRow
      BY <3>3 DEF InsertGuest, NewGuest, GuestRow
    <3> QED BY <2>0, <3>1, <3>4, NoneIsNoRow DEF Base, TypeOK
  <2> QED BY <2>1, <2>2
<1> QED BY <1>1, <1>2, <1>3, <1>5, <1>6 DEF ArgInv

\* Every variable keeps its type.
LEMMA TypesStay ==
    ASSUME Base, EventPart, StatsPart, AnswerPart, ContributionPart, NEW h \in Handlers, Arrive(h) \/ Run(h)
    PROVE  TypeOK'
<1>0. Others(h)
  BY OthersStay
<1>1. event' \in Row
  <2>1. CASE WriteEvent(h)
    <3>1. /\ event' = IF op[h] = "remove" THEN [event EXCEPT !.deleted = TRUE] ELSE Updated(h)
          /\ event \in Row
      BY <2>1 DEF WriteEvent, Base, TypeOK
    <3> QED BY <3>1 DEF Updated, Row
  <2>2. CASE event' = event
    BY <2>2 DEF Base, TypeOK
  <2>3. CASE Arrive(h)
    BY <2>2, <2>3, ArriveStart, ArrivalFrame DEF tables
  <2> QED BY <2>1, <2>2, <2>3, Writers
<1>2. eventCache' \in CachedEvent \cup {None}
  <2>1. CacheInv'
    BY CacheStays
  <2> QED BY <2>1 DEF CacheInv, CurrentValue
<1>3. statsCache' # None => statsCache'.by \in Handlers /\ DOMAIN statsCache'.counts = Counter
  <2>1. CASE Run(h) /\ KeepStats(h)
    <3>1. statsCache' = got[h] /\ pc[h] = "keep" /\ op[h] = "stats"
      BY <2>1 DEF KeepStats, Goto, Base, PlaceInv
    <3> QED BY <3>1 DEF StatsPart, StatsInv
  <2>2. CASE statsCache' = statsCache
    BY <2>2 DEF Base, TypeOK
  <2>3. CASE Arrive(h)
    BY <2>2, <2>3, ArriveStart, ArrivalFrame DEF caches
  <2> QED BY <2>1, <2>2, <2>3, Writers
<1>4. guests' \in [Guest -> GuestRow \cup {None}]
  <2>0. guests \in [Guest -> GuestRow \cup {None}]
    BY DEF Base, TypeOK
  <2>1. CASE InsertGuest(h) \/ InsertMany(h)
    <3>1. NewGuest(h, TRUE) \in GuestRow /\ NewGuest(h, FALSE) \in GuestRow
      BY DEF NewGuest, GuestRow
    <3> QED BY <2>0, <2>1, <3>1 DEF InsertGuest, InsertMany
  <2>2. CASE StoreCode(h)
    <3>1. guests' = [guests EXCEPT ![<<h, 1>>].code = TRUE] /\ guests[<<h, 1>>] # None
      BY <2>2 DEF StoreCode, Goto, Base, ArgInv
    <3>2. <<h, 1>> \in Guest
      BY PlanningAssumption DEF Guest
    <3>3. guests[<<h, 1>>] \in GuestRow
      BY <2>0, <3>1, <3>2
    <3>4. [guests[<<h, 1>>] EXCEPT !.code = TRUE] \in GuestRow
      BY <3>3 DEF GuestRow
    <3> QED BY <2>0, <3>1, <3>4
  <2>3. CASE WriteGuest(h) \/ SaveAnswer(h)
    <3>1. PICK g \in Guest : g = arg[h].guest /\ guests[g] \in GuestRow
      BY <2>0, <2>3 DEF WriteGuest, SaveAnswer, Goto, Base, ArgInv, PlaceInv
    <3>2. \/ guests' = [guests EXCEPT ![g] = [@ EXCEPT !.deleted = TRUE]]
          \/ guests' = [guests EXCEPT ![g] = [@ EXCEPT !.by = h]]
          \/ guests' = [guests EXCEPT ![g] = [@ EXCEPT !.rsvp = h]]
      BY <2>3, <3>1 DEF WriteGuest, SaveAnswer, Answered
    <3>3. /\ [guests[g] EXCEPT !.deleted = TRUE] \in GuestRow
          /\ [guests[g] EXCEPT !.by = h] \in GuestRow
          /\ [guests[g] EXCEPT !.rsvp = h] \in GuestRow
      BY <3>1 DEF GuestRow
    <3> QED BY <2>0, <3>2, <3>3
  <2>4. CASE guests' = guests
    BY <2>0, <2>4
  <2>5. CASE Arrive(h)
    BY <2>4, <2>5, ArriveStart, ArrivalFrame DEF tables
  <2> QED BY <2>1, <2>2, <2>3, <2>4, <2>5, Writers
<1>5. AnswerPart'
  BY AnswerPartStays
<1>6. ASSUME NEW g \in Guest, guests'[g] # None, guests'[g].rsvp # None
      PROVE  arg'[guests'[g].rsvp].guest = g
  BY <1>5, <1>6 DEF AnswerPart, ResponseInv
<1>7. \A g \in contributions' : guests'[g] # None
  BY ContributionsGrow DEF Known
<1>8. responses' \in Seq(Response)
  <2>0. responses \in Seq(Response)
    BY DEF Base, TypeOK
  <2>1. CASE InsertResponse(h)
    <3>1. [guest |-> arg[h].guest, by |-> h] \in Response
      BY <2>1 DEF InsertResponse, Goto, Base, PlaceInv, ArgInv, Response
    <3> QED BY <2>0, <2>1, <3>1 DEF InsertResponse
  <2>2. CASE responses' = responses
    BY <2>0, <2>2
  <2>3. CASE Arrive(h)
    BY <2>2, <2>3, ArriveStart, ArrivalFrame DEF tables
  <2> QED BY <2>1, <2>2, <2>3, Writers
<1>9. invitations' \in [Invitation -> InvitationRow \cup {None}]
  <2>0. invitations \in [Invitation -> InvitationRow \cup {None}]
    BY DEF Base, TypeOK
  <2>1. CASE InsertInvitation(h)
    <3>1. Draft(h) \in InvitationRow
      BY DEF Draft, InvitationRow
    <3> QED BY <2>0, <2>1, <3>1 DEF InsertInvitation
  <2>2. CASE WriteInvitation(h)
    <3>1. PICK i \in Invitation : i = arg[h].invitation /\ invitations[i] \in InvitationRow
      BY <2>0, <2>2 DEF WriteInvitation, Base, ArgInv
    <3>2. \/ invitations' = [invitations EXCEPT ![i] = Revised(h, @)]
          \/ invitations' = [invitations EXCEPT ![i] = [@ EXCEPT !.published = TRUE]]
          \/ invitations' = [invitations EXCEPT ![i] = [@ EXCEPT !.deleted = TRUE]]
      BY <2>2, <3>1 DEF WriteInvitation
    <3>3. /\ Revised(h, invitations[i]) \in InvitationRow
          /\ [invitations[i] EXCEPT !.published = TRUE] \in InvitationRow
          /\ [invitations[i] EXCEPT !.deleted = TRUE] \in InvitationRow
      BY <3>1 DEF Revised, InvitationRow
    <3> QED BY <2>0, <3>2, <3>3
  <2>3. CASE invitations' = invitations
    BY <2>0, <2>3
  <2>4. CASE Arrive(h)
    BY <2>3, <2>4, ArriveStart, ArrivalFrame DEF tables
  <2> QED BY <2>1, <2>2, <2>3, <2>4, Writers
<1>10. op' \in [Handlers -> Op \cup {None}] /\ pre' \in [Handlers -> SUBSET Handlers]
  <2>0. op \in [Handlers -> Op \cup {None}] /\ pre \in [Handlers -> SUBSET Handlers]
    BY DEF Base, TypeOK
  <2>1. CASE Run(h)
    BY <2>0, <2>1, RunSteps DEF Steps
  <2>2. CASE Arrive(h)
    <3>1. PICK kind, x, first : Arrival(h, kind, x, first)
      BY <2>2, ArriveStart
    <3>2. op' = [op EXCEPT ![h] = kind] /\ pre' = [pre EXCEPT ![h] = Ended] /\ kind \in Op
      BY ZenonT(40), <3>1, ArrivalFrame DEF Arrival
    <3>3. Ended \in SUBSET Handlers
      BY DEF Ended
    <3> QED BY <2>0, <3>2, <3>3
  <2> QED BY <2>1, <2>2
<1> QED BY <1>1, <1>2, <1>3, <1>4, <1>6, <1>7, <1>8, <1>9, <1>10 DEF TypeOK

\* The base of the invariant is preserved.
LEMMA BaseStays ==
    ASSUME Base, EventPart, StatsPart, AnswerPart, ContributionPart, NEW h \in Handlers, Arrive(h) \/ Run(h)
    PROVE  Base'
<1>0. Others(h)
  BY OthersStay
<1>1. \A k \in Handlers : ArgInv(k)'
  BY ArgsStay
<1>2. contributions' \subseteq Guest
  BY ContributionsGrow DEF Known
<1>3. CASE Arrive(h)
  <2>1. PICK kind, x, first : Arrival(h, kind, x, first)
    BY <1>3, ArriveStart
  <2>2. /\ pc' = [pc EXCEPT ![h] = first] /\ got' = got /\ arg' = [arg EXCEPT ![h] = x]
        /\ first \in {"cache", "cached", "access", "guest", "find", "invitation"}
        /\ op'[h] = kind
    BY <2>1, ArrivalFrame
  <2>3. Functions'
    BY <1>2, <2>2 DEF Base, Functions, Place
  <2>4. PlaceInv(h)'
    BY <2>1, <2>2 DEF PlaceInv, Arrival, Base, Functions, Op
  <2>5. \A k \in Handlers \ {h} : PlaceInv(k)'
    BY <1>0 DEF Others, PlaceInv, Base
  <2> QED BY <1>1, <2>3, <2>4, <2>5, TypesStay DEF Base
<1>4. CASE Run(h)
  <2>1. Steps(h)
    BY <1>4, RunSteps
  <2>2. Functions'
    BY <1>2, <2>1 DEF Steps, Base, Functions
  <2>3. PlaceInv(h)'
    BY <1>4, PlacesStay
  <2>4. \A k \in Handlers \ {h} : PlaceInv(k)'
    BY <1>0 DEF Others, PlaceInv, Base
  <2> QED BY <1>1, <2>2, <2>3, <2>4, TypesStay DEF Base
<1> QED BY <1>3, <1>4

-----------------------------------------------------------------------------
(* The inductive invariant, and what follows from it.                       *)

\* The invariant holds when no request has come.
LEMMA InitIInv ==
    ASSUME Init
    PROVE  IInv
<1>1. event \in Row
  BY DEF Init, Row
<1>2. guests \in [Guest -> GuestRow \cup {None}]
  BY DEF Init, NewGuest, GuestRow
<1>3. invitations \in [Invitation -> InvitationRow \cup {None}]
  BY DEF Init, Draft, InvitationRow
<1>4. \A g \in Guest : guests[g] # None => g \in Invited /\ guests[g] = NewGuest(None, TRUE)
  BY DEF Init
<1>5. \A g \in Guest : guests[g] # None => guests[g].rsvp = None
  <2>1. NewGuest(None, TRUE).rsvp = None
    BY DEF NewGuest
  <2> QED BY <1>4, <2>1
<1>6. \A g \in Invited : g \in Guest /\ guests[g] # None
  <2>1. NewGuest(None, TRUE) \in GuestRow
    BY DEF NewGuest, GuestRow
  <2> QED BY <2>1, NoneIsNoRow DEF Init, Guest
<1>20. responses \in Seq(Response) /\ DOMAIN responses = {}
  BY DEF Init
<1>21. \A g \in contributions : guests[g] # None
  BY <1>6 DEF Init
<1>22. op \in [Handlers -> Op \cup {None}] /\ pre \in [Handlers -> SUBSET Handlers]
  BY DEF Init
<1>23. eventCache = None /\ statsCache = None
  BY DEF Init
<1>7. TypeOK
  BY <1>1, <1>2, <1>3, <1>5, <1>20, <1>21, <1>22, <1>23 DEF TypeOK
<1>8. Functions
  BY <1>6 DEF Init, Functions, Place
<1>9. ASSUME NEW h \in Handlers PROVE PlaceInv(h) /\ ArgInv(h)
  <2>1. \A n \in 1..Rows : <<h, n>> \in Guest /\ <<h, n>> \notin Invited
    BY PlanningAssumption DEF Guest
  <2>2. h \in Invitation /\ h \notin Drafts
    BY PlanningAssumption DEF Invitation
  <2>3. (\A n \in 1..Rows : guests[<<h, n>>] = None) /\ invitations[h] = None
    BY <2>1, <2>2 DEF Init
  <2>4. pc[h] = "idle" /\ op[h] = None /\ got[h] = None /\ pre[h] = {} /\ None \notin Op
    BY PlanningAssumption DEF Init
  <2>5. PlaceInv(h)
    BY <2>4 DEF PlaceInv
  <2>6. ArgInv(h)
    BY <2>3, <2>4 DEF ArgInv, Op
  <2> QED BY <2>5, <2>6
<1>10. \A h \in Handlers : pc[h] = "idle" /\ op[h] = None
  BY DEF Init
<1>11. None \notin Op
  BY PlanningAssumption
<1>12. EventPart
  BY <1>10 DEF Init, EventPart, CacheInv, EventInv, ReadInv
<1>13. StatsPart
  BY <1>10 DEF Init, StatsPart, StatsInv
<1>14. RemovalPart
  BY <1>10 DEF RemovalPart, RemovedInv, Barred
<1>15. InvitationPart
  BY <1>10 DEF InvitationPart, WroteInvitation, PreviewInv
<1>16. AnswerPart
  BY <1>5, <1>10, <1>20 DEF AnswerPart
<1>17. Known \subseteq Invited
  BY <1>4 DEF Known
<1>18. IsFiniteSet(Known)
  BY <1>17, PlanningAssumption, FS_Subset
<1>19. ContributionPart
  BY <1>10, <1>11, <1>18 DEF ContributionPart, EnsureInv, Op
<1> QED BY <1>7, <1>8, <1>9, <1>12, <1>13, <1>14, <1>15, <1>16, <1>19 DEF IInv, Base

\* Nothing depends on what the caches hold no more.
LEMMA ExpiryIInv ==
    ASSUME IInv, EventExpires \/ StatsExpire \/ UNCHANGED vars
    PROVE  IInv'
<1>1. UNCHANGED <<event, guests, contributions, responses, invitations, pc, op, arg, got, pre>>
  BY DEF EventExpires, StatsExpire, vars, tables, caches, locals
<1>2. eventCache' \in {eventCache, None} /\ statsCache' \in {statsCache, None}
  BY DEF EventExpires, StatsExpire, vars, caches
<1>3. TypeOK'
  BY <1>1, <1>2 DEF IInv, Base, TypeOK
<1>4. Functions' /\ \A h \in Handlers : PlaceInv(h)' /\ ArgInv(h)'
  BY <1>1 DEF IInv, Base, Functions, PlaceInv, ArgInv, Ended
<1>5. CacheInv'
  BY <1>1, <1>2 DEF IInv, EventPart, CacheInv, CurrentValue, NotOlder, WroteEvent
<1>6. \A h \in Handlers : EventInv(h)' /\ ReadInv(h)'
  BY <1>1 DEF IInv, EventPart, EventInv, ReadInv, CurrentValue, NotOlder, WroteEvent
<1>7. Listed' = Listed /\ (\A g \in Listed : Status(g)' = Status(g)) /\ GuestWriters' = GuestWriters
  BY <1>1 DEF Listed, Status, GuestWriters
<1>8. ASSUME NEW c PROVE Answerers(c)' = Answerers(c)
  <2>1. {g \in Listed : Status(g) = c}' = {g \in Listed : Status(g) = c}
    BY <1>7
  <2> QED BY <2>1 DEF Answerers
<1>9. statsCache' # None => CountsInv(statsCache)'
  BY <1>1, <1>2, <1>7, <1>8 DEF IInv, StatsPart, CountsInv, Exact
<1>10. ASSUME NEW h \in Handlers PROVE StatsInv(h)'
  <2>1. StatsInv(h)
    BY DEF IInv, StatsPart
  <2>2. CountsInv(got[h]) => CountsInv(got[h])'
    BY <1>1, <1>7, <1>8 DEF CountsInv, Exact
  <2> QED BY <1>1, <2>1, <2>2 DEF StatsInv
<1>11. RemovalPart'
  BY <1>1 DEF IInv, RemovalPart, RemovedInv, Barred, SameGuest, SameInvitation
<1>12. InvitationPart'
  BY <1>1 DEF IInv, InvitationPart, WroteInvitation, Keeps, PreviewInv
<1>13. AnswerPart'
  BY <1>1 DEF IInv, AnswerPart, ResponseInv, Latest
<1>14. ContributionPart'
  <2>1. Known' = Known /\ \A h \in Handlers : Wanted(h)' = Wanted(h) /\ Imported(h)' = Imported(h)
    BY <1>1 DEF Known, Wanted, Imported
  <2>2. ASSUME NEW h \in Handlers PROVE EnsureInv(h)'
    <3>1. EnsureInv(h)
      BY DEF IInv, ContributionPart
    <3>2. /\ Outweighed(h, Wanted(h)) => Outweighed(h, Wanted(h))'
          /\ Outweighed(h, contributions) => Outweighed(h, contributions)'
      BY <1>1, <2>1 DEF Outweighed
    <3> QED
      BY <1>1, <2>1, <3>1, <3>2 DEF EnsureInv
  <2> QED BY <2>1, <2>2 DEF IInv, ContributionPart
<1> QED BY <1>3, <1>4, <1>5, <1>6, <1>9, <1>10, <1>11, <1>12, <1>13, <1>14 DEF IInv, Base, EventPart, StatsPart

\* Every step preserves the invariant.
LEMMA NextIInv ==
    ASSUME IInv, [Next]_vars
    PROVE  IInv'
<1>1. CASE EventExpires \/ StatsExpire \/ UNCHANGED vars
  BY <1>1, ExpiryIInv
<1>2. CASE \E h \in Handlers : Arrive(h) \/ Run(h)
  <2>1. PICK h \in Handlers : Arrive(h) \/ Run(h)
    BY <1>2
  <2>2. Base'
    BY <2>1, BaseStays DEF IInv
  <2>3. EventPart' /\ StatsPart' /\ RemovalPart'
    BY <2>1, EventPartStays, StatsPartStays, RemovalPartStays DEF IInv
  <2>4. InvitationPart' /\ AnswerPart' /\ ContributionPart'
    BY <2>1, InvitationPartStays, AnswerPartStays, ContributionPartStays DEF IInv
  <2> QED BY <2>2, <2>3, <2>4 DEF IInv
<1> QED BY <1>1, <1>2 DEF Next

\* The inductive invariant holds of every behaviour.
THEOREM Invariance == Spec => []IInv
<1>1. Init => IInv
  BY InitIInv
<1>2. IInv /\ [Next]_vars => IInv'
  BY NextIInv
<1> QED BY <1>1, <1>2, PTL DEF Spec

\* The types hold: the answer a row shows is one of that guest, and only a guest
\* that exists has a contribution.
THEOREM TypeCorrect == Spec => []TypeOK
<1>1. IInv => TypeOK
  BY DEF IInv, Base
<1> QED BY <1>1, Invariance, PTL

\* A read of the event after an update or the deletion was answered shows it, or
\* was served from a value that an overlapping read had put into the cache.
THEOREM CacheIsCurrent == Spec => []ReadsAreCurrent
<1>1. ASSUME IInv PROVE ReadsAreCurrent
  <2> SUFFICES ASSUME NEW r \in Handlers, NEW w \in Handlers, op[r] = "get", pc[r] = "done",
                      op[w] \in {"update", "remove"}, pc[w] = "done", w \in pre[r], ~Overlap(got[r].by, w)
               PROVE  op[w] = "update" /\ \A c \in arg[w] : got[r].row[c] \in Handlers \ pre[w]
    BY DEF ReadsAreCurrent
  <2>1. CurrentValue(got[r]) /\ NotOlder(got[r], w)
    BY <1>1 DEF IInv, EventPart, ReadInv
  <2>2. w \in pre[got[r].by]
    BY <2>1 DEF NotOlder, WroteEvent, Overlap
  <2> QED BY <2>1, <2>2 DEF CurrentValue, WroteEvent
<1> QED BY <1>1, Invariance, PTL

\* Analytics and reports that were counted when nobody was changing the guest list
\* are exact.
THEOREM CountsAreExact == Spec => []StatsAreExact
<1>1. ASSUME IInv PROVE StatsAreExact
  <2> SUFFICES ASSUME NEW r \in Handlers, op[r] \in {"stats", "report"}, pc[r] = "done",
                      GuestWriters \subseteq pre[got[r].by], NEW q \in DOMAIN got[r].counts
               PROVE  Exact(q, got[r].counts[q])
    BY DEF StatsAreExact, Exact, Answerers, Listed
  <2>1. CountsInv(got[r])
    BY <1>1 DEF IInv, StatsPart, StatsInv
  <2> QED BY <2>1 DEF CountsInv
<1> QED BY <1>1, Invariance, PTL

\* The answer in a guest's row is the last of the history, unless the last two
\* requests to answer overlapped or the last has not saved its answer.
THEOREM TheLastAnswerStands == Spec => []LastAnswerStands
<1>1. ASSUME IInv PROVE LastAnswerStands
  <2> SUFFICES ASSUME NEW i \in DOMAIN responses,
                      \A j \in DOMAIN responses : responses[j].guest = responses[i].guest => j <= i,
                      NEW h, h = responses[i].by, NEW k, k = guests[responses[i].guest].rsvp
               PROVE  h = k \/ (k # None /\ Overlap(h, k)) \/ pc[h] = "save"
    BY Zenon DEF LastAnswerStands
  <2>0. ResponseInv(i) /\ responses[i] \in Response
    BY <1>1 DEF IInv, AnswerPart, Base, TypeOK
  <2>1. /\ ResponseInv(i) /\ h \in Handlers /\ responses[i].guest \in Guest
        /\ guests[responses[i].guest] # None
    BY <1>1, <2>0 DEF IInv, ResponseInv, Base, Response, ArgInv
  <2>2. CASE pc[h] = "done" /\ h # k
    <3>1. k # None /\ k \notin pre[h]
      BY <1>1, <2>2 DEF IInv, AnswerPart, Latest
    <3>2. PICK j \in DOMAIN responses : responses[j].by = k /\ responses[j].guest = responses[i].guest
      BY <1>1, <2>1, <3>1 DEF IInv, AnswerPart
    <3>3. i \in Nat /\ j \in Nat /\ j <= i /\ j # i
      BY <1>1, <2>2, <3>2 DEF IInv, Base, TypeOK
    <3>4. h \notin pre[k]
      BY <1>1, <3>2, <3>3 DEF IInv, AnswerPart
    <3> QED BY <3>1, <3>4 DEF Overlap
  <2> QED BY <2>1, <2>2 DEF ResponseInv
<1> QED BY <1>1, Invariance, PTL

\* A guest who was added has a contribution, and the guests an import left out are
\* outweighed by others that have one.
THEOREM GuestsAreEnsured == Spec => []ImportsAreEnsured
<1>1. ASSUME IInv PROVE ImportsAreEnsured
  BY <1>1 DEF IInv, ContributionPart, EnsureInv, Outweighed, ImportsAreEnsured
<1> QED BY <1>1, Invariance, PTL

\* What was written to an invitation, and its publication, is kept and shown.
THEOREM InvitationsKeep == Spec => []InvitationsKeepWhatWasWritten
<1>1. ASSUME IInv PROVE InvitationsKeepWhatWasWritten
  <2> SUFFICES ASSUME NEW w \in Handlers, op[w] \in {"revise", "publish"}, pc[w] = "done",
                      NEW row \in {invitations[arg[w].invitation]} \cup
                                  {got[r].row : r \in {k \in Handlers : op[k] = "preview" /\ pc[k] = "done"
                                           /\ arg[k].invitation = arg[w].invitation /\ w \in pre[k]}}
               PROVE  Keeps(w, row)
    BY DEF InvitationsKeepWhatWasWritten, Keeps
  <2>1. CASE row = invitations[arg[w].invitation]
    BY <1>1, <2>1 DEF IInv, InvitationPart, WroteInvitation
  <2>2. CASE row # invitations[arg[w].invitation]
    <3>1. PICK r \in Handlers : /\ op[r] = "preview" /\ pc[r] = "done"
                                /\ arg[r].invitation = arg[w].invitation /\ w \in pre[r] /\ row = got[r].row
      BY <2>2
    <3> QED BY <1>1, <3>1 DEF IInv, InvitationPart, PreviewInv, WroteInvitation
  <2> QED BY <2>1, <2>2
<1> QED BY <1>1, Invariance, PTL

\* Who comes after a deletion was answered neither writes nor caches anything.
THEOREM RemovalsHold == Spec => []NothingAfterRemoval
<1>1. ASSUME IInv PROVE NothingAfterRemoval
  BY <1>1 DEF IInv, RemovalPart, Barred, SameGuest, SameInvitation, NothingAfterRemoval
<1> QED BY <1>1, Invariance, PTL
=============================================================================
