---------------------------- MODULE EventPlanning ----------------------------
(***************************************************************************)
(* One event as its organizer and its guests see it: EventService with its *)
(* cache, AnalyticsService with its own, the guest list and the import of  *)
(* GuestService with the contributions that ContributionService ensures,   *)
(* the invitations of InvitationService and the answers of RsvpService.    *)
(*                                                                         *)
(* Every request is a handler that takes one step per awaited call which   *)
(* reads or writes shared state; one that dies takes no step more.  What a *)
(* handler writes is named by the handler: a column of the event or of an  *)
(* invitation, a guest, an answer.                                         *)
(***************************************************************************)
EXTENDS Integers, Sequences, FiniteSets

CONSTANTS
    Handlers,     \* the requests of a behaviour
    Invited,      \* the guests at the start
    Drafts,       \* the invitations at the start
    None,
    Traffic,      \* sets of kinds of request; those of a behaviour are of one set
    Answers,      \* answers that guests give
    Rows,         \* bound: rows of an imported file
    MaxImports,   \* bound: imports of a behaviour
    MaxInFlight   \* bound: handlers running at the same time

Op == {"get", "update", "remove", "stats", "report", "add", "edit", "drop", "import", "rsvp",
       "invite", "revise", "publish", "discard", "preview"}

Answer == {"ACCEPTED", "DECLINED", "MAYBE"}

ASSUME PlanningAssumption ==
    /\ Traffic \subseteq SUBSET Op /\ Answers \subseteq Answer
    /\ None \notin Handlers \cup Invited \cup Drafts \cup Answer \cup Op
    /\ Handlers \cap Drafts = {} /\ Invited \cap (Handlers \X (1..Rows)) = {} /\ IsFiniteSet(Invited)
    /\ MaxInFlight \in Nat \ {0} /\ MaxImports \in Nat /\ Rows \in Nat \ {0}

Guest == Invited \cup (Handlers \X (1..Rows))
Invitation == Drafts \cup Handlers

Column == {"details", "settings"}
Part == {"title", "content"}

VARIABLES
    event,          \* who wrote each column of the event last, and whether it is deleted
    eventCache,     \* the key event:<id>:user:<organizer>, or None
    statsCache,     \* the key analytics:event:<id>, or None
    guests,         \* the guests rows, or None
    contributions,  \* the guests that have a guest_contributions row
    responses,      \* rsvp_responses, oldest first
    invitations,    \* the invitations rows, or None
    pc,             \* next step of each handler
    op,             \* its operation
    arg,            \* the columns, the guest, the rows or the answer it came with
    got,            \* what it loaded or counted, and the guests it ensures
    pre,            \* the handlers that had finished when it started
    kinds           \* the kinds of request of this behaviour

tables == <<event, guests, contributions, responses, invitations>>
caches == <<eventCache, statsCache>>
locals == <<op, arg, pre, kinds>>
vars == <<tables, caches, pc, locals, got>>

Final == {"done", "failed"}

Row == [details : Handlers \cup {None}, settings : Handlers \cup {None}, deleted : BOOLEAN]
GuestRow == [code : BOOLEAN, by : Handlers \cup {None}, rsvp : Handlers \cup {None}, deleted : BOOLEAN]
Response == [guest : Guest, by : Handlers]
InvitationRow == [title : Handlers \cup {None}, content : Handlers \cup {None},
                  published : BOOLEAN, deleted : BOOLEAN]

ASSUME NoneIsNoRow == None \notin Row \cup GuestRow \cup InvitationRow

NewGuest(h, code) == [code |-> code, by |-> h, rsvp |-> None, deleted |-> FALSE]
Draft(h) == [title |-> h, content |-> h, published |-> FALSE, deleted |-> FALSE]

Init ==
    /\ event = [details |-> None, settings |-> None, deleted |-> FALSE]
    /\ eventCache = None /\ statsCache = None
    /\ guests = [g \in Guest |-> IF g \in Invited THEN NewGuest(None, TRUE) ELSE None]
    /\ contributions = Invited
    /\ responses = <<>>
    /\ invitations = [i \in Invitation |-> IF i \in Drafts THEN Draft(None) ELSE None]
    /\ pc = [h \in Handlers |-> "idle"]
    /\ op = [h \in Handlers |-> None]
    /\ arg = [h \in Handlers |-> None]
    /\ got = [h \in Handlers |-> None]
    /\ pre = [h \in Handlers |-> {}]
    /\ kinds \in Traffic

Goto(h, from, to) == pc[h] = from /\ pc' = [pc EXCEPT ![h] = to]

\* Requests are interchangeable: a new one takes a name no request has had.
Fresh == CHOOSE h \in Handlers : pc[h] = "idle"

Ended == {h \in Handlers : pc[h] \in Final}

Start(h, kind, x, first) ==
    /\ kind \in kinds
    /\ Goto(h, "idle", first)
    /\ h = Fresh
    /\ Cardinality({k \in Handlers : pc[k] \notin {"idle"} \cup Final}) < MaxInFlight
    /\ op' = [op EXCEPT ![h] = kind]
    /\ arg' = [arg EXCEPT ![h] = x]
    /\ pre' = [pre EXCEPT ![h] = Ended]
    /\ UNCHANGED <<tables, caches, got, kinds>>

-----------------------------------------------------------------------------
(* The event and its cache.                                                 *)

GetEvent(h) == Start(h, "get", None, "cache")

\* A column that is not in the request stays as it is.
UpdateEvent(h) == \E cs \in SUBSET Column \ {{}} : Start(h, "update", cs, "access")

UploadCover(h) == Start(h, "update", {"details"}, "access")

UpdateSettings(h) == Start(h, "update", {"settings"}, "access")

DeleteEvent(h) == Start(h, "remove", None, "access")

ReadEventCache(h) ==
    /\ Goto(h, "cache", IF eventCache = None THEN "load" ELSE "done")
    /\ got' = [got EXCEPT ![h] = eventCache]
    /\ UNCHANGED <<tables, caches, locals>>

LoadEvent(h) ==
    /\ Goto(h, "load", IF event.deleted THEN "failed" ELSE "fill")
    /\ got' = [got EXCEPT ![h] = IF event.deleted THEN None ELSE [row |-> event, by |-> h]]
    /\ UNCHANGED <<tables, caches, locals>>

FillEventCache(h) ==
    /\ Goto(h, "fill", "done")
    /\ eventCache' = got[h]
    /\ UNCHANGED <<tables, statsCache, locals, got>>

\* Analytics that are kept before they are counted.
MutAdmitted(h) ==
    CASE op[h] = "stats" -> "keep"
      [] op[h] = "report" -> "count"
      [] op[h] \in {"add", "import", "invite"} -> "insert"
      [] op[h] = "preview" -> "reread"
      [] OTHER -> "write"

\* What follows the check that the event exists and is the organizer's.
Admitted(h) ==
    CASE op[h] \in {"stats", "report"} -> "count"
      [] op[h] \in {"add", "import", "invite"} -> "insert"
      [] op[h] = "preview" -> "reread"
      [] OTHER -> "write"

CheckAccess(h) ==
    /\ Goto(h, "access", IF event.deleted THEN "failed" ELSE Admitted(h))
    /\ got' = IF op[h] \in {"stats", "report"}
              THEN [got EXCEPT ![h] = [by |-> h, counts |-> <<>>]] ELSE got
    /\ UNCHANGED <<tables, caches, locals>>

Updated(h) ==
    [event EXCEPT !.details = IF "details" \in arg[h] THEN h ELSE @,
                  !.settings = IF "settings" \in arg[h] THEN h ELSE @]

WriteEvent(h) ==
    /\ Goto(h, "write", "forget")
    /\ op[h] \in {"update", "remove"}
    /\ event' = IF op[h] = "remove" THEN [event EXCEPT !.deleted = TRUE] ELSE Updated(h)
    /\ UNCHANGED <<guests, contributions, responses, invitations, caches, locals, got>>

\* A deletion that leaves the key.
MutForgets(h) == op[h] = "update"

\* Every write of the event deletes the key.
Forgets(h) == TRUE

ForgetEvent(h) ==
    /\ Goto(h, "forget", "done")
    /\ eventCache' = IF Forgets(h) THEN None ELSE eventCache
    /\ UNCHANGED <<tables, statsCache, locals, got>>

-----------------------------------------------------------------------------
(* Analytics, which are cached, and the reports, which are not.             *)

GetStats(h) == Start(h, "stats", None, "cached")

\* A page of the guests comes with their number.
ListGuests(h) == Start(h, "report", {"page", "TOTAL"}, "access")

ExportGuests(h) == Start(h, "report", {"page"}, "access")

RsvpAnalytics(h) == Start(h, "report", {"breakdown"}, "access")

ReadStatsCache(h) ==
    /\ Goto(h, "cached", IF statsCache = None THEN "access" ELSE "done")
    /\ got' = [got EXCEPT ![h] = statsCache]
    /\ UNCHANGED <<tables, caches, locals>>

Status(g) == IF guests[g].rsvp = None THEN "PENDING" ELSE arg[guests[g].rsvp].answer

Counter == {"TOTAL", "PENDING"} \cup Answers

Queries(h) == IF op[h] = "stats" THEN Counter ELSE arg[h]

\* Everybody who was ever on the list.
MutListed == {g \in Guest : guests[g] # None}

\* where: { eventId, deletedAt: null }
Listed == {g \in Guest : guests[g] # None /\ ~guests[g].deleted}

Count(c) == Cardinality({g \in Listed : c \in {"TOTAL", Status(g)}})

\* groupBy rsvpStatus counts every status at once.
Breakdown == [c \in Counter \ {"TOTAL"} |-> Count(c)]

Found(q) ==
    CASE q = "page" -> Listed
      [] q = "breakdown" -> Breakdown
      [] OTHER -> Count(q)

\* The queries of a request run at once: they are answered in any order.
CountOne(h) ==
    /\ pc[h] = "count"
    /\ \E q \in Queries(h) \ DOMAIN got[h].counts :
           LET counts == [r \in DOMAIN got[h].counts \cup {q} |->
                              IF r = q THEN Found(q) ELSE got[h].counts[r]] IN
           /\ Goto(h, "count", IF DOMAIN counts # Queries(h) THEN "count"
                               ELSE IF op[h] = "stats" THEN "keep" ELSE "done")
           /\ got' = [got EXCEPT ![h].counts = counts]
    /\ UNCHANGED <<tables, caches, locals>>

KeepStats(h) ==
    /\ Goto(h, "keep", "done")
    /\ statsCache' = got[h]
    /\ UNCHANGED <<tables, eventCache, locals, got>>

-----------------------------------------------------------------------------
(* The guest list.                                                          *)

AddGuest(h) == Start(h, "add", None, "access")

EditGuest(h) == \E g \in Guest : guests[g] # None /\ Start(h, "edit", [guest |-> g], "guest")

DropGuest(h) == \E g \in Guest : guests[g] # None /\ Start(h, "drop", [guest |-> g], "guest")

ImportGuests(h) ==
    /\ Cardinality({k \in Handlers : op[k] = "import"}) < MaxImports
    /\ \E n \in 1..Rows : Start(h, "import", n, "access")

\* findById: where deletedAt is null.
FindGuest(h) ==
    /\ Goto(h, "guest", IF arg[h].guest \in Listed THEN "access" ELSE "failed")
    /\ UNCHANGED <<tables, caches, locals, got>>

InsertGuest(h) ==
    /\ Goto(h, "insert", "code")
    /\ op[h] = "add"
    /\ guests' = [guests EXCEPT ![<<h, 1>>] = NewGuest(h, FALSE)]
    /\ UNCHANGED <<event, contributions, responses, invitations, caches, locals, got>>

\* The guests whose contribution is still to be looked for, and to be inserted.
Ensures(looks) == [look |-> looks, make |-> {}]

\* After the image of the code was stored.
StoreCode(h) ==
    /\ Goto(h, "code", "ensure")
    /\ guests' = [guests EXCEPT ![<<h, 1>>].code = TRUE]
    /\ got' = [got EXCEPT ![h] = Ensures({<<h, 1>>})]
    /\ UNCHANGED <<event, contributions, responses, invitations, caches, locals>>

Imported(h) == {h} \X (1..arg[h])

InsertMany(h) ==
    /\ Goto(h, "insert", "page")
    /\ op[h] = "import"
    /\ guests' = [g \in Guest |-> IF g \in Imported(h) THEN NewGuest(h, TRUE) ELSE guests[g]]
    /\ UNCHANGED <<event, contributions, responses, invitations, caches, locals, got>>

\* A page of one guest, whatever the file holds.
MutPageSize(h) == 1

\* Math.max(count, 1)
PageSize(h) == arg[h]

\* The first guests of the event by name, who need not be the imported ones.
FirstPage(h) ==
    {page \in SUBSET Listed :
        Cardinality(page) = IF Cardinality(Listed) < PageSize(h) THEN Cardinality(Listed) ELSE PageSize(h)}

ReadPage(h) ==
    /\ pc[h] = "page"
    /\ \E page \in FirstPage(h) :
           /\ Goto(h, "page", IF page = {} THEN "done" ELSE "ensure")
           /\ got' = [got EXCEPT ![h] = Ensures(page)]
    /\ UNCHANGED <<tables, caches, locals>>

\* Promise.all: the request is answered with the last of them, or with the first
\* that throws, and then the others still run.
AfterEnsure(h, rest) == IF pc[h] = "ensure" /\ rest.look \cup rest.make = {} THEN "done" ELSE pc[h]

\* ensureForGuest reads the event, the guest and the contribution.
LookUp(h) ==
    /\ pc[h] \in {"ensure", "failed"} /\ op[h] \in {"add", "import"} /\ got[h] # None
    /\ \E g \in got[h].look :
           LET missing == event.deleted \/ g \notin Listed
               rest == [look |-> got[h].look \ {g},
                        make |-> IF missing \/ g \in contributions THEN got[h].make
                                 ELSE got[h].make \cup {g}] IN
           /\ got' = [got EXCEPT ![h] = rest]
           /\ pc' = [pc EXCEPT ![h] = IF missing THEN "failed" ELSE AfterEnsure(h, rest)]
    /\ UNCHANGED <<tables, caches, locals>>

\* The unique constraint refuses the second row of a guest.
InsertContribution(h) ==
    /\ pc[h] \in {"ensure", "failed"} /\ op[h] \in {"add", "import"} /\ got[h] # None
    /\ \E g \in got[h].make :
           LET rest == [got[h] EXCEPT !.make = @ \ {g}] IN
           /\ contributions' = contributions \cup {g}
           /\ got' = [got EXCEPT ![h] = rest]
           /\ pc' = [pc EXCEPT ![h] = IF g \in contributions THEN "failed" ELSE AfterEnsure(h, rest)]
    /\ UNCHANGED <<event, guests, responses, invitations, caches, locals>>

\* update and softDelete name the row by its id alone.
WriteGuest(h) ==
    /\ Goto(h, "write", "done")
    /\ op[h] \in {"edit", "drop"}
    /\ guests' = [guests EXCEPT ![arg[h].guest] =
            IF op[h] = "drop" THEN [@ EXCEPT !.deleted = TRUE] ELSE [@ EXCEPT !.by = h]]
    /\ UNCHANGED <<event, contributions, responses, invitations, caches, locals, got>>

-----------------------------------------------------------------------------
(* The invitations.                                                         *)

CreateInvitation(h) == Start(h, "invite", None, "access")

ReviseInvitation(h) ==
    \E i \in Invitation, ps \in SUBSET Part \ {{}} :
        invitations[i] # None /\ Start(h, "revise", [invitation |-> i, parts |-> ps], "invitation")

OnInvitation(h, kind) ==
    \E i \in Invitation :
        invitations[i] # None /\ Start(h, kind, [invitation |-> i], "invitation")

PublishInvitation(h) == OnInvitation(h, "publish")

DeleteInvitation(h) == OnInvitation(h, "discard")

PreviewInvitation(h) == OnInvitation(h, "preview")

\* The request named a template that does not exist.
UnknownTemplate(h) ==
    /\ Goto(h, "insert", "failed")
    /\ op[h] = "invite"
    /\ UNCHANGED <<tables, caches, locals, got>>

InsertInvitation(h) ==
    /\ Goto(h, "insert", "done")
    /\ op[h] = "invite"
    /\ invitations' = [invitations EXCEPT ![h] = Draft(h)]
    /\ UNCHANGED <<event, guests, contributions, responses, caches, locals, got>>

\* findById: where deletedAt is null.
FindInvitation(h) ==
    LET row == invitations[arg[h].invitation] IN
    /\ Goto(h, "invitation", IF row.deleted THEN "failed" ELSE "access")
    /\ got' = IF op[h] = "preview" THEN [got EXCEPT ![h] = [row |-> row, event |-> None]] ELSE got
    /\ UNCHANGED <<tables, caches, locals>>

\* preview asks for the event once more, and shows none if it is gone.
ReadPreviewedEvent(h) ==
    /\ Goto(h, "reread", "done")
    /\ got' = [got EXCEPT ![h].event = IF event.deleted THEN None ELSE event]
    /\ UNCHANGED <<tables, caches, locals>>

\* A revision that writes every part it read.
MutRevised(h, row) == [row EXCEPT !.title = h, !.content = h, !.published = FALSE]

\* A part that is not in the request is kept.
Revised(h, row) ==
    [row EXCEPT !.title = IF "title" \in arg[h].parts THEN h ELSE @,
                !.content = IF "content" \in arg[h].parts THEN h ELSE @]

WriteInvitation(h) ==
    /\ Goto(h, "write", "done")
    /\ op[h] \in {"revise", "publish", "discard"}
    /\ invitations' = [invitations EXCEPT ![arg[h].invitation] =
            CASE op[h] = "revise" -> Revised(h, @)
              [] op[h] = "publish" -> [@ EXCEPT !.published = TRUE]
              [] OTHER -> [@ EXCEPT !.deleted = TRUE]]
    /\ UNCHANGED <<event, guests, contributions, responses, caches, locals, got>>

-----------------------------------------------------------------------------
(* Answers of the guests.                                                   *)

\* By the link that carries the guest's code.
Respond(h) ==
    \E g \in Guest, a \in Answers :
        guests[g] # None /\ guests[g].code /\ Start(h, "rsvp", [guest |-> g, answer |-> a], "find")

\* A guest who was deleted still has the code.
MutCodeOpens(g) == guests[g] # None

\* findByQrCode: where deletedAt is null.
CodeOpens(g) == g \in Listed

FindByCode(h) ==
    /\ Goto(h, "find", IF CodeOpens(arg[h].guest) THEN "answer" ELSE "failed")
    /\ UNCHANGED <<tables, caches, locals, got>>

InsertResponse(h) ==
    /\ Goto(h, "answer", "save")
    /\ responses' = Append(responses, [guest |-> arg[h].guest, by |-> h])
    /\ UNCHANGED <<event, guests, contributions, invitations, caches, locals, got>>

\* The first answer counts.
MutAnswered(h, row) == IF row.rsvp = None THEN [row EXCEPT !.rsvp = h] ELSE row

Answered(h, row) == [row EXCEPT !.rsvp = h]

SaveAnswer(h) ==
    /\ Goto(h, "save", "done")
    /\ guests' = [guests EXCEPT ![arg[h].guest] = Answered(h, @)]
    /\ UNCHANGED <<event, contributions, responses, invitations, caches, locals, got>>

-----------------------------------------------------------------------------
(* The passing of time.                                                     *)

EventExpires ==
    /\ eventCache # None /\ eventCache' = None
    /\ UNCHANGED <<tables, statsCache, pc, locals, got>>

StatsExpire ==
    /\ statsCache # None /\ statsCache' = None
    /\ UNCHANGED <<tables, eventCache, pc, locals, got>>

Arrive(h) ==
    \/ GetEvent(h) \/ UpdateEvent(h) \/ UploadCover(h) \/ UpdateSettings(h) \/ DeleteEvent(h)
    \/ GetStats(h) \/ ListGuests(h) \/ ExportGuests(h) \/ RsvpAnalytics(h)
    \/ AddGuest(h) \/ EditGuest(h) \/ DropGuest(h) \/ ImportGuests(h) \/ Respond(h)
    \/ CreateInvitation(h) \/ ReviseInvitation(h) \/ PublishInvitation(h)
    \/ DeleteInvitation(h) \/ PreviewInvitation(h)

Run(h) ==
    \/ ReadEventCache(h) \/ LoadEvent(h) \/ FillEventCache(h) \/ CheckAccess(h)
    \/ WriteEvent(h) \/ ForgetEvent(h) \/ ReadStatsCache(h) \/ CountOne(h) \/ KeepStats(h)
    \/ FindGuest(h) \/ InsertGuest(h) \/ StoreCode(h) \/ InsertMany(h) \/ ReadPage(h)
    \/ LookUp(h) \/ InsertContribution(h) \/ WriteGuest(h)
    \/ UnknownTemplate(h) \/ InsertInvitation(h) \/ FindInvitation(h)
    \/ ReadPreviewedEvent(h) \/ WriteInvitation(h)
    \/ FindByCode(h) \/ InsertResponse(h) \/ SaveAnswer(h)

Next ==
    \/ \E h \in Handlers : Arrive(h) \/ Run(h)
    \/ EventExpires
    \/ StatsExpire

Spec == Init /\ [][Next]_vars

-----------------------------------------------------------------------------
(* Properties.                                                              *)

Overlap(h, k) == h \notin pre[k] /\ k \notin pre[h]

CachedEvent == [row : Row, by : Handlers]

\* Types: rows, cached values and what the handlers carry; the answer a guest's
\* row shows is one of that guest, and only a guest that exists has a contribution.
TypeOK ==
    /\ event \in Row
    /\ eventCache \in CachedEvent \cup {None}
    /\ statsCache # None => statsCache.by \in Handlers /\ DOMAIN statsCache.counts = Counter
    /\ guests \in [Guest -> GuestRow \cup {None}]
    /\ \A g \in Guest : guests[g] # None /\ guests[g].rsvp # None => arg[guests[g].rsvp].guest = g
    /\ \A g \in contributions : guests[g] # None
    /\ responses \in Seq(Response)
    /\ invitations \in [Invitation -> InvitationRow \cup {None}]
    /\ op \in [Handlers -> Op \cup {None}]
    /\ pre \in [Handlers -> SUBSET Handlers]

\* A request for the event that starts after an update was answered is answered
\* with that update or a later one, and one that starts after the deletion was
\* answered is refused, unless the cached event was put there by a request that
\* overlapped with the update or the deletion.
ReadsAreCurrent ==
    \A r, w \in Handlers :
        /\ op[r] = "get" /\ pc[r] = "done"
        /\ op[w] \in {"update", "remove"} /\ pc[w] = "done" /\ w \in pre[r]
        => \/ Overlap(got[r].by, w)
           \/ /\ op[w] = "update"
              /\ \A c \in arg[w] : got[r].row[c] \in Handlers \ pre[w]

GuestWriters == {h \in Handlers : op[h] \in {"add", "drop", "import", "rsvp"}}

\* Analytics, pages, exports and breakdowns that were counted after every request
\* that may change the guest list are exact: they count the guests on the list,
\* and a page holds as many guests as the total beside it says.
StatsAreExact ==
    \A r \in Handlers :
        op[r] \in {"stats", "report"} /\ pc[r] = "done" /\ GuestWriters \subseteq pre[got[r].by] =>
            LET on == {g \in Guest : guests[g] # None /\ ~guests[g].deleted}
                ans(c) == Cardinality({g \in on : Status(g) = c})
                counts == got[r].counts IN
            \A q \in DOMAIN counts :
                CASE q = "page" -> counts[q] = on
                  [] q = "TOTAL" -> counts[q] = Cardinality(on)
                  [] q = "breakdown" -> \A c \in DOMAIN counts[q] : counts[q][c] = ans(c)
                  [] OTHER -> counts[q] = ans(q)

\* The answer in a guest's row is the last one in the history of the answers,
\* unless the last two requests to answer overlapped, or the last one has not
\* saved its answer.
LastAnswerStands ==
    \A i \in DOMAIN responses :
        (\A j \in DOMAIN responses : responses[j].guest = responses[i].guest => j <= i) =>
            LET h == responses[i].by
                k == guests[responses[i].guest].rsvp IN
            \/ h = k
            \/ k # None /\ Overlap(h, k)
            \/ pc[h] = "save"

\* A guest who was added has a contribution when the request is answered.  An
\* import ensures as many guests as it brought, the first by name: each of its
\* guests that is left without a contribution is outweighed by another guest that
\* has one.
ImportsAreEnsured ==
    \A h \in Handlers :
        /\ pc[h] = "done" /\ op[h] = "add" => <<h, 1>> \in contributions
        /\ pc[h] = "done" /\ op[h] = "import" =>
               LET left == {g \in Imported(h) : ~guests[g].deleted /\ g \notin contributions} IN
               Cardinality(left) <= Cardinality(contributions \ Imported(h))

\* A preview that starts after a revision was answered shows it or a later one,
\* and an invitation that was published, or revised in another part, stays so.
InvitationsKeepWhatWasWritten ==
    \A w \in Handlers :
        op[w] \in {"revise", "publish"} /\ pc[w] = "done" =>
            LET i == arg[w].invitation
                shown == {invitations[i]} \cup
                         {got[r].row : r \in {k \in Handlers : op[k] = "preview" /\ pc[k] = "done"
                                                 /\ arg[k].invitation = i /\ w \in pre[k]}} IN
            \A row \in shown :
                IF op[w] = "publish" THEN row.published
                ELSE \A p \in arg[w].parts :
                         row[p] \in {k \in Handlers \ pre[w] : op[k] = "revise" /\ p \in arg[k].parts}

\* The steps of a handler that was not refused.
Acting == {"fill", "count", "keep", "write", "forget", "insert", "code", "page", "ensure",
           "answer", "save", "reread"}

\* Once the deletion of the event, a guest or an invitation was answered, no
\* request that starts later writes anything for it or caches anything about it.
\* An answer by a guest's link is the exception: it asks for the guest and not for
\* the event.
NothingAfterRemoval ==
    \A h, k \in Handlers :
        /\ pc[h] = "done" /\ h \in pre[k]
        /\ \/ op[h] = "remove" /\ op[k] # "rsvp"
           \/ op[h] = "drop" /\ op[k] \in {"drop", "edit", "rsvp"} /\ arg[k].guest = arg[h].guest
           \/ /\ op[h] = "discard" /\ op[k] \in {"revise", "publish", "discard", "preview"}
              /\ arg[k].invitation = arg[h].invitation
        => pc[k] \notin Acting
=============================================================================
