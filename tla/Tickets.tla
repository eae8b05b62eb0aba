------------------------------- MODULE Tickets -------------------------------
(***************************************************************************)
(* QR codes, tickets and the door: TicketService.issueTicket,              *)
(* QrService.generate and QrService.checkIn over the tickets,              *)
(* attendance_logs and guests tables.                                      *)
(*                                                                         *)
(* Every request is a handler that takes one step per awaited call which   *)
(* reads or writes shared state, and acts on the rows it read.  A guest    *)
(* can hold two codes: the ticket's token (hex) and guest.qrCode (a uuid). *)
(* A code is named by its format and the handler that generated it.  The   *)
(* event is fixed; the organizer does the scanning.                        *)
(***************************************************************************)
EXTENDS Integers, FiniteSets

CONSTANTS
    Handlers,     \* the requests of a behaviour
    Guests,
    None,
    ScanFormats,  \* code formats that reach checkIn: the route lets only uuids through
    MaxInFlight,  \* bound: handlers running at the same time
    Faults        \* whether a handler may die or throw between two steps

Format == {"token", "uuid"}

ASSUME TicketsAssumption ==
    /\ ScanFormats \subseteq Format
    /\ None \notin Handlers /\ None \notin Guests
    /\ MaxInFlight \in Nat \ {0}
    /\ Faults \in BOOLEAN

Code == Format \X Handlers

TicketStatus == {"ACTIVE", "USED"}

Row == [token : Handlers, status : TicketStatus]

ASSUME NoneIsNoRow == None \notin Row \cup Code

VARIABLES
    ticket,     \* the guest's ticket row, or None
    qrCode,     \* generator of the guest's qrCode, or None
    checkedIn,  \* guests with isCheckedIn
    visible,    \* guests that are not soft-deleted
    logs,       \* handlers that inserted an attendance log
    sent,       \* ticket cards delivered, as <<guest, token>>
    printed,    \* QR codes returned by generate, as <<guest, code>>
    pc,         \* next step of each handler
    who,        \* the guest it works for (the one it found, for a scan)
    scan,       \* the code presented to it
    code,       \* the code it generated or reuses
    found,      \* the ticket row it found by token
    late        \* scans that started after their guest was checked in

tables == <<ticket, qrCode, checkedIn, visible, logs, sent, printed>>
locals == <<who, scan, code, found, late>>
vars == <<tables, pc, locals>>

Step == {"issue", "store", "card", "gen", "save", "lookup", "guest", "log", "mark", "use"}
Final == {"done", "failed", "invalid", "crashed"}

Init ==
    /\ ticket = [g \in Guests |-> None]
    /\ qrCode = [g \in Guests |-> None]
    /\ checkedIn = {}
    /\ visible = Guests
    /\ logs = {}
    /\ sent = {}
    /\ printed = {}
    /\ pc = [h \in Handlers |-> "idle"]
    /\ who = [h \in Handlers |-> None]
    /\ scan = [h \in Handlers |-> None]
    /\ code = [h \in Handlers |-> None]
    /\ found = [h \in Handlers |-> None]
    /\ late = {}

Goto(h, from, to) == pc[h] = from /\ pc' = [pc EXCEPT ![h] = to]

\* Requests are interchangeable: a new one takes a name no request has had.
Fresh == CHOOSE h \in Handlers : pc[h] = "idle"

Start(h, first) ==
    /\ Goto(h, "idle", first)
    /\ h = Fresh
    /\ Cardinality({k \in Handlers : pc[k] \in Step}) < MaxInFlight

-----------------------------------------------------------------------------
(* issueTicket                                                              *)

RequestTicket(h) ==
    /\ Start(h, "issue")
    /\ \E g \in Guests : who' = [who EXCEPT ![h] = g]
    /\ UNCHANGED <<tables, scan, code, found, late>>

\* The event, the guest and the ticket are read together; the token is the
\* existing one or a new one, and its image is uploaded.
ReadTicket(h) ==
    LET g == who[h] IN
    /\ Goto(h, "issue", "store")
    /\ g \in visible
    /\ code' = [code EXCEPT ![h] = IF ticket[g] = None THEN h ELSE ticket[g].token]
    /\ UNCHANGED <<tables, who, scan, found, late>>

\* A create that ignores a row inserted since the read.
MutNoTicketYet(g) == TRUE

\* The unique constraint on (eventId, guestId).
NoTicketYet(g) == ticket[g] = None

CreateTicket(h) ==
    LET g == who[h] IN
    /\ Goto(h, "store", "card")
    /\ code[h] = h /\ NoTicketYet(g)
    /\ ticket' = [ticket EXCEPT ![g] = [token |-> h, status |-> "ACTIVE"]]
    /\ UNCHANGED <<qrCode, checkedIn, visible, logs, sent, printed, locals>>

TicketConflict(h) ==
    /\ Goto(h, "store", "failed")
    /\ code[h] = h /\ ~NoTicketYet(who[h])
    /\ UNCHANGED <<tables, locals>>

\* A ticket that was read is made ACTIVE, whatever became of it.
ReissueTicket(h) ==
    LET g == who[h] IN
    /\ Goto(h, "store", "card")
    /\ code[h] # h
    /\ ticket' = [ticket EXCEPT ![g].status = "ACTIVE"]
    /\ UNCHANGED <<qrCode, checkedIn, visible, logs, sent, printed, locals>>

\* sendTicketCard; the card URL it then stores is not modelled.
SendTicketCard(h) ==
    /\ Goto(h, "card", "done")
    /\ who[h] \in visible
    /\ sent' = sent \cup {<<who[h], code[h]>>}
    /\ UNCHANGED <<ticket, qrCode, checkedIn, visible, logs, printed, locals>>

-----------------------------------------------------------------------------
(* generate                                                                 *)

RequestQrCode(h) ==
    /\ Start(h, "gen")
    /\ \E g \in Guests : who' = [who EXCEPT ![h] = g]
    /\ UNCHANGED <<tables, scan, code, found, late>>

\* guest.qrCode ?? uuidv4()
QrCodeFor(g, h) == IF qrCode[g] = None THEN h ELSE qrCode[g]

ReadQrCode(h) ==
    /\ Goto(h, "gen", "save")
    /\ who[h] \in visible
    /\ code' = [code EXCEPT ![h] = QrCodeFor(who[h], h)]
    /\ UNCHANGED <<tables, who, scan, found, late>>

SaveQrCode(h) ==
    /\ Goto(h, "save", "done")
    /\ qrCode' = [qrCode EXCEPT ![who[h]] = code[h]]
    /\ printed' = printed \cup {<<who[h], code[h]>>}
    /\ UNCHANGED <<ticket, checkedIn, visible, logs, sent, locals>>

-----------------------------------------------------------------------------
(* checkIn                                                                  *)

\* The codes in people's hands, by format.
Handed(f) == IF f = "token" THEN sent ELSE printed

\* POST /qr/check-in; its schema rejects a code that is not a uuid.
PresentCode(h) ==
    \E f \in Format : \E s \in Handed(f) :
        /\ Start(h, IF f \in ScanFormats THEN "lookup" ELSE "invalid")
        /\ scan' = [scan EXCEPT ![h] = <<f, s[2]>>]
        /\ late' = IF s[1] \in checkedIn THEN late \cup {h} ELSE late
        /\ UNCHANGED <<tables, who, code, found>>

\* ticketRepo.findByToken
LookupToken(h) ==
    LET G == {g \in Guests : /\ scan[h][1] = "token" /\ ticket[g] # None
                             /\ ticket[g].token = scan[h][2]} IN
    /\ Goto(h, "lookup", "guest")
    /\ \/ \E g \in G : /\ found' = [found EXCEPT ![h] = ticket[g]]
                       /\ who' = [who EXCEPT ![h] = g]
       \/ G = {} /\ UNCHANGED <<found, who>>
    /\ UNCHANGED <<tables, scan, code, late>>

\* A valid ticket is taken for an admission, whoever came before.
MutAdmissible(h, g) == IF found[h] # None THEN found[h].status = "ACTIVE" ELSE g \notin checkedIn

\* The ticket that was found must be ACTIVE, and the guest not checked in.
Admissible(h, g) ==
    /\ found[h] # None => found[h].status = "ACTIVE"
    /\ g \notin checkedIn

\* The guest is looked up by qrCode only.
MutPresented(h) == {g \in visible : qrCode[g] = scan[h][2]}

\* findById for a ticket, findByQrCode otherwise.
Presented(h) ==
    {g \in visible : IF found[h] # None THEN g = who[h]
                     ELSE scan[h][1] = "uuid" /\ qrCode[g] = scan[h][2]}

AdmitGuest(h) ==
    /\ Goto(h, "guest", "log")
    /\ \E g \in Presented(h) : /\ Admissible(h, g)
                               /\ who' = [who EXCEPT ![h] = g]
    /\ UNCHANGED <<tables, scan, code, found, late>>

TurnAway(h) ==
    /\ Goto(h, "guest", "failed")
    /\ \A g \in Presented(h) : ~Admissible(h, g)
    /\ UNCHANGED <<tables, locals>>

\* The guest is marked first, then the ticket if there is one.
AfterLog(h) == "mark"

InsertLog(h) ==
    /\ Goto(h, "log", AfterLog(h))
    /\ logs' = logs \cup {h}
    /\ UNCHANGED <<ticket, qrCode, checkedIn, visible, sent, printed, locals>>

MarkCheckedIn(h) ==
    /\ Goto(h, "mark", IF found[h] # None THEN "use" ELSE "done")
    /\ checkedIn' = checkedIn \cup {who[h]}
    /\ UNCHANGED <<ticket, qrCode, visible, logs, sent, printed, locals>>

UseTicket(h) ==
    /\ Goto(h, "use", "done")
    /\ ticket' = [ticket EXCEPT ![who[h]].status = "USED"]
    /\ UNCHANGED <<qrCode, checkedIn, visible, logs, sent, printed, locals>>

-----------------------------------------------------------------------------
GuestGone(h) ==
    /\ pc[h] \in {"issue", "gen", "card"}
    /\ who[h] \notin visible
    /\ pc' = [pc EXCEPT ![h] = "failed"]
    /\ UNCHANGED <<tables, locals>>

\* A crash, or an error of the database, the image store or the gateway.
Abort(h) ==
    /\ Faults
    /\ pc[h] \in Step
    /\ pc' = [pc EXCEPT ![h] = "crashed"]
    /\ UNCHANGED <<tables, locals>>

DeleteGuest(g) ==
    /\ g \in visible
    /\ visible' = visible \ {g}
    /\ UNCHANGED <<ticket, qrCode, checkedIn, logs, sent, printed, pc, locals>>

Run(h) ==
    \/ ReadTicket(h) \/ CreateTicket(h) \/ TicketConflict(h) \/ ReissueTicket(h)
    \/ SendTicketCard(h) \/ ReadQrCode(h) \/ SaveQrCode(h)
    \/ LookupToken(h) \/ AdmitGuest(h) \/ TurnAway(h)
    \/ InsertLog(h) \/ MarkCheckedIn(h) \/ UseTicket(h) \/ GuestGone(h)

Next ==
    \/ \E h \in Handlers : \/ RequestTicket(h) \/ RequestQrCode(h) \/ PresentCode(h)
                           \/ Run(h) \/ Abort(h)
    \/ \E g \in Guests : DeleteGuest(g)

Spec == Init /\ [][Next]_vars

\* The event loop resumes an awaiting handler; nobody is obliged to present a code.
FairSpec == Spec /\ \A h \in Handlers : WF_vars(Run(h))

-----------------------------------------------------------------------------
(* Properties.                                                              *)

\* Types: rows, codes named by handlers, and handlers that are at a step of the code.
TypeOK ==
    /\ ticket \in [Guests -> Row \cup {None}]
    /\ qrCode \in [Guests -> Handlers \cup {None}]
    /\ checkedIn \subseteq Guests /\ visible \subseteq Guests
    /\ logs \subseteq Handlers /\ late \subseteq Handlers
    /\ sent \subseteq Guests \X Handlers /\ printed \subseteq Guests \X Handlers
    /\ pc \in [Handlers -> {"idle"} \cup Step \cup Final]
    /\ who \in [Handlers -> Guests \cup {None}]
    /\ scan \in [Handlers -> Code \cup {None}]
    /\ code \in [Handlers -> Handlers \cup {None}]
    /\ found \in [Handlers -> Row \cup {None}]

\* A scan that starts after the guest was marked as checked in never adds an
\* attendance log, even though a ticket issued again is ACTIVE again and though
\* the guest may hold a second code: only scans that overlap can admit twice.
LateScansNeverAdmit == late \cap logs = {}

\* A ticket card never shows a token that the table does not have: of two
\* requests issuing a guest's first ticket, the loser sends nothing.
SentTokensAreStored ==
    \A s \in sent : ticket[s[1]] # None /\ ticket[s[1]].token = s[2]

HoldsCurrent(h, g) ==
    /\ scan[h] # None
    /\ IF scan[h][1] = "token" THEN ticket[g] # None /\ ticket[g].token = scan[h][2]
       ELSE qrCode[g] = scan[h][2]

\* When handlers are resumed, a guest whose current code is presented ends up
\* checked in, unless the guest was deleted or the code replaced in the
\* meantime, or the handler crashed.
CurrentCodesOpenTheDoor ==
    \A h \in Handlers, g \in Guests :
        (pc[h] = "lookup" /\ HoldsCurrent(h, g))
            ~> (g \in checkedIn \/ g \notin visible \/ ~HoldsCurrent(h, g) \/ pc[h] = "crashed")

\* "Present this ticket at the entrance": no delivered ticket is refused as
\* malformed.
TicketIsAccepted ==
    \A h \in Handlers : pc[h] = "invalid" => scan[h][2] \notin {s[2] : s \in sent}
=============================================================================
