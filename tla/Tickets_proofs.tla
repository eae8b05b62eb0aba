---------------------------- MODULE Tickets_proofs ----------------------------
(***************************************************************************)
(* Theorems about Tickets, for any set of handlers and guests, with no     *)
(* bound on the handlers in flight.  The inductive invariant IInv says who *)
(* made each code that is stored, printed, sent or presented: a request of *)
(* the guest the code belongs to.  DoorInv adds, for behaviours in which   *)
(* no two scans of a guest overlap at the door, that who was logged is     *)
(* marked or about to be.                                                  *)
(***************************************************************************)
EXTENDS Tickets, TLAPS

\* Handler c is a request that made a code of guest g.
Maker(c, g) == c \in Handlers /\ pc[c] # "idle" /\ scan[c] = None /\ who[c] = g

Stored(g, c) == ticket[g] # None /\ ticket[g].token = c

\* What the place of a handler in the code says of its locals.
ControlInv(h) ==
    /\ pc[h] = "idle" => /\ who[h] = None /\ scan[h] = None /\ code[h] = None
                         /\ found[h] = None /\ h \notin late /\ h \notin logs
    /\ pc[h] \in {"issue", "store", "card", "gen", "save"} => scan[h] = None /\ who[h] \in Guests
    /\ pc[h] \in {"lookup", "guest", "log", "mark", "use"} => scan[h] # None
    /\ pc[h] \in {"log", "mark", "use"} => who[h] \in Guests
    /\ pc[h] = "use" => found[h] # None

\* The code a handler made or reuses, and the one presented to it, was made for
\* the guest it works for.
CodeInv(h) ==
    /\ pc[h] \in {"store", "card", "save"} => Maker(code[h], who[h])
    /\ pc[h] = "card" \/ (pc[h] = "store" /\ code[h] # h) => Stored(who[h], code[h])
    /\ scan[h] # None => \E g \in Guests : Maker(scan[h][2], g)
    /\ found[h] # None => /\ scan[h] # None /\ who[h] \in Guests
                          /\ Maker(scan[h][2], who[h]) /\ Stored(who[h], scan[h][2])

\* A scan that came late carries the code of somebody who is in, and gets nowhere.
LateInv(h) ==
    h \in late => /\ scan[h] # None /\ who[scan[h][2]] \in checkedIn
                  /\ pc[h] \notin {"log", "mark", "use"} /\ h \notin logs

HandlerInv(h) == ControlInv(h) /\ CodeInv(h) /\ LateInv(h)

GuestInv(g) ==
    /\ ticket[g] # None => Maker(ticket[g].token, g)
    /\ qrCode[g] # None => Maker(qrCode[g], g)

IInv ==
    /\ TypeOK
    /\ \A h \in Handlers : HandlerInv(h)
    /\ \A g \in Guests : GuestInv(g)
    /\ \A s \in sent : Stored(s[1], s[2]) /\ Maker(s[2], s[1])
    /\ \A s \in printed : Maker(s[2], s[1])

-----------------------------------------------------------------------------
\* The invariant holds at the start: there are no codes yet.
LEMMA InitIInv == Init => IInv
  BY DEF Init, IInv, TypeOK, HandlerInv, ControlInv, CodeInv, LateInv, GuestInv, Step

-----------------------------------------------------------------------------
(* Framing: codes keep their makers, and nothing stored is lost.            *)

SameLocals(k) ==
    /\ pc'[k] = pc[k] /\ who'[k] = who[k] /\ scan'[k] = scan[k]
    /\ code'[k] = code[k] /\ found'[k] = found[k]
    /\ k \in late' <=> k \in late
    /\ k \in logs' <=> k \in logs

\* A step of handler h moves nobody else, and keeps what others rely on.
Keeps(h) ==
    /\ \A k \in Handlers \ {h} : SameLocals(k)
    /\ pc[h] # "idle" => /\ pc'[h] # "idle" /\ scan'[h] = scan[h]
                         /\ scan[h] = None => who'[h] = who[h]
    /\ \A g \in Guests, c \in Handlers : Stored(g, c) => Stored(g, c)'
    /\ checkedIn \subseteq checkedIn'

\* Who made a code does not change.
LEMMA MakersStay ==
    ASSUME NEW h, Keeps(h), NEW c, NEW g, Maker(c, g)
    PROVE  Maker(c, g)'
  BY DEF Maker, Keeps, SameLocals

\* A handler that does not move keeps its invariant.
LEMMA FrameHandler ==
    ASSUME IInv, NEW h, Keeps(h), NEW k \in Handlers \ {h}
    PROVE  HandlerInv(k)'
  <1>1. HandlerInv(k) /\ SameLocals(k)
    BY DEF IInv, Keeps
  <1>2. ControlInv(k)'
    BY <1>1 DEF HandlerInv, ControlInv, SameLocals
  <1>3. CodeInv(k)'
    <2>1. \A g \in Guests, c \in Handlers : Stored(g, c) => Stored(g, c)'
      BY DEF Keeps
    <2>2. CodeInv(k) /\ ControlInv(k)
      BY <1>1 DEF HandlerInv
    <2>3. pc[k] \in {"store", "card", "save"} => who[k] \in Guests /\ Maker(code[k], who[k])
      BY <2>2 DEF CodeInv, ControlInv
    <2>4. \A c, g : Maker(c, g) => c \in Handlers
      BY DEF Maker
    <2>5. (pc[k] \in {"store", "card", "save"} => Maker(code[k], who[k]))'
      BY <1>1, <2>3, MakersStay DEF SameLocals, Maker
    <2>6. (pc[k] = "card" \/ (pc[k] = "store" /\ code[k] # k) => Stored(who[k], code[k]))'
      BY <1>1, <2>1, <2>2, <2>3, <2>4 DEF CodeInv, SameLocals, Stored
    <2>7. (scan[k] # None => \E g \in Guests : Maker(scan[k][2], g))'
      BY <1>1, <2>2, MakersStay DEF CodeInv, SameLocals, Maker
    <2>8. (found[k] # None => /\ scan[k] # None /\ who[k] \in Guests
                              /\ Maker(scan[k][2], who[k]) /\ Stored(who[k], scan[k][2]))'
      BY <1>1, <2>1, <2>2, <2>4, MakersStay DEF CodeInv, SameLocals, Maker, Stored
    <2> QED
      BY <2>5, <2>6, <2>7, <2>8 DEF CodeInv
  <1>4. LateInv(k)'
    BY <1>1 DEF HandlerInv, LateInv, CodeInv, Maker, Keeps, SameLocals
  <1> QED
    BY <1>2, <1>3, <1>4 DEF HandlerInv

\* A guest whose ticket keeps its token and whose qrCode is untouched is as before.
LEMMA FrameGuest ==
    ASSUME IInv, NEW h, Keeps(h), NEW g \in Guests, qrCode'[g] = qrCode[g],
           ticket'[g] # None => ticket[g] # None /\ ticket'[g].token = ticket[g].token
    PROVE  GuestInv(g)'
  BY MakersStay DEF IInv, GuestInv, Maker, Keeps, SameLocals

\* Codes already handed out stay as they were.
LEMMA FrameHanded ==
    ASSUME IInv, NEW h, Keeps(h)
    PROVE  /\ \A s \in sent : (Stored(s[1], s[2]) /\ Maker(s[2], s[1]))'
           /\ \A s \in printed : Maker(s[2], s[1])'
  <1>1. \A s \in sent : s[1] \in Guests /\ s[2] \in Handlers
    BY DEF IInv, TypeOK
  <1> QED
    BY <1>1 DEF IInv, Maker, Stored, Keeps, SameLocals

\* Putting the parts of a step of handler h that writes no code together.
LEMMA StepIInv ==
    ASSUME IInv, TypeOK', NEW h, Keeps(h), h \in Handlers => HandlerInv(h)',
           UNCHANGED <<qrCode, sent, printed>>,
           \A g \in Guests : ticket'[g] # None => /\ ticket[g] # None
                                                  /\ ticket'[g].token = ticket[g].token
    PROVE  IInv'
  <1>1. \A k \in Handlers : HandlerInv(k)'
    BY FrameHandler
  <1>2. \A g \in Guests : GuestInv(g)'
    BY FrameGuest
  <1> QED
    BY <1>1, <1>2, FrameHanded DEF IInv

-----------------------------------------------------------------------------
(* Requests arrive, and handlers give up.                                   *)

\* A new request knows of nothing but the code it is given.
LEMMA ArriveIInv ==
    ASSUME IInv, NEW h \in Handlers, RequestTicket(h) \/ RequestQrCode(h) \/ PresentCode(h)
    PROVE  IInv'
  <1>1. /\ UNCHANGED <<tables, code, found>>
        /\ pc[h] = "idle"
        /\ pc' = [pc EXCEPT ![h] = pc'[h]]
        /\ \/ /\ pc'[h] \in {"issue", "gen"}
              /\ \E g \in Guests : who' = [who EXCEPT ![h] = g]
              /\ UNCHANGED <<scan, late>>
           \/ /\ pc'[h] \in {"lookup", "invalid"}
              /\ \E f \in Format : \E s \in Handed(f) :
                    /\ scan' = [scan EXCEPT ![h] = <<f, s[2]>>]
                    /\ late' = IF s[1] \in checkedIn THEN late \cup {h} ELSE late
              /\ UNCHANGED who
    BY DEF IInv, TypeOK, RequestTicket, RequestQrCode, PresentCode, Start, Goto
  <1>2. TypeOK'
    BY <1>1 DEF IInv, TypeOK, tables, Step, Final, Handed, Code
  <1>3. Keeps(h)
    BY <1>1 DEF IInv, TypeOK, Keeps, SameLocals, Stored, tables
  <1>4. HandlerInv(h)
    BY DEF IInv
  <1>5. CASE pc'[h] \in {"issue", "gen"}
    BY <1>1, <1>2, <1>3, <1>4, <1>5, StepIInv
       DEF IInv, TypeOK, HandlerInv, ControlInv, CodeInv, LateInv, tables
  <1>6. CASE pc'[h] \in {"lookup", "invalid"}
    <2>1. PICK f \in Format : \E s \in Handed(f) :
             /\ scan' = [scan EXCEPT ![h] = <<f, s[2]>>]
             /\ late' = IF s[1] \in checkedIn THEN late \cup {h} ELSE late
             /\ UNCHANGED who
      BY <1>1, <1>6
    <2>2. PICK s \in Handed(f) :
             /\ scan' = [scan EXCEPT ![h] = <<f, s[2]>>]
             /\ late' = IF s[1] \in checkedIn THEN late \cup {h} ELSE late
      BY <2>1
    <2>3. s[1] \in Guests /\ Maker(s[2], s[1]) /\ who[s[2]] = s[1] /\ s[2] # h
      BY <1>1 DEF IInv, TypeOK, Handed, Maker
    <2>4. Maker(s[2], s[1])'
      BY <1>3, <2>3, MakersStay
    <2>5. scan'[h] = <<f, s[2]>> /\ scan'[h][2] = s[2] /\ scan'[h] # None
      BY <2>2, <2>3, NoneIsNoRow DEF IInv, TypeOK, Code, Maker
    <2> QED
      BY SMTT(60), <1>1, <1>2, <1>3, <1>4, <1>6, <2>1, <2>2, <2>3, <2>4, <2>5, StepIInv
         DEF IInv, TypeOK, HandlerInv, ControlInv, CodeInv, LateInv, tables
  <1> QED
    BY <1>1, <1>5, <1>6

\* A handler that only moves to the end of its code preserves the invariant.
LEMMA EndsIInv ==
    ASSUME IInv, NEW h \in Handlers,
           TicketConflict(h) \/ TurnAway(h) \/ GuestGone(h) \/ Abort(h)
    PROVE  IInv'
  <1>1. /\ UNCHANGED <<tables, locals>>
        /\ pc[h] \in Step
        /\ pc' = [pc EXCEPT ![h] = pc'[h]]
        /\ pc'[h] \in {"failed", "crashed"}
    BY DEF IInv, TypeOK, TicketConflict, TurnAway, GuestGone, Abort, Goto, Step
  <1>2. TypeOK'
    BY <1>1 DEF IInv, TypeOK, tables, locals, Step, Final
  <1>3. Keeps(h)
    BY <1>1 DEF IInv, TypeOK, Keeps, SameLocals, Stored, tables, locals
  <1>4. HandlerInv(h)
    BY DEF IInv
  <1>5. HandlerInv(h)'
    BY <1>1, <1>3, <1>4, MakersStay
       DEF HandlerInv, ControlInv, CodeInv, LateInv, tables, locals, Step, Stored, Maker
  <1> QED
    BY <1>1, <1>2, <1>3, <1>5, StepIInv DEF tables, IInv, TypeOK

-----------------------------------------------------------------------------
(* Making codes.                                                            *)

\* The token read for a guest is one made for it; a new one is the handler's own.
LEMMA ReadTicketIInv ==
    ASSUME IInv, NEW h \in Handlers, ReadTicket(h)
    PROVE  IInv'
  <1> DEFINE g == who[h]
  <1>1. /\ UNCHANGED <<tables, who, scan, found, late>>
        /\ pc[h] = "issue" /\ pc' = [pc EXCEPT ![h] = "store"]
        /\ code' = [code EXCEPT ![h] = IF ticket[g] = None THEN h ELSE ticket[g].token]
    BY DEF ReadTicket, Goto
  <1>2. HandlerInv(h) /\ g \in Guests /\ scan[h] = None
    BY <1>1 DEF IInv, HandlerInv, ControlInv
  <1>3. GuestInv(g) /\ (ticket[g] # None => ticket[g] \in Row)
    BY <1>2 DEF IInv, TypeOK
  <1>4. TypeOK'
    BY <1>1, <1>2, <1>3 DEF IInv, TypeOK, tables, Step, Row
  <1>5. Keeps(h)
    BY <1>1 DEF IInv, TypeOK, Keeps, SameLocals, Stored, tables
  <1>6. HandlerInv(h)'
    <2>1. pc'[h] = "store" /\ who'[h] = g /\ scan'[h] = None
      BY <1>1, <1>2 DEF IInv, TypeOK
    <2>2. code'[h] = IF ticket[g] = None THEN h ELSE ticket[g].token
      BY <1>1 DEF IInv, TypeOK
    <2>3. Maker(h, g)
      BY <1>1, <1>2 DEF Maker
    <2>4. Maker(code'[h], g)
      BY <1>3, <2>2, <2>3 DEF GuestInv
    <2>5. Maker(code[h], g)'
      BY <1>5, <2>1, <2>4 DEF Maker, Keeps, SameLocals
    <2> QED
      BY <1>1, <1>2, <2>1, <2>2, <2>4, <1>5
         DEF HandlerInv, ControlInv, CodeInv, LateInv, tables, Stored, Maker, Keeps, SameLocals
  <1> QED
    BY <1>1, <1>4, <1>5, <1>6, StepIInv DEF tables

\* The uuid read for a guest is one made for it; a new one is the handler's own.
LEMMA ReadQrCodeIInv ==
    ASSUME IInv, NEW h \in Handlers, ReadQrCode(h)
    PROVE  IInv'
  <1> DEFINE g == who[h]
  <1>1. /\ UNCHANGED <<tables, who, scan, found, late>>
        /\ pc[h] = "gen" /\ pc' = [pc EXCEPT ![h] = "save"]
        /\ code' = [code EXCEPT ![h] = QrCodeFor(g, h)]
    BY DEF ReadQrCode, Goto
  <1>2. HandlerInv(h) /\ g \in Guests /\ scan[h] = None
    BY <1>1 DEF IInv, HandlerInv, ControlInv
  <1>3. Maker(QrCodeFor(g, h), g)
    BY <1>1, <1>2 DEF IInv, GuestInv, QrCodeFor, Maker
  <1>4. TypeOK'
    BY <1>1, <1>3 DEF IInv, TypeOK, tables, Step, Maker
  <1>5. Keeps(h)
    BY <1>1 DEF IInv, TypeOK, Keeps, SameLocals, Stored, tables
  <1>6. HandlerInv(h)'
    BY <1>1, <1>2, <1>3, <1>5
       DEF IInv, TypeOK, HandlerInv, ControlInv, CodeInv, LateInv, tables, Maker, Keeps, SameLocals
  <1> QED
    BY <1>1, <1>4, <1>5, <1>6, StepIInv DEF tables

\* A first ticket carries the token of the request that creates it.
LEMMA CreateTicketIInv ==
    ASSUME IInv, NEW h \in Handlers, CreateTicket(h)
    PROVE  IInv'
  <1> DEFINE g == who[h]
  <1>1. /\ UNCHANGED <<qrCode, checkedIn, visible, logs, sent, printed, locals>>
        /\ pc[h] = "store" /\ pc' = [pc EXCEPT ![h] = "card"]
        /\ code[h] = h /\ ticket[g] = None
        /\ ticket' = [ticket EXCEPT ![g] = [token |-> h, status |-> "ACTIVE"]]
    BY DEF CreateTicket, Goto, NoTicketYet
  <1>2. HandlerInv(h) /\ g \in Guests /\ Maker(h, g)
    BY <1>1 DEF IInv, HandlerInv, ControlInv, CodeInv
  <1>3. [token |-> h, status |-> "ACTIVE"] \in Row
    BY DEF Row, TicketStatus
  <1>4. TypeOK'
    BY <1>1, <1>3 DEF IInv, TypeOK, locals, Step
  <1>5. Keeps(h)
    BY <1>1, <1>2 DEF IInv, TypeOK, Keeps, SameLocals, Stored, locals
  <1>6. ticket'[g] # None /\ ticket'[g].token = h /\ Maker(h, g)'
    BY <1>1, <1>2, <1>3, <1>5, NoneIsNoRow DEF IInv, TypeOK, Maker, Keeps, SameLocals, locals
  <1>7. \A k \in Handlers : HandlerInv(k)'
    <2>1. HandlerInv(h)'
      BY <1>1, <1>2, <1>6
         DEF IInv, TypeOK, HandlerInv, ControlInv, CodeInv, LateInv, locals, Stored, Maker
    <2> QED
      BY <1>5, <2>1, FrameHandler
  <1>8. \A f \in Guests : GuestInv(f)'
    <2>1. \A f \in Guests : f = g => GuestInv(f)'
      BY <1>1, <1>2, <1>5, <1>6, MakersStay DEF IInv, GuestInv, locals
    <2>2. \A f \in Guests \ {g} : GuestInv(f)'
      BY <1>1, <1>2, <1>5, FrameGuest DEF IInv, TypeOK
    <2> QED
      BY <2>1, <2>2
  <1> QED
    BY <1>1, <1>4, <1>5, <1>7, <1>8, FrameHanded DEF IInv

\* Making a ticket ACTIVE or USED leaves its token alone.
LEMMA TicketStatusIInv ==
    ASSUME IInv, NEW h \in Handlers, ReissueTicket(h) \/ UseTicket(h)
    PROVE  IInv'
  <1> DEFINE g == who[h]
  <1>1. /\ UNCHANGED <<qrCode, checkedIn, visible, logs, sent, printed, locals>>
        /\ pc' = [pc EXCEPT ![h] = pc'[h]]
        /\ \/ pc[h] = "store" /\ code[h] # h /\ pc'[h] = "card"
           \/ pc[h] = "use" /\ pc'[h] = "done"
        /\ \E status \in TicketStatus : ticket' = [ticket EXCEPT ![g].status = status]
    BY DEF IInv, TypeOK, ReissueTicket, UseTicket, Goto, TicketStatus
  <1>2. HandlerInv(h) /\ g \in Guests /\ ticket[g] # None /\ ticket[g] \in Row
    BY <1>1 DEF IInv, TypeOK, HandlerInv, ControlInv, CodeInv, Stored
  <1>3. /\ ticket' \in [Guests -> Row \cup {None}]
        /\ ticket'[g] \in Row /\ ticket'[g].token = ticket[g].token
        /\ \A f \in Guests \ {g} : ticket'[f] = ticket[f]
    BY <1>1, <1>2 DEF IInv, TypeOK, Row
  <1>4. TypeOK'
    BY <1>1, <1>3 DEF IInv, TypeOK, locals, Step, Final
  <1>5. \A f \in Guests : ticket'[f] # None => /\ ticket[f] # None
                                              /\ ticket'[f].token = ticket[f].token
    BY <1>2, <1>3
  <1>6. Keeps(h)
    BY <1>1, <1>2, <1>3, NoneIsNoRow DEF IInv, TypeOK, Keeps, SameLocals, Stored, locals
  <1>7. HandlerInv(h)'
    <2>1. ticket'[g] # None
      BY <1>3, NoneIsNoRow
    <2> QED
      BY <1>1, <1>2, <1>3, <2>1
         DEF IInv, TypeOK, HandlerInv, ControlInv, CodeInv, LateInv, locals, Stored, Maker
  <1> QED
    BY <1>1, <1>4, <1>5, <1>6, <1>7, StepIInv

\* Only the token that is stored is sent.
LEMMA SendTicketCardIInv ==
    ASSUME IInv, NEW h \in Handlers, SendTicketCard(h)
    PROVE  IInv'
  <1>1. /\ UNCHANGED <<ticket, qrCode, checkedIn, visible, logs, printed, locals>>
        /\ pc[h] = "card" /\ pc' = [pc EXCEPT ![h] = "done"]
        /\ sent' = sent \cup {<<who[h], code[h]>>}
    BY DEF SendTicketCard, Goto
  <1>2. /\ HandlerInv(h) /\ who[h] \in Guests
        /\ Stored(who[h], code[h]) /\ Maker(code[h], who[h]) /\ code[h] \in Handlers
    BY <1>1 DEF IInv, HandlerInv, ControlInv, CodeInv, Maker
  <1>3. TypeOK'
    BY <1>1, <1>2 DEF IInv, TypeOK, locals, Final
  <1>4. Keeps(h)
    BY <1>1 DEF IInv, TypeOK, Keeps, SameLocals, Stored, locals
  <1>5. \A k \in Handlers : HandlerInv(k)'
    <2>1. HandlerInv(h)'
      BY <1>1, <1>2
         DEF IInv, TypeOK, HandlerInv, ControlInv, CodeInv, LateInv, locals, Stored, Maker
    <2> QED
      BY <1>4, <2>1, FrameHandler
  <1>6. \A g \in Guests : GuestInv(g)'
    BY <1>1, <1>4, FrameGuest
  <1>7. (Stored(who[h], code[h]) /\ Maker(code[h], who[h]))'
    BY <1>1, <1>2, <1>4 DEF Stored, Maker, locals, Keeps, SameLocals
  <1>8. \A s \in sent' : (Stored(s[1], s[2]) /\ Maker(s[2], s[1]))'
    BY <1>1, <1>4, <1>7, FrameHanded DEF locals, Stored, Maker
  <1> QED
    BY <1>1, <1>3, <1>4, <1>5, <1>6, <1>8, FrameHanded DEF IInv

\* The uuid that is saved and printed was made for its guest.
LEMMA SaveQrCodeIInv ==
    ASSUME IInv, NEW h \in Handlers, SaveQrCode(h)
    PROVE  IInv'
  <1> DEFINE g == who[h]
  <1>1. /\ UNCHANGED <<ticket, checkedIn, visible, logs, sent, locals>>
        /\ pc[h] = "save" /\ pc' = [pc EXCEPT ![h] = "done"]
        /\ qrCode' = [qrCode EXCEPT ![g] = code[h]]
        /\ printed' = printed \cup {<<g, code[h]>>}
    BY DEF SaveQrCode, Goto
  <1>2. HandlerInv(h) /\ g \in Guests /\ Maker(code[h], g) /\ code[h] \in Handlers
    BY <1>1 DEF IInv, HandlerInv, ControlInv, CodeInv, Maker
  <1>3. TypeOK'
    BY <1>1, <1>2 DEF IInv, TypeOK, locals, Final
  <1>4. Keeps(h)
    BY <1>1 DEF IInv, TypeOK, Keeps, SameLocals, Stored, locals
  <1>5. \A k \in Handlers : HandlerInv(k)'
    <2>1. HandlerInv(h)'
      BY <1>1, <1>2
         DEF IInv, TypeOK, HandlerInv, ControlInv, CodeInv, LateInv, locals, Stored, Maker
    <2> QED
      BY <1>4, <2>1, FrameHandler
  <1>6. \A c, f : Maker(c, f) => Maker(c, f)'
    BY <1>4, MakersStay
  <1>7. \A f \in Guests : GuestInv(f)'
    BY <1>1, <1>2, <1>6 DEF IInv, TypeOK, GuestInv
  <1>8. \A s \in printed' : Maker(s[2], s[1])'
    BY <1>1, <1>2, <1>6 DEF IInv
  <1> QED
    BY <1>1, <1>3, <1>4, <1>5, <1>7, <1>8, FrameHanded DEF IInv

-----------------------------------------------------------------------------
(* Scanning.                                                                *)

\* The handler that made the code of a scan is another handler.
LEMMA ScanOfAnother ==
    ASSUME IInv, NEW h \in Handlers, scan[h] # None
    PROVE  /\ HandlerInv(h)
           /\ scan[h] \in Code /\ scan[h][2] \in Handlers \ {h}
           /\ scan[scan[h][2]] = None
  BY DEF IInv, TypeOK, HandlerInv, CodeInv, Maker, Code

\* The guest whose ticket has the token that was presented is the one it was made for.
LEMMA LookupTokenIInv ==
    ASSUME IInv, NEW h \in Handlers, LookupToken(h)
    PROVE  IInv'
  <1>1. /\ UNCHANGED <<tables, scan, code, late>>
        /\ pc[h] = "lookup" /\ pc' = [pc EXCEPT ![h] = "guest"]
        /\ \/ UNCHANGED <<found, who>>
           \/ \E g \in Guests : /\ ticket[g] # None /\ ticket[g].token = scan[h][2]
                                /\ found' = [found EXCEPT ![h] = ticket[g]]
                                /\ who' = [who EXCEPT ![h] = g]
    BY DEF LookupToken, Goto
  <1>2. HandlerInv(h) /\ scan[h] # None /\ scan[h][2] \in Handlers \ {h}
    BY <1>1, ScanOfAnother DEF IInv, HandlerInv, ControlInv
  <1>3. TypeOK'
    BY <1>1 DEF IInv, TypeOK, tables, Step
  <1>4. Keeps(h)
    BY <1>1, <1>2 DEF IInv, TypeOK, Keeps, SameLocals, Stored, tables
  <1>5. HandlerInv(h)'
    <2>1. pc'[h] = "guest" /\ scan'[h] = scan[h] /\ who'[scan[h][2]] = who[scan[h][2]]
      BY <1>1, <1>2 DEF IInv, TypeOK
    <2>2. ControlInv(h)'
      BY <2>1, <1>2 DEF ControlInv
    <2>3. LateInv(h)'
      BY <1>1, <1>2, <2>1 DEF HandlerInv, LateInv, tables
    <2>4. (scan[h] # None => \E g \in Guests : Maker(scan[h][2], g))'
      BY <1>1, <1>2, <2>1 DEF IInv, TypeOK, HandlerInv, CodeInv, Maker
    <2>5. CASE UNCHANGED <<found, who>>
      <3>1. (found[h] # None => /\ scan[h] # None /\ who[h] \in Guests
                                /\ Maker(scan[h][2], who[h]) /\ Stored(who[h], scan[h][2]))'
        BY <1>1, <1>2, <2>1, <2>5 DEF IInv, TypeOK, HandlerInv, CodeInv, Maker, Stored, tables
      <3> QED
        BY <2>1, <2>2, <2>3, <2>4, <3>1 DEF HandlerInv, CodeInv
    <2>6. CASE \E g \in Guests : /\ ticket[g] # None /\ ticket[g].token = scan[h][2]
                                 /\ found' = [found EXCEPT ![h] = ticket[g]]
                                 /\ who' = [who EXCEPT ![h] = g]
      <3>1. PICK g \in Guests : /\ ticket[g] # None /\ ticket[g].token = scan[h][2]
                                /\ found' = [found EXCEPT ![h] = ticket[g]]
                                /\ who' = [who EXCEPT ![h] = g]
        BY <2>6
      <3>2. Maker(scan[h][2], g)
        BY <3>1 DEF IInv, GuestInv
      <3>3. who'[h] = g
        BY <3>1 DEF IInv, TypeOK
      <3>4. (Maker(scan[h][2], who[h]) /\ Stored(who[h], scan[h][2]))'
        BY <1>1, <1>2, <2>1, <3>1, <3>2, <3>3 DEF IInv, TypeOK, Maker, Stored, tables
      <3> QED
        BY <1>2, <2>1, <2>2, <2>3, <2>4, <3>3, <3>4 DEF HandlerInv, CodeInv
    <2> QED
      BY <1>1, <2>2, <2>3, <2>5, <2>6 DEF HandlerInv
  <1> QED
    BY <1>1, <1>3, <1>4, <1>5, StepIInv DEF tables

\* A guest who is let in was not in when the scan arrived: the code was made for
\* this guest, by ticket and by uuid alike.
LEMMA AdmitGuestIInv ==
    ASSUME IInv, NEW h \in Handlers, AdmitGuest(h)
    PROVE  IInv'
  <1>1. /\ UNCHANGED <<tables, scan, code, found, late>>
        /\ pc[h] = "guest" /\ pc' = [pc EXCEPT ![h] = "log"]
    BY DEF AdmitGuest, Goto
  <1>2. PICK g \in Presented(h) : Admissible(h, g) /\ who' = [who EXCEPT ![h] = g]
    BY DEF AdmitGuest
  <1>3. /\ g \in Guests /\ g \notin checkedIn
        /\ found[h] # None => g = who[h]
        /\ found[h] = None => qrCode[g] = scan[h][2]
    BY <1>2 DEF IInv, TypeOK, Presented, Admissible
  <1>4. HandlerInv(h) /\ scan[h] # None /\ scan[h][2] \in Handlers \ {h}
    BY <1>1, ScanOfAnother DEF IInv, HandlerInv, ControlInv
  <1>5. Maker(scan[h][2], g)
    <2>1. scan[h][2] # None
      BY <1>4, TicketsAssumption
    <2> QED
      BY <1>3, <1>4, <2>1 DEF IInv, GuestInv, HandlerInv, CodeInv
  <1>6. h \notin late
    BY <1>3, <1>4, <1>5 DEF HandlerInv, LateInv, Maker
  <1>7. TypeOK'
    BY <1>1, <1>2, <1>3 DEF IInv, TypeOK, tables, Step
  <1>8. Keeps(h)
    BY <1>1, <1>2, <1>4 DEF IInv, TypeOK, Keeps, SameLocals, Stored, tables
  <1>9. HandlerInv(h)'
    <2>1. pc'[h] = "log" /\ who'[h] = g /\ scan'[h] = scan[h]
      BY <1>1, <1>2 DEF IInv, TypeOK
    <2>2. ControlInv(h)' /\ LateInv(h)'
      BY <1>1, <1>3, <1>4, <1>6, <2>1 DEF ControlInv, LateInv
    <2>3. CodeInv(h)'
      BY <1>1, <1>2, <1>3, <1>4, <1>5, <2>1
         DEF IInv, TypeOK, HandlerInv, CodeInv, tables, Maker, Stored
    <2> QED
      BY <2>2, <2>3 DEF HandlerInv
  <1> QED
    BY <1>1, <1>7, <1>8, <1>9, StepIInv DEF tables

\* Logging and marking: the scan did not come late, and guests only come in.
LEMMA AdmissionIInv ==
    ASSUME IInv, NEW h \in Handlers, InsertLog(h) \/ MarkCheckedIn(h)
    PROVE  IInv'
  <1>1. /\ UNCHANGED <<ticket, qrCode, visible, sent, printed, locals>>
        /\ pc' = [pc EXCEPT ![h] = pc'[h]]
        /\ \/ /\ pc[h] = "log" /\ pc'[h] = "mark"
              /\ logs' = logs \cup {h} /\ UNCHANGED checkedIn
           \/ /\ pc[h] = "mark" /\ pc'[h] \in {"use", "done"}
              /\ pc'[h] = "use" => found[h] # None
              /\ checkedIn' = checkedIn \cup {who[h]} /\ UNCHANGED logs
    BY DEF IInv, TypeOK, InsertLog, MarkCheckedIn, AfterLog, Goto
  <1>2. HandlerInv(h) /\ scan[h] # None /\ who[h] \in Guests /\ h \notin late
    BY <1>1 DEF IInv, HandlerInv, ControlInv, LateInv
  <1>3. TypeOK'
    BY <1>1, <1>2 DEF IInv, TypeOK, locals, Step, Final
  <1>4. Keeps(h)
    BY <1>1 DEF IInv, TypeOK, Keeps, SameLocals, Stored, locals
  <1>5. HandlerInv(h)'
    BY <1>1, <1>2 DEF IInv, TypeOK, HandlerInv, ControlInv, CodeInv, LateInv, locals, Maker, Stored
  <1> QED
    BY <1>1, <1>3, <1>4, <1>5, StepIInv

-----------------------------------------------------------------------------
\* Every step preserves the invariant.
LEMMA NextIInv == IInv /\ [Next]_vars => IInv'
  <1> SUFFICES ASSUME IInv, [Next]_vars PROVE IInv'
    OBVIOUS
  <1>1. CASE UNCHANGED vars
    BY <1>1 DEF IInv, TypeOK, HandlerInv, ControlInv, CodeInv, LateInv, GuestInv, Maker, Stored,
       vars, tables, locals
  <1>2. ASSUME NEW h \in Handlers, RequestTicket(h) \/ RequestQrCode(h) \/ PresentCode(h)
        PROVE  IInv'
    BY <1>2, ArriveIInv
  <1>3. ASSUME NEW h \in Handlers, Abort(h)
        PROVE  IInv'
    BY <1>3, EndsIInv
  <1>4. ASSUME NEW h \in Handlers, Run(h)
        PROVE  IInv'
    BY <1>4, EndsIInv, ReadTicketIInv, ReadQrCodeIInv, CreateTicketIInv, TicketStatusIInv,
       SendTicketCardIInv, SaveQrCodeIInv, LookupTokenIInv, AdmitGuestIInv, AdmissionIInv DEF Run
  <1>5. ASSUME NEW g \in Guests, DeleteGuest(g)
        PROVE  IInv'
    BY <1>5 DEF DeleteGuest, IInv, TypeOK, HandlerInv, ControlInv, CodeInv, LateInv, GuestInv,
       Maker, Stored, locals
  <1> QED
    BY <1>1, <1>2, <1>3, <1>4, <1>5 DEF Next

\* The invariant holds throughout every behaviour.
THEOREM Invariance == Spec => []IInv
  BY InitIInv, NextIInv, PTL DEF Spec

\* Rows, codes and handlers are always of their types.
THEOREM TypeCorrect == Spec => []TypeOK
  BY Invariance, PTL DEF IInv

\* checkIn never logs a scan that arrived after its guest was checked in: not with
\* the ticket issued again, nor with the guest's other code.
THEOREM LateScansAreTurnedAway == Spec => []LateScansNeverAdmit
  <1>1. IInv => LateScansNeverAdmit
    BY DEF IInv, TypeOK, HandlerInv, LateInv, LateScansNeverAdmit
  <1> QED
    BY <1>1, Invariance, PTL

\* issueTicket only sends tokens that are, and stay, in the guest's ticket row.
THEOREM SentTokensStayStored == Spec => []SentTokensAreStored
  <1>1. IInv => SentTokensAreStored
    BY DEF IInv, SentTokensAreStored, Stored
  <1> QED
    BY <1>1, Invariance, PTL

-----------------------------------------------------------------------------
(* The door: what it takes to enter one guest twice.                        *)

\* A step that could not have let a guest in twice: nobody is admitted while another
\* scan of the same guest stands between its admission and its mark, and no scan dies
\* with its log written and its guest unmarked.
Attended ==
    \A h \in Handlers :
        /\ AdmitGuest(h) => \A k \in Handlers : pc[k] \in {"log", "mark"} => who[k] # who'[h]
        /\ Abort(h) => pc[h] # "mark"

Entering(h) == h \in logs \/ pc[h] = "log"

\* The inductive invariant of an attended door: whoever was logged is marked, or about
\* to be, and no two scans enter one guest.
DoorInv ==
    /\ IInv
    /\ \A h \in logs : /\ pc[h] \in {"mark", "use"} \cup Final
                       /\ pc[h] = "mark" \/ who[h] \in checkedIn
    /\ \A h, k \in Handlers : Entering(h) /\ Entering(k) /\ who[h] = who[k] => h = k

\* Each guest has one attendance log at most.
OneEntry == \A h, k \in logs : who[h] = who[k] => h = k

\* Nobody has entered at the start.
LEMMA InitDoorInv == Init => DoorInv
  BY InitIInv DEF Init, DoorInv, Entering

\* A step that logs nobody, admits nobody, and leaves whoever was logged alone.
LEMMA FrameDoorInv ==
    ASSUME DoorInv, IInv', logs' = logs, checkedIn \subseteq checkedIn',
           \A k \in Handlers : Entering(k) =>
              /\ who'[k] = who[k]
              /\ \/ pc'[k] = pc[k]
                 \/ pc[k] # "mark" /\ pc'[k] \in Final
                 \/ pc[k] = "mark" /\ pc'[k] \in {"use", "done"} /\ who[k] \in checkedIn',
           \A k \in Handlers : pc'[k] = "log" => pc[k] = "log"
    PROVE  DoorInv'
  <1>1. logs \subseteq Handlers
    BY DEF DoorInv, IInv, TypeOK
  <1>2. ASSUME NEW k \in logs
        PROVE  /\ pc'[k] \in {"mark", "use"} \cup Final
               /\ pc'[k] = "mark" \/ who'[k] \in checkedIn'
    BY <1>1 DEF DoorInv, Entering, Final
  <1>3. ASSUME NEW h \in Handlers, NEW k \in Handlers, h \in logs \/ pc'[h] = "log",
               k \in logs \/ pc'[k] = "log", who'[h] = who'[k]
        PROVE  h = k
    BY <1>3 DEF DoorInv, Entering
  <1> QED
    BY <1>2, <1>3 DEF DoorInv, Entering

\* A guest is admitted when nobody has entered that guest, and nobody is about to.
LEMMA AdmitDoorInv ==
    ASSUME DoorInv, IInv', NEW h \in Handlers, AdmitGuest(h),
           \A k \in Handlers : pc[k] \in {"log", "mark"} => who[k] # who'[h]
    PROVE  DoorInv'
  <1>1. IInv /\ pc[h] = "guest" /\ logs \subseteq Handlers
    BY DEF DoorInv, IInv, TypeOK, AdmitGuest, Goto
  <1>2. /\ UNCHANGED <<logs, checkedIn>> /\ who'[h] \notin checkedIn
        /\ \A k \in Handlers \ {h} : pc'[k] = pc[k] /\ who'[k] = who[k]
        /\ pc'[h] = "log"
    BY <1>1 DEF AdmitGuest, Admissible, Presented, Goto, tables, IInv, TypeOK
  <1>3. h \notin logs
    BY <1>1 DEF DoorInv, Final
  <1>4. ASSUME NEW k \in Handlers, k # h, Entering(k) PROVE who'[k] # who'[h]
    BY <1>2, <1>4 DEF DoorInv, Entering
  <1>5. ASSUME NEW j \in Handlers, NEW k \in Handlers, j \in logs \/ pc'[j] = "log",
               k \in logs \/ pc'[k] = "log", who'[j] = who'[k]
        PROVE  j = k
    BY <1>2, <1>4, <1>5 DEF DoorInv, Entering
  <1> QED
    BY <1>1, <1>2, <1>3, <1>5 DEF DoorInv, Entering

\* Every attended step preserves the invariant.
LEMMA NextDoorInv == DoorInv /\ [Next]_vars /\ [Attended]_vars => DoorInv'
  <1> SUFFICES ASSUME DoorInv, [Next]_vars, [Attended]_vars PROVE DoorInv'
    OBVIOUS
  <1>1. IInv /\ IInv' /\ logs \subseteq Handlers
    BY NextIInv DEF DoorInv, IInv, TypeOK
  <1>2. CASE UNCHANGED vars
    BY <1>1, <1>2, FrameDoorInv DEF vars, tables, locals
  <1>3. ASSUME NEW h \in Handlers, RequestTicket(h) \/ RequestQrCode(h) \/ PresentCode(h)
        PROVE  DoorInv'
    <2>1. /\ UNCHANGED <<logs, checkedIn>> /\ pc[h] = "idle" /\ h \notin logs
          /\ pc'[h] \in {"issue", "gen", "lookup", "invalid"}
          /\ \A k \in Handlers \ {h} : pc'[k] = pc[k] /\ who'[k] = who[k]
      BY <1>1, <1>3 DEF RequestTicket, RequestQrCode, PresentCode, Start, Goto, tables, IInv, TypeOK,
         HandlerInv, ControlInv
    <2> QED
      BY <1>1, <2>1, FrameDoorInv DEF Entering
  <1>4. ASSUME NEW h \in Handlers, Abort(h) PROVE DoorInv'
    <2>1. /\ UNCHANGED <<logs, checkedIn, who>> /\ pc'[h] = "crashed"
          /\ \A k \in Handlers \ {h} : pc'[k] = pc[k]
          /\ pc[h] \in Step /\ pc'[h] # pc[h]
      BY <1>1, <1>4 DEF Abort, tables, locals, IInv, TypeOK, Step
    <2>2. pc[h] # "mark"
      BY <1>4, <2>1 DEF Attended, vars
    <2> QED
      BY <1>1, <2>1, <2>2, FrameDoorInv DEF Final
  <1>5. ASSUME NEW h \in Handlers, AdmitGuest(h) PROVE DoorInv'
    <2>1. pc'[h] # pc[h]
      BY <1>1, <1>5 DEF AdmitGuest, Goto, IInv, TypeOK
    <2> QED
      BY <1>1, <1>5, <2>1, AdmitDoorInv DEF Attended, vars
  <1>6. ASSUME NEW h \in Handlers, InsertLog(h) PROVE DoorInv'
    <2>1. /\ pc[h] = "log" /\ pc'[h] = "mark" /\ UNCHANGED <<checkedIn, who>>
          /\ logs' = logs \cup {h} /\ \A k \in Handlers \ {h} : pc'[k] = pc[k]
      BY <1>1, <1>6 DEF InsertLog, AfterLog, Goto, locals, IInv, TypeOK
    <2>2. ASSUME NEW k \in Handlers PROVE Entering(k)' <=> Entering(k)
      BY <2>1 DEF Entering
    <2>3. ASSUME NEW j \in Handlers, NEW k \in Handlers, Entering(j)', Entering(k)',
                 who[j] = who[k]
          PROVE  j = k
      BY <2>2, <2>3 DEF DoorInv
    <2> QED
      BY <1>1, <2>1, <2>3 DEF DoorInv
  <1>7. ASSUME NEW h \in Handlers, MarkCheckedIn(h) PROVE DoorInv'
    <2>1. /\ pc[h] = "mark" /\ pc'[h] \in {"use", "done"} /\ UNCHANGED <<logs, who>>
          /\ checkedIn' = checkedIn \cup {who[h]} /\ \A k \in Handlers \ {h} : pc'[k] = pc[k]
      BY <1>1, <1>7 DEF MarkCheckedIn, Goto, locals, IInv, TypeOK
    <2> QED
      BY <1>1, <2>1, FrameDoorInv
  <1>8. ASSUME NEW h \in Handlers, ReadTicket(h) \/ CreateTicket(h) \/ TicketConflict(h)
               \/ ReissueTicket(h) \/ SendTicketCard(h) \/ ReadQrCode(h) \/ SaveQrCode(h)
               \/ LookupToken(h) \/ TurnAway(h) \/ UseTicket(h) \/ GuestGone(h)
        PROVE  DoorInv'
    <2>1. /\ UNCHANGED <<logs, checkedIn>> /\ pc'[h] \in Step \cup Final /\ pc'[h] # "log"
          /\ \A k \in Handlers \ {h} : pc'[k] = pc[k] /\ who'[k] = who[k]
          /\ \/ pc[h] \in Step \ {"log", "mark", "use"}
             \/ pc[h] = "use" /\ pc'[h] = "done" /\ who'[h] = who[h]
      BY <1>1, <1>8 DEF ReadTicket, CreateTicket, TicketConflict, ReissueTicket, SendTicketCard,
         ReadQrCode, SaveQrCode, LookupToken, TurnAway, UseTicket, GuestGone, Goto, tables, locals,
         IInv, TypeOK, Step, Final
    <2>2. Entering(h) => pc[h] = "use"
      BY <1>1, <2>1 DEF Entering, DoorInv, Step, Final
    <2> QED
      BY <1>1, <2>1, <2>2, FrameDoorInv DEF Final
  <1>9. ASSUME NEW g \in Guests, DeleteGuest(g) PROVE DoorInv'
    BY <1>1, <1>9, FrameDoorInv DEF DeleteGuest, locals
  <1> QED
    BY <1>2, <1>3, <1>4, <1>5, <1>6, <1>7, <1>8, <1>9 DEF Next, Run

\* A guest is entered in the attendance log once, with the ticket, the qrCode, or both,
\* issued again or not, unless two scans of the guest overlap between admission and mark
\* or a scan dies there: those are the only ways in which a door lets somebody in twice.
THEOREM OneEntryPerGuest == Spec /\ [][Attended]_vars => []OneEntry
  <1>1. DoorInv => OneEntry
    BY DEF DoorInv, OneEntry, Entering, IInv, TypeOK
  <1> QED
    BY <1>1, InitDoorInv, NextDoorInv, PTL DEF Spec
=============================================================================
