----------------------------- MODULE ExternalApi -----------------------------
(***************************************************************************)
(* The API for third parties: API keys as their owners manage them, the    *)
(* limiters and the key check every call passes, and what the calls do at  *)
(* the gateways: WhatsApp messages and contacts at GhalaRails, texts at    *)
(* Briq, and the records of the campaigns' messages, which calls read.     *)
(*                                                                         *)
(* A request is a handler that takes one step per awaited call; one that   *)
(* dies takes no step more.  A key, a contact and a message are named by   *)
(* the request that made them.                                             *)
(***************************************************************************)
EXTENDS Integers, FiniteSets

CONSTANTS
    Handlers,     \* the requests of a behaviour
    Issued,       \* the keys at the start
    Users,        \* those who may own keys
    Phones,
    Addresses,    \* where requests come from
    Tracked,      \* externalIds of the messages of campaigns
    None,
    Traffic,      \* sets of kinds of request; those of a behaviour are of one set
    Grants,       \* permissions that keys are given
    Changes,      \* what a PATCH asks for; None stands for a field it leaves out
    GlobalLimit,  \* requests of an address in a window
    KeyLimit,     \* calls with a key in a window
    MaxInFlight,  \* bound: handlers running at the same time
    Faults        \* whether gateways refuse and their answers get lost

Permission == {"send_message", "get_contacts", "get_logs", "get_status"}

\* What each call needs; the list of templates needs a key only.
Needs == [template |-> {"send_message"}, text |-> {"send_message"}, sms |-> {"send_message"},
          contact |-> {"get_contacts"}, known |-> {"get_contacts"},
          logs |-> {"get_logs"}, status |-> {"get_status"}, templates |-> {}]

Call == DOMAIN Needs
Sends == {"template", "text", "sms"}
Op == Call \cup {"create", "list", "patch", "revoke"}

ASSUME ExternalAssumption ==
    /\ Traffic \subseteq SUBSET Op /\ Grants \subseteq SUBSET Permission
    /\ GlobalLimit \in Nat \ {0} /\ KeyLimit \in Nat \ {0} /\ MaxInFlight \in Nat \ {0}
    /\ Handlers \cap (Issued \cup Tracked) = {}
    /\ None \notin Handlers \cup Issued \cup Tracked \cup BOOLEAN
    /\ Faults \in BOOLEAN

Key == Issued \cup Handlers

Row == [owner : Users, active : BOOLEAN, permissions : SUBSET Permission,
        expiry : {"never", "later", "past"}, deleted : BOOLEAN]
Contact == [phone : Phones, by : Handlers]
Message == [to : Phones, by : Handlers]

\* Users own keys, and the body of a PATCH passes its schema.
ASSUME RowsAssumption ==
    /\ Users # {}
    /\ Changes \subseteq [active : BOOLEAN \cup {None}, permissions : {None} \cup SUBSET Permission]
    /\ None \notin Row \cup Op

VARIABLES
    keys,      \* api_keys, or None
    hits,      \* requests of each address in its window
    keyHits,   \* calls with each key in its window
    contacts,  \* the contacts at GhalaRails
    outbox,    \* messages that a gateway has taken
    pc,        \* next step of each handler
    op,        \* its operation
    arg,       \* what it came with
    got,       \* what it read or was told
    pre,       \* the handlers that had finished when it started
    kinds      \* the kinds of request of this behaviour

tables == <<keys, contacts, outbox>>
counters == <<hits, keyHits>>
locals == <<op, arg, pre, kinds>>
vars == <<tables, counters, pc, locals, got>>

Final == {"done", "failed", "limited"}

NewKey(u, ps, e) == [owner |-> u, active |-> TRUE, permissions |-> ps,
                     expiry |-> e, deleted |-> FALSE]

Init ==
    /\ LET u == CHOOSE x \in Users : TRUE IN
       keys = [k \in Key |-> IF k \in Issued THEN NewKey(u, Permission, "later") ELSE None]
    /\ hits = [a \in Addresses |-> 0] /\ keyHits = [k \in Key |-> 0]
    /\ contacts = {} /\ outbox = {}
    /\ pc = [h \in Handlers |-> "idle"]
    /\ op = [h \in Handlers |-> None]
    /\ arg = [h \in Handlers |-> None]
    /\ got = [h \in Handlers |-> {}]
    /\ pre = [h \in Handlers |-> {}]
    /\ kinds \in Traffic

Goto(h, from, to) == pc[h] = from /\ pc' = [pc EXCEPT ![h] = to]

\* Requests are interchangeable: a new one takes a name no request has had.
Fresh == CHOOSE h \in Handlers : pc[h] = "idle"

Ended == {h \in Handlers : pc[h] \in Final}

-----------------------------------------------------------------------------
(* Limiters.  A counter stops at its limit: what comes after is refused.    *)

Within(n, limit) == n < limit

Counted(n, limit) == IF Within(n, limit) THEN n + 1 ELSE n

\* Every request passes the limiter of its address first, a call then passes
\* the one of the key it names.
Enter(h, kind, x, a, first) ==
    LET known == Within(hits[a], GlobalLimit)
        calls == known /\ kind \in Call IN
    /\ kind \in kinds
    /\ Goto(h, "idle", IF ~known \/ (calls /\ ~Within(keyHits[x.key], KeyLimit))
                       THEN "limited" ELSE first)
    /\ h = Fresh
    /\ Cardinality({k \in Handlers : pc[k] \notin {"idle"} \cup Final}) < MaxInFlight
    /\ hits' = [hits EXCEPT ![a] = Counted(@, GlobalLimit)]
    /\ keyHits' = IF calls THEN [keyHits EXCEPT ![x.key] = Counted(@, KeyLimit)] ELSE keyHits
    /\ op' = [op EXCEPT ![h] = kind]
    /\ arg' = [arg EXCEPT ![h] = x]
    /\ pre' = [pre EXCEPT ![h] = Ended]
    /\ UNCHANGED <<tables, got, kinds>>

AddressWindowEnds ==
    \E a \in Addresses :
        /\ hits[a] > 0 /\ hits' = [hits EXCEPT ![a] = 0]
        /\ UNCHANGED <<tables, keyHits, pc, locals, got>>

KeyWindowEnds ==
    \E k \in Key :
        /\ keyHits[k] > 0 /\ keyHits' = [keyHits EXCEPT ![k] = 0]
        /\ UNCHANGED <<tables, hits, pc, locals, got>>

-----------------------------------------------------------------------------
(* Owners and their keys.                                                   *)

RequestCreate(h) ==
    \E u \in Users, ps \in Grants, e \in {"never", "later"}, a \in Addresses :
        Enter(h, "create", [user |-> u, permissions |-> ps, expiry |-> e], a, "insert")

RequestList(h) == \E u \in Users, a \in Addresses : Enter(h, "list", [user |-> u], a, "list")

RequestPatch(h) ==
    \E k \in Key, u \in Users, c \in Changes, a \in Addresses :
        /\ keys[k] # None
        /\ Enter(h, "patch", [key |-> k, user |-> u, change |-> c], a, "find")

RequestRevoke(h) ==
    \E k \in Key, u \in Users, a \in Addresses :
        /\ keys[k] # None
        /\ Enter(h, "revoke", [key |-> k, user |-> u], a, "find")

InsertKey(h) ==
    /\ Goto(h, "insert", "done")
    /\ keys' = [keys EXCEPT ![h] = NewKey(arg[h].user, arg[h].permissions, arg[h].expiry)]
    /\ UNCHANGED <<contacts, outbox, counters, locals, got>>

ListKeys(h) ==
    /\ Goto(h, "list", "done")
    /\ got' = [got EXCEPT ![h] = {k \in Key : /\ keys[k] # None /\ ~keys[k].deleted
                                              /\ keys[k].owner = arg[h].user}]
    /\ UNCHANGED <<tables, counters, locals>>

FindKey(h) ==
    LET row == keys[arg[h].key] IN
    /\ Goto(h, "find", IF ~row.deleted /\ row.owner = arg[h].user THEN "write" ELSE "failed")
    /\ UNCHANGED <<tables, counters, locals, got>>

\* A body whose missing fields are saved, too.
MutPatched(row, c) == [row EXCEPT !.active = c.active, !.permissions = c.permissions]

\* The body that is saved as it came: what it leaves out stays.
Patched(row, c) ==
    [row EXCEPT !.active = IF c.active = None THEN @ ELSE c.active,
                !.permissions = IF c.permissions = None THEN @ ELSE c.permissions]

Revoked(row) == [row EXCEPT !.deleted = TRUE, !.active = FALSE]

\* By id only: the key may have been revoked since it was found.
WriteKey(h) ==
    /\ Goto(h, "write", "done")
    /\ keys' = [keys EXCEPT ![arg[h].key] =
            IF op[h] = "patch" THEN Patched(@, arg[h].change) ELSE Revoked(@)]
    /\ UNCHANGED <<contacts, outbox, counters, locals, got>>

-----------------------------------------------------------------------------
(* Calls.                                                                   *)

ForPhone(h, kind) ==
    \E k \in Key, p \in Phones, a \in Addresses :
        keys[k] # None /\ Enter(h, kind, [key |-> k, to |-> p], a, "auth")

SendTemplate(h) == ForPhone(h, "template")
SendText(h) == ForPhone(h, "text")
SendSms(h) == ForPhone(h, "sms")
AddContact(h) == ForPhone(h, "contact")
LookForContact(h) == ForPhone(h, "known")

ForRecords(h, kind, ids) ==
    \E k \in Key, a \in Addresses, m \in ids :
        keys[k] # None /\ Enter(h, kind, [key |-> k, id |-> m], a, "auth")

GetLogs(h) == ForRecords(h, "logs", {None})
GetTemplates(h) == ForRecords(h, "templates", {None})

\* By the id of a campaign's message or by the one that an earlier call was given.
GetStatus(h) == ForRecords(h, "status", Tracked \cup {x.by : x \in outbox})

\* A revoked key is told by isActive alone.
MutUsable(row) == row.active /\ row.expiry # "past"

Usable(row) == row.active /\ ~row.deleted /\ row.expiry # "past"

FirstStep ==
    [template |-> "search", text |-> "search", contact |-> "search", sms |-> "deliver",
     known |-> "read", logs |-> "read", status |-> "read", templates |-> "read"]

\* authenticateApiKey and requirePermission; the key's lastUsedAt is left out.
Authenticate(h) ==
    LET row == keys[arg[h].key] IN
    /\ Goto(h, "auth", IF Usable(row) /\ Needs[op[h]] \subseteq row.permissions
                       THEN FirstStep[op[h]] ELSE "failed")
    /\ UNCHANGED <<tables, counters, locals, got>>

\* The records of messages: those of campaigns, and none for the calls' own.
ReadRecords(h) ==
    /\ Goto(h, "read", "done")
    /\ got' = [got EXCEPT ![h] =
            CASE op[h] = "logs" -> Tracked
              [] op[h] = "status" -> {arg[h].id} \cap Tracked
              [] OTHER -> {}]
    /\ UNCHANGED <<tables, counters, locals>>

-----------------------------------------------------------------------------
(* The gateways.  A request may be carried out and its answer be lost.      *)

Answered(h, x) == got' = [got EXCEPT ![h] = @ \cup {x}]

HasContact(p) == \E c \in contacts : c.phone = p

\* Where the search leads when the contact is there.
AfterContact(h) == IF op[h] = "contact" THEN "done" ELSE "deliver"

\* A send that cannot go on is answered with status failed, the others with an error.
GiveUp(h) == IF op[h] \in {"template", "text"} THEN "done" ELSE "failed"

\* A search that finds the number again and again makes one contact more.
MutSearched(h, refused) == "contact"

\* A search that the gateway refuses counts as one that finds nothing.
Searched(h, refused) == IF HasContact(arg[h].to) /\ ~refused THEN AfterContact(h) ELSE "contact"

SearchContact(h) ==
    /\ \E refused \in {FALSE, Faults} :
        /\ Goto(h, "search", Searched(h, refused))
        /\ got' = IF refused THEN [got EXCEPT ![h] = {"blind"}] ELSE got
    /\ UNCHANGED <<tables, counters, locals>>

\* The number may have got a contact since it was searched.
CreateContact(h) ==
    /\ Goto(h, "contact", AfterContact(h))
    /\ contacts' = contacts \cup {[phone |-> arg[h].to, by |-> h]}
    /\ UNCHANGED <<keys, outbox, counters, locals, got>>

Deliver(h) ==
    /\ Goto(h, "deliver", "done")
    /\ outbox' = outbox \cup {[to |-> arg[h].to, by |-> h]}
    /\ \E s \in IF op[h] = "sms" THEN {"sent", "queued"} ELSE {"queued"} : Answered(h, s)
    /\ UNCHANGED <<keys, contacts, counters, locals>>

\* A text that Briq answers without an error is never answered as failed,
\* whatever the status Briq gives it.
Misreported(h) ==
    /\ Faults /\ op[h] = "sms"
    /\ Goto(h, "deliver", "done")
    /\ Answered(h, "queued")
    /\ UNCHANGED <<tables, counters, locals>>

\* The status the caller hopes for.
MutStatusOf(failure) == "queued"

\* Refusals and exceptions alike become the status of the result.
StatusOf(failure) == failure

\* The gateway refuses, or its answer does not arrive.
GatewayFails(h) ==
    /\ Faults /\ pc[h] \in {"search", "contact", "deliver"}
    /\ Goto(h, pc[h], GiveUp(h))
    /\ Answered(h, StatusOf("failed"))
    /\ \E carried \in BOOLEAN :
        /\ contacts' = IF carried /\ pc[h] = "contact"
                       THEN contacts \cup {[phone |-> arg[h].to, by |-> h]} ELSE contacts
        /\ outbox' = IF carried /\ pc[h] = "deliver"
                     THEN outbox \cup {[to |-> arg[h].to, by |-> h]} ELSE outbox
    /\ UNCHANGED <<keys, counters, locals>>

\* The date of a key that has one passes.
Expire ==
    \E k \in Key :
        /\ keys[k] # None /\ keys[k].expiry = "later"
        /\ keys' = [keys EXCEPT ![k].expiry = "past"]
        /\ UNCHANGED <<contacts, outbox, counters, pc, locals, got>>

Arrive(h) ==
    \/ RequestCreate(h) \/ RequestList(h) \/ RequestPatch(h) \/ RequestRevoke(h)
    \/ SendTemplate(h) \/ SendText(h) \/ SendSms(h)
    \/ AddContact(h) \/ LookForContact(h)
    \/ GetLogs(h) \/ GetStatus(h) \/ GetTemplates(h)

Run(h) ==
    \/ InsertKey(h) \/ ListKeys(h) \/ FindKey(h) \/ WriteKey(h)
    \/ Authenticate(h) \/ ReadRecords(h)
    \/ SearchContact(h) \/ CreateContact(h) \/ Deliver(h) \/ Misreported(h) \/ GatewayFails(h)

Next ==
    \/ \E h \in Handlers : Arrive(h) \/ Run(h)
    \/ AddressWindowEnds
    \/ KeyWindowEnds
    \/ Expire

Spec == Init /\ [][Next]_vars

-----------------------------------------------------------------------------
(* Properties.                                                              *)

Overlap(h, k) == h \notin pre[k] /\ k \notin pre[h]

\* Types: rows, counters, contacts and messages; a message was sent by a call
\* that sends, to the number it named.
TypeOK ==
    /\ keys \in [Key -> Row \cup {None}]
    /\ hits \in [Addresses -> 0 .. GlobalLimit]
    /\ keyHits \in [Key -> 0 .. KeyLimit]
    /\ contacts \subseteq Contact
    /\ outbox \subseteq Message
    /\ \A m \in outbox : op[m.by] \in Sends /\ arg[m.by].to = m.to
    /\ op \in [Handlers -> Op \cup {None}]
    /\ pre \in [Handlers -> SUBSET Handlers]

\* A call that passed the check of its key.
Admitted(r) == op[r] \in Call /\ pc[r] \in {"search", "contact", "deliver", "read", "done"}

\* What a change of a key takes away from a call.
Forbids(w, r) ==
    \/ op[w] = "revoke"
    \/ op[w] = "patch" /\ \/ arg[w].change.active = FALSE
                          \/ /\ arg[w].change.permissions # None
                             /\ ~(Needs[op[r]] \subseteq arg[w].change.permissions)

\* What an owner takes away from a key is gone when the request is answered: a
\* call that starts later is refused.  A key that was switched off or lost a
\* permission may have got it back from a request that overlapped or came later;
\* a key that was revoked never comes back, whatever request was under way.
ChangesHold ==
    \A r, w \in Handlers :
        /\ Admitted(r) /\ w \in pre[r] /\ pc[w] = "done"
        /\ op[w] \in {"patch", "revoke"} /\ arg[w].key = arg[r].key /\ Forbids(w, r)
        => \E v \in Handlers \ pre[w] : v # w /\ op[v] = "patch" /\ op[w] = "patch"
                                       /\ arg[v].key = arg[w].key

\* The gateway keeps one contact of a number: two were made by requests that
\* overlapped, or after a search that the gateway refused.
OneContactPerPhone ==
    \A c, d \in contacts :
        c # d /\ c.phone = d.phone => \/ Overlap(c.by, d.by)
                                    \/ "blind" \in got[c.by] \cup got[d.by]

\* What a call was told is what happened: a message that is answered as queued
\* or sent was taken by a gateway, unless Briq reports it in a field that is not read.
ToldTheTruth ==
    \A h \in Handlers :
        pc[h] = "done" /\ op[h] \in Sends /\ got[h] \cap {"queued", "sent"} # {} =>
            \/ \E m \in outbox : m.by = h
            \/ op[h] = "sms" /\ "queued" \in got[h]
=============================================================================
