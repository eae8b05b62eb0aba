-------------------------- MODULE ExternalApi_proofs --------------------------
(***************************************************************************)
(* Theorems about ExternalApi, for any set of requests, keys, permissions  *)
(* and changes, with any limits and no bound on the requests in flight.    *)
(* The inductive invariant IInv says what the answer to a change of a key  *)
(* leaves behind in the table, and what a request that searched for a      *)
(* contact knows of the requests that had finished before it started.      *)
(***************************************************************************)
EXTENDS ExternalApi, TLAPS

IsFunction(f, S) == f = [x \in S |-> f[x]]

\* What a request came with; the key it names exists for ever.
RequestInv(h) ==
    /\ op[h] \in Call \cup {"patch", "revoke"} => /\ arg[h].key \in Key
                                                  /\ keys[arg[h].key] # None
    /\ op[h] \in Sends \cup {"contact", "known"} => arg[h].to \in Phones
    /\ op[h] = "create" => /\ arg[h].user \in Users /\ arg[h].permissions \in Grants
                           /\ arg[h].expiry \in {"never", "later"}
    /\ op[h] = "patch" => arg[h].change \in Changes

\* Which operation is at which step.
ControlInv(h) ==
    /\ pc[h] = "idle" => op[h] = None /\ got[h] = {}
    /\ pc[h] # "idle" => op[h] \in Op
    /\ pc[h] = "insert" => op[h] = "create"
    /\ pc[h] = "list" => op[h] = "list"
    /\ pc[h] \in {"find", "write"} => op[h] \in {"patch", "revoke"}
    /\ pc[h] \in {"auth", "search", "contact", "deliver", "read"} => op[h] \in Call
    /\ pc[h] \in {"search", "contact"} => op[h] \in {"template", "text", "contact"}
    /\ pc[h] = "deliver" => op[h] \in Sends
    /\ pc[h] = "read" => op[h] \notin Sends \cup {"contact"}

\* Who had finished when a request started has finished for good.
PreInv(h) == \A k \in pre[h] : pc[k] \in Final

\* A request makes its key in its last step.
KeyInv(h) == keys[h] # None => pc[h] \in Final

\* What a patch asked for is what the row says.
Kept(w) ==
    LET row == keys[arg[w].key]
        c == arg[w].change IN
    /\ c.active = FALSE => ~row.active
    /\ c.permissions # None => row.permissions = c.permissions

\* A patch of the same key that had not finished when w started.
PatchedSince(w) ==
    \E v \in Handlers \ pre[w] : /\ v # w /\ op[v] = "patch" /\ op[w] = "patch"
                                 /\ arg[v].key = arg[w].key

\* What the answer to a change of a key leaves behind.
ChangeInv(w) ==
    /\ pc[w] = "done" /\ op[w] = "revoke" => keys[arg[w].key].deleted
    /\ pc[w] = "done" /\ op[w] = "patch" => Kept(w) \/ PatchedSince(w)

\* A call that was let in although an earlier change forbids it.
AdmittedInv(r) ==
    Admitted(r) => \A w \in pre[r] :
        (/\ pc[w] = "done" /\ op[w] \in {"patch", "revoke"}
         /\ arg[w].key = arg[r].key /\ Forbids(w, r)) => PatchedSince(w)

\* About to create a contact, a request has seen that those before it made none.
ContactInv(h) ==
    pc[h] = "contact" => \/ "blind" \in got[h]
                         \/ \A c \in contacts : c.phone = arg[h].to => c.by \notin pre[h]

ToldInv(h) ==
    op[h] \in Sends /\ got[h] \cap {"queued", "sent"} # {} =>
        \/ \E m \in outbox : m.by = h
        \/ op[h] = "sms" /\ "queued" \in got[h]

HandlerInv(h) ==
    /\ RequestInv(h) /\ ControlInv(h) /\ PreInv(h) /\ KeyInv(h)
    /\ ChangeInv(h) /\ AdmittedInv(h) /\ ContactInv(h) /\ ToldInv(h)

\* The functions whose values have no type of their own.
Indexed == IsFunction(pc, Handlers) /\ IsFunction(arg, Handlers) /\ IsFunction(got, Handlers)

IInv ==
    /\ TypeOK /\ Indexed
    /\ \A h \in Handlers : HandlerInv(h)
    /\ \A c \in contacts : op[c.by] \in {"template", "text", "contact"}
    /\ OneContactPerPhone

-----------------------------------------------------------------------------
\* The invariant holds at the start: the keys that were issued, and no request.
LEMMA InitIInv == Init => IInv
  <1> SUFFICES ASSUME Init PROVE IInv
    OBVIOUS
  <1>1. NewKey(CHOOSE x \in Users : TRUE, Permission, "later") \in Row
    BY RowsAssumption DEF NewKey, Row
  <1>2. TypeOK
    BY <1>1, ExternalAssumption DEF Init, TypeOK
  <1>3. Indexed
    BY DEF Init, Indexed, IsFunction
  <1>4. ASSUME NEW h \in Handlers PROVE HandlerInv(h)
    BY <1>4, RowsAssumption, ExternalAssumption
       DEF Init, HandlerInv, RequestInv, ControlInv, PreInv, KeyInv, ChangeInv, AdmittedInv,
           Admitted, ContactInv, ToldInv, Op, Call, Needs, Sends, Key, Final
  <1> QED
    BY <1>2, <1>3, <1>4 DEF Init, IInv, OneContactPerPhone

\* The calls, one by one.
LEMMA Calls ==
    Call = {"template", "text", "sms", "contact", "known", "logs", "status", "templates"}
  BY DEF Call, Needs

-----------------------------------------------------------------------------
(* Framing.                                                                 *)

Makers == {"template", "text", "contact"}

\* What every step of a running handler h leaves to the others.
Keeps(h) ==
    /\ pc[h] \notin {"idle"} \cup Final /\ pc'[h] # "idle"
    /\ UNCHANGED <<op, arg, pre>>
    /\ \A k \in Handlers \ {h} : pc'[k] = pc[k] /\ got'[k] = got[k]
    /\ op[h] \in Makers /\ "blind" \in got[h] => "blind" \in got'[h]
    /\ \A k \in Key : /\ keys[k] # None => keys'[k] # None
                      /\ keys[k] # None /\ keys[k].deleted => keys'[k].deleted
    /\ \A k \in Handlers \ {h} : /\ keys[k] = None => keys'[k] = None
                                 /\ pc[k] = "done" /\ op[k] = "patch" /\ Kept(k)
                                    => Kept(k)' \/ PatchedSince(k)
    /\ \A c \in contacts' : c \in contacts \/ (pc[h] = "contact" /\ c.by = h /\ c.phone = arg[h].to)
    /\ outbox \subseteq outbox'

\* A handler that does not move keeps its invariant.
LEMMA FrameHandler ==
    ASSUME IInv, NEW h \in Handlers, Keeps(h), NEW k \in Handlers \ {h}
    PROVE  HandlerInv(k)'
  <1>1. HandlerInv(k) /\ PreInv(k) /\ h \notin pre[k]
    BY DEF IInv, HandlerInv, PreInv, Keeps
  <1>2. PatchedSince(k)' <=> PatchedSince(k)
    BY DEF PatchedSince, Keeps
  <1>3. RequestInv(k)'
    BY <1>1 DEF HandlerInv, RequestInv, Keeps
  <1>4. ControlInv(k)'
    BY <1>1 DEF HandlerInv, ControlInv, Keeps
  <1>5. PreInv(k)'
    BY <1>1 DEF IInv, TypeOK, PreInv, Keeps
  <1>6. KeyInv(k)'
    BY <1>1 DEF HandlerInv, KeyInv, Keeps
  <1>7. ChangeInv(k)'
    <2>1. \/ arg[k].key \in Key /\ keys[arg[k].key] # None
          \/ op[k] \notin {"patch", "revoke"}
      BY <1>1 DEF HandlerInv, RequestInv
    <2> QED
      BY <1>1, <1>2, <2>1 DEF HandlerInv, ChangeInv, Keeps
  <1>8. AdmittedInv(k)'
    <2>1. Admitted(k)' <=> Admitted(k)
      BY DEF Admitted, Keeps
    <2>2. \A w \in Handlers : /\ Forbids(w, k)' <=> Forbids(w, k)
                              /\ PatchedSince(w)' <=> PatchedSince(w)
      BY DEF Forbids, PatchedSince, Keeps
    <2>3. \A w \in pre[k] : w \in Handlers /\ w # h
      BY <1>1 DEF IInv, TypeOK
    <2> QED
      BY <1>1, <2>1, <2>2, <2>3 DEF HandlerInv, AdmittedInv, Keeps
  <1>9. ContactInv(k)' /\ ToldInv(k)'
    BY <1>1 DEF HandlerInv, ContactInv, ToldInv, Keeps
  <1> QED
    BY <1>3, <1>4, <1>5, <1>6, <1>7, <1>8, <1>9 DEF HandlerInv

\* One contact per number, whatever step is taken.
LEMMA ContactStep ==
    ASSUME IInv, NEW h \in Handlers, Keeps(h)
    PROVE  /\ \A c \in contacts' : (op[c.by] \in Makers)'
           /\ (contacts' \subseteq Contact) => OneContactPerPhone'
  <1>1. HandlerInv(h)
    BY DEF IInv
  <1>2. \A c \in contacts' : op[c.by] \in Makers
    BY <1>1 DEF IInv, HandlerInv, ControlInv, Keeps, Makers
  <1>3. ASSUME contacts' \subseteq Contact,
               NEW c \in contacts', NEW d \in contacts', c # d, c.phone = d.phone
        PROVE  (Overlap(c.by, d.by) \/ "blind" \in got[c.by] \cup got[d.by])'
    <2>1. /\ UNCHANGED pre
          /\ "blind" \in got[c.by] \cup got[d.by] => "blind" \in got'[c.by] \cup got'[d.by]
      BY <1>2, <1>3 DEF Keeps, Contact
    <2>2. CASE c \in contacts /\ d \in contacts
      BY <1>3, <2>1, <2>2 DEF IInv, OneContactPerPhone, Overlap
    <2>3. ASSUME NEW new \in contacts', NEW old \in contacts', new \notin contacts,
                 new # old, new.phone = old.phone
          PROVE  Overlap(new.by, old.by) \/ "blind" \in got[new.by]
      <3>1. pc[h] = "contact" /\ new.by = h /\ new.phone = arg[h].to
        BY <2>3 DEF Keeps
      <3>2. old \in contacts
        BY <1>3, <2>3, <3>1 DEF Keeps, Contact
      <3>3. h \notin pre[old.by]
        BY <1>3, <3>1, <3>2 DEF IInv, HandlerInv, PreInv, Final, Contact
      <3> QED
        BY <1>1, <2>3, <3>1, <3>2, <3>3 DEF HandlerInv, ContactInv, Overlap
    <2>4. Overlap(c.by, d.by) \/ "blind" \in got[c.by] \cup got[d.by]
      BY <1>3, <2>2, <2>3 DEF Overlap, IInv, OneContactPerPhone
    <2> QED
      BY <2>1, <2>4 DEF Overlap
  <1> QED
    BY <1>2, <1>3 DEF Keeps, OneContactPerPhone

\* Putting the parts of a step of handler h together.
LEMMA StepIInv ==
    ASSUME IInv, NEW h \in Handlers, Keeps(h), TypeOK', Indexed', HandlerInv(h)'
    PROVE  IInv'
  <1>1. \A k \in Handlers : HandlerInv(k)'
    BY FrameHandler
  <1> QED
    BY <1>1, ContactStep DEF IInv, TypeOK, Makers

-----------------------------------------------------------------------------
(* Requests arrive.                                                         *)

\* What a request of a kind comes with, and the step it begins with.
WellFormed(kind, x, first) ==
    /\ kind \in Op
    /\ kind \in Call \cup {"patch", "revoke"} => x.key \in Key /\ keys[x.key] # None
    /\ kind \in Sends \cup {"contact", "known"} => x.to \in Phones
    /\ kind = "create" => /\ x.user \in Users /\ x.permissions \in Grants
                          /\ x.expiry \in {"never", "later"}
    /\ kind = "patch" => x.change \in Changes
    /\ first = CASE kind = "create" -> "insert"
                 [] kind = "list" -> "list"
                 [] kind \in {"patch", "revoke"} -> "find"
                 [] OTHER -> "auth"

\* Every request that arrives is well formed.
LEMMA ArriveWellFormed ==
    ASSUME NEW h \in Handlers, Arrive(h)
    PROVE  \E kind, x, first : \E a \in Addresses :
              Enter(h, kind, x, a, first) /\ WellFormed(kind, x, first)
  <1> USE Calls DEF WellFormed, Op, Sends
  <1>1. CASE RequestCreate(h)
    BY <1>1 DEF RequestCreate
  <1>2. CASE RequestList(h)
    BY <1>2 DEF RequestList
  <1>3. CASE RequestPatch(h)
    BY <1>3 DEF RequestPatch
  <1>4. CASE RequestRevoke(h)
    BY <1>4 DEF RequestRevoke
  <1>5. CASE \E kind \in Sends \cup {"contact", "known"} : ForPhone(h, kind)
    BY <1>5 DEF ForPhone
  <1>6. CASE \E ids : \E kind \in {"logs", "status", "templates"} : ForRecords(h, kind, ids)
    BY <1>6 DEF ForRecords
  <1> QED
    BY <1>1, <1>2, <1>3, <1>4, <1>5, <1>6
       DEF Arrive, SendTemplate, SendText, SendSms, AddContact, LookForContact,
           GetLogs, GetStatus, GetTemplates

\* A request that arrives changes nothing for those that are there.
LEMMA EnterIInv ==
    ASSUME IInv, NEW h \in Handlers, NEW kind, NEW x, NEW a \in Addresses, NEW first,
           Enter(h, kind, x, a, first), WellFormed(kind, x, first)
    PROVE  IInv'
  <1>1. /\ UNCHANGED <<keys, contacts, outbox, got>>
        /\ pc[h] = "idle" /\ pc' = [pc EXCEPT ![h] = pc'[h]] /\ pc'[h] \in {first, "limited"}
        /\ op' = [op EXCEPT ![h] = kind]
        /\ arg' = [arg EXCEPT ![h] = x]
        /\ pre' = [pre EXCEPT ![h] = Ended]
        /\ hits' = [hits EXCEPT ![a] = Counted(@, GlobalLimit)]
        /\ keyHits' = IF Within(hits[a], GlobalLimit) /\ kind \in Call
                      THEN [keyHits EXCEPT ![x.key] = Counted(@, KeyLimit)] ELSE keyHits
    BY DEF Enter, Goto, tables, IInv, Indexed, IsFunction
  <1>2. /\ HandlerInv(h) /\ op[h] = None /\ got[h] = {} /\ kind \in Op
        /\ first \in {"insert", "list", "find", "auth"}
    BY <1>1 DEF IInv, HandlerInv, ControlInv, WellFormed
  <1>3. pc'[h] = first \/ pc'[h] = "limited"
    BY <1>1
  <1>4. op[h] \notin Op
    BY <1>2, RowsAssumption
  <1>5. TypeOK'
    <2>1. hits' \in [Addresses -> 0 .. GlobalLimit] /\ keyHits' \in [Key -> 0 .. KeyLimit]
      <3>1. \A limit \in Nat \ {0} : \A n \in 0 .. limit : Counted(n, limit) \in 0 .. limit
        BY DEF Counted, Within
      <3>2. GlobalLimit \in Nat \ {0} /\ KeyLimit \in Nat \ {0}
        BY ExternalAssumption
      <3> QED
        BY <1>1, <3>1, <3>2 DEF IInv, TypeOK
    <2>2. \A m \in outbox' : op'[m.by] \in Sends /\ arg'[m.by].to = m.to
      <3>1. \A m \in outbox : m.by \in Handlers /\ op[m.by] \in Op /\ m.by # h
        BY <1>4 DEF IInv, TypeOK, Message, Op, Sends, Call, Needs
      <3> QED
        BY <1>1, <3>1 DEF IInv, TypeOK, Indexed, IsFunction
    <2>3. Ended \in SUBSET Handlers
      BY DEF Ended
    <2> QED
      BY <1>1, <1>2, <2>1, <2>2, <2>3 DEF IInv, TypeOK
  <1>6. Indexed'
    BY <1>1 DEF IInv, Indexed, IsFunction
  <1>7. /\ op'[h] = kind /\ arg'[h] = x /\ pre'[h] = Ended
        /\ \A k \in Handlers \ {h} : /\ pc'[k] = pc[k] /\ op'[k] = op[k]
                                     /\ arg'[k] = arg[k] /\ pre'[k] = pre[k]
    BY <1>1 DEF IInv, TypeOK, Indexed, IsFunction
  <1>8. HandlerInv(h)'
    <2>1. RequestInv(h)'
      BY <1>1, <1>7 DEF RequestInv, WellFormed
    <2>2. ControlInv(h)'
      BY <1>1, <1>2, <1>7, Calls DEF WellFormed, ControlInv, Op, Sends
    <2>3. PreInv(h)'
      BY <1>1, <1>7 DEF PreInv, Ended, Final
    <2>4. KeyInv(h)'
      BY <1>1, <1>2, <1>7 DEF HandlerInv, KeyInv, Final
    <2>5. ChangeInv(h)' /\ AdmittedInv(h)' /\ ContactInv(h)'
      BY <1>2, <1>3 DEF ChangeInv, AdmittedInv, Admitted, ContactInv
    <2>6. ToldInv(h)'
      BY <1>1, <1>2 DEF ToldInv
    <2> QED
      BY <2>1, <2>2, <2>3, <2>4, <2>5, <2>6 DEF HandlerInv
  <1>9. ASSUME NEW k \in Handlers \ {h} PROVE HandlerInv(k)'
    <2>1. HandlerInv(k)
      BY DEF IInv
    <2>2. \A w \in Handlers \ {h} : PatchedSince(w) => PatchedSince(w)'
      BY <1>4, <1>7 DEF PatchedSince, Op
    <2>3. h \notin pre[k] /\ pre[k] \subseteq Handlers
      BY <1>1, <2>1 DEF IInv, TypeOK, HandlerInv, PreInv, Final
    <2>4. RequestInv(k)' /\ ControlInv(k)' /\ KeyInv(k)' /\ ContactInv(k)' /\ ToldInv(k)'
      BY <1>1, <1>7, <2>1
         DEF HandlerInv, RequestInv, ControlInv, KeyInv, ContactInv, ToldInv
    <2>5. PreInv(k)'
      BY <1>7, <2>1, <2>3 DEF HandlerInv, PreInv
    <2>6. ChangeInv(k)'
      BY <1>1, <1>7, <2>1, <2>2 DEF HandlerInv, ChangeInv, Kept
    <2>7. AdmittedInv(k)'
      <3>1. \A w \in pre[k] : Forbids(w, k)' <=> Forbids(w, k)
        BY <1>7, <2>3 DEF Forbids
      <3> QED
        BY <1>7, <2>1, <2>2, <2>3, <3>1 DEF HandlerInv, AdmittedInv, Admitted
    <2> QED
      BY <2>4, <2>5, <2>6, <2>7 DEF HandlerInv
  <1>10. \A c \in contacts : c.by \in Handlers \ {h}
    BY <1>4 DEF IInv, TypeOK, Contact, Op, Call, Needs
  <1>11. OneContactPerPhone'
    BY <1>1, <1>7, <1>10 DEF IInv, OneContactPerPhone, Overlap
  <1> QED
    BY <1>1, <1>5, <1>6, <1>7, <1>8, <1>9, <1>10, <1>11 DEF IInv

-----------------------------------------------------------------------------
(* Owners and their keys.                                                   *)

\* The key that is made is new, and nobody has changed it.
LEMMA InsertKeyIInv ==
    ASSUME IInv, NEW h \in Handlers, InsertKey(h)
    PROVE  IInv'
  <1> DEFINE row == NewKey(arg[h].user, arg[h].permissions, arg[h].expiry)
  <1>1. /\ UNCHANGED <<contacts, outbox, counters, locals, got>>
        /\ pc[h] = "insert" /\ pc' = [pc EXCEPT ![h] = "done"]
        /\ keys' = [keys EXCEPT ![h] = row]
    BY DEF InsertKey, Goto
  <1>2. HandlerInv(h) /\ op[h] = "create" /\ keys[h] = None /\ h \in Key
    BY <1>1 DEF IInv, HandlerInv, ControlInv, KeyInv, Final, Key
  <1>3. row \in Row
    BY <1>2, ExternalAssumption DEF HandlerInv, RequestInv, NewKey, Row
  <1>4. TypeOK' /\ Indexed'
    BY <1>1, <1>3 DEF IInv, TypeOK, Indexed, IsFunction, locals, counters
  <1>5. Keeps(h)
    <2>1. \A k \in Handlers \ {h} : pc[k] = "done" /\ op[k] = "patch" /\ Kept(k) => Kept(k)'
      BY <1>1, <1>2 DEF IInv, TypeOK, HandlerInv, RequestInv, Kept, locals
    <2> QED
      BY <1>1, <1>2, <1>3, <2>1, RowsAssumption
         DEF IInv, TypeOK, Indexed, IsFunction, Keeps, Final, locals
  <1>6. HandlerInv(h)'
    BY ZenonT(40), <1>1, <1>2, <1>3, RowsAssumption, Calls
       DEF IInv, TypeOK, Indexed, IsFunction, HandlerInv, RequestInv, ControlInv, PreInv, KeyInv,
           ChangeInv, AdmittedInv, Admitted, ContactInv, ToldInv, Final, locals, Op, Sends
  <1> QED
    BY <1>4, <1>5, <1>6, StepIInv

\* A patch is kept, a key that was revoked stays deleted, and a request that
\* writes had not finished when those that have finished started.
LEMMA WriteKeyIInv ==
    ASSUME IInv, NEW h \in Handlers, WriteKey(h)
    PROVE  IInv'
  <1> DEFINE k == arg[h].key
             row == IF op[h] = "patch" THEN Patched(keys[k], arg[h].change) ELSE Revoked(keys[k])
  <1>1. /\ UNCHANGED <<contacts, outbox, counters, locals, got>>
        /\ pc[h] = "write" /\ pc' = [pc EXCEPT ![h] = "done"]
        /\ keys' = [keys EXCEPT ![k] = row]
    BY DEF WriteKey, Goto
  <1>2. /\ HandlerInv(h) /\ op[h] \in {"patch", "revoke"}
        /\ k \in Key /\ keys[k] \in Row
        /\ op[h] = "patch" => arg[h].change \in Changes
    BY <1>1 DEF IInv, TypeOK, HandlerInv, ControlInv, RequestInv
  <1>3. row \in Row /\ (keys[k].deleted => row.deleted)
    <2>1. CASE op[h] = "patch"
      <3> DEFINE c == arg[h].change
                 active == IF c.active = None THEN keys[k].active ELSE c.active
                 permissions == IF c.permissions = None THEN keys[k].permissions ELSE c.permissions
      <3>1. active \in BOOLEAN /\ permissions \in SUBSET Permission
        <4>1. c \in [active : BOOLEAN \cup {None}, permissions : {None} \cup SUBSET Permission]
          BY <1>2, <2>1, RowsAssumption
        <4>2. c.active \in BOOLEAN \cup {None} /\ c.permissions \in {None} \cup SUBSET Permission
          BY <4>1
        <4>3. keys[k].active \in BOOLEAN /\ keys[k].permissions \in SUBSET Permission
          BY <1>2 DEF Row
        <4>4. active \in BOOLEAN
          BY <4>2, <4>3, Zenon
        <4>5. permissions \in SUBSET Permission
          BY <4>2, <4>3, Zenon
        <4> QED
          BY <4>4, <4>5
      <3>2. row = [keys[k] EXCEPT !.active = active, !.permissions = permissions]
        BY <2>1 DEF Patched
      <3> HIDE DEF active, permissions, row
      <3> QED
        BY <1>2, <3>1, <3>2 DEF Row
    <2>2. CASE op[h] # "patch"
      BY <1>2, <2>2 DEF Revoked, Row
    <2> QED
      BY <2>1, <2>2
  <1>4. TypeOK' /\ Indexed'
    BY <1>1, <1>3 DEF IInv, TypeOK, Indexed, IsFunction, locals, counters
  <1>5. /\ keys'[k] = row /\ row # None
        /\ \A j \in Key \ {k} : keys'[j] = keys[j]
    BY <1>1, <1>2, <1>3, RowsAssumption DEF IInv, TypeOK
  <1>6. Keeps(h)
    <2>1. ASSUME NEW w \in Handlers \ {h}, pc[w] = "done", op[w] = "patch", Kept(w)
          PROVE  Kept(w)' \/ PatchedSince(w)
      <3>1. HandlerInv(w) /\ arg[w].key \in Key /\ arg'[w] = arg[w]
        BY <1>1, <2>1 DEF IInv, HandlerInv, RequestInv, locals
      <3>2. CASE arg[w].key # k
        BY <1>5, <2>1, <3>1, <3>2 DEF Kept
      <3>3. CASE arg[w].key = k /\ op[h] = "patch"
        <4>1. h \notin pre[w]
          BY <1>1, <3>1 DEF HandlerInv, PreInv, Final
        <4>2. /\ h \in Handlers \ pre[w] /\ h # w /\ op[h] = "patch" /\ op[w] = "patch"
              /\ arg[h].key = arg[w].key
          BY <2>1, <3>3, <4>1
        <4>3. PatchedSince(w)
          BY <4>2, Zenon DEF PatchedSince
        <4> QED
          BY <4>3
      <3>4. CASE arg[w].key = k /\ op[h] # "patch"
        <4>1. row.active = FALSE /\ row.permissions = keys[k].permissions
          BY <1>2, <3>4 DEF Revoked, Row
        <4> QED
          BY <1>5, <2>1, <3>1, <3>4, <4>1 DEF Kept
      <3> QED
        BY <3>2, <3>3, <3>4
    <2>2. \A j \in Key : /\ keys[j] # None => keys'[j] # None
                         /\ keys[j] # None /\ keys[j].deleted => keys'[j].deleted
      BY <1>3, <1>5
    <2>3. \A w \in Handlers \ {h} : keys[w] = None => keys'[w] = None
      BY <1>2, <1>5, RowsAssumption DEF Key
    <2> QED
      BY <1>1, <2>1, <2>2, <2>3 DEF IInv, TypeOK, Indexed, IsFunction, Keeps, Final, locals
  <1>7. HandlerInv(h)'
    <2>1. pc'[h] = "done" /\ op'[h] = op[h] /\ arg'[h] = arg[h]
      BY <1>1 DEF IInv, Indexed, IsFunction, locals
    <2>2. ChangeInv(h)'
      <3>1. op[h] = "revoke" => row.deleted
        BY <1>2 DEF Revoked, Row
      <3>2. ASSUME op[h] = "patch"
            PROVE  /\ arg[h].change.active = FALSE => ~row.active
                   /\ arg[h].change.permissions # None => row.permissions = arg[h].change.permissions
        BY <1>2, <3>2, ExternalAssumption DEF Patched, Row
      <3> QED
        BY <1>5, <2>1, <3>1, <3>2 DEF ChangeInv, Kept
    <2>3. RequestInv(h)' /\ ControlInv(h)' /\ KeyInv(h)'
      BY <1>1, <1>2, <1>5, <2>1, Calls
         DEF HandlerInv, RequestInv, ControlInv, KeyInv, Final, locals, Op, Sends
    <2>4. PreInv(h)'
      BY <1>1, <1>2 DEF IInv, TypeOK, Indexed, IsFunction, HandlerInv, PreInv, Final, locals
    <2>5. AdmittedInv(h)' /\ ContactInv(h)' /\ ToldInv(h)'
      BY <1>2, <2>1, Calls DEF AdmittedInv, Admitted, ContactInv, ToldInv, Sends
    <2> QED
      BY <2>2, <2>3, <2>4, <2>5 DEF HandlerInv
  <1> QED
    BY <1>4, <1>6, <1>7, StepIInv

-----------------------------------------------------------------------------
(* Calls.                                                                   *)

\* A call that is let in is forbidden by no earlier change, unless there was a
\* patch since.
LEMMA AuthenticateIInv ==
    ASSUME IInv, NEW h \in Handlers, Authenticate(h)
    PROVE  IInv'
  <1> DEFINE row == keys[arg[h].key]
  <1>1. /\ UNCHANGED <<tables, counters, locals, got>>
        /\ pc[h] = "auth" /\ pc' = [pc EXCEPT ![h] = pc'[h]]
        /\ \/ pc'[h] = "failed"
           \/ /\ pc'[h] = FirstStep[op[h]]
              /\ Usable(row) /\ Needs[op[h]] \subseteq row.permissions
    BY DEF Authenticate, Goto, IInv, Indexed, IsFunction
  <1>2. HandlerInv(h) /\ op[h] \in Call
    BY <1>1 DEF IInv, HandlerInv, ControlInv
  <1>3. /\ pc'[h] \in {"failed", "search", "deliver", "read"}
        /\ pc'[h] = "search" => op[h] \in {"template", "text", "contact"}
        /\ pc'[h] = "deliver" => op[h] = "sms"
        /\ pc'[h] = "read" => op[h] \notin Sends \cup {"contact"}
    BY <1>1, <1>2, Calls DEF FirstStep, Sends
  <1>4. TypeOK' /\ Indexed'
    BY <1>1 DEF IInv, TypeOK, Indexed, IsFunction, locals, counters, tables
  <1>5. Keeps(h)
    BY <1>1, <1>3 DEF IInv, Indexed, IsFunction, Keeps, Kept, Final, tables, locals
  <1>6. ASSUME NEW w \in pre[h], pc[w] = "done", op[w] \in {"patch", "revoke"},
               arg[w].key = arg[h].key, Forbids(w, h), pc'[h] # "failed"
        PROVE  PatchedSince(w)
    <2>1. w \in Handlers /\ HandlerInv(w)
      BY <1>6 DEF IInv, TypeOK
    <2>2. ~row.deleted /\ row.active /\ Needs[op[h]] \subseteq row.permissions
      BY <1>1, <1>6 DEF Usable
    <2>3. op[w] = "patch" /\ (Kept(w) => FALSE)
      BY <1>6, <2>1, <2>2 DEF HandlerInv, ChangeInv, Forbids, Kept
    <2> QED
      BY <1>6, <2>1, <2>3 DEF HandlerInv, ChangeInv
  <1>7. HandlerInv(h)'
    <2>1. op'[h] = op[h] /\ arg'[h] = arg[h] /\ pre'[h] = pre[h] /\ got'[h] = got[h]
      BY <1>1 DEF locals
    <2>2. RequestInv(h)' /\ KeyInv(h)' /\ ContactInv(h)' /\ ToldInv(h)'
      BY <1>1, <1>2, <1>3, <2>1 DEF HandlerInv, RequestInv, KeyInv, ContactInv, ToldInv, Final, tables
    <2>5. ControlInv(h)' /\ ChangeInv(h)'
      BY <1>2, <1>3, <2>1, Calls DEF ControlInv, ChangeInv, Op, Sends
    <2>3. PreInv(h)'
      BY <1>1, <1>2 DEF IInv, TypeOK, Indexed, IsFunction, HandlerInv, PreInv, Final, locals
    <2>4. AdmittedInv(h)'
      <3>1. \A w \in pre[h] : pc'[w] = pc[w] /\ w \in Handlers
        BY <1>1, <1>2 DEF IInv, TypeOK, Indexed, IsFunction, HandlerInv, PreInv, Final
      <3>2. \A w \in Handlers : /\ Forbids(w, h)' <=> Forbids(w, h)
                                /\ PatchedSince(w)' <=> PatchedSince(w)
        BY <1>1 DEF Forbids, PatchedSince, locals
      <3> QED
        BY <1>1, <1>6, <2>1, <3>1, <3>2 DEF AdmittedInv, Admitted, locals
    <2> QED
      BY <2>2, <2>3, <2>4, <2>5 DEF HandlerInv
  <1> QED
    BY <1>4, <1>5, <1>7, StepIInv

\* Looking at a key or at records changes what the request knows, nothing else.
LEMMA ReadsIInv ==
    ASSUME IInv, NEW h \in Handlers, ListKeys(h) \/ FindKey(h) \/ ReadRecords(h)
    PROVE  IInv'
  <1>1. /\ UNCHANGED <<tables, counters, locals>>
        /\ pc' = [pc EXCEPT ![h] = pc'[h]]
        /\ got' = [got EXCEPT ![h] = got'[h]]
        /\ \/ pc[h] = "list" /\ pc'[h] = "done"
           \/ pc[h] = "find" /\ pc'[h] \in {"write", "failed"} /\ got'[h] = got[h]
           \/ pc[h] = "read" /\ pc'[h] = "done"
    BY DEF ListKeys, FindKey, ReadRecords, Goto, IInv, Indexed, IsFunction
  <1>2. HandlerInv(h)
    BY DEF IInv
  <1>3. TypeOK' /\ Indexed'
    BY <1>1 DEF IInv, TypeOK, Indexed, IsFunction, locals, counters, tables
  <1>4. op[h] \notin Makers \/ UNCHANGED got
    BY <1>1, <1>2 DEF HandlerInv, ControlInv, Makers, Sends
  <1>5. Keeps(h)
    BY <1>1, <1>4 DEF IInv, Indexed, IsFunction, Keeps, Kept, Final, tables, locals
  <1>6. HandlerInv(h)'
    <2>1. op'[h] = op[h] /\ arg'[h] = arg[h] /\ pre'[h] = pre[h]
      BY <1>1 DEF locals
    <2>2. op[h] \notin Sends /\ op[h] \in Op
      BY <1>1, <1>2, Calls DEF HandlerInv, ControlInv, Sends
    <2>3. RequestInv(h)' /\ ControlInv(h)' /\ KeyInv(h)' /\ ContactInv(h)' /\ ToldInv(h)'
      BY <1>1, <1>2, <2>1, <2>2
         DEF HandlerInv, RequestInv, ControlInv, KeyInv, ContactInv, ToldInv, Final, tables
    <2>4. PreInv(h)'
      BY <1>1, <1>2 DEF IInv, TypeOK, Indexed, IsFunction, HandlerInv, PreInv, Final, locals
    <2>5. ChangeInv(h)'
      BY <1>1, <1>2, <2>1, Calls DEF HandlerInv, ControlInv, ChangeInv
    <2>6. AdmittedInv(h)'
      <3>1. Admitted(h)' => Admitted(h)
        BY <1>1, <1>2, <2>1, Calls DEF HandlerInv, ControlInv, Admitted
      <3>2. \A w \in pre[h] : pc'[w] = pc[w] /\ w \in Handlers
        BY <1>1, <1>2 DEF IInv, TypeOK, Indexed, IsFunction, HandlerInv, PreInv, Final
      <3>3. \A w \in Handlers : /\ Forbids(w, h)' <=> Forbids(w, h)
                                /\ PatchedSince(w)' <=> PatchedSince(w)
        BY <1>1 DEF Forbids, PatchedSince, locals
      <3> QED
        BY <1>1, <1>2, <2>1, <3>1, <3>2, <3>3 DEF HandlerInv, AdmittedInv, locals
    <2> QED
      BY <2>3, <2>4, <2>5, <2>6 DEF HandlerInv
  <1> QED
    BY <1>3, <1>5, <1>6, StepIInv

-----------------------------------------------------------------------------
(* The gateways.                                                            *)

\* A step of a call at a gateway, where a message is taken before it is answered.
AtGateway(h) ==
    /\ UNCHANGED <<keys, counters, locals>>
    /\ pc[h] \in {"search", "contact", "deliver"}
    /\ pc' = [pc EXCEPT ![h] = pc'[h]]
    /\ pc'[h] \in {"contact", "deliver", "done", "failed"}
    /\ pc'[h] = "contact" => op[h] \in Makers
    /\ pc'[h] = "deliver" => op[h] \in Sends
    /\ got' = [got EXCEPT ![h] = got'[h]]
    /\ "blind" \in got[h] => "blind" \in got'[h]
    /\ op[h] = "sms" => got[h] \subseteq got'[h]
    /\ \/ UNCHANGED contacts
       \/ pc[h] = "contact" /\ contacts' = contacts \cup {[phone |-> arg[h].to, by |-> h]}
    /\ \/ UNCHANGED outbox
       \/ pc[h] = "deliver" /\ outbox' = outbox \cup {[to |-> arg[h].to, by |-> h]}
    /\ pc'[h] = "contact" => \/ "blind" \in got'[h]
                             \/ UNCHANGED contacts /\ ~HasContact(arg[h].to)
    /\ \/ got'[h] \cap {"queued", "sent"} \subseteq got[h]
       \/ [to |-> arg[h].to, by |-> h] \in outbox'
       \/ op[h] = "sms" /\ "queued" \in got'[h]

\* Where the steps of a call lead.
LEMMA GatewaySteps ==
    ASSUME IInv, NEW h \in Handlers,
           SearchContact(h) \/ CreateContact(h) \/ Deliver(h) \/ Misreported(h) \/ GatewayFails(h)
    PROVE  AtGateway(h)
  <1>1. HandlerInv(h)
    BY DEF IInv
  <1> USE <1>1 DEF IInv, Indexed, IsFunction, HandlerInv, ControlInv, AtGateway, Goto, Makers, Sends,
      tables
  <1>2. CASE SearchContact(h)
    <2>1. PICK refused \in {FALSE, Faults} :
             /\ Goto(h, "search", Searched(h, refused))
             /\ got' = IF refused THEN [got EXCEPT ![h] = {"blind"}] ELSE got
      BY <1>2 DEF SearchContact
    <2>2. UNCHANGED <<tables, counters, locals>>
      BY <1>2 DEF SearchContact
    <2>3. refused \in BOOLEAN
      BY ExternalAssumption
    <2>4. CASE refused
      BY <2>1, <2>2, <2>4 DEF Searched
    <2>5. CASE ~refused
      BY <2>1, <2>2, <2>5 DEF Searched, AfterContact
    <2> QED
      BY <2>3, <2>4, <2>5
  <1>3. CASE CreateContact(h)
    BY <1>3 DEF CreateContact, AfterContact
  <1>4. CASE Deliver(h)
    BY <1>4 DEF Deliver, Answered
  <1>5. CASE Misreported(h)
    BY <1>5 DEF Misreported, Answered
  <1>6. CASE GatewayFails(h)
    BY <1>6 DEF GatewayFails, Answered, StatusOf, GiveUp
  <1> QED
    BY <1>2, <1>3, <1>4, <1>5, <1>6

\* What a gateway takes is of the call that brings it, and is told as it is.
LEMMA GatewayIInv ==
    ASSUME IInv, NEW h \in Handlers, AtGateway(h)
    PROVE  IInv'
  <1>1. /\ HandlerInv(h) /\ op[h] \in Call
        /\ op[h] \in Sends \cup {"contact"} /\ arg[h].to \in Phones
        /\ pc[h] = "deliver" => op[h] \in Sends
    BY Calls DEF IInv, HandlerInv, ControlInv, RequestInv, AtGateway, Sends
  <1>2. TypeOK'
    <2>1. [phone |-> arg[h].to, by |-> h] \in Contact /\ [to |-> arg[h].to, by |-> h] \in Message
      BY <1>1 DEF Contact, Message
    <2>2. contacts' \subseteq Contact /\ outbox' \subseteq Message
      BY <2>1 DEF IInv, TypeOK, AtGateway
    <2>3. \A m \in outbox' : op[m.by] \in Sends /\ arg[m.by].to = m.to
      BY <1>1 DEF IInv, TypeOK, AtGateway
    <2> QED
      BY <2>2, <2>3 DEF IInv, TypeOK, AtGateway, locals, counters
  <1>3. Indexed'
    BY DEF IInv, Indexed, IsFunction, AtGateway, locals
  <1>4. Keeps(h)
    BY DEF IInv, Indexed, IsFunction, Keeps, Kept, AtGateway, Final, locals
  <1>5. HandlerInv(h)'
    <2>1. op'[h] = op[h] /\ arg'[h] = arg[h] /\ pre'[h] = pre[h] /\ keys' = keys
      BY DEF AtGateway, locals
    <2>2. RequestInv(h)' /\ KeyInv(h)'
      BY <1>1, <2>1 DEF HandlerInv, RequestInv, KeyInv, AtGateway, Final
    <2>3. ControlInv(h)' /\ ChangeInv(h)'
      BY <1>1, <2>1, Calls DEF ControlInv, ChangeInv, AtGateway, Op, Makers
    <2>4. PreInv(h)'
      BY <1>1 DEF IInv, TypeOK, Indexed, IsFunction, HandlerInv, PreInv, AtGateway, Final, locals
    <2>5. AdmittedInv(h)'
      <3>1. Admitted(h)
        BY <1>1 DEF AtGateway, Admitted
      <3>2. \A w \in pre[h] : pc'[w] = pc[w] /\ w \in Handlers
        BY <1>1 DEF IInv, TypeOK, Indexed, IsFunction, HandlerInv, PreInv, AtGateway, Final
      <3>3. \A w \in Handlers : /\ Forbids(w, h)' <=> Forbids(w, h)
                                /\ PatchedSince(w)' <=> PatchedSince(w)
        BY DEF Forbids, PatchedSince, AtGateway, locals
      <3> QED
        BY <1>1, <2>1, <3>1, <3>2, <3>3 DEF HandlerInv, AdmittedInv, AtGateway, locals
    <2>6. ContactInv(h)'
      BY <2>1 DEF ContactInv, AtGateway, HasContact
    <2>7. ToldInv(h)'
      <3>1. ToldInv(h) /\ outbox \subseteq outbox'
        BY <1>1 DEF HandlerInv, AtGateway
      <3>2. CASE got'[h] \cap {"queued", "sent"} \subseteq got[h]
        BY <2>1, <3>1, <3>2, <1>1 DEF ToldInv, AtGateway
      <3>3. CASE [to |-> arg[h].to, by |-> h] \in outbox'
        <4>1. \E m \in outbox' : m.by = h
          BY <3>3
        <4> QED
          BY <4>1 DEF ToldInv
      <3>4. CASE op[h] = "sms" /\ "queued" \in got'[h]
        BY <2>1, <3>4 DEF ToldInv
      <3> QED
        BY <3>2, <3>3, <3>4 DEF AtGateway
    <2> QED
      BY <2>2, <2>3, <2>4, <2>5, <2>6, <2>7 DEF HandlerInv
  <1> QED
    BY <1>2, <1>3, <1>4, <1>5, StepIInv

-----------------------------------------------------------------------------
(* Time.                                                                    *)

\* A window that ends, or a key's date that passes, touches no request.
LEMMA TimeIInv ==
    ASSUME IInv, AddressWindowEnds \/ KeyWindowEnds \/ Expire
    PROVE  IInv'
  <1>1. /\ UNCHANGED <<contacts, outbox, pc, op, arg, pre, got>>
        /\ keys' \in [Key -> Row \cup {None}]
        /\ \A k \in Key : /\ keys'[k] = None <=> keys[k] = None
                          /\ keys[k] # None => /\ keys'[k].deleted = keys[k].deleted
                                               /\ keys'[k].active = keys[k].active
                                               /\ keys'[k].permissions = keys[k].permissions
    <2>1. CASE AddressWindowEnds \/ KeyWindowEnds
      BY <2>1 DEF AddressWindowEnds, KeyWindowEnds, IInv, TypeOK, tables, locals
    <2>2. CASE Expire
      <3>1. PICK k \in Key : /\ keys[k] # None
                             /\ keys' = [keys EXCEPT ![k].expiry = "past"]
        BY <2>2 DEF Expire
      <3>2. keys[k] \in Row /\ [keys[k] EXCEPT !.expiry = "past"] \in Row
        BY <3>1 DEF IInv, TypeOK, Row
      <3>3. [keys[k] EXCEPT !.expiry = "past"] # None
        BY <3>2, RowsAssumption
      <3>4. keys' = [keys EXCEPT ![k] = [keys[k] EXCEPT !.expiry = "past"]]
        BY <3>1
      <3> QED
        BY <2>2, <3>1, <3>2, <3>3, <3>4 DEF Expire, IInv, TypeOK, locals, Row
    <2> QED
      BY <2>1, <2>2
  <1>2. /\ hits' \in [Addresses -> 0 .. GlobalLimit]
        /\ keyHits' \in [Key -> 0 .. KeyLimit]
    BY ExternalAssumption DEF AddressWindowEnds, KeyWindowEnds, Expire, counters, IInv, TypeOK
  <1>3. TypeOK' /\ Indexed'
    BY <1>1, <1>2 DEF IInv, TypeOK, Indexed, IsFunction
  <1>4. ASSUME NEW h \in Handlers PROVE HandlerInv(h)'
    <2>1. HandlerInv(h)
      BY DEF IInv
    <2>2. RequestInv(h)' /\ ControlInv(h)' /\ PreInv(h)' /\ KeyInv(h)'
      BY <1>1, <2>1 DEF HandlerInv, RequestInv, ControlInv, PreInv, KeyInv, Key
    <2>3. \A w \in Handlers : PatchedSince(w)' <=> PatchedSince(w)
      BY <1>1 DEF PatchedSince
    <2>4. ChangeInv(h)'
      BY <1>1, <2>1, <2>3 DEF HandlerInv, RequestInv, ChangeInv, Kept
    <2>5. AdmittedInv(h)'
      BY <1>1, <2>1, <2>3 DEF IInv, TypeOK, HandlerInv, AdmittedInv, Admitted, Forbids
    <2>6. ContactInv(h)' /\ ToldInv(h)'
      BY <1>1, <2>1 DEF HandlerInv, ContactInv, ToldInv
    <2> QED
      BY <2>2, <2>4, <2>5, <2>6 DEF HandlerInv
  <1> QED
    BY <1>1, <1>3, <1>4 DEF IInv, OneContactPerPhone, Overlap

-----------------------------------------------------------------------------
\* Every step preserves the invariant.
LEMMA NextIInv == IInv /\ [Next]_vars => IInv'
  <1> SUFFICES ASSUME IInv, [Next]_vars PROVE IInv'
    OBVIOUS
  <1>1. CASE UNCHANGED vars
    <2> USE <1>1 DEF vars, tables, counters, locals
    <2>1. TypeOK' /\ Indexed' /\ OneContactPerPhone'
      BY DEF IInv, TypeOK, Indexed, IsFunction, OneContactPerPhone, Overlap
    <2>2. ASSUME NEW h \in Handlers PROVE HandlerInv(h)'
      <3>1. /\ AdmittedInv(h)' <=> AdmittedInv(h)
            /\ ChangeInv(h)' <=> ChangeInv(h)
        BY DEF AdmittedInv, Admitted, Forbids, ChangeInv, Kept, PatchedSince
      <3>2. HandlerInv(h)
        BY DEF IInv
      <3> QED
        BY <3>1, <3>2 DEF HandlerInv, RequestInv, ControlInv, PreInv, KeyInv, ContactInv, ToldInv
    <2> QED
      BY <2>1, <2>2 DEF IInv
  <1>2. ASSUME NEW h \in Handlers, Arrive(h)
        PROVE  IInv'
    BY <1>2, ArriveWellFormed, EnterIInv
  <1>3. ASSUME NEW h \in Handlers, Run(h)
        PROVE  IInv'
    BY <1>3, InsertKeyIInv, WriteKeyIInv, AuthenticateIInv, ReadsIInv, GatewaySteps, GatewayIInv DEF Run
  <1> QED
    BY <1>1, <1>2, <1>3, TimeIInv DEF Next

\* The invariant holds throughout every behaviour.
THEOREM Invariance == Spec => []IInv
  BY InitIInv, NextIInv, PTL DEF Spec

\* Rows, counters, contacts and messages are always of their types, and a message
\* is one that its call asked for.
THEOREM TypeCorrect == Spec => []TypeOK
  BY Invariance, PTL DEF IInv

\* What PATCH takes away from a key, and DELETE the key itself, is gone when the
\* request is answered, but for a patch that overlapped or came later.
THEOREM ChangesAreKept == Spec => []ChangesHold
  <1>1. IInv => ChangesHold
    BY DEF IInv, HandlerInv, AdmittedInv, PatchedSince, ChangesHold
  <1> QED
    BY <1>1, Invariance, PTL

\* sendTemplate, sendText and createContact make one contact of a number, unless
\* they overlap or could not search.
THEOREM ContactsAreNotRepeated == Spec => []OneContactPerPhone
  BY Invariance, PTL DEF IInv

\* A call that is answered as queued or sent was taken by a gateway, but for texts.
THEOREM AnswersAreTrue == Spec => []ToldTheTruth
  <1>1. IInv => ToldTheTruth
    BY DEF IInv, HandlerInv, ToldInv, ToldTheTruth
  <1> QED
    BY <1>1, Invariance, PTL
=============================================================================
