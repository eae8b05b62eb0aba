-------------------------- MODULE AgentGateway_proofs --------------------------
(***************************************************************************)
(* Theorems about AgentGateway, for any sets of requests, guests, channels *)
(* and kinds of traffic, and any number of redeliveries, on two inductive  *)
(* invariants:                                                             *)
(*                                                                         *)
(*   IInv   which tools a request has still to call, whose sessions there  *)
(*          are, where a request is that has changed something, and how    *)
(*          many reminders are owed to those who asked for one;            *)
(*   MInv   IInv, types, and the account of each guest: what was credited  *)
(*          for charges is what was paid, and what a request knows of the  *)
(*          balance is what was owed when it started.                      *)
(***************************************************************************)
EXTENDS AgentGateway, FiniteSetTheorems, SequenceTheorems, TLAPS

Calling == {"tool", "balance", "work", "record", "refuse"}

Place == {"idle", "context", "session", "open", "log", "close", "reply"} \cup Calling \cup Final

\* What may be left of the tools of a message or a call.
Todo == {<<>>} \cup {<<t>> : t \in Tool} \cup {<<"getGuestBalance", "createPaymentRequest">>}

IsGot(r) == r = [session |-> r.session, read |-> r.read, todo |-> r.todo]

Shapes ==
    /\ pc \in [Handlers -> Place]
    /\ arg = [h \in Handlers |-> arg[h]]
    /\ got = [h \in Handlers |-> got[h]]
    /\ pre \in [Handlers -> SUBSET Handlers]
    /\ sessions \in Seq(Session)
    /\ job \in [Guests -> JobState]
    /\ reminders \in [Guests -> Nat]
    /\ again \in Nat
    /\ kinds \subseteq Op

LocalInv(h) ==
    /\ pre[h] \subseteq Ended
    /\ pc[h] # "idle" => IsGot(got[h]) /\ got[h].todo \in Todo
    /\ pc[h] \in Calling => got[h].todo # <<>>
    /\ pc[h] \notin {"idle"} \cup Final => arg[h].guest \in Guests
    /\ pc[h] \in {"context", "session", "open"} => arg[h].channel \in Channels

\* Who opened a session is past opening it, and it is of that guest on that channel.
SessionInv(i) ==
    LET s == sessions[i] IN
    /\ pc[s.by] \notin {"idle", "context", "session", "open"}
    /\ s.guest = arg[s.by].guest /\ s.channel = arg[s.by].channel

OneEach == \A i, j \in DOMAIN sessions : sessions[i].by = sessions[j].by => i = j

\* Who is about to open a session saw none of a message that had finished before.
OpenInv(h) ==
    pc[h] = "open" =>
        \A i \in DOMAIN sessions :
            sessions[i].guest = arg[h].guest /\ sessions[i].channel = arg[h].channel
            => sessions[i].by \notin pre[h]

\* What a tool changed: its call is about to be recorded, or it is on record.
EffectInv(e) ==
    /\ e.by \in Handlers
    /\ e.tool # "pay" =>
        /\ e.tool \in Effective
        /\ \/ pc[e.by] \in {"record", "refuse"} /\ e.tool = This(e.by)
           \/ /\ pc[e.by] \in {"close", "reply", "done"}
              /\ [by |-> e.by, tool |-> e.tool, success |-> TRUE] \in calls
           \/ pc[e.by] = "failed" /\ \E c \in calls : c.by = e.by /\ ~c.success

Did(h, t) == \E e \in effects : e.by = h /\ e.tool = t

DidInv(h) == pc[h] = "record" /\ This(h) \in Effective => Did(h, This(h))

CallInv(c) == c.success /\ c.tool \in Effective => Did(c.by, c.tool)

\* The requests for a reminder that found no job of the guest.
Asked(g) == {e \in effects : e.tool = "sendPaymentReminder" /\ e.guest = g /\ e.amount = 1}

\* A job that waits or runs has a reminder in it.
Pending(g) == IF job[g] \in {"waiting", "active"} THEN 1 ELSE 0

ReminderInv(g) ==
    /\ IsFiniteSet(Asked(g))
    /\ reminders[g] + Pending(g) <= again + Cardinality(Asked(g))

IInv ==
    /\ Shapes
    /\ \A h \in Handlers : LocalInv(h) /\ OpenInv(h) /\ DidInv(h)
    /\ \A i \in DOMAIN sessions : SessionInv(i)
    /\ OneEach /\ OneConversation
    /\ \A e \in effects : EffectInv(e)
    /\ \A c \in calls : CallInv(c)
    /\ \A g \in Guests : ReminderInv(g)

-----------------------------------------------------------------------------
(* Todo lists, sessions and their order.                                    *)

\* A call that changes something is the last of its plan.
LEMMA TodoFacts ==
    ASSUME NEW todo \in Todo, todo # <<>>
    PROVE  /\ Head(todo) \in Tool /\ Tail(todo) \in Todo
           /\ Len(todo) > 1 => Head(todo) \notin Effective /\ Tail(todo) # <<>>
  <1>1. CASE todo = <<"getGuestBalance", "createPaymentRequest">>
    <2>1. /\ Head(todo) = "getGuestBalance" /\ Tail(todo) = <<"createPaymentRequest">>
          /\ <<"createPaymentRequest">> # <<>>
      BY <1>1
    <2> QED
      BY <2>1 DEF Todo, Tool, ForEvent, ForGuest, Effective
  <1>2. ASSUME NEW t \in Tool, todo = <<t>>
        PROVE  Head(todo) = t /\ Tail(todo) = <<>> /\ ~(Len(todo) > 1)
    BY <1>2
  <1> QED
    BY <1>1, <1>2 DEF Todo

\* The plan of an intent.
LEMMA PlanFacts == \A i \in Intent : Plan[i] \in Todo
  <1>1. Intent = {"GREETING", "EVENT_INFO", "RSVP_YES", "RSVP_NO", "CHECK_BALANCE", "MAKE_PLEDGE",
                  "REQUEST_TICKET", "REQUEST_INVITE_CARD", "PAYMENT_STATUS", "HUMAN_SUPPORT",
                  "PAY_FULL", "PAY_PARTIAL"}
    BY DEF Intent, Topics, Range
  <1> QED
    BY <1>1 DEF Plan, Todo, Tool, ForEvent, ForGuest, Effective

\* Infer finds an intent.
LEMMA InferFacts == \A t \in Texts : Infer(t) \in Intent
  <1> SUFFICES ASSUME NEW t \in Texts, t # {} PROVE Infer(t) \in Intent
    BY DEF Infer, Intent, Topics, Range
  <1>1. t \subseteq Intent
    BY AgentAssumption
  <1> DEFINE First(i) == Topics[i] \in t /\ \A j \in 1 .. i - 1 : Topics[j] \notin t
  <1>2. \E i \in DOMAIN Topics : First(i)
    <2>1. /\ DOMAIN Topics = 1 .. 12
          /\ \A x \in t : \E i \in 1 .. 12 : Topics[i] = x
      BY <1>1 DEF Intent, Topics, Range
    <2>2. \A n \in 0 .. 11 : (\A j \in 1 .. n : Topics[j] \notin t) => Topics[n + 1] \in t
                               \/ \A j \in 1 .. n + 1 : Topics[j] \notin t
      OBVIOUS
    <2> QED
      BY <2>1
  <1>3. DOMAIN Topics \subseteq Nat /\ \A i \in DOMAIN Topics : Topics[i] \in Intent
    BY DEF Intent, Topics, Range
  <1>4. Infer(t) = Topics[CHOOSE i \in DOMAIN Topics : First(i)]
    BY DEF Infer
  <1>5. (CHOOSE i \in DOMAIN Topics : First(i)) \in DOMAIN Topics
    BY <1>2
  <1> QED
    BY <1>3, <1>4, <1>5

\* Where a row is after the i-th was updated.
Was(i, j) == IF j < i THEN j ELSE IF j < Len(sessions) THEN j + 1 ELSE i

\* Updating a session moves rows and changes neither their guests nor who opened them.
LEMMA TouchedFacts ==
    ASSUME sessions \in Seq(Session), NEW i \in DOMAIN sessions
    PROVE  /\ Touched(i) \in Seq(Session) /\ DOMAIN Touched(i) = DOMAIN sessions
           /\ \A j \in DOMAIN sessions :
                 /\ Was(i, j) \in DOMAIN sessions
                 /\ Touched(i)[j].guest = sessions[Was(i, j)].guest
                 /\ Touched(i)[j].channel = sessions[Was(i, j)].channel
                 /\ Touched(i)[j].by = sessions[Was(i, j)].by
                 /\ \A k \in DOMAIN sessions : Was(i, j) = Was(i, k) => j = k
  <1> DEFINE n == Len(sessions)
  <1>1. n \in Nat /\ DOMAIN sessions = 1 .. n /\ \A j \in 1 .. n : sessions[j] \in Session
    BY LenProperties, ElementOfSeq
  <1>2. \A j \in 1 .. n : Was(i, j) \in 1 .. n
    BY <1>1 DEF Was
  <1>3. ASSUME NEW j \in 1 .. n, NEW k \in 1 .. n, Was(i, j) = Was(i, k) PROVE j = k
    <2>1. i \in 1 .. n /\ n \in Nat
      BY <1>1
    <2>2. ASSUME NEW m \in 1 .. n
          PROVE  /\ m < i => Was(i, m) = m
                 /\ ~(m < i) /\ m < n => Was(i, m) = m + 1
                 /\ ~(m < n) => Was(i, m) = i /\ m = n
      <3>1. Was(i, m) = IF m < i THEN m ELSE IF m < n THEN m + 1 ELSE i
        BY DEF Was
      <3>2. m \in 1 .. n
        OBVIOUS
      <3> HIDE DEF n
      <3>3. m < i => Was(i, m) = m
        BY <2>1, <3>1, <3>2
      <3>4. ~(m < i) /\ m < n => Was(i, m) = m + 1
        BY <2>1, <3>1, <3>2
      <3>5. ~(m < n) => m = n
        BY <2>1, <3>2
      <3>6. m = n => Was(i, m) = i
        BY <2>1, <3>1
      <3> QED
        BY <3>3, <3>4, <3>5, <3>6
    <2> HIDE DEF n
    <2> QED
      BY <1>3, <2>1, <2>2
  <1>4. ASSUME NEW j \in 1 .. n
        PROVE  /\ Touched(i)[j] \in Session
               /\ Touched(i)[j].guest = sessions[Was(i, j)].guest
               /\ Touched(i)[j].channel = sessions[Was(i, j)].channel
               /\ Touched(i)[j].by = sessions[Was(i, j)].by
    <2> DEFINE s == sessions[i]
    <2>1. /\ s \in Session
          /\ [s EXCEPT !.step = "handled"] \in Session
          /\ [s EXCEPT !.step = "handled"].guest = s.guest
          /\ [s EXCEPT !.step = "handled"].channel = s.channel
          /\ [s EXCEPT !.step = "handled"].by = s.by
      BY <1>1 DEF Session
    <2>2. CASE j < i
      BY <1>1, <2>2 DEF Touched, Was
    <2>3. CASE ~(j < i) /\ j < n
      BY <1>1, <2>3 DEF Touched, Was
    <2>4. CASE ~(j < i) /\ ~(j < n)
      <3>1. Touched(i)[j] = [s EXCEPT !.step = "handled"] /\ Was(i, j) = i
        BY <1>1, <2>4 DEF Touched, Was
      <3> QED
        BY <2>1, <3>1
    <2> QED
      BY <2>2, <2>3, <2>4
  <1>5. DOMAIN Touched(i) = 1 .. n /\ Touched(i) \in Seq(Session)
    <2>1. Touched(i) \in [1 .. n -> Session]
      <3>1. /\ DOMAIN Touched(i) = 1 .. n
            /\ Touched(i) = [j \in 1 .. n |-> Touched(i)[j]]
        BY <1>1 DEF Touched
      <3> QED
        BY <3>1, <1>4
    <2> QED
      BY <1>1, <2>1, SeqDef
  <1> QED
    BY <1>1, <1>2, <1>3, <1>4, <1>5

-----------------------------------------------------------------------------
(* What the steps do.                                                       *)

\* A step of h leaves the others, and who has ended, alone.
SameOthers(h) ==
    /\ \A k \in Handlers \ {h} : pc'[k] = pc[k] /\ arg'[k] = arg[k] /\ got'[k] = got[k] /\ pre'[k] = pre[k]
    /\ pc[h] \notin Final
    /\ pre'[h] \subseteq Ended
    /\ effects \subseteq effects' /\ calls \subseteq calls' /\ kinds' = kinds

Unlogged == UNCHANGED <<sessions, calls, job, reminders, again>>

\* A handler that starts: a message, a call of a tool, or what is done in one step.
Arrives(h) ==
    /\ pc[h] = "idle" /\ pc'[h] \in {"context", "tool", "done"}
    /\ pc'[h] # "done" => /\ arg'[h].guest \in Guests
                          /\ pc'[h] = "context" => arg'[h].channel \in Channels
                          /\ pc'[h] = "tool" => got'[h].todo # <<>>
    /\ IsGot(got'[h]) /\ got'[h].todo \in Todo
    /\ \/ effects' = effects
       \/ \E e : e.by = h /\ e.tool = "pay" /\ effects' = effects \cup {e}
    /\ Unlogged

\* A step of a handler under way keeps what it came with.
Keeps(h) == arg' = arg /\ pre' = pre /\ IsGot(got'[h])

\* A step that changes nothing but the place and the locals of h.
Moves(h) ==
    /\ Keeps(h) /\ got'[h].todo = got[h].todo /\ UNCHANGED effects /\ Unlogged
    /\ \/ pc[h] = "context" /\ pc'[h] \in {"session", "failed"}
       \/ pc[h] = "session" /\ pc'[h] = "log"
       \/ pc[h] = "session" /\ pc'[h] = "open" /\ \A i \in DOMAIN sessions : ~Continues(sessions[i], arg[h])
       \/ pc[h] = "log" /\ pc'[h] \in {"failed", "close"}
       \/ pc[h] = "log" /\ pc'[h] = "tool" /\ got[h].todo # <<>>
       \/ pc[h] = "tool" /\ pc'[h] \in {"balance", "work", "refuse"}
       \/ pc[h] = "balance" /\ pc'[h] \in {"work", "refuse"}
       \/ pc[h] = "record" /\ pc'[h] = "refuse"
       \/ pc[h] = "reply" /\ pc'[h] = "done"

\* The session opened by h, and a session updated by h.
Opens(h) ==
    /\ Keeps(h) /\ got'[h].todo = got[h].todo
    /\ pc[h] = "open" /\ pc'[h] = "log"
    /\ sessions' = Append(sessions, [guest |-> arg[h].guest, channel |-> arg[h].channel,
                                     by |-> h, step |-> "new"])
    /\ UNCHANGED <<effects, calls, job, reminders, again>>

Updates(h) ==
    /\ Keeps(h) /\ got'[h].todo = got[h].todo
    /\ pc[h] = "close" /\ pc'[h] = "reply"
    /\ \E i \in DOMAIN sessions : sessions' = Touched(i)
    /\ UNCHANGED <<effects, calls, job, reminders, again>>

\* The work of a tool, and work that fails, with or without effect.
Works(h) ==
    /\ Keeps(h) /\ got'[h].todo = got[h].todo
    /\ pc[h] = "work" /\ pc'[h] = "record"
    /\ effects' = IF This(h) \in Effective THEN effects \cup {EffectOf(h)} ELSE effects
    /\ job' = IF This(h) = "sendPaymentReminder" THEN Queued(arg[h].guest) ELSE job
    /\ UNCHANGED <<sessions, calls, reminders, again>>

Breaks(h) ==
    /\ Keeps(h) /\ got'[h].todo = got[h].todo
    /\ pc[h] = "work" /\ pc'[h] = "refuse"
    /\ effects' = effects \/ (This(h) \in Halfway /\ effects' = effects \cup {EffectOf(h)})
    /\ Unlogged

\* The record of a success, and of a failure.
Records(h) ==
    /\ Keeps(h) /\ got'[h].todo = Tail(got[h].todo)
    /\ pc[h] = "record" /\ pc'[h] = AfterCall(h)
    /\ calls' = calls \cup {[by |-> h, tool |-> This(h), success |-> TRUE]}
    /\ UNCHANGED <<sessions, effects, job, reminders, again>>

Fails(h) ==
    /\ Keeps(h) /\ got'[h].todo = got[h].todo
    /\ pc[h] = "refuse" /\ pc'[h] = "failed"
    /\ calls' = calls \cup {[by |-> h, tool |-> This(h), success |-> FALSE]}
    /\ UNCHANGED <<sessions, effects, job, reminders, again>>

\* How requests start.
LEMMA Starts ==
    ASSUME IInv, NEW h \in Handlers, NEW kind, NEW x, NEW todo, NEW first, Start(h, kind, x, todo, first)
    PROVE  /\ pc[h] = "idle" /\ pc'[h] = first /\ arg'[h] = x
           /\ IsGot(got'[h]) /\ got'[h].todo = todo
           /\ pre'[h] = Ended /\ kind \in kinds /\ Unlogged
           /\ effects \subseteq effects' => SameOthers(h)
  <1>1. /\ pc[h] = "idle" /\ pc'[h] = first /\ arg'[h] = x
        /\ got'[h] = [session |-> None, read |-> 0, todo |-> todo]
        /\ \A k \in Handlers \ {h} :
              pc'[k] = pc[k] /\ arg'[k] = arg[k] /\ got'[k] = got[k] /\ pre'[k] = pre[k]
        /\ pre'[h] = Ended /\ kind \in kinds /\ kinds' = kinds /\ Unlogged
    BY DEF Start, Goto, talk, queue, IInv, Shapes, Unlogged
  <1>2. IsGot(got'[h]) /\ got'[h].todo = todo
    BY <1>1 DEF IsGot
  <1>3. effects \subseteq effects' => SameOthers(h)
    BY <1>1 DEF SameOthers, Final, Unlogged
  <1> QED
    BY <1>1, <1>2, <1>3

\* Every way to start.
LEMMA ArriveStep ==
    ASSUME IInv, NEW h \in Handlers, Arrive(h)
    PROVE  Arrives(h) /\ SameOthers(h)
  <1>1. CASE HandleMessage(h)
    <2>1. PICK g \in Guests, c \in Channels, i \in (kinds \cap Intent) \cup {Infer(t) : t \in Texts} :
             \E n : /\ Start(h, i, [guest |-> g, channel |-> c, amount |-> n], Plan[i], "context")
                    /\ UNCHANGED <<removed, effects, paid>>
      BY <1>1 DEF HandleMessage
    <2>2. PICK n : /\ Start(h, i, [guest |-> g, channel |-> c, amount |-> n], Plan[i], "context")
                   /\ UNCHANGED <<removed, effects, paid>>
      BY <2>1
    <2>3. Plan[i] \in Todo
      BY PlanFacts, InferFacts
    <2>4. SameOthers(h) /\ Unlogged /\ pc[h] = "idle"
      BY <2>2, Starts
    <2>5. /\ pc'[h] = "context" /\ arg'[h] = [guest |-> g, channel |-> c, amount |-> n]
          /\ IsGot(got'[h]) /\ got'[h].todo = Plan[i]
      BY <2>2, Starts
    <2>6. effects' = effects
      BY <2>2
    <2> QED
      BY <2>3, <2>4, <2>5, <2>6 DEF Arrives
  <1>2. CASE CallTool(h)
    <2>1. PICK t \in kinds \cap Tool, g \in Guests :
             \E n : /\ Start(h, t, [guest |-> g, channel |-> None, amount |-> n], <<t>>, "tool")
                    /\ UNCHANGED <<removed, effects, paid>>
      BY <1>2 DEF CallTool
    <2>2. PICK n : /\ Start(h, t, [guest |-> g, channel |-> None, amount |-> n], <<t>>, "tool")
                   /\ UNCHANGED <<removed, effects, paid>>
      BY <2>1
    <2>3. <<t>> \in Todo /\ <<t>> # <<>>
      BY DEF Todo
    <2>4. SameOthers(h) /\ Unlogged /\ pc[h] = "idle"
      BY <2>2, Starts
    <2>5. /\ pc'[h] = "tool" /\ arg'[h] = [guest |-> g, channel |-> None, amount |-> n]
          /\ IsGot(got'[h]) /\ got'[h].todo = <<t>>
      BY <2>2, Starts
    <2>6. effects' = effects
      BY <2>2
    <2> QED
      BY <2>3, <2>4, <2>5, <2>6 DEF Arrives
  <1>3. CASE Pay(h)
    <2>1. PICK e \in effects :
             /\ Start(h, "pay", [guest |-> e.guest, channel |-> None, amount |-> e.amount], <<>>, "done")
             /\ effects' = IF Remaining(e.guest) <= e.amount
                      THEN effects \cup {[tool |-> "pay", guest |-> e.guest, by |-> h, amount |-> 0]}
                      ELSE effects
      BY <1>3 DEF Pay
    <2>2. \/ effects' = effects
          \/ \E d : d.by = h /\ d.tool = "pay" /\ effects' = effects \cup {d}
      BY <2>1
    <2>3. effects \subseteq effects' /\ <<>> \in Todo
      BY <2>2 DEF Todo
    <2>4. /\ SameOthers(h) /\ Unlogged /\ pc[h] = "idle"
          /\ pc'[h] = "done" /\ IsGot(got'[h]) /\ got'[h].todo = <<>>
      BY <2>1, <2>3, Starts
    <2> QED
      BY <2>2, <2>3, <2>4 DEF Arrives
  <1>4. CASE Delete(h)
    <2>1. PICK y : /\ Start(h, "remove", [guest |-> y, channel |-> None, amount |-> 0], <<>>, "done")
                   /\ UNCHANGED effects
      BY <1>4 DEF Delete
    <2>2. effects \subseteq effects' /\ <<>> \in Todo
      BY <2>1 DEF Todo
    <2>3. /\ SameOthers(h) /\ Unlogged /\ pc[h] = "idle"
          /\ pc'[h] = "done" /\ IsGot(got'[h]) /\ got'[h].todo = <<>>
      BY <2>1, <2>2, Starts
    <2> QED
      BY <2>1, <2>2, <2>3 DEF Arrives
  <1> QED
    BY <1>1, <1>2, <1>3, <1>4 DEF Arrive

\* What a handler under way can do.
Runs(h) == Moves(h) \/ Opens(h) \/ Updates(h) \/ Works(h) \/ Breaks(h) \/ Records(h) \/ Fails(h)

\* Every step of a handler under way.
LEMMA RunStep ==
    ASSUME IInv, NEW h \in Handlers, Run(h)
    PROVE  Runs(h) /\ SameOthers(h)
  <1> DEFINE Frame == /\ \A k \in Handlers \ {h} : pc'[k] = pc[k] /\ got'[k] = got[k]
                      /\ UNCHANGED locals
  <1>1. /\ pc \in [Handlers -> Place] /\ got = [k \in Handlers |-> got[k]]
        /\ pc[h] # "idle" => IsGot(got[h])
        /\ pre[h] \subseteq Ended
    BY DEF IInv, Shapes, LocalInv
  <1>2. CASE ResolveContext(h)
    <2>1. Moves(h) /\ Frame /\ UNCHANGED <<effects, calls>> /\ pc[h] \notin Final
      BY <1>1, <1>2 DEF ResolveContext, Goto, Moves, Keeps, Unlogged, talk, queue, locals, Final
    <2> QED
      BY <1>1, <2>1 DEF Runs, SameOthers, locals
  <1>3. CASE FindSession(h)
    <2>1. PICK s : \/ /\ \A i \in DOMAIN sessions : ~Continues(sessions[i], arg[h])
                      /\ Goto(h, "session", "open") /\ UNCHANGED got
                   \/ Goto(h, "session", "log") /\ got' = [got EXCEPT ![h].session = s]
      BY <1>3 DEF FindSession, Range
    <2>2. pc[h] = "session" /\ UNCHANGED <<effects, calls>> /\ UNCHANGED locals /\ Unlogged
      BY <1>3, <2>1 DEF FindSession, Goto, talk, queue, Unlogged
    <2>3. /\ IsGot(got'[h]) /\ got'[h].todo = got[h].todo
          /\ \A k \in Handlers \ {h} : got'[k] = got[k]
      BY <1>1, <2>1, <2>2 DEF IsGot
    <2>4. /\ \/ pc'[h] = "log"
             \/ pc'[h] = "open" /\ \A i \in DOMAIN sessions : ~Continues(sessions[i], arg[h])
          /\ \A k \in Handlers \ {h} : pc'[k] = pc[k]
      BY <1>1, <2>1 DEF Goto
    <2> QED
      BY <1>1, <2>2, <2>3, <2>4 DEF Runs, Moves, Keeps, SameOthers, locals, Final
  <1>4. CASE CreateSession(h)
    <2>1. /\ pc[h] = "open" /\ pc'[h] = "log" /\ \A k \in Handlers \ {h} : pc'[k] = pc[k]
          /\ UNCHANGED <<effects, calls, job, reminders, again>> /\ UNCHANGED locals
      BY <1>1, <1>4 DEF CreateSession, Goto, queue
    <2>2. /\ IsGot(got'[h]) /\ got'[h].todo = got[h].todo
          /\ \A k \in Handlers \ {h} : got'[k] = got[k]
      BY <1>1, <1>4, <2>1 DEF CreateSession, IsGot
    <2>3. sessions' = Append(sessions, [guest |-> arg[h].guest, channel |-> arg[h].channel,
                                        by |-> h, step |-> "new"])
      BY <1>4 DEF CreateSession
    <2> QED
      BY <1>1, <2>1, <2>2, <2>3 DEF Runs, Opens, Keeps, SameOthers, locals, Final
  <1>5. CASE LogMessage(h)
    <2>1. PICK lacks \in BOOLEAN :
             Goto(h, "log", IF lacks THEN "failed" ELSE IF got[h].todo = <<>> THEN "close" ELSE "tool")
      BY <1>5 DEF LogMessage
    <2>2. Moves(h) /\ Frame /\ UNCHANGED <<effects, calls>> /\ pc[h] \notin Final
      BY <1>1, <1>5, <2>1 DEF LogMessage, Goto, Moves, Keeps, Unlogged, queue, locals, Final
    <2> QED
      BY <1>1, <2>2 DEF Runs, SameOthers, locals
  <1>6. CASE ResolveGuest(h) \/ CheckBalance(h)
    <2>1. Moves(h) /\ Frame /\ UNCHANGED <<effects, calls>> /\ pc[h] \notin Final
      BY <1>1, <1>6 DEF ResolveGuest, CheckBalance, Goto, Moves, Keeps, Unlogged, talk, queue, locals, Final
    <2> QED
      BY <1>1, <2>1 DEF Runs, SameOthers, locals
  <1>7. CASE Work(h)
    <2>1. /\ pc[h] = "work" /\ pc'[h] = "record" /\ \A k \in Handlers \ {h} : pc'[k] = pc[k]
          /\ UNCHANGED <<sessions, calls, reminders, again>> /\ UNCHANGED locals
      BY <1>1, <1>7 DEF Work, Goto, talk
    <2>2. /\ IsGot(got'[h]) /\ got'[h].todo = got[h].todo
          /\ \A k \in Handlers \ {h} : got'[k] = got[k]
      <3>1. \/ got' = got
            \/ \E r : got' = [got EXCEPT ![h].read = r]
        BY <1>7 DEF Work
      <3> QED
        BY <1>1, <2>1, <3>1 DEF IsGot
    <2>3. /\ effects' = IF This(h) \in Effective THEN effects \cup {EffectOf(h)} ELSE effects
          /\ job' = IF This(h) = "sendPaymentReminder" THEN Queued(arg[h].guest) ELSE job
      BY <1>7 DEF Work
    <2>4. effects \subseteq effects'
      BY <2>3
    <2>5. Works(h)
      BY <2>1, <2>2, <2>3 DEF Works, Keeps, locals
    <2> QED
      BY <1>1, <2>1, <2>2, <2>4, <2>5 DEF Runs, SameOthers, locals, Final
  <1>8. CASE WorkFails(h)
    <2>1. effects' = effects \/ (This(h) \in Halfway /\ effects' = effects \cup {EffectOf(h)})
      BY <1>8 DEF WorkFails
    <2>2. /\ pc[h] = "work" /\ pc'[h] = "refuse" /\ \A k \in Handlers \ {h} : pc'[k] = pc[k]
          /\ UNCHANGED <<calls, got>> /\ UNCHANGED locals /\ Unlogged
      BY <1>1, <1>8 DEF WorkFails, Goto, talk, queue, Unlogged
    <2>3. effects \subseteq effects'
      BY <2>1
    <2> QED
      BY <1>1, <2>1, <2>2, <2>3 DEF Runs, Breaks, Keeps, SameOthers, locals, Final
  <1>9. CASE RecordCall(h)
    <2>1. /\ pc[h] = "record" /\ pc'[h] = AfterCall(h) /\ \A k \in Handlers \ {h} : pc'[k] = pc[k]
          /\ UNCHANGED <<sessions, effects, job, reminders, again>> /\ UNCHANGED locals
          /\ calls' = calls \cup {[by |-> h, tool |-> This(h), success |-> TRUE]}
      BY <1>1, <1>9 DEF RecordCall, Goto, talk, queue
    <2>2. /\ IsGot(got'[h]) /\ got'[h].todo = Tail(got[h].todo)
          /\ \A k \in Handlers \ {h} : got'[k] = got[k]
      BY <1>1, <1>9, <2>1 DEF RecordCall, IsGot
    <2> QED
      BY <1>1, <2>1, <2>2 DEF Runs, Records, Keeps, SameOthers, locals, Final
  <1>10. CASE RecordFails(h)
    <2>1. Moves(h) /\ Frame /\ UNCHANGED <<effects, calls>> /\ pc[h] \notin Final
      BY <1>1, <1>10 DEF RecordFails, AfterFailedRecord, Goto, Moves, Keeps, Unlogged, talk, queue, locals,
                         Final
    <2> QED
      BY <1>1, <2>1 DEF Runs, SameOthers, locals
  <1>11. CASE RecordFailure(h)
    <2>1. /\ Fails(h) /\ Frame /\ UNCHANGED effects /\ calls \subseteq calls' /\ pc[h] \notin Final
      BY <1>1, <1>11 DEF RecordFailure, Goto, Fails, Keeps, talk, queue, locals, Final
    <2> QED
      BY <1>1, <2>1 DEF Runs, SameOthers, locals
  <1>12. CASE UpdateSession(h)
    <2>1. /\ Updates(h) /\ Frame /\ UNCHANGED <<effects, calls>> /\ pc[h] \notin Final
      BY <1>1, <1>12 DEF UpdateSession, Goto, Updates, Keeps, queue, locals, Final
    <2> QED
      BY <1>1, <2>1 DEF Runs, SameOthers, locals
  <1>13. CASE Reply(h)
    <2>1. Moves(h) /\ Frame /\ UNCHANGED <<effects, calls>> /\ pc[h] \notin Final
      BY <1>1, <1>13 DEF Reply, Goto, Moves, Keeps, Unlogged, queue, locals, Final
    <2> QED
      BY <1>1, <2>1 DEF Runs, SameOthers, locals
  <1> QED
    BY <1>2, <1>3, <1>4, <1>5, <1>6, <1>7, <1>8, <1>9, <1>10, <1>11, <1>12, <1>13 DEF Run

-----------------------------------------------------------------------------
(* What each part of the invariant needs.                                   *)

\* Places, rows and locals keep their shapes.
LEMMA ShapesStay ==
    ASSUME IInv, [Next]_vars
    PROVE  Shapes'
  <1> USE DEF IInv, Shapes
  <1>1. ASSUME NEW h \in Handlers, Arrive(h) PROVE Shapes'
    <2>1. PICK kind, x, todo, first : Start(h, kind, x, todo, first)
      BY <1>1 DEF Arrive, HandleMessage, CallTool, Pay, Delete
    <2>2. Arrives(h)
      BY <1>1, ArriveStep
    <2>3. /\ pc' = [pc EXCEPT ![h] = first] /\ pc'[h] \in Place
          /\ arg' = [arg EXCEPT ![h] = x]
          /\ got' = [got EXCEPT ![h] = [session |-> None, read |-> 0, todo |-> todo]]
          /\ pre' = [pre EXCEPT ![h] = Ended] /\ Ended \subseteq Handlers
          /\ kinds' = kinds
      BY <2>1, <2>2 DEF Start, Goto, Arrives, Place, Calling, Final, Ended
    <2> QED
      BY <2>2, <2>3 DEF Arrives, Unlogged
  <1>2. ASSUME NEW h \in Handlers, Run(h) PROVE Shapes'
    <2>1. Runs(h) /\ SameOthers(h)
      BY <1>2, RunStep
    <2>2. /\ \E to : pc' = [pc EXCEPT ![h] = to]
          /\ got' = got \/ \E r : got' = [got EXCEPT ![h] = r]
      <3>1. CASE ResolveContext(h) \/ LogMessage(h) \/ ResolveGuest(h) \/ CheckBalance(h) \/ RecordFails(h)
                 \/ RecordFailure(h) \/ UpdateSession(h) \/ Reply(h) \/ WorkFails(h)
        BY <3>1 DEF ResolveContext, LogMessage, ResolveGuest, CheckBalance, RecordFails, RecordFailure,
                    UpdateSession, Reply, WorkFails, Goto
      <3>2. CASE FindSession(h) \/ CreateSession(h) \/ Work(h) \/ RecordCall(h)
        BY <3>2 DEF FindSession, CreateSession, Work, RecordCall, Goto
      <3> QED
        BY <1>2, <3>1, <3>2 DEF Run
    <2>3. pc'[h] \in Place
      BY <2>1 DEF Runs, Moves, Opens, Updates, Works, Breaks, Records, Fails, AfterCall, Place, Calling, Final
    <2>4. arg' = arg /\ pre' = pre /\ kinds' = kinds
      BY <2>1 DEF Runs, Moves, Opens, Updates, Works, Breaks, Records, Fails, Keeps, SameOthers
    <2>5. sessions' \in Seq(Session)
      <3>1. CASE Opens(h)
        <4>1. [guest |-> arg[h].guest, channel |-> arg[h].channel, by |-> h, step |-> "new"] \in Session
          BY <3>1 DEF Opens, Session, LocalInv, Final
        <4> QED
          BY <3>1, <4>1, AppendProperties DEF Opens
      <3>2. CASE Updates(h)
        BY <3>2, TouchedFacts DEF Updates
      <3> QED
        BY <2>1, <3>1, <3>2 DEF Runs, Moves, Works, Breaks, Records, Fails, Unlogged
    <2>6. job' \in [Guests -> JobState]
      BY <2>1 DEF Runs, Moves, Opens, Updates, Works, Breaks, Records, Fails, Unlogged, Queued, JobState
    <2>7. reminders' = reminders /\ again' = again
      BY <2>1 DEF Runs, Moves, Opens, Updates, Works, Breaks, Records, Fails, Unlogged
    <2>8. pc' \in [Handlers -> Place] /\ got' = [k \in Handlers |-> got'[k]]
      BY <2>2, <2>3
    <2> QED
      BY <2>4, <2>5, <2>6, <2>7, <2>8
  <1>3. ASSUME NEW g \in Guests, TakeJob(g) \/ SendReminder(g) \/ JobStalls(g) \/ ForgetJob(g)
        PROVE  Shapes'
    <2>1. pc' = pc /\ arg' = arg /\ got' = got /\ pre' = pre /\ kinds' = kinds /\ sessions' = sessions
      BY <1>3 DEF TakeJob, SendReminder, JobStalls, ForgetJob, talk, locals
    <2>2. job' \in [Guests -> JobState] /\ reminders' \in [Guests -> Nat] /\ again' \in Nat
      <3>1. CASE TakeJob(g) \/ ForgetJob(g)
        BY <3>1 DEF TakeJob, ForgetJob, JobState
      <3>2. CASE SendReminder(g)
        BY <3>2 DEF SendReminder, JobState
      <3>3. CASE JobStalls(g)
        BY <3>3 DEF JobStalls, JobState
      <3> QED
        BY <1>3, <3>1, <3>2, <3>3
    <2> QED
      BY <2>1, <2>2
  <1>4. CASE UNCHANGED vars
    BY <1>4 DEF vars, talk, queue, locals
  <1> QED
    BY <1>1, <1>2, <1>3, <1>4 DEF Next

\* A step of a handler.
Steps(h) == Arrives(h) \/ Runs(h)

\* Locals, and who has ended.
LEMMA LocalsStay ==
    ASSUME IInv, NEW h \in Handlers, Steps(h), SameOthers(h), NEW k \in Handlers
    PROVE  LocalInv(k)'
  <1> USE DEF IInv, Shapes
  <1>1. Ended \subseteq Ended'
    BY DEF Ended, SameOthers
  <1>2. pre'[k] \subseteq Ended'
    <2>1. CASE k = h
      BY <2>1, <1>1 DEF SameOthers
    <2>2. CASE k # h
      BY <2>2, <1>1 DEF SameOthers, LocalInv
    <2> QED
      BY <2>1, <2>2
  <1>3. CASE k # h
    BY <1>2, <1>3 DEF SameOthers, LocalInv
  <1>4. CASE k = h /\ Arrives(h)
    BY <1>2, <1>4 DEF LocalInv, Arrives, Calling, Final
  <1>5. CASE k = h /\ Records(h)
    <2>1. got[h].todo \in Todo /\ got[h].todo # <<>>
      BY <1>5 DEF Records, LocalInv, Calling
    <2>2. /\ Tail(got[h].todo) \in Todo
          /\ AfterCall(h) = "tool" => Tail(got[h].todo) # <<>>
          /\ AfterCall(h) \in {"tool", "close", "done"}
      BY <2>1, TodoFacts DEF AfterCall
    <2> QED
      BY <1>2, <1>5, <2>2 DEF LocalInv, Records, Keeps, Calling, Final
  <1>6. CASE k = h /\ Runs(h) /\ ~Records(h)
    <2>1. /\ arg' = arg /\ IsGot(got'[h]) /\ got'[h].todo = got[h].todo /\ pc[h] \notin {"idle"} \cup Final
          /\ pc'[h] # "idle"
      BY <1>6 DEF Runs, Moves, Opens, Updates, Works, Breaks, Fails, Keeps, Final
    <2>2. pc'[h] \in Calling => got[h].todo # <<>>
      BY <1>6 DEF Runs, Moves, Opens, Updates, Works, Breaks, Fails, Calling, Final, LocalInv
    <2>3. pc'[h] \in {"context", "session", "open"} => pc[h] \in {"context", "session", "open"}
      BY <1>6 DEF Runs, Moves, Opens, Updates, Works, Breaks, Fails, Final
    <2> QED
      BY <1>2, <1>6, <2>1, <2>2, <2>3 DEF LocalInv
  <1> QED
    BY <1>1, <1>3, <1>4, <1>5, <1>6 DEF Steps

\* Who is past opening a session stays so, with what it came with.
LEMMA PastStay ==
    ASSUME IInv, NEW h \in Handlers, Steps(h), SameOthers(h), NEW k \in Handlers,
           pc[k] \notin {"idle", "context", "session", "open"}
    PROVE  /\ pc'[k] \notin {"idle", "context", "session", "open"}
           /\ arg'[k] = arg[k] /\ pre'[k] = pre[k]
  <1>1. CASE k # h
    BY <1>1 DEF SameOthers
  <1>2. CASE k = h
    BY <1>2 DEF Steps, Arrives, Runs, Moves, Opens, Updates, Works, Breaks, Records, Fails, Keeps, AfterCall, Final
  <1> QED
    BY <1>1, <1>2

\* The sessions: whose they are, one each, and not opened next to one that could be seen.
SessionsInv ==
    /\ \A i \in DOMAIN sessions : SessionInv(i)
    /\ OneEach /\ OneConversation
    /\ \A h \in Handlers : OpenInv(h)

\* The sessions are those from before, each at a place of its own.
Permuted(w) ==
    /\ DOMAIN sessions' = DOMAIN sessions
    /\ \A j \in DOMAIN sessions :
          /\ w[j] \in DOMAIN sessions
          /\ sessions'[j].guest = sessions[w[j]].guest
          /\ sessions'[j].channel = sessions[w[j]].channel
          /\ sessions'[j].by = sessions[w[j]].by
          /\ \A k \in DOMAIN sessions : w[j] = w[k] => j = k

\* A step that leaves the sessions alone, or moves them, keeps all that.
LEMMA SessionsMove ==
    ASSUME IInv, NEW h \in Handlers, Steps(h), SameOthers(h), ~Opens(h)
    PROVE  SessionsInv'
  <1>1. PICK w : Permuted(w)
    <2>1. CASE Updates(h)
      <3>1. PICK i \in DOMAIN sessions : sessions' = Touched(i)
        BY <2>1 DEF Updates
      <3> DEFINE w == [j \in DOMAIN sessions |-> Was(i, j)]
      <3>2. \A j \in DOMAIN sessions : w[j] = Was(i, j)
        OBVIOUS
      <3>3. sessions \in Seq(Session)
        BY DEF IInv, Shapes
      <3> HIDE DEF w
      <3>4. Permuted(w)
        <4>1. /\ DOMAIN sessions' = DOMAIN sessions
              /\ \A j \in DOMAIN sessions :
                    /\ Was(i, j) \in DOMAIN sessions
                    /\ sessions'[j].guest = sessions[Was(i, j)].guest
                    /\ sessions'[j].channel = sessions[Was(i, j)].channel
                    /\ sessions'[j].by = sessions[Was(i, j)].by
                    /\ \A k \in DOMAIN sessions : Was(i, j) = Was(i, k) => j = k
          BY <3>1, <3>3, TouchedFacts
        <4> QED
          BY <3>2, <4>1 DEF Permuted
      <3> QED
        BY <3>4
    <2>2. CASE sessions' = sessions
      <3> DEFINE w == [j \in DOMAIN sessions |-> j]
      <3>1. \A j \in DOMAIN sessions : w[j] = j
        OBVIOUS
      <3> HIDE DEF w
      <3>2. Permuted(w)
        BY <2>2, <3>1 DEF Permuted
      <3> QED
        BY <3>2
    <2> QED
      BY <2>1, <2>2 DEF Steps, Arrives, Runs, Moves, Works, Breaks, Records, Fails, Unlogged
  <1>2. ASSUME NEW i \in DOMAIN sessions
        PROVE  LET k == sessions[i].by IN
               /\ k \in Handlers /\ pc'[k] \notin {"idle", "context", "session", "open"}
               /\ arg'[k] = arg[k] /\ pre'[k] = pre[k]
               /\ sessions[i].guest = arg[k].guest /\ sessions[i].channel = arg[k].channel
    <2>1. sessions[i].by \in Handlers
      <3>1. sessions \in Seq(Session) /\ i \in 1 .. Len(sessions)
        BY LenProperties DEF IInv, Shapes
      <3>2. sessions[i] \in Session
        BY <3>1, ElementOfSeq
      <3> QED
        BY <3>2 DEF Session
    <2> QED
      BY <2>1, PastStay DEF IInv, SessionInv
  <1>3. \A i \in DOMAIN sessions' : SessionInv(i)'
    BY <1>1, <1>2 DEF SessionInv, Permuted
  <1>4. OneEach'
    BY <1>1 DEF OneEach, IInv, Permuted
  <1>5. OneConversation'
    <2> SUFFICES ASSUME NEW i \in DOMAIN sessions, NEW j \in DOMAIN sessions, i # j,
                        sessions'[i].guest = sessions'[j].guest,
                        sessions'[i].channel = sessions'[j].channel
                 PROVE  /\ sessions'[i].by \notin pre'[sessions'[j].by]
                        /\ sessions'[j].by \notin pre'[sessions'[i].by]
      BY <1>1 DEF OneConversation, Overlap, Permuted
    <2>1. Overlap(sessions[w[i]].by, sessions[w[j]].by)
      BY <1>1 DEF IInv, OneConversation, Permuted
    <2> QED
      BY <1>1, <1>2, <2>1 DEF Overlap, Permuted
  <1>6. ASSUME NEW k \in Handlers, pc'[k] = "open", NEW j \in DOMAIN sessions,
               sessions'[j].guest = arg'[k].guest, sessions'[j].channel = arg'[k].channel
        PROVE  sessions'[j].by \notin pre'[k]
    <2>1. CASE k = h
      <3>1. sessions' = sessions /\ arg' = arg /\ ~Continues(sessions[j], arg[h])
        BY <1>6, <2>1 DEF Steps, Arrives, Runs, Moves, Updates, Works, Breaks, Records, Fails, AfterCall, Keeps,
                          Unlogged
      <3> QED
        BY <1>6, <2>1, <3>1 DEF Continues
    <2>2. CASE k # h
      BY <1>1, <1>6, <2>2 DEF SameOthers, IInv, OpenInv, Permuted
    <2> QED
      BY <2>1, <2>2
  <1>7. \A k \in Handlers : OpenInv(k)'
    BY <1>1, <1>6 DEF OpenInv, Permuted
  <1> QED
    BY <1>3, <1>4, <1>5, <1>7 DEF SessionsInv

\* A session that is opened is apart from those of messages that had finished.
LEMMA SessionOpens ==
    ASSUME IInv, NEW h \in Handlers, Opens(h), SameOthers(h)
    PROVE  SessionsInv'
  <1> DEFINE n == Len(sessions)
             new == [guest |-> arg[h].guest, channel |-> arg[h].channel, by |-> h, step |-> "new"]
  <1>1. /\ n \in Nat /\ DOMAIN sessions = 1 .. n /\ DOMAIN sessions' = 1 .. n + 1
        /\ \A i \in 1 .. n : sessions'[i] = sessions[i] /\ sessions[i].by \in Handlers
        /\ sessions'[n + 1] = new
    <2>1. sessions \in Seq(Session) /\ new \in Session /\ sessions' = Append(sessions, new)
      BY DEF IInv, Shapes, Session, LocalInv, Opens, Final
    <2>2. n \in Nat /\ DOMAIN sessions = 1 .. n /\ \A i \in 1 .. n : sessions[i].by \in Handlers
      <3>1. n \in Nat /\ DOMAIN sessions = 1 .. n
        BY <2>1, LenProperties
      <3>2. \A i \in 1 .. n : sessions[i] \in Session
        BY <2>1, ElementOfSeq
      <3> QED
        BY <3>1, <3>2 DEF Session
    <2>3. /\ sessions' \in Seq(Session) /\ Len(sessions') = n + 1 /\ sessions'[n + 1] = new
          /\ \A i \in 1 .. n : sessions'[i] = sessions[i]
      BY <2>1, AppendProperties
    <2> QED
      BY <2>2, <2>3, LenProperties
  <1>2. arg' = arg /\ pre' = pre /\ pc[h] = "open" /\ pc'[h] = "log"
    BY DEF Opens, Keeps
  <1>3. ASSUME NEW i \in 1 .. n
        PROVE  LET k == sessions[i].by IN
               /\ k # h /\ pc'[k] \notin {"idle", "context", "session", "open"}
               /\ sessions[i].guest = arg[k].guest /\ sessions[i].channel = arg[k].channel
    BY <1>1, <1>2 DEF IInv, SessionInv, SameOthers
  <1>4. \A k \in Handlers : h \notin pre[k]
    BY DEF IInv, LocalInv, Ended, SameOthers
  <1>5. \A i \in DOMAIN sessions' : SessionInv(i)'
    BY <1>1, <1>2, <1>3 DEF SessionInv
  <1>6. OneEach'
    BY <1>1, <1>3 DEF OneEach, IInv
  <1>7. ASSUME NEW i \in 1 .. n, new.guest = sessions[i].guest, new.channel = sessions[i].channel
        PROVE  sessions[i].by \notin pre[h] /\ h \notin pre[sessions[i].by]
    BY <1>1, <1>2, <1>4, <1>7 DEF IInv, OpenInv
  <1>8. OneConversation'
    <2> SUFFICES ASSUME NEW i \in 1 .. n + 1, NEW j \in 1 .. n + 1, i # j,
                        sessions'[i].guest = sessions'[j].guest,
                        sessions'[i].channel = sessions'[j].channel
                 PROVE  /\ sessions'[i].by \notin pre[sessions'[j].by]
                        /\ sessions'[j].by \notin pre[sessions'[i].by]
      BY <1>1, <1>2 DEF OneConversation, Overlap
    <2>1. CASE i \in 1 .. n /\ j \in 1 .. n
      BY <1>1, <2>1 DEF IInv, OneConversation, Overlap
    <2>2. CASE i = n + 1 \/ j = n + 1
      BY <1>1, <1>7, <2>2
    <2> QED
      BY <1>1, <2>1, <2>2
  <1>9. \A k \in Handlers : OpenInv(k)'
    BY <1>1, <1>2, <1>4 DEF OpenInv, IInv, SameOthers
  <1> QED
    BY <1>5, <1>6, <1>8, <1>9 DEF SessionsInv

\* The tool that is called next changes only with the record of the call before.
LEMMA ToolStays ==
    ASSUME IInv, NEW h \in Handlers, Steps(h), SameOthers(h), NEW k \in Handlers,
           pc[k] # "idle", k # h \/ ~Records(h)
    PROVE  This(k)' = This(k)
  <1>1. got'[k].todo = got[k].todo
    <2>1. CASE k # h
      BY <2>1 DEF SameOthers
    <2>2. CASE k = h
      BY <2>2 DEF Steps, Arrives, Runs, Moves, Opens, Updates, Works, Breaks, Fails
    <2> QED
      BY <2>1, <2>2
  <1> QED
    BY <1>1 DEF This

\* What was done is on record, or its handler is bound to record it.
LEMMA EffectsStay ==
    ASSUME IInv, NEW h \in Handlers, Steps(h), SameOthers(h)
    PROVE  \A e \in effects' : EffectInv(e)'
  <1>1. ASSUME NEW e \in effects PROVE EffectInv(e)'
    <2> DEFINE k == e.by
    <2>1. EffectInv(e) /\ k \in Handlers
      BY DEF IInv, EffectInv
    <2>2. CASE e.tool = "pay"
      BY <2>1, <2>2 DEF EffectInv
    <2>3. ASSUME e.tool # "pay", k # h PROVE EffectInv(e)'
      <3>1. pc'[k] = pc[k] /\ calls \subseteq calls'
        BY <2>1, <2>3 DEF SameOthers
      <3>2. pc[k] # "idle" => This(k)' = This(k)
        BY <2>1, <2>3, ToolStays
      <3> QED
        BY <2>1, <3>1, <3>2 DEF EffectInv
    <2>4. ASSUME e.tool # "pay", k = h, pc[h] \in {"record", "refuse"}, e.tool = This(h)
          PROVE  EffectInv(e)'
      <3>1. CASE Records(h)
        <4>1. AfterCall(h) \in {"close", "done"}
          <5>1. got[h].todo \in Todo /\ got[h].todo # <<>> /\ Head(got[h].todo) \in Effective
            BY <2>1, <2>4 DEF IInv, LocalInv, Calling, EffectInv, This
          <5> QED
            BY <5>1, TodoFacts DEF AfterCall
        <4>2. [by |-> e.by, tool |-> e.tool, success |-> TRUE] \in calls'
          BY <2>4, <3>1 DEF Records
        <4> QED
          BY <2>1, <2>4, <3>1, <4>1, <4>2 DEF Records, EffectInv
      <3>2. CASE Fails(h)
        <4>1. \E c \in calls' : c.by = e.by /\ ~c.success
          <5> DEFINE c == [by |-> h, tool |-> This(h), success |-> FALSE]
          <5>1. c \in calls' /\ c.by = e.by /\ c.success = FALSE
            BY <2>4, <3>2 DEF Fails
          <5> QED
            BY <5>1, Zenon
        <4> QED
          BY <2>1, <2>4, <3>2, <4>1 DEF Fails, EffectInv
      <3>3. CASE Moves(h)
        <4>1. This(h)' = This(h) /\ pc'[h] = "refuse"
          BY <2>4, <3>3, ToolStays DEF Moves, Records, AfterCall
        <4> QED
          BY <2>1, <2>4, <4>1 DEF EffectInv
      <3> QED
        BY <2>4, <3>1, <3>2, <3>3 DEF Steps, Arrives, Runs, Opens, Updates, Works, Breaks
    <2>5. ASSUME e.tool # "pay", k = h, pc[h] \in {"close", "reply"}
          PROVE  EffectInv(e)'
      <3>1. pc'[h] \in {"reply", "done"} /\ calls' = calls
        BY <2>5 DEF Steps, Arrives, Runs, Moves, Opens, Updates, Works, Breaks, Records, Fails, Unlogged
      <3> QED
        BY <2>1, <2>5, <3>1 DEF EffectInv
    <2> QED
      BY <2>1, <2>2, <2>3, <2>4, <2>5 DEF EffectInv, SameOthers, Final
  <1>2. ASSUME NEW e \in effects' \ effects PROVE EffectInv(e)'
    <2>1. CASE Arrives(h)
      BY <1>2, <2>1 DEF Arrives, EffectInv
    <2>2. CASE Works(h) \/ Breaks(h)
      <3>1. e = EffectOf(h) /\ This(h) \in Effective /\ pc'[h] \in {"record", "refuse"} /\ pc[h] = "work"
        BY <1>2, <2>2 DEF Works, Breaks, Halfway, Effective
      <3>2. This(h)' = This(h)
        BY <2>2, <3>1, ToolStays DEF Works, Breaks, Records
      <3>3. e.by = h /\ e.tool = This(h)
        BY <3>1 DEF EffectOf
      <3> QED
        BY <3>1, <3>2, <3>3 DEF EffectInv
    <2> QED
      BY <1>2, <2>1, <2>2 DEF Steps, Runs, Moves, Opens, Updates, Records, Fails
  <1> QED
    BY <1>1, <1>2

\* What is recorded as a success was done.
LEMMA RecordsStay ==
    ASSUME IInv, NEW h \in Handlers, Steps(h), SameOthers(h)
    PROVE  /\ \A k \in Handlers : DidInv(k)'
           /\ \A c \in calls' : CallInv(c)'
  <1>1. \A k, t : Did(k, t) => Did(k, t)'
    BY DEF Did, SameOthers
  <1>2. ASSUME NEW k \in Handlers, k # h PROVE DidInv(k)'
    <2>1. pc'[k] = pc[k] /\ DidInv(k)
      BY <1>2 DEF SameOthers, IInv
    <2>2. pc[k] = "record" => This(k)' = This(k)
      BY <1>2, ToolStays
    <2> QED
      BY <1>1, <2>1, <2>2 DEF DidInv
  <1>3. DidInv(h)'
    <2>1. CASE Works(h)
      <3>1. This(h)' = This(h)
        BY <2>1, ToolStays DEF Works, Records
      <3>2. This(h) \in Effective => \E e \in effects' : e.by = h /\ e.tool = This(h)
        <4>1. EffectOf(h).by = h /\ EffectOf(h).tool = This(h)
          BY DEF EffectOf
        <4> QED
          BY <2>1, <4>1 DEF Works
      <3> QED
        BY <3>1, <3>2 DEF DidInv, Did
    <2>2. CASE pc'[h] # "record"
      BY <2>2 DEF DidInv
    <2> QED
      BY <2>1, <2>2 DEF Steps, Arrives, Runs, Moves, Opens, Updates, Breaks, Records, Fails, AfterCall
  <1>4. ASSUME NEW c \in calls PROVE CallInv(c)'
    BY <1>1, <1>4 DEF CallInv, IInv
  <1>5. ASSUME NEW c \in calls' \ calls PROVE CallInv(c)'
    <2>1. CASE Records(h)
      <3>1. c.by = h /\ c.tool = This(h)
        BY <1>5, <2>1 DEF Records
      <3> QED
        BY <1>1, <2>1, <3>1 DEF IInv, DidInv, CallInv, Records
    <2>2. CASE Fails(h)
      BY <1>5, <2>2 DEF Fails, CallInv
    <2> QED
      BY <1>5, <2>1, <2>2 DEF Steps, Arrives, Runs, Moves, Opens, Updates, Works, Breaks, Unlogged
  <1> QED
    BY <1>2, <1>3, <1>4, <1>5

\* Each reminder that is sent or waits was asked for when there was no job.
LEMMA RemindersStay ==
    ASSUME IInv, NEW h \in Handlers, Steps(h), SameOthers(h), NEW g \in Guests
    PROVE  ReminderInv(g)'
  <1>1. ReminderInv(g) /\ reminders' = reminders /\ again' = again /\ reminders[g] \in Nat /\ again \in Nat
    BY DEF IInv, Shapes, Steps, Arrives, Runs, Moves, Opens, Updates, Works, Breaks, Records, Fails, Unlogged
  <1>2. CASE Works(h) /\ This(h) = "sendPaymentReminder" /\ arg[h].guest = g /\ job[g] = "none"
    <2>1. EffectOf(h) = [tool |-> "sendPaymentReminder", guest |-> g, by |-> h, amount |-> 1]
      BY <1>2 DEF EffectOf
    <2>2. Asked(g)' = Asked(g) \cup {EffectOf(h)}
      BY <1>2, <2>1 DEF Works, Effective, Asked
    <2>3. EffectOf(h) \notin Asked(g)
      BY <1>2, <2>1 DEF Asked, IInv, EffectInv, Works
    <2>4. IsFiniteSet(Asked(g)') /\ Cardinality(Asked(g)') = Cardinality(Asked(g)) + 1
      BY <1>1, <2>2, <2>3, FS_AddElement DEF ReminderInv
    <2>5. Pending(g) = 0 /\ Pending(g)' = 1
      BY <1>2 DEF Pending, Works, Queued, IInv, Shapes
    <2>6. Cardinality(Asked(g)) \in Nat
      BY <1>1, FS_CardinalityType DEF ReminderInv
    <2> QED
      BY <1>1, <2>4, <2>5, <2>6 DEF ReminderInv
  <1>3. CASE ~(Works(h) /\ This(h) = "sendPaymentReminder" /\ arg[h].guest = g /\ job[g] = "none")
    <2>1. Asked(g)' = Asked(g)
      <3>1. ASSUME NEW e \in effects' \ effects PROVE e \notin Asked(g)'
        <4>1. CASE Arrives(h)
          BY <3>1, <4>1 DEF Arrives, Asked
        <4>2. CASE Works(h)
          <5>1. e = EffectOf(h)
            BY <3>1, <4>2 DEF Works
          <5>2. e.tool = "sendPaymentReminder" /\ e.guest = g => e.amount = 0
            BY <1>3, <4>2, <5>1 DEF EffectOf
          <5> QED
            BY <5>2 DEF Asked
        <4>3. CASE Breaks(h)
          BY <3>1, <4>3 DEF Breaks, EffectOf, Asked, Halfway
        <4> QED
          BY <3>1, <4>1, <4>2, <4>3 DEF Steps, Runs, Moves, Opens, Updates, Records, Fails
      <3> QED
        BY <3>1 DEF Asked, SameOthers
    <2>2. job'[g] = job[g]
      <3>1. CASE Works(h)
        <4>1. arg[h].guest \in Guests
          BY <3>1 DEF IInv, LocalInv, Works, Final
        <4> QED
          BY <1>3, <3>1, <4>1 DEF Works, Queued, IInv, Shapes
      <3> QED
        BY <3>1 DEF Steps, Arrives, Runs, Moves, Opens, Updates, Breaks, Records, Fails, Unlogged
    <2> QED
      BY <1>1, <2>1, <2>2 DEF ReminderInv, Pending
  <1> QED
    BY <1>2, <1>3

-----------------------------------------------------------------------------
(* The worker, the start, and the theorems.                                 *)

\* A step of the worker keeps the invariant: a reminder that is sent had a job, and a
\* job that is delivered again is counted.
LEMMA WorkerStep ==
    ASSUME IInv, NEW g \in Guests, TakeJob(g) \/ SendReminder(g) \/ JobStalls(g) \/ ForgetJob(g)
    PROVE  IInv'
  <1>1. UNCHANGED <<effects, sessions, calls, pc, arg, got, pre>>
    BY DEF TakeJob, SendReminder, JobStalls, ForgetJob, talk, locals
  <1>2. Shapes'
    BY ShapesStay DEF Next
  <1>3. ASSUME NEW x \in Guests PROVE ReminderInv(x)'
    <2>1. /\ ReminderInv(x) /\ Asked(x)' = Asked(x) /\ Cardinality(Asked(x)) \in Nat
      BY <1>1, FS_CardinalityType DEF IInv, ReminderInv, Asked
    <2>2. /\ job \in [Guests -> JobState] /\ reminders \in [Guests -> Nat] /\ again \in Nat
      BY DEF IInv, Shapes
    <2>3. CASE TakeJob(g) \/ ForgetJob(g)
      BY <2>1, <2>2, <2>3 DEF TakeJob, ForgetJob, ReminderInv, Pending
    <2>4. CASE SendReminder(g)
      <3>1. /\ reminders'[x] = reminders[x] \/ (x = g /\ reminders'[x] = reminders[x] + 1)
            /\ job[g] = "active" /\ job' = [job EXCEPT ![g] = "kept"] /\ again' = again
        BY <2>2, <2>4 DEF SendReminder
      <3> QED
        BY <2>1, <2>2, <3>1 DEF ReminderInv, Pending
    <2>5. CASE JobStalls(g)
      <3>1. /\ reminders'[x] = reminders[x] \/ (x = g /\ reminders'[x] = reminders[x] + 1)
            /\ job[g] = "active" /\ job' = [job EXCEPT ![g] = "waiting"] /\ again' = again + 1
        BY <2>2, <2>5 DEF JobStalls
      <3> QED
        BY <2>1, <2>2, <3>1 DEF ReminderInv, Pending
    <2> QED
      BY <2>3, <2>4, <2>5
  <1> QED
    BY <1>1, <1>2, <1>3 DEF IInv, LocalInv, Ended, OpenInv, DidInv, Did, This, SessionInv, OneEach,
                            OneConversation, Overlap, EffectInv, CallInv

\* The invariant holds at the start.
LEMMA InitIInv == Init => IInv
  <1> SUFFICES ASSUME Init PROVE IInv
    OBVIOUS
  <1>1. Shapes
    <2>1. <<>> \in Seq(Session) /\ kinds \subseteq Op
      BY AgentAssumption, EmptySeq DEF Init
    <2> QED
      BY <2>1 DEF Init, Shapes, Place, JobState
  <1>2. \A h \in Handlers : LocalInv(h) /\ OpenInv(h) /\ DidInv(h)
    BY DEF Init, LocalInv, OpenInv, DidInv, Calling
  <1>3. DOMAIN sessions = {}
    BY DEF Init
  <1>4. ASSUME NEW g \in Guests PROVE ReminderInv(g)
    <2>1. Asked(g) = {} /\ reminders[g] = 0 /\ again = 0 /\ Pending(g) = 0
      BY DEF Init, Asked, Pending
    <2> QED
      BY <2>1, FS_EmptySet DEF ReminderInv
  <1> QED
    BY <1>1, <1>2, <1>3, <1>4 DEF IInv, OneEach, OneConversation, Init

\* Every step keeps the invariant.
LEMMA NextIInv == IInv /\ [Next]_vars => IInv'
  <1> SUFFICES ASSUME IInv, [Next]_vars PROVE IInv'
    OBVIOUS
  <1>1. ASSUME NEW h \in Handlers, Arrive(h) \/ Run(h) PROVE IInv'
    <2>1. Steps(h) /\ SameOthers(h)
      BY <1>1, ArriveStep, RunStep DEF Steps
    <2>2. SessionsInv'
      BY <2>1, SessionsMove, SessionOpens
    <2>3. \A k \in Handlers : LocalInv(k)'
      BY <2>1, LocalsStay
    <2>4. \A e \in effects' : EffectInv(e)'
      BY <2>1, EffectsStay
    <2>5. (\A k \in Handlers : DidInv(k)') /\ \A c \in calls' : CallInv(c)'
      BY <2>1, RecordsStay
    <2>6. \A g \in Guests : ReminderInv(g)'
      BY <2>1, RemindersStay
    <2> QED
      BY <2>2, <2>3, <2>4, <2>5, <2>6, ShapesStay DEF IInv, SessionsInv
  <1>2. ASSUME NEW g \in Guests, TakeJob(g) \/ SendReminder(g) \/ JobStalls(g) \/ ForgetJob(g)
        PROVE  IInv'
    BY <1>2, WorkerStep
  <1>3. CASE UNCHANGED vars
    BY <1>3 DEF vars, talk, queue, locals, IInv, Shapes, LocalInv, Ended, OpenInv, DidInv, Did, This, SessionInv,
                OneEach, OneConversation, Overlap, EffectInv, CallInv, ReminderInv, Asked, Pending
  <1> QED
    BY <1>1, <1>2, <1>3 DEF Next

\* The invariant holds throughout every behaviour.
THEOREM Invariance == Spec => []IInv
  BY InitIInv, NextIInv, PTL DEF Spec

\* handleMessage opens a second session for a guest on a channel only when the
\* messages that opened the two overlapped: one that starts later finds the session.
THEOREM ConversationsAreOne == Spec => []OneConversation
  <1>1. IInv => OneConversation
    BY DEF IInv
  <1> QED
    BY <1>1, Invariance, PTL

\* McpService logs every call before it answers, and the failure when the work or the
\* log itself failed: what a tool changed is on record, and no success is that was not.
THEOREM CallsStayOnRecord == Spec => []CallsAreOnRecord
  <1>1. IInv => CallsAreOnRecord
    BY DEF IInv, EffectInv, CallInv, Did, CallsAreOnRecord
  <1> QED
    BY <1>1, Invariance, PTL

\* sendPaymentReminder gives its job the guest's id: reminders are no more than the
\* requests that found no job, and the jobs delivered again.
THEOREM RemindersStaySpaced == Spec => []RemindersAreSpaced
  <1>1. ASSUME IInv, NEW g \in Guests
        PROVE  reminders[g] <= again + Cardinality(Asked(g))
    <2>1. /\ reminders[g] \in Nat /\ again \in Nat /\ Cardinality(Asked(g)) \in Nat
          /\ reminders[g] + Pending(g) <= again + Cardinality(Asked(g)) /\ Pending(g) \in 0 .. 1
      BY <1>1, FS_CardinalityType DEF IInv, Shapes, ReminderInv, Pending
    <2> QED
      BY <2>1
  <1>2. IInv => RemindersAreSpaced
    BY <1>1 DEF RemindersAreSpaced, Asked
  <1> QED
    BY <1>2, Invariance, PTL

-----------------------------------------------------------------------------
(* Sums.                                                                    *)

\* f with x added to its domain, where it has the value n.
Extends(f2, f, x, n) ==
    /\ x \notin DOMAIN f
    /\ DOMAIN f2 = DOMAIN f \cup {x}
    /\ \A y \in DOMAIN f : f2[y] = f[y]
    /\ f2[x] = n

\* A sum is a natural number, and one number more adds just that number.
LEMMA TotalGrows ==
    ASSUME NEW f, NEW f2, NEW x, NEW n \in Nat, IsFiniteSet(Units(f)), Extends(f2, f, x, n)
    PROVE  /\ IsFiniteSet(Units(f2))
           /\ Total(f) \in Nat /\ Total(f2) = Total(f) + n
  <1> DEFINE own == {x} \X (1 .. n)
  <1>1. Units(f2) = Units(f) \cup own
    BY DEF Units, Extends
  <1>2. Units(f) \cap own = {}
    BY DEF Units, Extends
  <1>3. IsFiniteSet(own) /\ Cardinality(own) = n
    <2>1. IsFiniteSet({x}) /\ Cardinality({x}) = 1
      BY FS_Singleton
    <2>2. IsFiniteSet(1 .. n) /\ Cardinality(1 .. n) = n
      BY FS_Interval
    <2>3. IsFiniteSet(own) /\ Cardinality(own) = Cardinality({x}) * Cardinality(1 .. n)
      BY <2>1, <2>2, FS_Product, Zenon
    <2> QED
      BY <2>1, <2>2, <2>3
  <1>4. Cardinality(Units(f)) \in Nat
    BY FS_CardinalityType
  <1>5. Cardinality(Units(f) \cap own) = 0
    BY <1>2, FS_EmptySet
  <1> HIDE DEF own
  <1> QED
    BY <1>1, <1>3, <1>4, <1>5, FS_Union DEF Total

\* Nothing adds up to nothing.
LEMMA TotalOfNothing ==
    ASSUME NEW f, DOMAIN f = {}
    PROVE  IsFiniteSet(Units(f)) /\ Total(f) = 0
  <1>1. Units(f) = {}
    BY DEF Units
  <1> QED
    BY <1>1, FS_EmptySet DEF Total

-----------------------------------------------------------------------------
(* Types, and what guests owe.                                              *)

Openers == {sessions[i].by : i \in DOMAIN sessions}

\* Whoever writes into a session has found or opened it.
SessionOf(h) ==
    /\ pc[h] \in {"context", "session", "open", "log", "close", "reply"} => op[h] \in Intent
    /\ pc[h] \in {"log", "close", "reply"} \cup Calling /\ op[h] \in Intent =>
          got[h].session \in Openers

\* The payments credited to g, and the amounts of the two sides of the account.
PayersOf(g) == {k \in Handlers : pc[k] # "idle" /\ op[k] = "pay" /\ arg[k].guest = g}
AmountsPaid(g) == [k \in PayersOf(g) |-> arg[k].amount]
AmountsCharged(g) == [e \in PaidCharges(g) |-> e.amount]

\* What was credited for charges is what was paid.
MoneyInv(g) ==
    /\ IsFiniteSet(Units(AmountsPaid(g))) /\ IsFiniteSet(Units(AmountsCharged(g)))
    /\ Credited(g) = Total(AmountsPaid(g))

Overlapped(h) == \E k \in PayersOf(arg[h].guest) : Overlap(k, h)

\* What a request knows of the balance from its first tool, and from the check.
BalanceInv(h) ==
    /\ pc[h] # "idle" =>
          /\ op[h] = "PAY_FULL" => arg[h].amount = 0
          /\ got[h].read \in 0 .. Required
          /\ got[h].read = 0 \/ got[h].read = Owed(h, arg[h].guest) \/ Overlapped(h)
    /\ pc[h] = "work" /\ This(h) = "createPaymentRequest" =>
          /\ AmountOf(h) \in 1 .. Required
          /\ AmountOf(h) <= Owed(h, arg[h].guest) \/ Overlapped(h)

IsCharge(e) == e.tool = "createPaymentRequest"

\* A charge asks for what its request knew, and a request makes one at most.
ChargeInv(e) ==
    IsCharge(e) =>
        /\ e.guest = arg[e.by].guest
        /\ \/ /\ e.amount <= Owed(e.by, e.guest)
              /\ op[e.by] = "PAY_FULL" => e.amount = Owed(e.by, e.guest)
           \/ Overlapped(e.by)

OneChargeEach == \A e, f \in effects : IsCharge(e) /\ IsCharge(f) /\ e.by = f.by => e = f

MInv ==
    /\ IInv /\ TypeOK
    /\ \A h \in Handlers : SessionOf(h) /\ BalanceInv(h)
    /\ \A e \in effects : ChargeInv(e)
    /\ OneChargeEach
    /\ \A g \in Guests : MoneyInv(g)

\* Intents, tools and what happens elsewhere have names of their own.
LEMMA NamesApart ==
    /\ Intent \cap Tool = {} /\ "pay" \notin Intent \cup Tool /\ "remove" \notin Intent \cup Tool
    /\ "PAY_FULL" \in Intent
    /\ "createPaymentRequest" \in Effective \ Halfway /\ Halfway \subseteq Effective
    /\ Effective \subseteq Tool /\ "getGuestBalance" \notin Effective
  <1>1. Intent = {"GREETING", "EVENT_INFO", "RSVP_YES", "RSVP_NO", "CHECK_BALANCE", "MAKE_PLEDGE",
                  "REQUEST_TICKET", "REQUEST_INVITE_CARD", "PAYMENT_STATUS", "HUMAN_SUPPORT",
                  "PAY_FULL", "PAY_PARTIAL"}
    BY DEF Intent, Topics, Range
  <1> QED
    BY <1>1 DEF Tool, ForEvent, ForGuest, Effective, Halfway

\* What a request came with is as it was given, and stays so.
LEMMA TermsOfStart ==
    ASSUME MInv, NEW h \in Handlers, NEW kind, NEW x, NEW todo, NEW first, Start(h, kind, x, todo, first)
    PROVE  pc'[h] = first /\ op'[h] = kind /\ arg'[h] = x /\ got'[h].read = 0
  BY DEF Start, Goto, MInv, IInv, Shapes, TypeOK

LEMMA OthersAtStart ==
    ASSUME MInv, NEW h \in Handlers, NEW kind, NEW x, NEW todo, NEW first, Start(h, kind, x, todo, first)
    PROVE  /\ pc[h] = "idle"
           /\ \A k \in Handlers \ {h} :
                 pc'[k] = pc[k] /\ op'[k] = op[k] /\ arg'[k] = arg[k] /\ pre'[k] = pre[k]
  BY DEF Start, Goto, MInv, IInv, Shapes, TypeOK

LEMMA RunKeeps ==
    ASSUME NEW h \in Handlers, Run(h)
    PROVE  UNCHANGED <<removed, paid, op, arg, pre>>
  BY DEF Run, ResolveContext, FindSession, CreateSession, LogMessage, ResolveGuest, CheckBalance, Work,
         WorkFails, RecordCall, RecordFails, RecordFailure, UpdateSession, Reply, locals

LEMMA WorkerKeeps ==
    ASSUME NEW g \in Guests, TakeJob(g) \/ SendReminder(g) \/ JobStalls(g) \/ ForgetJob(g)
    PROVE  UNCHANGED <<removed, effects, paid, sessions, messages, calls, pc, op, arg, pre, kinds, got>>
  BY DEF TakeJob, SendReminder, JobStalls, ForgetJob, talk, locals

LEMMA TermsKept ==
    ASSUME MInv, [Next]_vars, NEW k \in Handlers, pc[k] # "idle"
    PROVE  pc'[k] # "idle" /\ op'[k] = op[k] /\ arg'[k] = arg[k] /\ pre'[k] = pre[k]
  <1>1. ASSUME NEW h \in Handlers, Arrive(h)
        PROVE  pc'[k] # "idle" /\ op'[k] = op[k] /\ arg'[k] = arg[k] /\ pre'[k] = pre[k]
    <2>1. PICK kind, x, todo, first : Start(h, kind, x, todo, first)
      BY <1>1 DEF Arrive, HandleMessage, CallTool, Pay, Delete
    <2> QED
      BY <2>1, OthersAtStart
  <1>2. ASSUME NEW h \in Handlers, Run(h)
        PROVE  pc'[k] # "idle" /\ op'[k] = op[k] /\ arg'[k] = arg[k] /\ pre'[k] = pre[k]
    <2>1. Runs(h) /\ SameOthers(h) /\ op' = op /\ arg' = arg /\ pre' = pre
      BY <1>2, RunStep, RunKeeps DEF MInv
    <2>2. pc'[h] # "idle"
      BY <2>1 DEF Runs, Moves, Opens, Updates, Works, Breaks, Records, Fails, AfterCall
    <2> QED
      BY <2>1, <2>2 DEF SameOthers
  <1>3. ASSUME NEW g \in Guests, TakeJob(g) \/ SendReminder(g) \/ JobStalls(g) \/ ForgetJob(g)
        PROVE  pc' = pc /\ op' = op /\ arg' = arg /\ pre' = pre
    BY <1>3, WorkerKeeps
  <1>4. CASE UNCHANGED vars
    BY <1>4 DEF vars, locals
  <1> QED
    BY <1>1, <1>2, <1>3, <1>4 DEF Next

\* Who has paid has paid.
LEMMA PayersGrow ==
    ASSUME MInv, [Next]_vars, NEW g
    PROVE  PayersOf(g) \subseteq PayersOf(g)'
  BY TermsKept DEF PayersOf

\* Only a payment adds to the payments.
LEMMA PayersStay ==
    ASSUME MInv, [Next]_vars, \A h \in Handlers : ~Pay(h), NEW g
    PROVE  PayersOf(g)' = PayersOf(g) /\ AmountsPaid(g)' = AmountsPaid(g)
  <1>1. ASSUME NEW k \in Handlers, pc[k] = "idle" PROVE pc'[k] = "idle" \/ op'[k] # "pay"
    <2>1. ASSUME NEW h \in Handlers, Arrive(h) PROVE pc'[k] = "idle" \/ op'[k] # "pay"
      <3>1. PICK kind, x, todo, first :
               kind \in Intent \cup Tool \cup {"remove"} /\ Start(h, kind, x, todo, first)
        <4>1. CASE HandleMessage(h)
          <5>1. PICK g1 \in Guests, c \in Channels, i \in (kinds \cap Intent) \cup {Infer(t) : t \in Texts} :
                   \E n : Start(h, i, [guest |-> g1, channel |-> c, amount |-> n], Plan[i], "context")
            BY <4>1 DEF HandleMessage
          <5>2. i \in Intent
            BY InferFacts
          <5> QED
            BY <5>1, <5>2
        <4>2. CASE CallTool(h) \/ Delete(h)
          BY <4>2 DEF CallTool, Delete
        <4> QED
          BY <2>1, <4>1, <4>2 DEF Arrive
      <3>2. op'[h] = kind /\ \A p \in Handlers \ {h} : pc'[p] = pc[p]
        BY <3>1, TermsOfStart, OthersAtStart
      <3>3. kind # "pay"
        BY <3>1, NamesApart
      <3> QED
        BY <1>1, <3>2, <3>3
    <2>2. ASSUME NEW h \in Handlers, Run(h) PROVE pc'[k] = "idle"
      <3>1. Runs(h) /\ SameOthers(h)
        BY <2>2, RunStep DEF MInv
      <3>2. k # h
        BY <1>1, <3>1 DEF Runs, Moves, Opens, Updates, Works, Breaks, Records, Fails
      <3> QED
        BY <1>1, <3>1, <3>2 DEF SameOthers
    <2>3. ASSUME NEW x \in Guests, TakeJob(x) \/ SendReminder(x) \/ JobStalls(x) \/ ForgetJob(x)
          PROVE  pc' = pc
      BY <2>3, WorkerKeeps
    <2>4. UNCHANGED vars => pc' = pc
      BY DEF vars
    <2> QED
      BY <1>1, <2>1, <2>2, <2>3, <2>4 DEF Next
  <1>2. PayersOf(g)' = PayersOf(g)
    BY <1>1, TermsKept DEF PayersOf
  <1>3. \A k \in PayersOf(g) : arg'[k] = arg[k]
    BY TermsKept DEF PayersOf
  <1> QED
    BY <1>2, <1>3 DEF AmountsPaid

\* What a request owed when it started does not change, and who overlapped with a
\* payment has done so.
LEMMA OwedStays ==
    ASSUME MInv, [Next]_vars, NEW k \in Handlers, pc[k] # "idle", NEW g
    PROVE  /\ Owed(k, g)' = Owed(k, g)
           /\ Overlapped(k) => Overlapped(k)'
  <1>1. /\ pre'[k] = pre[k] /\ arg'[k] = arg[k]
        /\ \A p \in pre[k] : p \in Handlers /\ pc[p] # "idle"
    BY TermsKept DEF MInv, IInv, Shapes, LocalInv, Ended, Final
  <1>2. \A p \in pre[k] : op'[p] = op[p] /\ arg'[p] = arg[p]
    BY <1>1, TermsKept
  <1>3. PaidBefore(k, g)' = PaidBefore(k, g)
    BY <1>1, <1>2 DEF PaidBefore
  <1>4. [p \in PaidBefore(k, g) |-> arg[p].amount]' = [p \in PaidBefore(k, g) |-> arg[p].amount]
    BY <1>1, <1>2, <1>3 DEF PaidBefore
  <1>5. Overlapped(k) => Overlapped(k)'
    <2> SUFFICES ASSUME NEW p \in PayersOf(arg[k].guest), Overlap(p, k)
                 PROVE  p \in PayersOf(arg[k].guest)' /\ Overlap(p, k)'
      BY <1>1 DEF Overlapped
    <2>1. p \in PayersOf(arg[k].guest)'
      BY <1>1, PayersGrow, TermsKept DEF PayersOf
    <2>2. pre'[p] = pre[p]
      BY TermsKept DEF PayersOf
    <2> QED
      BY <1>1, <2>1, <2>2 DEF Overlap
  <1> QED
    BY <1>4, <1>5 DEF Owed

\* A request under way that overlaps with no payment has seen them all.
LEMMA SawAllPayments ==
    ASSUME MInv, NEW k \in Handlers, pc[k] \notin {"idle"} \cup Final, NEW g \in Guests, g = arg[k].guest
    PROVE  /\ Remaining(g) \in 0 .. Required
           /\ Remaining(g) = 0 \/ Remaining(g) = Owed(k, g) \/ Overlapped(k)
  <1>1. Credited(g) \in Nat /\ Credited(g) = Total(AmountsPaid(g)) /\ Required \in Nat
    BY AgentAssumption, FS_CardinalityType DEF MInv, MoneyInv, Total
  <1>2. ~Overlapped(k) => PaidBefore(k, g) = PayersOf(g)
    <2> SUFFICES ASSUME ~Overlapped(k), NEW p \in Handlers
                 PROVE  p \in PaidBefore(k, g) <=> p \in PayersOf(g)
      BY DEF PaidBefore, PayersOf, MInv, IInv, Shapes
    <2>1. pre[k] \subseteq Ended /\ pre[p] \subseteq Ended /\ k \notin Ended
      BY DEF MInv, IInv, LocalInv, Ended
    <2>2. p \in PayersOf(g) => p \in pre[k]
      BY <2>1 DEF Overlapped, Overlap
    <2> QED
      BY <2>1, <2>2 DEF PaidBefore, PayersOf, Ended, Final
  <1>3. ~Overlapped(k) => Owed(k, g) = Required - Credited(g)
    BY <1>1, <1>2 DEF Owed, AmountsPaid
  <1> QED
    BY <1>1, <1>3 DEF Remaining

\* Whoever opened a session keeps it: an update moves the rows.
LEMMA OpenersStay ==
    ASSUME MInv, [Next]_vars
    PROVE  Openers \subseteq Openers' /\ Openers \subseteq Handlers
  <1> DEFINE n == Len(sessions)
  <1>1. /\ sessions \in Seq(Session) /\ n \in Nat /\ DOMAIN sessions = 1 .. n
        /\ \A i \in 1 .. n : sessions[i].by \in Handlers
    <2>1. sessions \in Seq(Session)
      BY DEF MInv, TypeOK
    <2>2. \A i \in 1 .. n : sessions[i] \in Session
      BY <2>1, ElementOfSeq
    <2> QED
      BY <2>1, <2>2, LenProperties DEF Session
  <1>2. ASSUME NEW i \in DOMAIN sessions, sessions' = Touched(i) PROVE Openers \subseteq Openers'
    <2>1. /\ DOMAIN sessions' = DOMAIN sessions
          /\ \A j \in DOMAIN sessions : sessions'[j].by = sessions[Was(i, j)].by
      BY <1>1, <1>2, TouchedFacts
    <2>2. ASSUME NEW m \in 1 .. n PROVE \E j \in 1 .. n : Was(i, j) = m
      <3>1. i \in 1 .. n
        BY <1>1
      <3> HIDE DEF n
      <3>2. CASE m < i
        BY <1>1, <3>1, <3>2 DEF Was
      <3>3. CASE m > i
        <4>1. m - 1 \in 1 .. n /\ ~(m - 1 < i) /\ m - 1 < n /\ (m - 1) + 1 = m
          BY <1>1, <3>1, <3>3
        <4> QED
          BY <4>1 DEF Was, n
      <3>4. CASE m = i
        <4>1. n \in 1 .. n /\ ~(n < i) /\ ~(n < n)
          BY <1>1, <3>1
        <4> QED
          BY <3>4, <4>1 DEF Was, n
      <3> QED
        BY <1>1, <3>1, <3>2, <3>3, <3>4
    <2>3. ASSUME NEW m \in DOMAIN sessions PROVE \E j \in DOMAIN sessions' : sessions'[j].by = sessions[m].by
      <3>1. PICK j \in 1 .. n : Was(i, j) = m
        BY <1>1, <2>2, <2>3
      <3> QED
        BY <1>1, <2>1, <3>1
    <2> QED
      BY <2>3 DEF Openers
  <1>3. ASSUME NEW s \in Session, sessions' = Append(sessions, s) PROVE Openers \subseteq Openers'
    <2>1. DOMAIN sessions' = 1 .. n + 1 /\ \A i \in 1 .. n : sessions'[i] = sessions[i]
      BY <1>1, <1>3, AppendProperties, LenProperties
    <2> QED
      BY <1>1, <2>1 DEF Openers
  <1>4. ASSUME sessions' = sessions PROVE Openers \subseteq Openers'
    BY <1>4, Zenon DEF Openers
  <1>5. ASSUME NEW h \in Handlers, Opens(h)
        PROVE  [guest |-> arg[h].guest, channel |-> arg[h].channel, by |-> h, step |-> "new"] \in Session
    BY <1>5 DEF MInv, IInv, LocalInv, Opens, Session, Final
  <1>6. ASSUME NEW h \in Handlers, Steps(h) PROVE Openers \subseteq Openers'
    BY <1>2, <1>3, <1>4, <1>5, <1>6 DEF Steps, Arrives, Runs, Moves, Opens, Updates, Works, Breaks, Records, Fails,
                                        Unlogged
  <1>7. Openers \subseteq Openers'
    BY <1>4, <1>6, ArriveStep, RunStep, WorkerKeeps DEF Next, Steps, vars, talk, MInv
  <1> QED
    BY <1>1, <1>7 DEF Openers

\* The charges that are there after a step: those from before, and that of a tool at work.
LEMMA NewCharges ==
    ASSUME MInv, [Next]_vars, NEW e \in effects' \ effects, IsCharge(e)
    PROVE  \E h \in Handlers : /\ Work(h) /\ pc[h] = "work" /\ e = EffectOf(h)
                               /\ This(h) = "createPaymentRequest"
                               /\ e.by = h /\ e.guest = arg[h].guest /\ e.amount = AmountOf(h)
  <1>1. ASSUME NEW h \in Handlers, Arrive(h) PROVE FALSE
    BY <1>1, ArriveStep DEF MInv, Arrives, IsCharge
  <1>2. ASSUME NEW h \in Handlers, Run(h)
        PROVE  /\ Work(h) /\ pc[h] = "work" /\ e = EffectOf(h) /\ This(h) = "createPaymentRequest"
               /\ e.by = h /\ e.guest = arg[h].guest /\ e.amount = AmountOf(h)
    <2>1. Runs(h)
      BY <1>2, RunStep DEF MInv
    <2>2. e = EffectOf(h) /\ This(h) = "createPaymentRequest" /\ Works(h)
      <3>1. ~Breaks(h)
        BY NamesApart DEF Breaks, EffectOf, IsCharge
      <3>2. EffectOf(h).tool = This(h)
        BY DEF EffectOf
      <3> QED
        BY <2>1, <3>1, <3>2 DEF Runs, Moves, Opens, Updates, Works, Records, Fails, IsCharge
    <2>3. e.by = h /\ e.guest = arg[h].guest /\ e.amount = AmountOf(h) /\ pc[h] = "work"
      BY <2>2 DEF EffectOf, Works
    <2>4. Work(h)
      <3>1. pc[h] = "work" /\ pc'[h] = "record"
        BY <2>2 DEF Works
      <3>2. Work(h) \/ WorkFails(h)
        <4>1. /\ ~ResolveContext(h) /\ ~FindSession(h) /\ ~CreateSession(h) /\ ~LogMessage(h)
              /\ ~ResolveGuest(h) /\ ~CheckBalance(h)
          BY <3>1 DEF ResolveContext, FindSession, CreateSession, LogMessage, ResolveGuest, CheckBalance, Goto
        <4>2. ~RecordCall(h) /\ ~RecordFails(h) /\ ~RecordFailure(h) /\ ~UpdateSession(h) /\ ~Reply(h)
          BY <3>1 DEF RecordCall, RecordFails, RecordFailure, UpdateSession, Reply, Goto
        <4> QED
          BY <1>2, <4>1, <4>2 DEF Run
      <3>3. ~WorkFails(h)
        BY <3>1 DEF WorkFails, Goto, MInv, IInv, Shapes
      <3> QED
        BY <3>2, <3>3
    <2> QED
      BY <2>2, <2>3, <2>4
  <1>3. ASSUME NEW g \in Guests, TakeJob(g) \/ SendReminder(g) \/ JobStalls(g) \/ ForgetJob(g)
        PROVE  FALSE
    BY <1>3, WorkerKeeps
  <1> QED
    BY <1>1, <1>2, <1>3 DEF Next, vars

\* Who made a charge has called its tool.
LEMMA ChargedAfterWork ==
    ASSUME MInv, NEW e \in effects, IsCharge(e)
    PROVE  e.by \in Handlers /\ pc[e.by] \notin {"idle", "work"}
  BY DEF MInv, IInv, EffectInv, IsCharge

\* What was charged stays with what was known, and a request charges once.
LEMMA ChargesStay ==
    ASSUME MInv, [Next]_vars
    PROVE  (\A e \in effects' : ChargeInv(e)') /\ OneChargeEach'
  <1>1. ASSUME NEW e \in effects PROVE ChargeInv(e)'
    <2> SUFFICES ASSUME IsCharge(e) PROVE ChargeInv(e)'
      BY DEF ChargeInv, IsCharge
    <2>1. e.by \in Handlers /\ pc[e.by] # "idle" /\ ChargeInv(e)
      BY ChargedAfterWork DEF MInv
    <2>2. /\ op'[e.by] = op[e.by] /\ arg'[e.by] = arg[e.by]
          /\ Owed(e.by, e.guest)' = Owed(e.by, e.guest)
          /\ Overlapped(e.by) => Overlapped(e.by)'
      BY <2>1, TermsKept, OwedStays
    <2> QED
      BY <2>1, <2>2 DEF ChargeInv
  <1>2. ASSUME NEW e \in effects' \ effects, IsCharge(e) PROVE ChargeInv(e)'
    <2>1. PICK h \in Handlers : /\ pc[h] = "work" /\ This(h) = "createPaymentRequest"
                                /\ e.by = h /\ e.guest = arg[h].guest /\ e.amount = AmountOf(h)
      BY <1>2, NewCharges
    <2>2. /\ op'[h] = op[h] /\ arg'[h] = arg[h]
          /\ Owed(h, e.guest)' = Owed(h, e.guest)
          /\ Overlapped(h) => Overlapped(h)'
      BY <2>1, TermsKept, OwedStays
    <2>3. /\ e.amount \in 1 .. Required
          /\ e.amount <= Owed(h, e.guest) \/ Overlapped(h)
      BY <2>1 DEF MInv, BalanceInv
    <2>4. op[h] = "PAY_FULL" => e.amount = Owed(h, e.guest) \/ Overlapped(h)
      <3> SUFFICES ASSUME op[h] = "PAY_FULL" PROVE e.amount = Owed(h, e.guest) \/ Overlapped(h)
        OBVIOUS
      <3>1. /\ arg[h].amount = 0
            /\ got[h].read = 0 \/ got[h].read = Owed(h, arg[h].guest) \/ Overlapped(h)
        BY <2>1 DEF MInv, BalanceInv
      <3>2. e.amount = got[h].read
        BY <2>1, <3>1 DEF AmountOf
      <3> QED
        BY <2>1, <2>3, <3>1, <3>2
    <2> QED
      BY <2>1, <2>2, <2>3, <2>4 DEF ChargeInv
  <1>3. \A e \in effects' : ChargeInv(e)'
    BY <1>1, <1>2 DEF ChargeInv, IsCharge
  <1>4. OneChargeEach'
    <2> SUFFICES ASSUME NEW e \in effects', NEW f \in effects', IsCharge(e), IsCharge(f), e.by = f.by
                 PROVE  e = f
      BY DEF OneChargeEach, IsCharge
    <2>1. CASE e \in effects /\ f \in effects
      BY <2>1 DEF MInv, OneChargeEach
    <2>2. CASE e \notin effects /\ f \in effects
      BY <2>2, NewCharges, ChargedAfterWork
    <2>3. CASE e \in effects /\ f \notin effects
      BY <2>3, NewCharges, ChargedAfterWork
    <2>4. CASE e \notin effects /\ f \notin effects
      BY <2>4, NewCharges
    <2> QED
      BY <2>1, <2>2, <2>3, <2>4
  <1> QED
    BY <1>3, <1>4

\* Effects and payments stay; nothing but a payment makes a charge paid.
LEMMA EffectsGrow ==
    ASSUME MInv, [Next]_vars
    PROVE  /\ effects \subseteq effects' /\ paid \subseteq paid'
           /\ (\A h \in Handlers : ~Pay(h)) => paid' = paid
  <1>1. ASSUME NEW h \in Handlers, Steps(h), SameOthers(h) PROVE effects \subseteq effects'
    BY <1>1 DEF SameOthers
  <1>2. ASSUME NEW h \in Handlers, Arrive(h)
        PROVE  paid \subseteq paid' /\ (~Pay(h) => paid' = paid)
    BY <1>2 DEF Arrive, HandleMessage, CallTool, Pay, Delete
  <1>3. ASSUME NEW h \in Handlers, Run(h) PROVE paid' = paid
    BY <1>3, RunKeeps
  <1> QED
    BY <1>1, <1>2, <1>3, ArriveStep, RunStep, WorkerKeeps DEF Next, Steps, vars, MInv

\* What a payment does: one charge that was not paid is, and one payment of its amount is
\* there more.
PayStep(h, e) ==
    /\ e \in effects /\ IsCharge(e) /\ e.by \notin paid
    /\ paid' = paid \cup {e.by}
    /\ \A x \in effects' \ effects : ~IsCharge(x)
    /\ pc[h] = "idle" /\ pc'[h] = "done" /\ op'[h] = "pay"
    /\ arg'[h].guest = e.guest /\ arg'[h].amount = e.amount
    /\ \A k \in Handlers \ {h} : pc'[k] = pc[k] /\ op'[k] = op[k] /\ arg'[k] = arg[k]

LEMMA PaySteps ==
    ASSUME MInv, NEW h \in Handlers, Pay(h)
    PROVE  \E e \in effects : PayStep(h, e)
  <1> DEFINE X(e) == [guest |-> e.guest, channel |-> None, amount |-> e.amount]
  <1>1. PICK e \in effects :
           /\ e.tool = "createPaymentRequest" /\ e.by \notin paid
           /\ Start(h, "pay", X(e), <<>>, "done")
           /\ paid' = paid \cup {e.by}
           /\ effects' = IF Remaining(e.guest) <= e.amount
                      THEN effects \cup {[tool |-> "pay", guest |-> e.guest, by |-> h, amount |-> 0]}
                      ELSE effects
    BY DEF Pay
  <1>2. \A x \in effects' \ effects : ~IsCharge(x)
    BY <1>1 DEF IsCharge
  <1>3. X(e).guest = e.guest /\ X(e).amount = e.amount
    OBVIOUS
  <1> HIDE DEF X
  <1>4. /\ pc[h] = "idle" /\ pc'[h] = "done" /\ op'[h] = "pay" /\ arg'[h] = X(e)
        /\ \A k \in Handlers \ {h} : pc'[k] = pc[k] /\ op'[k] = op[k] /\ arg'[k] = arg[k]
    <2>1. Start(h, "pay", X(e), <<>>, "done")
      BY <1>1
    <2> QED
      BY <2>1, TermsOfStart, OthersAtStart
  <1> QED
    BY <1>1, <1>2, <1>3, <1>4 DEF PayStep, IsCharge

\* Each payment counts on both sides of the account.
LEMMA MoneyStays ==
    ASSUME MInv, [Next]_vars, NEW g \in Guests
    PROVE  MoneyInv(g)'
  <1>1. MoneyInv(g) /\ effects \subseteq effects'
    BY EffectsGrow DEF MInv
  <1>2. ASSUME AmountsPaid(g)' = AmountsPaid(g), PaidCharges(g)' = PaidCharges(g)
        PROVE  MoneyInv(g)'
    BY <1>1, <1>2 DEF MoneyInv, AmountsCharged, Credited
  <1>3. CASE \A h \in Handlers : ~Pay(h)
    <2>1. AmountsPaid(g)' = AmountsPaid(g) /\ paid' = paid
      BY <1>3, PayersStay, EffectsGrow
    <2>2. \A e \in effects' \ effects : IsCharge(e) => e.by \notin paid
      <3>1. \A p \in paid : \E f \in effects : IsCharge(f) /\ f.by = p
        BY DEF MInv, TypeOK, IsCharge
      <3> QED
        BY <3>1, NewCharges, ChargedAfterWork
    <2>3. PaidCharges(g)' = PaidCharges(g)
      BY <1>1, <2>1, <2>2 DEF PaidCharges, IsCharge
    <2> QED
      BY <1>2, <2>1, <2>3
  <1>4. ASSUME NEW h \in Handlers, Pay(h) PROVE MoneyInv(g)'
    <2>1. PICK e \in effects : PayStep(h, e)
      BY <1>4, PaySteps
    <2>2. \A f \in effects : IsCharge(f) /\ f.by = e.by => f = e
      BY <2>1 DEF MInv, OneChargeEach, PayStep
    <2>3. PaidCharges(g)' = PaidCharges(g) \cup (IF e.guest = g THEN {e} ELSE {}) /\ e \notin PaidCharges(g)
      BY <1>1, <2>1, <2>2 DEF PaidCharges, PayStep, IsCharge
    <2>4. PayersOf(g)' = PayersOf(g) \cup (IF e.guest = g THEN {h} ELSE {}) /\ h \notin PayersOf(g)
      BY <2>1 DEF PayersOf, PayStep
    <2>5. \A k \in PayersOf(g) : arg'[k] = arg[k]
      BY TermsKept DEF PayersOf
    <2>6. CASE e.guest # g
      BY <1>2, <2>3, <2>4, <2>5, <2>6 DEF AmountsPaid
    <2>7. CASE e.guest = g
      <3> DEFINE n == e.amount
                 cold == AmountsCharged(g)
                 cnew == AmountsCharged(g)'
                 pold == AmountsPaid(g)
                 pnew == AmountsPaid(g)'
      <3>1. n \in Nat
        BY AgentAssumption DEF MInv, TypeOK, Effect
      <3>2. Extends(cnew, cold, e, n)
        BY <2>3, <2>7 DEF AmountsCharged, Extends
      <3>3. Extends(pnew, pold, h, n)
        BY <2>1, <2>4, <2>5, <2>7 DEF AmountsPaid, Extends, PayStep
      <3>4. /\ IsFiniteSet(Units(cold)) /\ IsFiniteSet(Units(pold)) /\ Total(cold) = Total(pold)
        BY <1>1 DEF MoneyInv, Credited, AmountsCharged
      <3>5. /\ IsFiniteSet(Units(cnew)) /\ IsFiniteSet(Units(pnew)) /\ Total(cnew) = Total(pnew)
        <4> HIDE DEF n, cold, cnew, pold, pnew
        <4>1. IsFiniteSet(Units(cnew)) /\ Total(cnew) = Total(cold) + n
          BY <3>1, <3>2, <3>4, TotalGrows
        <4>2. IsFiniteSet(Units(pnew)) /\ Total(pnew) = Total(pold) + n
          BY <3>1, <3>3, <3>4, TotalGrows
        <4> QED
          BY <3>4, <4>1, <4>2
      <3> QED
        BY <3>5 DEF MoneyInv, Credited, AmountsCharged
    <2> QED
      BY <2>6, <2>7
  <1> QED
    BY <1>3, <1>4

\* Who writes into a session has found or opened it.
LEMMA SessionOfStays ==
    ASSUME MInv, [Next]_vars, NEW k \in Handlers
    PROVE  SessionOf(k)'
  <1>1. Openers \subseteq Openers' /\ SessionOf(k)
    BY OpenersStay DEF MInv
  <1>2. CASE pc'[k] = pc[k] /\ got'[k] = got[k]
    <2>1. pc[k] # "idle" => op'[k] = op[k]
      BY TermsKept
    <2> QED
      BY <1>1, <1>2, <2>1 DEF SessionOf, Calling
  <1>3. ASSUME Arrive(k) PROVE SessionOf(k)'
    <2>1. CASE HandleMessage(k)
      <3>1. PICK g \in Guests, c \in Channels, i \in (kinds \cap Intent) \cup {Infer(t) : t \in Texts} :
               \E n : Start(k, i, [guest |-> g, channel |-> c, amount |-> n], Plan[i], "context")
        BY <2>1 DEF HandleMessage
      <3>2. pc'[k] = "context" /\ op'[k] = i
        BY <3>1, TermsOfStart
      <3>3. i \in Intent
        BY InferFacts
      <3> QED
        BY <3>2, <3>3 DEF SessionOf, Calling
    <2>2. CASE CallTool(k)
      <3>1. PICK t \in kinds \cap Tool : \E x : Start(k, t, x, <<t>>, "tool")
        BY <2>2 DEF CallTool
      <3>2. pc'[k] = "tool" /\ op'[k] = t
        BY <3>1, TermsOfStart
      <3>3. op'[k] \notin Intent
        BY <3>2, NamesApart
      <3> QED
        BY <3>2, <3>3 DEF SessionOf
    <2>3. CASE Pay(k) \/ Delete(k)
      <3>1. PICK kind, x, todo : Start(k, kind, x, todo, "done")
        BY <2>3 DEF Pay, Delete
      <3>2. pc'[k] = "done"
        BY <3>1, TermsOfStart
      <3> QED
        BY <3>2 DEF SessionOf, Calling
    <2> QED
      BY <1>3, <2>1, <2>2, <2>3 DEF Arrive
  <1>4. ASSUME Run(k) PROVE SessionOf(k)'
    <2>1. op'[k] = op[k] /\ IInv /\ got = [h \in Handlers |-> got[h]]
      BY <1>4, RunKeeps DEF MInv, IInv, Shapes
    <2>2. pc \in [Handlers -> Place] /\ (pc[k] # "idle" => IsGot(got[k]))
      BY DEF MInv, IInv, Shapes, LocalInv
    <2>3. CASE FindSession(k)
      <3>1. /\ pc[k] = "session"
            /\ \/ pc'[k] = "open"
               \/ pc'[k] = "log" /\ \E i \in DOMAIN sessions : got' = [got EXCEPT ![k].session = sessions[i].by]
        BY <2>2, <2>3 DEF FindSession, Goto
      <3>2. pc'[k] = "log" => got'[k].session \in Openers
        BY <2>1, <2>2, <3>1 DEF Openers, IsGot
      <3> QED
        BY <1>1, <2>1, <3>1, <3>2 DEF SessionOf, Calling
    <2>4. CASE CreateSession(k)
      <3>1. pc[k] = "open" /\ pc'[k] = "log" /\ got' = [got EXCEPT ![k].session = Opened(k)]
        BY <2>2, <2>4 DEF CreateSession, Goto
      <3>2. got'[k].session = k
        BY <2>1, <2>2, <3>1 DEF IsGot, Opened
      <3>3. k \in Openers'
        <4> DEFINE s == [guest |-> arg[k].guest, channel |-> arg[k].channel, by |-> k, step |-> "new"]
        <4>1. s \in Session /\ s.by = k /\ sessions \in Seq(Session)
          BY <3>1 DEF MInv, IInv, Shapes, LocalInv, Session, Final
        <4>2. sessions' = Append(sessions, s)
          BY <2>4 DEF CreateSession
        <4> HIDE DEF s
        <4>3. Len(sessions) + 1 \in DOMAIN sessions' /\ sessions'[Len(sessions) + 1] = s
          BY <4>1, <4>2, AppendProperties, LenProperties
        <4> QED
          BY <4>1, <4>3 DEF Openers
      <3> QED
        BY <1>1, <2>1, <3>1, <3>2, <3>3 DEF SessionOf, Calling
    <2>5. ASSUME ~FindSession(k), ~CreateSession(k) PROVE SessionOf(k)'
      <3>1. got'[k].session = got[k].session
        BY <1>4, <2>1, <2>2, <2>5 DEF Run, ResolveContext, LogMessage, ResolveGuest, CheckBalance, Work,
               WorkFails, RecordCall, RecordFails, RecordFailure, UpdateSession, Reply, IsGot, Goto
      <3>2. Runs(k)
        BY <1>4, <2>1, RunStep
      <3>3. /\ pc'[k] \in {"context", "session", "open", "log", "close", "reply"} =>
                  pc[k] \in {"context", "session", "open", "log", "close", "reply"} \/ op[k] \in Intent
            /\ pc'[k] \in {"log", "close", "reply"} \cup Calling => pc[k] \in {"log", "close", "reply"} \cup Calling
        <4>1. pc[k] # "session" \/ pc'[k] # "log"
          BY <1>4, <2>2, <2>5 DEF Run, ResolveContext, LogMessage, ResolveGuest, CheckBalance, Work,
               WorkFails, RecordCall, RecordFails, RecordFailure, UpdateSession, Reply, Goto
        <4>2. ~Opens(k)
          BY <1>4, <2>2, <2>5 DEF Run, ResolveContext, LogMessage, ResolveGuest, CheckBalance, Work,
               WorkFails, RecordCall, RecordFails, RecordFailure, UpdateSession, Reply, Goto, Opens
        <4> QED
          BY <3>2, <4>1, <4>2 DEF Runs, Moves, Updates, Works, Breaks, Records, Fails, AfterCall, Calling, Final
      <3> QED
        BY <1>1, <2>1, <3>1, <3>3 DEF SessionOf
    <2> QED
      BY <2>3, <2>4, <2>5
  <1>5. ASSUME NEW h \in Handlers, Arrive(h) \/ Run(h), k # h PROVE pc'[k] = pc[k] /\ got'[k] = got[k]
    BY <1>5, ArriveStep, RunStep DEF SameOthers, MInv
  <1>6. ASSUME \A h \in Handlers : ~Arrive(h) /\ ~Run(h) PROVE pc' = pc /\ got' = got
    BY <1>6, WorkerKeeps DEF Next, vars
  <1> QED
    BY <1>2, <1>3, <1>4, <1>5, <1>6

\* Rows, calls and effects keep their types.
LEMMA TypeStays ==
    ASSUME MInv, [Next]_vars
    PROVE  TypeOK'
  <1>1. /\ sessions' \in Seq(Session) /\ job' \in [Guests -> JobState]
        /\ pre' \in [Handlers -> SUBSET Handlers]
    BY ShapesStay DEF MInv, Shapes
  <1>2. Openers \subseteq Openers' /\ Openers \subseteq Handlers /\ effects \subseteq effects'
    BY OpenersStay, EffectsGrow
  <1>3. \A m \in messages : m.session \in Openers
    BY DEF MInv, TypeOK, Openers
  <1>4. TypeOK
    BY DEF MInv
  <1>5. ASSUME removed' \subseteq Guests \cup {TheEvent}, effects' \subseteq Effect,
               paid' \subseteq {e.by : e \in {x \in effects' : x.tool = "createPaymentRequest"}},
               messages' \subseteq Message, \A m \in messages' : m.session \in Openers',
               calls' \subseteq ToolCall, op' \in [Handlers -> Op \cup {None}]
        PROVE  TypeOK'
    <2>1. \A m \in messages' : \E i \in DOMAIN sessions' : sessions'[i].by = m.session
      BY <1>5 DEF Openers
    <2> QED
      BY <1>1, <1>5, <2>1 DEF TypeOK
  <1>6. paid \subseteq {e.by : e \in {x \in effects' : x.tool = "createPaymentRequest"}}
    BY <1>2, <1>4 DEF TypeOK
  <1>7. ASSUME NEW h \in Handlers, Arrive(h) PROVE TypeOK'
    <2>1. PICK kind, x, todo, first : Start(h, kind, x, todo, first)
      BY <1>7 DEF Arrive, HandleMessage, CallTool, Pay, Delete
    <2>2. messages' = messages /\ calls' = calls /\ op' \in [Handlers -> Op \cup {None}]
      <3>1. kind \in Op
        BY <2>1 DEF Start, MInv, IInv, Shapes
      <3> QED
        BY <1>4, <2>1, <3>1 DEF Start, talk, TypeOK
    <2>3. removed' \subseteq Guests \cup {TheEvent}
      <3>1. removed' = removed \/ \E x1 \in Guests \cup {TheEvent} : removed' = removed \cup {x1}
        <4>1. CASE Delete(h)
          BY <4>1 DEF Delete
        <4>2. CASE HandleMessage(h) \/ CallTool(h) \/ Pay(h)
          BY <4>2 DEF HandleMessage, CallTool, Pay
        <4> QED
          BY <1>7, <4>1, <4>2 DEF Arrive
      <3> QED
        BY <1>4, <3>1 DEF TypeOK
    <2>4. effects' \subseteq Effect
      <3>1. CASE Pay(h)
        <4>1. PICK e \in effects :
                 effects' = IF Remaining(e.guest) <= e.amount
                   THEN effects \cup {[tool |-> "pay", guest |-> e.guest, by |-> h, amount |-> 0]}
                   ELSE effects
          BY <3>1 DEF Pay
        <4>2. [tool |-> "pay", guest |-> e.guest, by |-> h, amount |-> 0] \in Effect
          BY <1>4 DEF TypeOK, Effect
        <4> QED
          BY <1>4, <4>1, <4>2 DEF TypeOK
      <3>2. CASE ~Pay(h)
        BY <1>4, <1>7, <3>2 DEF Arrive, HandleMessage, CallTool, Delete, TypeOK
      <3> QED
        BY <3>1, <3>2
    <2>5. paid' \subseteq {e.by : e \in {x1 \in effects' : x1.tool = "createPaymentRequest"}}
      <3>1. CASE Pay(h)
        <4>1. PICK e \in effects : PayStep(h, e)
          BY <3>1, PaySteps
        <4> QED
          BY <1>2, <1>6, <4>1 DEF PayStep, IsCharge
      <3>2. CASE \A k \in Handlers : ~Pay(k)
        BY <1>6, <3>2, EffectsGrow
      <3>3. ~Pay(h) => paid' = paid
        BY <1>7 DEF Arrive, HandleMessage, CallTool, Delete
      <3> QED
        BY <1>6, <3>1, <3>3
    <2> QED
      BY <1>2, <1>3, <1>4, <1>5, <2>2, <2>3, <2>4, <2>5 DEF TypeOK
  <1>8. ASSUME NEW h \in Handlers, Run(h) PROVE TypeOK'
    <2>1. UNCHANGED <<removed, paid, op>> /\ Runs(h)
      BY <1>8, RunKeeps, RunStep DEF MInv
    <2>2. messages' \subseteq Message /\ \A m \in messages' : m.session \in Openers'
      <3>1. CASE LogMessage(h) \/ Reply(h)
        <4>1. got[h].session \in Openers
          <5>1. pc[h] \in {"log", "reply"}
            BY <3>1 DEF LogMessage, Reply, Goto
          <5> QED
            BY <5>1 DEF MInv, SessionOf
        <4>2. PICK s \in {"USER", "AGENT"} :
                 messages' = messages \cup {[session |-> got[h].session, sender |-> s, by |-> h]}
          BY <3>1 DEF LogMessage, Reply
        <4>3. [session |-> got[h].session, sender |-> s, by |-> h] \in Message
          BY <1>2, <4>1 DEF Message
        <4> QED
          BY <1>2, <1>3, <1>4, <4>1, <4>2, <4>3 DEF TypeOK
      <3>2. CASE messages' = messages
        BY <1>2, <1>3, <1>4, <3>2 DEF TypeOK
      <3> QED
        BY <1>8, <3>1, <3>2 DEF Run, ResolveContext, FindSession, CreateSession, ResolveGuest, CheckBalance,
             Work, WorkFails, RecordCall, RecordFails, RecordFailure, UpdateSession, talk
    <2>3. pc[h] \in Calling => This(h) \in Tool
      BY TodoFacts DEF MInv, IInv, LocalInv, Calling, This
    <2>4. calls' \subseteq ToolCall
      <3>1. \A b \in BOOLEAN : pc[h] \in Calling => [by |-> h, tool |-> This(h), success |-> b] \in ToolCall
        BY <2>3 DEF ToolCall
      <3>2. calls' = calls \/ \E b \in BOOLEAN : /\ pc[h] \in Calling
                                             /\ calls' = calls \cup {[by |-> h, tool |-> This(h), success |-> b]}
        BY <2>1 DEF Runs, Moves, Opens, Updates, Works, Breaks, Records, Fails, Unlogged, Calling
      <3> QED
        BY <1>4, <3>1, <3>2 DEF TypeOK
    <2>5. effects' \subseteq Effect
      <3>1. pc[h] = "work" => EffectOf(h) \in Effect
        <4> SUFFICES ASSUME pc[h] = "work" PROVE EffectOf(h) \in Effect
          OBVIOUS
        <4>1. arg[h].guest \in Guests /\ This(h) \in Tool
          BY <2>3 DEF MInv, IInv, LocalInv, Final, Calling
        <4>2. This(h) = "createPaymentRequest" => AmountOf(h) \in 1 .. Required
          BY DEF MInv, BalanceInv
        <4>3. EffectOf(h).amount \in {0, 1} \cup 1 .. Required
          BY <4>2 DEF EffectOf
        <4>4. EffectOf(h) = [tool |-> This(h), guest |-> arg[h].guest, by |-> h, amount |-> EffectOf(h).amount]
          BY DEF EffectOf
        <4> QED
          BY <4>1, <4>3, <4>4 DEF Effect
      <3> QED
        BY <1>4, <2>1, <3>1 DEF Runs, Moves, Opens, Updates, Works, Breaks, Records, Fails, TypeOK
    <2> QED
      BY <1>2, <1>4, <1>5, <1>6, <2>1, <2>2, <2>4, <2>5 DEF TypeOK
  <1>9. CASE UNCHANGED <<removed, effects, paid, sessions, messages, calls, op>>
    BY <1>3, <1>4, <1>5, <1>9 DEF TypeOK, Openers
  <1> QED
    BY <1>7, <1>8, <1>9, WorkerKeeps DEF Next, vars, talk, locals

\* What a request knows of the balance was read or checked while it ran.
LEMMA BalanceStays ==
    ASSUME MInv, [Next]_vars, NEW k \in Handlers
    PROVE  BalanceInv(k)'
  <1>1. BalanceInv(k) /\ Required \in Nat
    BY AgentAssumption DEF MInv
  <1>2. \A g : pc[k] # "idle" => /\ pc'[k] # "idle" /\ op'[k] = op[k] /\ arg'[k] = arg[k]
                                 /\ Owed(k, g)' = Owed(k, g)
                                 /\ (Overlapped(k) => Overlapped(k)')
    BY TermsKept, OwedStays
  <1>3. CASE pc'[k] = pc[k] /\ got'[k] = got[k]
    <2>1. This(k)' = This(k)
      BY <1>3 DEF This
    <2>2. pc[k] # "idle" => AmountOf(k)' = AmountOf(k)
      BY <1>2, <1>3 DEF AmountOf
    <2> QED
      BY <1>1, <1>2, <1>3, <2>1, <2>2 DEF BalanceInv
  <1>4. ASSUME Arrive(k) PROVE BalanceInv(k)'
    <2>1. PICK kind, x, todo, first :
             /\ Start(k, kind, x, todo, first) /\ first # "work"
             /\ kind = "PAY_FULL" => x.amount = 0
      <3>1. CASE HandleMessage(k)
        <4>1. PICK g \in Guests, c \in Channels, i \in (kinds \cap Intent) \cup {Infer(t) : t \in Texts} :
                 \E n \in IF i = "PAY_PARTIAL" THEN {0, 1} ELSE {0} :
                    Start(k, i, [guest |-> g, channel |-> c, amount |-> n], Plan[i], "context")
          BY <3>1 DEF HandleMessage
        <4>2. PICK n : /\ Start(k, i, [guest |-> g, channel |-> c, amount |-> n], Plan[i], "context")
                       /\ i = "PAY_FULL" => n = 0
          BY <4>1
        <4>3. [guest |-> g, channel |-> c, amount |-> n].amount = n
          OBVIOUS
        <4> QED
          BY <4>2, <4>3
      <3>2. CASE CallTool(k)
        <4>1. PICK t \in kinds \cap Tool : \E x : Start(k, t, x, <<t>>, "tool")
          BY <3>2 DEF CallTool
        <4>2. PICK x : Start(k, t, x, <<t>>, "tool")
          BY <4>1
        <4>3. t # "PAY_FULL" /\ "tool" # "work"
          BY NamesApart
        <4> QED
          BY <4>2, <4>3, Zenon
      <3>3. CASE Pay(k) \/ Delete(k)
        <4>1. PICK x : Start(k, "pay", x, <<>>, "done") \/ Start(k, "remove", x, <<>>, "done")
          BY <3>3 DEF Pay, Delete
        <4>2. "pay" # "PAY_FULL" /\ "remove" # "PAY_FULL" /\ "done" # "work"
          OBVIOUS
        <4> QED
          BY <4>1, <4>2, Zenon
      <3> QED
        BY <1>4, <3>1, <3>2, <3>3 DEF Arrive
    <2>2. /\ pc'[k] # "work" /\ (op'[k] = "PAY_FULL" => arg'[k].amount = 0)
          /\ got'[k].read = 0
      <3>1. pc'[k] = first /\ op'[k] = kind /\ arg'[k] = x /\ got'[k].read = 0
        <4>1. Start(k, kind, x, todo, first)
          BY <2>1
        <4> QED
          BY <4>1, TermsOfStart
      <3> QED
        BY <2>1, <3>1
    <2> QED
      BY <1>1, <2>2 DEF BalanceInv
  <1>5. ASSUME Run(k) PROVE BalanceInv(k)'
    <2>1. /\ arg' = arg /\ got = [h \in Handlers |-> got[h]] /\ pc \in [Handlers -> Place]
          /\ Runs(k) /\ (pc[k] # "idle" => IsGot(got[k]))
      BY <1>5, RunKeeps, RunStep DEF MInv, IInv, Shapes, LocalInv
    <2>2. pc[k] \notin {"idle"} \cup Final
      BY <2>1 DEF Runs, Moves, Opens, Updates, Works, Breaks, Records, Fails, Final
    <2>3. ASSUME got'[k].read = got[k].read, pc'[k] # "work" PROVE BalanceInv(k)'
      BY <1>1, <1>2, <2>2, <2>3 DEF BalanceInv
    <2>4. CASE CheckBalance(k)
      <3>1. /\ got' = got /\ pc[k] = "balance"
            /\ pc'[k] = "work" => Payable(AmountOf(k), Remaining(arg[k].guest))
        BY <2>1, <2>4 DEF CheckBalance, Goto
      <3>2. AmountOf(k)' = AmountOf(k)
        BY <2>1, <3>1 DEF AmountOf
      <3>3. /\ Remaining(arg[k].guest) \in 0 .. Required
            /\ \/ Remaining(arg[k].guest) = 0
               \/ Remaining(arg[k].guest) = Owed(k, arg[k].guest) \/ Overlapped(k)
        <4>1. arg[k].guest \in Guests
          BY <2>2 DEF MInv, IInv, LocalInv
        <4> QED
          BY <2>2, <4>1, SawAllPayments
      <3>4. pc'[k] = "work" => /\ AmountOf(k) \in 1 .. Required
                               /\ AmountOf(k) <= Owed(k, arg[k].guest) \/ Overlapped(k)
        BY <1>1, <3>1, <3>3 DEF Payable
      <3> QED
        BY <1>1, <1>2, <2>1, <2>2, <3>1, <3>2, <3>4 DEF BalanceInv
    <2>5. CASE ResolveGuest(k)
      <3>1. got' = got /\ (pc'[k] = "work" => This(k) # "createPaymentRequest") /\ This(k)' = This(k)
        BY <2>1, <2>5 DEF ResolveGuest, Goto, This
      <3> QED
        BY <1>1, <1>2, <2>1, <2>2, <3>1 DEF BalanceInv
    <2>6. CASE Work(k)
      <3>1. /\ pc'[k] = "record"
            /\ got'[k].read = Remaining(arg[k].guest) \/ got'[k].read = got[k].read
        BY <2>1, <2>2, <2>6 DEF Work, Goto, IsGot
      <3>2. /\ Remaining(arg[k].guest) \in 0 .. Required
            /\ \/ Remaining(arg[k].guest) = 0
               \/ Remaining(arg[k].guest) = Owed(k, arg[k].guest) \/ Overlapped(k)
        <4>1. arg[k].guest \in Guests
          BY <2>2 DEF MInv, IInv, LocalInv
        <4> QED
          BY <2>2, <4>1, SawAllPayments
      <3> QED
        BY <1>1, <1>2, <2>1, <2>2, <2>3, <3>1, <3>2 DEF BalanceInv
    <2>7. ASSUME ~CheckBalance(k), ~ResolveGuest(k), ~Work(k) PROVE BalanceInv(k)'
      <3>1. got'[k].read = got[k].read
        BY <1>5, <2>1, <2>2, <2>7 DEF Run, ResolveContext, FindSession, CreateSession, LogMessage, WorkFails,
               RecordCall, RecordFails, RecordFailure, UpdateSession, Reply, IsGot
      <3>2. pc'[k] # "work"
        <4>1. CASE ResolveContext(k) \/ FindSession(k) \/ CreateSession(k) \/ LogMessage(k)
          BY <2>1, <4>1 DEF ResolveContext, FindSession, CreateSession, LogMessage, Goto
        <4>2. CASE WorkFails(k) \/ RecordCall(k) \/ RecordFails(k) \/ RecordFailure(k) \/ UpdateSession(k)
                   \/ Reply(k)
          BY <2>1, <4>2 DEF WorkFails, RecordCall, RecordFails, RecordFailure, UpdateSession, Reply, Goto,
               AfterCall, AfterFailedRecord
        <4> QED
          BY <1>5, <2>7, <4>1, <4>2 DEF Run
      <3> QED
        BY <2>3, <3>1, <3>2
    <2> QED
      BY <2>4, <2>5, <2>6, <2>7
  <1>6. ASSUME NEW h \in Handlers, Arrive(h) \/ Run(h), k # h PROVE pc'[k] = pc[k] /\ got'[k] = got[k]
    BY <1>6, ArriveStep, RunStep DEF SameOthers, MInv
  <1>7. ASSUME \A h \in Handlers : ~Arrive(h) /\ ~Run(h) PROVE pc' = pc /\ got' = got
    BY <1>7, WorkerKeeps DEF Next, vars
  <1> QED
    BY <1>3, <1>4, <1>5, <1>6, <1>7

\* The second invariant holds throughout every behaviour, too.
LEMMA InitMInv == Init => MInv
  <1> SUFFICES ASSUME Init PROVE MInv
    OBVIOUS
  <1>1. TypeOK
    <2>1. <<>> \in Seq(Session) /\ DOMAIN sessions = {}
      BY EmptySeq DEF Init
    <2> QED
      BY <2>1 DEF Init, TypeOK, JobState
  <1>2. \A h \in Handlers : SessionOf(h) /\ BalanceInv(h)
    BY DEF Init, SessionOf, BalanceInv, Calling
  <1>3. (\A e \in effects : ChargeInv(e)) /\ OneChargeEach
    BY DEF Init, OneChargeEach
  <1>4. ASSUME NEW g \in Guests PROVE MoneyInv(g)
    <2>1. PayersOf(g) = {} /\ PaidCharges(g) = {}
      BY DEF Init, PayersOf, PaidCharges
    <2>2. DOMAIN AmountsPaid(g) = {} /\ DOMAIN AmountsCharged(g) = {}
      BY <2>1 DEF AmountsPaid, AmountsCharged
    <2> QED
      BY <2>2, TotalOfNothing DEF MoneyInv, Credited, AmountsCharged
  <1> QED
    BY <1>1, <1>2, <1>3, <1>4, InitIInv DEF MInv

LEMMA NextMInv == MInv /\ [Next]_vars => MInv'
  <1> SUFFICES ASSUME MInv, [Next]_vars PROVE MInv'
    OBVIOUS
  <1>1. IInv'
    BY NextIInv DEF MInv
  <1>2. (\A e \in effects' : ChargeInv(e)') /\ OneChargeEach'
    BY ChargesStay
  <1>3. TypeOK' /\ \A g \in Guests : MoneyInv(g)'
    BY TypeStays, MoneyStays
  <1>4. \A h \in Handlers : SessionOf(h)' /\ BalanceInv(h)'
    BY SessionOfStays, BalanceStays
  <1> QED
    BY <1>1, <1>2, <1>3, <1>4 DEF MInv

THEOREM AccountInvariance == Spec => []MInv
  BY InitMInv, NextMInv, PTL DEF Spec

\* Rows, calls and effects have their types; a message is in a session that exists, and
\* a charge that is paid was opened by createPaymentRequest.
THEOREM TypeCorrect == Spec => []TypeOK
  <1>1. MInv => TypeOK
    BY DEF MInv
  <1> QED
    BY <1>1, AccountInvariance, PTL

\* createPaymentRequest charges no more than what remained when the request started, and
\* all of it for a PAY_FULL, whose amount getGuestBalance read one call earlier: only
\* a payment credited meanwhile makes a difference.
THEOREM ChargesStayWithinDebts == Spec => []ChargesAskWhatRemains
  <1>1. MInv => ChargesAskWhatRemains
    <2> SUFFICES ASSUME MInv, NEW e \in effects, e.tool = "createPaymentRequest"
                 PROVE  \/ /\ e.amount <= Owed(e.by, e.guest)
                           /\ op[e.by] = "PAY_FULL" => e.amount = Owed(e.by, e.guest)
                        \/ \E k \in Handlers : op[k] = "pay" /\ arg[k].guest = e.guest /\ Overlap(k, e.by)
      BY DEF ChargesAskWhatRemains
    <2> QED
      BY DEF MInv, ChargeInv, IsCharge, Overlapped, PayersOf
  <1> QED
    BY <1>1, AccountInvariance, PTL
=============================================================================
