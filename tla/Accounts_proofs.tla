--------------------------- MODULE Accounts_proofs ---------------------------
(***************************************************************************)
(* Theorems about Accounts, for any set of requests of any kinds, with no  *)
(* bound on the requests in flight.  The inductive invariant IInv says     *)
(* what a request has left behind in the tables of tokens, of links and of *)
(* subscriptions, and what the requests that had finished when another one *)
(* started mean to that one.                                               *)
(***************************************************************************)
EXTENDS Accounts, TLAPS

IsFunction(f, S) == f = [x \in S |-> f[x]]

\* What a request came with; tokens and links are never deleted.
RequestInv(h) ==
    /\ op[h] \in {"refresh", "logout"} => arg[h] \in Second /\ sessions[arg[h]] # None
    /\ op[h] \in {"reset", "verify"} => arg[h] \in Handlers /\ links[arg[h]] # None
    /\ op[h] = "upgrade" => arg[h] \in Plans

\* Which operation is at which step.
ControlInv(h) ==
    /\ pc[h] = "idle" => op[h] = None
    /\ pc[h] # "idle" => op[h] \in Op
    /\ pc[h] \in {"find", "create"} => op[h] = "register"
    /\ pc[h] = "check" => op[h] \in {"login", "change"}
    /\ pc[h] \in {"sign", "store"} => op[h] \in {"register", "login", "refresh"}
    /\ pc[h] \in {"read", "revoke"} => op[h] \in {"refresh", "logout"}
    /\ pc[h] = "invalidate" => op[h] = "forgot"
    /\ pc[h] \in {"link", "mail"} => op[h] \in {"register", "forgot"}
    /\ pc[h] \in {"open", "use"} => op[h] \in {"reset", "verify"}
    /\ pc[h] = "password" => op[h] \in {"reset", "change"}
    /\ pc[h] = "confirm" => op[h] = "verify"
    /\ pc[h] = "end" => op[h] = "reset"
    /\ pc[h] \in {"member", "slug", "insert", "join"} => op[h] = "organize"
    /\ pc[h] \in {"plan", "subscribe"} => op[h] \in {"view", "upgrade"}
    /\ pc[h] \in {"extend", "invoice"} => op[h] = "upgrade"

\* What a handler has for its next step.
LocalInv(h) ==
    /\ pc[h] = "store" => got[h] \in Second
    /\ pc[h] = "mail" => links[h] # None
    /\ pc[h] \in {"slug", "insert"} => got[h] \in Nat
    /\ pc[h] \notin {"idle", "find", "create", "failed"} => account # None

\* Who had finished when a request started has finished for good.
PreInv(h) == \A k \in pre[h] : pc[k] \in Final

\* What the answer to a request leaves behind of its token or link.
SpentInv(h) ==
    /\ op[h] = "refresh" /\ pc[h] \in {"sign", "store", "done"}
          => sessions[arg[h]].status = "revoked"
    /\ op[h] = "logout" /\ pc[h] = "done" => sessions[arg[h]].status = "revoked"
    /\ op[h] = "reset" /\ pc[h] \in {"end", "done"} => links[arg[h]].status = "used"
    /\ op[h] = "verify" /\ pc[h] = "done" => links[arg[h]].status = "used"

\* The same use of a token or link, by a request that comes later.
Reuses(k, h) ==
    /\ op[k] \in {"refresh", "reset", "verify"}
    /\ op[h] = op[k] \/ (op[h] = "logout" /\ op[k] = "refresh")
    /\ arg[h] = arg[k]

OnceInv(k) ==
    \A h \in pre[k] : pc[h] = "done" /\ Reuses(k, h) => pc[k] \notin Acting

\* The live sessions after a reset are not of those who came before it.
EndInv(r) ==
    op[r] = "reset" /\ pc[r] = "done" =>
        \A s \in Second : sessions[s] # None /\ sessions[s].status = "live"
            => sessions[s].by \in Handlers \ pre[r]

IsOpenReset(l) == links[l] # None /\ links[l].kind = "reset" /\ links[l].status = "open"

\* A request for a reset link closes the links of those who came before it.
LinkInv(k) ==
    /\ links[k] # None => /\ pc[k] \notin {"idle", "find", "create", "invalidate", "link"}
                          /\ account # None
    /\ (pc[k] = "link" /\ op[k] = "forgot") \/ (links[k] # None /\ links[k].kind = "reset")
          => \A h \in pre[k] \ {k} : ~IsOpenReset(h)

\* The newest subscription of the organization is a handler's own, or of a request
\* that had not finished when it started, and no look covers what was bought.
ShownInv(h) ==
    LET o == got[h].org IN
    /\ OfOrg(o) # {}
    /\ \A i \in OfOrg(o) : (\A j \in OfOrg(o) : j <= i) =>
          /\ subs[i].by = h \/ subs[i].by \notin pre[h]
          /\ subs[i].by # h /\ h \in pre[subs[i].by] => op[subs[i].by] = "upgrade"

\* What a handler that read the subscriptions knows of them.
PlanInv(h) ==
    /\ pc[h] \in {"subscribe", "extend"} => got[h].org \in Handlers
    /\ pc[h] = "subscribe" =>
          \A k \in pre[h] : op[k] = "upgrade" /\ pc[k] = "done" => got[k].org # got[h].org
    /\ pc[h] = "extend" =>
          /\ got[h].sub \in OfOrg(got[h].org)
          /\ \A j \in OfOrg(got[h].org) : j > got[h].sub => subs[j].by \notin pre[h]
    /\ op[h] = "upgrade" /\ pc[h] \in {"invoice", "done"} => ShownInv(h)

HandlerInv(h) ==
    /\ RequestInv(h) /\ ControlInv(h) /\ LocalInv(h) /\ PreInv(h) /\ SpentInv(h)
    /\ OnceInv(h) /\ EndInv(h) /\ LinkInv(h) /\ PlanInv(h)

\* A subscription was made or changed by somebody, with the plan that was asked for.
RowInv(i) ==
    LET h == subs[i].by IN pc[h] # "idle" /\ (op[h] = "upgrade" => subs[i].plan = arg[h])

\* There is a newest subscription.
NewestInv(o) ==
    OfOrg(o) # {} => \E i \in OfOrg(o) : \A j \in OfOrg(o) : j <= i

\* The functions whose values have no type of their own.
Indexed == IsFunction(pc, Handlers) /\ IsFunction(arg, Handlers) /\ IsFunction(got, Handlers)

IInv ==
    /\ TypeOK /\ Indexed
    /\ \A s \in Second : sessions[s] # None => account # None
    /\ \A h \in Handlers : HandlerInv(h)
    /\ \A i \in DOMAIN subs : RowInv(i)
    /\ \A o \in Handlers : NewestInv(o)

-----------------------------------------------------------------------------
\* The invariant holds at the start: one session at most, and no request.
LEMMA InitIInv == Init => IInv
  <1> SUFFICES ASSUME Init PROVE IInv
    OBVIOUS
  <1>1. TypeOK
    <2>1. [password |-> None, verified |-> FALSE, org |-> None] \in Account
      BY DEF Account
    <2>2. [by |-> None, status |-> "live"] \in Session
      BY DEF Session
    <2>3. 0 \in Second
      BY AccountsAssumption DEF Second
    <2> QED
      BY <2>1, <2>2, <2>3 DEF Init, TypeOK
  <1>2. Indexed
    BY DEF Init, Indexed, IsFunction
  <1>3. \A s \in Second : sessions[s] # None => account # None
    <2>1. [password |-> None, verified |-> FALSE, org |-> None] # None
      <3>1. [password |-> None, verified |-> FALSE, org |-> None] \in Account
        BY DEF Account
      <3> QED
        BY <3>1, NoneIsNoRow
    <2> QED
      BY <2>1 DEF Init
  <1>4. ASSUME NEW h \in Handlers PROVE HandlerInv(h)
    BY <1>4, NoneIsNoRow
       DEF Init, HandlerInv, RequestInv, ControlInv, LocalInv, PreInv, SpentInv, OnceInv, EndInv,
           LinkInv, PlanInv, Op
  <1>5. DOMAIN subs = {}
    BY DEF Init
  <1> QED
    BY <1>1, <1>2, <1>3, <1>4, <1>5 DEF IInv, NewestInv, OfOrg

-----------------------------------------------------------------------------
(* Framing.                                                                 *)

\* Subscriptions keep their organizations; a step of h writes its own name and the
\* plan it wants, and only a request that found none makes a new one.
SubsKeep(h) ==
    /\ DOMAIN subs \subseteq DOMAIN subs'
    /\ \A i \in DOMAIN subs : /\ subs'[i].org = subs[i].org
                              /\ subs'[i] = subs[i] \/ op[h] = "upgrade"
    /\ \A i \in DOMAIN subs' \ DOMAIN subs :
          /\ pc[h] = "subscribe" /\ subs'[i].org = got[h].org
          /\ \A j \in DOMAIN subs' : j <= i
    /\ \A i \in DOMAIN subs' : \/ i \in DOMAIN subs /\ subs'[i] = subs[i]
                               \/ subs'[i].by = h /\ subs'[i].plan = Wanted(h)

\* Accounts, tokens and links stay; what is revoked or used stays so; and a new live
\* token or open link is the handler's own.
TablesKeep(h) ==
    /\ account # None => account' # None
    /\ \A s \in Second :
          /\ sessions[s] # None => /\ sessions'[s] # None
                                   /\ sessions[s].status = "revoked" => sessions'[s].status = "revoked"
          /\ sessions'[s] # None => account' # None
          /\ sessions'[s] # None /\ sessions'[s].status = "live" =>
                \/ /\ sessions[s] # None /\ sessions[s].status = "live"
                   /\ sessions'[s].by = sessions[s].by
                \/ sessions'[s].by = h
    /\ \A l \in Handlers :
          /\ links[l] # None => /\ links'[l] # None
                                /\ links'[l].kind = links[l].kind
                                /\ links[l].status = "used" => links'[l].status = "used"
          /\ l # h => /\ links[l] = None => links'[l] = None
                      /\ IsOpenReset(l)' => IsOpenReset(l)

\* What every step of a running handler h leaves to the others.
Keeps(h) ==
    /\ pc[h] \notin {"idle"} \cup Final /\ pc'[h] # "idle"
    /\ UNCHANGED <<op, arg, pre>>
    /\ \A k \in Handlers \ {h} : pc'[k] = pc[k] /\ got'[k] = got[k]
    /\ TablesKeep(h)
    /\ SubsKeep(h)

\* Who had finished is somebody else and has not moved.
LEMMA FrameEnded ==
    ASSUME IInv, NEW h \in Handlers, Keeps(h), NEW k \in Handlers, NEW a \in pre[k]
    PROVE  /\ a \in Handlers \ {h} /\ pc[a] \in Final
           /\ pc'[a] = pc[a] /\ op'[a] = op[a] /\ arg'[a] = arg[a] /\ got'[a] = got[a]
  BY DEF IInv, TypeOK, HandlerInv, PreInv, Keeps

\* What handlers know of the tables, whoever moves.
LEMMA FrameRequest ==
    ASSUME IInv, NEW h \in Handlers, Keeps(h), NEW k \in Handlers
    PROVE  RequestInv(k)' /\ PreInv(k)'
  <1>1. HandlerInv(k)
    BY DEF IInv
  <1>2. RequestInv(k)'
    BY <1>1 DEF HandlerInv, RequestInv, Keeps, TablesKeep
  <1>3. PreInv(k)'
    BY FrameEnded DEF PreInv, Keeps
  <1> QED
    BY <1>2, <1>3

\* A handler that does not move still knows what it knew of the subscriptions.
LEMMA FramePlan ==
    ASSUME IInv, NEW h \in Handlers, Keeps(h), NEW k \in Handlers \ {h}
    PROVE  PlanInv(k)'
  <1>1. /\ HandlerInv(h) /\ HandlerInv(k) /\ h \notin pre[k]
        /\ pc'[k] = pc[k] /\ got'[k] = got[k] /\ op' = op /\ pre' = pre
    BY FrameEnded DEF IInv, Keeps
  <1>2. \A o, i : i \in OfOrg(o) => i \in OfOrg(o)'
    BY DEF OfOrg, Keeps, SubsKeep
  <1>3. \A o, i : i \in OfOrg(o)' => \/ i \in OfOrg(o) /\ subs'[i] = subs[i]
                                     \/ subs'[i].by = h
    BY DEF OfOrg, Keeps, SubsKeep
  <1>4. (pc[k] = "subscribe" =>
            \A a \in pre[k] : op[a] = "upgrade" /\ pc[a] = "done" => got[a].org # got[k].org)'
    BY <1>1, FrameEnded DEF HandlerInv, PlanInv
  <1>5. (pc[k] = "extend" =>
            /\ got[k].sub \in OfOrg(got[k].org)
            /\ \A j \in OfOrg(got[k].org) : j > got[k].sub => subs[j].by \notin pre[k])'
    BY <1>1, <1>2, <1>3 DEF HandlerInv, PlanInv
  <1>6. ASSUME op[k] = "upgrade", pc[k] \in {"invoice", "done"}
        PROVE  ShownInv(k)'
    <2> DEFINE o == got[k].org
    <2>1. ShownInv(k)
      BY <1>1, <1>6 DEF HandlerInv, PlanInv
    <2>2. ASSUME NEW i \in OfOrg(o)', \A j \in OfOrg(o)' : j <= i
          PROVE  /\ subs'[i].by = k \/ subs'[i].by \notin pre[k]
                 /\ subs'[i].by # k /\ k \in pre[subs'[i].by] => op[subs'[i].by] = "upgrade"
      <3>1. CASE i \in OfOrg(o) /\ subs'[i] = subs[i]
        BY <1>1, <1>2, <2>1, <2>2, <3>1 DEF ShownInv
      <3>2. CASE i \in DOMAIN subs /\ subs'[i].by = h /\ op[h] = "upgrade"
        BY <1>1, <3>2
      <3>3. CASE i \notin DOMAIN subs
        <4>1. /\ i \in DOMAIN subs' /\ subs'[i].org = o /\ subs'[i].by = h
              /\ pc[h] = "subscribe" /\ got[h].org = o
          BY <1>1, <2>2, <3>3 DEF OfOrg, Keeps, SubsKeep
        <4>2. k \notin pre[h]
          BY <1>1, <1>6, <4>1, FrameEnded DEF HandlerInv, PlanInv, Final
        <4> QED
          BY <1>1, <4>1, <4>2
      <3> QED
        BY <1>1, <1>3, <2>2, <3>1, <3>2, <3>3 DEF OfOrg, Keeps, SubsKeep
    <2> QED
      BY <1>1, <1>2, <2>1, <2>2 DEF ShownInv
  <1> QED
    BY <1>1, <1>4, <1>5, <1>6 DEF HandlerInv, PlanInv

\* A handler that does not move keeps its invariant.
LEMMA FrameHandler ==
    ASSUME IInv, NEW h \in Handlers, Keeps(h), NEW k \in Handlers \ {h}
    PROVE  HandlerInv(k)'
  <1>1. /\ HandlerInv(k) /\ h \notin pre[k]
        /\ pc'[k] = pc[k] /\ got'[k] = got[k] /\ op' = op /\ arg' = arg /\ pre' = pre
    BY FrameEnded DEF IInv, Keeps
  <1>2. ControlInv(k)' /\ LocalInv(k)'
    BY <1>1 DEF HandlerInv, ControlInv, LocalInv, Keeps, TablesKeep
  <1>3. SpentInv(k)'
    BY <1>1 DEF HandlerInv, RequestInv, SpentInv, Keeps, TablesKeep
  <1>4. OnceInv(k)'
    BY <1>1, FrameEnded DEF HandlerInv, OnceInv, Reuses
  <1>5. EndInv(k)'
    BY <1>1 DEF HandlerInv, EndInv, Keeps, TablesKeep
  <1>6. LinkInv(k)'
    <2>1. \A a \in pre[k] : a \in Handlers /\ a # h /\ (IsOpenReset(a)' => IsOpenReset(a))
      BY FrameEnded DEF Keeps, TablesKeep
    <2> QED
      BY <1>1, <2>1 DEF HandlerInv, LinkInv, Keeps, TablesKeep
  <1> QED
    BY <1>2, <1>3, <1>4, <1>5, <1>6, FrameRequest, FramePlan DEF HandlerInv

\* An index of the table leads to a subscription.
LEMMA SubscriptionOf ==
    ASSUME TypeOK, NEW i \in DOMAIN subs
    PROVE  /\ subs[i] \in Subscription
           /\ subs[i].org \in Handlers /\ subs[i].plan \in Plan /\ subs[i].by \in Handlers
  <1>1. subs \in Seq(Subscription)
    BY DEF TypeOK
  <1>2. subs[i] \in Subscription
    BY <1>1
  <1> QED
    BY <1>2 DEF Subscription

\* The subscriptions as a whole, whoever moves.
LEMMA FrameSubs ==
    ASSUME IInv, TypeOK', NEW h \in Handlers, Keeps(h)
    PROVE  /\ \A i \in DOMAIN subs' : RowInv(i)'
           /\ \A o \in Handlers : NewestInv(o)'
  <1>1. ASSUME NEW i \in DOMAIN subs' PROVE RowInv(i)'
    <2>1. CASE i \in DOMAIN subs /\ subs'[i] = subs[i]
      <3>1. RowInv(i)
        BY <2>1 DEF IInv
      <3>2. subs[i].by \in Handlers
        BY <2>1, SubscriptionOf DEF IInv
      <3> QED
        BY <2>1, <3>1, <3>2 DEF RowInv, Keeps
    <2>2. CASE subs'[i].by = h /\ subs'[i].plan = Wanted(h)
      BY <2>2 DEF RowInv, Wanted, Keeps
    <2> QED
      BY <1>1, <2>1, <2>2 DEF Keeps, SubsKeep
  <1>2. ASSUME NEW o \in Handlers PROVE NewestInv(o)'
    <2>1. CASE \E i \in OfOrg(o)' : i \notin DOMAIN subs
      BY <2>1 DEF NewestInv, OfOrg, Keeps, SubsKeep
    <2>2. CASE \A i \in OfOrg(o)' : i \in DOMAIN subs
      <3>1. OfOrg(o)' = OfOrg(o)
        BY <2>2 DEF OfOrg, Keeps, SubsKeep
      <3> QED
        BY <3>1 DEF IInv, NewestInv
    <2> QED
      BY <2>1, <2>2
  <1> QED
    BY <1>1, <1>2

\* Putting the parts of a step of handler h together.
LEMMA StepIInv ==
    ASSUME IInv, NEW h \in Handlers, Keeps(h), TypeOK', Indexed', HandlerInv(h)'
    PROVE  IInv'
  <1>1. \A k \in Handlers : HandlerInv(k)'
    BY FrameHandler
  <1>2. \A s \in Second : sessions'[s] # None => account' # None
    BY DEF Keeps, TablesKeep
  <1> QED
    BY <1>1, <1>2, FrameSubs DEF IInv

-----------------------------------------------------------------------------
(* Requests arrive.                                                         *)

\* What a request of a kind comes with, and the step it begins with.
WellFormed(kind, x, first) ==
    /\ kind \in Op
    /\ kind \in {"refresh", "logout"} => x \in Second /\ sessions[x] # None
    /\ kind \in {"reset", "verify"} => x \in Handlers /\ links[x] # None
    /\ kind = "upgrade" => x \in Plans
    /\ kind \notin {"refresh", "logout", "reset", "verify", "upgrade"} => x \in Handlers \cup {None}
    /\ kind # "register" => account # None
    /\ first = CASE kind = "register" -> "find"
                 [] kind \in {"login", "change"} -> "check"
                 [] kind \in {"refresh", "logout"} -> "read"
                 [] kind = "forgot" -> "invalidate"
                 [] kind \in {"reset", "verify"} -> "open"
                 [] kind = "organize" -> "member"
                 [] OTHER -> "plan"

\* Every request that arrives is well formed.
LEMMA ArriveWellFormed ==
    ASSUME IInv, NEW h \in Handlers, Arrive(h)
    PROVE  \E kind, x, first : Start(h, kind, x, first) /\ WellFormed(kind, x, first)
  <1> USE DEF WellFormed, Op
  <1>1. CASE Register(h)
    BY <1>1 DEF Register
  <1>2. CASE Login(h) \/ ChangePassword(h)
    BY <1>2 DEF Login, ChangePassword, IInv, TypeOK, Account
  <1>3. CASE Refresh(h) \/ Logout(h)
    <2>1. \A s \in Issued : s \in Second /\ sessions[s] # None /\ account # None
      BY DEF Issued, IInv
    <2> QED
      BY <1>3, <2>1 DEF Refresh, Logout
  <1>4. CASE ForgotPassword(h) \/ CreateOrganization(h) \/ ViewSubscription(h)
    BY <1>4 DEF ForgotPassword, CreateOrganization, ViewSubscription
  <1>5. CASE FollowLink(h)
    <2>1. PICK k \in mailed : Start(h, links[k].kind, k, "open")
      BY <1>5 DEF FollowLink
    <2>2. k \in Handlers /\ links[k] # None /\ links[k].kind \in {"verify", "reset"}
      BY DEF IInv, TypeOK, Link
    <2>3. account # None
      BY <2>2 DEF IInv, HandlerInv, LinkInv
    <2> QED
      BY <2>1, <2>2, <2>3
  <1>6. CASE UpgradePlan(h)
    BY <1>6 DEF UpgradePlan
  <1> QED
    BY <1>1, <1>2, <1>3, <1>4, <1>5, <1>6 DEF Arrive

\* A request that arrives changes nothing for those that are there.
LEMMA StartIInv ==
    ASSUME IInv, NEW h \in Handlers, NEW kind, NEW x, NEW first,
           Start(h, kind, x, first), WellFormed(kind, x, first)
    PROVE  IInv'
  <1>1. /\ UNCHANGED <<tables, now, got>>
        /\ pc[h] = "idle" /\ pc' = [pc EXCEPT ![h] = first]
        /\ op' = [op EXCEPT ![h] = kind]
        /\ arg' = [arg EXCEPT ![h] = x]
        /\ pre' = [pre EXCEPT ![h] = Ended]
    BY DEF Start, Goto
  <1>2. /\ HandlerInv(h) /\ op[h] \notin Op /\ links[h] = None
        /\ first \in {"find", "check", "read", "invalidate", "open", "member", "plan"}
    BY <1>1, NoneIsNoRow DEF IInv, HandlerInv, ControlInv, LinkInv, WellFormed
  <1>3. /\ pc'[h] = first /\ op'[h] = kind /\ arg'[h] = x /\ pre'[h] = Ended
        /\ \A k \in Handlers \ {h} : /\ pc'[k] = pc[k] /\ op'[k] = op[k]
                                     /\ arg'[k] = arg[k] /\ pre'[k] = pre[k]
    BY <1>1 DEF IInv, TypeOK, Indexed, IsFunction
  <1>4. TypeOK'
    <2>1. Ended \in SUBSET Handlers /\ kind \in Op
      BY DEF Ended, WellFormed
    <2>2. \A k \in Handlers : arg'[k] = None \/ arg'[k] \in
             CASE op'[k] \in {"refresh", "logout"} -> Second
               [] op'[k] = "upgrade" -> Plans
               [] OTHER -> Handlers
      <3>1. x = None \/ x \in CASE kind \in {"refresh", "logout"} -> Second
                                [] kind = "upgrade" -> Plans
                                [] OTHER -> Handlers
        BY DEF WellFormed
      <3> QED
        BY <1>3, <3>1 DEF IInv, TypeOK
    <2>3. invoices \subseteq {k \in Handlers : op'[k] = "upgrade"}
      BY <1>2, <1>3 DEF IInv, TypeOK, Op
    <2> QED
      BY <1>1, <2>1, <2>2, <2>3 DEF IInv, TypeOK, tables
  <1>5. Indexed'
    BY <1>1 DEF IInv, Indexed, IsFunction
  <1>6. HandlerInv(h)'
    <2>1. RequestInv(h)'
      BY <1>1, <1>3 DEF RequestInv, WellFormed, tables
    <2>5. ControlInv(h)'
      BY <1>2, <1>3 DEF ControlInv, WellFormed, Op
    <2>2. LocalInv(h)' /\ SpentInv(h)' /\ OnceInv(h)' /\ EndInv(h)'
      BY <1>1, <1>2, <1>3 DEF LocalInv, SpentInv, OnceInv, Acting, EndInv, WellFormed, tables
    <2>3. PreInv(h)'
      BY <1>1, <1>3 DEF PreInv, Ended, Final
    <2>4. LinkInv(h)' /\ PlanInv(h)'
      BY <1>1, <1>2, <1>3 DEF LinkInv, PlanInv, tables
    <2> QED
      BY <2>1, <2>2, <2>3, <2>4, <2>5 DEF HandlerInv
  <1>7. ASSUME NEW k \in Handlers \ {h} PROVE HandlerInv(k)'
    <2>1. HandlerInv(k) /\ h \notin pre[k] /\ pre[k] \subseteq Handlers
      BY <1>1 DEF IInv, TypeOK, HandlerInv, PreInv, Final
    <2>2. \A a \in pre[k] : pc'[a] = pc[a] /\ op'[a] = op[a] /\ arg'[a] = arg[a]
      BY <1>3, <2>1
    <2>3. RequestInv(k)' /\ ControlInv(k)' /\ LocalInv(k)' /\ SpentInv(k)' /\ EndInv(k)'
      BY <1>1, <1>3, <2>1
         DEF HandlerInv, RequestInv, ControlInv, LocalInv, SpentInv, EndInv, tables
    <2>4. PreInv(k)' /\ OnceInv(k)'
      BY <1>3, <2>1, <2>2 DEF HandlerInv, PreInv, OnceInv, Reuses
    <2>5. LinkInv(k)'
      BY <1>1, <1>3, <2>1 DEF HandlerInv, LinkInv, IsOpenReset, tables
    <2>6. ShownInv(k) => ShownInv(k)'
      <3>1. \A i \in DOMAIN subs : subs[i].by \in Handlers /\ subs[i].by # h
        BY <1>1, SubscriptionOf DEF IInv, RowInv
      <3>2. \A o : OfOrg(o)' = OfOrg(o)
        BY <1>1 DEF OfOrg, tables
      <3> QED
        BY <1>1, <1>3, <3>1, <3>2 DEF ShownInv, OfOrg, tables
    <2>7. PlanInv(k)'
      <3>1. \A o : OfOrg(o)' = OfOrg(o)
        BY <1>1 DEF OfOrg, tables
      <3> QED
        BY <1>1, <1>3, <2>1, <2>2, <2>6, <3>1 DEF HandlerInv, PlanInv, tables
    <2> QED
      BY <2>3, <2>4, <2>5, <2>7 DEF HandlerInv
  <1>8. ASSUME NEW i \in DOMAIN subs PROVE RowInv(i)'
    BY <1>1, <1>3, SubscriptionOf DEF IInv, RowInv, tables
  <1>9. ASSUME NEW o \in Handlers PROVE NewestInv(o)'
    BY <1>1 DEF IInv, NewestInv, OfOrg, tables
  <1> QED
    BY <1>1, <1>4, <1>5, <1>6, <1>7, <1>8, <1>9 DEF IInv, tables

-----------------------------------------------------------------------------
(* Steps outside the mailing of links and the subscriptions.                *)

\* What remains to be shown of most steps of a handler.
Plain(h) ==
    /\ UNCHANGED links
    /\ pc[h] \in Acting \/ pc'[h] \notin Acting \/ OnceInv(h)'
    /\ pc'[h] \notin {"idle", "find", "invalidate", "subscribe", "extend", "invoice"}
    /\ pc'[h] \in {"create", "link"} => pc[h] \in {"find", "create"}
    /\ pc'[h] = "done" => op[h] \notin {"reset", "upgrade"}

\* The parts of the invariant that a plain step cannot touch.
LEMMA PlainHandler ==
    ASSUME IInv, NEW h \in Handlers, Keeps(h), Plain(h),
           ControlInv(h)', LocalInv(h)', SpentInv(h)'
    PROVE  HandlerInv(h)'
  <1>1. HandlerInv(h) /\ op'[h] = op[h] /\ arg'[h] = arg[h] /\ pre'[h] = pre[h]
    BY DEF IInv, Keeps
  <1>2. OnceInv(h)'
    <2>1. CASE pc[h] \in Acting
      BY <1>1, <2>1, FrameEnded DEF HandlerInv, OnceInv, Reuses
    <2>2. CASE pc'[h] \notin Acting
      BY <2>2 DEF OnceInv
    <2> QED
      BY <2>1, <2>2 DEF Plain
  <1>3. LinkInv(h)'
    <2>1. \A a \in pre[h] : IsOpenReset(a)' <=> IsOpenReset(a)
      BY DEF Plain, IsOpenReset
    <2>2. pc'[h] = "link" => op[h] # "forgot"
      BY <1>1 DEF Plain, HandlerInv, ControlInv
    <2>3. links[h] # None => pc'[h] \notin {"idle", "find", "create", "invalidate", "link"}
      BY <1>1 DEF Plain, HandlerInv, LinkInv
    <2> QED
      BY <1>1, <2>1, <2>2, <2>3 DEF Plain, HandlerInv, LinkInv, Keeps, TablesKeep
  <1>4. EndInv(h)' /\ PlanInv(h)'
    BY <1>1 DEF Plain, EndInv, PlanInv
  <1> QED
    BY <1>2, <1>3, <1>4, FrameRequest DEF HandlerInv

\* Steps that only look: where they lead, and what they have seen.
Looks(h) ==
    /\ UNCHANGED <<tables, locals>> /\ now' \in Second
    /\ pc[h] \notin {"idle"} \cup Final
    /\ pc' = [pc EXCEPT ![h] = pc'[h]] /\ got' = [got EXCEPT ![h] = got'[h]]
    /\ \/ pc'[h] = "failed"
       \/ pc[h] = "find" /\ pc'[h] = "create"
       \/ pc[h] = "check" /\ op[h] = "login" /\ pc'[h] = "sign"
       \/ pc[h] = "check" /\ op[h] = "change" /\ pc'[h] = "password"
       \/ pc[h] = "sign" /\ pc'[h] = "store" /\ got'[h] \in Second
       \/ pc[h] = "read" /\ pc'[h] = "revoke"
          /\ (op[h] = "refresh" => sessions[arg[h]].status = "live")
       \/ pc[h] = "read" /\ pc'[h] = "done" /\ op[h] = "logout"
          /\ sessions[arg[h]].status = "revoked"
       \/ pc[h] = "open" /\ op[h] = "reset" /\ pc'[h] = "password"
          /\ links[arg[h]].status = "open"
       \/ pc[h] = "open" /\ op[h] = "verify" /\ pc'[h] = "confirm"
          /\ links[arg[h]].status = "open"
       \/ pc[h] = "member" /\ pc'[h] = "slug" /\ got'[h] = 0
       \/ pc[h] = "slug" /\ pc'[h] \in {"slug", "insert"} /\ got'[h] \in {got[h], got[h] + 1}
       \/ pc[h] = "plan" /\ op[h] = "view" /\ pc'[h] = "done"

\* The steps that only look.
LEMMA LookSteps ==
    ASSUME IInv, NEW h \in Handlers,
           \/ FindEmail(h) \/ EmailConflict(h) \/ CheckPassword(h) \/ SignToken(h)
           \/ TokenConflict(h) \/ ReadToken(h) \/ OpenLink(h) \/ CheckMembership(h)
           \/ TrySlug(h) \/ SlugConflict(h) \/ NoOrganization(h) \/ Abort(h)
    PROVE  Looks(h)
  <1>1. HandlerInv(h) /\ now \in Second
    BY DEF IInv, TypeOK
  <1> USE <1>1 DEF IInv, Indexed, IsFunction, Looks, Goto, Final
  <1>2. CASE FindEmail(h) \/ EmailConflict(h) \/ SlugConflict(h) \/ Abort(h) \/ TokenConflict(h)
    BY <1>2 DEF FindEmail, EmailConflict, SlugConflict, Abort, TokenConflict
  <1>3. CASE CheckPassword(h)
    BY <1>3 DEF CheckPassword, HandlerInv, ControlInv
  <1>4. CASE SignToken(h)
    BY <1>4 DEF SignToken
  <1>5. CASE ReadToken(h)
    BY <1>5 DEF ReadToken, AfterRead, HandlerInv, ControlInv
  <1>6. CASE OpenLink(h)
    BY <1>6 DEF OpenLink, HandlerInv, ControlInv
  <1>7. CASE CheckMembership(h)
    BY <1>7 DEF CheckMembership
  <1>8. CASE TrySlug(h)
    BY <1>8 DEF TrySlug
  <1>9. CASE NoOrganization(h)
    BY <1>9 DEF NoOrganization, HandlerInv, ControlInv
  <1> QED
    BY <1>2, <1>3, <1>4, <1>5, <1>6, <1>7, <1>8, <1>9

\* A token or link that was used before is not accepted again.
LEMMA LookOnce ==
    ASSUME IInv, NEW h \in Handlers, Looks(h), Keeps(h)
    PROVE  pc[h] \in Acting \/ pc'[h] \notin Acting \/ OnceInv(h)'
  <1>1. HandlerInv(h) /\ op'[h] = op[h] /\ arg'[h] = arg[h] /\ pre'[h] = pre[h]
    BY DEF IInv, Keeps
  <1>2. CASE pc[h] \in {"read", "open"} /\ pc'[h] # "failed"
    <2>1. ASSUME NEW a \in pre[h], pc[a] = "done", Reuses(h, a) PROVE FALSE
      <3>1. HandlerInv(a)
        BY FrameEnded DEF IInv
      <3> QED
        BY <1>1, <1>2, <2>1, <3>1 DEF Looks, HandlerInv, ControlInv, SpentInv, Reuses
    <2> QED
      BY <1>1, <2>1, FrameEnded DEF OnceInv, Reuses
  <1>3. CASE ~(pc[h] \in {"read", "open"} /\ pc'[h] # "failed")
    BY <1>1, <1>3 DEF OnceInv, Reuses, Looks, Acting, HandlerInv, ControlInv
  <1> QED
    BY <1>2, <1>3

\* A step that only looks preserves the invariant.
LEMMA LooksIInv ==
    ASSUME IInv, NEW h \in Handlers, Looks(h)
    PROVE  IInv'
  <1>1. HandlerInv(h)
    BY DEF IInv
  <1>2. TypeOK' /\ Indexed'
    BY DEF IInv, TypeOK, Indexed, IsFunction, Looks, tables, locals
  <1>3. Keeps(h)
    <2>1. SubsKeep(h)
      BY DEF SubsKeep, Looks, tables, locals
    <2>2. TablesKeep(h)
      BY DEF IInv, TablesKeep, IsOpenReset, Looks, tables
    <2> QED
      BY <2>1, <2>2 DEF IInv, Indexed, IsFunction, Keeps, Looks, locals, Final
  <1>4. op'[h] = op[h] /\ arg'[h] = arg[h]
    BY DEF Looks, locals
  <1>5. Plain(h)
    BY <1>1, <1>3, LookOnce DEF Plain, Looks, tables, HandlerInv, ControlInv
  <1>6. ControlInv(h)'
    BY <1>1, <1>4 DEF HandlerInv, ControlInv, Looks
  <1>7. LocalInv(h)'
    BY <1>1 DEF HandlerInv, LocalInv, Looks, tables
  <1>8. SpentInv(h)'
    BY <1>1, <1>4 DEF HandlerInv, ControlInv, SpentInv, Looks, tables
  <1> QED
    BY <1>2, <1>3, <1>5, <1>6, <1>7, <1>8, PlainHandler, StepIInv

\* A step that leaves sessions, links and subscriptions alone leaves others alone.
LEMMA QuietKeeps ==
    ASSUME IInv, NEW h \in Handlers,
           UNCHANGED <<sessions, links, subs, locals>>, account # None => account' # None,
           pc[h] \notin {"idle"} \cup Final, pc'[h] # "idle",
           pc' = [pc EXCEPT ![h] = pc'[h]], got' = [got EXCEPT ![h] = got'[h]]
    PROVE  Keeps(h)
  <1>1. SubsKeep(h)
    BY DEF SubsKeep, locals
  <1>2. TablesKeep(h)
    BY DEF IInv, TablesKeep, IsOpenReset
  <1> QED
    BY <1>1, <1>2 DEF IInv, Indexed, IsFunction, Keeps, locals, Final

\* Writing the user, the mail or the organization.
LEMMA ProfileIInv ==
    ASSUME IInv, NEW h \in Handlers,
           \/ CreateAccount(h) \/ SetPassword(h) \/ ConfirmEmail(h) \/ JoinOrganization(h)
           \/ MailLink(h) \/ InsertOrganization(h)
    PROVE  IInv'
  <1>1. /\ UNCHANGED <<sessions, links, subs, invoices, now, locals, got>>
        /\ pc' = [pc EXCEPT ![h] = pc'[h]]
        /\ \/ pc[h] = "create" /\ pc'[h] = "link"
           \/ pc[h] = "password" /\ pc'[h] = (IF op[h] = "reset" THEN "use" ELSE "done")
           \/ pc[h] = "confirm" /\ pc'[h] = "use"
           \/ pc[h] = "join" /\ pc'[h] = "done"
           \/ pc[h] = "mail" /\ pc'[h] = (IF op[h] = "forgot" THEN "done" ELSE "sign")
           \/ pc[h] = "insert" /\ pc'[h] = "join"
    BY DEF CreateAccount, SetPassword, ConfirmEmail, JoinOrganization, MailLink,
       InsertOrganization, Goto, IInv, Indexed, IsFunction
  <1>2. HandlerInv(h)
    BY DEF IInv
  <1>3. account' \in Account /\ (pc[h] \in {"mail", "insert"} => UNCHANGED account)
    <2>1. CASE CreateAccount(h)
      BY <2>1 DEF CreateAccount, Account, Goto
    <2>2. CASE SetPassword(h) \/ ConfirmEmail(h) \/ JoinOrganization(h)
      <3>1. account \in Account
        BY <1>2, <2>2
           DEF SetPassword, ConfirmEmail, JoinOrganization, Goto, IInv, TypeOK, HandlerInv, LocalInv
      <3> QED
        BY <2>2, <3>1 DEF SetPassword, ConfirmEmail, JoinOrganization, Account, Goto
    <2>3. CASE MailLink(h) \/ InsertOrganization(h)
      <3>1. account \in Account /\ UNCHANGED account
        BY <1>2, <2>3 DEF MailLink, InsertOrganization, Goto, IInv, TypeOK, HandlerInv, LocalInv
      <3> QED
        BY <3>1
    <2> QED
      BY <2>1, <2>2, <2>3
  <1>4. account' # None
    BY <1>3, NoneIsNoRow
  <1>5. mailed' \subseteq {k \in Handlers : links[k] # None}
    <2>1. CASE MailLink(h)
      BY <1>1, <1>2, <2>1 DEF MailLink, Goto, IInv, TypeOK, HandlerInv, LocalInv
    <2> QED
      BY <2>1 DEF CreateAccount, SetPassword, ConfirmEmail, JoinOrganization,
         InsertOrganization, IInv, TypeOK
  <1>6. orgs' \in [Handlers -> Nat \cup {None}]
    BY <1>2 DEF CreateAccount, SetPassword, ConfirmEmail, JoinOrganization, MailLink,
       InsertOrganization, Goto, IInv, TypeOK, HandlerInv, LocalInv
  <1>7. TypeOK' /\ Indexed'
    BY <1>1, <1>3, <1>5, <1>6 DEF IInv, TypeOK, Indexed, IsFunction, locals
  <1>8. Keeps(h)
    BY <1>1, <1>4, QuietKeeps DEF IInv, Indexed, IsFunction, Final
  <1>9. Plain(h)
    BY <1>1, <1>2 DEF Plain, Acting, HandlerInv, ControlInv, OnceInv, Reuses, locals
  <1>10. ControlInv(h)' /\ LocalInv(h)' /\ SpentInv(h)'
    BY <1>1, <1>2, <1>4 DEF HandlerInv, ControlInv, LocalInv, SpentInv, locals, Op
  <1> QED
    BY <1>7, <1>8, <1>9, <1>10, PlainHandler, StepIInv

\* Issuing, expiring and revoking a token: a new one has a name of its own.
LEMMA TokenIInv ==
    ASSUME IInv, NEW h \in Handlers, StoreToken(h) \/ TokenExpired(h) \/ RevokeToken(h)
    PROVE  IInv'
  <1>1. /\ UNCHANGED <<account, links, mailed, orgs, subs, invoices, now, locals>>
        /\ pc' = [pc EXCEPT ![h] = pc'[h]]
        /\ got' = [got EXCEPT ![h] = got'[h]]
        /\ pc[h] \in {"store", "read", "revoke"}
    BY DEF StoreToken, TokenExpired, RevokeToken, Goto, IInv, Indexed, IsFunction
  <1>2. HandlerInv(h) /\ account # None
    BY <1>1 DEF IInv, HandlerInv, LocalInv
  <1>3. PICK s \in Second :
           /\ sessions'[s] \in Session
           /\ \A t \in Second \ {s} : sessions'[t] = sessions[t]
           /\ sessions' \in [Second -> Session \cup {None}]
           /\ \/ /\ pc[h] = "store" /\ pc'[h] = "done"
                 /\ sessions[s] = None /\ sessions'[s].by = h
              \/ /\ pc[h] = "read" /\ pc'[h] = "failed"
                 /\ sessions[s].status = "live" /\ sessions'[s].status = "expired"
              \/ /\ pc[h] = "revoke" /\ s = arg[h] /\ sessions'[s].status = "revoked"
                 /\ pc'[h] = (IF op[h] = "refresh" THEN "sign" ELSE "done")
    <2>1. CASE StoreToken(h)
      <3>1. got[h] \in Second /\ pc[h] = "store" /\ pc'[h] = "done" /\ sessions[got[h]] = None
        BY <1>1, <1>2, <2>1
           DEF StoreToken, Goto, Unused, HandlerInv, LocalInv, IInv, Indexed, IsFunction
      <3>2. [by |-> h, status |-> "live"] \in Session
        BY DEF Session
      <3>3. sessions' = [sessions EXCEPT ![got[h]] = [by |-> h, status |-> "live"]]
        BY <2>1 DEF StoreToken
      <3> QED
        BY <3>1, <3>2, <3>3 DEF IInv, TypeOK
    <2>2. CASE TokenExpired(h)
      <3>1. /\ arg[h] \in Second /\ sessions[arg[h]] \in Session /\ pc[h] = "read"
            /\ pc'[h] = "failed" /\ sessions[arg[h]].status = "live"
        BY <1>1, <1>2, <2>2
           DEF TokenExpired, Goto, HandlerInv, RequestInv, IInv, TypeOK, Indexed, IsFunction
      <3>2. [sessions[arg[h]] EXCEPT !.status = "expired"] \in Session
        BY <3>1 DEF Session
      <3>3. sessions' = [sessions EXCEPT ![arg[h]] = [sessions[arg[h]] EXCEPT !.status = "expired"]]
        BY <2>2 DEF TokenExpired
      <3> QED
        BY <3>1, <3>2, <3>3 DEF IInv, TypeOK, Session
    <2>3. CASE RevokeToken(h)
      <3>1. /\ arg[h] \in Second /\ sessions[arg[h]] \in Session /\ pc[h] = "revoke"
            /\ pc'[h] = (IF op[h] = "refresh" THEN "sign" ELSE "done")
        BY <1>1, <1>2, <2>3
           DEF RevokeToken, Goto, HandlerInv, RequestInv, ControlInv, IInv, TypeOK, Indexed, IsFunction
      <3>2. [sessions[arg[h]] EXCEPT !.status = "revoked"] \in Session
        BY <3>1 DEF Session
      <3>3. sessions' = [sessions EXCEPT ![arg[h]] = [sessions[arg[h]] EXCEPT !.status = "revoked"]]
        BY <2>3 DEF RevokeToken
      <3> QED
        BY <3>1, <3>2, <3>3 DEF IInv, TypeOK, Session
    <2> QED
      BY <2>1, <2>2, <2>3
  <1>4. sessions'[s] # None
    BY <1>3, NoneIsNoRow
  <1>5. TypeOK' /\ Indexed'
    BY <1>1, <1>3 DEF IInv, TypeOK, Indexed, IsFunction, locals
  <1>6. Keeps(h)
    <2>1. SubsKeep(h)
      BY <1>1 DEF SubsKeep, locals
    <2>2. TablesKeep(h)
      BY <1>1, <1>2, <1>3, <1>4 DEF TablesKeep, IsOpenReset
    <2> QED
      BY <1>1, <1>3, <2>1, <2>2 DEF IInv, Indexed, IsFunction, Keeps, locals, Final
  <1>7. Plain(h)
    BY <1>1, <1>2, <1>3 DEF Plain, Acting, HandlerInv, ControlInv
  <1>8. ControlInv(h)' /\ LocalInv(h)'
    BY <1>1, <1>2, <1>3 DEF HandlerInv, ControlInv, LocalInv, locals, Op
  <1>9. SpentInv(h)'
    <2>1. op'[h] = op[h] /\ arg'[h] = arg[h]
      BY <1>1 DEF locals
    <2>2. op[h] \in {"refresh", "logout"} => arg[h] \in Second /\ sessions[arg[h]] # None
      BY <1>2 DEF HandlerInv, RequestInv
    <2> QED
      BY <1>1, <1>2, <1>3, <2>1, <2>2 DEF HandlerInv, ControlInv, SpentInv
  <1> QED
    BY <1>5, <1>6, <1>7, <1>8, <1>9, PlainHandler, StepIInv

\* Once all tokens are revoked, those who came before hold none that is live.
LEMMA EndSessionsIInv ==
    ASSUME IInv, NEW h \in Handlers, EndSessions(h)
    PROVE  IInv'
  <1>1. /\ UNCHANGED <<account, links, mailed, orgs, subs, invoices, now, locals, got>>
        /\ pc[h] = "end" /\ pc' = [pc EXCEPT ![h] = "done"]
        /\ sessions' = [s \in Second |-> IF sessions[s] # None
                                         THEN [sessions[s] EXCEPT !.status = "revoked"]
                                         ELSE sessions[s]]
    BY DEF EndSessions, Goto, EndedBy
  <1>2. HandlerInv(h) /\ account # None /\ op[h] = "reset"
    BY <1>1 DEF IInv, HandlerInv, LocalInv, ControlInv
  <1>3. \A s \in Second :
           /\ sessions[s] # None => /\ sessions'[s] \in Session /\ sessions'[s] # None
                                    /\ sessions'[s].status = "revoked"
           /\ sessions[s] = None => sessions'[s] = None
    <2> SUFFICES ASSUME NEW s \in Second
                 PROVE  /\ sessions[s] # None => /\ sessions'[s] \in Session /\ sessions'[s] # None
                                                 /\ sessions'[s].status = "revoked"
                        /\ sessions[s] = None => sessions'[s] = None
      OBVIOUS
    <2>1. CASE sessions[s] # None
      <3>1. sessions[s] \in Session
        BY <2>1 DEF IInv, TypeOK
      <3>2. sessions'[s] = [sessions[s] EXCEPT !.status = "revoked"]
        BY <1>1, <2>1
      <3>3. sessions'[s] \in Session /\ sessions'[s].status = "revoked"
        BY <3>1, <3>2 DEF Session
      <3> QED
        BY <2>1, <3>3, NoneIsNoRow
    <2>2. CASE sessions[s] = None
      BY <1>1, <2>2
    <2> QED
      BY <2>1, <2>2
  <1>4. TypeOK' /\ Indexed'
    <2>1. sessions' \in [Second -> Session \cup {None}]
      BY <1>1, <1>3
    <2> QED
      BY <1>1, <2>1 DEF IInv, TypeOK, Indexed, IsFunction, locals
  <1>5. Keeps(h)
    <2>1. SubsKeep(h)
      BY <1>1 DEF SubsKeep, locals
    <2>2. TablesKeep(h)
      BY <1>1, <1>2, <1>3 DEF TablesKeep, IsOpenReset
    <2> QED
      BY <1>1, <2>1, <2>2 DEF IInv, Indexed, IsFunction, Keeps, locals, Final
  <1>6. HandlerInv(h)'
    <2>1. /\ pc'[h] = "done" /\ op'[h] = op[h] /\ arg'[h] = arg[h]
      BY <1>1 DEF IInv, Indexed, IsFunction, locals
    <2>2. ControlInv(h)' /\ LocalInv(h)' /\ SpentInv(h)'
      BY <1>1, <1>2, <2>1 DEF HandlerInv, ControlInv, LocalInv, SpentInv, Op
    <2>3. OnceInv(h)'
      BY <1>1, <1>2, <2>1, <1>5, FrameEnded DEF HandlerInv, OnceInv, Reuses, Acting, locals
    <2>4. EndInv(h)' /\ PlanInv(h)'
      BY <1>2, <1>3, <2>1 DEF EndInv, PlanInv
    <2>5. LinkInv(h)'
      BY <1>1, <1>2, <2>1 DEF HandlerInv, LinkInv, IsOpenReset, locals
    <2> QED
      BY <1>5, <2>2, <2>3, <2>4, <2>5, FrameRequest DEF HandlerInv
  <1> QED
    BY <1>4, <1>5, <1>6, StepIInv

-----------------------------------------------------------------------------
(* Mailed links.                                                            *)

\* What a step on links does to them, and to nothing else.
LinkStep(h) ==
    /\ UNCHANGED <<account, sessions, mailed, orgs, subs, invoices, now, locals, got>>
    /\ pc' = [pc EXCEPT ![h] = pc'[h]]
    /\ links' \in [Handlers -> Link \cup {None}]
    /\ \A k \in Handlers : links[k] # None =>
          /\ links'[k] # None /\ links'[k].kind = links[k].kind
          /\ links[k].status = "used" => links'[k].status = "used"
    /\ \A k \in Handlers : (k # h \/ pc[h] # "link") =>
          /\ links[k] = None => links'[k] = None
          /\ IsOpenReset(k)' => IsOpenReset(k)
    /\ \/ pc[h] = "invalidate" /\ pc'[h] = "link" /\ \A k \in Handlers : ~IsOpenReset(k)'
       \/ pc[h] = "link" /\ pc'[h] = "mail"
          /\ links'[h] # None /\ (links'[h].kind = "reset" => op[h] = "forgot")
       \/ pc[h] = "open" /\ pc'[h] = "failed"
       \/ pc[h] = "use" /\ pc'[h] = (IF op[h] = "reset" THEN "end" ELSE "done")
          /\ links'[arg[h]].status = "used"

\* Closing every reset link that is not used closes the open ones.
LEMMA InvalidateStep ==
    ASSUME IInv, NEW h \in Handlers, InvalidateLinks(h)
    PROVE  LinkStep(h)
  <1>1. /\ UNCHANGED <<account, sessions, mailed, orgs, subs, invoices, now, locals, got>>
        /\ pc[h] = "invalidate" /\ pc' = [pc EXCEPT ![h] = "link"]
        /\ links' = [k \in Handlers |-> IF Invalidated(links[k])
                                        THEN [links[k] EXCEPT !.status = "used"] ELSE links[k]]
    BY DEF InvalidateLinks, Goto
  <1>2. ASSUME NEW k \in Handlers, links[k] # None
        PROVE  /\ links'[k] \in Link /\ links'[k].kind = links[k].kind
               /\ links'[k].status \in {links[k].status, "used"}
               /\ links[k].kind = "reset" => links'[k].status = "used"
    <2>1. links[k] \in Link
      BY <1>2 DEF IInv, TypeOK
    <2>2. CASE Invalidated(links[k])
      <3>1. links'[k] = [links[k] EXCEPT !.status = "used"]
        BY <1>1, <2>2
      <3> QED
        BY <2>1, <3>1 DEF Link
    <2>3. CASE ~Invalidated(links[k])
      BY <1>1, <1>2, <2>1, <2>3 DEF Invalidated
    <2> QED
      BY <2>2, <2>3
  <1>3. \A k \in Handlers : links[k] = None => links'[k] = None
    BY <1>1 DEF Invalidated
  <1>4. links' \in [Handlers -> Link \cup {None}]
    BY <1>1, <1>2, <1>3
  <1>5. \A k \in Handlers : ~IsOpenReset(k)'
    BY <1>2, <1>3 DEF IsOpenReset
  <1> QED
    BY <1>1, <1>2, <1>3, <1>4, <1>5, NoneIsNoRow DEF LinkStep, IInv, Indexed, IsFunction

\* The other steps on links write one of them.
LEMMA OneLinkStep ==
    ASSUME IInv, NEW h \in Handlers, CreateLink(h) \/ LinkExpired(h) \/ UseLink(h)
    PROVE  LinkStep(h)
  <1>1. /\ UNCHANGED <<account, sessions, mailed, orgs, subs, invoices, now, locals, got>>
        /\ pc' = [pc EXCEPT ![h] = pc'[h]]
    BY DEF CreateLink, LinkExpired, UseLink, Goto, IInv, Indexed, IsFunction
  <1>2. HandlerInv(h)
    BY DEF IInv
  <1>3. CASE CreateLink(h)
    <2> DEFINE new == [kind |-> IF op[h] = "forgot" THEN "reset" ELSE "verify", status |-> "open"]
    <2>1. links' = [links EXCEPT ![h] = new] /\ pc[h] = "link" /\ pc'[h] = "mail"
      BY <1>3 DEF CreateLink, Goto, IInv, Indexed, IsFunction
    <2>2. new \in Link /\ links[h] = None /\ (new.kind = "reset" => op[h] = "forgot")
      BY <1>2, <2>1 DEF Link, HandlerInv, LinkInv
    <2> HIDE DEF new
    <2>3. links'[h] = new /\ new # None /\ \A k \in Handlers \ {h} : links'[k] = links[k]
      BY <2>1, <2>2, NoneIsNoRow DEF IInv, TypeOK
    <2> QED
      BY <1>1, <2>1, <2>2, <2>3 DEF LinkStep, IInv, TypeOK, IsOpenReset
  <1>4. CASE LinkExpired(h) \/ UseLink(h)
    <2> DEFINE l == arg[h]
    <2>1. PICK status \in {"expired", "used"} :
             /\ links' = [links EXCEPT ![l] = [links[l] EXCEPT !.status = status]]
             /\ \/ pc[h] = "open" /\ pc'[h] = "failed" /\ links[l].status = "open"
                \/ pc[h] = "use" /\ pc'[h] = (IF op[h] = "reset" THEN "end" ELSE "done")
                   /\ status = "used"
      BY <1>4 DEF LinkExpired, UseLink, Goto, IInv, Indexed, IsFunction
    <2>2. l \in Handlers /\ links[l] # None /\ links[l] \in Link
      BY <1>2, <2>1 DEF IInv, TypeOK, HandlerInv, ControlInv, RequestInv
    <2> DEFINE new == [links[l] EXCEPT !.status = status]
    <2>3. new \in Link /\ new.kind = links[l].kind /\ new.status = status
      BY <2>2 DEF Link
    <2> HIDE DEF new
    <2>4. /\ links'[l] = new /\ new # None
          /\ \A k \in Handlers \ {l} : links'[k] = links[k]
          /\ links' \in [Handlers -> Link \cup {None}]
      BY <2>1, <2>2, <2>3, NoneIsNoRow DEF IInv, TypeOK, new
    <2>5. \A k \in Handlers : /\ links[k] # None =>
                                    /\ links'[k] # None /\ links'[k].kind = links[k].kind
                                    /\ links[k].status = "used" => links'[k].status = "used"
                              /\ links[k] = None => links'[k] = None
                              /\ IsOpenReset(k)' => IsOpenReset(k)
      BY <2>1, <2>2, <2>3, <2>4 DEF IsOpenReset
    <2> QED
      BY <1>1, <2>1, <2>3, <2>4, <2>5 DEF LinkStep
  <1> QED
    BY <1>3, <1>4

\* A request for a link has closed those of the requests before it.
LEMMA LinkIInv ==
    ASSUME IInv, NEW h \in Handlers, LinkStep(h)
    PROVE  IInv'
  <1>1. HandlerInv(h) /\ account # None
    BY DEF IInv, HandlerInv, LocalInv, LinkStep
  <1>2. TypeOK' /\ Indexed'
    BY DEF IInv, TypeOK, Indexed, IsFunction, LinkStep, locals
  <1>3. Keeps(h)
    <2>1. SubsKeep(h)
      BY DEF SubsKeep, LinkStep, locals
    <2>2. TablesKeep(h)
      BY DEF IInv, TablesKeep, LinkStep
    <2> QED
      BY <2>1, <2>2 DEF IInv, Indexed, IsFunction, Keeps, LinkStep, locals, Final
  <1>4. op'[h] = op[h] /\ arg'[h] = arg[h] /\ pre'[h] = pre[h] /\ got' = got
    BY DEF LinkStep, locals
  <1>5. ControlInv(h)' /\ LocalInv(h)'
    BY <1>1, <1>4 DEF HandlerInv, ControlInv, LocalInv, LinkStep, Op
  <1>6. SpentInv(h)'
    BY <1>1, <1>4 DEF HandlerInv, ControlInv, RequestInv, SpentInv, LinkStep
  <1>7. OnceInv(h)'
    <2>1. CASE pc[h] \in {"invalidate", "link"}
      BY <1>1, <1>4, <2>1 DEF HandlerInv, ControlInv, OnceInv, Reuses
    <2>2. CASE pc'[h] = "failed"
      BY <2>2 DEF OnceInv, Acting
    <2>3. CASE pc[h] = "use"
      BY <1>1, <1>3, <1>4, <2>3, FrameEnded DEF HandlerInv, OnceInv, Reuses, Acting
    <2> QED
      BY <2>1, <2>2, <2>3 DEF LinkStep
  <1>8. EndInv(h)' /\ PlanInv(h)'
    BY <1>1, <1>4 DEF HandlerInv, ControlInv, EndInv, PlanInv, LinkStep
  <1>9. LinkInv(h)'
    <2>1. links'[h] # None => pc'[h] \notin {"idle", "find", "create", "invalidate", "link"}
      BY <1>1 DEF HandlerInv, LinkInv, LinkStep
    <2>2. account' # None
      BY <1>1 DEF LinkStep
    <2>3. ASSUME (pc'[h] = "link" /\ op[h] = "forgot") \/ (links'[h] # None /\ links'[h].kind = "reset"),
                 NEW a \in pre[h] \ {h}
          PROVE  ~IsOpenReset(a)'
      <3>1. a \in Handlers
        BY <1>3, FrameEnded
      <3>2. CASE pc[h] = "invalidate"
        BY <3>1, <3>2 DEF LinkStep
      <3>3. CASE pc[h] # "invalidate"
        <4>1. (pc[h] = "link" /\ op[h] = "forgot") \/ (links[h] # None /\ links[h].kind = "reset")
          BY <2>3, <3>3 DEF LinkStep
        <4> QED
          BY <1>1, <2>3, <3>1, <4>1 DEF HandlerInv, LinkInv, LinkStep
      <3> QED
        BY <3>2, <3>3
    <2> QED
      BY <1>4, <2>1, <2>2, <2>3 DEF LinkInv
  <1> QED
    BY <1>2, <1>3, <1>5, <1>6, <1>7, <1>8, <1>9, FrameRequest, StepIInv DEF HandlerInv

-----------------------------------------------------------------------------
(* The plan of the organization.                                            *)

\* The subscription that is shown is the newest.
LEMMA CurrentIsNewest ==
    ASSUME NEW o, NewestInv(o), OfOrg(o) # {}
    PROVE  Current(o) \in OfOrg(o) /\ \A j \in OfOrg(o) : j <= Current(o)
  BY DEF NewestInv, Current

\* Organizations have subscriptions by their places in the table.
LEMMA OfOrgPlaces ==
    ASSUME TypeOK, NEW o
    PROVE  OfOrg(o) \subseteq 1 .. Len(subs) /\ DOMAIN subs = 1 .. Len(subs) /\ Len(subs) \in Nat
  BY DEF TypeOK, OfOrg

\* The parts of the invariant that the steps about a plan cannot touch.
LEMMA PlanHandler ==
    ASSUME IInv, NEW h \in Handlers, Keeps(h), UNCHANGED <<account, links>>,
           pc[h] \in {"plan", "subscribe", "extend", "invoice"},
           \/ pc'[h] \in {"subscribe", "done"}
           \/ pc'[h] \in {"extend", "invoice"} /\ op[h] = "upgrade",
           PlanInv(h)'
    PROVE  HandlerInv(h)'
  <1>1. /\ HandlerInv(h) /\ account # None /\ op[h] \in {"view", "upgrade"}
        /\ op'[h] = op[h] /\ arg'[h] = arg[h] /\ pre'[h] = pre[h]
    BY DEF IInv, HandlerInv, LocalInv, ControlInv, Keeps
  <1>2. ControlInv(h)' /\ LocalInv(h)' /\ SpentInv(h)' /\ OnceInv(h)' /\ EndInv(h)'
    BY <1>1 DEF HandlerInv, ControlInv, LocalInv, SpentInv, OnceInv, Reuses, EndInv, Op
  <1>3. LinkInv(h)'
    BY <1>1 DEF HandlerInv, LinkInv, IsOpenReset
  <1> QED
    BY <1>2, <1>3, FrameRequest DEF HandlerInv

\* Who finds no subscription came before every upgrade that is answered; who finds
\* one finds the newest.
LEMMA FindSubscriptionIInv ==
    ASSUME IInv, NEW h \in Handlers, FindSubscription(h)
    PROVE  IInv'
  <1> DEFINE o == account.org
             sub == IF OfOrg(o) = {} THEN 0 ELSE Current(o)
  <1>1. /\ UNCHANGED <<tables, now, locals>>
        /\ pc[h] = "plan" /\ pc' = [pc EXCEPT ![h] = AfterPlan(h, o)]
        /\ o # None
        /\ got' = [got EXCEPT ![h] = [org |-> o, sub |-> sub]]
    BY DEF FindSubscription, Goto
  <1>2. HandlerInv(h) /\ account \in Account /\ o \in Handlers /\ NewestInv(o)
    <2>1. HandlerInv(h) /\ account \in Account
      BY <1>1 DEF IInv, TypeOK, HandlerInv, LocalInv
    <2>2. o \in Handlers
      BY <1>1, <2>1 DEF Account
    <2> QED
      BY <2>1, <2>2 DEF IInv
  <1>3. /\ got'[h].org = o /\ got'[h].sub = sub /\ op'[h] = op[h] /\ pre'[h] = pre[h]
        /\ pc'[h] = AfterPlan(h, o)
    BY <1>1 DEF IInv, Indexed, IsFunction, locals
  <1>4. /\ op[h] \in {"view", "upgrade"}
        /\ \/ OfOrg(o) = {} /\ pc'[h] = "subscribe"
           \/ OfOrg(o) # {} /\ op[h] = "view" /\ pc'[h] = "done"
           \/ OfOrg(o) # {} /\ op[h] = "upgrade" /\ pc'[h] = "extend"
    BY <1>1, <1>2, <1>3 DEF HandlerInv, ControlInv, AfterPlan
  <1>5. TypeOK' /\ Indexed'
    BY <1>1 DEF IInv, TypeOK, Indexed, IsFunction, tables, locals
  <1>6. Keeps(h)
    BY <1>1, <1>4, QuietKeeps DEF IInv, Indexed, IsFunction, tables, Final
  <1>7. PlanInv(h)'
    <2>1. subs' = subs /\ \A x : OfOrg(x)' = OfOrg(x)
      BY <1>1 DEF OfOrg, tables
    <2>2. CASE pc'[h] = "subscribe"
      <3>1. ASSUME NEW k \in pre[h], op[k] = "upgrade", pc[k] = "done" PROVE got[k].org # o
        <4>1. PlanInv(k)
          BY <1>6, FrameEnded DEF IInv, HandlerInv
        <4> QED
          BY <1>4, <2>2, <3>1, <4>1 DEF PlanInv, ShownInv
      <3> QED
        BY <1>2, <1>3, <2>2, <3>1, <1>6, FrameEnded DEF PlanInv
    <2>3. CASE pc'[h] = "extend"
      <3>1. sub \in OfOrg(o) /\ \A j \in OfOrg(o) : j <= sub
        BY <1>2, <1>4, <2>3, CurrentIsNewest
      <3>2. \A j \in OfOrg(o) : ~(j > sub)
        BY <3>1, OfOrgPlaces DEF IInv
      <3> HIDE DEF sub
      <3> QED
        BY <1>2, <1>3, <2>1, <2>3, <3>1, <3>2 DEF PlanInv
    <2>4. CASE pc'[h] = "done" /\ op[h] = "view"
      BY <1>3, <2>4 DEF PlanInv
    <2> QED
      BY <1>4, <2>2, <2>3, <2>4
  <1> QED
    BY <1>1, <1>4, <1>5, <1>6, <1>7, PlanHandler, StepIInv DEF tables

\* A new subscription is the newest, and has the plan that was asked for.
LEMMA SubscribeIInv ==
    ASSUME IInv, NEW h \in Handlers, Subscribe(h)
    PROVE  IInv'
  <1> DEFINE new == [org |-> got[h].org, plan |-> Wanted(h), by |-> h]
             n == Len(subs)
  <1>1. /\ UNCHANGED <<account, sessions, links, mailed, orgs, invoices, now, locals, got>>
        /\ pc[h] = "subscribe"
        /\ pc' = [pc EXCEPT ![h] = IF op[h] = "upgrade" THEN "invoice" ELSE "done"]
        /\ subs' = Append(subs, new)
    BY DEF Subscribe, Goto
  <1>2. HandlerInv(h) /\ op[h] \in {"view", "upgrade"} /\ got[h].org \in Handlers
    BY <1>1 DEF IInv, HandlerInv, ControlInv, PlanInv
  <1>3. Wanted(h) \in Plan
    BY <1>2, AccountsAssumption DEF Wanted, HandlerInv, RequestInv, Plan
  <1>4. new \in Subscription /\ new.org = got[h].org /\ new.by = h /\ new.plan = Wanted(h)
    BY <1>2, <1>3 DEF Subscription
  <1> HIDE DEF new
  <1>5. /\ subs \in Seq(Subscription) /\ subs' \in Seq(Subscription)
        /\ n \in Nat /\ DOMAIN subs = 1 .. n /\ DOMAIN subs' = 1 .. (n + 1)
        /\ subs'[n + 1] = new
        /\ \A i \in 1 .. n : subs'[i] = subs[i]
    BY <1>1, <1>4 DEF IInv, TypeOK
  <1>6. TypeOK' /\ Indexed'
    BY <1>1, <1>5 DEF IInv, TypeOK, Indexed, IsFunction, locals
  <1>7. Keeps(h)
    <2>1. SubsKeep(h)
      BY <1>1, <1>4, <1>5 DEF SubsKeep, locals
    <2>2. TablesKeep(h)
      BY <1>1 DEF IInv, TablesKeep, IsOpenReset
    <2> QED
      BY <1>1, <2>1, <2>2 DEF IInv, Indexed, IsFunction, Keeps, locals, Final
  <1>8. PlanInv(h)'
    <2>1. got'[h] = got[h] /\ op'[h] = op[h] /\ pre' = pre
      BY <1>1 DEF locals
    <2>2. pc'[h] = IF op[h] = "upgrade" THEN "invoice" ELSE "done"
      BY <1>1 DEF IInv, Indexed, IsFunction
    <2>3. n + 1 \in OfOrg(got[h].org)'
      BY <1>4, <1>5, <2>1 DEF OfOrg
    <2>4. \A i \in OfOrg(got[h].org)' : (\A j \in OfOrg(got[h].org)' : j <= i) => i = n + 1
      BY <1>5, <2>3 DEF OfOrg
    <2>5. ShownInv(h)'
      BY <1>4, <1>5, <2>1, <2>3, <2>4 DEF ShownInv
    <2> QED
      BY <2>1, <2>2, <2>5 DEF PlanInv
  <1> QED
    BY <1>1, <1>2, <1>6, <1>7, <1>8, PlanHandler, StepIInv DEF IInv, Indexed, IsFunction

\* An upgrade that finds a subscription writes the newest, or one that a request
\* that overlapped has followed.
LEMMA ExtendIInv ==
    ASSUME IInv, NEW h \in Handlers, Extend(h)
    PROVE  IInv'
  <1> DEFINE o == got[h].org
             s == got[h].sub
             new == [subs[s] EXCEPT !.plan = Wanted(h), !.by = h]
  <1>1. /\ UNCHANGED <<account, sessions, links, mailed, orgs, invoices, now, locals, got>>
        /\ pc[h] = "extend" /\ pc' = [pc EXCEPT ![h] = "invoice"]
        /\ subs' = [subs EXCEPT ![s].plan = Wanted(h), ![s].by = h]
    BY DEF Extend, Goto
  <1>2. /\ HandlerInv(h) /\ op[h] = "upgrade" /\ o \in Handlers /\ s \in OfOrg(o)
        /\ \A j \in OfOrg(o) : j > s => subs[j].by \notin pre[h]
    BY <1>1 DEF IInv, HandlerInv, ControlInv, PlanInv
  <1>3. s \in DOMAIN subs /\ subs[s] \in Subscription /\ subs[s].org = o /\ Wanted(h) \in Plan
    BY <1>2, SubscriptionOf, AccountsAssumption DEF IInv, OfOrg, Wanted, HandlerInv, RequestInv
  <1>4. new \in Subscription /\ new.org = o /\ new.by = h /\ new.plan = Wanted(h)
    BY <1>3 DEF Subscription
  <1>5. subs' = [subs EXCEPT ![s] = new]
    BY <1>1, <1>3 DEF IInv, TypeOK
  <1> HIDE DEF new
  <1>6. /\ subs' \in Seq(Subscription) /\ DOMAIN subs' = DOMAIN subs
        /\ subs'[s] = new
        /\ \A i \in DOMAIN subs : i # s => subs'[i] = subs[i]
    BY <1>3, <1>4, <1>5 DEF IInv, TypeOK
  <1>7. TypeOK' /\ Indexed'
    BY <1>1, <1>6 DEF IInv, TypeOK, Indexed, IsFunction, locals
  <1>8. Keeps(h)
    <2>1. SubsKeep(h)
      BY <1>1, <1>2, <1>3, <1>4, <1>6 DEF SubsKeep, Wanted, locals
    <2>2. TablesKeep(h)
      BY <1>1 DEF IInv, TablesKeep, IsOpenReset
    <2> QED
      BY <1>1, <2>1, <2>2 DEF IInv, Indexed, IsFunction, Keeps, locals, Final
  <1>9. PlanInv(h)'
    <2>1. got'[h] = got[h] /\ op' = op /\ pre' = pre /\ pc'[h] = "invoice"
      BY <1>1 DEF IInv, Indexed, IsFunction, locals
    <2>2. OfOrg(o)' = OfOrg(o)
      <3>1. \A i \in DOMAIN subs : subs'[i].org = subs[i].org
        BY <1>3, <1>4, <1>6
      <3> QED
        BY <1>6, <2>1, <3>1 DEF OfOrg
    <2>3. ASSUME NEW i \in OfOrg(o), \A j \in OfOrg(o) : j <= i
          PROVE  /\ subs'[i].by = h \/ subs'[i].by \notin pre[h]
                 /\ subs'[i].by # h => h \notin pre[subs'[i].by]
      <3>1. CASE i = s
        BY <1>4, <1>6, <3>1
      <3>2. CASE i # s
        <4>1. i > s /\ i \in DOMAIN subs /\ subs'[i] = subs[i]
          BY <1>2, <1>6, <2>3, <3>2, OfOrgPlaces DEF IInv
        <4>2. subs[i].by \in Handlers
          BY <4>1, SubscriptionOf DEF IInv
        <4>3. h \notin pre[subs[i].by]
          BY <1>8, <4>2, FrameEnded
        <4> QED
          BY <1>2, <2>3, <4>1, <4>3
      <3> QED
        BY <3>1, <3>2
    <2>4. ShownInv(h)'
      BY <1>2, <2>1, <2>2, <2>3 DEF ShownInv
    <2> QED
      BY <2>1, <2>4 DEF PlanInv
  <1> QED
    BY <1>1, <1>2, <1>7, <1>8, <1>9, PlanHandler, StepIInv DEF IInv, Indexed, IsFunction

\* An upgrade is answered when its invoice is written.
LEMMA InvoiceIInv ==
    ASSUME IInv, NEW h \in Handlers, Invoice(h)
    PROVE  IInv'
  <1>1. /\ UNCHANGED <<account, sessions, links, mailed, orgs, subs, now, locals, got>>
        /\ pc[h] = "invoice" /\ pc' = [pc EXCEPT ![h] = "done"]
        /\ invoices' \subseteq invoices \cup {h}
    BY DEF Invoice, Goto
  <1>2. HandlerInv(h) /\ op[h] = "upgrade" /\ ShownInv(h)
    BY <1>1 DEF IInv, HandlerInv, ControlInv, PlanInv
  <1>3. TypeOK' /\ Indexed'
    BY <1>1, <1>2 DEF IInv, TypeOK, Indexed, IsFunction, locals
  <1>4. Keeps(h)
    BY <1>1, QuietKeeps DEF IInv, Indexed, IsFunction, Final
  <1>5. PlanInv(h)'
    <2>1. ShownInv(h)'
      BY <1>1, <1>2 DEF ShownInv, OfOrg, locals
    <2> QED
      BY <1>1, <2>1 DEF PlanInv, IInv, Indexed, IsFunction
  <1> QED
    BY <1>1, <1>3, <1>4, <1>5, PlanHandler, StepIInv DEF IInv, Indexed, IsFunction

-----------------------------------------------------------------------------
\* Every step preserves the invariant.
LEMMA NextIInv == IInv /\ [Next]_vars => IInv'
  <1> SUFFICES ASSUME IInv, [Next]_vars PROVE IInv'
    OBVIOUS
  <1>1. CASE UNCHANGED vars
    <2> USE <1>1 DEF vars, tables, locals
    <2>1. TypeOK' /\ Indexed' /\ \A s \in Second : sessions'[s] # None => account' # None
      BY DEF IInv, TypeOK, Indexed, IsFunction
    <2>2. ASSUME NEW h \in Handlers PROVE HandlerInv(h)'
      <3>1. /\ PlanInv(h)' <=> PlanInv(h)
            /\ LinkInv(h)' <=> LinkInv(h)
            /\ EndInv(h)' <=> EndInv(h)
            /\ OnceInv(h)' <=> OnceInv(h)
        BY DEF PlanInv, ShownInv, OfOrg, LinkInv, IsOpenReset, EndInv, OnceInv, Reuses
      <3>2. HandlerInv(h)
        BY DEF IInv
      <3> QED
        BY <3>1, <3>2 DEF HandlerInv, RequestInv, ControlInv, LocalInv, PreInv, SpentInv
    <2>3. /\ \A i \in DOMAIN subs' : RowInv(i)'
          /\ \A o \in Handlers : NewestInv(o)'
      BY DEF IInv, RowInv, NewestInv, OfOrg
    <2> QED
      BY <2>1, <2>2, <2>3 DEF IInv
  <1>2. ASSUME NEW h \in Handlers, Arrive(h)
        PROVE  IInv'
    BY <1>2, ArriveWellFormed, StartIInv
  <1>3. ASSUME NEW h \in Handlers, Run(h) \/ Abort(h)
        PROVE  IInv'
    BY <1>3, LookSteps, LooksIInv, ProfileIInv, TokenIInv, EndSessionsIInv, InvalidateStep,
       OneLinkStep, LinkIInv, FindSubscriptionIInv, SubscribeIInv, ExtendIInv, InvoiceIInv DEF Run
  <1> QED
    BY <1>1, <1>2, <1>3 DEF Next

\* The invariant holds throughout every behaviour.
THEOREM Invariance == Spec => []IInv
  BY InitIInv, NextIInv, PTL DEF Spec

\* Rows, links, plans and requests are always of their types.
THEOREM TypeCorrect == Spec => []TypeOK
  BY Invariance, PTL DEF IInv

\* refresh, resetPassword and verifyEmail refuse a token or a link that a request
\* answered before has used.
THEOREM TokensServeOnce == Spec => []UsedOnlyOnce
  <1>1. IInv => UsedOnlyOnce
    BY DEF IInv, HandlerInv, OnceInv, Reuses, UsedOnlyOnce
  <1> QED
    BY <1>1, Invariance, PTL

\* resetPassword ends every session that was answered before the reset was requested.
THEOREM ResetEndsSessions == Spec => []SessionsEndWithReset
  <1>1. IInv => SessionsEndWithReset
    BY DEF IInv, HandlerInv, EndInv, SessionsEndWithReset
  <1> QED
    BY <1>1, Invariance, PTL

\* forgotPassword leaves one open link, of requests that do not overlap.
THEOREM LinksReplaceEachOther == Spec => []OneOpenLink
  <1>1. IInv => OneOpenLink
    <2> SUFFICES ASSUME IInv, NEW h \in Handlers, NEW k \in Handlers, h # k,
                        links[h] # None, links[k] # None,
                        links[h] = [kind |-> "reset", status |-> "open"], links[k] = links[h]
                 PROVE  h \notin pre[k] /\ k \notin pre[h]
      BY DEF OneOpenLink
    <2>1. IsOpenReset(h) /\ IsOpenReset(k) /\ LinkInv(h) /\ LinkInv(k)
      BY DEF IInv, HandlerInv, IsOpenReset
    <2> QED
      BY <2>1 DEF LinkInv, IsOpenReset
  <1> QED
    BY <1>1, Invariance, PTL

\* After upgrade was answered, getSubscription shows that plan or one that another
\* request has bought, unless that request overlapped.
THEOREM UpgradesAreShown == Spec => []UpgradeIsShown
  <1>1. IInv => UpgradeIsShown
    <2> SUFFICES ASSUME IInv, NEW h \in Handlers, op[h] = "upgrade", pc[h] = "done"
                 PROVE  LET shown == subs[Current(got[h].org)] IN
                        /\ shown.by = h \/ shown.by \notin pre[h]
                        /\ shown.by # h /\ h \in pre[shown.by] => op[shown.by] = "upgrade"
                        /\ op[shown.by] = "upgrade" => shown.plan = arg[shown.by]
      BY DEF UpgradeIsShown
    <2> DEFINE o == got[h].org
               i == Current(o)
    <2>1. ShownInv(h)
      BY DEF IInv, HandlerInv, PlanInv
    <2>2. NewestInv(o)
      <3>1. PICK j \in OfOrg(o) : TRUE
        BY <2>1 DEF ShownInv
      <3>2. o \in Handlers
        BY <3>1, SubscriptionOf DEF OfOrg, IInv
      <3> QED
        BY <3>2 DEF IInv
    <2>3. i \in OfOrg(o) /\ \A j \in OfOrg(o) : j <= i
      BY <2>1, <2>2, CurrentIsNewest DEF ShownInv
    <2>4. RowInv(i)
      BY <2>3 DEF IInv, OfOrg
    <2> HIDE DEF i
    <2> QED
      BY <2>1, <2>3, <2>4 DEF ShownInv, RowInv, i
  <1> QED
    BY <1>1, Invariance, PTL
=============================================================================
