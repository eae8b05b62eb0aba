------------------------------- MODULE Accounts -------------------------------
(***************************************************************************)
(* One person's account: AuthService (registration, login, rotation of     *)
(* refresh tokens, logout, password reset, e-mail verification),           *)
(* UserService (change of password, creation of an organization) and       *)
(* SubscriptionService (the organization's plan).                          *)
(*                                                                         *)
(* Every request is a handler that takes one step per awaited call which   *)
(* reads or writes shared state.  A refresh token is a signature over the  *)
(* user and the second, so it is named by the second in which it was       *)
(* signed; a mailed link by the handler that created it; a password by the *)
(* handler that set it.                                                    *)
(***************************************************************************)
EXTENDS Integers, Sequences, FiniteSets

CONSTANTS
    Handlers,     \* the requests of a behaviour
    None,
    Traffic,      \* sets of kinds of request; those of a behaviour are of one set
    Plans,        \* plans somebody may upgrade to
    LastSecond,   \* bound: the last second in which a token is signed
    MaxInFlight,  \* bound: handlers running at the same time
    Faults        \* whether a handler may die or throw between two steps

Op == {"register", "login", "refresh", "logout", "forgot", "reset", "verify", "change",
       "organize", "view", "upgrade"}

Plan == {"FREE", "BASIC", "PREMIUM", "ENTERPRISE"}

ASSUME AccountsAssumption ==
    /\ Traffic \subseteq SUBSET Op /\ Plans \subseteq Plan
    /\ None \notin Handlers \cup Plan \cup Nat
    /\ LastSecond \in Nat
    /\ MaxInFlight \in Nat \ {0}
    /\ Faults \in BOOLEAN

Second == 0 .. LastSecond

VARIABLES
    account,   \* the users row, or None
    sessions,  \* refresh_tokens by second, or None
    links,     \* email_verifications and password_resets by creator, or None
    mailed,    \* links that are in the person's inbox
    orgs,      \* slug of the organization a handler created, or None
    subs,      \* subscriptions, oldest first
    invoices,  \* upgrades that were invoiced
    now,       \* the current second
    pc,        \* next step of each handler
    op,        \* its operation
    arg,       \* the token, link, password or plan it came with
    got,       \* what it signed or read for its next step
    pre,       \* the handlers that had finished when it started
    kinds      \* the kinds of request of this behaviour

tables == <<account, sessions, links, mailed, orgs, subs, invoices>>
locals == <<op, arg, pre, kinds>>
vars == <<tables, now, pc, locals, got>>

Final == {"done", "failed"}

Account == [password : Handlers \cup {None}, verified : BOOLEAN, org : Handlers \cup {None}]
Session == [by : Handlers \cup {None}, status : {"live", "expired", "revoked"}]
Link == [kind : {"verify", "reset"}, status : {"open", "expired", "used"}]
Subscription == [org : Handlers, plan : Plan, by : Handlers]

ASSUME NoneIsNoRow == None \notin Account \cup Session \cup Link \cup Op

\* Nobody has registered yet, or somebody did long ago and has a session.
Init ==
    /\ \/ account = None /\ sessions = [s \in Second |-> None]
       \/ /\ account = [password |-> None, verified |-> FALSE, org |-> None]
          /\ sessions = [s \in Second |-> IF s = 0 THEN [by |-> None, status |-> "live"] ELSE None]
    /\ links = [h \in Handlers |-> None]
    /\ mailed = {}
    /\ orgs = [h \in Handlers |-> None]
    /\ subs = <<>>
    /\ invoices = {}
    /\ now = 0
    /\ pc = [h \in Handlers |-> "idle"]
    /\ op = [h \in Handlers |-> None]
    /\ arg = [h \in Handlers |-> None]
    /\ got = [h \in Handlers |-> None]
    /\ pre = [h \in Handlers |-> {}]
    /\ kinds \in Traffic

Goto(h, from, to) == pc[h] = from /\ pc' = [pc EXCEPT ![h] = to]

\* Requests are interchangeable: a new one takes a name no request has had.
Fresh == CHOOSE h \in Handlers : pc[h] = "idle"

Ended == {h \in Handlers : pc[h] \in Final}

Start(h, kind, x, first) ==
    /\ kind \in kinds
    /\ Goto(h, "idle", first)
    /\ h = Fresh
    /\ Cardinality({k \in Handlers : pc[k] \notin {"idle"} \cup Final}) < MaxInFlight
    /\ op' = [op EXCEPT ![h] = kind]
    /\ arg' = [arg EXCEPT ![h] = x]
    /\ pre' = [pre EXCEPT ![h] = Ended]
    /\ UNCHANGED <<tables, now, got, kinds>>

-----------------------------------------------------------------------------
(* Registration and login.                                                  *)

Register(h) == Start(h, "register", None, "find")

FindEmail(h) ==
    /\ Goto(h, "find", IF account = None THEN "create" ELSE "failed")
    /\ UNCHANGED <<tables, now, locals, got>>

CreateAccount(h) ==
    /\ Goto(h, "create", "link")
    /\ account = None
    /\ account' = [password |-> h, verified |-> FALSE, org |-> None]
    /\ UNCHANGED <<sessions, links, mailed, orgs, subs, invoices, now, locals, got>>

\* The unique constraint on the e-mail address.
EmailConflict(h) ==
    /\ Goto(h, "create", "failed")
    /\ account # None
    /\ UNCHANGED <<tables, now, locals, got>>

\* With the password that is the right one when the request is made.
Login(h) == account # None /\ Start(h, "login", account.password, "check")

ChangePassword(h) == account # None /\ Start(h, "change", account.password, "check")

\* login and changePassword verify the password that was sent.
CheckPassword(h) ==
    /\ Goto(h, "check", IF account.password # arg[h] THEN "failed"
                        ELSE IF op[h] = "login" THEN "sign" ELSE "password")
    /\ UNCHANGED <<tables, now, locals, got>>

\* issueTokens: the refresh token is a function of the user and the second.
SignToken(h) ==
    /\ Goto(h, "sign", "store")
    /\ \E s \in {now, now + 1} \cap Second : now' = s /\ got' = [got EXCEPT ![h] = s]
    /\ UNCHANGED <<tables, locals>>

\* An insert that overwrites an equal token.
MutUnused(s) == TRUE

\* The unique constraint on the token.
Unused(s) == sessions[s] = None

StoreToken(h) ==
    /\ Goto(h, "store", "done")
    /\ Unused(got[h])
    /\ sessions' = [sessions EXCEPT ![got[h]] = [by |-> h, status |-> "live"]]
    /\ got' = [got EXCEPT ![h] = None]
    /\ UNCHANGED <<account, links, mailed, orgs, subs, invoices, now, locals>>

TokenConflict(h) ==
    /\ Goto(h, "store", "failed")
    /\ ~Unused(got[h])
    /\ got' = [got EXCEPT ![h] = None]
    /\ UNCHANGED <<tables, now, locals>>

-----------------------------------------------------------------------------
(* Rotation and logout.                                                     *)

\* Tokens that were answered to somebody.
Issued == {s \in Second : sessions[s] # None /\ sessions[s].by \in {None} \cup Ended}

Refresh(h) == \E s \in Issued : Start(h, "refresh", s, "read")

Logout(h) == \E s \in Issued : Start(h, "logout", s, "read")

\* refresh wants a live token, logout revokes any that is not revoked.
AfterRead(h) ==
    LET status == sessions[arg[h]].status IN
    CASE op[h] = "refresh" /\ status # "live" -> "failed"
      [] op[h] = "logout" /\ status = "revoked" -> "done"
      [] OTHER -> "revoke"

ReadToken(h) ==
    /\ Goto(h, "read", AfterRead(h))
    /\ UNCHANGED <<tables, now, locals, got>>

\* A token expires unnoticed, until somebody wants to use it.
TokenExpired(h) ==
    /\ Goto(h, "read", "failed")
    /\ op[h] = "refresh" /\ sessions[arg[h]].status = "live"
    /\ sessions' = [sessions EXCEPT ![arg[h]].status = "expired"]
    /\ UNCHANGED <<account, links, mailed, orgs, subs, invoices, now, locals, got>>

RevokeToken(h) ==
    /\ Goto(h, "revoke", IF op[h] = "refresh" THEN "sign" ELSE "done")
    /\ sessions' = [sessions EXCEPT ![arg[h]].status = "revoked"]
    /\ UNCHANGED <<account, links, mailed, orgs, subs, invoices, now, locals, got>>

-----------------------------------------------------------------------------
(* Mailed links: e-mail verification and password reset.                    *)

ForgotPassword(h) == account # None /\ Start(h, "forgot", None, "invalidate")

\* Only links that have expired are closed.
MutInvalidated(link) == link # None /\ link.kind = "reset" /\ link.status = "expired"

\* invalidateForUser: every reset link without usedAt.
Invalidated(link) == link # None /\ link.kind = "reset" /\ link.status # "used"

InvalidateLinks(h) ==
    /\ Goto(h, "invalidate", "link")
    /\ links' = [k \in Handlers |-> IF Invalidated(links[k])
                                    THEN [links[k] EXCEPT !.status = "used"] ELSE links[k]]
    /\ UNCHANGED <<account, sessions, mailed, orgs, subs, invoices, now, locals, got>>

CreateLink(h) ==
    /\ Goto(h, "link", "mail")
    /\ links' = [links EXCEPT ![h] =
            [kind |-> IF op[h] = "forgot" THEN "reset" ELSE "verify", status |-> "open"]]
    /\ UNCHANGED <<account, sessions, mailed, orgs, subs, invoices, now, locals, got>>

MailLink(h) ==
    /\ Goto(h, "mail", IF op[h] = "forgot" THEN "done" ELSE "sign")
    /\ mailed' = mailed \cup {h}
    /\ UNCHANGED <<account, sessions, links, orgs, subs, invoices, now, locals, got>>

\* resetPassword or verifyEmail, by the kind of the link.
FollowLink(h) == \E k \in mailed : Start(h, links[k].kind, k, "open")

OpenLink(h) ==
    /\ Goto(h, "open", IF links[arg[h]].status # "open" THEN "failed"
                       ELSE IF op[h] = "reset" THEN "password" ELSE "confirm")
    /\ UNCHANGED <<tables, now, locals, got>>

\* A link expires unnoticed, until somebody follows it.
LinkExpired(h) ==
    /\ Goto(h, "open", "failed")
    /\ links[arg[h]].status = "open"
    /\ links' = [links EXCEPT ![arg[h]].status = "expired"]
    /\ UNCHANGED <<account, sessions, mailed, orgs, subs, invoices, now, locals, got>>

\* From resetPassword or changePassword.
SetPassword(h) ==
    /\ Goto(h, "password", IF op[h] = "reset" THEN "use" ELSE "done")
    /\ account' = [account EXCEPT !.password = h]
    /\ UNCHANGED <<sessions, links, mailed, orgs, subs, invoices, now, locals, got>>

ConfirmEmail(h) ==
    /\ Goto(h, "confirm", "use")
    /\ account' = [account EXCEPT !.verified = TRUE]
    /\ UNCHANGED <<sessions, links, mailed, orgs, subs, invoices, now, locals, got>>

\* markUsed
UseLink(h) ==
    /\ Goto(h, "use", IF op[h] = "reset" THEN "end" ELSE "done")
    /\ links' = [links EXCEPT ![arg[h]].status = "used"]
    /\ UNCHANGED <<account, sessions, mailed, orgs, subs, invoices, now, locals, got>>

\* Only the sessions from before the link was requested.
MutEndedBy(h, session) == session # None /\ session.by \in pre[arg[h]]

\* revokeAllForUser: every token without revokedAt.
EndedBy(h, session) == session # None

EndSessions(h) ==
    /\ Goto(h, "end", "done")
    /\ sessions' = [s \in Second |-> IF EndedBy(h, sessions[s])
                                     THEN [sessions[s] EXCEPT !.status = "revoked"]
                                     ELSE sessions[s]]
    /\ UNCHANGED <<account, links, mailed, orgs, subs, invoices, now, locals, got>>

-----------------------------------------------------------------------------
(* The organization and its plan.                                           *)

CreateOrganization(h) == account # None /\ Start(h, "organize", None, "member")

CheckMembership(h) ==
    /\ Goto(h, "member", IF account.org # None THEN "failed" ELSE "slug")
    /\ got' = [got EXCEPT ![h] = 0]
    /\ UNCHANGED <<tables, now, locals>>

Taken(slug) == \E k \in Handlers : orgs[k] = slug

\* The loop over findBySlug: base, base-1, base-2 and so on.
TrySlug(h) ==
    /\ Goto(h, "slug", IF Taken(got[h]) THEN "slug" ELSE "insert")
    /\ got' = [got EXCEPT ![h] = IF Taken(@) THEN @ + 1 ELSE @]
    /\ UNCHANGED <<tables, now, locals>>

InsertOrganization(h) ==
    /\ Goto(h, "insert", "join")
    /\ ~Taken(got[h])
    /\ orgs' = [orgs EXCEPT ![h] = got[h]]
    /\ UNCHANGED <<account, sessions, links, mailed, subs, invoices, now, locals, got>>

\* The unique constraint on the slug.
SlugConflict(h) ==
    /\ Goto(h, "insert", "failed")
    /\ Taken(got[h])
    /\ UNCHANGED <<tables, now, locals, got>>

JoinOrganization(h) ==
    /\ Goto(h, "join", "done")
    /\ account' = [account EXCEPT !.org = h]
    /\ UNCHANGED <<sessions, links, mailed, orgs, subs, invoices, now, locals, got>>

ViewSubscription(h) == account # None /\ Start(h, "view", None, "plan")

UpgradePlan(h) == account # None /\ \E p \in Plans : Start(h, "upgrade", p, "plan")

\* Without an organization there is a FREE plan to see and nothing to upgrade.
NoOrganization(h) ==
    /\ Goto(h, "plan", IF op[h] = "view" THEN "done" ELSE "failed")
    /\ account.org = None
    /\ UNCHANGED <<tables, now, locals, got>>

OfOrg(o) == {i \in DOMAIN subs : subs[i].org = o}

\* orderBy: { createdAt: 'desc' }
Current(o) == CHOOSE i \in OfOrg(o) : \A j \in OfOrg(o) : j <= i

\* A subscription for every viewer.
MutAfterPlan(h, o) == IF op[h] = "upgrade" /\ OfOrg(o) # {} THEN "extend" ELSE "subscribe"

AfterPlan(h, o) ==
    CASE OfOrg(o) = {} -> "subscribe"
      [] OfOrg(o) # {} /\ op[h] = "view" -> "done"
      [] OfOrg(o) # {} /\ op[h] = "upgrade" -> "extend"

FindSubscription(h) ==
    LET o == account.org IN
    /\ Goto(h, "plan", AfterPlan(h, o))
    /\ o # None
    /\ got' = [got EXCEPT ![h] = [org |-> o, sub |-> IF OfOrg(o) = {} THEN 0 ELSE Current(o)]]
    /\ UNCHANGED <<tables, now, locals>>

Wanted(h) == IF op[h] = "upgrade" THEN arg[h] ELSE "FREE"

Subscribe(h) ==
    /\ Goto(h, "subscribe", IF op[h] = "upgrade" THEN "invoice" ELSE "done")
    /\ subs' = Append(subs, [org |-> got[h].org, plan |-> Wanted(h), by |-> h])
    /\ UNCHANGED <<account, sessions, links, mailed, orgs, invoices, now, locals, got>>

\* subscriptionRepo.upgrade
Extend(h) ==
    /\ Goto(h, "extend", "invoice")
    /\ subs' = [subs EXCEPT ![got[h].sub].plan = Wanted(h), ![got[h].sub].by = h]
    /\ UNCHANGED <<account, sessions, links, mailed, orgs, invoices, now, locals, got>>

\* An invoice for every plan that has a price.
Invoice(h) ==
    /\ Goto(h, "invoice", "done")
    /\ invoices' = IF arg[h] = "FREE" THEN invoices ELSE invoices \cup {h}
    /\ UNCHANGED <<account, sessions, links, mailed, orgs, subs, now, locals, got>>

-----------------------------------------------------------------------------
(* Failure.                                                                 *)

\* A crash, or an error of the database or the mail server.
Abort(h) ==
    /\ Faults
    /\ pc[h] \notin {"idle"} \cup Final
    /\ pc' = [pc EXCEPT ![h] = "failed"]
    /\ got' = [got EXCEPT ![h] = None]
    /\ UNCHANGED <<tables, now, locals>>

Arrive(h) ==
    \/ Register(h) \/ Login(h) \/ ChangePassword(h) \/ Refresh(h) \/ Logout(h)
    \/ ForgotPassword(h) \/ FollowLink(h)
    \/ CreateOrganization(h) \/ ViewSubscription(h) \/ UpgradePlan(h)

Run(h) ==
    \/ FindEmail(h) \/ CreateAccount(h) \/ EmailConflict(h) \/ CheckPassword(h)
    \/ SignToken(h) \/ StoreToken(h) \/ TokenConflict(h) \/ ReadToken(h)
    \/ TokenExpired(h) \/ RevokeToken(h)
    \/ InvalidateLinks(h) \/ CreateLink(h) \/ MailLink(h) \/ OpenLink(h)
    \/ LinkExpired(h) \/ SetPassword(h) \/ ConfirmEmail(h) \/ UseLink(h) \/ EndSessions(h)
    \/ CheckMembership(h) \/ TrySlug(h) \/ InsertOrganization(h) \/ SlugConflict(h)
    \/ JoinOrganization(h) \/ NoOrganization(h) \/ FindSubscription(h)
    \/ Subscribe(h) \/ Extend(h) \/ Invoice(h)

Next ==
    \E h \in Handlers : Arrive(h) \/ Run(h) \/ Abort(h)

Spec == Init /\ [][Next]_vars

-----------------------------------------------------------------------------
(* Properties.                                                              *)

\* Types: rows of the tables, links in the inbox that exist, plans that are sold, and
\* requests that came with what their routes ask for.
TypeOK ==
    /\ account \in Account \cup {None}
    /\ sessions \in [Second -> Session \cup {None}]
    /\ links \in [Handlers -> Link \cup {None}]
    /\ mailed \subseteq {h \in Handlers : links[h] # None}
    /\ orgs \in [Handlers -> Nat \cup {None}]
    /\ subs \in Seq(Subscription)
    /\ invoices \subseteq {h \in Handlers : op[h] = "upgrade"}
    /\ now \in Second
    /\ op \in [Handlers -> Op \cup {None}]
    /\ \A h \in Handlers : arg[h] = None \/ arg[h] \in
          CASE op[h] \in {"refresh", "logout"} -> Second
            [] op[h] = "upgrade" -> Plans
            [] OTHER -> Handlers
    /\ pre \in [Handlers -> SUBSET Handlers]

\* The steps of a handler whose token or link was accepted.
Acting == {"revoke", "sign", "store", "password", "confirm", "use", "end", "done"}

\* A refresh token, a reset link or a verification link serves one request: one
\* that starts after another has been answered with it, or has logged out with
\* it, is refused before it changes anything.  Only overlapping requests can use
\* one twice, even when the new token is signed in the second of the old one.
UsedOnlyOnce ==
    \A h, k \in Handlers :
        /\ pc[h] = "done" /\ h \in pre[k]
        /\ op[k] \in {"refresh", "reset", "verify"}
        /\ op[h] = op[k] \/ (op[h] = "logout" /\ op[k] = "refresh")
        /\ arg[h] = arg[k]
        => pc[k] \notin Acting

\* Whoever was answered before a password reset was requested, by a login, a
\* refresh or a registration, holds no live token once the reset is answered.
SessionsEndWithReset ==
    \A r \in Handlers : op[r] = "reset" /\ pc[r] = "done" =>
        \A s \in Second : sessions[s] # None /\ sessions[s].status = "live" =>
            sessions[s].by \in Handlers \ pre[r]

\* At most one password reset link of the account is open, unless two requests
\* for one overlapped.
OneOpenLink ==
    \A h, k \in Handlers :
        /\ h # k /\ links[h] # None /\ links[k] # None
        /\ links[h] = [kind |-> "reset", status |-> "open"] /\ links[k] = links[h]
        => h \notin pre[k] /\ k \notin pre[h]

\* After an upgrade was answered, the subscription that is shown for the
\* organization has the plan of that upgrade, of a later one, or of a request
\* that overlapped with it; in particular a FREE row that somebody's first look
\* creates never covers a plan bought before.
UpgradeIsShown ==
    \A h \in Handlers : op[h] = "upgrade" /\ pc[h] = "done" =>
        LET shown == subs[Current(got[h].org)] IN
        /\ shown.by = h \/ shown.by \notin pre[h]
        /\ shown.by # h /\ h \in pre[shown.by] => op[shown.by] = "upgrade"
        /\ op[shown.by] = "upgrade" => shown.plan = arg[shown.by]
=============================================================================
