---------------------------- MODULE AccountsProofs ----------------------------
(***************************************************************************)
(* Theorems about accounts and sessions, for every number of accounts,     *)
(* addresses, links, sessions and requests.                                *)
(***************************************************************************)
EXTENDS AccountsProperties, TLAPS

-------------------------------------------------------------------------------
(* The inductive invariant.                                                *)

\* An account that was registered: its address is one.
Registered(u) == u \in Users /\ Known(u)

\* An account has an address, and a verified one proved it.
AccountOK(u) ==
    /\ Known(u) => account[u].email \in Emails
    /\ account[u].verified => Known(u) /\ account[u].email \in Proved(u)

\* A session belongs to an account.
SessionOK(s) == session[s].state = "open" => Registered(session[s].user)

\* A link that is good belongs to an account; one that verifies went to the
\* account's address, unless the account is verified already.
LinkOK(t) ==
    link[t].state = "live" =>
        /\ Registered(link[t].user) /\ link[t].to \in Emails
        /\ link[t].kind = "verify" => \/ link[t].to = account[link[t].user].email
                                      \/ account[link[t].user].verified

\* A request reads an address, or shows a page.
Reading == {"resend", "forgot", "login", "link", "linking"}
Showing == {"page", "in", "hashed"}

\* A resent link goes to the account's address or to one it had before it moved,
\* which only a verified account does; what is about to be linked was proved; and
\* an account that still has the version a page shows is as the page shows it.
RequestOK(r) ==
    /\ request[r].step # "idle" => Registered(request[r].user)
    /\ request[r].step \in Reading => request[r].email \in Emails
    /\ request[r].step = "resend" => \/ request[r].email = account[request[r].user].email
                                     \/ account[request[r].user].verified
    /\ request[r].step = "linking" => request[r].email \in Proved(request[r].user)
    /\ request[r].step \in Showing =>
          /\ request[r].shown.version <= account[request[r].user].version
          /\ request[r].shown.version = account[request[r].user].version =>
                /\ request[r].shown.profile = account[request[r].user].profile
                /\ request[r].shown.email = account[request[r].user].email

\* A guest's order that was linked has an address that the account proved.
GuestOK(o) ==
    guest[o].customer # NoUser => /\ guest[o].email \in Emails
                                  /\ guest[o].email \in Proved(guest[o].customer)

\* The inductive invariant.
AccountsInv ==
    /\ AccountsTypeOK
    /\ \A u \in Users : AccountOK(u)
    /\ \A s \in Sessions : SessionOK(s)
    /\ \A t \in Links : LinkOK(t)
    /\ \A r \in Requests : RequestOK(r)
    /\ \A o \in GuestOrders : GuestOK(o)

\* Nobody is registered.
LEMMA AccountsInitInv == AccountsInit => AccountsInv
  <1> SUFFICES ASSUME AccountsInit PROVE AccountsInv
    OBVIOUS
  <1>1. AnyProfile \in Profiles
    BY ProfilesAssumption DEF AnyProfile
  <1>2. NoPage \in Page
    BY <1>1, AccountBoundsAssumption DEF NoPage, Page
  <1>3. Idle \in Request /\ Idle.step = "idle"
    BY <1>2 DEF Idle, Request, Step
  <1>4. AccountsTypeOK
    BY <1>1, <1>3, AccountBoundsAssumption
    DEF AccountsInit, AccountsTypeOK, Account, Session, Link, Order, Kinds
  <1>5. /\ \A u \in Users : AccountOK(u)
        /\ \A s \in Sessions : SessionOK(s)
        /\ \A t \in Links : LinkOK(t)
        /\ \A o \in GuestOrders : GuestOK(o)
    BY DEF AccountsInit, AccountOK, SessionOK, LinkOK, GuestOK, Known
  <1>6. \A r \in Requests : RequestOK(r)
    BY <1>3 DEF AccountsInit, RequestOK, Reading, Showing
  <1>7. QED BY <1>4, <1>5, <1>6 DEF AccountsInv

-------------------------------------------------------------------------------
(* What every step does to accounts and links.                             *)

\* Accounts stay, versions tell their contents apart, and an address is left only
\* by an account that is verified.
AccountsGrow ==
    \A u \in Users :
        /\ account[u].version <= account'[u].version
        /\ account[u].verified => account'[u].verified
        /\ Known(u) => account'[u].email = account[u].email \/ account'[u].verified
        /\ account'[u].version = account[u].version =>
              account'[u].profile = account[u].profile /\ account'[u].email = account[u].email

\* A link that was used stays as it is.
LinksStay == \A t \in Links : link[t].state = "spent" => link'[t] = link[t]

\* What was proved stays so.
LEMMA ProofsStay ==
    ASSUME LinksStay, NEW u
    PROVE  Proved(u) \subseteq Proved(u)'
  BY DEF LinksStay, Proved

\* It is enough to look at what a step changes.
LEMMA ChangesSuffice ==
    ASSUME AccountsInv, AccountsTypeOK', AccountsGrow, LinksStay,
           \A u \in Users : account'[u] = account[u] \/ AccountOK(u)',
           \A s \in Sessions : \/ session'[s] = session[s] \/ session'[s].state # "open"
                               \/ SessionOK(s)',
           \A t \in Links : link'[t] = link[t] \/ link'[t].state # "live" \/ LinkOK(t)',
           \A r \in Requests : \/ request'[r] = request[r] \/ request'[r].step = "idle"
                               \/ RequestOK(r)',
           \A o \in GuestOrders : guest'[o] = guest[o] \/ GuestOK(o)'
    PROVE  AccountsInv'
  <1>1. \A u \in Users : account[u].version \in Nat /\ account'[u].version \in Nat
    BY AccountBoundsAssumption DEF AccountsInv, AccountsTypeOK, Account
  <1>2. ASSUME NEW u, Registered(u) PROVE Registered(u)'
    BY <1>1, <1>2 DEF Registered, Known, AccountsGrow
  <1>3. ASSUME NEW u \in Users PROVE AccountOK(u)'
    <2>1. CASE account'[u] = account[u]
      BY <2>1, ProofsStay DEF AccountsInv, AccountOK, Known
    <2>2. QED BY <2>1
  <1>4. ASSUME NEW s \in Sessions PROVE SessionOK(s)'
    BY <1>2 DEF AccountsInv, SessionOK
  <1>5. ASSUME NEW t \in Links PROVE LinkOK(t)'
    <2>1. CASE link'[t] = link[t] /\ link[t].state = "live"
      <3>1. LinkOK(t) /\ Registered(link[t].user)
        BY <2>1 DEF AccountsInv, LinkOK
      <3>2. Registered(link[t].user)'
        BY <1>2, <2>1, <3>1
      <3>3. QED BY <2>1, <3>1, <3>2 DEF LinkOK, AccountsGrow, Registered
    <2>2. CASE link'[t].state # "live"
      BY <2>2 DEF LinkOK
    <2>3. QED BY <2>1, <2>2
  <1>6. ASSUME NEW r \in Requests PROVE RequestOK(r)'
    <2>1. CASE request'[r] = request[r] /\ request[r].step # "idle"
      <3>1. RequestOK(r) /\ Registered(request[r].user)
        BY <2>1 DEF AccountsInv, RequestOK
      <3>2. Registered(request[r].user)' /\ request[r].user \in Users
        BY <1>2, <3>1, <2>1 DEF Registered
      <3>3. Proved(request[r].user) \subseteq Proved(request[r].user)'
        BY <2>1, ProofsStay
      <3>4. request[r].shown.version \in Nat
        BY AccountBoundsAssumption DEF AccountsInv, AccountsTypeOK, Request, Page
      <3>5. request[r].step \in Showing =>
              /\ request[r].shown.version <= account'[request[r].user].version
              /\ request[r].shown.version = account'[request[r].user].version =>
                    /\ request[r].shown.profile = account'[request[r].user].profile
                    /\ request[r].shown.email = account'[request[r].user].email
        BY <1>1, <3>1, <3>2, <3>4 DEF RequestOK, AccountsGrow
      <3>6. request[r].step = "resend" => \/ request[r].email = account'[request[r].user].email
                                          \/ account'[request[r].user].verified
        BY <3>1, <3>2 DEF RequestOK, AccountsGrow, Registered
      <3>7. QED BY <2>1, <3>1, <3>2, <3>3, <3>5, <3>6 DEF RequestOK
    <2>2. CASE request'[r].step = "idle"
      BY <2>2 DEF RequestOK, Reading, Showing
    <2>3. QED BY <2>1, <2>2
  <1>7. ASSUME NEW o \in GuestOrders PROVE GuestOK(o)'
    <2>1. CASE guest'[o] = guest[o]
      <3>1. PICK u : u = guest[o].customer
        OBVIOUS
      <3>2. Proved(u) \subseteq Proved(u)'
        BY ProofsStay
      <3>3. GuestOK(o)
        BY DEF AccountsInv
      <3>4. QED BY <2>1, <3>1, <3>2, <3>3 DEF GuestOK
    <2>2. QED BY <2>1
  <1>8. QED BY <1>3, <1>4, <1>5, <1>6, <1>7 DEF AccountsInv

-------------------------------------------------------------------------------
(* What the parts of a step do.                                            *)

\* Accounts that are left alone.
LEMMA AccountsRest ==
    ASSUME AccountsInv, UNCHANGED account
    PROVE  AccountsGrow
  BY AccountBoundsAssumption DEF AccountsInv, AccountsTypeOK, Account, AccountsGrow

\* Links that are left alone.
LEMMA LinksRest == UNCHANGED link => LinksStay
  BY DEF LinksStay

\* Links that are made useless were good.
LEMMA KilledLinks ==
    ASSUME AccountsInv, NEW u, NEW kinds
    PROVE  /\ Killed(u, kinds) \in [Links -> Link]
           /\ \A t \in Links : \/ Killed(u, kinds)[t] = link[t]
                               \/ link[t].state = "live" /\ Killed(u, kinds)[t].state = "dead"
  <1>1. link \in [Links -> Link]
    BY DEF AccountsInv, AccountsTypeOK
  <1>2. ASSUME NEW t \in Links
        PROVE  [link[t] EXCEPT !.state = "dead"] \in Link
               /\ [link[t] EXCEPT !.state = "dead"].state = "dead"
    BY <1>1 DEF Link
  <1>3. QED BY <1>1, <1>2 DEF Killed

\* A new link is made.
LEMMA IssuedLink ==
    ASSUME AccountsInv, NEW t \in Links, NEW kind \in Kinds, NEW u \in Users, NEW to \in Emails,
           NEW from \in Emails \cup {NoEmail}, Issue(t, kind, u, to, from)
    PROVE  /\ link' \in [Links -> Link] /\ LinksStay
           /\ link'[t] = [state |-> "live", kind |-> kind, user |-> u, to |-> to, from |-> from]
           /\ \A s \in Links \ {t} : link'[s] = link[s] \/ link'[s].state # "live"
  <1>1. PICK new : new = [state |-> "live", kind |-> kind, user |-> u, to |-> to, from |-> from]
    OBVIOUS
  <1>2. new \in Link
    BY <1>1 DEF Link
  <1>3. PICK killed : killed = Killed(u, {kind})
    OBVIOUS
  <1>4. /\ killed \in [Links -> Link]
        /\ \A s \in Links : \/ killed[s] = link[s]
                            \/ link[s].state = "live" /\ killed[s].state = "dead"
    BY <1>3, KilledLinks
  <1>5. link' = [killed EXCEPT ![t] = new] /\ link[t].state = "unused"
    BY <1>1, <1>3 DEF Issue
  <1>6. \A s \in Links : link'[s] = IF s = t THEN new ELSE killed[s]
    BY <1>4, <1>5
  <1>7. link' \in [Links -> Link]
    BY <1>2, <1>4, <1>5
  <1>8. LinksStay
    BY <1>4, <1>5, <1>6 DEF LinksStay
  <1>9. QED BY <1>1, <1>4, <1>6, <1>7, <1>8

\* A link is used.
LEMMA SpentLink ==
    ASSUME AccountsInv, NEW t \in Links, link[t].state = "live", NEW kinds, Spend(t, kinds),
           NEW u, u = link[t].user
    PROVE  /\ link' \in [Links -> Link] /\ LinksStay
           /\ \A s \in Links : link'[s] = link[s] \/ link'[s].state # "live"
           /\ link[t].kind \in {"verify", "change"} => link[t].to \in Proved(u)'
  <1>1. PICK new : new = [link[t] EXCEPT !.state = "spent"]
    OBVIOUS
  <1>2. /\ new \in Link /\ new.state = "spent" /\ new.kind = link[t].kind
        /\ new.user = link[t].user /\ new.to = link[t].to
    BY <1>1 DEF AccountsInv, AccountsTypeOK, Link
  <1>3. PICK killed : killed = Killed(link[t].user, kinds)
    OBVIOUS
  <1>4. /\ killed \in [Links -> Link]
        /\ \A s \in Links : \/ killed[s] = link[s]
                            \/ link[s].state = "live" /\ killed[s].state = "dead"
    BY <1>3, KilledLinks
  <1>5. link' = [killed EXCEPT ![t] = new]
    BY <1>1, <1>3 DEF Spend
  <1>6. \A s \in Links : link'[s] = IF s = t THEN new ELSE killed[s]
    BY <1>4, <1>5
  <1>7. link' \in [Links -> Link]
    BY <1>2, <1>4, <1>5
  <1>8. LinksStay
    BY <1>4, <1>6 DEF LinksStay
  <1>9. link[t].kind \in {"verify", "change"} => link[t].to \in Proved(u)'
    BY <1>2, <1>6 DEF Proved
  <1>10. QED BY <1>2, <1>4, <1>6, <1>7, <1>8, <1>9

\* Sessions end.
LEMMA EndedSessions ==
    ASSUME AccountsInv, NEW u, NEW keep, EndSessions(u, keep)
    PROVE  /\ session' \in [Sessions -> Session]
           /\ \A s \in Sessions : session'[s] = session[s] \/ session'[s].state # "open"
  <1>1. session \in [Sessions -> Session]
    BY DEF AccountsInv, AccountsTypeOK
  <1>2. ASSUME NEW s \in Sessions
        PROVE  [session[s] EXCEPT !.state = "ended"] \in Session
               /\ [session[s] EXCEPT !.state = "ended"].state = "ended"
    BY <1>1 DEF Session
  <1>3. QED BY <1>1, <1>2 DEF EndSessions

\* Guest orders are taken over.
LEMMA LinkedOrders ==
    ASSUME AccountsInv, NEW u \in Users, NEW e, Linked(u, e)
    PROVE  /\ guest' \in [GuestOrders -> Order]
           /\ \A o \in GuestOrders : \/ guest'[o] = guest[o]
                                     \/ guest'[o].email = e /\ guest'[o].customer = u
  <1>1. guest \in [GuestOrders -> Order]
    BY DEF AccountsInv, AccountsTypeOK
  <1>2. ASSUME NEW o \in GuestOrders
        PROVE  /\ [guest[o] EXCEPT !.customer = u] \in Order
               /\ [guest[o] EXCEPT !.customer = u].customer = u
               /\ [guest[o] EXCEPT !.customer = u].email = guest[o].email
    BY <1>1 DEF Order
  <1>3. QED BY <1>1, <1>2 DEF Linked

\* A request has nothing left to do.
LEMMA DoneRequest ==
    ASSUME AccountsInv, NEW r \in Requests, Done(r)
    PROVE  /\ request' \in [Requests -> Request]
           /\ \A q \in Requests : request'[q] = request[q] \/ request'[q].step = "idle"
           /\ \A q \in Requests \ {r} : request'[q] = request[q]
  <1>1. AnyProfile \in Profiles
    BY ProfilesAssumption DEF AnyProfile
  <1>2. Idle \in Request /\ Idle.step = "idle"
    BY <1>1, AccountBoundsAssumption DEF Idle, Request, Step, NoPage, Page
  <1>3. \A q \in Requests : request'[q] = IF q = r THEN Idle ELSE request[q]
    BY DEF AccountsInv, AccountsTypeOK, Done
  <1>4. QED BY <1>2, <1>3 DEF AccountsInv, AccountsTypeOK, Done

\* A request has read an account.
LEMMA ReadRequest ==
    ASSUME AccountsInv, NEW r \in Requests, NEW step \in Reading, NEW u \in Users,
           Reads(r, step, u)
    PROVE  /\ request' \in [Requests -> Request] /\ Registered(u)
           /\ request'[r].step = step /\ request'[r].user = u
           /\ request'[r].email = account[u].email
           /\ \A q \in Requests \ {r} : request'[q] = request[q]
  <1>1. AnyProfile \in Profiles
    BY ProfilesAssumption DEF AnyProfile
  <1>2. Idle \in Request
    BY <1>1, AccountBoundsAssumption DEF Idle, Request, Step, NoPage, Page
  <1>3. PICK x : x = [Idle EXCEPT !.step = step, !.user = u, !.email = account[u].email]
    OBVIOUS
  <1>4. account[u].email \in Emails \cup {NoEmail} /\ step \in Step
    BY DEF AccountsInv, AccountsTypeOK, Account, Reading, Step
  <1>5. x \in Request
    BY <1>2, <1>3, <1>4 DEF Request
  <1>6. x.step = step /\ x.user = u /\ x.email = account[u].email
    BY <1>2, <1>3 DEF Request
  <1>7. request' = [request EXCEPT ![r] = x] /\ Registered(u)
    BY <1>3 DEF Reads, Registered
  <1>8. QED BY <1>5, <1>6, <1>7 DEF AccountsInv, AccountsTypeOK

\* One account is written.
LEMMA WrittenAccount ==
    ASSUME AccountsInv, NEW u \in Users, NEW x \in Account,
           account' = [account EXCEPT ![u] = x],
           account[u].version <= x.version,
           account[u].verified => x.verified,
           Known(u) => x.email = account[u].email \/ x.verified,
           x.version = account[u].version =>
              x.profile = account[u].profile /\ x.email = account[u].email
    PROVE  /\ account' \in [Users -> Account] /\ AccountsGrow /\ account'[u] = x
           /\ \A v \in Users : account'[v] = account[v] \/ v = u
  <1>1. \A v \in Users : account'[v] = IF v = u THEN x ELSE account[v]
    BY DEF AccountsInv, AccountsTypeOK
  <1>2. \A v \in Users : account[v].version \in Nat
    BY AccountBoundsAssumption DEF AccountsInv, AccountsTypeOK, Account
  <1>3. AccountsGrow
    BY <1>1, <1>2 DEF AccountsGrow
  <1>4. QED BY <1>1, <1>3 DEF AccountsInv, AccountsTypeOK

\* The version of an account moves.
LEMMA BumpedAccount ==
    ASSUME NEW x \in Account, x.version < MaxVersion
    PROVE  /\ Bumped(x) \in Account /\ Bumped(x).version = x.version + 1
           /\ Bumped(x).email = x.email /\ Bumped(x).verified = x.verified
  <1>1. x.version + 1 \in 0..MaxVersion
    BY AccountBoundsAssumption DEF Account
  <1>2. QED BY <1>1 DEF Bumped, Account

-------------------------------------------------------------------------------
(* Steps of people without a session.                                      *)

\* An address is registered: the first link goes there.
LEMMA RegisterKeepsInv ==
    ASSUME AccountsInv, NEW u \in Users, NEW e \in Emails, NEW p \in Passwords, NEW t \in Links,
           Register(u, e, p, t)
    PROVE  AccountsInv'
  <1>1. PICK x : x = [email |-> e, verified |-> FALSE, password |-> p, profile |-> AnyProfile,
                      version |-> 1]
    OBVIOUS
  <1>2. x \in Account /\ x.version = 1 /\ x.email = e /\ x.verified = FALSE
    BY <1>1, ProfilesAssumption, AccountBoundsAssumption DEF Account, AnyProfile
  <1>3. /\ ~Known(u) /\ account' = [account EXCEPT ![u] = x]
        /\ Issue(t, "verify", u, e, NoEmail) /\ UNCHANGED <<session, request, guest>>
    BY <1>1 DEF Register
  <1>4. account[u].version = 0
    BY <1>3, AccountBoundsAssumption DEF Known, AccountsInv, AccountsTypeOK, Account
  <1>5. ~account[u].verified
    BY <1>3 DEF AccountsInv, AccountOK
  <1>6. /\ account' \in [Users -> Account] /\ AccountsGrow /\ account'[u] = x
        /\ \A v \in Users : account'[v] = account[v] \/ v = u
    <2>1. account[u].version <= x.version /\ x.version # account[u].version
      BY <1>2, <1>4
    <2>2. QED BY <1>2, <1>3, <1>5, <2>1, WrittenAccount
  <1>7. /\ link' \in [Links -> Link] /\ LinksStay
        /\ link'[t] = [state |-> "live", kind |-> "verify", user |-> u, to |-> e, from |-> NoEmail]
        /\ \A s \in Links \ {t} : link'[s] = link[s] \/ link'[s].state # "live"
    BY <1>3, IssuedLink DEF Kinds
  <1>8. AccountOK(u)' /\ LinkOK(t)'
    <2>1. Registered(u)'
      BY <1>2, <1>6 DEF Registered, Known
    <2>2. QED BY <1>2, <1>6, <1>7, <2>1 DEF AccountOK, LinkOK
  <1>9. AccountsTypeOK'
    BY <1>3, <1>6, <1>7 DEF AccountsInv, AccountsTypeOK
  <1>10. QED BY <1>3, <1>6, <1>7, <1>8, <1>9, ChangesSuffice

\* An account is read, and nothing else happens.
LEMMA ReadKeepsInv ==
    ASSUME AccountsInv, NEW r \in Requests, NEW step \in Reading \ {"linking"}, NEW u \in Users,
           Reads(r, step, u), UNCHANGED <<account, session, link, guest>>
    PROVE  AccountsInv'
  <1>1. /\ request' \in [Requests -> Request] /\ Registered(u)
        /\ request'[r].step = step /\ request'[r].user = u
        /\ request'[r].email = account[u].email
        /\ \A q \in Requests \ {r} : request'[q] = request[q]
    BY ReadRequest
  <1>2. AccountsTypeOK' /\ AccountsGrow /\ LinksStay
    BY <1>1, AccountsRest, LinksRest DEF AccountsInv, AccountsTypeOK
  <1>3. account[u].email \in Emails
    BY <1>1 DEF Registered, AccountsInv, AccountOK
  <1>4. RequestOK(r)'
    BY <1>1, <1>3 DEF RequestOK, Registered, Known, Reading, Showing
  <1>5. QED BY <1>1, <1>2, <1>4, ChangesSuffice

\* A mail goes to the address that was read.
LEMMA SendKeepsInv ==
    ASSUME AccountsInv, NEW r \in Requests, NEW t \in Links, SendLink(r, t)
    PROVE  AccountsInv'
  <1> DEFINE kind == IF request[r].step = "resend" THEN "verify" ELSE "reset"
             u == request[r].user
  <1>1. /\ request[r].step \in {"resend", "forgot"}
        /\ Issue(t, kind, u, request[r].email, NoEmail) /\ Done(r)
        /\ UNCHANGED <<account, session, guest>>
    BY DEF SendLink
  <1>2. /\ Registered(u) /\ request[r].email \in Emails
        /\ kind = "verify" => \/ request[r].email = account[u].email
                              \/ account[u].verified
    BY <1>1 DEF AccountsInv, RequestOK, Reading
  <1>3. u \in Users /\ kind \in Kinds
    BY <1>2 DEF Registered, Kinds
  <1> HIDE DEF kind, u
  <1>4. /\ link' \in [Links -> Link] /\ LinksStay
        /\ link'[t] = [state |-> "live", kind |-> kind, user |-> u, to |-> request[r].email,
                       from |-> NoEmail]
        /\ \A s \in Links \ {t} : link'[s] = link[s] \/ link'[s].state # "live"
    BY <1>1, <1>2, <1>3, IssuedLink
  <1>5. /\ request' \in [Requests -> Request]
        /\ \A q \in Requests : request'[q] = request[q] \/ request'[q].step = "idle"
    BY <1>1, DoneRequest
  <1>6. AccountsTypeOK' /\ AccountsGrow
    BY <1>1, <1>4, <1>5, AccountsRest DEF AccountsInv, AccountsTypeOK
  <1>7. LinkOK(t)'
    BY <1>1, <1>2, <1>4 DEF LinkOK, Registered, Known
  <1>8. QED BY <1>1, <1>4, <1>5, <1>6, <1>7, ChangesSuffice

\* A link that verifies is used: it went to the account's address, or the account
\* was verified before.
LEMMA VerifyKeepsInv ==
    ASSUME AccountsInv, NEW t \in Links, VerifyEmail(t)
    PROVE  AccountsInv'
  <1>1. PICK u : u = link[t].user
    OBVIOUS
  <1>2. /\ link[t].state = "live" /\ link[t].kind = "verify" /\ Spend(t, {})
        /\ account' = [account EXCEPT ![u].verified = TRUE]
        /\ UNCHANGED <<session, request, guest>>
    BY <1>1 DEF VerifyEmail, Live
  <1>3. /\ u \in Users /\ Known(u) /\ account[u] \in Account /\ AccountOK(u)
        /\ link[t].to = account[u].email \/ account[u].verified
    BY <1>1, <1>2 DEF AccountsInv, AccountsTypeOK, LinkOK, Registered
  <1>4. PICK x : x = [account[u] EXCEPT !.verified = TRUE]
    OBVIOUS
  <1>5. /\ x \in Account /\ x.verified = TRUE /\ x.email = account[u].email
        /\ x.version = account[u].version /\ x.profile = account[u].profile
        /\ account[u].version <= x.version
    <2>1. account[u].version \in Nat
      BY <1>3, AccountBoundsAssumption DEF Account
    <2>2. x \in Account
      BY <1>3, <1>4 DEF Account
    <2>3. x.verified = TRUE
      BY <1>3, <1>4 DEF Account
    <2>4. x.email = account[u].email /\ x.version = account[u].version
          /\ x.profile = account[u].profile
      BY <1>3, <1>4 DEF Account
    <2>5. QED BY <2>1, <2>2, <2>3, <2>4
  <1>6. account' = [account EXCEPT ![u] = x]
    BY <1>2, <1>3, <1>4
  <1>7. /\ account' \in [Users -> Account] /\ AccountsGrow /\ account'[u] = x
        /\ \A v \in Users : account'[v] = account[v] \/ v = u
    BY <1>3, <1>5, <1>6, WrittenAccount
  <1>8. /\ link' \in [Links -> Link] /\ LinksStay
        /\ \A s \in Links : link'[s] = link[s] \/ link'[s].state # "live"
        /\ link[t].to \in Proved(u)'
    BY <1>1, <1>2, SpentLink
  <1>9. Proved(u) \subseteq Proved(u)'
    BY <1>8, ProofsStay
  <1>10. AccountOK(u)'
    BY <1>3, <1>5, <1>7, <1>8, <1>9 DEF AccountOK, Known
  <1>11. AccountsTypeOK'
    BY <1>2, <1>7, <1>8 DEF AccountsInv, AccountsTypeOK
  <1>12. QED BY <1>2, <1>7, <1>8, <1>10, <1>11, ChangesSuffice

\* A password is reset: the account keeps its address and version.
LEMMA ResetKeepsInv ==
    ASSUME AccountsInv, NEW t \in Links, NEW p \in Passwords, ResetPassword(t, p)
    PROVE  AccountsInv'
  <1>1. PICK u : u = link[t].user
    OBVIOUS
  <1>2. /\ link[t].state = "live" /\ Spend(t, {})
        /\ account' = [account EXCEPT ![u].password = p]
        /\ EndSessions(u, NoSession) /\ UNCHANGED <<request, guest>>
    BY <1>1 DEF ResetPassword, Live
  <1>3. u \in Users /\ Known(u) /\ account[u] \in Account /\ AccountOK(u)
    BY <1>1, <1>2 DEF AccountsInv, AccountsTypeOK, LinkOK, Registered
  <1>4. PICK x : x = [account[u] EXCEPT !.password = p]
    OBVIOUS
  <1>5. /\ x \in Account /\ x.verified = account[u].verified /\ x.email = account[u].email
        /\ x.version = account[u].version /\ x.profile = account[u].profile
        /\ account[u].version <= x.version
    <2>1. account[u].version \in Nat
      BY <1>3, AccountBoundsAssumption DEF Account
    <2>2. QED BY <1>3, <1>4, <2>1 DEF Account
  <1>6. account' = [account EXCEPT ![u] = x]
    BY <1>2, <1>3, <1>4
  <1>7. /\ account' \in [Users -> Account] /\ AccountsGrow /\ account'[u] = x
        /\ \A v \in Users : account'[v] = account[v] \/ v = u
    BY <1>3, <1>5, <1>6, WrittenAccount
  <1>8. /\ link' \in [Links -> Link] /\ LinksStay
        /\ \A s \in Links : link'[s] = link[s] \/ link'[s].state # "live"
    BY <1>2, SpentLink
  <1>9. AccountOK(u)'
    <2>1. Proved(u) \subseteq Proved(u)'
      BY <1>8, ProofsStay
    <2>2. QED BY <1>3, <1>5, <1>7, <2>1 DEF AccountOK, Known
  <1>10. /\ session' \in [Sessions -> Session]
         /\ \A s \in Sessions : session'[s] = session[s] \/ session'[s].state # "open"
    BY <1>2, EndedSessions
  <1>11. AccountsTypeOK'
    BY <1>2, <1>7, <1>8, <1>10 DEF AccountsInv, AccountsTypeOK
  <1>12. QED BY <1>2, <1>7, <1>8, <1>9, <1>10, <1>11, ChangesSuffice

\* A link expires, a guest orders, or a session ends.
LEMMA SmallStepsKeepInv ==
    ASSUME AccountsInv,
           \/ \E t \in Links : LinkExpires(t)
           \/ \E o \in GuestOrders, e \in Emails : PlaceGuestOrder(o, e)
           \/ \E s \in Sessions : SessionEnds(s)
    PROVE  AccountsInv'
  <1>1. /\ UNCHANGED <<account, request>> /\ AccountsGrow
    BY AccountsRest DEF LinkExpires, PlaceGuestOrder, SessionEnds
  <1>2. ASSUME NEW t \in Links, LinkExpires(t) PROVE AccountsInv'
    <2>1. PICK x : x = [link[t] EXCEPT !.state = "dead"]
      OBVIOUS
    <2>2. x \in Link /\ x.state = "dead"
      BY <2>1 DEF AccountsInv, AccountsTypeOK, Link
    <2>3. link' = [link EXCEPT ![t] = x] /\ link[t].state = "live" /\ UNCHANGED <<session, guest>>
      BY <1>2, <2>1 DEF LinkExpires, AccountsInv, AccountsTypeOK
    <2>4. \A s \in Links : link'[s] = IF s = t THEN x ELSE link[s]
      BY <2>3 DEF AccountsInv, AccountsTypeOK
    <2>5. AccountsTypeOK' /\ LinksStay
      BY <1>1, <2>2, <2>3, <2>4 DEF AccountsInv, AccountsTypeOK, LinksStay
    <2>6. QED BY <1>1, <2>2, <2>3, <2>4, <2>5, ChangesSuffice
  <1>3. ASSUME NEW o \in GuestOrders, NEW e \in Emails, PlaceGuestOrder(o, e) PROVE AccountsInv'
    <2>1. PICK x : x = [guest[o] EXCEPT !.email = e]
      OBVIOUS
    <2>2. x \in Order /\ x.customer = guest[o].customer
      BY <2>1 DEF AccountsInv, AccountsTypeOK, Order
    <2>3. /\ guest' = [guest EXCEPT ![o] = x] /\ guest[o].email = NoEmail
          /\ UNCHANGED <<session, link>>
      BY <1>3, <2>1 DEF PlaceGuestOrder, AccountsInv, AccountsTypeOK
    <2>4. guest'[o] = x /\ \A y \in GuestOrders \ {o} : guest'[y] = guest[y]
      BY <2>3 DEF AccountsInv, AccountsTypeOK
    <2>5. AccountsTypeOK' /\ LinksStay
      BY <1>1, <2>2, <2>3, LinksRest DEF AccountsInv, AccountsTypeOK
    <2>6. guest[o].customer = NoUser
      BY <2>3, AccountNamesAssumption DEF AccountsInv, GuestOK
    <2>7. GuestOK(o)'
      BY <2>2, <2>4, <2>6 DEF GuestOK
    <2>8. QED BY <1>1, <2>3, <2>4, <2>5, <2>7, ChangesSuffice
  <1>4. ASSUME NEW s \in Sessions, SessionEnds(s) PROVE AccountsInv'
    <2>1. PICK x : x = [session[s] EXCEPT !.state = "ended"]
      OBVIOUS
    <2>2. x \in Session /\ x.state = "ended"
      BY <2>1 DEF AccountsInv, AccountsTypeOK, Session
    <2>3. session' = [session EXCEPT ![s] = x] /\ UNCHANGED <<link, guest>>
      BY <1>4, <2>1 DEF SessionEnds, AccountsInv, AccountsTypeOK
    <2>4. \A y \in Sessions : session'[y] = IF y = s THEN x ELSE session[y]
      BY <2>3 DEF AccountsInv, AccountsTypeOK
    <2>5. AccountsTypeOK' /\ LinksStay
      BY <1>1, <2>2, <2>3, LinksRest DEF AccountsInv, AccountsTypeOK
    <2>6. QED BY <1>1, <2>2, <2>3, <2>4, <2>5, ChangesSuffice
  <1>5. QED BY <1>2, <1>3, <1>4

-------------------------------------------------------------------------------
(* Logins and their orders.                                                *)

\* What a step does to one request.
LEMMA MovedRequest ==
    ASSUME AccountsInv, NEW r \in Requests, NEW x \in Request,
           request' = [request EXCEPT ![r] = x]
    PROVE  /\ request' \in [Requests -> Request] /\ request'[r] = x
           /\ \A q \in Requests \ {r} : request'[q] = request[q]
  BY DEF AccountsInv, AccountsTypeOK

\* One field of a request moves.
LEMMA MovedStep ==
    ASSUME NEW x \in Request, NEW step \in Step
    PROVE  LET y == [x EXCEPT !.step = step]
           IN /\ y \in Request /\ y.step = step /\ y.user = x.user /\ y.email = x.email
              /\ y.shown = x.shown
  BY DEF Request

\* A session is opened for the account whose password was typed.
LEMMA LoginKeepsInv ==
    ASSUME AccountsInv, NEW r \in Requests, NEW s \in Sessions, LoginOpen(r, s)
    PROVE  AccountsInv'
  <1>1. PICK y : y = [state |-> "open", user |-> request[r].user]
    OBVIOUS
  <1>2. PICK x : x = [request[r] EXCEPT !.step = "link"]
    OBVIOUS
  <1>3. /\ request[r].step = "login" /\ session' = [session EXCEPT ![s] = y]
        /\ request' = [request EXCEPT ![r] = x] /\ UNCHANGED <<account, link, guest>>
    BY <1>1, <1>2 DEF LoginOpen, AccountsInv, AccountsTypeOK
  <1>4. RequestOK(r) /\ request[r] \in Request /\ Registered(request[r].user)
    BY <1>3 DEF AccountsInv, AccountsTypeOK, RequestOK
  <1>5. y \in Session /\ y.user = request[r].user
    BY <1>1, <1>4 DEF Session, Registered
  <1>6. x \in Request /\ x.step = "link" /\ x.user = request[r].user /\ x.email = request[r].email
    BY <1>2, <1>4, MovedStep DEF Step
  <1>7. /\ request' \in [Requests -> Request] /\ request'[r] = x
        /\ \A q \in Requests \ {r} : request'[q] = request[q]
    BY <1>3, <1>6, MovedRequest
  <1>8. session'[s] = y /\ \A z \in Sessions \ {s} : session'[z] = session[z]
    BY <1>3 DEF AccountsInv, AccountsTypeOK
  <1>9. AccountsTypeOK' /\ AccountsGrow /\ LinksStay
    BY <1>3, <1>5, <1>7, AccountsRest, LinksRest DEF AccountsInv, AccountsTypeOK
  <1>10. SessionOK(s)'
    BY <1>3, <1>4, <1>5, <1>8 DEF SessionOK, Registered, Known
  <1>11. RequestOK(r)'
    BY <1>3, <1>4, <1>6, <1>7 DEF RequestOK, Registered, Known, Reading, Showing
  <1>12. QED BY <1>3, <1>7, <1>8, <1>9, <1>10, <1>11, ChangesSuffice

\* What is about to be linked are the orders of an address that was proved.
LEMMA LinkingKeepsInv ==
    ASSUME AccountsInv, NEW r \in Requests, LinkRead(r) \/ LinkWrite(r)
    PROVE  AccountsInv'
  <1>1. UNCHANGED <<account, session, link>> /\ AccountsGrow /\ LinksStay
    BY AccountsRest, LinksRest DEF LinkRead, LinkWrite
  <1>2. ASSUME Done(r), UNCHANGED guest PROVE AccountsInv'
    <2>1. /\ request' \in [Requests -> Request]
          /\ \A q \in Requests : request'[q] = request[q] \/ request'[q].step = "idle"
      BY <1>2, DoneRequest
    <2>2. AccountsTypeOK'
      BY <1>1, <1>2, <2>1 DEF AccountsInv, AccountsTypeOK
    <2>3. QED BY <1>1, <1>2, <2>1, <2>2, ChangesSuffice
  <1>3. PICK u : u = request[r].user
    OBVIOUS
  <1>4. CASE /\ request[r].step = "link"
             /\ account[u].verified /\ account[u].email = request[r].email
             /\ request' = [request EXCEPT ![r].step = "linking"]
             /\ UNCHANGED guest
    <2>1. PICK x : x = [request[r] EXCEPT !.step = "linking"]
      OBVIOUS
    <2>2. RequestOK(r) /\ request[r] \in Request /\ Registered(u) /\ u \in Users
      BY <1>3, <1>4 DEF AccountsInv, AccountsTypeOK, RequestOK, Registered
    <2>3. x \in Request /\ x.step = "linking" /\ x.user = u /\ x.email = request[r].email
      BY <1>3, <2>1, <2>2, MovedStep DEF Step
    <2>4. request' = [request EXCEPT ![r] = x]
      BY <1>4, <2>1 DEF AccountsInv, AccountsTypeOK
    <2>5. /\ request' \in [Requests -> Request] /\ request'[r] = x
          /\ \A q \in Requests \ {r} : request'[q] = request[q]
      BY <2>3, <2>4, MovedRequest
    <2>6. x.email \in Proved(u)
      BY <1>4, <2>2, <2>3 DEF AccountsInv, AccountOK
    <2>7. Proved(u)' = Proved(u)
      BY <1>1 DEF Proved
    <2>8. RequestOK(r)'
      BY <1>1, <1>3, <1>4, <2>2, <2>3, <2>5, <2>6, <2>7
      DEF RequestOK, Registered, Known, Reading, Showing
    <2>9. AccountsTypeOK'
      BY <1>1, <1>4, <2>5 DEF AccountsInv, AccountsTypeOK
    <2>10. QED BY <1>1, <1>4, <2>5, <2>8, <2>9, ChangesSuffice
  <1>5. CASE LinkWrite(r)
    <2>1. /\ request[r].step = "linking" /\ Linked(u, request[r].email) /\ Done(r)
      BY <1>3, <1>5 DEF LinkWrite
    <2>2. /\ u \in Users /\ request[r].email \in Emails /\ request[r].email \in Proved(u)
      BY <1>3, <2>1 DEF AccountsInv, RequestOK, Registered, Reading
    <2>3. /\ guest' \in [GuestOrders -> Order]
          /\ \A o \in GuestOrders : \/ guest'[o] = guest[o]
                                    \/ guest'[o].email = request[r].email /\ guest'[o].customer = u
      BY <2>1, <2>2, LinkedOrders
    <2>4. /\ request' \in [Requests -> Request]
          /\ \A q \in Requests : request'[q] = request[q] \/ request'[q].step = "idle"
      BY <2>1, DoneRequest
    <2>5. Proved(u)' = Proved(u)
      BY <1>1 DEF Proved
    <2>6. \A o \in GuestOrders : guest'[o] = guest[o] \/ GuestOK(o)'
      BY <2>2, <2>3, <2>5 DEF GuestOK
    <2>7. AccountsTypeOK'
      BY <1>1, <2>3, <2>4 DEF AccountsInv, AccountsTypeOK
    <2>8. QED BY <1>1, <2>4, <2>6, <2>7, ChangesSuffice
  <1>6. QED BY <1>2, <1>3, <1>4, <1>5 DEF LinkRead

-------------------------------------------------------------------------------
(* Steps of the account page.                                              *)

\* The page shows the account as it is.
LEMMA PageKeepsInv ==
    ASSUME AccountsInv, NEW r \in Requests, NEW s \in Sessions, OpenPage(r, s)
    PROVE  AccountsInv'
  <1>1. PICK u : u = session[s].user
    OBVIOUS
  <1>2. PICK p : p = [version |-> account[u].version, email |-> account[u].email,
                      profile |-> account[u].profile]
    OBVIOUS
  <1>3. PICK x : x = [Idle EXCEPT !.step = "page", !.user = u, !.session = s, !.shown = p]
    OBVIOUS
  <1>4. /\ session[s].state = "open" /\ request' = [request EXCEPT ![r] = x]
        /\ UNCHANGED <<account, session, link, guest>>
    BY <1>1, <1>2, <1>3 DEF OpenPage
  <1>5. Registered(u) /\ u \in Users /\ account[u] \in Account /\ account[u].version \in Nat
    BY <1>1, <1>4, AccountBoundsAssumption
    DEF AccountsInv, AccountsTypeOK, SessionOK, Registered, Account
  <1>6. /\ p \in Page /\ p.version = account[u].version /\ p.email = account[u].email
        /\ p.profile = account[u].profile
    BY <1>2, <1>5 DEF Page, Account
  <1>7. AnyProfile \in Profiles
    BY ProfilesAssumption DEF AnyProfile
  <1>8. Idle \in Request
    BY <1>7, AccountBoundsAssumption DEF Idle, Request, Step, NoPage, Page
  <1>9. x \in Request /\ x.step = "page" /\ x.user = u /\ x.shown = p
    <2>1. x \in Request
      BY <1>3, <1>5, <1>6, <1>8 DEF Request, Step
    <2>2. x.step = "page" /\ x.user = u /\ x.shown = p
      BY <1>3, <1>8 DEF Request
    <2>3. QED BY <2>1, <2>2
  <1>10. /\ request' \in [Requests -> Request] /\ request'[r] = x
         /\ \A q \in Requests \ {r} : request'[q] = request[q]
    BY <1>4, <1>9, MovedRequest
  <1>11. RequestOK(r)'
    <2>1. p.version <= account[u].version
      BY <1>5, <1>6
    <2>2. QED BY <1>4, <1>5, <1>6, <1>9, <1>10, <2>1
              DEF RequestOK, Registered, Known, Reading, Showing
  <1>12. AccountsTypeOK' /\ AccountsGrow /\ LinksStay
    BY <1>4, <1>10, AccountsRest, LinksRest DEF AccountsInv, AccountsTypeOK
  <1>13. QED BY <1>4, <1>10, <1>11, <1>12, ChangesSuffice

\* A request goes on with the page that its user saw.
LEMMA PageMovesOn ==
    ASSUME AccountsInv, NEW r \in Requests, NEW x \in Request,
           request' = [request EXCEPT ![r] = x],
           request[r].step \in Showing, x.step \in Showing,
           x.user = request[r].user, x.shown = request[r].shown,
           UNCHANGED <<account, session, link, guest>>
    PROVE  AccountsInv'
  <1>1. /\ request' \in [Requests -> Request] /\ request'[r] = x
        /\ \A q \in Requests \ {r} : request'[q] = request[q]
    BY MovedRequest
  <1>2. RequestOK(r) /\ request[r].step # "idle"
    BY DEF AccountsInv, Showing
  <1>3. RequestOK(r)'
    BY <1>1, <1>2 DEF RequestOK, Registered, Known, Reading, Showing
  <1>4. AccountsTypeOK' /\ AccountsGrow /\ LinksStay
    BY <1>1, AccountsRest, LinksRest DEF AccountsInv, AccountsTypeOK
  <1>5. QED BY <1>1, <1>3, <1>4, ChangesSuffice

\* The guard lets the request in, or the current password is checked.
LEMMA EnterKeepsInv ==
    ASSUME AccountsInv, NEW r \in Requests, Enter(r) \/ ChangePasswordRead(r)
    PROVE  AccountsInv'
  <1>1. request[r] \in Request
    BY DEF AccountsInv, AccountsTypeOK
  <1>2. CASE Enter(r)
    <2>1. PICK x : x = [request[r] EXCEPT !.step = "in"]
      OBVIOUS
    <2>2. x \in Request /\ x.step = "in" /\ x.user = request[r].user /\ x.shown = request[r].shown
      BY <1>1, <2>1, MovedStep DEF Step
    <2>3. /\ request' = [request EXCEPT ![r] = x] /\ request[r].step = "page"
          /\ UNCHANGED <<account, session, link, guest>>
      BY <1>2, <2>1 DEF Enter, AccountsInv, AccountsTypeOK
    <2>4. QED BY <2>2, <2>3, PageMovesOn DEF Showing
  <1>3. CASE ChangePasswordRead(r)
    <2>1. PICK q : q = account[request[r].user].password
      OBVIOUS
    <2>2. PICK x : x = [request[r] EXCEPT !.step = "hashed", !.password = q]
      OBVIOUS
    <2>3. /\ request' = [request EXCEPT ![r] = x] /\ request[r].step = "in"
          /\ UNCHANGED <<account, session, link, guest>>
      BY <1>3, <2>1, <2>2 DEF ChangePasswordRead
    <2>4. q \in Passwords \cup {NoPassword}
      BY <2>1, <2>3 DEF AccountsInv, AccountsTypeOK, RequestOK, Registered, Account
    <2>5. x \in Request
      BY <1>1, <2>2, <2>4 DEF Request, Step
    <2>6. x.step = "hashed" /\ x.user = request[r].user /\ x.shown = request[r].shown
      BY <1>1, <2>2 DEF Request
    <2>7. QED BY <2>3, <2>5, <2>6, PageMovesOn DEF Showing
  <1>4. QED BY <1>2, <1>3

\* A request ends without a word about the account, with or without the sessions.
LEMMA EndKeepsInv ==
    ASSUME AccountsInv, NEW r \in Requests, GiveUp(r) \/ RevokeOthers(r) \/ LogoutAll(r)
    PROVE  AccountsInv'
  <1>1. Done(r) /\ UNCHANGED <<account, link, guest>>
    BY DEF GiveUp, RevokeOthers, LogoutAll
  <1>2. /\ request' \in [Requests -> Request]
        /\ \A q \in Requests : request'[q] = request[q] \/ request'[q].step = "idle"
    BY <1>1, DoneRequest
  <1>3. /\ session' \in [Sessions -> Session]
        /\ \A s \in Sessions : session'[s] = session[s] \/ session'[s].state # "open"
    <2>1. CASE UNCHANGED session
      BY <2>1 DEF AccountsInv, AccountsTypeOK
    <2>2. CASE \E keep \in {request[r].session, NoSession} : EndSessions(request[r].user, keep)
      BY <2>2, EndedSessions
    <2>3. QED BY <2>1, <2>2 DEF GiveUp, RevokeOthers, LogoutAll
  <1>4. AccountsTypeOK' /\ AccountsGrow /\ LinksStay
    BY <1>1, <1>2, <1>3, AccountsRest, LinksRest DEF AccountsInv, AccountsTypeOK
  <1>5. QED BY <1>1, <1>2, <1>3, <1>4, ChangesSuffice

\* The profile is edited.
LEMMA ProfileKeepsInv ==
    ASSUME AccountsInv, NEW r \in Requests, NEW p \in Profiles, UpdateProfile(r, p)
    PROVE  AccountsInv'
  <1>1. PICK u : u = request[r].user
    OBVIOUS
  <1>2. PICK half : half = [account[u] EXCEPT !.profile = p]
    OBVIOUS
  <1>3. PICK x : x = Bumped(half)
    OBVIOUS
  <1>4. /\ request[r].step = "in" /\ account[u].version < MaxVersion /\ Done(r)
        /\ account' = [account EXCEPT ![u] = x] /\ UNCHANGED <<session, link, guest>>
    BY <1>1, <1>2, <1>3 DEF UpdateProfile, MayBump
  <1>5. u \in Users /\ Known(u) /\ account[u] \in Account /\ AccountOK(u)
    BY <1>1, <1>4 DEF AccountsInv, AccountsTypeOK, RequestOK, Registered
  <1>6. /\ half \in Account /\ half.version = account[u].version
        /\ half.email = account[u].email /\ half.verified = account[u].verified
    BY <1>2, <1>5 DEF Account
  <1>7. /\ x \in Account /\ x.version = account[u].version + 1
        /\ x.email = account[u].email /\ x.verified = account[u].verified
    BY <1>3, <1>4, <1>6, BumpedAccount
  <1>8. account[u].version <= x.version /\ x.version # account[u].version /\ x.version > 0
    BY <1>5, <1>7, AccountBoundsAssumption DEF Account
  <1>9. /\ account' \in [Users -> Account] /\ AccountsGrow /\ account'[u] = x
        /\ \A v \in Users : account'[v] = account[v] \/ v = u
    BY <1>4, <1>5, <1>7, <1>8, WrittenAccount
  <1>10. /\ request' \in [Requests -> Request]
         /\ \A q \in Requests : request'[q] = request[q] \/ request'[q].step = "idle"
    BY <1>4, DoneRequest
  <1>11. AccountsTypeOK' /\ LinksStay
    BY <1>4, <1>9, <1>10, LinksRest DEF AccountsInv, AccountsTypeOK
  <1>12. AccountOK(u)'
    <2>1. Proved(u)' = Proved(u)
      BY <1>4 DEF Proved
    <2>2. QED BY <1>5, <1>7, <1>8, <1>9, <2>1 DEF AccountOK, Known
  <1>13. QED BY <1>4, <1>9, <1>10, <1>11, <1>12, ChangesSuffice

\* A change of address is asked for: the account keeps its own.
LEMMA AskForMoveKeepsInv ==
    ASSUME AccountsInv, NEW r \in Requests, NEW e \in Emails, NEW t \in Links,
           RequestEmailChange(r, e, t)
    PROVE  AccountsInv'
  <1>1. PICK u : u = request[r].user
    OBVIOUS
  <1>2. /\ request[r].step = "in" /\ Issue(t, "change", u, e, account[u].email) /\ Done(r)
        /\ UNCHANGED <<account, session, guest>>
    BY <1>1 DEF RequestEmailChange, AddressStays
  <1>3. Registered(u) /\ u \in Users /\ account[u].email \in Emails
    BY <1>1, <1>2 DEF AccountsInv, RequestOK, Registered, AccountOK
  <1>4. PICK from \in Emails : from = account[u].email
    BY <1>3
  <1>5. /\ link' \in [Links -> Link] /\ LinksStay
        /\ link'[t] = [state |-> "live", kind |-> "change", user |-> u, to |-> e, from |-> from]
        /\ \A s \in Links \ {t} : link'[s] = link[s] \/ link'[s].state # "live"
    BY <1>2, <1>3, <1>4, IssuedLink DEF Kinds
  <1>6. /\ request' \in [Requests -> Request]
        /\ \A q \in Requests : request'[q] = request[q] \/ request'[q].step = "idle"
    BY <1>2, DoneRequest
  <1>7. AccountsTypeOK' /\ AccountsGrow
    BY <1>2, <1>5, <1>6, AccountsRest DEF AccountsInv, AccountsTypeOK
  <1>8. LinkOK(t)'
    BY <1>2, <1>3, <1>5 DEF LinkOK, Registered, Known
  <1>9. QED BY <1>2, <1>5, <1>6, <1>7, <1>8, ChangesSuffice

\* The account moves to the address that the link was sent to.
LEMMA MoveKeepsInv ==
    ASSUME AccountsInv, NEW r \in Requests, NEW t \in Links, ConfirmEmailChange(r, t)
    PROVE  AccountsInv'
  <1>1. PICK u : u = request[r].user
    OBVIOUS
  <1>2. PICK half : half = [account[u] EXCEPT !.email = link[t].to, !.verified = TRUE]
    OBVIOUS
  <1>3. PICK x : x = Bumped(half)
    OBVIOUS
  <1>4. /\ request[r].step = "in" /\ link[t].state = "live" /\ link[t].kind = "change"
        /\ link[t].user = u /\ account[u].version < MaxVersion
        /\ account' = [account EXCEPT ![u] = x]
        /\ Spend(t, Kinds) /\ EndSessions(u, request[r].session) /\ Linked(u, link[t].to) /\ Done(r)
    BY <1>1, <1>2, <1>3 DEF ConfirmEmailChange, MayBump, Live
  <1>5. u \in Users /\ Known(u) /\ account[u] \in Account /\ link[t].to \in Emails
    BY <1>1, <1>4 DEF AccountsInv, AccountsTypeOK, RequestOK, Registered, LinkOK
  <1>6. /\ half \in Account /\ half.version = account[u].version
        /\ half.email = link[t].to /\ half.verified = TRUE
    <2>1. half \in Account
      BY <1>2, <1>5 DEF Account
    <2>2. half.verified = TRUE
      BY <1>2, <1>5 DEF Account
    <2>3. half.version = account[u].version /\ half.email = link[t].to
      BY <1>2, <1>5 DEF Account
    <2>4. QED BY <2>1, <2>2, <2>3
  <1>7. /\ x \in Account /\ x.version = account[u].version + 1
        /\ x.email = link[t].to /\ x.verified = TRUE
    BY <1>3, <1>4, <1>6, BumpedAccount
  <1>8. account[u].version <= x.version /\ x.version # account[u].version /\ x.version > 0
    BY <1>5, <1>7, AccountBoundsAssumption DEF Account
  <1>9. /\ account' \in [Users -> Account] /\ AccountsGrow /\ account'[u] = x
        /\ \A v \in Users : account'[v] = account[v] \/ v = u
    BY <1>4, <1>5, <1>7, <1>8, WrittenAccount
  <1>10. /\ request' \in [Requests -> Request]
         /\ \A q \in Requests : request'[q] = request[q] \/ request'[q].step = "idle"
    BY <1>4, DoneRequest
  <1>11. /\ link' \in [Links -> Link] /\ LinksStay
         /\ \A s \in Links : link'[s] = link[s] \/ link'[s].state # "live"
         /\ link[t].to \in Proved(u)'
    BY <1>4, SpentLink
  <1>12. /\ session' \in [Sessions -> Session]
         /\ \A s \in Sessions : session'[s] = session[s] \/ session'[s].state # "open"
    BY <1>4, EndedSessions
  <1>13. /\ guest' \in [GuestOrders -> Order]
         /\ \A o \in GuestOrders : \/ guest'[o] = guest[o]
                                   \/ guest'[o].email = link[t].to /\ guest'[o].customer = u
    BY <1>4, <1>5, LinkedOrders
  <1>14. AccountsTypeOK'
    BY <1>9, <1>10, <1>11, <1>12, <1>13 DEF AccountsTypeOK
  <1>15. AccountOK(u)'
    BY <1>5, <1>7, <1>8, <1>9, <1>11 DEF AccountOK, Known
  <1>16. \A o \in GuestOrders : guest'[o] = guest[o] \/ GuestOK(o)'
    BY <1>5, <1>11, <1>13 DEF GuestOK
  <1>17. QED BY <1>9, <1>10, <1>11, <1>12, <1>14, <1>15, <1>16, ChangesSuffice

\* The password is replaced: the account keeps its address.
LEMMA PasswordKeepsInv ==
    ASSUME AccountsInv, NEW r \in Requests, NEW p \in Passwords, ChangePasswordWrite(r, p)
    PROVE  AccountsInv'
  <1>1. PICK u : u = request[r].user
    OBVIOUS
  <1>2. PICK half : half = [account[u] EXCEPT !.password = p]
    OBVIOUS
  <1>3. PICK x : x = Bumped(half)
    OBVIOUS
  <1>4. /\ request[r].step = "hashed" /\ account[u].version < MaxVersion /\ Done(r)
        /\ account' = [account EXCEPT ![u] = x] /\ link' = Killed(u, {"reset"})
        /\ EndSessions(u, request[r].session) /\ UNCHANGED guest
    BY <1>1, <1>2, <1>3 DEF ChangePasswordWrite, MayBump
  <1>5. u \in Users /\ Known(u) /\ account[u] \in Account /\ AccountOK(u)
    BY <1>1, <1>4 DEF AccountsInv, AccountsTypeOK, RequestOK, Registered
  <1>6. /\ half \in Account /\ half.version = account[u].version
        /\ half.email = account[u].email /\ half.verified = account[u].verified
    BY <1>2, <1>5 DEF Account
  <1>7. /\ x \in Account /\ x.version = account[u].version + 1
        /\ x.email = account[u].email /\ x.verified = account[u].verified
    BY <1>3, <1>4, <1>6, BumpedAccount
  <1>8. account[u].version <= x.version /\ x.version # account[u].version /\ x.version > 0
    BY <1>5, <1>7, AccountBoundsAssumption DEF Account
  <1>9. /\ account' \in [Users -> Account] /\ AccountsGrow /\ account'[u] = x
        /\ \A v \in Users : account'[v] = account[v] \/ v = u
    BY <1>4, <1>5, <1>7, <1>8, WrittenAccount
  <1>10. /\ request' \in [Requests -> Request]
         /\ \A q \in Requests : request'[q] = request[q] \/ request'[q].step = "idle"
    BY <1>4, DoneRequest
  <1>11. /\ link' \in [Links -> Link]
         /\ \A t \in Links : \/ link'[t] = link[t]
                             \/ link[t].state = "live" /\ link'[t].state = "dead"
    BY <1>4, KilledLinks
  <1>12. LinksStay
    BY <1>11 DEF LinksStay
  <1>13. /\ session' \in [Sessions -> Session]
         /\ \A s \in Sessions : session'[s] = session[s] \/ session'[s].state # "open"
    BY <1>4, EndedSessions
  <1>14. AccountsTypeOK'
    BY <1>4, <1>9, <1>10, <1>11, <1>13 DEF AccountsInv, AccountsTypeOK
  <1>15. AccountOK(u)'
    <2>1. Proved(u) \subseteq Proved(u)'
      BY <1>12, ProofsStay
    <2>2. QED BY <1>5, <1>7, <1>8, <1>9, <2>1 DEF AccountOK, Known
  <1>16. \A t \in Links : link'[t] = link[t] \/ link'[t].state # "live"
    BY <1>11
  <1>17. QED BY <1>4, <1>9, <1>10, <1>12, <1>13, <1>14, <1>15, <1>16, ChangesSuffice

\* Every step keeps the invariant.
LEMMA AccountsNextInv == AccountsInv /\ [AccountsNext]_accountVars => AccountsInv'
  <1> SUFFICES ASSUME AccountsInv, [AccountsNext]_accountVars PROVE AccountsInv'
    OBVIOUS
  <1>1. CASE ByMail
    <2>1. ASSUME NEW r \in Requests, NEW u \in Users, ResendRead(r, u) \/ ForgotRead(r, u)
          PROVE  AccountsInv'
      <3>1. PICK step \in Reading \ {"linking"} :
               Reads(r, step, u) /\ UNCHANGED <<account, session, link, guest>>
        BY <2>1 DEF ResendRead, ForgotRead, Reading
      <3>2. QED BY <3>1, ReadKeepsInv
    <2>2. QED BY <1>1, <2>1, RegisterKeepsInv, SendKeepsInv, VerifyKeepsInv, ResetKeepsInv,
                 SmallStepsKeepInv DEF ByMail
  <1>2. CASE ByPassword
    <2>1. ASSUME NEW r \in Requests, NEW u \in Users, LoginRead(r, u)
          PROVE  AccountsInv'
      <3>1. Reads(r, "login", u) /\ UNCHANGED <<account, session, link, guest>>
        BY <2>1 DEF LoginRead
      <3>2. QED BY <3>1, ReadKeepsInv DEF Reading
    <2>2. QED BY <1>2, <2>1, LoginKeepsInv, LinkingKeepsInv, SmallStepsKeepInv DEF ByPassword
  <1>3. CASE ByPage
    BY <1>3, PageKeepsInv, EnterKeepsInv, EndKeepsInv, ProfileKeepsInv, AskForMoveKeepsInv,
       MoveKeepsInv, PasswordKeepsInv DEF ByPage
  <1>4. CASE UNCHANGED accountVars
    BY <1>4 DEF accountVars, AccountsInv, AccountsTypeOK, AccountOK, SessionOK, LinkOK, RequestOK,
                GuestOK, Known, Registered, Proved
  <1>5. QED BY <1>1, <1>2, <1>3, <1>4 DEF AccountsNext

-------------------------------------------------------------------------------
(* The theorems.                                                           *)

\* The invariant holds throughout.
LEMMA AccountsAlways == AccountsSpec => []AccountsInv
  BY AccountsInitInv, AccountsNextInv, PTL DEF AccountsSpec

\* Accounts, sessions, links, requests and guest orders have their types.
THEOREM AccountsTypeCorrect == AccountsSpec => []AccountsTypeOK
  <1>1. AccountsInv => AccountsTypeOK
    BY DEF AccountsInv
  <1>2. QED BY <1>1, AccountsAlways, PTL

\* No account counts as verified under an address, and none owns a guest order,
\* unless a link sent to that address was used.
THEOREM OwnersProved == AccountsSpec => []OwnersProvedTheirAddress
  <1>1. AccountsInv => OwnersProvedTheirAddress
    BY DEF AccountsInv, AccountOK, GuestOK, OwnersProvedTheirAddress
  <1>2. QED BY <1>1, AccountsAlways, PTL

\* The steps that end a request and change an account: they are the edits of the
\* request's own account, of the version that its page shows.
LEMMA EditsAreTheRequests ==
    ASSUME AccountsInv, AccountsNext, NEW r \in Requests, NEW u \in Users,
           request[r].step \in {"in", "hashed"}, request'[r].step = "idle",
           account'[u] # account[u]
    PROVE  \/ \E p \in Profiles : UpdateProfile(r, p)
           \/ \E t \in Links : ConfirmEmailChange(r, t)
           \/ \E p \in Passwords : ChangePasswordWrite(r, p)
  <1>1. request' # request /\ account' # account
    <2>1. request[r].step # "idle"
      OBVIOUS
    <2>2. QED BY <2>1
  <1>2. ASSUME NEW q \in Requests, Done(q) PROVE q = r
    BY <1>2, DoneRequest
  <1>3. ByMail \/ ByPassword => FALSE
    BY <1>1 DEF ByMail, ByPassword, Register, ResendRead, ForgotRead, SendLink, VerifyEmail,
                LinkExpires, ResetPassword, PlaceGuestOrder, LoginRead, LoginOpen, LinkRead,
                LinkWrite, SessionEnds
  <1>4. ASSUME NEW q \in Requests PROVE ~(GiveUp(q) \/ Enter(q) \/ RevokeOthers(q) \/ LogoutAll(q)
                                          \/ ChangePasswordRead(q))
    BY <1>1 DEF GiveUp, Enter, RevokeOthers, LogoutAll, ChangePasswordRead
  <1>5. /\ \A q \in Requests, s \in Sessions : ~OpenPage(q, s)
        /\ \A q \in Requests, e \in Emails, t \in Links : ~RequestEmailChange(q, e, t)
    BY <1>1 DEF OpenPage, RequestEmailChange, AddressStays
  <1>6. /\ \A q \in Requests, p \in Profiles : UpdateProfile(q, p) => q = r
        /\ \A q \in Requests, t \in Links : ConfirmEmailChange(q, t) => q = r
        /\ \A q \in Requests, p \in Passwords : ChangePasswordWrite(q, p) => q = r
    BY <1>2 DEF UpdateProfile, ConfirmEmailChange, ChangePasswordWrite
  <1>7. ByPage
    BY <1>3 DEF AccountsNext
  <1>8. QED BY <1>4, <1>5, <1>6, <1>7 DEF ByPage

\* The password that is replaced is the one that was typed.
THEOREM PasswordsReplacedKnowingly == AccountsSpec => PasswordReplacedKnowingly
  <1>1. ASSUME AccountsInv, [AccountsNext]_accountVars,
               NEW r \in Requests, NEW u \in Users,
               request[r].step = "hashed", request[r].user = u,
               request'[r].step = "idle", account'[u] # account[u]
        PROVE  account[u].password = request[r].password
    <2>1. AccountsNext
      BY <1>1 DEF accountVars
    <2>2. \E p \in Passwords : ChangePasswordWrite(r, p)
      BY <1>1, <2>1, EditsAreTheRequests DEF UpdateProfile, ConfirmEmailChange
    <2>3. QED BY <1>1, <2>2 DEF ChangePasswordWrite, SamePassword
  <1>2. AccountsInv /\ [AccountsNext]_accountVars =>
           [\A r \in Requests, u \in Users :
               (/\ request[r].step = "hashed" /\ request[r].user = u
                /\ request'[r].step = "idle" /\ account'[u] # account[u])
               => account[u].password = request[r].password]_accountVars
    BY <1>1
  <1>3. QED BY <1>2, AccountsAlways, PTL DEF AccountsSpec, PasswordReplacedKnowingly

\* An edit changes only what its page showed.
THEOREM EditsInformed == AccountsSpec => EditsAreInformed
  <1>1. ASSUME AccountsInv, [AccountsNext]_accountVars,
               NEW r \in Requests, NEW u \in Users,
               request[r].step \in {"in", "hashed"}, request[r].user = u,
               request'[r].step = "idle", account'[u] # account[u],
               account'[u].email = account[u].email
        PROVE  /\ account[u].profile = request[r].shown.profile
               /\ account[u].email = request[r].shown.email
    <2>1. AccountsNext
      BY <1>1 DEF accountVars
    <2>2. RequestOK(r) /\ request[r].step \in Showing
      BY <1>1 DEF AccountsInv, Showing
    <2>3. ASSUME NEW t \in Links, ConfirmEmailChange(r, t) PROVE FALSE
      <3>1. PICK half : half = [account[u] EXCEPT !.email = link[t].to, !.verified = TRUE]
        OBVIOUS
      <3>2. account' = [account EXCEPT ![u] = Bumped(half)] /\ ~Taken(link[t].to)
        BY <1>1, <2>3, <3>1 DEF ConfirmEmailChange
      <3>3. account[u] \in Account /\ link[t] \in Link
        BY <1>1 DEF AccountsInv, AccountsTypeOK
      <3>4. half.email = link[t].to /\ half \in Account
        <4>1. link[t].to \in Emails
          BY <1>1, <2>3 DEF ConfirmEmailChange, Live, AccountsInv, LinkOK
        <4>2. QED BY <3>1, <3>3, <4>1 DEF Account
      <3>5. Bumped(half).email = link[t].to
        BY <3>4 DEF Bumped, Account
      <3>6. QED
        BY <1>1, <3>2, <3>5 DEF Taken, AccountsInv, AccountsTypeOK
    <2>4. Expected(r)
      BY <1>1, <2>1, <2>3, EditsAreTheRequests DEF UpdateProfile, ChangePasswordWrite
    <2>5. QED BY <1>1, <2>2, <2>4 DEF RequestOK, Expected
  <1>2. AccountsInv /\ [AccountsNext]_accountVars =>
           [\A r \in Requests, u \in Users :
               (/\ request[r].step \in {"in", "hashed"} /\ request[r].user = u
                /\ request'[r].step = "idle"
                /\ account'[u] # account[u] /\ account'[u].email = account[u].email)
               => /\ account[u].profile = request[r].shown.profile
                  /\ account[u].email = request[r].shown.email]_accountVars
    BY <1>1
  <1>3. QED BY <1>2, AccountsAlways, PTL DEF AccountsSpec, EditsAreInformed
==============================================================================
