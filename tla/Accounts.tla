------------------------------- MODULE Accounts -------------------------------
(***************************************************************************)
(* Accounts and sessions: registration, one-time links sent by e-mail,     *)
(* logins, the account page, and the guest orders that an account takes    *)
(* over once it has proved to own their address.                           *)
(*                                                                         *)
(* A transaction is one step, except that linkGuestOrders reads and writes *)
(* in two statements.  Before their transaction, requests pass the guard   *)
(* of the session, read the user or hash a password, and others come in    *)
(* between.                                                                *)
(*                                                                         *)
(* Abstracted: a password stands for its hash; the profile is one value;   *)
(* links and sessions expire at any time; the lock after failed logins is  *)
(* left out (it only refuses); no code deactivates an account.  A request  *)
(* that is refused is no step.                                             *)
(***************************************************************************)
EXTENDS Integers, FiniteSets

CONSTANTS
    Users,       \* accounts, numbered as they are created
    Emails,      \* addresses, normalised
    NoEmail,     \* no address
    Passwords,   \* passwords
    NoPassword,  \* no password
    Profiles,    \* contents of a profile
    Sessions,    \* sessions
    NoSession,   \* no session
    Links,       \* one-time tokens sent by e-mail, numbered likewise
    Requests,    \* requests being handled
    GuestOrders, \* orders placed without an account
    NoUser,      \* no account
    MaxVersion   \* bound: versions of an account

ASSUME AccountNamesAssumption == /\ NoEmail \notin Emails
                                 /\ NoPassword \notin Passwords
                                 /\ NoSession \notin Sessions
                                 /\ NoUser \notin Users
ASSUME AccountBoundsAssumption == MaxVersion \in Nat \ {0}
ASSUME ProfilesAssumption == Profiles # {}
ASSUME AccountNumbersAssumption == Users \subseteq Nat /\ Links \subseteq Nat

VARIABLES
    account,   \* rows of users
    session,   \* rows of sessions
    link,      \* rows of the three tables of tokens, and where each was sent
    request,   \* what each request in progress has read
    guest      \* guest orders: their address and the account they belong to

accountVars == <<account, session, link, request, guest>>

-------------------------------------------------------------------------------
Kinds == {"verify", "reset", "change"}

\* Version 0: no such account.
Account == [email : Emails \cup {NoEmail}, verified : BOOLEAN,
            password : Passwords \cup {NoPassword}, profile : Profiles, version : 0..MaxVersion]
Session == [state : {"unused", "open", "ended"}, user : Users \cup {NoUser}]

\* used_at is set of a link that is spent (by its owner) or dead (by a newer one
\* or by another change); from is the address that a change of address replaces.
Link == [state : {"unused", "live", "spent", "dead"}, kind : Kinds, user : Users \cup {NoUser},
         to : Emails \cup {NoEmail}, from : Emails \cup {NoEmail}]

Page == [version : 0..MaxVersion, email : Emails \cup {NoEmail}, profile : Profiles]

\* idle; resend, forgot: has read the user; login: has checked the password;
\* link, linking: the session is open, the address still to be read, or read;
\* page: shows the account; in: has passed the guard; hashed: has checked the
\* current password.
Step == {"idle", "resend", "forgot", "login", "link", "linking", "page", "in", "hashed"}
Request == [step : Step, user : Users \cup {NoUser}, session : Sessions \cup {NoSession},
            email : Emails \cup {NoEmail}, password : Passwords \cup {NoPassword}, shown : Page]

Order == [email : Emails \cup {NoEmail}, customer : Users \cup {NoUser}]

AccountsTypeOK ==
    /\ account \in [Users -> Account]
    /\ session \in [Sessions -> Session]
    /\ link \in [Links -> Link]
    /\ request \in [Requests -> Request]
    /\ guest \in [GuestOrders -> Order]

AnyProfile == CHOOSE p \in Profiles : TRUE
NoPage == [version |-> 0, email |-> NoEmail, profile |-> AnyProfile]
Idle == [step |-> "idle", user |-> NoUser, session |-> NoSession, email |-> NoEmail,
         password |-> NoPassword, shown |-> NoPage]

AccountsInit ==
    /\ account = [u \in Users |-> [email |-> NoEmail, verified |-> FALSE, password |-> NoPassword,
                                   profile |-> AnyProfile, version |-> 0]]
    /\ session = [s \in Sessions |-> [state |-> "unused", user |-> NoUser]]
    /\ link = [t \in Links |-> [state |-> "unused", kind |-> "verify", user |-> NoUser,
                                to |-> NoEmail, from |-> NoEmail]]
    /\ request = [r \in Requests |-> Idle]
    /\ guest = [o \in GuestOrders |-> [email |-> NoEmail, customer |-> NoUser]]

-------------------------------------------------------------------------------
Known(u) == account[u].version > 0
Taken(e) == \E u \in Users : account[u].email = e
Live(t, kind) == link[t].state = "live" /\ link[t].kind = kind

\* The links of an account that are still good, of some kinds, are made useless.
Killed(u, kinds) ==
    [t \in Links |-> IF link[t].state = "live" /\ link[t].user = u /\ link[t].kind \in kinds
                     THEN [link[t] EXCEPT !.state = "dead"] ELSE link[t]]

\* A new link replaces the account's others of its kind.
Issue(t, kind, u, to, from) ==
    /\ link[t].state = "unused"
    /\ \A s \in Links : s < t => link[s].state # "unused"
    /\ link' = [Killed(u, {kind}) EXCEPT ![t] =
                   [state |-> "live", kind |-> kind, user |-> u, to |-> to, from |-> from]]

\* Using a link kills it, and others of its account of the given kinds.
Spend(t, kinds) ==
    link' = [Killed(link[t].user, kinds) EXCEPT ![t] = [link[t] EXCEPT !.state = "spent"]]

\* All open sessions of an account but one end.
EndSessions(u, keep) ==
    session' = [s \in Sessions |-> IF s # keep /\ session[s].user = u
                                   THEN [session[s] EXCEPT !.state = "ended"] ELSE session[s]]

Done(r) == request' = [request EXCEPT ![r] = Idle]
Reads(r, step, u) ==
    /\ request[r].step = "idle"
    /\ Known(u)
    /\ request' = [request EXCEPT ![r] = [Idle EXCEPT !.step = step, !.user = u,
                                                      !.email = account[u].email]]

-------------------------------------------------------------------------------
Register(u, e, p, t) ==
    /\ ~Known(u) /\ ~Taken(e)
    /\ \A v \in Users : v < u => Known(v)
    /\ account' = [account EXCEPT ![u] = [email |-> e, verified |-> FALSE, password |-> p,
                                          profile |-> AnyProfile, version |-> 1]]
    /\ Issue(t, "verify", u, e, NoEmail)
    /\ UNCHANGED <<session, request, guest>>

\* Also the registration of an address that has an account already.
ResendRead(r, u) ==
    /\ ~account[u].verified
    /\ Reads(r, "resend", u)
    /\ UNCHANGED <<account, session, link, guest>>

ForgotRead(r, u) ==
    /\ account[u].verified
    /\ Reads(r, "forgot", u)
    /\ UNCHANGED <<account, session, link, guest>>

\* The mail goes to the address that was read.
SendLink(r, t) ==
    /\ request[r].step \in {"resend", "forgot"}
    /\ Issue(t, IF request[r].step = "resend" THEN "verify" ELSE "reset",
             request[r].user, request[r].email, NoEmail)
    /\ Done(r)
    /\ UNCHANGED <<account, session, guest>>

VerifyEmail(t) ==
    /\ Live(t, "verify")
    /\ Spend(t, {})
    /\ account' = [account EXCEPT ![link[t].user].verified = TRUE]
    /\ UNCHANGED <<session, request, guest>>

\* All sessions end; the version of the account stays.
ResetPassword(t, p) ==
    /\ Live(t, "reset")
    /\ Spend(t, {})
    /\ account' = [account EXCEPT ![link[t].user].password = p]
    /\ EndSessions(link[t].user, NoSession)
    /\ UNCHANGED <<request, guest>>

LinkExpires(t) ==
    /\ link[t].state = "live"
    /\ link' = [link EXCEPT ![t].state = "dead"]
    /\ UNCHANGED <<account, session, request, guest>>

-------------------------------------------------------------------------------
\* The right password was typed for the address.
LoginRead(r, u) ==
    /\ account[u].verified
    /\ Reads(r, "login", u)
    /\ UNCHANGED <<account, session, link, guest>>

LoginOpen(r, s) ==
    /\ request[r].step = "login"
    /\ session[s].state = "unused"
    /\ session' = [session EXCEPT ![s] = [state |-> "open", user |-> request[r].user]]
    /\ request' = [request EXCEPT ![r].step = "link"]
    /\ UNCHANGED <<account, link, guest>>

\* linkGuestOrders reads the account again; when the address is another, it links nothing.
LinkRead(r) ==
    /\ request[r].step = "link"
    /\ LET row == account[request[r].user]
       IN IF row.verified /\ row.email = request[r].email
          THEN request' = [request EXCEPT ![r].step = "linking"]
          ELSE Done(r)
    /\ UNCHANGED <<account, session, link, guest>>

Linked(u, e) ==
    guest' = [o \in GuestOrders |-> IF guest[o].email = e /\ guest[o].customer = NoUser
                                    THEN [guest[o] EXCEPT !.customer = u] ELSE guest[o]]

LinkWrite(r) ==
    /\ request[r].step = "linking"
    /\ Linked(request[r].user, request[r].email)
    /\ Done(r)
    /\ UNCHANGED <<account, session, link>>

PlaceGuestOrder(o, e) ==
    /\ guest[o].email = NoEmail
    /\ guest' = [guest EXCEPT ![o].email = e]
    /\ UNCHANGED <<account, session, link, request>>

\* Logging out, revoking a session, or its expiry.
SessionEnds(s) ==
    /\ session[s].state = "open"
    /\ session' = [session EXCEPT ![s].state = "ended"]
    /\ UNCHANGED <<account, link, request, guest>>

-------------------------------------------------------------------------------
OpenPage(r, s) ==
    /\ request[r].step = "idle" /\ session[s].state = "open"
    /\ LET u == session[s].user
       IN request' = [request EXCEPT ![r] =
                         [Idle EXCEPT !.step = "page", !.user = u, !.session = s,
                                      !.shown = [version |-> account[u].version,
                                                 email   |-> account[u].email,
                                                 profile |-> account[u].profile]]]
    /\ UNCHANGED <<account, session, link, guest>>

\* The page is left, the request fails or its process dies.
GiveUp(r) ==
    /\ request[r].step # "idle"
    /\ Done(r)
    /\ UNCHANGED <<account, session, link, guest>>

\* The guard lets the request in; the session may end before its transaction.
Enter(r) ==
    /\ request[r].step = "page" /\ session[request[r].session].state = "open"
    /\ request' = [request EXCEPT ![r].step = "in"]
    /\ UNCHANGED <<account, session, link, guest>>

\* The account is still of the version that the page showed.
Slip_AnyAccount(r) == TRUE
Expected(r) == account[request[r].user].version = request[r].shown.version

\* What an edit leaves of an account: its version moves.
Slip_KeepVersion(row) == row
Bumped(row) == [row EXCEPT !.version = @ + 1]

MayBump(u) == account[u].version < MaxVersion

UpdateProfile(r, p) ==
    LET u == request[r].user
    IN /\ request[r].step = "in" /\ Expected(r) /\ MayBump(u)
       /\ account' = [account EXCEPT ![u] = Bumped([account[u] EXCEPT !.profile = p])]
       /\ Done(r)
       /\ UNCHANGED <<session, link, guest>>

RevokeOthers(r) ==
    /\ request[r].step = "in"
    /\ EndSessions(request[r].user, request[r].session)
    /\ Done(r)
    /\ UNCHANGED <<account, link, guest>>

LogoutAll(r) ==
    /\ request[r].step = "in"
    /\ EndSessions(request[r].user, NoSession)
    /\ Done(r)
    /\ UNCHANGED <<account, link, guest>>

\* The address of the account moves at once, its proof would come later.
Slip_MoveAtOnce(u, e) == [account EXCEPT ![u].email = e]
AddressStays(u, e) == account

RequestEmailChange(r, e, t) ==
    LET u == request[r].user
    IN /\ request[r].step = "in" /\ Expected(r) /\ ~Taken(e)
       /\ Issue(t, "change", u, e, account[u].email)
       /\ account' = AddressStays(u, e)
       /\ Done(r)
       /\ UNCHANGED <<session, guest>>

ConfirmEmailChange(r, t) ==
    LET u == request[r].user
    IN /\ request[r].step = "in" /\ Live(t, "change")
       /\ link[t].user = u /\ link[t].from = account[u].email /\ ~Taken(link[t].to)
       /\ MayBump(u)
       /\ account' = [account EXCEPT ![u] = Bumped([account[u] EXCEPT !.email = link[t].to,
                                                                      !.verified = TRUE])]
       /\ Spend(t, Kinds)
       /\ EndSessions(u, request[r].session)
       /\ Linked(u, link[t].to)
       /\ Done(r)

\* The current password was typed correctly; hashing the new one takes its time.
ChangePasswordRead(r) ==
    LET u == request[r].user
    IN /\ request[r].step = "in" /\ Expected(r)
       /\ request' = [request EXCEPT ![r] = [request[r] EXCEPT !.step = "hashed",
                                                               !.password = account[u].password]]
       /\ UNCHANGED <<account, session, link, guest>>

\* Nobody has replaced the password since it was checked.
Slip_VersionIsEnough(r) == TRUE
SamePassword(r) == account[request[r].user].password = request[r].password

ChangePasswordWrite(r, p) ==
    LET u == request[r].user
    IN /\ request[r].step = "hashed" /\ Expected(r) /\ SamePassword(r) /\ MayBump(u)
       /\ account' = [account EXCEPT ![u] = Bumped([account[u] EXCEPT !.password = p])]
       /\ link' = Killed(u, {"reset"})
       /\ EndSessions(u, request[r].session)
       /\ Done(r)
       /\ UNCHANGED guest

-------------------------------------------------------------------------------
\* Steps of people without a session.
ByMail ==
    \/ \E u \in Users, e \in Emails, p \in Passwords, t \in Links : Register(u, e, p, t)
    \/ \E r \in Requests, u \in Users : ResendRead(r, u) \/ ForgotRead(r, u)
    \/ \E r \in Requests, t \in Links : SendLink(r, t)
    \/ \E t \in Links : VerifyEmail(t) \/ LinkExpires(t)
    \/ \E t \in Links, p \in Passwords : ResetPassword(t, p)
    \/ \E o \in GuestOrders, e \in Emails : PlaceGuestOrder(o, e)

\* Logins and their orders.
ByPassword ==
    \/ \E r \in Requests, u \in Users : LoginRead(r, u)
    \/ \E r \in Requests, s \in Sessions : LoginOpen(r, s)
    \/ \E r \in Requests : LinkRead(r) \/ LinkWrite(r)
    \/ \E s \in Sessions : SessionEnds(s)

\* Steps of the account page.
ByPage ==
    \/ \E r \in Requests, s \in Sessions : OpenPage(r, s)
    \/ \E r \in Requests : GiveUp(r) \/ Enter(r) \/ RevokeOthers(r) \/ LogoutAll(r)
                             \/ ChangePasswordRead(r)
    \/ \E r \in Requests, p \in Profiles : UpdateProfile(r, p)
    \/ \E r \in Requests, e \in Emails, t \in Links : RequestEmailChange(r, e, t)
    \/ \E r \in Requests, t \in Links : ConfirmEmailChange(r, t)
    \/ \E r \in Requests, p \in Passwords : ChangePasswordWrite(r, p)

AccountsNext == ByMail \/ ByPassword \/ ByPage

AccountsSpec == AccountsInit /\ [][AccountsNext]_accountVars
==============================================================================
