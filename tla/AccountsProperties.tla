-------------------------- MODULE AccountsProperties --------------------------
(***************************************************************************)
(* What accounts promise to the owners of addresses and to customers.      *)
(***************************************************************************)
EXTENDS Accounts

\* The addresses of which an account has used a link sent there.
Proved(u) == {link[t].to : t \in {x \in Links : /\ link[x].state = "spent"
                                                /\ link[x].kind \in {"verify", "change"}
                                                /\ link[x].user = u}}

\* An account counts as verified under an address, and owns the guest orders
\* placed with it, only after a link sent to that address was used: whatever
\* becomes of the address between a login and the linking of orders, or while
\* links are on their way.
OwnersProvedTheirAddress ==
    /\ \A u \in Users : account[u].verified => account[u].email \in Proved(u)
    /\ \A o \in GuestOrders : guest[o].customer # NoUser
                                 => guest[o].email \in Proved(guest[o].customer)

\* A change of password replaces the very password that was typed with it, even
\* when a reset, which leaves the version alone, or another change came between
\* the check and the write.
PasswordReplacedKnowingly ==
    [][\A r \in Requests, u \in Users :
          (/\ request[r].step = "hashed" /\ request[r].user = u
           /\ request'[r].step = "idle" /\ account'[u] # account[u])
          => account[u].password = request[r].password]_accountVars

\* An edit of the profile or the password takes effect only on an account that
\* still has the profile and the address that the page showed: the requests of
\* several tabs and devices do not undo each other.
EditsAreInformed ==
    [][\A r \in Requests, u \in Users :
          (/\ request[r].step \in {"in", "hashed"} /\ request[r].user = u
           /\ request'[r].step = "idle"
           /\ account'[u] # account[u] /\ account'[u].email = account[u].email)
          => /\ account[u].profile = request[r].shown.profile
             /\ account[u].email = request[r].shown.email]_accountVars
==============================================================================
