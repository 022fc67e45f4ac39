---------------------------- MODULE RefreshTokens ----------------------------
(***************************************************************************)
(* The refresh tokens of one user: the rows, the browsers' cookies, and    *)
(* the requests of their tabs.                                             *)
(*                                                                         *)
(* A rotation reads the presented row, and only then opens the transaction *)
(* that revokes it and issues its successor.  A token is its number in the *)
(* order of issue; a family is named by its first token.                   *)
(***************************************************************************)
EXTENDS Naturals, FiniteSets

CONSTANTS
    Tabs, Browsers, BrowserOf,  \* each tab is in a browser, with one cookie
    Requests,                   \* slots for requests in flight
    Nobody,                     \* the page that asked has been reloaded
    MaxTokens,                  \* bound on tokens issued
    MaxMishaps                  \* bound on abandoned, lost, failed requests

ASSUME RefreshTokensAssumption ==
    /\ BrowserOf \in [Tabs -> Browsers]
    /\ Nobody \notin Tabs
    /\ MaxTokens \in Nat /\ MaxMishaps \in Nat

Tokens == 1 .. MaxTokens
None == 0

VARIABLES
    issued,                     \* how many tokens have been issued
    family,                     \* the family of each
    revoked,                    \* those with revokedAt
    lapsed,                     \* up to here they are past expiresAt
    cookie,                     \* the refresh cookie of each browser
    status,                     \* useAuthStore.status of each tab
    req,                        \* the requests in flight
    mishaps,
    ended, alarmed              \* families logged out, families replayed

rows == <<issued, family, revoked, lapsed>>
vars == <<rows, cookie, status, req, mishaps, ended, alarmed>>

Request(t, kind, k) ==
    [pc |-> "sent", kind |-> kind, tab |-> t, presented |-> k, got |-> None]

Free == [pc |-> "free", kind |-> "refresh", tab |-> Nobody,
         presented |-> None, got |-> None]

Init ==
    /\ issued = 0
    /\ family = [k \in Tokens |-> None]
    /\ revoked = {} /\ lapsed = 0
    /\ cookie = [b \in Browsers |-> None]
    /\ status = [t \in Tabs |-> "anonymous"]
    /\ req = [r \in Requests |-> Free]
    /\ mishaps = 0
    /\ ended = {} /\ alarmed = {}

InFlight(t, kind) ==
    {r \in Requests : req[r].pc # "free" /\ req[r].tab = t /\ req[r].kind = kind}

Mishap == mishaps < MaxMishaps /\ mishaps' = mishaps + 1

(* Mutant: a row is filed under the family of the row to come.             *)
IssueAhead(f) ==
    /\ issued < MaxTokens
    /\ issued' = issued + 1
    /\ family' = [family EXCEPT ![issued + 1] = issued + 2]

(* issueRefreshToken: the next row, unrevoked, in family f.                *)
Issue(f) ==
    /\ issued < MaxTokens
    /\ issued' = issued + 1
    /\ family' = [family EXCEPT ![issued + 1] = f]

Move(r, pc) == req' = [req EXCEPT ![r].pc = pc]

-----------------------------------------------------------------------------
(* What tabs do.                                                           *)

(* Mutant: each caller starts a refresh of its own.                        *)
AskRefreshUnshared(r, t) ==
    /\ status[t] = "authenticated"
    /\ req[r].pc = "free"
    /\ req' = [req EXCEPT ![r] = Request(t, "refresh", cookie[BrowserOf[t]])]
    /\ UNCHANGED <<rows, cookie, status, mishaps, ended, alarmed>>

(* auth.refresh() from a 401 or the socket: one at a time in a tab.        *)
AskRefresh(r, t) ==
    /\ status[t] = "authenticated"
    /\ InFlight(t, "refresh") = {}
    /\ req[r].pc = "free"
    /\ req' = [req EXCEPT ![r] = Request(t, "refresh", cookie[BrowserOf[t]])]
    /\ UNCHANGED <<rows, cookie, status, mishaps, ended, alarmed>>

(* A page is loaded, or loaded again, and refreshes.  Requests of the page *)
(* it replaces go on without anybody to hear of them.                      *)
Boot(r, t) ==
    /\ req[r].pc = "free"
    /\ status' = [status EXCEPT ![t] = "loading"]
    /\ req' = [q \in Requests |->
                 IF q = r THEN Request(t, "refresh", cookie[BrowserOf[t]])
                 ELSE IF req[q].tab = t THEN [req[q] EXCEPT !.tab = Nobody]
                 ELSE req[q]]
    /\ IF \E q \in Requests : req[q].tab = t THEN Mishap ELSE UNCHANGED mishaps
    /\ UNCHANGED <<rows, cookie, ended, alarmed>>

(* login and register: a family of its own.                                *)
Login(t) ==
    /\ status[t] = "anonymous"
    /\ Issue(issued + 1)
    /\ cookie' = [cookie EXCEPT ![BrowserOf[t]] = issued']
    /\ status' = [status EXCEPT ![t] = "authenticated"]
    /\ UNCHANGED <<revoked, lapsed, req, mishaps, ended, alarmed>>

AskLogout(r, t) ==
    /\ status[t] = "authenticated"
    /\ InFlight(t, "logout") = {}
    /\ req[r].pc = "free"
    /\ req' = [req EXCEPT ![r] = Request(t, "logout", cookie[BrowserOf[t]])]
    /\ UNCHANGED <<rows, cookie, status, mishaps, ended, alarmed>>

-----------------------------------------------------------------------------
(* What the server does.                                                   *)

(* rotateRefreshToken reads the row, outside any transaction.              *)
ReadRow(r) ==
    /\ req[r].pc = "sent" /\ req[r].kind = "refresh"
    /\ LET k == req[r].presented
       IN \/ k = None /\ Move(r, "refused")
          \/ k \in revoked /\ Move(r, "replayed")
          \/ k # None /\ k \notin revoked /\ k <= lapsed /\ Move(r, "refused")
          \/ k # None /\ k \notin revoked /\ k > lapsed /\ Move(r, "live")
    /\ UNCHANGED <<rows, cookie, status, mishaps, ended, alarmed>>

(* Mutant: the family is left out of the condition.                        *)
RevokeEverything(r) ==
    /\ req[r].pc = "replayed"
    /\ revoked' = 1 .. issued
    /\ alarmed' = alarmed \union {family[req[r].presented]}
    /\ Move(r, "refused")
    /\ UNCHANGED <<issued, family, lapsed, cookie, status, mishaps, ended>>

(* The row was revoked: so is what the family has by now.                  *)
RevokeFamily(r) ==
    /\ req[r].pc = "replayed"
    /\ LET f == family[req[r].presented]
       IN /\ revoked' = revoked \union {k \in 1 .. issued : family[k] = f}
          /\ alarmed' = alarmed \union {f}
    /\ Move(r, "refused")
    /\ UNCHANGED <<issued, family, lapsed, cookie, status, mishaps, ended>>

(* Mutant: the revocation is committed, and its successor may never be.    *)
RotateInTwoSteps(r) ==
    /\ req[r].pc = "live"
    /\ revoked' = revoked \union {req[r].presented}
    /\ \/ /\ Issue(family[req[r].presented])
          /\ req' = [req EXCEPT ![r].pc = "ok", ![r].got = issued']
       \/ Move(r, "failed") /\ UNCHANGED <<issued, family>>
    /\ UNCHANGED <<lapsed, cookie, status, mishaps, ended, alarmed>>

(* The transaction: revoked and replaced, whatever happened since the read.*)
Rotate(r) ==
    /\ req[r].pc = "live"
    /\ revoked' = revoked \union {req[r].presented}
    /\ Issue(family[req[r].presented])
    /\ req' = [req EXCEPT ![r].pc = "ok", ![r].got = issued']
    /\ UNCHANGED <<lapsed, cookie, status, mishaps, ended, alarmed>>

(* revokeRefreshToken.                                                     *)
Revoke(r) ==
    /\ req[r].pc = "sent" /\ req[r].kind = "logout"
    /\ LET k == req[r].presented
       IN IF k = None THEN UNCHANGED <<revoked, ended>>
          ELSE /\ revoked' = revoked \union {k}
               /\ ended' = ended \union {family[k]}
    /\ Move(r, "ok")
    /\ UNCHANGED <<issued, family, lapsed, cookie, status, mishaps, alarmed>>

(* The database or the process fails before the next statement commits, or *)
(* after the last one did; with no tokens left in the model, a rotation    *)
(* always does.                                                            *)
RequestFails(r) ==
    /\ IF issued = MaxTokens /\ req[r].pc = "live" THEN UNCHANGED mishaps
       ELSE Mishap
    /\ req[r].pc \in {"sent", "live", "replayed", "ok"}
    /\ Move(r, "failed")
    /\ UNCHANGED <<rows, cookie, status, ended, alarmed>>

Lapse ==
    /\ lapsed < issued
    /\ lapsed' = lapsed + 1
    /\ UNCHANGED <<issued, family, revoked, cookie, status, req, mishaps, ended,
                   alarmed>>

-----------------------------------------------------------------------------
(* What comes back.                                                        *)
Answered(r) == req[r].pc \in {"ok", "refused", "failed"}

(* The cookie is set, cleared or left, and the tab goes on.                *)
Return(r) ==
    /\ Answered(r) /\ req[r].tab # Nobody
    /\ LET t == req[r].tab
           signedIn == req[r].kind = "refresh" /\ req[r].pc = "ok"
       IN /\ cookie' = IF req[r].pc = "failed" THEN cookie
                       ELSE [cookie EXCEPT ![BrowserOf[t]] = req[r].got]
          /\ status' = [status EXCEPT ![t] =
                          IF signedIn THEN "authenticated" ELSE "anonymous"]
    /\ req' = [req EXCEPT ![r] = Free]
    /\ UNCHANGED <<rows, mishaps, ended, alarmed>>

(* The response is lost: a session that asked to refresh just goes on.     *)
Lose(r) ==
    /\ Mishap
    /\ Answered(r) /\ req[r].tab # Nobody
    /\ status' = [status EXCEPT ![req[r].tab] =
                    IF req[r].kind = "refresh" /\ @ # "loading"
                    THEN @ ELSE "anonymous"]
    /\ req' = [req EXCEPT ![r] = Free]
    /\ UNCHANGED <<rows, cookie, ended, alarmed>>

Discard(r) ==
    /\ Answered(r) /\ req[r].tab = Nobody
    /\ req' = [req EXCEPT ![r] = Free]
    /\ UNCHANGED <<rows, cookie, status, mishaps, ended, alarmed>>

-----------------------------------------------------------------------------
Next ==
    \/ \E t \in Tabs : \/ Login(t)
                       \/ \E r \in Requests : \/ AskRefresh(r, t) \/ Boot(r, t)
                                              \/ AskLogout(r, t)
    \/ \E r \in Requests :
          \/ ReadRow(r) \/ RevokeFamily(r) \/ Rotate(r) \/ Revoke(r)
          \/ RequestFails(r)
          \/ Return(r) \/ Lose(r) \/ Discard(r)
    \/ Lapse

Spec == Init /\ [][Next]_vars

-----------------------------------------------------------------------------
TypeOK ==
    /\ issued \in 0 .. MaxTokens
    /\ family \in [Tokens -> 0 .. MaxTokens]
    /\ \A k \in Tokens :
          family[k] \in (IF k <= issued THEN 1 .. k ELSE {None})
    /\ revoked \subseteq 1 .. issued
    /\ lapsed \in 0 .. issued
    /\ cookie \in [Browsers -> 0 .. issued]
    /\ status \in [Tabs -> {"loading", "authenticated", "anonymous"}]
    /\ req \in [Requests ->
          [pc : {"free", "sent", "live", "replayed", "ok", "refused", "failed"},
           kind : {"refresh", "logout"}, tab : Tabs \union {Nobody},
           presented : 0 .. issued, got : 0 .. issued]]
    /\ mishaps \in 0 .. MaxMishaps
    /\ ended \subseteq Tokens /\ alarmed \subseteq Tokens

(* No rotation leaves a session without a token: a family that nobody      *)
(* logged out of and nobody replayed has one that is not revoked, whatever *)
(* failed, was lost or was abandoned half way.                             *)
FamilyKeepsToken ==
    \A f \in 1 .. issued :
        family[f] = f /\ f \notin ended \union alarmed
            => \E k \in 1 .. issued : family[k] = f /\ k \notin revoked

(* Other devices are left alone: a token is revoked only for a request     *)
(* that presented one of its family.                                       *)
OnlyOwnFamily ==
    [][\A k \in revoked' \ revoked :
          \E r \in Requests : /\ req[r].pc \in {"sent", "live", "replayed"}
                              /\ req[r].presented # None
                              /\ family[req[r].presented] = family[k]]_vars

(* The tabs that have their browser, and so its cookie, to themselves.     *)
Lone == {t \in Tabs : \A u \in Tabs : BrowserOf[u] = BrowserOf[t] => u = t}

(* A replay is never the doing of a tab that has its browser to itself,    *)
(* whatever the tabs of other browsers do: where nothing is lost, such a   *)
(* tab presents a spent token only of a family that was logged out of.  It *)
(* is what sharing the refresh within a tab is for (api.js:11-18).         *)
NoFalseAlarm ==
    mishaps = 0 =>
        \A r \in Requests :
            req[r].pc = "replayed" /\ req[r].tab \in Lone
                => family[req[r].presented] \in ended

(* Nothing of family f is left to refresh with, and no rotation of it has  *)
(* read its row already.                                                   *)
Spent(f) ==
    /\ f \in 1 .. issued
    /\ \A k \in 1 .. issued : family[k] = f => k \in revoked
    /\ \A r \in Requests : req[r].pc = "live" => family[req[r].presented] # f

(* A family that is spent stays so: no order of requests, retries, late    *)
(* answers or logins brings a token of it back.                            *)
SpentForGood == [][\A f \in Tokens : Spent(f) => Spent(f)']_vars

-----------------------------------------------------------------------------
(* Statements of the repository the runs refute.                           *)

(* "Without this, ... the second one would present a token the first had   *)
(* already burned, tripping reuse detection and logging the user out for   *)
(* doing nothing wrong" (api.js): with it, nothing of the user's own does, *)
(* other tabs of the browser included.                                     *)
SharingSuffices ==
    mishaps = 0 =>
        \A r \in Requests :
            req[r].pc = "replayed" => family[req[r].presented] \in ended

(* "presenting an already-revoked token revokes the entire family"         *)
(* (schema.prisma).                                                        *)
ReplayEndsFamily ==
    \A k \in 1 .. issued : family[k] \in alarmed => k \in revoked

(* Where it is true: of a replay while no rotation of the family has read  *)
(* its row.  The family is spent, and so for good.                         *)
ReplaySpends ==
    [][\A r \in Requests :
          LET f == family[req[r].presented]
          IN  RevokeFamily(r) /\ (\A q \in Requests :
                  req[q].pc = "live" => family[req[q].presented] # f)
              => Spent(f)']_vars

(* "Revokes a single token (logout on this device)" (token.service.js): a  *)
(* logout that was carried out leaves the device nothing to refresh with.  *)
LogoutEndsFamily ==
    \A k \in 1 .. issued : family[k] \in ended => k \in revoked
=============================================================================
