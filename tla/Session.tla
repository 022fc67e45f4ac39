------------------------------- MODULE Session -------------------------------
(***************************************************************************)
(* One browser tab: its access token, its refreshes and its socket.        *)
(*                                                                         *)
(* A change of the session's status mounts or unmounts the chat page in    *)
(* the same turn, and with it opens or closes the socket.  The socket.io   *)
(* client tries again by itself after it lost its transport or could not   *)
(* reach the server, and never after the server ended the connection or    *)
(* refused the handshake.                                                  *)
(***************************************************************************)
EXTENDS Naturals

VARIABLES
    status,                     \* useAuthStore.status
    token,                      \* useAuthStore.accessToken
    cookie,                     \* the refresh cookie is one the server takes
    refresh,                    \* where refreshInFlight has got
    waiters,                    \* who awaits it
    sock,                       \* the socket, as its manager sees it
    held                        \* the token the socket presented, while the
                                \* server has it

vars == <<status, token, cookie, refresh, waiters, sock, held>>

Init ==
    /\ status = "loading" /\ token = "none"
    /\ cookie \in BOOLEAN
    /\ refresh = "sent" /\ waiters = {"boot"}
    /\ sock = "absent" /\ held = "none"

(* auth.refresh(): one request, whoever asks.                              *)
AskRefresh(who) ==
    /\ waiters' = waiters \union {who}
    /\ refresh' = IF refresh = "none" THEN "sent" ELSE refresh

(* setSession: a fresh token, and the chat page if it was not there.       *)
SetSession ==
    /\ status' = "authenticated" /\ token' = "fresh"
    /\ sock' = IF status = "authenticated" THEN sock ELSE "opening"
    /\ held' = IF held = "current" THEN "older" ELSE held

(* Mutant: leaving the chat page leaves its socket.                        *)
ClearKeepingSocket ==
    /\ status' = "anonymous" /\ token' = "none"
    /\ UNCHANGED <<sock, held>>

(* clear, setAnonymous: the chat page closes its socket as it goes.        *)
Clear ==
    /\ status' = "anonymous" /\ token' = "none"
    /\ sock' = "absent" /\ held' = "none"

-----------------------------------------------------------------------------
(* The server answers; any error but a dead cookie does as well as one.    *)
RefreshServed ==
    /\ refresh = "sent"
    /\ refresh' \in {"refused"} \union {r \in {"ok"} : cookie}
    /\ UNCHANGED <<status, token, cookie, waiters, sock, held>>

(* No response arrives.  The one that is lost may hold the new cookie: the *)
(* old one is burned.                                                      *)
RefreshLost ==
    /\ refresh \in {"sent", "ok", "refused"}
    /\ refresh' = "lost"
    /\ cookie' = (cookie /\ refresh # "ok")
    /\ UNCHANGED <<status, token, waiters, sock, held>>

(* Mutant: the boot does not catch what its refresh throws.                *)
RefreshReturnsUncaught ==
    /\ refresh \in {"ok", "refused", "lost"}
    /\ CASE refresh = "ok" -> SetSession
         [] refresh = "refused" -> Clear
         [] OTHER -> UNCHANGED <<status, token, sock, held>>
    /\ refresh' = "none" /\ waiters' = {}
    /\ UNCHANGED cookie

(* Mutant: what is in flight is cleared, and those who wait are not let go. *)
RefreshReturnsUnheard ==
    /\ \/ refresh = "ok" /\ SetSession
       \/ refresh \in {"refused", "lost"} /\ Clear
    /\ refresh' = "none"
    /\ UNCHANGED <<cookie, waiters>>

(* Those who waited go on: a refusal clears the session, whoever asked;    *)
(* after a network error only the boot does.                               *)
RefreshReturns ==
    /\ \/ refresh = "ok" /\ SetSession
       \/ refresh = "refused" /\ Clear
       \/ refresh = "lost" /\ "boot" \in waiters /\ Clear
       \/ /\ refresh = "lost" /\ "boot" \notin waiters
          /\ UNCHANGED <<status, token, sock, held>>
    /\ refresh' = "none" /\ waiters' = {}
    /\ UNCHANGED cookie

(* A request with a token that has expired is answered 401.                *)
ApiUnauthorized ==
    /\ status = "authenticated" /\ token = "expired"
    /\ AskRefresh("api")
    /\ UNCHANGED <<status, token, cookie, sock, held>>

Login ==
    /\ status = "anonymous"
    /\ SetSession
    /\ cookie' = TRUE
    /\ UNCHANGED <<refresh, waiters>>

(* auth.logout() is awaited before the session is cleared, and cleared it  *)
(* is whether or not the server heard of it.  A cookie that dies before    *)
(* the answer is CookieDies, which everything else may come between.       *)
Logout ==
    /\ status = "authenticated"
    /\ Clear
    /\ cookie' \in {FALSE, cookie}
    /\ UNCHANGED <<refresh, waiters>>

Reload ==
    /\ status' = "loading" /\ token' = "none"
    /\ refresh' = "sent" /\ waiters' = {"boot"}
    /\ sock' = "absent" /\ held' = "none"
    /\ cookie' = (cookie /\ refresh # "ok")

(* The refresh token expires, or is revoked from elsewhere.                *)
CookieDies ==
    /\ cookie
    /\ cookie' = FALSE
    /\ UNCHANGED <<status, token, refresh, waiters, sock, held>>

(* Fifteen minutes: the tab's token expires, after any the socket holds.   *)
TokenExpires ==
    /\ token = "fresh"
    /\ token' = "expired"
    /\ held' = IF held = "none" THEN "none" ELSE "expired"
    /\ UNCHANGED <<status, cookie, refresh, waiters, sock>>

OlderTokenExpires ==
    /\ held = "older"
    /\ held' = "expired"
    /\ UNCHANGED <<status, token, cookie, refresh, waiters, sock>>

-----------------------------------------------------------------------------
(* Mutant: the token is captured when the socket is made, and may have     *)
(* expired since.                                                          *)
PresentCaptured ==
    /\ sock = "opening"
    /\ sock' = "presented"
    /\ held' \in {"expired"} \union {c \in {"current"} : token = "fresh"}
    /\ UNCHANGED <<status, token, cookie, refresh, waiters>>

(* The transport is open: the auth callback supplies the token of the      *)
(* moment.                                                                 *)
Present ==
    /\ sock = "opening"
    /\ sock' = "presented"
    /\ held' = IF token = "fresh" THEN "current" ELSE "expired"
    /\ UNCHANGED <<status, token, cookie, refresh, waiters>>

(* authSocket, and its answer heard: it goes by what was presented,        *)
(* whatever the tab has got since.  A token that expires on the way back   *)
(* does so as if its acceptance had been heard before.                     *)
HandshakeAccepted ==
    /\ sock = "presented" /\ held # "expired"
    /\ sock' = "connected"
    /\ UNCHANGED <<status, token, cookie, refresh, waiters, held>>

HandshakeRefused ==
    /\ sock = "presented" /\ held = "expired"
    /\ sock' = "refused" /\ held' = "none"
    /\ AskRefresh("socket")
    /\ UNCHANGED <<status, token, cookie>>

(* The server cannot be reached, or is lost again before it has answered;  *)
(* the manager backs off.                                                  *)
Unreachable ==
    /\ sock \in {"opening", "presented"}
    /\ sock' = "backoff" /\ held' = "none"
    /\ UNCHANGED <<status, token, cookie, refresh, waiters>>

Reattempt ==
    /\ sock = "backoff"
    /\ sock' = "opening"
    /\ UNCHANGED <<status, token, cookie, refresh, waiters, held>>

LoseTransport ==
    /\ sock = "connected"
    /\ sock' = "backoff" /\ held' = "none"
    /\ UNCHANGED <<status, token, cookie, refresh, waiters>>

(* The setup of the connection throws; the server disconnects.             *)
SetupFails ==
    /\ sock = "connected"
    /\ sock' = "ended" /\ held' = "none"
    /\ UNCHANGED <<status, token, cookie, refresh, waiters>>

(* Mutant: the sweep warns and leaves the socket.                          *)
SweepWarns ==
    /\ sock = "connected" /\ held = "expired"
    /\ AskRefresh("socket")
    /\ UNCHANGED <<status, token, cookie, sock, held>>

(* auth:expired, then the server disconnects.                              *)
Sweep ==
    /\ sock = "connected" /\ held = "expired"
    /\ sock' = "swept" /\ held' = "none"
    /\ AskRefresh("socket")
    /\ UNCHANGED <<status, token, cookie>>

-----------------------------------------------------------------------------
Handshake == HandshakeAccepted \/ HandshakeRefused

Next ==
    \/ RefreshServed \/ RefreshLost \/ RefreshReturns \/ ApiUnauthorized
    \/ Login \/ Logout \/ Reload \/ CookieDies
    \/ TokenExpires \/ OlderTokenExpires
    \/ Present \/ Handshake \/ Unreachable \/ Reattempt \/ LoseTransport
    \/ SetupFails \/ Sweep

Spec == Init /\ [][Next]_vars

(* Requests are answered or fail, the manager's timer and the sweep run,   *)
(* and a server that is tried for ever is reached.  Users, expiry and      *)
(* faults are not fair.                                                    *)
Fairness ==
    /\ WF_vars(RefreshServed \/ RefreshLost) /\ WF_vars(RefreshReturns)
    /\ WF_vars(Reattempt) /\ SF_vars(Present) /\ SF_vars(Handshake)
    /\ WF_vars(Sweep)

FairSpec == Spec /\ Fairness

-----------------------------------------------------------------------------
TypeOK ==
    /\ status \in {"loading", "authenticated", "anonymous"}
    /\ token \in {"none", "fresh", "expired"}
    /\ cookie \in BOOLEAN
    /\ refresh \in {"none", "sent", "ok", "refused", "lost"}
    /\ waiters \subseteq {"boot", "socket", "api"}
    /\ refresh = "none" <=> waiters = {}
    /\ sock \in {"absent", "opening", "presented", "connected", "backoff",
                 "refused", "swept", "ended"}
    /\ held \in {"none", "current", "older", "expired"}
    /\ held # "none" <=> sock \in {"presented", "connected"}

(* A socket lives in a session only: whichever way the session ended, and  *)
(* with a refresh under way or not, its socket is closed, and the token it *)
(* came with is never younger than the tab's.                              *)
SocketInSession ==
    /\ sock # "absent" => status = "authenticated"
    /\ status = "authenticated" <=> token # "none"
    /\ held = "current" => token = "fresh"

(* A page that is loading waits for its refresh, and so ends loading when  *)
(* that ends in whatever way: no reload, loss or refusal strands the boot. *)
BootAwaits == status = "loading" => "boot" \in waiters /\ refresh # "none"

(* A connection does not outlive its token: the sweep ends it, and a       *)
(* handshake that is under way is refused.                                 *)
ExpiredIsSwept == held = "expired" ~> held # "expired"

(* A tab with a good token that lost its transport is connected again: it  *)
(* presents the token of the moment.  Unless a refresh that was in flight  *)
(* overtakes the handshake, and makes what it presented the older of two.  *)
TransportLossHeals ==
    sock = "backoff" /\ token = "fresh"
        ~> sock = "connected" \/ token # "fresh" \/ held = "older"

(* What that rests on: while the tab's token is good, a socket that is     *)
(* trying goes on trying, whatever refreshes return meanwhile, unless the  *)
(* token it has presented is one that has expired.                         *)
Trying == {"opening", "presented", "backoff"}

StillTrying ==
    [][token = "fresh" /\ token' = "fresh" /\ held # "expired" /\ sock \in Trying
           => sock' \in Trying \union {"connected"}]_vars

(* And what ExpiredIsSwept does: the token that a handshake presented is   *)
(* not renewed while it, or the connection it makes, lasts.                *)
HeldOnlyAges ==
    [][held' # held /\ held' \in {"current", "older"}
           => held = IF held' = "current" THEN "none" ELSE "current"]_vars

-----------------------------------------------------------------------------
(* Statements of the repository the runs refute.                           *)

(* "Clients are warned via auth:expired first so they can refresh and      *)
(* reconnect cleanly" (authSocket.js): once it has refreshed, it does.     *)
SweptReconnects ==
    sock = "swept" /\ token = "fresh" ~> sock # "swept" \/ token # "fresh"

(* "refresh, and the auth callback above will supply the new one on the    *)
(* next attempt" (socket.js).                                              *)
RefusedTriesAgain ==
    sock = "refused" /\ token = "fresh" ~> sock # "refused" \/ token # "fresh"

(* "a token expiring mid-session is invisible to the user rather than an   *)
(* error they see" (api.js): a refresh ends no session that can go on.     *)
ExpiryIsInvisible ==
    [][RefreshReturns /\ status = "authenticated" /\ cookie
           => status' = "authenticated"]_vars
=============================================================================
