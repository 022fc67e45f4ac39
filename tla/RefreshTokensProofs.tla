------------------------- MODULE RefreshTokensProofs -------------------------
(* Theorems about RefreshTokens, for every number of tabs, browsers,       *)
(* requests, tokens and mishaps.                                           *)
EXTENDS RefreshTokens, TLAPS

(* Rotations and revocations are under way for a token that exists.        *)
PresentedExists ==
    \A r \in Requests :
        req[r].pc \in {"live", "replayed"} => req[r].presented # None

TokensInv == TypeOK /\ PresentedExists /\ FamilyKeepsToken

RequestStates ==
    [pc : {"free", "sent", "live", "replayed", "ok", "refused", "failed"},
     kind : {"refresh", "logout"}, tab : Tabs \union {Nobody},
     presented : 0 .. issued, got : 0 .. issued]

LEMMA InitInv == Init => TokensInv
BY RefreshTokensAssumption
   DEF Init, TokensInv, TypeOK, PresentedExists, FamilyKeepsToken, Free,
       Tokens, None

(* A row is issued in its family, unrevoked, and the others stay.          *)
LEMMA IssueFacts ==
    ASSUME TypeOK, NEW f \in 1 .. issued + 1, Issue(f)
    PROVE  /\ issued' = issued + 1 /\ issued' \in 0 .. MaxTokens
           /\ family' \in [Tokens -> 0 .. MaxTokens]
           /\ \A k \in Tokens :
                 family'[k] \in (IF k <= issued' THEN 1 .. k ELSE {None})
           /\ family'[issued + 1] = f
           /\ \A k \in 1 .. issued : family'[k] = family[k]
BY RefreshTokensAssumption DEF TypeOK, Issue, Tokens, None

(* Types: one step per action.                                             *)
LEMMA TypeStep ==
    ASSUME TypeOK, PresentedExists, [Next]_vars
    PROVE  TypeOK' /\ PresentedExists'
<1> USE RefreshTokensAssumption
<1> USE DEF TypeOK, PresentedExists, rows
<1>0. \A r \in Requests : req[r] \in RequestStates
  BY DEF RequestStates
<1>1. ASSUME NEW t \in Tabs, Login(t) PROVE TypeOK' /\ PresentedExists'
  <2>1. issued + 1 \in 1 .. issued + 1
    OBVIOUS
  <2> QED
    BY <1>1, <2>1, IssueFacts DEF Login
<1>2. ASSUME NEW t \in Tabs, NEW r \in Requests,
             AskRefresh(r, t) \/ AskLogout(r, t)
      PROVE  TypeOK' /\ PresentedExists'
  <2>1. cookie[BrowserOf[t]] \in 0 .. issued
    OBVIOUS
  <2>2. \A kind \in {"refresh", "logout"} :
           Request(t, kind, cookie[BrowserOf[t]]) \in RequestStates
    BY <2>1 DEF Request, RequestStates, None
  <2>3. /\ req' = [req EXCEPT ![r] = req'[r]] /\ req'[r] \in RequestStates
        /\ req'[r].pc = "sent"
    BY <1>2, <2>2 DEF AskRefresh, AskLogout, Request
  <2>4. req \in [Requests -> RequestStates]
    BY DEF RequestStates
  <2>5. req' \in [Requests -> RequestStates]
    BY <2>3, <2>4
  <2>6. PresentedExists'
    BY <2>3, <2>4 DEF RequestStates
  <2> QED
    BY <1>2, <2>5, <2>6 DEF AskRefresh, AskLogout, RequestStates
<1>3. ASSUME NEW t \in Tabs, NEW r \in Requests, Boot(r, t)
      PROVE  TypeOK' /\ PresentedExists'
  <2>1. mishaps' \in 0 .. MaxMishaps
    BY <1>3 DEF Boot, Mishap
  <2> QED
    BY <1>3, <2>1 DEF Boot, Request, None
<1>4. ASSUME NEW r \in Requests, ReadRow(r) PROVE TypeOK' /\ PresentedExists'
  BY <1>4 DEF ReadRow, Move, None
<1>5. ASSUME NEW r \in Requests, RevokeFamily(r)
      PROVE  TypeOK' /\ PresentedExists'
  <2>1. family[req[r].presented] \in Tokens
    BY <1>5 DEF RevokeFamily, Tokens, None
  <2> QED
    BY <1>5, <2>1 DEF RevokeFamily, Move
<1>6. ASSUME NEW r \in Requests, Rotate(r) PROVE TypeOK' /\ PresentedExists'
  <2>1. family[req[r].presented] \in 1 .. issued + 1
    BY <1>6 DEF Rotate, Tokens, None
  <2> QED
    BY <1>6, <2>1, IssueFacts DEF Rotate, None
<1>7. ASSUME NEW r \in Requests, Revoke(r) PROVE TypeOK' /\ PresentedExists'
  <2>1. CASE req[r].presented = None
    BY <1>7, <2>1 DEF Revoke, Move
  <2>2. CASE req[r].presented # None
    <3>1. family[req[r].presented] \in Tokens
      BY <2>2 DEF Tokens, None
    <3> QED
      BY <1>7, <2>2, <3>1 DEF Revoke, Move, None
  <2> QED
    BY <2>1, <2>2
<1>8. ASSUME NEW r \in Requests, RequestFails(r)
      PROVE  TypeOK' /\ PresentedExists'
  BY <1>8 DEF RequestFails, Mishap, Move
<1>9. ASSUME NEW r \in Requests, Return(r) PROVE TypeOK' /\ PresentedExists'
  <2>1. cookie' \in [Browsers -> 0 .. issued]
    BY <1>9 DEF Return
  <2>2. status' \in [Tabs -> {"loading", "authenticated", "anonymous"}]
    BY <1>9 DEF Return
  <2> QED
    BY <1>9, <2>1, <2>2 DEF Return, Free, None
<1>10. ASSUME NEW r \in Requests, Lose(r) PROVE TypeOK' /\ PresentedExists'
  BY <1>10 DEF Lose, Mishap, Free, None
<1>11. ASSUME NEW r \in Requests, Discard(r) PROVE TypeOK' /\ PresentedExists'
  BY <1>11 DEF Discard, Free, None
<1>12. CASE Lapse
  BY <1>12 DEF Lapse
<1>13. CASE UNCHANGED vars
  BY <1>13 DEF vars
<1> QED
  BY <1>1, <1>2, <1>3, <1>4, <1>5, <1>6, <1>7, <1>8, <1>9, <1>10, <1>11,
     <1>12, <1>13 DEF Next

(* What a step does to the rows: nothing, a login, a rotation, or one of   *)
(* the two revocations.                                                    *)
RowsStep ==
    \/ UNCHANGED <<issued, family, revoked, ended, alarmed>>
    \/ \E t \in Tabs : Login(t)
    \/ \E r \in Requests : Rotate(r) \/ RevokeFamily(r) \/ Revoke(r)

LEMMA OnlyTheseChangeRows == [Next]_vars => RowsStep
BY DEF Next, vars, rows, RowsStep, AskRefresh, AskLogout, Boot, ReadRow,
       RequestFails, Return, Lose, Discard, Lapse

LEMMA FamilyStep ==
    ASSUME TokensInv, [Next]_vars
    PROVE  FamilyKeepsToken'
<1> USE DEF TokensInv, TypeOK, PresentedExists, FamilyKeepsToken
<1>1. CASE UNCHANGED <<issued, family, revoked, ended, alarmed>>
  BY <1>1
<1>2. ASSUME NEW t \in Tabs, Login(t) PROVE FamilyKeepsToken'
  <2>1. issued + 1 \in 1 .. issued + 1
    OBVIOUS
  <2> QED
    BY <1>2, <2>1, IssueFacts DEF Login
<1>3. ASSUME NEW r \in Requests, Rotate(r) PROVE FamilyKeepsToken'
  <2> DEFINE p == req[r].presented
  <2>1. p \in 1 .. issued /\ family[p] \in 1 .. issued
    BY <1>3, RefreshTokensAssumption DEF Rotate, Tokens, None
  <2>2. /\ issued' = issued + 1 /\ family'[issued + 1] = family[p]
        /\ \A k \in 1 .. issued : family'[k] = family[k]
        /\ revoked' = revoked \union {p} /\ issued + 1 \notin revoked'
    BY <1>3, <2>1, IssueFacts DEF Rotate
  <2> QED
    BY <1>3, <2>1, <2>2 DEF Rotate
<1>4. ASSUME NEW r \in Requests, RevokeFamily(r) PROVE FamilyKeepsToken'
  BY <1>4 DEF RevokeFamily
<1>5. ASSUME NEW r \in Requests, Revoke(r) PROVE FamilyKeepsToken'
  BY <1>5 DEF Revoke
<1> QED
  BY <1>1, <1>2, <1>3, <1>4, <1>5, OnlyTheseChangeRows DEF RowsStep

(* What the results below rest on.                                         *)
THEOREM TokensInvariant == Spec => []TokensInv
<1>1. TokensInv /\ [Next]_vars => TokensInv'
  BY TypeStep, FamilyStep DEF TokensInv
<1> QED
  BY InitInv, <1>1, PTL DEF Spec

(* The rows, cookies and requests keep their types.                        *)
THEOREM TokensTypeCorrect == Spec => []TypeOK
BY TokensInvariant, PTL DEF TokensInv

(* No rotation, finished or not, leaves a session without a token.         *)
THEOREM SessionsKeepAToken == Spec => []FamilyKeepsToken
BY TokensInvariant, PTL DEF TokensInv

(* A token is revoked only by a request that presented one of its family.  *)
THEOREM RevocationStaysInFamily == Spec => OnlyOwnFamily
<1>1. TokensInv /\ [Next]_vars =>
        [\A k \in revoked' \ revoked :
            \E r \in Requests : /\ req[r].pc \in {"sent", "live", "replayed"}
                                /\ req[r].presented # None
                                /\ family[req[r].presented] = family[k]]_vars
  <2> SUFFICES ASSUME TokensInv, [Next]_vars, NEW k \in revoked' \ revoked
               PROVE  \E r \in Requests :
                         /\ req[r].pc \in {"sent", "live", "replayed"}
                         /\ req[r].presented # None
                         /\ family[req[r].presented] = family[k]
    OBVIOUS
  <2>1. \/ \E r \in Requests : Rotate(r) \/ RevokeFamily(r) \/ Revoke(r)
        \/ revoked' = revoked
    BY OnlyTheseChangeRows DEF RowsStep, Login
  <2>2. ASSUME NEW r \in Requests, Rotate(r) \/ RevokeFamily(r) \/ Revoke(r)
        PROVE  /\ req[r].pc \in {"sent", "live", "replayed"}
               /\ req[r].presented # None
               /\ family[req[r].presented] = family[k]
    BY <2>2 DEF Rotate, RevokeFamily, Revoke, TokensInv, PresentedExists
  <2> QED
    BY <2>1, <2>2
<1> QED
  BY TokensInvariant, <1>1, PTL DEF Spec, OnlyOwnFamily

(* Rows keep their family, and one that is issued comes with a new one at  *)
(* a login and with that of the token presented at a rotation.             *)
LEMMA FamiliesKept ==
    ASSUME TokensInv, [Next]_vars
    PROVE  /\ \A k \in 1 .. issued : family'[k] = family[k]
           /\ \A t \in Tabs : Login(t) =>
                 issued' = issued + 1 /\ family'[issued + 1] = issued + 1
           /\ \A r \in Requests : Rotate(r) =>
                 /\ issued' = issued + 1
                 /\ req[r].presented \in 1 .. issued
                 /\ family'[issued + 1] = family[req[r].presented]
           /\ issued' = issued \/ (\E t \in Tabs : Login(t))
                               \/ (\E r \in Requests : Rotate(r))
<1> USE DEF TokensInv
<1>1. ASSUME NEW t \in Tabs, Login(t)
      PROVE  /\ issued' = issued + 1 /\ family'[issued + 1] = issued + 1
             /\ \A k \in 1 .. issued : family'[k] = family[k]
  <2>1. issued + 1 \in 1 .. issued + 1
    BY DEF TypeOK
  <2> QED
    BY <1>1, <2>1, IssueFacts DEF Login
<1>2. ASSUME NEW r \in Requests, Rotate(r)
      PROVE  /\ issued' = issued + 1 /\ req[r].presented \in 1 .. issued
             /\ family'[issued + 1] = family[req[r].presented]
             /\ \A k \in 1 .. issued : family'[k] = family[k]
  <2>1. req[r].presented \in 1 .. issued
    BY <1>2 DEF Rotate, TypeOK, PresentedExists, None
  <2>2. family[req[r].presented] \in 1 .. issued + 1
    BY <2>1, RefreshTokensAssumption DEF TypeOK, Tokens
  <2> QED
    BY <1>2, <2>1, <2>2, IssueFacts DEF Rotate
<1>3. ASSUME NEW r \in Requests, RevokeFamily(r) \/ Revoke(r)
      PROVE  issued' = issued /\ family' = family
  BY <1>3 DEF RevokeFamily, Revoke
<1> QED
  BY <1>1, <1>2, <1>3, OnlyTheseChangeRows DEF RowsStep

(* A rotation has read its row while it was not revoked.                   *)
LEMMA LiveWasRead ==
    ASSUME TokensInv, [Next]_vars, NEW q \in Requests, req'[q].pc = "live"
    PROVE  /\ req'[q].presented = req[q].presented
           /\ req[q].presented \in 1 .. issued
           /\ req[q].pc = "live" \/ req[q].presented \notin revoked
<1>0. req[q] \in RequestStates /\ req \in [Requests -> RequestStates]
  BY DEF TokensInv, TypeOK, RequestStates
<1>1. CASE req[q].pc = "live" /\ req'[q].presented = req[q].presented
  BY <1>0, <1>1 DEF TokensInv, PresentedExists, RequestStates, None
<1>2. ASSUME NEW r \in Requests, ReadRow(r), req'[q] # req[q]
      PROVE  /\ req'[q].presented = req[q].presented
             /\ req[q].presented \in 1 .. issued
             /\ req[q].presented \notin revoked
  <2>1. r = q
    BY <1>0, <1>2 DEF ReadRow, Move
  <2> QED
    BY <1>0, <1>2, <2>1 DEF ReadRow, Move, RequestStates, None
<1>3. ASSUME NEW t \in Tabs, NEW r \in Requests,
             AskRefresh(r, t) \/ Boot(r, t) \/ AskLogout(r, t)
      PROVE  req[q].pc = "live" /\ req'[q].presented = req[q].presented
  <2>1. \A kind, k : Request(t, kind, k).pc = "sent"
    BY DEF Request
  <2>2. CASE q = r
    BY <1>0, <1>3, <2>1, <2>2 DEF AskRefresh, Boot, AskLogout
  <2>3. CASE q # r
    <3>1. req'[q] = req[q] \/ req'[q] = [req[q] EXCEPT !.tab = Nobody]
      BY <1>0, <1>3, <2>3 DEF AskRefresh, Boot, AskLogout
    <3> QED
      BY <1>0, <3>1 DEF RequestStates
  <2> QED
    BY <2>2, <2>3
<1>4. ASSUME NEW r \in Requests,
             RevokeFamily(r) \/ Rotate(r) \/ Revoke(r) \/ RequestFails(r)
      PROVE  req[q].pc = "live" /\ req'[q].presented = req[q].presented
  BY <1>0, <1>4 DEF RevokeFamily, Rotate, Revoke, RequestFails, Move, RequestStates
<1>5. ASSUME NEW r \in Requests, Return(r) \/ Lose(r) \/ Discard(r)
      PROVE  req'[q] = req[q]
  BY <1>0, <1>5 DEF Return, Lose, Discard, Free
<1>6. CASE req'[q] = req[q]
  BY <1>1, <1>6
<1>7. CASE Lapse \/ UNCHANGED vars \/ \E t \in Tabs : Login(t)
  BY <1>6, <1>7 DEF Lapse, vars, Login
<1> QED
  BY <1>1, <1>2, <1>3, <1>4, <1>5, <1>6, <1>7 DEF Next

LEMMA SpentStep ==
    ASSUME TokensInv, [Next]_vars, NEW f \in Tokens, Spent(f)
    PROVE  Spent(f)'
<1>1. issued \in Nat /\ revoked \subseteq revoked'
  <2>1. issued \in Nat
    BY DEF TokensInv, TypeOK
  <2>2. ASSUME NEW r \in Requests, Rotate(r) \/ RevokeFamily(r) \/ Revoke(r)
        PROVE  revoked \subseteq revoked'
    BY <2>2 DEF Rotate, RevokeFamily, Revoke
  <2>3. ASSUME NEW t \in Tabs, Login(t) PROVE revoked \subseteq revoked'
    BY <2>3 DEF Login
  <2>4. RowsStep
    BY OnlyTheseChangeRows
  <2> QED
    BY <2>1, <2>2, <2>3, <2>4 DEF RowsStep
<1>2. f \in 1 .. issued
  BY DEF Spent
<1>3. issued' = issued \/ (issued' = issued + 1 /\ family'[issued + 1] # f)
  <2>1. ASSUME NEW t \in Tabs, Login(t)
        PROVE  issued' = issued + 1 /\ family'[issued + 1] # f
    BY <1>1, <1>2, <2>1, FamiliesKept
  <2>2. ASSUME NEW r \in Requests, Rotate(r)
        PROVE  issued' = issued + 1 /\ family'[issued + 1] # f
    BY <2>2, FamiliesKept DEF Rotate, Spent
  <2>3. \/ issued' = issued \/ (\E t \in Tabs : Login(t))
        \/ (\E r \in Requests : Rotate(r))
    BY FamiliesKept
  <2> QED
    BY <2>1, <2>2, <2>3
<1>4. \A k \in 1 .. issued : family'[k] = family[k]
  BY FamiliesKept
<1>5. f \in 1 .. issued'
  BY <1>1, <1>2, <1>3
<1>6. ASSUME NEW k \in 1 .. issued', family'[k] = f PROVE k \in revoked'
  <2>1. k \in 1 .. issued
    BY <1>1, <1>3, <1>6
  <2> QED
    BY <1>1, <1>4, <1>6, <2>1 DEF Spent
<1>7. ASSUME NEW q \in Requests, req'[q].pc = "live"
      PROVE  family'[req'[q].presented] # f
  BY <1>4, <1>7, LiveWasRead DEF Spent
<1> QED
  BY <1>5, <1>6, <1>7 DEF Spent

(* A family with nothing left to refresh with never has again.             *)
THEOREM SpentStaysSpent == Spec => SpentForGood
<1>1. TokensInv /\ [Next]_vars => \A f \in Tokens : Spent(f) => Spent(f)'
  BY SpentStep
<1> QED
  BY <1>1, TokensInvariant, PTL DEF Spec, SpentForGood

(* A replay that no rotation of the family has got ahead of spends it.     *)
LEMMA ReplayStep ==
    ASSUME TokensInv, NEW r \in Requests, RevokeFamily(r),
           NEW f, f = family[req[r].presented],
           \A q \in Requests : req[q].pc = "live" => family[req[q].presented] # f
    PROVE  Spent(family[req[r].presented])'
<1>0. req \in [Requests -> RequestStates]
  BY DEF TokensInv, TypeOK, RequestStates
<1>1. req[r].presented \in 1 .. issued /\ issued <= MaxTokens /\ issued \in Nat
  BY <1>0, RefreshTokensAssumption
  DEF RevokeFamily, TokensInv, TypeOK, PresentedExists, RequestStates, None
<1>2. f \in 1 .. issued
  BY <1>1, RefreshTokensAssumption DEF TokensInv, TypeOK, Tokens
<1>3. /\ issued' = issued /\ family' = family
      /\ revoked' = revoked \union {k \in 1 .. issued : family[k] = f}
  BY DEF RevokeFamily
<1>4. /\ req'[r].presented = req[r].presented /\ req'[r].pc = "refused"
      /\ \A q \in Requests \ {r} : req'[q] = req[q]
  BY <1>0 DEF RevokeFamily, Move, RequestStates
<1>5. \A q \in Requests : req'[q].pc = "live" => family[req'[q].presented] # f
  BY <1>4
<1>6. family'[req'[r].presented] = f
  BY <1>3, <1>4
<1> QED
  BY <1>2, <1>3, <1>5, <1>6 DEF Spent

THEOREM ReplaySpendsFamily == Spec => ReplaySpends
<1>1. TokensInv => \A r \in Requests :
          LET f == family[req[r].presented]
          IN  RevokeFamily(r) /\ (\A q \in Requests :
                  req[q].pc = "live" => family[req[q].presented] # f)
              => Spent(f)'
  BY ReplayStep
<1> QED
  BY <1>1, TokensInvariant, PTL DEF Spec, ReplaySpends

-----------------------------------------------------------------------------
(* Why reuse detection raises no false alarm, while nothing is lost, for a *)
(* tab that has its browser to itself: browsers hold tokens of families of *)
(* their own, and within one browser such a tab does one thing at a time.  *)

(* A token that can be presented without harm.                             *)
Sound(k) == k \notin revoked \/ family[k] \in ended

(* A token browser b has for its cookie, that a tab of it presents, or     *)
(* that is about to be given to one.                                       *)
Held(b, k) ==
    /\ k # None
    /\ \/ k = cookie[b]
       \/ \E r \in Requests : /\ req[r].pc # "free" /\ req[r].tab \in Tabs
                              /\ BrowserOf[req[r].tab] = b
                              /\ k \in {req[r].presented, req[r].got}

Refreshing(r) == req[r].pc # "free" /\ req[r].kind = "refresh"

(* Every request is listened to, and a tab makes one refresh at a time.    *)
Orderly ==
    /\ \A r \in Requests : req[r].pc # "free" => req[r].tab # Nobody
    /\ \A r, q \in Requests :
          Refreshing(r) /\ Refreshing(q) /\ req[r].tab = req[q].tab => r = q

(* Browsers have families of their own.                                    *)
Apart ==
    \A b, c \in Browsers, k, l \in 1 .. issued :
        b # c /\ Held(b, k) /\ Held(c, l) => family[k] # family[l]

CookieSound ==
    \A t \in Lone :
        \/ cookie[BrowserOf[t]] = None
        \/ Sound(cookie[BrowserOf[t]])
        \/ \E r \in Requests :
              Refreshing(r) /\ req[r].tab = t /\ req[r].pc = "ok"

PresentedSound ==
    \A r \in Requests :
        Refreshing(r) /\ req[r].pc \in {"sent", "live"} /\ req[r].tab \in Lone =>
            req[r].presented = None \/ Sound(req[r].presented)

GotSound ==
    \A r \in Requests : req[r].got # None =>
        /\ Refreshing(r) /\ req[r].pc = "ok"
        /\ req[r].tab \in Lone => Sound(req[r].got)

NothingReplayed ==
    \A r \in Requests :
        req[r].pc = "replayed" /\ req[r].tab \in Lone
            => family[req[r].presented] \in ended

(* Only refreshes rotate.                                                  *)
LiveRefreshes ==
    \A r \in Requests : req[r].pc = "live" => req[r].kind = "refresh"

Undisturbed ==
    mishaps = 0 => /\ Orderly /\ Apart /\ LiveRefreshes
                   /\ CookieSound /\ PresentedSound /\ GotSound
                   /\ NothingReplayed

(* A step of an undisturbed run: Boot finds no requests of its page, and a *)
(* request fails only for want of tokens in the model.                     *)
QuietStep ==
    /\ TokensInv /\ [Next]_vars
    /\ mishaps = 0 /\ mishaps' = 0
    /\ Orderly /\ Apart /\ LiveRefreshes
    /\ CookieSound /\ PresentedSound /\ GotSound
    /\ NothingReplayed

QuietBoot(r, t) ==
    /\ Boot(r, t)
    /\ req' = [req EXCEPT ![r] = Request(t, "refresh", cookie[BrowserOf[t]])]
    /\ \A q \in Requests : req[q].tab # t

LEMMA QuietActions ==
    ASSUME QuietStep
    PROVE  \/ \E t \in Tabs : Login(t)
           \/ \E t \in Tabs, r \in Requests :
                 AskRefresh(r, t) \/ AskLogout(r, t) \/ QuietBoot(r, t)
           \/ \E r \in Requests :
                 \/ ReadRow(r) \/ RevokeFamily(r) \/ Rotate(r) \/ Revoke(r)
                 \/ Return(r)
                 \/ req[r].pc = "live" /\ RequestFails(r) /\ UNCHANGED rows
           \/ Lapse \/ UNCHANGED vars
<1> USE DEF QuietStep, TokensInv
<1>1. ASSUME NEW t \in Tabs, NEW r \in Requests, Boot(r, t)
      PROVE  QuietBoot(r, t)
  <2>1. \A q \in Requests : req[q].tab # t
    BY <1>1 DEF Boot, Mishap
  <2>2. req' = [q \in Requests |->
                  IF q = r THEN Request(t, "refresh", cookie[BrowserOf[t]])
                  ELSE req[q]]
    BY <1>1, <2>1 DEF Boot
  <2>3. req \in [Requests -> RequestStates]
    BY DEF TypeOK, RequestStates
  <2>4. req' = [req EXCEPT ![r] = Request(t, "refresh", cookie[BrowserOf[t]])]
    BY <2>2, <2>3
  <2> QED
    BY <1>1, <2>1, <2>4 DEF QuietBoot
<1>2. ASSUME NEW r \in Requests, RequestFails(r)
      PROVE  req[r].pc = "live" /\ UNCHANGED rows
  BY <1>2 DEF RequestFails, Mishap
<1>3. ASSUME NEW r \in Requests PROVE ~ Lose(r)
  BY DEF Lose, Mishap
<1>4. ASSUME NEW r \in Requests PROVE ~ Discard(r)
  BY DEF Discard, Answered, Orderly
<1> QED
  BY <1>1, <1>2, <1>3, <1>4 DEF Next

(* A tab that has its browser to itself shares it with nobody.             *)
LEMMA LoneIsAlone ==
    ASSUME NEW t \in Lone, NEW u \in Tabs, BrowserOf[u] = BrowserOf[t]
    PROVE  u = t
BY DEF Lone

LEMMA OrderlyStep ==
    ASSUME QuietStep
    PROVE  Orderly'
<1> USE RefreshTokensAssumption DEF QuietStep, TokensInv, TypeOK
<1> USE DEF Orderly, Refreshing
<1>1. ASSUME NEW t \in Tabs, NEW r \in Requests, AskRefresh(r, t)
      PROVE  Orderly'
  BY <1>1 DEF AskRefresh, Request, InFlight
<1>2. ASSUME NEW t \in Tabs, NEW r \in Requests, AskLogout(r, t)
      PROVE  Orderly'
  BY <1>2 DEF AskLogout, Request
<1>3. ASSUME NEW t \in Tabs, NEW r \in Requests, QuietBoot(r, t)
      PROVE  Orderly'
  BY <1>3 DEF QuietBoot, Request
<1>4. ASSUME NEW r \in Requests, NEW pc, Move(r, pc), req[r].pc # "free"
      PROVE  Orderly'
  BY <1>4 DEF Move
<1>5. ASSUME NEW r \in Requests, Rotate(r) PROVE Orderly'
  BY <1>5 DEF Rotate
<1>6. ASSUME NEW r \in Requests, Return(r) PROVE Orderly'
  BY <1>6 DEF Return, Free
<1>7. CASE req' = req
  BY <1>7
<1>8. ASSUME NEW r \in Requests,
             \/ ReadRow(r) \/ RevokeFamily(r) \/ Revoke(r)
             \/ req[r].pc = "live" /\ RequestFails(r)
      PROVE  Orderly'
  BY <1>4, <1>8 DEF ReadRow, RevokeFamily, Revoke, RequestFails
<1> QED
  BY <1>1, <1>2, <1>3, <1>5, <1>6, <1>7, <1>8, QuietActions
  DEF Login, Lapse, vars

(* A browser comes to hold no token but one that is issued to it.          *)
LEMMA HeldStep ==
    ASSUME QuietStep, NEW b \in Browsers, NEW k, Held(b, k)'
    PROVE  \/ Held(b, k)
           \/ \E t \in Tabs : k = issued + 1 /\ Login(t) /\ BrowserOf[t] = b
           \/ \E r \in Requests :
                 /\ k = issued + 1 /\ Rotate(r)
                 /\ req[r].tab \in Tabs /\ BrowserOf[req[r].tab] = b
<1> USE DEF Held, None
<1>0. /\ req = [r \in Requests |-> req[r]]
      /\ cookie = [c \in Browsers |-> cookie[c]]
      /\ \A t \in Tabs : BrowserOf[t] \in Browsers
      /\ \A r \in Requests : req[r] \in RequestStates
  BY RefreshTokensAssumption DEF QuietStep, TokensInv, TypeOK, RequestStates
<1>1. ASSUME NEW u \in Tabs, NEW r \in Requests,
             AskRefresh(r, u) \/ AskLogout(r, u) \/ QuietBoot(r, u)
      PROVE  Held(b, k)
  <2>1. cookie' = cookie
    BY <1>1 DEF AskRefresh, AskLogout, QuietBoot, Boot
  <2>2. /\ req'[r].tab = u /\ req'[r].presented = cookie[BrowserOf[u]]
        /\ req'[r].got = None
        /\ \A q \in Requests : q # r => req'[q] = req[q]
    BY <1>0, <1>1 DEF AskRefresh, AskLogout, QuietBoot, Request
  <2> QED
    BY <2>1, <2>2 DEF None
<1>2. ASSUME NEW u \in Tabs, Login(u)
      PROVE  Held(b, k) \/ (k = issued + 1 /\ BrowserOf[u] = b)
  <2>1. req' = req /\ cookie' = [cookie EXCEPT ![BrowserOf[u]] = issued + 1]
    BY <1>2 DEF Login, Issue
  <2>2. \/ cookie'[b] = cookie[b]
        \/ b = BrowserOf[u] /\ cookie'[b] = issued + 1
    BY <1>0, <2>1
  <2> QED
    BY <2>1, <2>2
<1>3. ASSUME NEW r \in Requests, NEW pc, Move(r, pc), req[r].pc # "free",
             cookie' = cookie
      PROVE  Held(b, k)
  <2>1. /\ req'[r].tab = req[r].tab /\ req'[r].presented = req[r].presented
        /\ req'[r].got = req[r].got
        /\ \A q \in Requests : q # r => req'[q] = req[q]
    BY <1>0, <1>3 DEF Move, RequestStates
  <2> QED
    BY <1>3, <2>1
<1>4. ASSUME NEW r \in Requests, Rotate(r)
      PROVE  \/ Held(b, k)
             \/ /\ k = issued + 1
                /\ req[r].tab \in Tabs /\ BrowserOf[req[r].tab] = b
  <2>1. /\ req'[r].tab = req[r].tab /\ req'[r].presented = req[r].presented
        /\ req'[r].got = issued + 1 /\ req[r].pc # "free"
        /\ \A q \in Requests : q # r => req'[q] = req[q]
        /\ cookie' = cookie
    BY <1>0, <1>4 DEF Rotate, Issue, RequestStates
  <2>2. CASE k = cookie'[b]
    BY <2>1, <2>2
  <2>3. ASSUME NEW q \in Requests, req'[q].pc # "free", req'[q].tab \in Tabs,
               BrowserOf[req'[q].tab] = b, k \in {req'[q].presented, req'[q].got}
        PROVE  \/ Held(b, k)
               \/ /\ k = issued + 1
                  /\ req[r].tab \in Tabs /\ BrowserOf[req[r].tab] = b
    <3>1. CASE q = r
      BY <2>1, <2>3, <3>1
    <3>2. CASE q # r
      BY <2>1, <2>3, <3>2
    <3> QED
      BY <3>1, <3>2
  <2> QED
    BY <2>2, <2>3
<1>5. ASSUME NEW r \in Requests, Return(r) PROVE Held(b, k)
  <2> DEFINE u == req[r].tab
  <2>1. u \in Tabs /\ req[r].pc # "free"
    BY <1>5 DEF Return, Answered, QuietStep, TokensInv, TypeOK
  <2>2. /\ req'[r] = Free /\ \A q \in Requests : q # r => req'[q] = req[q]
        /\ \/ cookie' = cookie
           \/ cookie' = [cookie EXCEPT ![BrowserOf[u]] = req[r].got]
    BY <1>0, <1>5 DEF Return
  <2>3. \/ cookie'[b] = cookie[b]
        \/ b = BrowserOf[u] /\ cookie'[b] = req[r].got
    BY <1>0, <2>1, <2>2
  <2>4. ASSUME NEW q \in Requests, req'[q].pc # "free"
        PROVE  req'[q] = req[q]
    BY <2>2, <2>4 DEF Free
  <2> QED
    BY <2>1, <2>3, <2>4
<1>6. CASE req' = req /\ cookie' = cookie
  BY <1>6
<1>7. ASSUME NEW r \in Requests,
             \/ ReadRow(r) \/ RevokeFamily(r) \/ Revoke(r)
             \/ req[r].pc = "live" /\ RequestFails(r)
      PROVE  Held(b, k)
  BY <1>3, <1>7 DEF ReadRow, RevokeFamily, Revoke, RequestFails
<1> QED
  BY <1>1, <1>2, <1>4, <1>5, <1>6, <1>7, QuietActions DEF Lapse, vars

LEMMA FamilyOf ==
    ASSUME QuietStep
    PROVE  /\ \A k \in 1 .. issued : family'[k] = family[k]
           /\ \A t \in Tabs : Login(t) =>
                 issued' = issued + 1 /\ family'[issued + 1] = issued + 1
           /\ \A r \in Requests : Rotate(r) =>
                 /\ issued' = issued + 1
                 /\ req[r].presented \in 1 .. issued
                 /\ family'[issued + 1] = family[req[r].presented]
           /\ issued' = issued \/ (\E t \in Tabs : Login(t))
                               \/ (\E r \in Requests : Rotate(r))
BY FamiliesKept DEF QuietStep

(* A step issues a token to one tab.                                       *)
LEMMA OneIsIssued ==
    ASSUME QuietStep
    PROVE  /\ \A t, u \in Tabs : Login(t) /\ Login(u) => t = u
           /\ \A t \in Tabs, r \in Requests : ~ (Login(t) /\ Rotate(r))
           /\ \A r, q \in Requests : Rotate(r) /\ Rotate(q) => r = q
<1>0. /\ status = [t \in Tabs |-> status[t]]
      /\ req = [r \in Requests |-> req[r]]
      /\ \A r \in Requests : req[r] \in RequestStates
  BY DEF QuietStep, TokensInv, TypeOK, RequestStates
<1>1. ASSUME NEW t \in Tabs, Login(t)
      PROVE  /\ status[t] = "anonymous" /\ req' = req
             /\ status' = [status EXCEPT ![t] = "authenticated"]
  BY <1>1 DEF Login
<1>2. ASSUME NEW r \in Requests, Rotate(r)
      PROVE  /\ req[r].pc = "live" /\ req'[r].pc = "ok"
             /\ \A q \in Requests : q # r => req'[q] = req[q]
  BY <1>0, <1>2 DEF Rotate, RequestStates
<1>3. ASSUME NEW t \in Tabs, NEW u \in Tabs, Login(t), Login(u), t # u
      PROVE  FALSE
  <2>1. status'[u] = status[u]
    BY <1>0, <1>1, <1>3
  <2>2. status'[u] = "authenticated" /\ status[u] = "anonymous"
    BY <1>0, <1>1, <1>3
  <2> QED
    BY <2>1, <2>2
<1>4. ASSUME NEW t \in Tabs, NEW r \in Requests, Login(t), Rotate(r)
      PROVE  FALSE
  BY <1>1, <1>2, <1>4
<1>5. ASSUME NEW r \in Requests, NEW q \in Requests, Rotate(r), Rotate(q),
             r # q
      PROVE  FALSE
  <2>1. req'[q] = req[q]
    BY <1>2, <1>5
  <2>2. req[q].pc = "live" /\ req'[q].pc = "ok"
    BY <1>2, <1>5
  <2> QED
    BY <2>1, <2>2
<1> QED
  BY <1>3, <1>4, <1>5

LEMMA ApartStep ==
    ASSUME QuietStep
    PROVE  Apart'
<1> DEFINE New(c, n) ==
        /\ n = issued + 1
        /\ \/ \E t \in Tabs : Login(t) /\ BrowserOf[t] = c
           \/ \E r \in Requests : /\ Rotate(r) /\ req[r].tab \in Tabs
                                  /\ BrowserOf[req[r].tab] = c
<1> SUFFICES ASSUME NEW b \in Browsers, NEW c \in Browsers,
                    NEW k \in 1 .. issued', NEW l \in 1 .. issued',
                    b # c, Held(b, k)', Held(c, l)'
             PROVE  family'[k] # family'[l]
  BY DEF Apart, Held
<1>1. issued \in Nat /\ \A n \in 1 .. issued : family[n] \in 1 .. n
  BY RefreshTokensAssumption DEF QuietStep, TokensInv, TypeOK, Tokens
<1>2. ASSUME NEW v \in Browsers, NEW w \in Browsers, v # w,
             NEW m \in 1 .. issued, NEW n \in 1 .. issued,
             Held(v, m), Held(w, n)
      PROVE  family[m] # family[n]
  BY <1>2 DEF QuietStep, Apart
<1>3. ASSUME NEW v \in Browsers, NEW w \in Browsers, v # w,
             NEW m \in 1 .. issued, NEW n \in 1 .. issued',
             Held(v, m), New(w, n)
      PROVE  family'[m] # family'[n]
  <2>1. n = issued + 1 /\ family'[m] = family[m] /\ family[m] \in 1 .. m
    BY <1>1, <1>3, FamilyOf
  <2>2. ASSUME NEW t \in Tabs, Login(t) PROVE family'[m] # family'[n]
    <3>1. family'[n] = issued + 1
      BY <2>1, <2>2, FamilyOf
    <3> QED
      BY <1>1, <2>1, <3>1
  <2>3. ASSUME NEW r \in Requests, Rotate(r), req[r].tab \in Tabs,
               BrowserOf[req[r].tab] = w
        PROVE  family'[m] # family'[n]
    <3>1. /\ req[r].presented \in 1 .. issued
          /\ family'[n] = family[req[r].presented]
      BY <2>1, <2>3, FamilyOf
    <3>2. Held(w, req[r].presented)
      BY <1>1, <2>3, <3>1 DEF Held, Rotate, None
    <3> QED
      BY <1>2, <1>3, <2>1, <3>1, <3>2
  <2> QED
    BY <1>3, <2>2, <2>3
<1>4. ASSUME NEW v \in Browsers, NEW n \in Nat, Held(v, n)
      PROVE  n \in 1 .. issued
  <2>1. \A r \in Requests : req[r].presented \in 0 .. issued
                            /\ req[r].got \in 0 .. issued
    BY DEF QuietStep, TokensInv, TypeOK
  <2>2. cookie[v] \in 0 .. issued
    BY DEF QuietStep, TokensInv, TypeOK
  <2> QED
    BY <1>1, <1>4, <2>1, <2>2 DEF Held, None
<1>5. (Held(b, k) \/ New(b, k)) /\ (Held(c, l) \/ New(c, l))
  <2>1. Held(b, k) \/ New(b, k)
    BY HeldStep
  <2>2. Held(c, l) \/ New(c, l)
    BY HeldStep
  <2> QED
    BY <2>1, <2>2
<1>6. /\ Held(b, k) => k \in 1 .. issued
      /\ Held(c, l) => l \in 1 .. issued
  BY <1>4
<1>7. CASE Held(b, k) /\ Held(c, l)
  BY <1>2, <1>6, <1>7, FamilyOf
<1>8. CASE Held(b, k) /\ New(c, l)
  BY <1>3, <1>6, <1>8
<1>9. CASE New(b, k) /\ Held(c, l)
  BY <1>3, <1>6, <1>9
<1>10. ~ (New(b, k) /\ New(c, l))
  BY OneIsIssued
<1> QED
  BY <1>5, <1>7, <1>8, <1>9, <1>10

(* What a step does to one request.                                        *)
LEMMA RequestStep ==
    ASSUME QuietStep, NEW q \in Requests
    PROVE  \/ req'[q] = req[q]
           \/ Return(q) /\ req'[q] = Free
           \/ /\ req[q].pc = "free"
              /\ \E t \in Tabs :
                    req'[q] = Request(t, "logout", cookie[BrowserOf[t]])
           \/ /\ UNCHANGED <<rows, ended>> /\ req[q].pc = "free"
              /\ \E t \in Tabs :
                    /\ InFlight(t, "refresh") = {}
                    /\ req'[q] = Request(t, "refresh", cookie[BrowserOf[t]])
           \/ Rotate(q) /\ req'[q] = [req[q] EXCEPT !.pc = "ok",
                                                   !.got = issued + 1]
           \/ ReadRow(q) /\ req'[q] = [req[q] EXCEPT !.pc = req'[q].pc]
           \/ Revoke(q) /\ req'[q] = [req[q] EXCEPT !.pc = "ok"]
           \/ \E pc \in {"refused", "failed"} :
                 /\ req[q].pc \in {"live", "replayed"}
                 /\ req'[q] = [req[q] EXCEPT !.pc = pc]
<1>0. /\ req = [r \in Requests |-> req[r]]
      /\ \A r \in Requests : req[r] \in RequestStates
  BY DEF QuietStep, TokensInv, TypeOK, RequestStates
<1>1. ASSUME NEW t \in Tabs, NEW r \in Requests,
             AskRefresh(r, t) \/ QuietBoot(r, t)
      PROVE  \/ req'[q] = req[q]
             \/ /\ UNCHANGED <<rows, ended>> /\ InFlight(t, "refresh") = {}
                /\ req[q].pc = "free"
                /\ req'[q] = Request(t, "refresh", cookie[BrowserOf[t]])
  BY <1>0, <1>1 DEF AskRefresh, QuietBoot, Boot, InFlight
<1>2. ASSUME NEW t \in Tabs, NEW r \in Requests, AskLogout(r, t)
      PROVE  \/ req'[q] = req[q]
             \/ /\ req[q].pc = "free"
                /\ req'[q] = Request(t, "logout", cookie[BrowserOf[t]])
  BY <1>0, <1>2 DEF AskLogout
<1>3. ASSUME NEW r \in Requests, NEW pc, Move(r, pc)
      PROVE  /\ q = r => req'[q] = [req[q] EXCEPT !.pc = pc]
             /\ q # r => req'[q] = req[q]
  BY <1>0, <1>3 DEF Move
<1>4. ASSUME NEW r \in Requests, ReadRow(r)
      PROVE  \/ req'[q] = req[q]
             \/ ReadRow(q) /\ req'[q] = [req[q] EXCEPT !.pc = req'[q].pc]
  <2>1. PICK pc \in {"refused", "replayed", "live"} : Move(r, pc)
    BY <1>4 DEF ReadRow
  <2>2. q = r => req'[q] = [req[q] EXCEPT !.pc = req'[q].pc]
    BY <1>0, <1>3, <2>1 DEF RequestStates
  <2> QED
    BY <1>3, <1>4, <2>1, <2>2
<1>5. ASSUME NEW r \in Requests, RevokeFamily(r)
      PROVE  \/ req'[q] = req[q]
             \/ /\ req[q].pc \in {"live", "replayed"}
                /\ req'[q] = [req[q] EXCEPT !.pc = "refused"]
  BY <1>3, <1>5 DEF RevokeFamily
<1>6. ASSUME NEW r \in Requests, req[r].pc = "live" /\ RequestFails(r)
      PROVE  \/ req'[q] = req[q]
             \/ /\ req[q].pc \in {"live", "replayed"}
                /\ req'[q] = [req[q] EXCEPT !.pc = "failed"]
  BY <1>3, <1>6 DEF RequestFails
<1>7. ASSUME NEW r \in Requests, Rotate(r)
      PROVE  \/ req'[q] = req[q]
             \/ Rotate(q) /\ req'[q] = [req[q] EXCEPT !.pc = "ok",
                                                     !.got = issued + 1]
  BY <1>0, <1>7 DEF Rotate, Issue
<1>8. ASSUME NEW r \in Requests, Revoke(r)
      PROVE  \/ req'[q] = req[q]
             \/ Revoke(q) /\ req'[q] = [req[q] EXCEPT !.pc = "ok"]
  BY <1>3, <1>8 DEF Revoke
<1>9. ASSUME NEW r \in Requests, Return(r)
      PROVE  req'[q] = req[q] \/ (Return(q) /\ req'[q] = Free)
  BY <1>0, <1>9 DEF Return
<1>10. ASSUME Lapse \/ UNCHANGED vars \/ \E t \in Tabs : Login(t)
       PROVE  req'[q] = req[q]
  BY <1>10 DEF Lapse, vars, Login
<1> QED
  BY <1>1, <1>2, <1>4, <1>5, <1>6, <1>7, <1>8, <1>9, <1>10, QuietActions

(* A token of a browser that is a tab's own stays sound but for its own    *)
(* rotation: other browsers replay other families.                         *)
LEMMA SoundStep ==
    ASSUME QuietStep, NEW k \in 1 .. issued, Sound(k),
           NEW t \in Lone, Held(BrowserOf[t], k),
           \A r \in Requests : Rotate(r) => k # req[r].presented
    PROVE  Sound(k)'
<1>0. family'[k] = family[k]
  BY FamilyOf
<1>1. ASSUME NEW r \in Requests, RevokeFamily(r) PROVE Sound(k)'
  <2> DEFINE p == req[r].presented
             c == BrowserOf[req[r].tab]
  <2>1. /\ p \in 1 .. issued /\ req[r].pc = "replayed" /\ req[r].tab \in Tabs
        /\ c \in Browsers /\ BrowserOf[t] \in Browsers
    BY <1>1, RefreshTokensAssumption
    DEF RevokeFamily, QuietStep, Orderly, TokensInv, PresentedExists, TypeOK, None,
        Lone
  <2>2. CASE c = BrowserOf[t]
    <3>1. req[r].tab = t
      BY <2>1, <2>2, LoneIsAlone
    <3>2. family[p] \in ended /\ ended' = ended
      BY <1>1, <2>1, <3>1 DEF QuietStep, NothingReplayed, RevokeFamily
    <3>3. k \in revoked' => k \in revoked \/ family[k] = family[p]
      BY <1>1 DEF RevokeFamily
    <3> QED
      BY <1>0, <3>2, <3>3 DEF Sound
  <2>3. CASE c # BrowserOf[t]
    <3>1. Held(c, p)
      BY <2>1 DEF Held, None
    <3>2. family[k] # family[p]
      BY <2>1, <2>3, <3>1 DEF QuietStep, Apart
    <3>3. k \in revoked' => k \in revoked
      BY <1>1, <3>2 DEF RevokeFamily
    <3> QED
      BY <1>0, <1>1, <3>3 DEF Sound, RevokeFamily
  <2> QED
    BY <2>2, <2>3
<1>2. ASSUME NEW r \in Requests, Revoke(r) PROVE Sound(k)'
  BY <1>0, <1>2 DEF Sound, Revoke
<1>3. ASSUME NEW r \in Requests, Rotate(r) PROVE Sound(k)'
  BY <1>0, <1>3 DEF Sound, Rotate
<1>4. ASSUME NEW u \in Tabs, Login(u) PROVE Sound(k)'
  BY <1>0, <1>4 DEF Sound, Login
<1>5. CASE UNCHANGED <<issued, family, revoked, ended, alarmed>>
  BY <1>5 DEF Sound
<1> QED
  BY <1>1, <1>2, <1>3, <1>4, <1>5, OnlyTheseChangeRows
  DEF RowsStep, QuietStep

(* A rotation is of a token that no other browser holds.                   *)
LEMMA RotationIsOwn ==
    ASSUME QuietStep, NEW r \in Requests, Rotate(r), NEW t \in Lone,
           Held(BrowserOf[t], req[r].presented)
    PROVE  req[r].tab = t
<1>1. /\ req[r].tab \in Tabs /\ req[r].presented \in 1 .. issued
      /\ BrowserOf[req[r].tab] \in Browsers /\ BrowserOf[t] \in Browsers
  BY FamilyOf, RefreshTokensAssumption
  DEF QuietStep, TokensInv, TypeOK, Orderly, Rotate, Lone
<1>2. Held(BrowserOf[req[r].tab], req[r].presented)
  BY <1>1 DEF Held, Rotate, None
<1>3. BrowserOf[req[r].tab] = BrowserOf[t]
  BY <1>1, <1>2 DEF QuietStep, Apart
<1> QED
  BY <1>1, <1>3, LoneIsAlone

(* The same, field by field.                                               *)
LEMMA RequestFields ==
    ASSUME QuietStep, NEW q \in Requests
    PROVE  \/ req'[q] = req[q]
           \/ req'[q].pc = "free" /\ req'[q].got = None
           \/ /\ req'[q].pc = "sent" /\ req'[q].kind = "logout"
              /\ req'[q].got = None
           \/ /\ req'[q].pc = "sent" /\ req'[q].got = None
              /\ UNCHANGED <<rows, ended>>
              /\ \E t \in Tabs : /\ InFlight(t, "refresh") = {}
                                 /\ req'[q].tab = t
                                 /\ req'[q].presented = cookie[BrowserOf[t]]
           \/ /\ Rotate(q) /\ req'[q].pc = "ok" /\ req'[q].kind = "refresh"
              /\ req'[q].got = issued + 1
           \/ /\ ReadRow(q) /\ req[q].pc = "sent" /\ req[q].kind = "refresh"
              /\ req'[q].presented = req[q].presented
              /\ req'[q].tab = req[q].tab /\ req'[q].kind = "refresh" /\ req'[q].got = req[q].got
           \/ /\ req[q].pc \in {"sent", "live", "replayed"}
              /\ req'[q].pc \in {"ok", "refused", "failed"}
              /\ req'[q].got = req[q].got
<1>1. req[q] \in RequestStates
  BY DEF QuietStep, TokensInv, TypeOK, RequestStates
<1>2. CASE req'[q] = Free
  BY <1>2 DEF Free
<1>3. CASE \E t \in Tabs : req'[q] = Request(t, "logout", cookie[BrowserOf[t]])
  BY <1>3 DEF Request
<1>4. CASE /\ UNCHANGED <<rows, ended>>
           /\ \E t \in Tabs :
                 /\ InFlight(t, "refresh") = {}
                 /\ req'[q] = Request(t, "refresh", cookie[BrowserOf[t]])
  BY <1>4 DEF Request
<1>5. CASE Rotate(q) /\ req'[q] = [req[q] EXCEPT !.pc = "ok",
                                               !.got = issued + 1]
  <2>1. req[q].kind = "refresh"
    BY <1>5 DEF Rotate, QuietStep, LiveRefreshes
  <2> QED
    BY <1>1, <1>5, <2>1 DEF RequestStates
<1>6. CASE ReadRow(q) /\ req'[q] = [req[q] EXCEPT !.pc = req'[q].pc]
  <2>1. req[q].pc = "sent" /\ req[q].kind = "refresh"
    BY <1>6 DEF ReadRow
  <2>2. /\ req'[q].presented = req[q].presented
        /\ req'[q].kind = req[q].kind /\ req'[q].got = req[q].got
    BY <1>1, <1>6 DEF RequestStates
  <2>3. req'[q].tab = req[q].tab
    BY <1>1, <1>6 DEF RequestStates
  <2> QED
    BY <1>6, <2>1, <2>2, <2>3
<1>7. CASE Revoke(q) /\ req'[q] = [req[q] EXCEPT !.pc = "ok"]
  <2>1. req[q].pc = "sent"
    BY <1>7 DEF Revoke
  <2> QED
    BY <1>1, <1>7, <2>1 DEF RequestStates
<1>8. ASSUME NEW pc \in {"refused", "failed"},
             /\ req[q].pc \in {"live", "replayed"}
             /\ req'[q] = [req[q] EXCEPT !.pc = pc]
      PROVE  /\ req[q].pc \in {"sent", "live", "replayed"}
             /\ req'[q].pc \in {"ok", "refused", "failed"}
             /\ req'[q].got = req[q].got
  BY <1>1, <1>8 DEF RequestStates
<1> QED
  BY <1>2, <1>3, <1>4, <1>5, <1>6, <1>7, <1>8, RequestStep

LEMMA LiveRefreshesStep ==
    ASSUME QuietStep
    PROVE  LiveRefreshes'
BY RequestFields DEF QuietStep, LiveRefreshes

LEMMA PresentedSoundStep ==
    ASSUME QuietStep
    PROVE  PresentedSound'
<1> SUFFICES ASSUME NEW q \in Requests, req'[q].kind = "refresh",
                    req'[q].pc \in {"sent", "live"}, req'[q].tab \in Lone,
                    NEW k, k = req'[q].presented, k # None
             PROVE  k \notin revoked' \/ family'[k] \in ended'
  BY DEF PresentedSound, Refreshing, Sound, None
<1>1. req[q] \in RequestStates
  BY DEF QuietStep, TokensInv, TypeOK, RequestStates
<1>2. CASE /\ UNCHANGED <<rows, ended>>
           /\ \E t \in Tabs : /\ InFlight(t, "refresh") = {}
                              /\ req'[q].tab = t
                              /\ req'[q].presented = cookie[BrowserOf[t]]
  <2>1. PICK t \in Lone : InFlight(t, "refresh") = {} /\ k = cookie[BrowserOf[t]]
    BY <1>2
  <2>2. Sound(k)
    BY <2>1 DEF InFlight, Refreshing, QuietStep, CookieSound
  <2> QED
    BY <1>2, <2>2 DEF Sound, rows
<1>3. CASE /\ k = req[q].presented /\ Refreshing(q) /\ req[q].tab \in Lone
           /\ req[q].pc \in {"sent", "live"}
  <2>1. k \in 1 .. issued
    BY <1>1, <1>3 DEF RequestStates, None
  <2>2. Sound(k)
    BY <1>3 DEF QuietStep, PresentedSound
  <2>3. Held(BrowserOf[req[q].tab], k)
    BY <1>3 DEF Held, Refreshing, Lone
  <2>4. ASSUME NEW r \in Requests, Rotate(r), k = req[r].presented
        PROVE  r = q
    <3>1. req[r].tab = req[q].tab
      BY <1>3, <2>3, <2>4, RotationIsOwn
    <3>2. Refreshing(r)
      BY <2>4 DEF Rotate, Refreshing, QuietStep, LiveRefreshes
    <3> QED
      BY <1>3, <3>1, <3>2 DEF QuietStep, Orderly
  <2>5. ~ Rotate(q)
    BY <1>1 DEF Rotate, QuietStep, TokensInv, TypeOK, RequestStates
  <2>6. Sound(k)'
    BY <1>3, <2>1, <2>2, <2>3, <2>4, <2>5, SoundStep
  <2> QED
    BY <2>6 DEF Sound
<1> QED
  BY <1>2, <1>3, RequestFields DEF Refreshing

LEMMA GotSoundStep ==
    ASSUME QuietStep
    PROVE  GotSound'
<1> SUFFICES ASSUME NEW q \in Requests, NEW k, k = req'[q].got, k # None
             PROVE  /\ Refreshing(q)' /\ req'[q].pc = "ok"
                    /\ req'[q].tab \in Lone =>
                          k \notin revoked' \/ family'[k] \in ended'
  BY DEF GotSound, Sound, None
<1>1. req[q] \in RequestStates
  BY DEF QuietStep, TokensInv, TypeOK, RequestStates
<1>2. CASE /\ Rotate(q) /\ req'[q].pc = "ok" /\ req'[q].kind = "refresh"
           /\ k = issued + 1
  <2>1. revoked \subseteq 1 .. issued /\ req[q].presented \in 1 .. issued
    BY <1>2, FamilyOf DEF QuietStep, TokensInv, TypeOK
  <2>2. issued \in Nat /\ revoked' = revoked \union {req[q].presented}
    BY <1>2 DEF Rotate, QuietStep, TokensInv, TypeOK
  <2>3. k \notin revoked'
    BY <1>2, <2>1, <2>2
  <2> QED
    BY <1>2, <2>3 DEF Refreshing
<1>3. CASE req'[q] = req[q]
  <2>1. k \in 1 .. issued
    BY <1>1, <1>3 DEF RequestStates, None
  <2>2. Refreshing(q) /\ req[q].pc = "ok"
    BY <1>3 DEF QuietStep, GotSound
  <2>3. ASSUME req[q].tab \in Lone
        PROVE  Sound(k)'
    <3>1. Sound(k) /\ Held(BrowserOf[req[q].tab], k)
      BY <1>3, <2>2, <2>3 DEF QuietStep, GotSound, Held, Lone
    <3>2. ASSUME NEW r \in Requests, Rotate(r), k = req[r].presented
          PROVE  FALSE
      <4>1. req[r].tab = req[q].tab
        BY <2>3, <3>1, <3>2, RotationIsOwn
      <4>2. Refreshing(r) /\ req[r].pc = "live"
        BY <3>2 DEF Rotate, Refreshing, QuietStep, LiveRefreshes
      <4> QED
        BY <2>2, <4>1, <4>2 DEF QuietStep, Orderly
    <3> QED
      BY <2>1, <2>3, <3>1, <3>2, SoundStep
  <2> QED
    BY <1>3, <2>2, <2>3 DEF Refreshing, Sound
<1>4. CASE /\ req[q].pc \in {"sent", "live", "replayed"}
           /\ req'[q].got = req[q].got
  BY <1>4 DEF QuietStep, GotSound
<1> QED
  BY <1>2, <1>3, <1>4, RequestFields

LEMMA NothingReplayedStep ==
    ASSUME QuietStep
    PROVE  NothingReplayed'
<1> SUFFICES ASSUME NEW q \in Requests, req'[q].pc = "replayed",
                    req'[q].tab \in Lone
             PROVE  family'[req'[q].presented] \in ended'
  BY DEF NothingReplayed
<1>1. req[q] \in RequestStates
  BY DEF QuietStep, TokensInv, TypeOK, RequestStates
<1>2. ended \subseteq ended'
  BY OnlyTheseChangeRows
  DEF QuietStep, RowsStep, Login, Rotate, RevokeFamily, Revoke
<1>3. CASE req'[q] = req[q]
  <2>1. req[q].presented \in 1 .. issued
    BY <1>1, <1>3 DEF QuietStep, TokensInv, PresentedExists, RequestStates, None
  <2> QED
    BY <1>2, <1>3, <2>1, FamilyOf DEF QuietStep, NothingReplayed
<1>4. CASE /\ ReadRow(q) /\ req[q].pc = "sent" /\ req[q].kind = "refresh"
           /\ req'[q].presented = req[q].presented
           /\ req'[q].tab = req[q].tab
  <2> DEFINE k == req[q].presented
  <2>1. k \in revoked /\ UNCHANGED <<family, ended>>
    BY <1>1, <1>4
    DEF ReadRow, Move, rows, QuietStep, TokensInv, TypeOK, RequestStates
  <2>2. k # None
    BY <2>1 DEF QuietStep, TokensInv, TypeOK, None
  <2>3. Sound(k)
    BY <1>4, <2>2 DEF QuietStep, PresentedSound, Refreshing
  <2> QED
    BY <1>4, <2>1, <2>3 DEF Sound
<1> QED
  BY <1>3, <1>4, RequestFields

LEMMA CookieSoundStep ==
    ASSUME QuietStep
    PROVE  CookieSound'
<1> SUFFICES ASSUME NEW t \in Lone, NEW k, k = cookie'[BrowserOf[t]], k # None,
                    \A r \in Requests : ~ (/\ Refreshing(r)' /\ req'[r].tab = t
                                           /\ req'[r].pc = "ok")
             PROVE  k \notin revoked' \/ family'[k] \in ended'
  BY DEF CookieSound, Sound
<1>0. /\ cookie = [b \in Browsers |-> cookie[b]]
      /\ t \in Tabs /\ BrowserOf[t] \in Browsers
      /\ \A r \in Requests : req[r] \in RequestStates
      /\ cookie[BrowserOf[t]] \in 0 .. issued
  BY RefreshTokensAssumption DEF QuietStep, TokensInv, TypeOK, RequestStates, Lone
<1>1. ASSUME NEW r \in Requests, Return(r), req[r].tab = t, k = req[r].got
      PROVE  k \notin revoked' \/ family'[k] \in ended'
  BY <1>1 DEF Return, rows, QuietStep, GotSound, Sound
<1>2. CASE k = issued + 1 /\ Login(t)
  <2>1. k \notin revoked /\ revoked' = revoked
    BY <1>2 DEF Login, QuietStep, TokensInv, TypeOK
  <2> QED
    BY <2>1
<1>3. ASSUME k = cookie[BrowserOf[t]],
             ~ \E r \in Requests :
                  Return(r) /\ req[r].tab = t /\ k = req[r].got
      PROVE  k \notin revoked' \/ family'[k] \in ended'
  <2>1. k \in 1 .. issued
    BY <1>0, <1>3 DEF None
  <2>2. ASSUME NEW r \in Requests, Refreshing(r), req[r].tab = t,
               req[r].pc = "ok"
        PROVE  FALSE
    <3>1. req'[r] # req[r]
      BY <2>2 DEF Refreshing
    <3>2. Return(r)
      BY <2>2, <3>1, RequestStep
      DEF Rotate, ReadRow, Revoke
    <3>3. cookie'[BrowserOf[t]] = req[r].got
      BY <1>0, <2>2, <3>2 DEF Return
    <3> QED
      BY <1>3, <2>2, <3>2, <3>3
  <2>3. Sound(k)
    BY <1>3, <2>2 DEF QuietStep, CookieSound
  <2>4. Held(BrowserOf[t], k)
    BY <1>3 DEF Held
  <2>5. ASSUME NEW r \in Requests, Rotate(r), k = req[r].presented
        PROVE  FALSE
    <3>1. req[r].tab = t
      BY <2>4, <2>5, RotationIsOwn
    <3>2. req[r].kind = "refresh"
      BY <2>5 DEF Rotate, QuietStep, LiveRefreshes
    <3>3. req'[r].tab = t /\ req'[r].pc = "ok" /\ req'[r].kind = "refresh"
      BY <1>0, <2>5, <3>1, <3>2
      DEF Rotate, RequestStates, QuietStep, TokensInv, TypeOK
    <3> QED
      BY <3>3 DEF Refreshing
  <2>6. Sound(k)'
    BY <2>1, <2>3, <2>4, <2>5, SoundStep
  <2> QED
    BY <2>6 DEF Sound
<1>4. ASSUME NEW u \in Tabs, NEW v,
             cookie' = [cookie EXCEPT ![BrowserOf[u]] = v]
      PROVE  k = cookie[BrowserOf[t]] \/ (u = t /\ k = v)
  <2>1. CASE BrowserOf[u] = BrowserOf[t]
    BY <1>0, <1>4, <2>1, LoneIsAlone
  <2>2. CASE BrowserOf[u] # BrowserOf[t]
    BY <1>0, <1>4, <2>2
  <2> QED
    BY <2>1, <2>2
<1>5. ASSUME NEW u \in Tabs, Login(u)
      PROVE  k = cookie[BrowserOf[t]] \/ (k = issued + 1 /\ Login(t))
  <2>1. cookie' = [cookie EXCEPT ![BrowserOf[u]] = issued + 1]
    BY <1>5 DEF Login, Issue
  <2> QED
    BY <1>4, <1>5, <2>1
<1>6. ASSUME NEW r \in Requests, Return(r)
      PROVE  k = cookie[BrowserOf[t]] \/ (req[r].tab = t /\ k = req[r].got)
  <2>1. req[r].tab \in Tabs
    BY <1>0, <1>6 DEF Return, RequestStates
  <2>2. \/ cookie' = cookie
        \/ cookie' = [cookie EXCEPT ![BrowserOf[req[r].tab]] = req[r].got]
    BY <1>6 DEF Return
  <2> QED
    BY <1>4, <2>1, <2>2
<1>7. \/ cookie' = cookie
      \/ \E u \in Tabs : Login(u)
      \/ \E r \in Requests : Return(r)
  BY QuietActions
  DEF AskRefresh, AskLogout, QuietBoot, Boot, ReadRow, RevokeFamily, Rotate,
      Revoke, RequestFails, Lapse, vars
<1>8. CASE \E r \in Requests : Return(r) /\ req[r].tab = t /\ k = req[r].got
  BY <1>1, <1>8
<1> QED
  BY <1>2, <1>3, <1>5, <1>6, <1>7, <1>8

(* What keeps the spent tokens out of the cookies is inductive.            *)
LEMMA UndisturbedStep ==
    ASSUME TokensInv, Undisturbed, [Next]_vars
    PROVE  Undisturbed'
<1> SUFFICES ASSUME mishaps' = 0
             PROVE  /\ Orderly' /\ Apart' /\ LiveRefreshes'
                    /\ CookieSound' /\ PresentedSound' /\ GotSound'
                    /\ NothingReplayed'
  BY DEF Undisturbed
<1>1. mishaps' = mishaps \/ mishaps' = mishaps + 1
  BY DEF Next, vars, Mishap, Login, AskRefresh, Boot, AskLogout, ReadRow,
         RevokeFamily, Rotate, Revoke, RequestFails, Return, Lose, Discard,
         Lapse
<1>2. mishaps = 0
  BY <1>1 DEF TokensInv, TypeOK
<1>3. QuietStep
  BY <1>2 DEF QuietStep, Undisturbed
<1> QED
  BY <1>3, OrderlyStep, ApartStep, LiveRefreshesStep, CookieSoundStep,
     PresentedSoundStep, GotSoundStep, NothingReplayedStep

(* The detection of reuse never takes the rotations, logouts and reloads   *)
(* of a tab that has its browser to itself for a stolen token, however     *)
(* many tabs share the other browsers.                                     *)
THEOREM NoFalseAlarmAlone == Spec => []NoFalseAlarm
<1>1. Init => Undisturbed
  <2> SUFFICES ASSUME Init PROVE Undisturbed
    OBVIOUS
  <2>1. /\ \A r \in Requests : req[r].pc = "free" /\ req[r].got = None
        /\ \A t \in Tabs : cookie[BrowserOf[t]] = None
        /\ issued = 0
    BY RefreshTokensAssumption DEF Init, Free
  <2>2. Orderly /\ LiveRefreshes /\ PresentedSound /\ GotSound /\ NothingReplayed
    BY <2>1 DEF Orderly, LiveRefreshes, PresentedSound, GotSound, NothingReplayed,
                Refreshing
  <2>3. CookieSound /\ Apart
    BY <2>1 DEF CookieSound, Apart, Lone
  <2> QED
    BY <2>2, <2>3 DEF Undisturbed
<1>2. TokensInv /\ Undisturbed /\ [Next]_vars => Undisturbed'
  BY UndisturbedStep
<1>3. Undisturbed => NoFalseAlarm
  BY DEF Undisturbed, NoFalseAlarm, NothingReplayed
<1> QED
  BY <1>1, <1>2, <1>3, TokensInvariant, PTL DEF Spec
=============================================================================
