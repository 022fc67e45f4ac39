----------------------------- MODULE OutboxTabs -----------------------------
(***************************************************************************)
(* The outboxes of one browser's tabs over the one localStorage key they   *)
(* share, and the users who log in there.  How a message gets to the       *)
(* server is SendPath; here one that a tab holds may become stored, and    *)
(* its acknowledgement may come.                                           *)
(***************************************************************************)
EXTENDS FiniteSets

CONSTANTS Tabs, Messages, Users, Nobody

VARIABLES
    shared,                     \* localStorage['relay.outbox.v1']
    writable,                   \* whether setItem does not throw
    pages,                      \* tabs that have the page loaded
    outbox,                     \* useChatStore.outbox of each tab
    user,                       \* whose session the tab has
    author,                     \* who wrote a message
    sender                      \* as whom the server stored it

vars == <<shared, writable, pages, outbox, user, author, sender>>

Composed == {m \in Messages : author[m] # Nobody}
Stored == {m \in Messages : sender[m] # Nobody}

Init ==
    /\ shared = {} /\ writable \in BOOLEAN
    /\ pages = {}
    /\ outbox = [t \in Tabs |-> {}] /\ user = [t \in Tabs |-> Nobody]
    /\ author = [m \in Messages |-> Nobody] /\ sender = author

(* saveOutbox: the whole entry, with what this tab knows.                  *)
Save(entries) == shared' = IF writable THEN entries ELSE shared

(* A page is loaded, and loadOutbox runs: once for the life of the page.    *)
Load(t) ==
    /\ t \notin pages
    /\ pages' = pages \union {t}
    /\ outbox' = [outbox EXCEPT ![t] = shared]
    /\ UNCHANGED <<shared, writable, user, author, sender>>

(* A session of u: the boot's refresh, or a login.                         *)
Login(t, u) ==
    /\ t \in pages /\ user[t] = Nobody
    /\ user' = [user EXCEPT ![t] = u]
    /\ UNCHANGED <<shared, writable, pages, outbox, author, sender>>

(* The user logs out; the store stays as it is until the page goes.        *)
Logout(t) ==
    /\ user[t] # Nobody
    /\ user' = [user EXCEPT ![t] = Nobody]
    /\ UNCHANGED <<shared, writable, pages, outbox, author, sender>>

(* The tab is closed, or reloaded.                                         *)
Close(t) ==
    /\ t \in pages
    /\ pages' = pages \ {t}
    /\ user' = [user EXCEPT ![t] = Nobody]
    /\ outbox' = [outbox EXCEPT ![t] = {}]
    /\ UNCHANGED <<shared, writable, author, sender>>

Enqueue(t, m) ==
    /\ user[t] # Nobody /\ author[m] = Nobody
    /\ author' = [author EXCEPT ![m] = user[t]]
    /\ outbox' = [outbox EXCEPT ![t] = @ \union {m}]
    /\ Save(outbox'[t])
    /\ UNCHANGED <<writable, pages, user, sender>>

(* An attempt of deliver or flushOutbox is stored, as the socket's user's. *)
Deliver(t, m) ==
    /\ user[t] # Nobody /\ m \in outbox[t] /\ sender[m] = Nobody
    /\ sender' = [sender EXCEPT ![m] = user[t]]
    /\ UNCHANGED <<shared, writable, pages, outbox, user, author>>

ResolveOutbox(t, m) ==
    /\ m \in outbox[t] \cap Stored
    /\ outbox' = [outbox EXCEPT ![t] = @ \ {m}]
    /\ Save(outbox'[t])
    /\ UNCHANGED <<writable, pages, user, author, sender>>

Next ==
    \E t \in Tabs :
        \/ Load(t) \/ Close(t)
        \/ (\E u \in Users : Login(t, u)) \/ Logout(t)
        \/ \E m \in Messages : Enqueue(t, m) \/ Deliver(t, m) \/ ResolveOutbox(t, m)

Spec == Init /\ [][Next]_vars

TypeOK ==
    /\ shared \subseteq Messages /\ writable \in BOOLEAN
    /\ pages \subseteq Tabs
    /\ outbox \in [Tabs -> SUBSET Messages]
    /\ user \in [Tabs -> Users \union {Nobody}]
    /\ {author, sender} \subseteq [Messages -> Users \union {Nobody}]

(* A message stays until the server acks it, so closing the tab mid-send,  *)
(* losing the network, or the server restarting all end the same way       *)
(* (outbox.js:6-10).  It does not when another tab saves its own copy and  *)
(* the tab that wrote it goes.                                             *)
KeptUntilStored ==
    writable => \A m \in Composed \ Stored :
                    m \in shared \/ \E t \in Tabs : m \in outbox[t]

(* A message is stored as its author's.  One left in the outbox goes out   *)
(* under whoever logs in next and is in the conversation too.              *)
StoredAsAuthors == \A m \in Stored : sender[m] = author[m]
=============================================================================
