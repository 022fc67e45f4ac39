----------------------------- MODULE ThreadView -----------------------------
(***************************************************************************)
(* What one tab holds of a conversation, and how it gets there: history    *)
(* pages when it is opened and scrolled back, live messages and the gap    *)
(* repairs they start, and pages of the backlog.                           *)
(*                                                                         *)
(* How messages reach the tab is Delivery's matter: here a stored message  *)
(* may arrive live or not, and any page of the backlog may arrive.  Nor    *)
(* are numbers allocated: one that is never stored was burned, one stored  *)
(* after a later one was late.                                             *)
(***************************************************************************)
EXTENDS MessageStore

CONSTANTS
    MaxSeq,                     \* bound on sequence numbers
    Page,                       \* the history page of the client
    MaxPage,                    \* MAX_PAGE
    Fits,                       \* messages the pane shows without scrolling
    MaxFaults                   \* bound on failed requests and reloads

ASSUME ThreadViewAssumption ==
    /\ MaxSeq \in Nat
    /\ Page \in Nat \ {0} /\ MaxPage \in Nat \ {0}
    /\ Fits \in Nat
    /\ MaxFaults \in Nat

VARIABLES
    log,                        \* stored messages
    news,                       \* message:new on its way to the tab
    shown,                      \* the conversation is the active one
    known,                      \* it has an entry in threads
    have,                       \* byId
    hasMore,
    loading,
    load,                       \* the history request in flight
    fetches,                    \* gap repairs in flight
    past,                       \* stored below a cursor when a page was read
    jumped,                     \* numbers gone below without being asked for
    faults

thread == <<known, have, hasMore, loading>>
vars == <<log, news, shown, known, have, hasMore, loading, load, fetches,
          past, jumped, faults>>

Seqs == 1 .. MaxSeq

NoLoad == [pc |-> "none", before |-> 0, messages |-> {}, hasMore |-> FALSE]
Loads == [pc : {"none", "sent", "page"}, before : 0 .. MaxSeq + 1,
          messages : SUBSET Seqs, hasMore : BOOLEAN]

Fetches == [after : 0 .. MaxSeq, before : Seqs]

(* The numbers below everything in S: what scrolling back has yet to reach. *)
Under(S) == {s \in Seqs : \A t \in S : s < t}

(* The log may have a past; the page has just been loaded.                 *)
Init ==
    /\ log \in SUBSET Seqs
    /\ news = {}
    /\ shown = FALSE
    /\ known = FALSE /\ have = {} /\ hasMore = TRUE /\ loading = FALSE
    /\ load = NoLoad /\ fetches = {}
    /\ past = {} /\ jumped = {}
    /\ faults = 0

Fault == faults < MaxFaults /\ faults' = faults + 1

-----------------------------------------------------------------------------
(* A message is stored, and is broadcast to this tab or not.               *)
Store(s) ==
    /\ s \in Seqs \ log
    /\ log' = log \union {s}
    /\ news' \in {news, news \union {s}}
    /\ UNCHANGED <<shown, thread, load, fetches, past, jumped, faults>>

(* mergeMessages creates the thread if there is none.                      *)
Merge(seqs) ==
    /\ known' = TRUE
    /\ have' = have \union seqs

(* A merge nobody scrolled for: jumped remembers the numbers between what  *)
(* it brought and the oldest message there was.                            *)
MergeUnasked(seqs) ==
    /\ Merge(seqs)
    /\ jumped' = jumped \union (Under(have) \ (Under(have \union seqs) \union seqs))

(* detectGap, after a merge that made the thread T.                        *)
DetectGap(T) ==
    fetches' = IF Highest(T) <= Contiguous(T) + 1 THEN fetches
               ELSE fetches \union {[after |-> Contiguous(T), before |-> Highest(T)]}

(* message:new                                                             *)
Hear(s) ==
    /\ s \in news
    /\ news' = news \ {s}
    /\ MergeUnasked({s})
    /\ DetectGap(have \union {s})
    /\ UNCHANGED <<log, shown, hasMore, loading, load, past, faults>>

(* message:backlog, from whatever cursor the drain or request had.         *)
Backlog(afterSeq) ==
    LET page == ListUndelivered(log, afterSeq, MaxPage).messages
    IN  /\ ~ (page \subseteq have)
        /\ MergeUnasked(page)
        /\ UNCHANGED <<log, news, shown, hasMore, loading, load, fetches,
                       past, faults>>

FetchReturns(f) ==
    /\ f \in fetches
    /\ fetches' = fetches \ {f}
    /\ MergeUnasked(ListRange(log, f.after, f.before, MaxPage))
    /\ UNCHANGED <<log, news, shown, hasMore, loading, load, past, faults>>

FetchFails(f) ==
    /\ Fault
    /\ f \in fetches
    /\ fetches' = fetches \ {f}
    /\ UNCHANGED <<log, news, shown, thread, load, past, jumped>>

-----------------------------------------------------------------------------
AskHistory(before) ==
    /\ loading' = TRUE
    /\ load' = [NoLoad EXCEPT !.pc = "sent", !.before = before]

(* The conversation is chosen: its first page is loaded if there is no     *)
(* thread, and only then.                                                  *)
Open ==
    /\ ~ shown
    /\ shown' = TRUE
    /\ known' = TRUE
    /\ IF known THEN UNCHANGED <<loading, load>> ELSE AskHistory(MaxSeq + 1)
    /\ UNCHANGED <<log, news, have, hasMore, fetches, past, jumped, faults>>

Leave ==
    /\ shown
    /\ shown' = FALSE
    /\ UNCHANGED <<log, news, thread, load, fetches, past, jumped, faults>>

(* A pane that does not overflow has no scroll events.                     *)
CanScroll == shown /\ hasMore /\ ~ loading /\ Cardinality(have) > Fits

(* onScroll near the top: the page before the oldest message there is.     *)
LoadOlder ==
    /\ CanScroll
    /\ AskHistory(Lowest(have))
    /\ UNCHANGED <<log, news, shown, known, have, hasMore, fetches, past,
                   jumped, faults>>

(* The server reads the page; past remembers all there was for it to read. *)
Serve ==
    LET page == ListHistory(log, load.before, Page)
    IN  /\ load.pc = "sent"
        /\ load' = [load EXCEPT !.pc = "page", !.messages = page.messages,
                                !.hasMore = page.hasMore]
        /\ past' = past \union {s \in log : s < load.before}
        /\ UNCHANGED <<log, news, shown, thread, fetches, jumped, faults>>

(* Mutant: the answer's hasMore is not kept.                               *)
LoadReturnsForgetsMore ==
    /\ load.pc = "page"
    /\ Merge(load.messages)
    /\ loading' = FALSE /\ load' = NoLoad
    /\ UNCHANGED <<log, news, shown, hasMore, fetches, past, jumped, faults>>

LoadReturns ==
    /\ load.pc = "page"
    /\ Merge(load.messages)
    /\ hasMore' = load.hasMore /\ loading' = FALSE /\ load' = NoLoad
    /\ UNCHANGED <<log, news, shown, fetches, past, jumped, faults>>

(* Mutant: a failed page leaves the thread loading.                        *)
LoadFailsSilently ==
    /\ Fault
    /\ load.pc # "none"
    /\ load' = NoLoad
    /\ UNCHANGED <<log, news, shown, thread, fetches, past, jumped>>

(* The request or its response is lost.                                    *)
LoadFails ==
    /\ Fault
    /\ load.pc # "none"
    /\ loading' = FALSE /\ load' = NoLoad
    /\ UNCHANGED <<log, news, shown, known, have, hasMore, fetches, past, jumped>>

(* The tab is reloaded.                                                    *)
Reload ==
    /\ Fault
    /\ shown' = FALSE
    /\ known' = FALSE /\ have' = {} /\ hasMore' = TRUE /\ loading' = FALSE
    /\ load' = NoLoad /\ fetches' = {} /\ news' = {}
    /\ past' = {} /\ jumped' = {}
    /\ UNCHANGED log

-----------------------------------------------------------------------------
Next ==
    \/ \E s \in Seqs : Store(s) \/ Hear(s)
    \/ \E afterSeq \in 0 .. MaxSeq : Backlog(afterSeq)
    \/ \E f \in fetches : FetchReturns(f) \/ FetchFails(f)
    \/ Open \/ Leave \/ LoadOlder \/ Serve \/ LoadReturns \/ LoadFails
    \/ Reload

Spec == Init /\ [][Next]_vars

(* Requests are answered or fail, and a reader who can scroll back does.   *)
(* What is stored, which conversation is open and faults are not fair.     *)
FairSpec ==
    /\ Spec
    /\ WF_vars(Serve) /\ WF_vars(LoadReturns) /\ WF_vars(LoadOlder)
    /\ WF_vars(\E f \in fetches : FetchReturns(f))

-----------------------------------------------------------------------------
TypeOK ==
    /\ log \subseteq Seqs /\ news \subseteq log
    /\ shown \in BOOLEAN /\ known \in BOOLEAN
    /\ have \subseteq log
    /\ ~ known => have = {} /\ ~ loading
    /\ hasMore \in BOOLEAN
    /\ load \in Loads /\ load.messages \subseteq log
    /\ loading \in BOOLEAN
    /\ loading <=> load.pc # "none"
    /\ fetches \subseteq Fetches
    /\ past \subseteq log /\ jumped \subseteq Seqs
    /\ faults \in 0 .. MaxFaults

(* Scrolling back leaves nothing out: what the log held below the cursor   *)
(* of a history page is in the thread or on the page that is coming, or    *)
(* still below both, whichever pages failed in between.  The exception is  *)
(* what a live message, a repair or a backlog page jumped over.  And when  *)
(* the pane says "Start of the conversation", nothing else is left out.    *)
HistoryLeavesNoGap ==
    LET T == have \union load.messages
    IN  /\ past \subseteq T \union Under(T) \union jumped
        /\ ~ hasMore => past \subseteq have \union jumped

(* And it comes to the start: one failed page or another, a conversation   *)
(* that stays open and overflows its pane can be scrolled to its start.    *)
HistoryReached ==
    <>[](shown /\ Cardinality(have) > Fits) => <>(~ hasMore)

(* What that rests on: a page that promises another brings something from  *)
(* below its cursor, so that the next request asks further down.           *)
PagesDescend ==
    [][LoadReturns => ~ hasMore' \/ \E s \in have' : s < load.before]_vars

-----------------------------------------------------------------------------
(* A statement of the repository a run refutes.                            *)

(* "Repairs holes in the sequence. Seeing seq 8 when we have only up to 6  *)
(* means 7 is missing [...] Fetch the span" (socket.js): a repair that is  *)
(* answered leaves nothing of its span missing.                            *)
HolesRepaired ==
    [][\A f \in fetches \ fetches' : faults' = faults =>
          {s \in log : f.after < s /\ s < f.before} \subseteq have']_vars

(* Where it is true: of a span that fits in one page.                      *)
ShortHolesRepaired ==
    [][\A f \in fetches \ fetches' :
          LET span == {s \in log : f.after < s /\ s < f.before}
          IN  faults' = faults /\ Cardinality(span) <= MaxPage
                  => span \subseteq have']_vars
=============================================================================
