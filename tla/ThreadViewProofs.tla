-------------------------- MODULE ThreadViewProofs --------------------------
(* Theorems about ThreadView, for every length of the log, every page size *)
(* and every number of faults.                                             *)
EXTENDS ThreadView, FiniteSetTheorems, WellFoundedInduction, TLAPS

(* What the queries and computations of MessageStore return, for every     *)
(* log and every page size.                                                *)
LEMMA NatMin ==
    ASSUME NEW T \in SUBSET Nat, T # {}
    PROVE  \E x \in T : \A y \in T : x <= y
<1>1. \E x \in T : \A y \in T : ~ (<<y, x>> \in OpToRel(<, Nat))
  BY NatLessThanWellFounded, WFMin
<1>2. PICK x \in T : \A y \in T : ~ (<<y, x>> \in OpToRel(<, Nat))
  BY <1>1
<1>3. ASSUME NEW y \in T PROVE x <= y
  <2>1. ~ (y < x)
    BY <1>2 DEF OpToRel
  <2> QED
    BY <2>1
<1> QED
  BY <1>3

LEMMA LowestFact ==
    ASSUME NEW T \in SUBSET Nat, T # {}
    PROVE  Lowest(T) \in T /\ \A t \in T : Lowest(T) <= t
<1>1. \E x \in T : \A y \in T : x <= y
  BY NatMin
<1> QED
  BY <1>1 DEF Lowest

LEMMA HighestFact ==
    ASSUME NEW b \in Nat, NEW T \in SUBSET (0 .. b), T # {}
    PROVE  Highest(T) \in T /\ \A t \in T : t <= Highest(T)
<1> DEFINE U == {b - x : x \in T}
<1>1. U \subseteq Nat /\ U # {}
  <2>1. \A x \in T : b - x \in Nat
    OBVIOUS
  <2> QED
    BY <2>1
<1>2. PICK u \in U : \A v \in U : u <= v
  <2> HIDE DEF U
  <2> QED
    BY <1>1, NatMin
<1>3. PICK x \in T : u = b - x
  OBVIOUS
<1>4. ASSUME NEW y \in T PROVE y <= x
  <2>1. b - y \in U
    OBVIOUS
  <2> QED
    BY <2>1, <1>2, <1>3
<1> QED
  BY <1>4 DEF Highest

LEMMA ContiguousTyped ==
    ASSUME NEW b \in Nat, NEW T \in SUBSET (1 .. b)
    PROVE  Contiguous(T) \in 0 .. b
<1> DEFINE U == {n \in Nat : n + 1 \notin T}
           P(x) == 1 .. x \subseteq T /\ x + 1 \notin T
<1>1. PICK n \in U : \A m \in U : n <= m
  <2>1. b \in U /\ U \in SUBSET Nat
    OBVIOUS
  <2> HIDE DEF U
  <2> QED
    BY <2>1, NatMin
<1>2. ASSUME NEW k \in 1 .. n PROVE k \in T
  <2>1. k - 1 \in Nat /\ k - 1 < n
    BY <1>1
  <2>2. k - 1 \notin U
    BY <2>1, <1>1
  <2> QED
    BY <2>1, <2>2
<1>3. n \in {0} \union T
  BY <1>1, <1>2
<1>4. P(n)
  BY <1>1, <1>2
<1> HIDE DEF P
<1>5. (CHOOSE x \in {0} \union T : P(x)) \in {0} \union T
  BY <1>3, <1>4, Zenon
<1>6. Contiguous(T) \in {0} \union T
  BY <1>5, Zenon DEF Contiguous, P
<1>7. {0} \union T \subseteq 0 .. b
  OBVIOUS
<1> QED
  BY <1>6, <1>7

LEMMA BoundedFinite ==
    ASSUME NEW b \in Nat, NEW S \in SUBSET (0 .. b)
    PROVE  IsFiniteSet(S) /\ Cardinality(S) \in Nat
<1>1. IsFiniteSet(0 .. b)
  BY FS_Interval
<1>2. IsFiniteSet(S)
  BY <1>1, FS_Subset
<1> QED
  BY <1>2, FS_CardinalityType

(* Newest is a sorted, limited query in descending order: whatever it      *)
(* leaves out is older than all it returns, and it leaves something out    *)
(* only of more than the limit.                                            *)
THEOREM NewestPage ==
    ASSUME NEW b \in Nat, NEW S \in SUBSET (0 .. b), NEW n \in Nat
    PROVE  /\ Newest(S, n) \subseteq S
           /\ \A s \in S \ Newest(S, n), t \in Newest(S, n) : s < t
           /\ Newest(S, n) # S => Cardinality(S) > n
<1> DEFINE Above(s) == {t \in S : t > s}
<1>1. \A s \in S : /\ IsFiniteSet(Above(s))
                   /\ Cardinality(Above(s)) \in Nat
  <2> TAKE s \in S
  <2>1. Above(s) \in SUBSET (0 .. b)
    OBVIOUS
  <2> HIDE DEF Above
  <2> QED
    BY <2>1, BoundedFinite
<1>2. Newest(S, n) = {s \in S : Cardinality(Above(s)) < n}
  BY DEF Newest
<1>3. ASSUME NEW s \in S \ Newest(S, n), NEW t \in Newest(S, n)
      PROVE  s < t
  <2>1. t \in S /\ t # s
    BY DEF Newest
  <2>2. SUFFICES ASSUME t < s PROVE FALSE
    BY <2>1
  <2>3. Above(s) \in SUBSET Above(t)
    <3>1. \A u \in S : u > s => u > t
      BY <2>1, <2>2
    <3> QED
      BY <3>1
  <2> HIDE DEF Above
  <2>4. Cardinality(Above(s)) <= Cardinality(Above(t))
    BY <2>1, <2>3, <1>1, FS_Subset
  <2> QED
    BY <2>1, <2>4, <1>1, <1>2
<1>4. Newest(S, n) \subseteq S
  BY DEF Newest
<1>5. ASSUME NEW s \in S \ Newest(S, n) PROVE Cardinality(S) > n
  <2>1. Cardinality(Above(s)) >= n
    <3> HIDE DEF Above
    <3> QED
      BY <1>1, <1>2
  <2>2. /\ IsFiniteSet(Above(s) \cup {s})
        /\ Cardinality(Above(s) \cup {s}) = Cardinality(Above(s)) + 1
    <3>1. s \notin Above(s)
      OBVIOUS
    <3> HIDE DEF Above
    <3> QED
      BY <3>1, <1>1, FS_AddElement
  <2>3. Above(s) \cup {s} \in SUBSET S
    OBVIOUS
  <2> HIDE DEF Above
  <2>4. Cardinality(Above(s) \cup {s}) <= Cardinality(S) /\ Cardinality(S) \in Nat
    BY <2>3, BoundedFinite, FS_Subset
  <2> QED
    BY <2>1, <2>2, <2>4, <1>1
<1> QED
  BY <1>3, <1>4, <1>5

-----------------------------------------------------------------------------
(* What the thread accounts for: held, still below, or jumped over.        *)
Accounted == have \union Under(have) \union jumped

(* Nothing lies between the cursor of a request and the thread, so the     *)
(* page joins the thread wherever the thread has come to meanwhile.        *)
PageJoins ==
    /\ past \subseteq Accounted
    /\ load.pc # "page" => load.messages = {}
    /\ load.pc = "sent" =>
          /\ \A s \in Under(have) : s < load.before
          /\ \A s \in Seqs : s < load.before => s \in Accounted
    /\ load.pc = "page" =>
          past \intersect Under(have) \subseteq
              load.messages \union Under(load.messages)

(* A page without more brings all that is left below, and the last one     *)
(* asked for: hasMore is false only once such a page is in the thread.     *)
StartKnown ==
    /\ ~ hasMore => known /\ load.pc = "none" /\ past \subseteq have \union jumped
    /\ load.pc = "page" /\ ~ load.hasMore =>
          past \subseteq have \union load.messages \union jumped

ViewInv == TypeOK /\ PageJoins /\ StartKnown

-----------------------------------------------------------------------------
LEMMA LogInRange ==
    ASSUME TypeOK
    PROVE  log \in SUBSET (0 .. MaxSeq) /\ have \in SUBSET (0 .. MaxSeq)
BY ThreadViewAssumption DEF TypeOK, Seqs

LEMMA MergeTyped ==
    ASSUME TypeOK, NEW seqs \in SUBSET log, MergeUnasked(seqs)
    PROVE  /\ known' = TRUE
           /\ have' \subseteq log
           /\ jumped' \subseteq Seqs
BY DEF TypeOK, MergeUnasked, Merge, Under

(* A merge nobody scrolled for keeps everything accounted for.             *)
LEMMA MergeAccounts ==
    ASSUME NEW seqs, MergeUnasked(seqs)
    PROVE  Accounted \subseteq Accounted' /\ Under(have)' \subseteq Under(have)
<1>1. have \subseteq have' /\ seqs \subseteq have' /\ jumped \subseteq jumped'
  BY DEF MergeUnasked, Merge
<1>2. Under(have)' \subseteq Under(have)
  BY <1>1 DEF Under
<1>3. Under(have) \subseteq Under(have)' \union seqs \union jumped'
  BY DEF MergeUnasked, Merge
<1> QED
  BY <1>1, <1>2, <1>3 DEF Accounted

(* Whatever grows the thread so, and touches no request, keeps PageJoins.  *)
LEMMA MergeJoins ==
    ASSUME PageJoins, NEW seqs, MergeUnasked(seqs), UNCHANGED <<load, past>>
    PROVE  PageJoins'
BY MergeAccounts DEF PageJoins

LEMMA MergeStart ==
    ASSUME StartKnown, NEW seqs, MergeUnasked(seqs),
           UNCHANGED <<hasMore, load, past>>
    PROVE  StartKnown'
BY DEF StartKnown, MergeUnasked, Merge

LEMMA GapTyped ==
    ASSUME TypeOK, NEW T \in SUBSET Seqs, T # {}, DetectGap(T)
    PROVE  fetches' \subseteq Fetches
<1>1. T \in SUBSET (0 .. MaxSeq) /\ T \in SUBSET (1 .. MaxSeq)
  BY DEF Seqs
<1>2. Contiguous(T) \in 0 .. MaxSeq
  BY <1>1, ContiguousTyped, ThreadViewAssumption
<1>3. Highest(T) \in Seqs
  BY <1>1, HighestFact, ThreadViewAssumption
<1> QED
  BY <1>2, <1>3 DEF TypeOK, DetectGap, Fetches

LEMMA FaultTyped ==
    ASSUME TypeOK, Fault
    PROVE  faults' \in 0 .. MaxFaults
BY ThreadViewAssumption DEF TypeOK, Fault

-----------------------------------------------------------------------------
LEMMA InitViewInv == Init => ViewInv
<1> SUFFICES ASSUME Init PROVE ViewInv
  OBVIOUS
<1>1. /\ NoLoad \in Loads /\ NoLoad.messages = {} /\ NoLoad.pc = "none"
      /\ 0 \in 0 .. MaxFaults
  BY ThreadViewAssumption DEF NoLoad, Loads
<1>2. TypeOK
  BY <1>1 DEF Init, TypeOK
<1>3. PageJoins
  BY <1>1 DEF Init, PageJoins
<1>4. StartKnown
  BY <1>1 DEF Init, StartKnown
<1> QED
  BY <1>2, <1>3, <1>4 DEF ViewInv

(* A request is well formed.                                               *)
LEMMA AskTyped ==
    ASSUME NEW n \in 0 .. MaxSeq + 1, AskHistory(n)
    PROVE  /\ load' \in Loads /\ loading' = TRUE
           /\ load'.pc = "sent" /\ load'.before = n /\ load'.messages = {}
BY DEF AskHistory, NoLoad, Loads

LEMMA StoreKeeps ==
    ASSUME ViewInv, NEW s \in Seqs, Store(s)
    PROVE  ViewInv'
<1>1. TypeOK'
  BY DEF ViewInv, TypeOK, Store, thread
<1>2. PageJoins'
  BY DEF ViewInv, PageJoins, Accounted, Store, thread
<1>3. StartKnown'
  BY DEF ViewInv, StartKnown, Store, thread
<1> QED
  BY <1>1, <1>2, <1>3 DEF ViewInv

LEMMA HearKeeps ==
    ASSUME ViewInv, NEW s \in Seqs, Hear(s)
    PROVE  ViewInv'
<1>1. s \in log /\ have \union {s} \subseteq Seqs
  BY DEF ViewInv, TypeOK, Hear
<1>2. fetches' \subseteq Fetches
  BY <1>1, GapTyped DEF ViewInv, Hear
<1>3. TypeOK'
  BY <1>1, <1>2, MergeTyped DEF ViewInv, TypeOK, Hear
<1>4. PageJoins'
  BY MergeJoins DEF ViewInv, Hear
<1>5. StartKnown'
  BY MergeStart DEF ViewInv, Hear
<1> QED
  BY <1>3, <1>4, <1>5 DEF ViewInv

LEMMA BacklogKeeps ==
    ASSUME ViewInv, NEW n \in 0 .. MaxSeq, Backlog(n)
    PROVE  ViewInv'
<1> DEFINE page == ListUndelivered(log, n, MaxPage).messages
<1>1. page \subseteq log
  BY DEF ListUndelivered, Oldest
<1>2. /\ MergeUnasked(page)
      /\ UNCHANGED <<log, news, shown, hasMore, loading, load, fetches, past,
                     faults>>
  BY DEF Backlog
<1> HIDE DEF page
<1>3. TypeOK'
  BY <1>1, <1>2, MergeTyped DEF ViewInv, TypeOK
<1>4. PageJoins'
  BY <1>2, MergeJoins DEF ViewInv
<1>5. StartKnown'
  BY <1>2, MergeStart DEF ViewInv
<1> QED
  BY <1>3, <1>4, <1>5 DEF ViewInv

LEMMA FetchReturnsKeeps ==
    ASSUME ViewInv, NEW f \in fetches, FetchReturns(f)
    PROVE  ViewInv'
<1> DEFINE page == ListRange(log, f.after, f.before, MaxPage)
<1>1. page \subseteq log
  BY DEF ListRange, Oldest
<1>2. /\ MergeUnasked(page) /\ fetches' = fetches \ {f}
      /\ UNCHANGED <<log, news, shown, hasMore, loading, load, past, faults>>
  BY DEF FetchReturns
<1> HIDE DEF page
<1>3. TypeOK'
  BY <1>1, <1>2, MergeTyped DEF ViewInv, TypeOK
<1>4. PageJoins'
  BY <1>2, MergeJoins DEF ViewInv
<1>5. StartKnown'
  BY <1>2, MergeStart DEF ViewInv
<1> QED
  BY <1>3, <1>4, <1>5 DEF ViewInv

LEMMA FetchFailsKeeps ==
    ASSUME ViewInv, NEW f \in fetches, FetchFails(f)
    PROVE  ViewInv'
<1>1. TypeOK'
  BY FaultTyped DEF ViewInv, TypeOK, FetchFails, thread
<1>2. PageJoins'
  BY DEF ViewInv, PageJoins, Accounted, FetchFails, thread
<1>3. StartKnown'
  BY DEF ViewInv, StartKnown, FetchFails, thread
<1> QED
  BY <1>1, <1>2, <1>3 DEF ViewInv

-----------------------------------------------------------------------------
(* Choosing a conversation with no thread asks from the end, and with no   *)
(* thread everything is still below.                                       *)
LEMMA OpenKeeps ==
    ASSUME ViewInv, Open
    PROVE  ViewInv'
<1>1. CASE known
  <2>1. TypeOK'
    BY <1>1 DEF ViewInv, TypeOK, Open
  <2>2. PageJoins'
    BY <1>1 DEF ViewInv, PageJoins, Accounted, Open
  <2>3. StartKnown'
    BY <1>1 DEF ViewInv, StartKnown, Open
  <2> QED
    BY <2>1, <2>2, <2>3 DEF ViewInv
<1>2. CASE ~ known
  <2>1. MaxSeq + 1 \in 0 .. MaxSeq + 1 /\ AskHistory(MaxSeq + 1)
    BY <1>2, ThreadViewAssumption DEF Open
  <2>2. have = {} /\ UNCHANGED <<have, past, jumped>>
    BY <1>2 DEF ViewInv, TypeOK, Open
  <2>3. \A s \in Seqs : s < MaxSeq + 1 /\ s \in Under(have)
    BY <2>2, ThreadViewAssumption DEF Seqs, Under
  <2>4. TypeOK'
    BY <2>1, AskTyped DEF ViewInv, TypeOK, Open
  <2>5. \A s \in Under(have) : s \in Seqs
    BY DEF Under
  <2>6. PageJoins'
    BY <2>1, <2>2, <2>3, <2>5, AskTyped DEF ViewInv, PageJoins, Accounted, Under
  <2>7. StartKnown'
    BY <1>2, <2>1, AskTyped DEF ViewInv, StartKnown, Open
  <2> QED
    BY <2>4, <2>6, <2>7 DEF ViewInv
<1> QED
  BY <1>1, <1>2

(* Scrolling back asks from the oldest message there is.                   *)
LEMMA LoadOlderKeeps ==
    ASSUME ViewInv, LoadOlder
    PROVE  ViewInv'
<1>1. have # {}
  <2>1. Cardinality(have) > Fits /\ Cardinality({}) = 0
    BY FS_EmptySet DEF LoadOlder, CanScroll
  <2> QED
    BY <2>1, ThreadViewAssumption
<1>2. have \in SUBSET Nat /\ have \subseteq Seqs
  BY DEF ViewInv, TypeOK, Seqs
<1>3. Lowest(have) \in have /\ \A t \in have : Lowest(have) <= t
  BY <1>1, <1>2, LowestFact
<1>4. Lowest(have) \in 0 .. MaxSeq + 1 /\ AskHistory(Lowest(have))
  <2>1. Lowest(have) \in Seqs
    BY <1>2, <1>3
  <2>2. Seqs \subseteq 0 .. MaxSeq + 1
    BY ThreadViewAssumption DEF Seqs
  <2>3. AskHistory(Lowest(have))
    BY DEF LoadOlder
  <2> QED
    BY <2>1, <2>2, <2>3
<1>5. UNCHANGED <<log, news, shown, known, have, hasMore, fetches, past, jumped,
                  faults>>
  BY DEF LoadOlder
<1>6. TypeOK'
  <2>1. known
    BY <1>1 DEF ViewInv, TypeOK
  <2> QED
    BY <1>4, <1>5, <2>1, AskTyped DEF ViewInv, TypeOK
<1>7. \A s \in Under(have) : s < Lowest(have)
  BY <1>3 DEF Under
<1>8. \A s \in Seqs : s < Lowest(have) => s \in Under(have)
  <2> SUFFICES ASSUME NEW s \in Seqs, s < Lowest(have), NEW t \in have
               PROVE  s < t
    BY DEF Under
  <2>1. s \in Nat
    BY DEF Seqs
  <2>2. t \in Nat /\ Lowest(have) \in Nat
    BY <1>2, <1>3
  <2> QED
    BY <2>1, <2>2, <1>3
<1>9. PageJoins'
  BY <1>4, <1>5, <1>7, <1>8, AskTyped DEF ViewInv, PageJoins, Accounted, Under
<1>10. StartKnown'
  <2>1. hasMore /\ hasMore' = hasMore
    BY <1>5 DEF LoadOlder, CanScroll
  <2>2. load'.pc = "sent"
    BY <1>4, AskTyped
  <2> QED
    BY <2>1, <2>2 DEF StartKnown
<1> QED
  BY <1>6, <1>9, <1>10 DEF ViewInv

(* The page is the newest of what was below the cursor, so what it leaves  *)
(* out lies below the page.                                                *)
LEMMA ServeKeeps ==
    ASSUME ViewInv, Serve
    PROVE  ViewInv'
<1> DEFINE docs == {s \in log : s < load.before}
           page == ListHistory(log, load.before, Page)
<1>1. docs \in SUBSET (0 .. MaxSeq) /\ docs \subseteq log /\ log \subseteq Seqs
  BY LogInRange DEF ViewInv, TypeOK
<1>2. /\ page.messages = Newest(docs, Page)
      /\ page.hasMore = (Cardinality(docs) > Page)
  BY DEF ListHistory
<1>3. /\ page.messages \subseteq docs
      /\ \A s \in docs \ page.messages, t \in page.messages : s < t
      /\ page.messages # docs => page.hasMore
  <2> HIDE DEF docs, page
  <2>1. Page \in Nat /\ MaxSeq \in Nat
    BY ThreadViewAssumption
  <2> QED
    <3>1. /\ Newest(docs, Page) \subseteq docs
          /\ \A s \in docs \ Newest(docs, Page), t \in Newest(docs, Page) : s < t
          /\ Newest(docs, Page) # docs => Cardinality(docs) > Page
      BY <2>1, <1>1, NewestPage
    <3> QED
      BY <3>1, <1>2
<1>4. /\ load.pc = "sent"
      /\ load' = [load EXCEPT !.pc = "page", !.messages = page.messages,
                              !.hasMore = page.hasMore]
      /\ past' = past \union docs
      /\ UNCHANGED <<log, news, shown, thread, fetches, jumped, faults>>
  BY DEF Serve
<1> HIDE DEF page
<1>5. /\ load' \in Loads /\ load'.pc = "page" /\ load'.messages = page.messages
      /\ load'.hasMore = page.hasMore
  <2>1. page.hasMore \in BOOLEAN
    BY <1>2
  <2>2. page.messages \subseteq Seqs
    BY <1>1, <1>3
  <2> QED
    BY <2>1, <2>2, <1>4 DEF ViewInv, TypeOK, Loads
<1>6. TypeOK'
  BY <1>1, <1>3, <1>4, <1>5 DEF ViewInv, TypeOK, thread
<1>7. past' \subseteq Accounted'
  BY <1>1, <1>4 DEF ViewInv, PageJoins, Accounted, thread
<1>8. past' \intersect Under(have) \subseteq docs
  <2>1. \A s \in Under(have) : s < load.before
    BY <1>4 DEF ViewInv, PageJoins
  <2> QED
    BY <2>1, <1>4 DEF ViewInv, TypeOK
<1>9. docs \subseteq page.messages \union Under(page.messages)
  BY <1>1, <1>3 DEF Under
<1>10. Under(have)' = Under(have) /\ Under(load.messages)' = Under(page.messages)
  BY <1>4, <1>5 DEF Under, thread
<1>11. PageJoins'
  BY <1>5, <1>7, <1>8, <1>9, <1>10 DEF PageJoins
<1>12. StartKnown'
  <2>1. past' \subseteq docs \union have \union jumped
    BY <1>4, <1>7, <1>8 DEF Accounted, thread
  <2> HIDE DEF docs
  <2> QED
    BY <2>1, <1>3, <1>4, <1>5 DEF ViewInv, StartKnown, thread
<1> QED
  BY <1>6, <1>11, <1>12 DEF ViewInv

LEMMA LoadReturnsKeeps ==
    ASSUME ViewInv, LoadReturns
    PROVE  ViewInv'
<1>1. /\ NoLoad \in Loads /\ NoLoad.messages = {} /\ NoLoad.pc = "none"
  BY ThreadViewAssumption DEF NoLoad, Loads
<1>2. TypeOK'
  BY <1>1 DEF ViewInv, TypeOK, LoadReturns, Merge, Loads
<1>3. have' = have \union load.messages /\ UNCHANGED <<past, jumped>>
  BY DEF LoadReturns, Merge
<1>4. Under(have) \intersect Under(load.messages) \subseteq Under(have)'
  BY <1>3 DEF Under
<1>5. past \subseteq Accounted'
  BY <1>3, <1>4 DEF ViewInv, PageJoins, Accounted, LoadReturns
<1>6. PageJoins'
  BY <1>1, <1>3, <1>5 DEF PageJoins, LoadReturns
<1>7. StartKnown'
  BY <1>1, <1>3 DEF ViewInv, StartKnown, LoadReturns, Merge
<1> QED
  BY <1>2, <1>6, <1>7 DEF ViewInv

LEMMA LoadFailsKeeps ==
    ASSUME ViewInv, LoadFails
    PROVE  ViewInv'
<1>1. /\ NoLoad \in Loads /\ NoLoad.messages = {} /\ NoLoad.pc = "none"
  BY ThreadViewAssumption DEF NoLoad, Loads
<1>2. TypeOK'
  BY <1>1, FaultTyped DEF ViewInv, TypeOK, LoadFails
<1>3. PageJoins'
  BY <1>1 DEF ViewInv, PageJoins, Accounted, LoadFails
<1>4. StartKnown'
  BY <1>1 DEF ViewInv, StartKnown, LoadFails
<1> QED
  BY <1>2, <1>3, <1>4 DEF ViewInv

LEMMA ReloadKeeps ==
    ASSUME ViewInv, Reload
    PROVE  ViewInv'
<1>1. /\ NoLoad \in Loads /\ NoLoad.messages = {} /\ NoLoad.pc = "none"
  BY ThreadViewAssumption DEF NoLoad, Loads
<1>2. TypeOK'
  BY <1>1, FaultTyped DEF ViewInv, TypeOK, Reload
<1>3. PageJoins'
  BY <1>1 DEF PageJoins, Reload
<1>4. StartKnown'
  BY <1>1 DEF StartKnown, Reload
<1> QED
  BY <1>2, <1>3, <1>4 DEF ViewInv

-----------------------------------------------------------------------------
LEMMA StepKeeps == ViewInv /\ [Next]_vars => ViewInv'
<1> SUFFICES ASSUME ViewInv, [Next]_vars PROVE ViewInv'
  OBVIOUS
<1>1. ASSUME NEW s \in Seqs, Store(s) \/ Hear(s) PROVE ViewInv'
  BY <1>1, StoreKeeps, HearKeeps
<1>2. ASSUME NEW n \in 0 .. MaxSeq, Backlog(n) PROVE ViewInv'
  BY <1>2, BacklogKeeps
<1>3. ASSUME NEW f \in fetches, FetchReturns(f) \/ FetchFails(f) PROVE ViewInv'
  BY <1>3, FetchReturnsKeeps, FetchFailsKeeps
<1>4. CASE Leave \/ UNCHANGED vars
  <2>1. TypeOK'
    <3>1. /\ shown' \in BOOLEAN
          /\ UNCHANGED <<log, news, known, have, hasMore, loading, load,
                         fetches, past, jumped, faults>>
      BY <1>4 DEF ViewInv, TypeOK, Leave, vars, thread
    <3> QED
      BY <3>1 DEF ViewInv, TypeOK
  <2>2. PageJoins'
    BY <1>4 DEF ViewInv, PageJoins, Accounted, Leave, vars, thread
  <2>3. StartKnown'
    BY <1>4 DEF ViewInv, StartKnown, Leave, vars, thread
  <2> QED
    BY <2>1, <2>2, <2>3 DEF ViewInv
<1> QED
  BY <1>1, <1>2, <1>3, <1>4, OpenKeeps, LoadOlderKeeps, ServeKeeps,
     LoadReturnsKeeps, LoadFailsKeeps, ReloadKeeps DEF Next

(* ViewInv holds whatever arrives, fails or is scrolled to, in any order   *)
(* (MessageList.jsx, socket.js).                                           *)
THEOREM ViewInvariant == Spec => []ViewInv
BY InitViewInv, StepKeeps, PTL DEF Spec

(* The thread, its requests and its repairs are always well formed.        *)
THEOREM ViewTypeCorrect == Spec => []TypeOK
<1>1. ViewInv => TypeOK
  BY DEF ViewInv
<1> QED
  BY <1>1, ViewInvariant, PTL

(* Scrolling back leaves out only what a live message, a repair or a       *)
(* backlog page jumped over, and where the pane says it is at the start    *)
(* nothing else is left out (MessageList.jsx loadOlder, listHistory).      *)
THEOREM ScrollingLeavesNoGap == Spec => []HistoryLeavesNoGap
<1>1. ViewInv => HistoryLeavesNoGap
  <2> SUFFICES ASSUME ViewInv, NEW s \in past, s \notin have, s \notin jumped
               PROVE  s \in load.messages \union Under(have \union load.messages)
    BY DEF HistoryLeavesNoGap, ViewInv, StartKnown
  <2>1. s \in Under(have)
    BY DEF ViewInv, PageJoins, Accounted
  <2>2. s \in load.messages \union Under(load.messages)
    <3>1. CASE load.pc = "page"
      BY <2>1, <3>1 DEF ViewInv, PageJoins
    <3>2. CASE load.pc # "page"
      BY <2>1, <3>2 DEF ViewInv, PageJoins, Under
    <3> QED
      BY <3>1, <3>2
  <2> QED
    BY <2>1, <2>2 DEF Under
<1> QED
  BY <1>1, ViewInvariant, PTL

-----------------------------------------------------------------------------
(* A query that finds something and may return something does.             *)
LEMMA NewestSome ==
    ASSUME NEW b \in Nat, NEW S \in SUBSET (0 .. b), S # {},
           NEW n \in Nat \ {0}
    PROVE  Newest(S, n) # {}
<1>1. Highest(S) \in S /\ \A t \in S : t <= Highest(S)
  BY HighestFact
<1>2. {t \in S : t > Highest(S)} = {}
  <2>1. S \in SUBSET Nat
    OBVIOUS
  <2>2. ASSUME NEW t \in S PROVE ~ (t > Highest(S))
    <3>1. t \in Nat /\ Highest(S) \in Nat /\ t <= Highest(S)
      BY <1>1, <2>1
    <3> QED
      BY <3>1
  <2> QED
    BY <2>2
<1>3. Cardinality({t \in S : t > Highest(S)}) < n
  BY <1>2, FS_EmptySet
<1> QED
  BY <1>1, <1>3 DEF Newest

(* A query in ascending order returns all it finds where that fits.        *)
LEMMA OldestWhole ==
    ASSUME NEW b \in Nat, NEW S \in SUBSET (0 .. b), NEW n \in Nat,
           Cardinality(S) <= n
    PROVE  Oldest(S, n) = S
<1> SUFFICES ASSUME NEW s \in S PROVE Cardinality({t \in S : t < s}) < n
  BY DEF Oldest
<1> DEFINE below == {t \in S : t < s}
<1>1. below \in SUBSET (0 .. b) /\ s \notin below /\ below \cup {s} \subseteq S
  <2>1. s \in Nat
    OBVIOUS
  <2>2. ~ (s < s)
    BY <2>1
  <2> QED
    BY <2>2
<1> HIDE DEF below
<1>2. /\ IsFiniteSet(below) /\ Cardinality(below) \in Nat
      /\ IsFiniteSet(S) /\ Cardinality(S) \in Nat
  BY <1>1, BoundedFinite
<1>3. Cardinality(below \cup {s}) = Cardinality(below) + 1
  BY <1>1, <1>2, FS_AddElement
<1>4. Cardinality(below \cup {s}) <= Cardinality(S)
  BY <1>1, <1>2, FS_Subset
<1>5. Cardinality(below) < n
  BY <1>2, <1>3, <1>4
<1> QED
  BY <1>5 DEF below

(* A page that promises another one holds something below its cursor.      *)
PageDescends ==
    load.pc = "page" /\ load.hasMore => \E s \in load.messages : s < load.before

LEMMA ServeDescends ==
    ASSUME TypeOK, Serve
    PROVE  PageDescends'
<1> DEFINE docs == {s \in log : s < load.before}
           more == Cardinality(docs) > Page
<1>1. /\ load'.messages = Newest(docs, Page) /\ load'.hasMore = more
      /\ load'.before = load.before
  BY DEF Serve, ListHistory, TypeOK, Loads
<1>2. docs \in SUBSET (0 .. MaxSeq) /\ MaxSeq \in Nat /\ Page \in Nat \ {0}
  BY LogInRange, ThreadViewAssumption
<1>3. ASSUME more PROVE \E s \in Newest(docs, Page) : s < load.before
  <2>1. docs # {}
    BY <1>2, <1>3, FS_EmptySet
  <2>2. Newest(docs, Page) # {} /\ Newest(docs, Page) \subseteq docs
    <3> HIDE DEF docs
    <3> QED
      BY <1>2, <2>1, NewestSome DEF Newest
  <2> QED
    BY <2>2
<1> HIDE DEF docs, more
<1> QED
  BY <1>1, <1>3 DEF PageDescends

LEMMA DescendsStep ==
    ASSUME TypeOK, PageDescends, [Next]_vars
    PROVE  PageDescends'
<1>1. CASE UNCHANGED load
  BY <1>1 DEF PageDescends
<1>2. CASE load'.pc # "page"
  BY <1>2 DEF PageDescends
<1>3. CASE Serve
  BY <1>3, ServeDescends
<1>4. UNCHANGED load \/ load'.pc # "page" \/ Serve
  <2>1. NoLoad.pc # "page"
    BY DEF NoLoad
  <2>2. ASSUME NEW n, AskHistory(n) PROVE load'.pc = "sent"
    BY <2>2 DEF AskHistory, NoLoad
  <2>3. CASE Open \/ LoadOlder
    BY <2>2, <2>3 DEF Open, LoadOlder
  <2>4. CASE LoadReturns \/ LoadFails \/ Reload
    BY <2>1, <2>4 DEF LoadReturns, LoadFails, Reload
  <2> QED
    BY <2>3, <2>4 DEF Next, Store, Hear, Backlog, FetchReturns, FetchFails, Leave,
       vars
<1> QED
  BY <1>1, <1>2, <1>3, <1>4

(* A page of history either says that it is the last one or brings         *)
(* something from below its cursor, so that scrolling back gets on.        *)
THEOREM HistoryDescends == Spec => PagesDescend
<1>1. Init => PageDescends
  BY DEF Init, NoLoad, PageDescends
<1>2. ViewInv => TypeOK
  BY DEF ViewInv
<1>3. PageDescends /\ [Next]_vars
      => (LoadReturns => ~ hasMore' \/ \E s \in have' : s < load.before)
  BY DEF PageDescends, LoadReturns, Merge
<1> QED
  BY <1>1, <1>2, <1>3, DescendsStep, ViewInvariant, PTL DEF Spec, PagesDescend

(* The answer to a repair whose span fits in a page leaves no hole in it,  *)
(* whatever was merged between the request and the answer.                 *)
LEMMA RepairStep ==
    ASSUME TypeOK, [Next]_vars, NEW f \in fetches \ fetches', faults' = faults,
           Cardinality({s \in log : f.after < s /\ s < f.before}) <= MaxPage
    PROVE  {s \in log : f.after < s /\ s < f.before} \subseteq have'
<1> DEFINE span == {s \in log : f.after < s /\ s < f.before}
<1>1. ~ Fault
  BY DEF Fault, TypeOK
<1>2. FetchReturns(f)
  <2>1. ASSUME fetches \subseteq fetches' PROVE FALSE
    BY <2>1
  <2>2. ASSUME NEW s \in Seqs, Store(s) \/ Hear(s) PROVE FALSE
    BY <2>1, <2>2 DEF Store, Hear, DetectGap
  <2>3. CASE Open \/ Leave \/ LoadOlder \/ Serve \/ LoadReturns \/ UNCHANGED vars
    BY <2>1, <2>3 DEF Open, Leave, LoadOlder, Serve, LoadReturns, vars
  <2>4. ASSUME NEW n \in 0 .. MaxSeq, Backlog(n) PROVE FALSE
    BY <2>1, <2>4 DEF Backlog
  <2>5. ~ LoadFails /\ ~ Reload /\ \A g \in fetches : ~ FetchFails(g)
    BY <1>1 DEF LoadFails, Reload, FetchFails
  <2>6. ASSUME NEW g \in fetches, FetchReturns(g) PROVE FetchReturns(f)
    <3>1. g = f
      BY <2>6 DEF FetchReturns
    <3> QED
      BY <2>6, <3>1
  <2> QED
    BY <2>2, <2>3, <2>4, <2>5, <2>6 DEF Next
<1>3. have' = have \union Oldest(span, MaxPage)
  BY <1>2 DEF FetchReturns, MergeUnasked, Merge, ListRange
<1>4. span \in SUBSET (0 .. MaxSeq)
  BY LogInRange
<1>5. Oldest(span, MaxPage) = span
  <2>1. Cardinality(span) <= MaxPage
    OBVIOUS
  <2> HIDE DEF span
  <2> QED
    BY <1>4, <2>1, OldestWhole, ThreadViewAssumption
<1> QED
  BY <1>3, <1>5

THEOREM ShortHolesAreRepaired == Spec => ShortHolesRepaired
<1>1. ViewInv /\ [Next]_vars
      => \A f \in fetches \ fetches' :
            LET span == {s \in log : f.after < s /\ s < f.before}
            IN  faults' = faults /\ Cardinality(span) <= MaxPage
                    => span \subseteq have'
  BY RepairStep DEF ViewInv
<1> QED
  BY <1>1, ViewInvariant, PTL DEF Spec, ShortHolesRepaired
=============================================================================
