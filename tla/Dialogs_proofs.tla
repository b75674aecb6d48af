---------------------------- MODULE Dialogs_proofs ----------------------------
(***************************************************************************)
(* Proofs about the dialog that looks for keys (GpgFetcher) and the buffer  *)
(* of the password entries (EntryBuffer), for every value of their          *)
(* constants.                                                               *)
(***************************************************************************)
EXTENDS GpgFetcher, EntryBuffer, SequenceTheorems, FiniteSetTheorems, FunctionTheorems,
  WellFoundedInduction, TLAPS

---------------------------------------------------------------------------
(* Numbers.                                                                 *)

Less == {p \in Nat \X Nat : p[1] < p[2]}

LEMMA Least ==
  ASSUME NEW S \in SUBSET Nat, S # {}
  PROVE  \E x \in S : \A y \in S : x <= y
<1>1. IsWellFoundedOn(Less, Nat)
  BY NatLessThanWellFounded DEF OpToRel, Less
<1>2. PICK x \in S : \A y \in S : <<y, x>> \notin Less
  BY <1>1, WFMin
<1>3. ASSUME NEW y \in S PROVE x <= y
  <2>1. y \in Nat /\ x \in Nat
    OBVIOUS
  <2>2. <<y, x>> \in Nat \X Nat /\ <<y, x>>[1] = y /\ <<y, x>>[2] = x
    BY <2>1
  <2>3. ~(y < x)
    BY <1>2, <2>2 DEF Less
  <2>. QED
    BY <2>1, <2>3
<1>. QED
  BY <1>3

\* Induction over the first numbers: what holds of 0, and of n when of n - 1.
LEMMA InductionUpTo ==
  ASSUME NEW m \in Nat, NEW H \in SUBSET Nat, 0 \in H,
         \A n \in 1..m : n - 1 \in H => n \in H
  PROVE  0..m \subseteq H
<1>1. SUFFICES ASSUME (0..m) \ H # {} PROVE FALSE
  OBVIOUS
<1>2. PICK x \in (0..m) \ H : \A y \in (0..m) \ H : x <= y
  BY <1>1, Least, (0..m) \ H \in SUBSET Nat
<1>3. x # 0 /\ x \in 1..m
  BY <1>2
<1>4. x - 1 \in 0..m /\ x - 1 < x
  BY <1>3
<1>5. x - 1 \in H
  BY <1>2, <1>4
<1> QED
  BY <1>2, <1>3, <1>5

---------------------------------------------------------------------------
(* The dialog: any number of searches and keys.  Only the last search can    *)
(* run, and not while the cancellable is cancelled, which has also emptied  *)
(* the list (OnlyTheLast).  As long as no timeout has been lost there is    *)
(* one at most, of a search that has not reported: when it fires, a report  *)
(* is still to come (TimeoutsAreAhead).                                     *)

\* TypeOK, with what a search has reported so far.
Typed ==
  /\ TypeOK
  /\ reports \in [Searches -> Seq({"none", "ok", "error"})]
  /\ \A s \in Searches : phase[s] # "reported" => reports[s] = << >>

OnlyTheLast ==
  /\ \A s, t \in Searches : phase[s] # "idle" /\ t <= s => phase[t] # "idle"
  /\ \A s, t \in Searches : phase[s] = "running" /\ phase[t] # "idle" => t <= s
  /\ cancelled => store = << >> /\ Running = {}

TimeoutsAreAhead ==
  ~lost => \A t \in timeouts : t = timeout_id /\ phase[t] \in {"running", "ended"}

FInv ==
  /\ Typed
  /\ OnlyTheLast
  /\ MatchesAreOfTheLastSearch
  /\ TimeoutsAreAhead
  /\ MatchesAreShown

LEMMA FInvInit == Init => FInv
<1>. SUFFICES ASSUME Init PROVE FInv
  OBVIOUS
<1>. USE FetcherAssumption DEF Init, Operation!Init
<1>1. Typed
  <2>1. << >> \in Seq({"none", "ok", "error"}) /\ << >> \in Seq(Searches) /\ Len(<< >>) = 0
    OBVIOUS
  <2>2. \A s \in Searches : Len(reports[s]) <= 1
    BY <2>1
  <2>3. phase \in [Searches -> {"idle", "running", "ended", "reported"}]
    OBVIOUS
  <2>4. /\ result \in [Searches -> {"none", "ok", "error"}]
        /\ keys \in [Searches -> 0..MaxKeys]
    OBVIOUS
  <2>5. /\ cancelled \in BOOLEAN /\ lost \in BOOLEAN
        /\ timeouts \subseteq Searches
        /\ timeout_id \in timeouts \cup {0}
    OBVIOUS
  <2>6. TypeOK
    BY <2>1, <2>2, <2>3, <2>4, <2>5 DEF TypeOK
  <2>. QED
    BY <2>1, <2>6 DEF Typed
<1>2. OnlyTheLast
  BY DEF OnlyTheLast, Running
<1>3. MatchesAreOfTheLastSearch
  BY <1>1 DEF Typed, MatchesAreOfTheLastSearch, ImportIsNotCancelled
<1>4. TimeoutsAreAhead
  BY DEF TimeoutsAreAhead
<1>5. MatchesAreShown
  BY DEF MatchesAreShown
<1>. QED
  BY <1>1, <1>2, <1>3, <1>4, <1>5 DEF FInv

---------------------------------------------------------------------------
(* The actions.                                                             *)

LEMMA ClearSearchStep == ASSUME FInv, ClearSearch PROVE FInv'
<1>. USE FetcherAssumption DEF FInv, ClearSearch, MatchesAfterCancel
<1>1. CASE cancelled
  <2>1. UNCHANGED vars
    BY <1>1 DEF searching, vars, dialog
  <2>. HIDE DEF ClearSearch, MatchesAfterCancel
  <2>. QED
    BY <2>1 DEF vars, searching, dialog, Typed, TypeOK, OnlyTheLast, Running,
                MatchesAreOfTheLastSearch, ImportIsNotCancelled, Begun, Unused,
                TimeoutsAreAhead, MatchesAreShown, AtRest
<1>2. CASE ~cancelled
  <2>. USE <1>2 DEF Operation!Cancel
  <2>1. Typed'
    BY DEF Typed, TypeOK
  <2>2. \A s \in Searches : (phase'[s] = "idle") = (phase[s] = "idle") /\ phase'[s] # "running"
    BY DEF Typed, TypeOK
  <2>3. OnlyTheLast'
    BY <2>2 DEF OnlyTheLast, Running
  <2>4. MatchesAreOfTheLastSearch'
    BY <2>1 DEF Typed, MatchesAreOfTheLastSearch, ImportIsNotCancelled
  <2>5. TimeoutsAreAhead'
    BY DEF TimeoutsAreAhead, Typed, TypeOK
  <2>6. AtRest' => AtRest
    BY <2>2 DEF AtRest, Begun, Unused, Typed, TypeOK
  <2>7. MatchesAreShown'
    BY <2>6 DEF MatchesAreShown
  <2>. QED
    BY <2>1, <2>3, <2>4, <2>5, <2>7
<1>. QED
  BY <1>1, <1>2

LEMMA SearchStep == ASSUME FInv, Search PROVE FInv'
<1>. USE FetcherAssumption DEF FInv
<1>1. PICK s \in Unused, p \in {"running", "ended"} :
        /\ \A t \in Unused : s <= t
        /\ phase' = [t \in Searches |-> IF t = s THEN p ELSE
                                        IF t \in Running THEN "ended" ELSE phase[t]]
        /\ result' = [t \in Searches |-> IF t \in Running \/ (t = s /\ p = "ended") THEN "error"
                                         ELSE result[t]]
        /\ timeouts' = timeouts \cup {s}
        /\ timeout_id' = s
        /\ lost' = (lost \/ timeouts # {})
  BY DEF Search
<1>2. /\ cancelled' = FALSE
      /\ store' = MatchesAfterCancel
      /\ UNCHANGED <<keys, reports, search_page, main_page>>
  BY DEF Search
<1>3. s \in Searches /\ phase[s] = "idle"
  BY <1>1 DEF Unused
<1>4. store' = << >>
  BY <1>2 DEF MatchesAfterCancel, OnlyTheLast
<1>5. Typed'
  <2>1. << >> \in Seq(Searches)
    OBVIOUS
  <2>2. phase' \in [Searches -> {"idle", "running", "ended", "reported"}]
    BY <1>1 DEF Typed, TypeOK
  <2>3. result' \in [Searches -> {"none", "ok", "error"}]
    BY <1>1 DEF Typed, TypeOK
  <2>4. \A t \in Searches : phase'[t] # "reported" => phase[t] # "reported"
    BY <1>1, <1>3 DEF Running
  <2>5. lost' \in BOOLEAN /\ timeouts' \subseteq Searches /\ timeout_id' \in timeouts'
    BY <1>1, <1>3 DEF Typed, TypeOK
  <2>6. TypeOK'
    BY <1>2, <1>4, <2>1, <2>2, <2>3, <2>5 DEF Typed, TypeOK
  <2>. QED
    BY <1>2, <2>4, <2>6 DEF Typed
<1>6. \A t \in Searches : phase[t] # "idle" => t <= s
  BY <1>1, <1>3 DEF OnlyTheLast, Searches
<1>7. \A t \in Searches : /\ t # s => (phase'[t] = "idle") = (phase[t] = "idle")
                          /\ t # s => phase'[t] # "running"
  BY <1>1 DEF Running
<1>8. OnlyTheLast'
  <2>1. ASSUME NEW t \in Searches, NEW u \in Searches, phase'[t] # "idle", u <= t
        PROVE  phase'[u] # "idle"
    BY <2>1, <1>1, <1>3, <1>7 DEF OnlyTheLast, Unused, Searches
  <2>. QED
    BY <2>1, <1>2, <1>3, <1>6, <1>7 DEF OnlyTheLast, Searches
<1>9. MatchesAreOfTheLastSearch'
  BY <1>2, <1>4, <1>5 DEF MatchesAreOfTheLastSearch, ImportIsNotCancelled, Typed
<1>10. TimeoutsAreAhead'
  BY <1>1, <1>3 DEF TimeoutsAreAhead, Typed, TypeOK
<1>11. MatchesAreShown'
  BY <1>1 DEF MatchesAreShown, AtRest
<1>. QED
  BY <1>5, <1>8, <1>9, <1>10, <1>11

LEMMA SearchFailsStep == ASSUME FInv, SearchFails PROVE FInv'
<1>. USE FetcherAssumption DEF FInv, SearchFails
<1>1. store' = << >>
  BY DEF MatchesAfterCancel, OnlyTheLast
<1>2. \A t \in Searches : /\ (phase'[t] = "idle") = (phase[t] = "idle")
                          /\ phase'[t] # "running"
                          /\ phase'[t] = "reported" => phase[t] = "reported"
  BY DEF Running
<1>3. Typed'
  <2>1. << >> \in Seq(Searches)
    OBVIOUS
  <2>2. phase' \in [Searches -> {"idle", "running", "ended", "reported"}]
    BY DEF Typed, TypeOK
  <2>3. result' \in [Searches -> {"none", "ok", "error"}]
    BY DEF Typed, TypeOK
  <2>4. TypeOK'
    BY <1>1, <2>1, <2>2, <2>3 DEF Typed, TypeOK
  <2>5. \A t \in Searches : phase'[t] # "reported" => phase[t] # "reported"
    BY DEF Running
  <2>. QED
    BY <2>4, <2>5 DEF Typed
<1>4. OnlyTheLast'
  BY <1>2 DEF OnlyTheLast
<1>5. MatchesAreOfTheLastSearch'
  BY <1>1, <1>3 DEF MatchesAreOfTheLastSearch, ImportIsNotCancelled, Typed
<1>6. TimeoutsAreAhead'
  BY DEF TimeoutsAreAhead, Typed, TypeOK, Running
<1>7. AtRest' => AtRest
  BY <1>2 DEF AtRest, Begun, Unused
<1>8. MatchesAreShown'
  BY <1>1, <1>7 DEF MatchesAreShown
<1>. QED
  BY <1>3, <1>4, <1>5, <1>6, <1>8

LEMMA FindKeyStep == ASSUME FInv, NEW s \in Searches, FindKey(s) PROVE FInv'
<1>. USE FetcherAssumption DEF FInv, FindKey, Operation!Deliver
<1>1. Typed'
  <2>1. store' \in Seq(Searches)
    <3>1. store \in Seq(Searches) /\ store' \in {store, Append(store, s)}
      BY DEF Typed, TypeOK
    <3>. HIDE DEF FInv, FindKey, Operation!Deliver
    <3>. QED
      BY <3>1
  <2>2. keys' \in [Searches -> 0..MaxKeys]
    BY DEF Typed, TypeOK
  <2>. QED
    BY <2>1, <2>2 DEF Typed, TypeOK
<1>2. OnlyTheLast'
  BY DEF OnlyTheLast, Running
<1>3. \A i \in DOMAIN store' : \A t \in Begun : t <= store'[i]
  <2>1. CASE store' = store
    BY <2>1 DEF MatchesAreOfTheLastSearch
  <2>2. CASE store' = Append(store, s)
    <3>0. store \in Seq(Searches)
      BY DEF Typed, TypeOK
    <3>1. \A i \in DOMAIN store' : (i \in DOMAIN store /\ store'[i] = store[i]) \/ store'[i] = s
      <4>. HIDE DEF FInv, FindKey, Operation!Deliver
      <4>. QED
        BY <2>2, <3>0
    <3>. QED
      BY <3>1 DEF MatchesAreOfTheLastSearch, OnlyTheLast, Begun, Unused
  <2>. QED
    BY <2>1, <2>2
<1>4. MatchesAreOfTheLastSearch'
  BY <1>1, <1>3 DEF MatchesAreOfTheLastSearch, ImportIsNotCancelled, Typed, Begun, Unused
<1>5. TimeoutsAreAhead'
  BY DEF TimeoutsAreAhead
<1>6. ~AtRest'
  BY DEF AtRest, Begun, Unused
<1>7. MatchesAreShown'
  BY <1>6 DEF MatchesAreShown
<1>. QED
  BY <1>1, <1>2, <1>4, <1>5, <1>7

LEMMA EndSearchStep == ASSUME FInv, NEW s \in Searches, EndSearch(s) PROVE FInv'
<1>. USE FetcherAssumption DEF FInv, EndSearch, Operation!End, dialog
<1>1. Typed'
  BY DEF Typed, TypeOK
<1>2. \A t \in Searches : /\ (phase'[t] = "idle") = (phase[t] = "idle")
                          /\ phase'[t] = "running" => phase[t] = "running"
                          /\ phase'[t] = "reported" => phase[t] = "reported"
  BY DEF Typed, TypeOK
<1>3. OnlyTheLast'
  BY <1>2 DEF OnlyTheLast, Running
<1>4. MatchesAreOfTheLastSearch'
  BY <1>1, <1>2 DEF MatchesAreOfTheLastSearch, ImportIsNotCancelled, Typed, Begun, Unused
<1>5. TimeoutsAreAhead'
  BY DEF TimeoutsAreAhead, Typed, TypeOK
<1>6. AtRest' => AtRest
  BY <1>2 DEF AtRest, Begun, Unused
<1>7. MatchesAreShown'
  BY <1>6 DEF MatchesAreShown
<1>. QED
  BY <1>1, <1>3, <1>4, <1>5, <1>7

LEMMA ReportSearchStep == ASSUME FInv, NEW s \in Searches, ReportSearch(s) PROVE FInv'
<1>. USE FetcherAssumption DEF FInv, ReportSearch, Operation!Report
<1>1. \A t \in Searches : t # s => phase'[t] = phase[t]
  BY DEF Typed, TypeOK
<1>2. phase[s] = "ended" /\ phase'[s] = "reported"
  BY DEF Typed, TypeOK
<1>3. Typed'
  <2>1. \A t \in Searches : /\ reports'[t] \in Seq({"none", "ok", "error"})
                            /\ Len(reports'[t]) <= 1
                            /\ phase'[t] # "reported" => reports'[t] = << >>
    <3>1. reports[s] = << >>
      BY <1>2 DEF Typed
    <3>2. \E r \in {"none", "ok", "error"} : reports'[s] = Append(<< >>, r)
      BY <3>1 DEF Typed, TypeOK
    <3>3. /\ reports'[s] \in Seq({"none", "ok", "error"})
          /\ Len(reports'[s]) <= 1
      <4>1. PICK r \in {"none", "ok", "error"} : reports'[s] = Append(<< >>, r)
        BY <3>2
      <4>2. << >> \in Seq({"none", "ok", "error"}) /\ Len(<< >>) = 0
        OBVIOUS
      <4>. HIDE DEF FInv, ReportSearch, Operation!Report
      <4>. QED
        BY <4>1, <4>2
    <3>4. \A t \in Searches : t # s => reports'[t] = reports[t]
      BY DEF Typed
    <3>. QED
      BY <1>1, <1>2, <3>3, <3>4 DEF Typed, TypeOK
  <2>2. TypeOK'
    BY <2>1 DEF Typed, TypeOK, StopTimeout, RemoveTimeout
  <2>3. reports' \in [Searches -> Seq({"none", "ok", "error"})]
    BY <2>1 DEF Typed
  <2>. QED
    BY <2>1, <2>2, <2>3 DEF Typed
<1>4. OnlyTheLast'
  BY <1>1, <1>2 DEF OnlyTheLast, Running
<1>5. MatchesAreOfTheLastSearch'
  BY <1>1, <1>2, <1>3 DEF MatchesAreOfTheLastSearch, ImportIsNotCancelled, Typed, Begun, Unused
<1>6. TimeoutsAreAhead'
  BY DEF TimeoutsAreAhead, StopTimeout, RemoveTimeout
<1>7. MatchesAreShown'
  BY DEF MatchesAreShown
<1>. QED
  BY <1>3, <1>4, <1>5, <1>6, <1>7

LEMMA SpinnerTimeoutStep == ASSUME FInv, NEW t \in Searches, SpinnerTimeout(t) PROVE FInv'
<1>. USE FetcherAssumption DEF FInv, SpinnerTimeout, ForgetId, RemoveTimeout, searching
<1>1. Typed'
  BY DEF Typed, TypeOK
<1>2. OnlyTheLast'
  BY DEF OnlyTheLast, Running
<1>3. MatchesAreOfTheLastSearch'
  BY <1>1 DEF MatchesAreOfTheLastSearch, ImportIsNotCancelled, Typed, Begun, Unused
<1>4. TimeoutsAreAhead'
  BY DEF TimeoutsAreAhead
<1>5. ~lost => ~AtRest'
  BY DEF AtRest, TimeoutsAreAhead, Begun, Unused
<1>6. MatchesAreShown'
  BY <1>5 DEF MatchesAreShown
<1>. QED
  BY <1>1, <1>2, <1>3, <1>4, <1>6

\* SelectKey, Back and Import only turn the main page.
LEMMA MainPageStep ==
  ASSUME FInv, SelectKey \/ Back \/ Import
  PROVE  FInv'
<1>. USE FetcherAssumption DEF FInv, SelectKey, Back, Import, searching
<1>1. Typed'
  BY DEF Typed, TypeOK
<1>2. OnlyTheLast'
  BY DEF OnlyTheLast, Running
<1>3. ImportIsNotCancelled'
  BY DEF OnlyTheLast, MatchesAreOfTheLastSearch, ImportIsNotCancelled
<1>4. MatchesAreOfTheLastSearch'
  BY <1>1, <1>3 DEF MatchesAreOfTheLastSearch, Typed, Begun, Unused
<1>5. TimeoutsAreAhead'
  BY DEF TimeoutsAreAhead
<1>6. MatchesAreShown'
  BY DEF MatchesAreShown, AtRest, Begun, Unused
<1>. QED
  BY <1>1, <1>2, <1>4, <1>5, <1>6

LEMMA FInvStep == FInv /\ [Next]_vars => FInv'
<1>. SUFFICES ASSUME FInv, [Next]_vars PROVE FInv'
  OBVIOUS
<1>1. CASE ClearSearch
  BY <1>1, ClearSearchStep
<1>2. CASE Search
  BY <1>2, SearchStep
<1>3. CASE SearchFails
  BY <1>3, SearchFailsStep
<1>4. CASE SelectKey \/ Back \/ Import
  BY <1>4, MainPageStep
<1>5. CASE Loop
  BY <1>5, FindKeyStep, EndSearchStep, ReportSearchStep, SpinnerTimeoutStep DEF Loop
<1>6. CASE UNCHANGED vars
  BY <1>6 DEF vars, searching, dialog, FInv, Typed, TypeOK, OnlyTheLast, Running,
              MatchesAreOfTheLastSearch, ImportIsNotCancelled, Begun, Unused,
              TimeoutsAreAhead, MatchesAreShown, AtRest
<1>. QED
  BY <1>1, <1>2, <1>3, <1>4, <1>5, <1>6 DEF Next

---------------------------------------------------------------------------
(* The theorems.                                                            *)

\* However many searches overlap, the list holds matches of the last one only, and an import
\* begins with a cancellable that is not cancelled.
THEOREM MatchesOfTheLastSearch == Spec => []MatchesAreOfTheLastSearch
<1>1. FInv => MatchesAreOfTheLastSearch
  BY DEF FInv
<1>. QED
  BY <1>1, FInvInit, FInvStep, PTL DEF Spec

\* When every search has reported and no timeout was lost, no page but that of the matches is
\* shown over them.
THEOREM MatchesShown == Spec => []MatchesAreShown
<1>1. FInv => MatchesAreShown
  BY DEF FInv
<1>. QED
  BY <1>1, FInvInit, FInvStep, PTL DEF Spec

---------------------------------------------------------------------------
(* The entry buffer: any characters, each of any width, and any sizes.      *)

---------------------------------------------------------------------------
(* Where the characters of a text are.                                      *)

\* at[k] is the number of bytes of the first k characters of s.
Sums(s, at) ==
  /\ at \in [0..Len(s) -> Nat] /\ at[0] = 0
  /\ \A k \in 1..Len(s) : at[k] = at[k - 1] + Width[s[k]]

LEMMA WidthIsPositive == ASSUME NEW c \in Chars PROVE Width[c] \in Nat /\ Width[c] > 0
  BY EntryBufferAssumption

LEMMA SumsExist ==
  ASSUME NEW s \in Seq(Chars)
  PROVE  \E at : Sums(s, at)
<1> DEFINE Part(n, at) == /\ at \in [0..n -> Nat] /\ at[0] = 0
                          /\ \A k \in 1..n : at[k] = at[k - 1] + Width[s[k]]
           H == {n \in Nat : \E at \in [0..n -> Nat] : Part(n, at)}
<1>1. 0 \in H
  <2> DEFINE at == [k \in 0..0 |-> 0]
  <2>1. at \in [0..0 -> Nat] /\ Part(0, at)
    OBVIOUS
  <2> HIDE DEF at, Part
  <2> QED
    BY <2>1
<1>2. ASSUME NEW n \in 1..Len(s), n - 1 \in H PROVE n \in H
  <2>1. PICK a \in [0..(n - 1) -> Nat] : Part(n - 1, a)
    BY <1>2
  <2>2. s[n] \in Chars /\ Width[s[n]] \in Nat /\ a[n - 1] \in Nat /\ n \in Nat
    BY <2>1, WidthIsPositive
  <2> DEFINE at == [k \in 0..n |-> IF k = n THEN a[n - 1] + Width[s[n]] ELSE a[k]]
  <2>3. at \in [0..n -> Nat]
    BY <2>2
  <2>4. at[0] = 0
    BY <2>1, <2>2
  <2>5. ASSUME NEW k \in 1..n PROVE at[k] = at[k - 1] + Width[s[k]]
    <3>1. at[k - 1] = a[k - 1]
      OBVIOUS
    <3>2. CASE k = n
      BY <3>1, <3>2
    <3>3. CASE k # n
      <4>1. k \in 1..(n - 1) /\ at[k] = a[k]
        BY <3>3
      <4> HIDE DEF at
      <4> QED
        BY <2>1, <3>1, <4>1
    <3> QED
      BY <3>2, <3>3
  <2> HIDE DEF at
  <2>6. Part(n, at)
    BY <2>3, <2>4, <2>5
  <2> HIDE DEF Part
  <2> QED
    BY <2>2, <2>3, <2>6
<1>3. Len(s) \in Nat /\ H \in SUBSET Nat
  OBVIOUS
<1>4. Len(s) \in H
  <2> HIDE DEF H
  <2>1. 0..Len(s) \subseteq H
    BY <1>1, <1>2, <1>3, InductionUpTo
  <2> QED
    BY <1>3, <2>1
<1> QED
  BY <1>4 DEF Sums

\* Two functions that begin alike and go on alike are alike.
Alike(f, g, n) == f[0] = g[0] /\ \A k \in 1..n : f[k - 1] = g[k - 1] => f[k] = g[k]

LEMMA AgreeUpTo ==
  ASSUME NEW n \in Nat, NEW f, NEW g, Alike(f, g, n)
  PROVE  \A k \in 0..n : f[k] = g[k]
<1> DEFINE H == {k \in Nat : f[k] = g[k]}
<1>1. H \in SUBSET Nat /\ 0 \in H
  BY DEF Alike
<1>2. ASSUME NEW k \in 1..n, k - 1 \in H PROVE k \in H
  BY <1>2 DEF Alike
<1>3. 0..n \subseteq H
  <2> HIDE DEF H
  <2> QED
    BY <1>1, <1>2, InductionUpTo
<1> QED
  BY <1>3

LEMMA SumsAre ==
  ASSUME NEW s \in Seq(Chars), NEW at, Sums(s, at)
  PROVE  Len(s) \in Nat /\ at[Len(s)] \in Nat /\ \A k \in 0..Len(s) : at[k] \in Nat
<1>1. at \in [0..Len(s) -> Nat]
  BY DEF Sums
<1>2. Len(s) \in 0..Len(s) /\ Len(s) \in Nat
  OBVIOUS
<1> QED
  BY <1>1, <1>2

LEMMA SumsIncrease ==
  ASSUME NEW s \in Seq(Chars), NEW at, Sums(s, at), NEW i \in 0..Len(s)
  PROVE  /\ at[i] \in Nat
         /\ \A k \in 0..Len(s) : /\ i <= k => at[i] <= at[k]
                                 /\ i < k => at[i] < at[k]
<1> DEFINE H == {d \in Nat : i + d <= Len(s) => at[i + d] \in Nat /\ at[i] + d <= at[i + d]}
<1>0. Len(s) \in Nat /\ at[i] \in Nat /\ \A k \in 0..Len(s) : at[k] \in Nat
  BY SumsAre
<1>1. 0 \in H
  BY <1>0
<1>2. ASSUME NEW d \in 1..Len(s), d - 1 \in H PROVE d \in H
  <2> SUFFICES ASSUME i + d <= Len(s) PROVE at[i + d] \in Nat /\ at[i] + d <= at[i + d]
    OBVIOUS
  <2>1. at[i + (d - 1)] \in Nat /\ at[i] + (d - 1) <= at[i + (d - 1)]
    BY <1>0, <1>2
  <2>2. i + d \in 1..Len(s) /\ (i + d) - 1 = i + (d - 1)
    BY <1>0
  <2>3. at[i + d] = at[i + (d - 1)] + Width[s[i + d]]
    BY <2>2 DEF Sums
  <2>4. Width[s[i + d]] \in Nat /\ Width[s[i + d]] > 0
    BY <2>2, WidthIsPositive
  <2> QED
    <3> DEFINE a == at[i + (d - 1)]
               w == Width[s[i + d]]
               b == at[i]
    <3>1. a \in Nat /\ w \in Nat /\ w > 0 /\ b \in Nat /\ d \in Nat /\ b + (d - 1) <= a
      BY <1>0, <2>1, <2>4
    <3>2. at[i + d] = a + w
      BY <2>3
    <3> HIDE DEF a, b, w
    <3>3. a + w \in Nat /\ b + d <= a + w
      BY <3>1
    <3> QED
      BY <3>2, <3>3 DEF b
<1>3. 0..Len(s) \subseteq H
  <2>1. H \in SUBSET Nat
    OBVIOUS
  <2> HIDE DEF H
  <2> QED
    BY <1>0, <1>1, <1>2, <2>1, InductionUpTo
<1>4. ASSUME NEW k \in 0..Len(s), i <= k PROVE at[i] + (k - i) <= at[k]
  <2>1. k - i \in 0..Len(s) /\ i + (k - i) = k
    BY <1>0, <1>4
  <2>2. k - i \in H
    BY <1>3, <2>1
  <2> QED
    BY <1>0, <2>1, <2>2
<1> QED
  BY <1>0, <1>4

\* Every byte belongs to a character, and to one only.
LEMMA ByteHasChar ==
  ASSUME NEW s \in Seq(Chars), NEW at, Sums(s, at), NEW p \in 1..at[Len(s)]
  PROVE  \E k \in 1..Len(s) : at[k - 1] < p /\ p <= at[k]
<1> DEFINE S == {k \in 0..Len(s) : p <= at[k]}
<1>0. Len(s) \in Nat /\ p \in Nat /\ \A k \in 0..Len(s) : at[k] \in Nat
  BY SumsAre
<1>1. S \in SUBSET Nat /\ Len(s) \in S
  BY <1>0
<1>2. PICK k \in S : \A m \in S : k <= m
  <2> HIDE DEF S
  <2> QED
    BY <1>1, Least
<1>3. k # 0
  BY <1>0, <1>2 DEF Sums
<1>4. k \in 1..Len(s) /\ k - 1 \in 0..Len(s) /\ k - 1 < k
  BY <1>0, <1>2, <1>3
<1>5. k - 1 \notin S
  BY <1>2, <1>4
<1> QED
  BY <1>0, <1>2, <1>4, <1>5

LEMMA CharOfByte ==
  ASSUME NEW s \in Seq(Chars), NEW at, Sums(s, at), NEW k \in 1..Len(s), NEW m \in 1..Len(s),
         NEW p \in Nat, at[k - 1] < p, p <= at[k], at[m - 1] < p, p <= at[m]
  PROVE  k = m
<1>1. k - 1 \in 0..Len(s) /\ m - 1 \in 0..Len(s) /\ k \in 0..Len(s) /\ m \in 0..Len(s)
  OBVIOUS
<1>2. at[k] \in Nat /\ at[m] \in Nat /\ at[k - 1] \in Nat /\ at[m - 1] \in Nat
  BY <1>1 DEF Sums
<1>0. k \in Int /\ m \in Int
  OBVIOUS
<1>3. ~(k < m)
  <2> SUFFICES ASSUME k < m PROVE FALSE
    OBVIOUS
  <2>1. at[k] <= at[m - 1]
    BY <1>0, <1>1, SumsIncrease
  <2> QED
    BY <1>2, <2>1
<1>4. ~(m < k)
  <2> SUFFICES ASSUME m < k PROVE FALSE
    OBVIOUS
  <2>1. at[m] <= at[k - 1]
    BY <1>0, <1>1, SumsIncrease
  <2> QED
    BY <1>2, <2>1
<1> QED
  BY <1>0, <1>3, <1>4

---------------------------------------------------------------------------
(* Bytes that encode a text.                                                *)

Coded(bytes, s, at) ==
  \A k \in 1..Len(s) : \A j \in 1..Width[s[k]] : bytes[at[k - 1] + j] = <<s[k], j>>

\* What is at one position.
LEMMA CodedByte ==
  ASSUME NEW s \in Seq(Chars), NEW at, Sums(s, at), NEW bytes, Coded(bytes, s, at),
         NEW p \in 1..at[Len(s)]
  PROVE  \E k \in 1..Len(s) : /\ at[k - 1] < p /\ p <= at[k] /\ at[k - 1] \in Nat
                              /\ at[k] \in Nat /\ s[k] \in Chars
                              /\ bytes[p] = <<s[k], p - at[k - 1]>>
<1>0. Len(s) \in Nat /\ at[Len(s)] \in Nat /\ p \in Nat
  BY SumsAre
<1>1. PICK k \in 1..Len(s) : at[k - 1] < p /\ p <= at[k]
  BY ByteHasChar
<1>2. s[k] \in Chars /\ Width[s[k]] \in Nat /\ at[k - 1] \in Nat /\ at[k] \in Nat
      /\ at[k] = at[k - 1] + Width[s[k]]
  <2>1. s[k] \in Chars /\ k \in 0..Len(s) /\ k - 1 \in 0..Len(s)
    OBVIOUS
  <2>2. Width[s[k]] \in Nat
    BY <2>1, WidthIsPositive
  <2>3. at[k - 1] \in Nat /\ at[k] \in Nat
    BY <2>1, SumsAre
  <2>4. at[k] = at[k - 1] + Width[s[k]]
    BY DEF Sums
  <2> QED
    BY <2>1, <2>2, <2>3, <2>4
<1>3. p - at[k - 1] \in 1..Width[s[k]] /\ at[k - 1] + (p - at[k - 1]) = p
  BY <1>0, <1>1, <1>2
<1>4. bytes[at[k - 1] + (p - at[k - 1])] = <<s[k], p - at[k - 1]>>
  BY <1>3 DEF Coded
<1> QED
  BY <1>1, <1>2, <1>3, <1>4

\* A character starts where the ones before it end.
LEMMA StartsAre ==
  ASSUME NEW s \in Seq(Chars), NEW at, Sums(s, at), NEW bytes, Coded(bytes, s, at),
         NEW i \in Nat, i < at[Len(s)]
  PROVE  StartOf(bytes, i) <=> \E k \in 0..(Len(s) - 1) : at[k] = i
<1>0. Len(s) \in Nat /\ at[Len(s)] \in Nat
  BY DEF Sums
<1>1. i + 1 \in 1..at[Len(s)]
  BY <1>0
<1> DEFINE p == i + 1
<1>2. PICK k \in 1..Len(s) : /\ at[k - 1] < p /\ p <= at[k] /\ at[k - 1] \in Nat
                             /\ at[k] \in Nat /\ s[k] \in Chars
                             /\ bytes[p] = <<s[k], p - at[k - 1]>>
  <2> HIDE DEF p
  <2>1. p \in 1..at[Len(s)]
    BY <1>1 DEF p
  <2> QED
    BY <2>1, CodedByte
<1>3. StartOf(bytes, i) <=> at[k - 1] = i
  BY <1>2 DEF StartOf
<1>4. ASSUME NEW m \in 0..(Len(s) - 1), at[m] = i PROVE at[k - 1] = i
  <2>1. m + 1 \in 1..Len(s) /\ m + 1 \in 0..Len(s) /\ m \in 0..Len(s) /\ (m + 1) - 1 = m
    BY <1>0
  <2>2. at[m] < at[m + 1]
    BY <2>1, SumsIncrease
  <2>3. at[(m + 1) - 1] < i + 1 /\ i + 1 <= at[m + 1]
    <3> DEFINE b == at[m + 1]
    <3>1. b \in Nat /\ i \in Nat /\ i < b
      BY <1>4, <2>1, <2>2, SumsAre
    <3> HIDE DEF b
    <3>2. i < i + 1 /\ i + 1 <= b
      BY <3>1
    <3> QED
      BY <1>4, <2>1, <3>2 DEF b
  <2>4. k = m + 1
    BY <1>1, <1>2, <2>1, <2>3, CharOfByte
  <2> QED
    BY <1>4, <2>1, <2>4
<1>5. k - 1 \in 0..(Len(s) - 1)
  BY <1>0
<1> QED
  BY <1>3, <1>4, <1>5

LEMMA OffsetIsSum ==
  ASSUME NEW s \in Seq(Chars), NEW at, Sums(s, at), NEW bytes, Coded(bytes, s, at),
         NEW n \in 0..Len(s)
  PROVE  OffsetToPointer(bytes, n) = at[n]
<1> DEFINE Step(f, i) == IF i = 0 THEN 0 ELSE f[i - 1] + Skip(bytes[f[i - 1] + 1])
           g == [i \in 0..n |-> at[i]]
           f == CHOOSE f : f = [i \in 0..n |-> Step(f, i)]
<1>0. Len(s) \in Nat /\ n \in Nat
  OBVIOUS
<1>1. ASSUME NEW i \in 1..n PROVE at[i] = at[i - 1] + Skip(bytes[at[i - 1] + 1])
  <2>1. i \in 1..Len(s) /\ s[i] \in Chars
    BY <1>0
  <2>2. 1 \in 1..Width[s[i]]
    BY <2>1, WidthIsPositive
  <2>3. bytes[at[i - 1] + 1] = <<s[i], 1>>
    BY <2>1, <2>2 DEF Coded
  <2>4. Skip(bytes[at[i - 1] + 1]) = Width[s[i]]
    BY <2>1, <2>3 DEF Skip
  <2> QED
    BY <2>1, <2>4 DEF Sums
<1>2. ASSUME NEW i \in 0..n PROVE g[i] = Step(g, i)
  <2>1. CASE i = 0
    BY <1>0, <2>1 DEF Sums
  <2>2. CASE i # 0
    <3>1. i \in 1..n /\ i - 1 \in 0..n
      BY <2>2
    <3> QED
      BY <1>1, <2>2, <3>1
  <2> QED
    BY <2>1, <2>2
<1>3. g = [i \in 0..n |-> Step(g, i)]
  <2>1. g = [i \in 0..n |-> g[i]]
    OBVIOUS
  <2> HIDE DEF g, Step
  <2> QED
    BY <1>2, <2>1
<1>4. f = [i \in 0..n |-> Step(f, i)]
  <2> HIDE DEF g, Step
  <2> QED
    BY <1>3
<1>5. OffsetToPointer(bytes, n) = f[n]
  BY DEF OffsetToPointer
<1> HIDE DEF f, g
<1>6. f[0] = 0 /\ \A i \in 1..n : f[i] = f[i - 1] + Skip(bytes[f[i - 1] + 1])
  <2>1. \A i \in 0..n : f[i] = Step(f, i)
    <3> HIDE DEF Step
    <3> QED
      BY <1>4
  <2> QED
    BY <1>0, <2>1
<1>7. \A k \in 1..n : f[k - 1] = at[k - 1] => f[k] = at[k]
  BY <1>1, <1>6
<1>8. \A k \in 0..n : f[k] = at[k]
  <2>1. f[0] = at[0]
    BY <1>6 DEF Sums
  <2>2. Alike(f, at, n)
    BY <1>7, <2>1 DEF Alike
  <2> QED
    BY <1>0, <2>2, AgreeUpTo
<1> QED
  BY <1>0, <1>5, <1>8

---------------------------------------------------------------------------
(* The bytes of a text, one by one.                                         *)

LEMMA TableIsSeq ==
  ASSUME NEW S, NEW n \in Nat, NEW f \in [1..n -> S]
  PROVE  f \in Seq(S) /\ Len(f) = n
  OBVIOUS

CharAt(s, at, p) == CHOOSE k \in 1..Len(s) : at[k - 1] < p /\ p <= at[k]
ByteAt(s, at, p) == <<s[CharAt(s, at, p)], p - at[CharAt(s, at, p) - 1]>>

LEMMA CharAtIs ==
  ASSUME NEW s \in Seq(Chars), NEW at, Sums(s, at), NEW k \in 1..Len(s), NEW p \in Nat,
         at[k - 1] < p, p <= at[k]
  PROVE  CharAt(s, at, p) = k
<1>1. \E c \in 1..Len(s) : at[c - 1] < p /\ p <= at[c]
  OBVIOUS
<1>2. CharAt(s, at, p) \in 1..Len(s) /\ at[CharAt(s, at, p) - 1] < p /\ p <= at[CharAt(s, at, p)]
  BY <1>1 DEF CharAt
<1> QED
  BY <1>2, CharOfByte

LEMMA CharAtType ==
  ASSUME NEW s \in Seq(Chars), NEW at, Sums(s, at), NEW p \in 1..at[Len(s)]
  PROVE  /\ CharAt(s, at, p) \in 1..Len(s) /\ at[CharAt(s, at, p) - 1] < p /\ p <= at[CharAt(s, at, p)]
         /\ ByteAt(s, at, p) \in Chars \X (Nat \ {0})
<1>1. CharAt(s, at, p) \in 1..Len(s) /\ at[CharAt(s, at, p) - 1] < p /\ p <= at[CharAt(s, at, p)]
  BY ByteHasChar DEF CharAt
<1>2. at[CharAt(s, at, p) - 1] \in Nat /\ p \in Nat
  <2> DEFINE k == CharAt(s, at, p)
  <2>1. k - 1 \in 0..Len(s)
    BY <1>1
  <2>2. at[Len(s)] \in Nat
    BY DEF Sums
  <2> HIDE DEF k
  <2> QED
    BY <2>1, <2>2 DEF Sums, k
<1>3. s[CharAt(s, at, p)] \in Chars
  BY <1>1
<1>4. p - at[CharAt(s, at, p) - 1] \in Nat \ {0}
  BY <1>1, <1>2
<1> QED
  BY <1>1, <1>3, <1>4 DEF ByteAt

\* Bytes encode a text when each is the one of its place.
LEMMA CodedIs ==
  ASSUME NEW s \in Seq(Chars), NEW at, Sums(s, at), NEW bytes
  PROVE  Coded(bytes, s, at) <=> \A p \in 1..at[Len(s)] : bytes[p] = ByteAt(s, at, p)
<1>1. ASSUME Coded(bytes, s, at), NEW p \in 1..at[Len(s)] PROVE bytes[p] = ByteAt(s, at, p)
  <2>1. PICK k \in 1..Len(s) : /\ at[k - 1] < p /\ p <= at[k] /\ at[k - 1] \in Nat
                               /\ at[k] \in Nat /\ s[k] \in Chars
                               /\ bytes[p] = <<s[k], p - at[k - 1]>>
    BY <1>1, CodedByte
  <2>2. p \in Nat
    BY DEF Sums
  <2>3. CharAt(s, at, p) = k
    BY <2>1, <2>2, CharAtIs
  <2> QED
    BY <2>1, <2>3 DEF ByteAt
<1>2. ASSUME \A p \in 1..at[Len(s)] : bytes[p] = ByteAt(s, at, p),
             NEW k \in 1..Len(s), NEW j \in 1..Width[s[k]]
      PROVE  bytes[at[k - 1] + j] = <<s[k], j>>
  <2>1. k - 1 \in 0..Len(s) /\ k \in 0..Len(s) /\ Len(s) \in 0..Len(s) /\ s[k] \in Chars /\ k <= Len(s)
    OBVIOUS
  <2>2. at[k - 1] \in Nat /\ at[k] \in Nat /\ at[Len(s)] \in Nat /\ at[k] = at[k - 1] + Width[s[k]]
        /\ Width[s[k]] \in Nat /\ at[k] <= at[Len(s)]
    BY <2>1, SumsIncrease, WidthIsPositive DEF Sums
  <2> DEFINE p == at[k - 1] + j
  <2>3. p \in Nat /\ p \in 1..at[Len(s)] /\ at[k - 1] < p /\ p <= at[k] /\ p - at[k - 1] = j
    <3> DEFINE a == at[k - 1]
               b == at[k]
               w == Width[s[k]]
               n == at[Len(s)]
    <3>1. a \in Nat /\ b \in Nat /\ w \in Nat /\ n \in Nat /\ b = a + w /\ b <= n /\ j \in 1..w /\ p = a + j
      BY <2>2
    <3> HIDE DEF a, b, w, n, p
    <3>2. p \in Nat /\ p \in 1..n /\ a < p /\ p <= b /\ p - a = j
      BY <3>1
    <3> QED
      BY <3>2 DEF a, b, n
  <2> HIDE DEF p
  <2>4. CharAt(s, at, p) = k
    BY <2>3, CharAtIs
  <2>5. bytes[p] = <<s[k], j>>
    BY <1>2, <2>3, <2>4 DEF ByteAt
  <2> QED
    BY <2>5 DEF p
<1>3. Coded(bytes, s, at) => \A p \in 1..at[Len(s)] : bytes[p] = ByteAt(s, at, p)
  BY <1>1
<1>4. (\A p \in 1..at[Len(s)] : bytes[p] = ByteAt(s, at, p)) => Coded(bytes, s, at)
  BY <1>2 DEF Coded
<1> QED
  BY <1>3, <1>4

LEMMA EncodeIs ==
  ASSUME NEW s \in Seq(Chars), NEW at, Sums(s, at)
  PROVE  Encode(s) = [p \in 1..at[Len(s)] |-> ByteAt(s, at, p)]
<1> DEFINE seqs == [i \in DOMAIN s |-> [j \in 1..Width[s[i]] |-> <<s[i], j>>]]
           Step(f, i) == IF i = 1 THEN seqs[i] ELSE f[i - 1] \o seqs[i]
           g == [i \in 1..Len(s) |-> [p \in 1..at[i] |-> ByteAt(s, at, p)]]
           f == CHOOSE f : f = [i \in 1..Len(s) |-> Step(f, i)]
<1>0. Len(s) \in Nat /\ DOMAIN s = 1..Len(s)
  OBVIOUS
<1>1. Len(seqs) = Len(s) /\ (Len(s) = 0 => seqs = << >>)
  <2>1. DOMAIN seqs = 1..Len(s)
    BY <1>0
  <2> HIDE DEF seqs
  <2> QED
    BY <1>0, <2>1
<1>2. CASE Len(s) = 0
  <2>1. Encode(s) = << >>
    BY <1>1, <1>2 DEF Encode, FlattenSeq
  <2>2. at[Len(s)] = 0
    BY <1>2 DEF Sums
  <2> QED
    BY <2>1, <2>2
<1>3. CASE Len(s) # 0
  <2>1. ASSUME NEW i \in 1..Len(s) PROVE g[i] = Step(g, i)
    <3>1. /\ s[i] \in Chars /\ at[i] \in Nat /\ at[i - 1] \in Nat /\ Width[s[i]] \in Nat
          /\ at[i] = at[i - 1] + Width[s[i]] /\ at[i] <= at[Len(s)] /\ at[Len(s)] \in Nat
      <4>1. i \in 0..Len(s) /\ i - 1 \in 0..Len(s) /\ Len(s) \in 0..Len(s) /\ s[i] \in Chars /\ i <= Len(s)
        OBVIOUS
      <4> QED
        BY <4>1, SumsIncrease, WidthIsPositive DEF Sums
    <3>2. ASSUME NEW j \in 1..Width[s[i]] PROVE ByteAt(s, at, at[i - 1] + j) = <<s[i], j>>
      <4> DEFINE p == at[i - 1] + j
      <4>1. p \in Nat /\ at[i - 1] < p /\ p <= at[i] /\ p - at[i - 1] = j
        <5> DEFINE a == at[i - 1]
                   b == at[i]
                   w == Width[s[i]]
        <5>1. a \in Nat /\ w \in Nat /\ b = a + w /\ j \in 1..w /\ p = a + j
          BY <3>1
        <5> HIDE DEF a, b, w, p
        <5>2. p \in Nat /\ a < p /\ p <= b /\ p - a = j
          BY <5>1
        <5> QED
          BY <5>2 DEF a, b
      <4> HIDE DEF p
      <4>2. CharAt(s, at, p) = i
        BY <4>1, CharAtIs
      <4> QED
        BY <4>1, <4>2 DEF ByteAt, p
    <3> DEFINE B == Chars \X (Nat \ {0})
               whole == [p \in 1..at[i] |-> ByteAt(s, at, p)]
               first == [p \in 1..at[i - 1] |-> ByteAt(s, at, p)]
               rest == [j \in 1..Width[s[i]] |-> <<s[i], j>>]
    <3>3. ASSUME NEW p \in 1..at[i] PROVE ByteAt(s, at, p) \in B
      <4>1. p \in 1..at[Len(s)]
        BY <3>1
      <4> QED
        BY <4>1, CharAtType
    <3>4. whole \in Seq(B) /\ first \in Seq(B) /\ rest \in Seq(B)
          /\ Len(whole) = at[i] /\ Len(first) = at[i - 1] /\ Len(rest) = Width[s[i]]
      <4>1. \A p \in 1..at[i - 1] : p \in 1..at[i]
        BY <3>1
      <4>2. \A j \in 1..Width[s[i]] : <<s[i], j>> \in B
        BY <3>1
      <4> HIDE DEF B
      <4>3. whole \in [1..at[i] -> B] /\ first \in [1..at[i - 1] -> B] /\ rest \in [1..Width[s[i]] -> B]
        BY <3>3, <4>1, <4>2
      <4> HIDE DEF whole, first, rest
      <4>4. whole \in Seq(B) /\ Len(whole) = at[i]
        BY <3>1, <4>3, TableIsSeq
      <4>5. first \in Seq(B) /\ Len(first) = at[i - 1]
        <5> DEFINE n == at[i - 1]
        <5>1. n \in Nat /\ first \in [1..n -> B]
          BY <3>1, <4>3
        <5> HIDE DEF n
        <5>2. first \in Seq(B) /\ Len(first) = n
          BY <5>1, TableIsSeq
        <5> QED
          BY <5>2 DEF n
      <4>6. rest \in Seq(B) /\ Len(rest) = Width[s[i]]
        <5> DEFINE n == Width[s[i]]
        <5>1. n \in Nat /\ rest \in [1..n -> B]
          BY <3>1, <4>3
        <5> HIDE DEF n
        <5>2. rest \in Seq(B) /\ Len(rest) = n
          BY <5>1, TableIsSeq
        <5> QED
          BY <5>2 DEF n
      <4> QED
        BY <4>4, <4>5, <4>6
    <3>5. ASSUME NEW p \in 1..at[i]
          PROVE whole[p] = IF p <= at[i - 1] THEN first[p] ELSE rest[p - at[i - 1]]
      <4>1. CASE p <= at[i - 1]
        BY <3>1, <4>1
      <4>2. CASE ~(p <= at[i - 1])
        <5> DEFINE j == p - at[i - 1]
        <5>1. j \in 1..Width[s[i]] /\ at[i - 1] + j = p
          BY <3>1, <4>2
        <5> HIDE DEF j
        <5>2. whole[p] = <<s[i], j>> /\ rest[j] = <<s[i], j>>
          BY <3>2, <5>1
        <5> QED
          BY <4>2, <5>2 DEF j
      <4> QED
        BY <4>1, <4>2
    <3> HIDE DEF whole, first, rest, B
    <3>6. whole = first \o rest
      <4>1. first \o rest \in Seq(B) /\ Len(first \o rest) = Len(first) + Len(rest)
            /\ \A p \in 1..(Len(first) + Len(rest)) :
                 (first \o rest)[p] = IF p <= Len(first) THEN first[p] ELSE rest[p - Len(first)]
        BY <3>4, ConcatProperties
      <4> DEFINE both == first \o rest
      <4>2. both \in Seq(B) /\ Len(both) = at[i] /\ \A p \in 1..at[i] : both[p] = whole[p]
        BY <3>1, <3>4, <3>5, <4>1
      <4> HIDE DEF both
      <4>3. both = whole
        BY <3>4, <4>2, SeqEqual
      <4> QED
        BY <4>3 DEF both
    <3>7. g[i] = whole /\ seqs[i] = rest
      BY <1>0 DEF whole, rest
    <3>8. CASE i = 1
      <4>1. at[i - 1] = 0
        BY <3>8 DEF Sums
      <4>2. first = << >>
        BY <4>1 DEF first
      <4>3. whole = rest
        BY <3>4, <3>6, <4>2, ConcatEmptySeq
      <4> QED
        BY <3>7, <3>8, <4>3
    <3>9. CASE i # 1
      <4>1. i - 1 \in 1..Len(s)
        BY <3>9
      <4>2. g[i - 1] = first
        BY <4>1 DEF first
      <4> HIDE DEF g, seqs
      <4> QED
        BY <3>6, <3>7, <3>9, <4>2
    <3> QED
      BY <3>8, <3>9
  <2>2. g = [i \in 1..Len(s) |-> Step(g, i)]
    <3>1. g = [i \in 1..Len(s) |-> g[i]]
      OBVIOUS
    <3> HIDE DEF g, Step
    <3> QED
      BY <2>1, <3>1
  <2>3. f = [i \in 1..Len(s) |-> Step(f, i)]
    <3> HIDE DEF g, Step
    <3> QED
      BY <2>2
  <2>4. Encode(s) = f[Len(s)]
    BY <1>1, <1>3 DEF Encode, FlattenSeq
  <2> DEFINE n == Len(s) - 1
             f0 == [k \in 0..n |-> f[k + 1]]
             g0 == [k \in 0..n |-> g[k + 1]]
  <2> HIDE DEF f, g
  <2>5. \A i \in 1..Len(s) : f[i] = Step(f, i) /\ g[i] = Step(g, i)
    <3> HIDE DEF Step
    <3> QED
      BY <2>1, <2>3
  <2>6. n \in Nat /\ 0 \in 0..n /\ 1 \in 1..Len(s)
    BY <1>0, <1>3
  <2>7. f0[0] = g0[0]
    <3>1. f[1] = seqs[1] /\ g[1] = seqs[1]
      <4> HIDE DEF seqs
      <4> QED
        BY <2>5, <2>6
    <3>2. f0[0] = f[1] /\ g0[0] = g[1]
      BY <2>6
    <3> QED
      BY <3>1, <3>2
  <2>8. ASSUME NEW k \in 1..n, f0[k - 1] = g0[k - 1] PROVE f0[k] = g0[k]
    <3>1. k + 1 \in 1..Len(s) /\ k + 1 # 1 /\ (k + 1) - 1 = k /\ k - 1 \in 0..n /\ k \in 0..n
          /\ (k - 1) + 1 = k
      BY <1>0
    <3>2. f[k] = g[k]
      BY <2>8, <3>1
    <3>3. f[k + 1] = f[k] \o seqs[k + 1] /\ g[k + 1] = g[k] \o seqs[k + 1]
      <4> HIDE DEF seqs
      <4> QED
        BY <2>5, <3>1
    <3> HIDE DEF seqs
    <3> QED
      BY <3>1, <3>2, <3>3
  <2>9. \A k \in 0..n : f0[k] = g0[k]
    <3> HIDE DEF f0, g0
    <3>1. Alike(f0, g0, n)
      BY <2>7, <2>8 DEF Alike
    <3> QED
      BY <2>6, <3>1, AgreeUpTo
  <2>10. f[Len(s)] = g[Len(s)]
    <3>1. n \in 0..n /\ n + 1 = Len(s)
      BY <1>0, <2>6
    <3>2. f0[n] = f[n + 1] /\ g0[n] = g[n + 1]
      BY <3>1
    <3> HIDE DEF f0, g0, n
    <3> QED
      BY <2>9, <3>1, <3>2
  <2> QED
    BY <1>0, <1>3, <2>4, <2>10 DEF g
<1> QED
  BY <1>0, <1>2, <1>3

LEMMA EncodeCoded ==
  ASSUME NEW s \in Seq(Chars), NEW at, Sums(s, at)
  PROVE  /\ Coded(Encode(s), s, at)
         /\ Encode(s) \in Seq(Chars \X (Nat \ {0})) /\ Len(Encode(s)) = at[Len(s)]
<1>1. at[Len(s)] \in Nat
  BY DEF Sums
<1>2. Encode(s) \in [1..at[Len(s)] -> Chars \X (Nat \ {0})]
  BY EncodeIs, CharAtType
<1>3. \A p \in 1..at[Len(s)] : Encode(s)[p] = ByteAt(s, at, p)
  BY EncodeIs
<1>4. Coded(Encode(s), s, at)
  BY <1>3, CodedIs
<1> QED
  BY <1>1, <1>2, <1>4, TableIsSeq

\* The bytes of a text within an allocation are its encoding.
LEMMA CodedBytes ==
  ASSUME NEW s \in Seq(Chars), NEW at, Sums(s, at), NEW S, NEW bytes \in Seq(S), Coded(bytes, s, at),
         at[Len(s)] <= Len(bytes)
  PROVE  SubSeq(bytes, 1, at[Len(s)]) = Encode(s)
<1> DEFINE n == at[Len(s)]
           part == SubSeq(bytes, 1, n)
           B == Chars \X (Nat \ {0})
<1>1. n \in Nat /\ Len(bytes) \in Nat
  BY DEF Sums
<1>2. Encode(s) \in Seq(B) /\ Len(Encode(s)) = n
  BY EncodeCoded
<1>3. \A p \in 1..n : bytes[p] = ByteAt(s, at, p) /\ ByteAt(s, at, p) \in B
                      /\ Encode(s)[p] = ByteAt(s, at, p)
  BY CodedIs, CharAtType, EncodeCoded
<1> HIDE DEF n, B
<1>4. part \in Seq(B) /\ Len(part) = n /\ \A p \in 1..n : part[p] = bytes[p]
  <2>1. \A p \in 1..n : bytes[p] \in B
    BY <1>3
  <2>2. part \in Seq(B) /\ Len(part) = (IF 1 <= n THEN n - 1 + 1 ELSE 0)
        /\ \A p \in 1..(n - 1 + 1) : part[p] = bytes[1 + p - 1]
    BY <1>1, <2>1, SubSeqProperties
  <2> QED
    BY <1>1, <2>2
<1> HIDE DEF part
<1>5. part = Encode(s)
  BY <1>2, <1>3, <1>4, SeqEqual
<1> QED
  BY <1>5 DEF part, n

\* A reader of the bytes finds the text.
LEMMA CharsOfIs ==
  ASSUME NEW s \in Seq(Chars), NEW at, Sums(s, at), NEW bytes, Coded(bytes, s, at)
  PROVE  CharsOf(bytes, at[Len(s)]) = s
<1> DEFINE n == at[Len(s)]
           Step(f, i) == IF i = 0 THEN << >>
                         ELSE IF StartOf(bytes, i - 1) THEN Append(f[i - 1], bytes[i][1])
                         ELSE f[i - 1]
           g == [i \in 0..n |-> IF i = 0 THEN << >> ELSE SubSeq(s, 1, CharAt(s, at, i))]
           f == CHOOSE f : f = [i \in 0..n |-> Step(f, i)]
<1>0. Len(s) \in Nat /\ n \in Nat /\ \A k \in 0..Len(s) : at[k] \in Nat
  BY SumsAre
<1>1. ASSUME NEW k \in 0..Len(s) PROVE g[at[k]] = SubSeq(s, 1, k)
  <2>1. at[k] \in 0..n
    <3>1. Len(s) \in 0..Len(s) /\ k <= Len(s)
      BY <1>0
    <3>2. at[k] <= at[Len(s)]
      BY <3>1, SumsIncrease
    <3> QED
      BY <1>0, <3>2
  <2>2. CASE k = 0
    <3>1. at[k] = 0 /\ SubSeq(s, 1, k) = << >>
      BY <2>2 DEF Sums
    <3> QED
      BY <2>1, <3>1
  <2>3. CASE k # 0
    <3>1. k \in 1..Len(s) /\ k - 1 \in 0..Len(s) /\ k - 1 < k
      BY <1>0, <2>3
    <3>2. at[k - 1] < at[k]
      BY <3>1, SumsIncrease
    <3>3. at[k] # 0
      BY <1>0, <3>1, <3>2
    <3>4. CharAt(s, at, at[k]) = k
      BY <1>0, <3>1, <3>2, CharAtIs
    <3> QED
      BY <2>1, <3>3, <3>4
  <2> QED
    BY <2>2, <2>3
<1>2. ASSUME NEW i \in 1..n PROVE g[i] = Step(g, i)
  <2>1. PICK k \in 1..Len(s) : /\ at[k - 1] < i /\ i <= at[k] /\ at[k - 1] \in Nat
                               /\ at[k] \in Nat /\ s[k] \in Chars
                               /\ bytes[i] = <<s[k], i - at[k - 1]>>
    BY CodedByte
  <2>2. i \in Nat /\ i # 0 /\ i \in 0..n /\ i - 1 \in 0..n /\ (i - 1) + 1 = i
    BY <1>0
  <2>3. CharAt(s, at, i) = k
    BY <2>1, <2>2, CharAtIs
  <2>4. g[i] = SubSeq(s, 1, k)
    BY <2>2, <2>3
  <2>5. StartOf(bytes, i - 1) <=> i - at[k - 1] = 1
    BY <2>1, <2>2 DEF StartOf
  <2>6. CASE i - at[k - 1] = 1
    <3>1. at[k - 1] = i - 1
      BY <2>1, <2>2, <2>6
    <3>2. k - 1 \in 0..Len(s)
      BY <1>0
    <3>3. g[i - 1] = SubSeq(s, 1, k - 1)
      BY <1>1, <3>1, <3>2
    <3>4. Append(SubSeq(s, 1, k - 1), s[k]) = SubSeq(s, 1, k)
      BY <1>0
    <3> HIDE DEF g
    <3> QED
      BY <2>1, <2>2, <2>4, <2>5, <2>6, <3>3, <3>4
  <2>7. CASE i - at[k - 1] # 1
    <3>1. at[k - 1] < i - 1 /\ i - 1 <= at[k] /\ i - 1 \in Nat /\ i - 1 # 0
      BY <2>1, <2>2, <2>7
    <3>2. CharAt(s, at, i - 1) = k
      BY <3>1, CharAtIs
    <3>3. g[i - 1] = SubSeq(s, 1, k)
      BY <2>2, <3>1, <3>2
    <3> HIDE DEF g
    <3> QED
      BY <2>2, <2>4, <2>5, <2>7, <3>3
  <2> QED
    BY <2>6, <2>7
<1>3. g[0] = << >>
  BY <1>0
<1>4. \A i \in 0..n : g[i] = Step(g, i)
  <2>1. ASSUME NEW i \in 0..n PROVE g[i] = Step(g, i)
    <3>1. CASE i = 0
      BY <1>3, <3>1
    <3>2. CASE i # 0
      <4>1. i \in 1..n
        BY <1>0, <3>2
      <4> HIDE DEF g, Step
      <4> QED
        BY <1>2, <4>1
    <3> QED
      BY <3>1, <3>2
  <2> QED
    BY <2>1
<1>5. g = [i \in 0..n |-> Step(g, i)]
  <2>1. g = [i \in 0..n |-> g[i]]
    OBVIOUS
  <2> HIDE DEF g, Step
  <2> QED
    BY <1>4, <2>1
<1>6. f = [i \in 0..n |-> Step(f, i)]
  <2> HIDE DEF g, Step
  <2> QED
    BY <1>5
<1>7. CharsOf(bytes, n) = f[n]
  BY DEF CharsOf
<1> HIDE DEF f, g
<1>8. \A i \in 0..n : f[i] = Step(f, i)
  <2> HIDE DEF Step
  <2> QED
    BY <1>6
<1>9. Alike(f, g, n)
  <2>1. f[0] = g[0]
    BY <1>0, <1>3, <1>8
  <2>2. ASSUME NEW k \in 1..n, f[k - 1] = g[k - 1] PROVE f[k] = g[k]
    <3>1. k \in 0..n /\ k # 0
      BY <1>0
    <3> QED
      BY <1>4, <1>8, <2>2, <3>1
  <2> QED
    BY <2>1, <2>2 DEF Alike
<1>10. f[n] = g[n]
  BY <1>0, <1>9, AgreeUpTo
<1>11. g[n] = SubSeq(s, 1, Len(s))
  BY <1>0, <1>1
<1>12. SubSeq(s, 1, Len(s)) = s
  OBVIOUS
<1> QED
  BY <1>7, <1>10, <1>11, <1>12

\* The sums of a text and of its beginning.
LEMMA Prefix ==
  ASSUME NEW s \in Seq(Chars), NEW at, Sums(s, at), NEW bytes, Coded(bytes, s, at), NEW m \in 0..Len(s)
  PROVE  \E am : /\ SubSeq(s, 1, m) \in Seq(Chars) /\ Len(SubSeq(s, 1, m)) = m
                 /\ Sums(SubSeq(s, 1, m), am) /\ am[m] = at[m] /\ Coded(bytes, SubSeq(s, 1, m), am)
                 /\ \A k \in 0..m : am[k] = at[k]
                 /\ \A k \in 1..m : SubSeq(s, 1, m)[k] = s[k]
<1> DEFINE c == SubSeq(s, 1, m)
           am == [k \in 0..m |-> at[k]]
<1>0. Len(s) \in Nat /\ m \in Nat /\ m <= Len(s) /\ \A k \in 0..m : at[k] \in Nat
  <2>1. Len(s) \in Nat /\ m \in Nat /\ m <= Len(s) /\ \A k \in 0..m : k \in 0..Len(s)
    OBVIOUS
  <2> QED
    BY <2>1 DEF Sums
<1>1. c \in Seq(Chars) /\ Len(c) = m /\ \A k \in 1..m : c[k] = s[k]
  BY <1>0
<1>2. am \in [0..m -> Nat] /\ \A k \in 0..m : am[k] = at[k]
  BY <1>0
<1>3. \A k \in 1..m : k \in 1..Len(s) /\ k \in 0..m /\ k - 1 \in 0..m
  BY <1>0
<1> HIDE DEF c, am
<1>4. Sums(c, am)
  <2>1. am[0] = 0
    BY <1>0, <1>2 DEF Sums
  <2>2. ASSUME NEW k \in 1..m PROVE am[k] = am[k - 1] + Width[c[k]]
    <3>1. am[k] = at[k] /\ am[k - 1] = at[k - 1] /\ c[k] = s[k] /\ k \in 1..Len(s)
      BY <1>1, <1>2, <1>3
    <3> QED
      BY <3>1 DEF Sums
  <2> QED
    BY <1>1, <1>2, <2>1, <2>2 DEF Sums
<1>5. Coded(bytes, c, am)
  BY <1>1, <1>2, <1>3 DEF Coded
<1>6. am[m] = at[m]
  BY <1>0, <1>2
<1> QED
  BY <1>1, <1>2, <1>4, <1>5, <1>6 DEF c

\* Where the last character starts that begins at offset n or before.
LEMMA FindPrevCharIs ==
  ASSUME NEW s \in Seq(Chars), NEW at, Sums(s, at), NEW bytes, Coded(bytes, s, at),
         NEW n \in Nat, n < at[Len(s)]
  PROVE  \E m \in 0..(Len(s) - 1) :
           at[m] <= n /\ n < at[m + 1] /\ FindPrevChar(bytes, n) = at[m]
<1>0. Len(s) \in Nat /\ at[Len(s)] \in Nat /\ \A k \in 0..Len(s) : at[k] \in Nat
  BY SumsAre
<1> DEFINE q == n + 1
<1>1. PICK k \in 1..Len(s) : at[k - 1] < q /\ q <= at[k]
  <2>1. q \in 1..at[Len(s)]
    BY <1>0
  <2> HIDE DEF q
  <2> QED
    BY <2>1, ByteHasChar
<1> DEFINE m == k - 1
           IsLast(i) == StartOf(bytes, i) /\ \A j \in (i + 1)..n : ~StartOf(bytes, j)
<1>2. m \in 0..(Len(s) - 1) /\ m \in 0..Len(s) /\ m + 1 \in 0..Len(s) /\ m + 1 = k
      /\ at[m] \in Nat /\ at[m + 1] \in Nat /\ at[m] <= n /\ n < at[m + 1]
  BY <1>0, <1>1
<1> HIDE DEF m, q
<1>3. ASSUME NEW i \in 0..n PROVE StartOf(bytes, i) <=> \E c \in 0..(Len(s) - 1) : at[c] = i
  <2>1. i \in Nat /\ i < at[Len(s)]
    BY <1>0
  <2> QED
    BY <2>1, StartsAre
<1>4. ASSUME NEW c \in 0..(Len(s) - 1), at[c] <= n PROVE at[c] <= at[m]
  <2>1. c \in 0..Len(s) /\ c \in Int /\ m \in Int
    BY <1>0, <1>2
  <2>2. ~(m + 1 <= c)
    <3> SUFFICES ASSUME m + 1 <= c PROVE FALSE
      OBVIOUS
    <3>1. at[m + 1] <= at[c]
      BY <1>2, <2>1, SumsIncrease
    <3> QED
      BY <1>0, <1>2, <1>4, <2>1, <3>1
  <2>3. c <= m
    BY <2>1, <2>2
  <2> QED
    BY <1>2, <2>1, <2>3, SumsIncrease
<1>5. at[m] \in 0..n /\ IsLast(at[m])
  <2>1. at[m] \in 0..n
    BY <1>2
  <2>2. StartOf(bytes, at[m])
    BY <1>2, <1>3, <2>1
  <2>3. ASSUME NEW j \in (at[m] + 1)..n, StartOf(bytes, j) PROVE FALSE
    <3>1. j \in 0..n /\ at[m] < j /\ j <= n
      BY <1>2
    <3>2. PICK c \in 0..(Len(s) - 1) : at[c] = j
      BY <1>3, <2>3, <3>1
    <3>3. at[c] <= at[m]
      BY <1>4, <3>1, <3>2
    <3> QED
      BY <1>2, <3>1, <3>2, <3>3
  <2> QED
    BY <2>1, <2>2, <2>3
<1>6. ASSUME NEW i \in 0..n, IsLast(i) PROVE i = at[m]
  <2>1. PICK c \in 0..(Len(s) - 1) : at[c] = i
    BY <1>3, <1>6
  <2>2. i <= at[m]
    BY <1>4, <2>1
  <2>3. ~(i < at[m])
    <3> SUFFICES ASSUME i < at[m] PROVE FALSE
      OBVIOUS
    <3>1. at[m] \in (i + 1)..n
      BY <1>2, <1>5
    <3> QED
      BY <1>5, <1>6, <3>1
  <2> QED
    BY <1>2, <2>2, <2>3
<1>7. FindPrevChar(bytes, n) = at[m]
  <2>1. FindPrevChar(bytes, n) = CHOOSE i \in 0..n : IsLast(i)
    BY DEF FindPrevChar
  <2> DEFINE i == CHOOSE i \in 0..n : IsLast(i)
  <2> HIDE DEF IsLast
  <2>2. i \in 0..n /\ IsLast(i)
    BY <1>5
  <2> HIDE DEF i
  <2>3. i = at[m]
    BY <1>6, <2>2
  <2> QED
    BY <2>1, <2>3 DEF i
<1> QED
  BY <1>2, <1>7

\* Counting the starts counts the characters.
LEMMA StrlenIs ==
  ASSUME NEW s \in Seq(Chars), NEW at, Sums(s, at), NEW bytes, Coded(bytes, s, at),
         NEW m \in 0..Len(s)
  PROVE  Utf8Strlen(bytes, at[m]) = m
<1> DEFINE S == {i \in 0..(at[m] - 1) : StartOf(bytes, i)}
           f == [k \in 0..(m - 1) |-> at[k]]
<1>0. Len(s) \in Nat /\ m \in Nat /\ at[Len(s)] \in Nat /\ \A k \in 0..Len(s) : at[k] \in Nat
  BY SumsAre
<1>1. \A k \in 0..(m - 1) : k \in 0..(Len(s) - 1) /\ k \in 0..Len(s) /\ k < m
                            /\ at[k] < at[m] /\ at[k] \in Nat
  <2>1. ASSUME NEW k \in 0..(m - 1) PROVE k \in 0..(Len(s) - 1) /\ k \in 0..Len(s) /\ k < m
    BY <1>0
  <2> QED
    BY <1>0, <2>1, SumsIncrease
<1>2. at[m] <= at[Len(s)]
  <2>1. Len(s) \in 0..Len(s) /\ m <= Len(s)
    BY <1>0
  <2> QED
    BY <2>1, SumsIncrease
<1>3. ASSUME NEW i \in 0..(at[m] - 1)
      PROVE  StartOf(bytes, i) <=> \E c \in 0..(Len(s) - 1) : at[c] = i
  <2>1. i \in Nat /\ i < at[Len(s)]
    BY <1>0, <1>2
  <2> QED
    BY <2>1, StartsAre
<1>4. \A k \in 0..(m - 1) : at[k] \in S
  <2> SUFFICES ASSUME NEW k \in 0..(m - 1) PROVE at[k] \in S
    OBVIOUS
  <2>1. at[k] \in 0..(at[m] - 1) /\ k \in 0..(Len(s) - 1)
    BY <1>0, <1>1
  <2> QED
    BY <1>3, <2>1
<1>5. \A a, b \in 0..(m - 1) : at[a] = at[b] => a = b
  <2> SUFFICES ASSUME NEW a \in 0..(m - 1), NEW b \in 0..(m - 1), at[a] = at[b] PROVE a = b
    OBVIOUS
  <2>1. a \in 0..Len(s) /\ b \in 0..Len(s) /\ a \in Int /\ b \in Int /\ at[a] \in Nat
    BY <1>0, <1>1
  <2>2. ~(a < b) /\ ~(b < a)
    BY <2>1, SumsIncrease
  <2> QED
    BY <2>1, <2>2
<1>6. \A i \in S : \E k \in 0..(m - 1) : at[k] = i
  <2> SUFFICES ASSUME NEW i \in S PROVE \E k \in 0..(m - 1) : at[k] = i
    OBVIOUS
  <2>1. PICK c \in 0..(Len(s) - 1) : at[c] = i
    BY <1>3
  <2>2. c \in 0..Len(s) /\ c \in Int /\ i < at[m] /\ i \in Nat
    BY <1>0
  <2>3. ~(m <= c)
    BY <1>0, <2>1, <2>2, SumsIncrease
  <2>4. c \in 0..(m - 1)
    BY <1>0, <2>2, <2>3
  <2> QED
    BY <2>1, <2>4
<1>7. ExistsBijection(0..(m - 1), S)
  <2>1. f \in [0..(m - 1) -> S] /\ \A k \in 0..(m - 1) : f[k] = at[k]
    BY <1>4
  <2> HIDE DEF f, S
  <2>2. f \in Bijection(0..(m - 1), S)
    BY <1>5, <1>6, <2>1, Fun_IsBij
  <2> QED
    BY <2>2 DEF ExistsBijection
<1>8. IsFiniteSet(0..(m - 1)) /\ Cardinality(0..(m - 1)) = m
  <2>1. m - 1 \in Int /\ 0 \in Int
    BY <1>0
  <2>2. IsFiniteSet(0..(m - 1)) /\ Cardinality(0..(m - 1)) = (IF 0 > m - 1 THEN 0 ELSE (m - 1) - 0 + 1)
    BY <2>1, FS_Interval
  <2> QED
    BY <1>0, <2>2
<1>9. Cardinality(S) = m
  <2> HIDE DEF S
  <2> QED
    BY <1>7, <1>8, FS_Bijection
<1> QED
  BY <1>9 DEF Utf8Strlen

\* The bytes a text takes.
LEMMA BytesIs ==
  ASSUME NEW s \in Seq(Chars), NEW at, Sums(s, at)
  PROVE  Text!Bytes(s) = at[Len(s)]
<1> DEFINE n == Len(s)
           Step(f, i) == IF i = 0 THEN 0 ELSE f[i - 1] + Width[s[i]]
           f == CHOOSE f : f = [i \in 0..Len(s) |-> Step(f, i)]
<1>0. n \in Nat
  OBVIOUS
<1>1. at = [i \in 0..Len(s) |-> Step(at, i)]
  <2>1. at = [i \in 0..Len(s) |-> at[i]] /\ at[0] = 0
    BY DEF Sums
  <2>2. ASSUME NEW i \in 0..Len(s) PROVE at[i] = Step(at, i)
    <3>1. i # 0 => i \in 1..Len(s)
      OBVIOUS
    <3> QED
      BY <2>1, <3>1 DEF Sums
  <2> HIDE DEF Step
  <2> QED
    BY <2>1, <2>2
<1>2. f = [i \in 0..Len(s) |-> Step(f, i)]
  <2> HIDE DEF Step
  <2> QED
    BY <1>1
<1>3. Text!Bytes(s) = f[Len(s)]
  BY DEF Text!Bytes
<1> HIDE DEF f
<1>4. Alike(f, at, n)
  <2>1. f[0] = at[0]
    BY <1>0, <1>2 DEF Sums
  <2>2. ASSUME NEW k \in 1..n, f[k - 1] = at[k - 1] PROVE f[k] = at[k]
    <3>1. k \in 0..Len(s) /\ k # 0 /\ k \in 1..Len(s)
      BY <1>0
    <3> QED
      BY <1>2, <2>2, <3>1 DEF Sums
  <2> QED
    BY <2>1, <2>2 DEF Alike
<1>5. f[n] = at[n]
  BY <1>0, <1>4, AgreeUpTo
<1> QED
  BY <1>3, <1>5

---------------------------------------------------------------------------
(* A part of a text is exchanged for another text.                          *)

Spliced(s, i, c, j) == (SubSeq(s, 1, i) \o c) \o SubSeq(s, j + 1, Len(s))

LEMMA SplicedSeq ==
  ASSUME NEW s \in Seq(Chars), NEW c \in Seq(Chars), NEW i \in 0..Len(s), NEW j \in 0..Len(s), i <= j
  PROVE  LET r == Spliced(s, i, c, j)
             m == Len(c)
             d == Len(s) - j
         IN /\ r \in Seq(Chars) /\ Len(r) = i + m + d
            /\ \A k \in 1..i : r[k] = s[k]
            /\ \A k \in 1..m : r[i + k] = c[k]
            /\ \A k \in 1..d : r[i + m + k] = s[j + k]
<1> DEFINE n == Len(s)
           m == Len(c)
           d == n - j
           a == SubSeq(s, 1, i)
           z == SubSeq(s, j + 1, n)
           ac == a \o c
           r == ac \o z
<1>0. n \in Nat /\ m \in Nat /\ i \in Nat /\ j \in Nat /\ i <= n /\ j <= n /\ d \in Nat
  OBVIOUS
<1>1. a \in Seq(Chars) /\ Len(a) = i /\ \A k \in 1..i : a[k] = s[k]
  <2>1. \A k \in 1..i : s[k] \in Chars
    BY <1>0
  <2>2. a \in Seq(Chars) /\ Len(a) = (IF 1 <= i THEN i - 1 + 1 ELSE 0)
        /\ \A k \in 1..(i - 1 + 1) : a[k] = s[1 + k - 1]
    BY <1>0, <2>1, SubSeqProperties
  <2> HIDE DEF a
  <2> QED
    BY <1>0, <2>2
<1>2. z \in Seq(Chars) /\ Len(z) = d /\ \A k \in 1..d : z[k] = s[j + k]
  <2>1. \A k \in (j + 1)..n : s[k] \in Chars
    BY <1>0
  <2>2. z \in Seq(Chars) /\ Len(z) = (IF j + 1 <= n THEN n - (j + 1) + 1 ELSE 0)
        /\ \A k \in 1..(n - (j + 1) + 1) : z[k] = s[(j + 1) + k - 1]
    <3>1. j + 1 \in Int /\ n \in Int
      BY <1>0
    <3> HIDE DEF n
    <3> QED
      BY <2>1, <3>1, SubSeqProperties
  <2> HIDE DEF z, n
  <2>3. Len(z) = d
    BY <1>0, <2>2
  <2>4. ASSUME NEW k \in 1..d PROVE z[k] = s[j + k]
    <3>1. k \in 1..(n - (j + 1) + 1) /\ (j + 1) + k - 1 = j + k
      BY <1>0
    <3> QED
      BY <2>2, <3>1
  <2> QED
    BY <2>2, <2>3, <2>4
<1> HIDE DEF a, z
<1>3. ac \in Seq(Chars) /\ Len(ac) = i + m
      /\ \A k \in 1..(i + m) : ac[k] = IF k <= i THEN a[k] ELSE c[k - i]
  BY <1>1, ConcatProperties
<1> HIDE DEF ac
<1>4. r \in Seq(Chars) /\ Len(r) = i + m + d
      /\ \A k \in 1..(i + m + d) : r[k] = IF k <= i + m THEN ac[k] ELSE z[k - (i + m)]
  <2>1. r \in Seq(Chars) /\ Len(r) = Len(ac) + Len(z)
        /\ \A k \in 1..(Len(ac) + Len(z)) : r[k] = IF k <= Len(ac) THEN ac[k] ELSE z[k - Len(ac)]
    BY <1>2, <1>3, ConcatProperties
  <2> HIDE DEF r
  <2> QED
    BY <1>2, <1>3, <2>1
<1> HIDE DEF r, d, n, m
<1>5. \A k \in 1..i : r[k] = s[k]
  <2> SUFFICES ASSUME NEW k \in 1..i PROVE r[k] = s[k]
    OBVIOUS
  <2>1. k \in 1..(i + m + d) /\ k <= i + m /\ k \in 1..(i + m) /\ k <= i
    BY <1>0
  <2> QED
    BY <1>1, <1>3, <1>4, <2>1
<1>6. \A k \in 1..m : r[i + k] = c[k]
  <2> SUFFICES ASSUME NEW k \in 1..m PROVE r[i + k] = c[k]
    OBVIOUS
  <2>1. i + k \in 1..(i + m + d) /\ i + k <= i + m /\ i + k \in 1..(i + m)
        /\ ~(i + k <= i) /\ (i + k) - i = k
    BY <1>0
  <2> QED
    BY <1>3, <1>4, <2>1
<1>7. \A k \in 1..d : r[i + m + k] = s[j + k]
  <2> SUFFICES ASSUME NEW k \in 1..d PROVE r[i + m + k] = s[j + k]
    OBVIOUS
  <2>1. i + m + k \in 1..(i + m + d) /\ ~(i + m + k <= i + m) /\ (i + m + k) - (i + m) = k
    BY <1>0
  <2> QED
    BY <1>2, <1>4, <2>1
<1> QED
  BY <1>4, <1>5, <1>6, <1>7 DEF r, ac, a, z, d, m, n, Spliced

LEMMA Within ==
  ASSUME NEW a \in Nat, NEW b \in Nat, NEW c \in Nat, a + b <= c, NEW w \in 1..b
  PROVE  a + w \in 1..c
  OBVIOUS

LEMMA Shifted ==
  ASSUME NEW x \in Nat, NEW y \in Nat, NEW z \in Nat, NEW v \in Nat, NEW b \in Nat,
         y <= x, x + v <= z, NEW w \in 1..v
  PROVE  /\ (x - y) + w \in 1..(z - y)
         /\ (b + (x - y)) + w = b + ((x - y) + w)
         /\ y + ((x - y) + w) = x + w
  OBVIOUS

LEMMA Regroup ==
  ASSUME NEW a \in Nat, NEW b \in Nat, NEW c \in Nat
  PROVE  (a + b) + c = a + (b + c)
  OBVIOUS

\* out has the n bytes of new where bytes had those from at[i] to at[j].
Replaced(out, bytes, s, at, i, j, new, n) ==
  /\ \A p \in 1..at[i] : out[p] = bytes[p]
  /\ \A p \in 1..n : out[at[i] + p] = new[p]
  /\ \A p \in 1..(at[Len(s)] - at[j]) : out[at[i] + n + p] = bytes[at[j] + p]

\* The first n bytes encode a text.
Encodes(bytes, s, n) == \E at : Sums(s, at) /\ Coded(bytes, s, at) /\ at[Len(s)] = n

LEMMA SpliceIs ==
  ASSUME NEW s \in Seq(Chars), NEW at, Sums(s, at), NEW bytes, Coded(bytes, s, at),
         NEW c \in Seq(Chars), NEW ct, Sums(c, ct), NEW new, Coded(new, c, ct),
         NEW i \in 0..Len(s), NEW j \in 0..Len(s), i <= j, NEW out,
         Replaced(out, bytes, s, at, i, j, new, ct[Len(c)])
  PROVE  Encodes(out, Spliced(s, i, c, j), at[i] + ct[Len(c)] + (at[Len(s)] - at[j]))
<1>a. /\ \A p \in 1..at[i] : out[p] = bytes[p]
      /\ \A p \in 1..ct[Len(c)] : out[at[i] + p] = new[p]
      /\ \A p \in 1..(at[Len(s)] - at[j]) : out[at[i] + ct[Len(c)] + p] = bytes[at[j] + p]
  BY DEF Replaced
<1> DEFINE n == Len(s)
           m == Len(c)
           d == n - j
           r == Spliced(s, i, c, j)
           rt == [k \in 0..(i + m + d) |->
                    IF k <= i THEN at[k]
                    ELSE IF k <= i + m THEN at[i] + ct[k - i]
                    ELSE at[i] + ct[m] + (at[j + (k - (i + m))] - at[j])]
<1>0. n \in Nat /\ m \in Nat /\ i \in Nat /\ j \in Nat /\ i <= n /\ j <= n /\ d \in Nat
  OBVIOUS
<1>1. /\ r \in Seq(Chars) /\ Len(r) = i + m + d
      /\ \A k \in 1..i : r[k] = s[k]
      /\ \A k \in 1..m : r[i + k] = c[k]
      /\ \A k \in 1..d : r[i + m + k] = s[j + k]
  BY SplicedSeq
<1>2. /\ \A k \in 0..i : k \in 0..n
      /\ \A k \in 1..i : k \in 1..n /\ k \in 0..i /\ k - 1 \in 0..i
      /\ \A k \in 0..d : j + k \in 0..n
      /\ \A k \in 1..d : j + k \in 1..n /\ (j + k) - 1 = j + (k - 1) /\ k \in 0..d /\ k - 1 \in 0..d
      /\ \A k \in 1..m : k \in 0..m /\ k - 1 \in 0..m
      /\ i \in 0..i /\ 0 \in 0..i /\ 0 \in 0..m /\ m \in 0..m /\ 0 \in 0..d /\ d \in 0..d /\ j + d = n
  <2>1. d = n - j
    OBVIOUS
  <2> HIDE DEF n, m, d
  <2>2. \A k \in 0..d : j + k \in 0..n
    BY <1>0, <2>1
  <2>3. \A k \in 1..d : j + k \in 1..n /\ (j + k) - 1 = j + (k - 1) /\ k \in 0..d /\ k - 1 \in 0..d
    BY <1>0, <2>1
  <2>4. \A k \in 1..i : k \in 1..n /\ k \in 0..i /\ k - 1 \in 0..i
    BY <1>0
  <2>5. i \in 0..i /\ 0 \in 0..i /\ 0 \in 0..m /\ m \in 0..m /\ 0 \in 0..d /\ d \in 0..d /\ j + d = n
    BY <1>0, <2>1
  <2>6. (\A k \in 0..i : k \in 0..n) /\ (\A k \in 1..m : k \in 0..m /\ k - 1 \in 0..m)
    BY <1>0
  <2> QED
    BY <2>2, <2>3, <2>4, <2>5, <2>6
<1>3. /\ \A k \in 0..n : at[k] \in Nat /\ (i <= k => at[i] <= at[k]) /\ (j <= k => at[j] <= at[k])
                         /\ (k <= i => at[k] <= at[i]) /\ at[k] <= at[n]
      /\ \A k \in 0..m : ct[k] \in Nat /\ ct[k] <= ct[m]
      /\ ct[0] = 0
  <2>0. at \in [0..n -> Nat] /\ ct \in [0..m -> Nat]
    BY DEF Sums
  <2>1. \A k \in 0..n : at[k] \in Nat /\ n \in 0..n /\ k <= n
    <3> HIDE DEF n
    <3> QED
      BY <1>0, <2>0
  <2>2. \A k \in 0..m : ct[k] \in Nat /\ m \in 0..m /\ k <= m
    <3> HIDE DEF m
    <3> QED
      BY <1>0, <2>0
  <2>3. \A k \in 0..n : (i <= k => at[i] <= at[k]) /\ (j <= k => at[j] <= at[k])
    BY SumsIncrease
  <2>4. \A k \in 0..n : (k <= i => at[k] <= at[i]) /\ at[k] <= at[n]
    BY <2>1, SumsIncrease
  <2>5. \A k \in 0..m : ct[k] <= ct[m]
    BY <2>2, SumsIncrease
  <2> QED
    BY <2>1, <2>2, <2>3, <2>4, <2>5 DEF Sums
<1>4. \A k \in 0..i : rt[k] = at[k]
  BY <1>0
<1>5. \A k \in 0..m : rt[i + k] = at[i] + ct[k]
  <2> SUFFICES ASSUME NEW k \in 0..m PROVE rt[i + k] = at[i] + ct[k]
    OBVIOUS
  <2>1. i + k \in 0..(i + m + d) /\ i + k <= i + m /\ (i + k) - i = k /\ (i + k <= i => k = 0)
    BY <1>0
  <2>2. CASE k = 0
    BY <1>0, <1>2, <1>3, <1>4, <2>2
  <2>3. CASE k # 0
    <3>1. ~(i + k <= i)
      BY <2>1, <2>3
    <3> QED
      BY <2>1, <3>1
  <2> QED
    BY <2>2, <2>3
<1>6. \A k \in 0..d : rt[i + m + k] = at[i] + ct[m] + (at[j + k] - at[j])
  <2> SUFFICES ASSUME NEW k \in 0..d PROVE rt[i + m + k] = at[i] + ct[m] + (at[j + k] - at[j])
    OBVIOUS
  <2>1. i + m + k \in 0..(i + m + d) /\ (i + m + k) - (i + m) = k
    BY <1>0
  <2>2. CASE k = 0
    <3>1. rt[i + m] = at[i] + ct[m]
      BY <1>0, <1>2, <1>5
    <3>2. i + m + k = i + m /\ j + k = j /\ at[j] \in Nat /\ at[i] \in Nat /\ ct[m] \in Nat
      BY <1>0, <1>2, <1>3, <2>2
    <3> HIDE DEF rt, n, m
    <3> QED
      BY <3>1, <3>2
  <2>3. CASE k # 0
    <3>1. ~(i + m + k <= i) /\ ~(i + m + k <= i + m)
      BY <1>0, <2>3
    <3> QED
      BY <2>1, <3>1
  <2> QED
    BY <2>2, <2>3
<1>7. ASSUME NEW k \in 0..(i + m + d) PROVE rt[k] \in Nat
  <2> DEFINE b == at[i] + ct[m] + (at[j + (k - (i + m))] - at[j])
  <2>1. CASE k <= i
    <3>1. k \in 0..i /\ k \in 0..n
      BY <1>0, <2>1
    <3> HIDE DEF rt
    <3> QED
      BY <1>3, <1>4, <3>1
  <2>2. CASE ~(k <= i) /\ k <= i + m
    <3>1. k - i \in 0..m /\ i + (k - i) = k
      BY <1>0, <2>2
    <3>2. rt[k] = at[i] + ct[k - i]
      BY <2>2
    <3>3. at[i] \in Nat /\ ct[k - i] \in Nat
      BY <1>2, <1>3, <3>1
    <3> HIDE DEF rt
    <3> QED
      BY <3>2, <3>3
  <2>3. CASE ~(k <= i + m)
    <3> DEFINE q == k - (i + m)
    <3>1. q \in 0..d /\ i + m + q = k
      BY <1>0, <2>3
    <3> HIDE DEF q
    <3>2. j + q \in 0..n /\ j <= j + q
      BY <1>0, <1>2, <3>1
    <3>3. at[i] \in Nat /\ ct[m] \in Nat /\ at[j] \in Nat /\ at[j + q] \in Nat /\ at[j] <= at[j + q]
      BY <1>2, <1>3, <3>2
    <3>4. rt[k] = at[i] + ct[m] + (at[j + q] - at[j])
      BY <1>6, <3>1
    <3> DEFINE x == at[i]
               y == ct[m]
               u == at[j + q]
               v == at[j]
    <3>5. x \in Nat /\ y \in Nat /\ u \in Nat /\ v \in Nat /\ v <= u /\ rt[k] = x + y + (u - v)
      BY <3>3, <3>4
    <3> HIDE DEF rt, x, y, u, v
    <3> QED
      BY <3>5
  <2> QED
    BY <1>0, <2>1, <2>2, <2>3
<1>8. rt \in [0..(i + m + d) -> Nat] /\ rt[0] = 0
  <2>1. rt \in [0..(i + m + d) -> Nat]
    BY <1>7
  <2>2. rt[0] = at[0] /\ at[0] = 0
    BY <1>2, <1>4 DEF Sums
  <2> QED
    BY <2>1, <2>2
<1> HIDE DEF rt
<1>9. ASSUME NEW k \in 1..(i + m + d)
      PROVE  /\ rt[k] = rt[k - 1] + Width[r[k]]
             /\ \A w \in 1..Width[r[k]] : out[rt[k - 1] + w] = <<r[k], w>>
  <2>1. CASE k <= i
    <3>1. k \in 1..i /\ k \in 1..n /\ k \in 0..i /\ k - 1 \in 0..i
      BY <1>0, <2>1
    <3>2. r[k] = s[k] /\ rt[k] = at[k] /\ rt[k - 1] = at[k - 1] /\ at[k] = at[k - 1] + Width[s[k]]
          /\ at[k] <= at[i] /\ at[k - 1] \in Nat /\ at[i] \in Nat /\ s[k] \in Chars
      <4>1. at[k] = at[k - 1] + Width[s[k]]
        BY <3>1 DEF Sums
      <4>2. k <= i /\ k \in 0..n /\ k - 1 \in 0..n /\ i \in 0..n
        BY <1>2, <2>1, <3>1
      <4> HIDE DEF r, n
      <4> QED
        BY <1>1, <1>3, <1>4, <3>1, <4>1, <4>2 DEF n
    <3>3. ASSUME NEW w \in 1..Width[s[k]] PROVE out[at[k - 1] + w] = <<s[k], w>>
      <4>1. bytes[at[k - 1] + w] = <<s[k], w>>
        BY <3>1 DEF Coded
      <4>2. Width[s[k]] \in Nat
        BY <3>2, WidthIsPositive
      <4>3. at[k - 1] + w \in 1..at[i]
        <5>1. at[k - 1] + Width[s[k]] <= at[i]
          BY <3>2
        <5> QED
          BY <3>2, <4>2, <5>1, Within
      <4> QED
        BY <1>a, <4>1, <4>3
    <3> HIDE DEF r
    <3> QED
      BY <3>2, <3>3
  <2>2. CASE ~(k <= i) /\ k <= i + m
    <3> DEFINE q == k - i
    <3>1. q \in 1..m /\ i + q = k /\ q - 1 \in 0..m /\ q \in 0..m /\ i + (q - 1) = k - 1
      BY <1>0, <2>2
    <3> HIDE DEF q
    <3>2. r[k] = c[q] /\ rt[k] = at[i] + ct[q] /\ rt[k - 1] = at[i] + ct[q - 1] /\ c[q] \in Chars
      <4>1. rt[i + q] = at[i] + ct[q] /\ rt[i + (q - 1)] = at[i] + ct[q - 1]
        BY <1>5, <3>1
      <4>2. r[i + q] = c[q]
        BY <1>1, <3>1
      <4>3. c[q] \in Chars
        BY <3>1
      <4> HIDE DEF r
      <4> QED
        BY <3>1, <4>1, <4>2, <4>3
    <3>3. ct[q] = ct[q - 1] + Width[c[q]] /\ ct[q] <= ct[m] /\ ct[q - 1] \in Nat /\ at[i] \in Nat
          /\ ct[m] \in Nat /\ Width[c[q]] \in Nat
      <4>1. ct[q] = ct[q - 1] + Width[c[q]]
        BY <3>1 DEF Sums
      <4>2. Width[c[q]] \in Nat
        BY <3>2, WidthIsPositive
      <4> QED
        BY <1>2, <1>3, <3>1, <4>1, <4>2
    <3>4. ASSUME NEW w \in 1..Width[c[q]] PROVE out[rt[k - 1] + w] = <<c[q], w>>
      <4> DEFINE p == ct[q - 1] + w
      <4>1. new[p] = <<c[q], w>>
        BY <3>1 DEF Coded
      <4>2. p \in 1..ct[m]
        <5>1. ct[q - 1] + Width[c[q]] <= ct[m]
          BY <3>3
        <5> QED
          BY <3>3, <5>1, Within
      <4>3. rt[k - 1] + w = at[i] + p
        <5>1. rt[k - 1] = at[i] + ct[q - 1]
          BY <3>2
        <5>2. w \in Nat
          BY <3>3
        <5>3. (at[i] + ct[q - 1]) + w = at[i] + (ct[q - 1] + w)
          BY <3>3, <5>2, Regroup
        <5> HIDE DEF m, rt
        <5> QED
          BY <5>1, <5>3
      <4> HIDE DEF p
      <4> QED
        BY <1>a, <4>1, <4>2, <4>3
    <3>5. rt[k] = rt[k - 1] + Width[c[q]]
      <4>1. rt[k] = at[i] + (ct[q - 1] + Width[c[q]]) /\ rt[k - 1] = at[i] + ct[q - 1]
        <5> HIDE DEF r
        <5> QED
          BY <3>2, <3>3
      <4>2. (at[i] + ct[q - 1]) + Width[c[q]] = at[i] + (ct[q - 1] + Width[c[q]])
        BY <3>3, Regroup
      <4> HIDE DEF rt
      <4> QED
        BY <4>1, <4>2
    <3> HIDE DEF r
    <3> QED
      BY <3>2, <3>4, <3>5
  <2>3. CASE ~(k <= i + m)
    <3> DEFINE q == k - (i + m)
    <3>1. q \in 1..d /\ i + m + q = k /\ q - 1 \in 0..d /\ q \in 0..d /\ i + m + (q - 1) = k - 1
      BY <1>0, <2>3
    <3> HIDE DEF q
    <3>2. j + q \in 1..n /\ (j + q) - 1 = j + (q - 1) /\ j + q \in 0..n /\ j + (q - 1) \in 0..n
          /\ j <= j + (q - 1) /\ j \in Nat /\ q \in Nat
      BY <1>0, <1>2, <3>1
    <3>3. r[k] = s[j + q] /\ s[j + q] \in Chars
          /\ rt[k] = at[i] + ct[m] + (at[j + q] - at[j])
          /\ rt[k - 1] = at[i] + ct[m] + (at[j + (q - 1)] - at[j])
      <4>1. rt[i + m + q] = at[i] + ct[m] + (at[j + q] - at[j])
            /\ rt[i + m + (q - 1)] = at[i] + ct[m] + (at[j + (q - 1)] - at[j])
        BY <1>6, <3>1
      <4>2. r[i + m + q] = s[j + q]
        BY <1>1, <3>1
      <4>3. s[j + q] \in Chars
        BY <3>2
      <4>4. k = i + m + q /\ k - 1 = i + m + (q - 1)
        BY <3>1
      <4> HIDE DEF r, rt, m, n, d
      <4> QED
        BY <4>1, <4>2, <4>3, <4>4
    <3>4. at[j + q] = at[j + (q - 1)] + Width[s[j + q]] /\ at[j + q] <= at[n] /\ at[j + (q - 1)] \in Nat
          /\ at[j] \in Nat /\ at[i] \in Nat /\ ct[m] \in Nat /\ at[n] \in Nat /\ at[j] <= at[j + (q - 1)]
          /\ Width[s[j + q]] \in Nat
      <4>1. at[j + q] = at[(j + q) - 1] + Width[s[j + q]]
        BY <3>2 DEF Sums
      <4>2. Width[s[j + q]] \in Nat
        BY <3>3, WidthIsPositive
      <4>3. n \in 0..n
        BY <1>0
      <4>4. at[j + q] <= at[n] /\ at[j + (q - 1)] \in Nat /\ at[n] \in Nat /\ at[j] <= at[j + (q - 1)]
        <5> HIDE DEF n
        <5> QED
          BY <1>3, <3>2, <4>3
      <4>5. at[j] \in Nat /\ at[i] \in Nat /\ ct[m] \in Nat
        BY <1>2, <1>3
      <4> QED
        BY <3>2, <4>1, <4>2, <4>4, <4>5
    <3>5. ASSUME NEW w \in 1..Width[s[j + q]] PROVE out[rt[k - 1] + w] = <<s[j + q], w>>
      <4> DEFINE p == (at[j + (q - 1)] - at[j]) + w
      <4>1. bytes[at[j + (q - 1)] + w] = <<s[j + q], w>>
        BY <3>2 DEF Coded
      <4>2. p \in 1..(at[n] - at[j]) /\ rt[k - 1] + w = at[i] + ct[m] + p
            /\ at[j] + p = at[j + (q - 1)] + w
        <5> DEFINE x == at[j + (q - 1)]
                   y == at[j]
                   z == at[n]
                   v == Width[s[j + q]]
                   b == at[i]
                   e == ct[m]
        <5>1. x \in Nat /\ y \in Nat /\ z \in Nat /\ v \in Nat /\ b \in Nat /\ e \in Nat /\ y <= x
              /\ x + v <= z /\ w \in 1..v /\ rt[k - 1] = b + e + (x - y) /\ p = (x - y) + w
          <6> HIDE DEF r
          <6> QED
            BY <3>3, <3>4
        <5> HIDE DEF x, y, z, v, b, e, p
        <5>2. p \in 1..(z - y) /\ rt[k - 1] + w = b + e + p /\ y + p = x + w
          <6>1. b + e \in Nat
            BY <5>1
          <6>2. /\ (x - y) + w \in 1..(z - y)
                /\ ((b + e) + (x - y)) + w = (b + e) + ((x - y) + w)
                /\ y + ((x - y) + w) = x + w
            BY <5>1, <6>1, Shifted
          <6> QED
            BY <5>1, <6>2
        <5> QED
          BY <5>2 DEF x, y, z, b, e
      <4>3. p \in 1..(at[Len(s)] - at[j]) /\ rt[k - 1] + w = at[i] + ct[Len(c)] + p
        BY <4>2
      <4> HIDE DEF p
      <4>4. out[at[i] + ct[Len(c)] + p] = bytes[at[j] + p]
        BY <1>a, <4>3
      <4> QED
        BY <4>1, <4>2, <4>3, <4>4
    <3>6. rt[k] = rt[k - 1] + Width[s[j + q]]
      <4> DEFINE x == at[j + (q - 1)]
                 y == at[j]
                 v == Width[s[j + q]]
                 b == at[i] + ct[m]
      <4>1. x \in Nat /\ y \in Nat /\ v \in Nat /\ b \in Nat
            /\ rt[k] = b + ((x + v) - y) /\ rt[k - 1] = b + (x - y)
        <5>1. rt[k] = b + (at[j + q] - y) /\ rt[k - 1] = b + (x - y)
          <6> HIDE DEF r
          <6> QED
            BY <3>3
        <5>2. at[j + q] = x + v
          BY <3>4
        <5>3. at[i] \in Nat /\ ct[m] \in Nat
          BY <3>4
        <5>4. x \in Nat /\ y \in Nat /\ v \in Nat
          BY <3>4
        <5>5. b \in Nat
          <6> DEFINE f == ct[m]
          <6>1. f \in Nat /\ b = at[i] + f
            BY <5>3
          <6> HIDE DEF f, b
          <6> QED
            BY <5>3, <6>1
        <5> HIDE DEF b, x, y, v
        <5> QED
          BY <5>1, <5>2, <5>4, <5>5
      <4> HIDE DEF x, y, v, b
      <4>2. rt[k] = rt[k - 1] + v
        BY <4>1
      <4> QED
        BY <4>2 DEF v
    <3> HIDE DEF r
    <3> QED
      BY <3>3, <3>5, <3>6
  <2> QED
    BY <2>1, <2>2, <2>3
<1>10. rt[Len(r)] = at[i] + ct[m] + (at[n] - at[j])
  <2>1. rt[i + m + d] = at[i] + ct[m] + (at[j + d] - at[j])
    BY <1>2, <1>6
  <2> HIDE DEF r
  <2> QED
    BY <1>1, <1>2, <2>1
<1> HIDE DEF r
<1>11. Sums(r, rt)
  BY <1>1, <1>8, <1>9 DEF Sums
<1>12. Coded(out, r, rt)
  BY <1>1, <1>9 DEF Coded
<1> QED
  BY <1>10, <1>11, <1>12 DEF r, Encodes

---------------------------------------------------------------------------
(* Memory.                                                                  *)

\* What memmove and the two writes of an insertion make of an allocation.
Edited(old, a, n, b, new) ==
  Write(Write(Move(old, a + n, a, b - a), a, new), b + n, <<Nul>>)

Written(out, old, a, n, b, new, size) ==
  /\ \A p \in 1..a : out[p] = old[p]
  /\ \A p \in 1..n : out[a + p] = new[p]
  /\ \A p \in 1..(b - a) : out[a + n + p] = old[a + p]
  /\ out[b + n + 1] = Nul
  /\ \A p \in (b + n + 2)..size : out[p] = old[p]

LEMMA WrittenIs ==
  ASSUME NEW size \in Nat, NEW old, DOMAIN old = 1..size, NEW a \in Nat, NEW b \in Nat, NEW n \in Nat,
         a <= b, b + n + 1 <= size, NEW new, Len(new) = n
  PROVE  LET out == Edited(old, a, n, b, new) IN
         /\ DOMAIN out = 1..size /\ out = [p \in 1..size |-> out[p]]
         /\ Written(out, old, a, n, b, new, size)
<1> DEFINE moved == Move(old, a + n, a, b - a)
           first == Write(moved, a, new)
           out == Write(first, b + n, <<Nul>>)
<1>1. /\ DOMAIN moved = 1..size
      /\ \A p \in 1..size : moved[p] = IF p \in (a + n + 1)..(a + n + (b - a)) THEN old[p - (a + n) + a]
                                      ELSE old[p]
  BY DEF Move
<1> HIDE DEF moved
<1>2. /\ DOMAIN first = 1..size
      /\ \A p \in 1..size : first[p] = IF p \in (a + 1)..(a + n) THEN new[p - a] ELSE moved[p]
  BY <1>1 DEF Write
<1> HIDE DEF first
<1>3. /\ DOMAIN out = 1..size /\ out = [p \in 1..size |-> out[p]]
      /\ \A p \in 1..size : out[p] = IF p = b + n + 1 THEN Nul ELSE first[p]
  <2>1. /\ DOMAIN out = 1..size /\ out = [p \in 1..size |-> out[p]]
        /\ \A p \in 1..size : out[p] = IF p \in (b + n + 1)..(b + n + Len(<<Nul>>))
                                       THEN <<Nul>>[p - (b + n)] ELSE first[p]
    BY <1>2 DEF Write
  <2> HIDE DEF out
  <2>2. Len(<<Nul>>) = 1 /\ <<Nul>>[1] = Nul /\ (b + n + 1) - (b + n) = 1
    OBVIOUS
  <2>3. ASSUME NEW p \in 1..size PROVE p \in (b + n + 1)..(b + n + 1) <=> p = b + n + 1
    OBVIOUS
  <2> QED
    BY <2>1, <2>2, <2>3
<1> HIDE DEF out
<1>4. ASSUME NEW p \in 1..a PROVE out[p] = old[p]
  <2>1. p \in 1..size /\ p # b + n + 1 /\ p \notin (a + 1)..(a + n)
        /\ p \notin (a + n + 1)..(a + n + (b - a))
    OBVIOUS
  <2> QED
    BY <1>1, <1>2, <1>3, <2>1
<1>5. ASSUME NEW p \in 1..n PROVE out[a + p] = new[p]
  <2>1. a + p \in 1..size /\ a + p # b + n + 1 /\ a + p \in (a + 1)..(a + n) /\ (a + p) - a = p
    OBVIOUS
  <2> QED
    BY <1>2, <1>3, <2>1
<1>6. ASSUME NEW p \in 1..(b - a) PROVE out[a + n + p] = old[a + p]
  <2> DEFINE q == a + n + p
  <2>1. q \in 1..size /\ q # b + n + 1 /\ q \notin (a + 1)..(a + n)
        /\ q \in (a + n + 1)..(a + n + (b - a)) /\ q - (a + n) + a = a + p
    OBVIOUS
  <2> HIDE DEF q
  <2>2. out[q] = old[a + p]
    BY <1>1, <1>2, <1>3, <2>1
  <2> QED
    BY <2>2 DEF q
<1>7. out[b + n + 1] = Nul
  BY <1>3
<1>8. ASSUME NEW p \in (b + n + 2)..size PROVE out[p] = old[p]
  <2>1. p \in 1..size /\ p # b + n + 1 /\ p \notin (a + 1)..(a + n)
        /\ p \notin (a + n + 1)..(a + n + (b - a))
    OBVIOUS
  <2> QED
    BY <1>1, <1>2, <1>3, <2>1
<1> QED
  BY <1>3, <1>4, <1>5, <1>6, <1>7, <1>8 DEF out, first, moved, Edited, Written

Byte == (Chars \X (Nat \ {0})) \cup {Nul, Junk}

Holds(s, at) ==
  /\ s \in Seq(Chars) /\ Sums(s, at) /\ Coded(text, s, at)
  /\ text_bytes = at[Len(s)] /\ text_chars = Len(s)

Placed ==
  \/ text = << >> /\ text_bytes = 0 /\ memory = "none"
  \/ /\ text_bytes < Len(text) /\ text[text_bytes + 1] = Nul
     /\ Len(text) \in Sizes \cup {MaxSize} /\ memory \in {"locked", "fallback"}

Cleared == loose = {} => /\ left = {}
                         /\ \A p \in (text_bytes + 1)..Len(text) : text[p] \in {Nul, Junk}

EntryInv == text \in Seq(Byte) /\ (\E s, at : Holds(s, at)) /\ Placed /\ Cleared

LEMMA SizesAre ==
  \A n \in Sizes \cup {MaxSize} : n \in Nat /\ 0 < n /\ n <= MaxSize
  BY EntryBufferAssumption DEF Sizes

LEMMA LeastIsMin ==
  ASSUME NEW S \in SUBSET Nat, S # {}
  PROVE  Min(S) \in S /\ \A n \in S : Min(S) <= n
  BY Least DEF Min

LEMMA GrownSizeIs ==
  ASSUME text \in Seq(Byte), Placed, NEW need \in Nat
  PROVE  /\ GrownSize(need) \in Sizes \cup {MaxSize}
         /\ GrownSize(need) >= Len(text)
         /\ GrownSize(need) >= need \/ GrownSize(need) = MaxSize
<1> DEFINE enough == {n \in Sizes : n >= text_size /\ n >= need}
<1>1. Len(text) \in Nat /\ text_size = Len(text) /\ Len(text) <= MaxSize /\ MaxSize \in Nat
  <2>1. Len(text) = 0 \/ Len(text) \in Sizes \cup {MaxSize}
    BY DEF Placed
  <2> QED
    BY <2>1, SizesAre DEF text_size
<1>2. CASE enough = {}
  BY <1>1, <1>2 DEF GrownSize
<1>3. CASE enough # {}
  <2>1. enough \in SUBSET Nat
    BY SizesAre
  <2>2. Min(enough) \in enough
    <3> HIDE DEF enough
    <3> QED
      BY <1>3, <2>1, LeastIsMin
  <2>3. GrownSize(need) = Min(enough)
    BY <1>3 DEF GrownSize
  <2> DEFINE g == Min(enough)
  <2> HIDE DEF g
  <2>4. g \in Sizes /\ g >= text_size /\ g >= need
    BY <2>2 DEF g
  <2> QED
    BY <1>1, <2>3, <2>4 DEF g
<1> QED
  BY <1>2, <1>3

LEMMA ShownIs ==
  ASSUME NEW s, NEW at, Holds(s, at)
  PROVE  Shown = s
  BY CharsOfIs DEF Holds, Shown

LEMMA InputsAre == ASSUME NEW chars \in Inputs PROVE chars \in Seq(Chars)
<1>1. PICK n \in 0..MaxInsert : chars \in [1..n -> Chars]
  BY DEF Inputs
<1> QED
  BY <1>1, TableIsSeq

\* The characters an insertion takes.
LEMMA TruncateIs ==
  ASSUME NEW chars \in Seq(Chars), NEW ct, Sums(chars, ct), text_bytes \in Nat, NEW size \in Nat,
         text_bytes < size
  PROVE  \E m \in 0..Len(chars) :
           /\ Truncate(Encode(chars), size) = ct[m]
           /\ text_bytes + ct[m] < size
           /\ m < Len(chars) => /\ text_bytes + ct[Len(chars)] >= size
                                /\ text_bytes + ct[m + 1] >= size
<1> DEFINE space == size - text_bytes - 1
           L == Len(chars)
<1>1. space \in Nat /\ L \in Nat /\ ct[L] \in Nat /\ \A k \in 0..L : ct[k] \in Nat
  BY DEF Sums
<1>2. Len(Encode(chars)) = ct[L] /\ Coded(Encode(chars), chars, ct)
  BY EncodeCoded
<1>3. CASE ct[L] > space
  <2>1. PICK m \in 0..(L - 1) :
          ct[m] <= space /\ space < ct[m + 1] /\ FindPrevChar(Encode(chars), space) = ct[m]
    <3>1. space < ct[Len(chars)]
      BY <1>1, <1>3
    <3> HIDE DEF space
    <3> QED
      BY <1>1, <1>2, <3>1, FindPrevCharIs
  <2>2. m \in 0..L /\ m + 1 \in 0..L /\ ct[m] \in Nat /\ ct[m + 1] \in Nat
    <3>1. m \in 0..L /\ m + 1 \in 0..L
      BY <1>1
    <3> QED
      BY <1>1, <3>1
  <2>3. Truncate(Encode(chars), size) = ct[m]
    BY <1>2, <1>3, <2>1 DEF Truncate
  <2>4. text_bytes + ct[m] < size /\ text_bytes + ct[m + 1] >= size /\ text_bytes + ct[L] >= size
    BY <1>1, <1>3, <2>1, <2>2
  <2> QED
    BY <2>2, <2>3, <2>4
<1>4. CASE ~(ct[L] > space)
  <2>1. Truncate(Encode(chars), size) = ct[L]
    BY <1>2, <1>4 DEF Truncate
  <2>2. text_bytes + ct[L] < size /\ L \in 0..Len(chars) /\ ~(L < L)
    BY <1>1, <1>4
  <2> QED
    BY <2>1, <2>2
<1> QED
  BY <1>3, <1>4

---------------------------------------------------------------------------
(* The steps.                                                               *)

After(r) ==
  \E rt : /\ r \in Seq(Chars) /\ Sums(r, rt) /\ Coded(text', r, rt)
          /\ text_bytes' = rt[Len(r)] /\ text_chars' = Len(r)

LEMMA AfterIs ==
  ASSUME NEW r, After(r)
  PROVE  /\ Shown' = r /\ r \in Seq(Chars) /\ Text!Bytes(Shown') = text_bytes'
         /\ (\E s, at : Holds(s, at))'
<1>1. PICK rt : /\ r \in Seq(Chars) /\ Sums(r, rt) /\ Coded(text', r, rt)
                /\ text_bytes' = rt[Len(r)] /\ text_chars' = Len(r)
  BY DEF After
<1>2. CharsOf(text', text_bytes') = r
  BY <1>1, CharsOfIs
<1>3. Shown' = r
  BY <1>2 DEF Shown
<1>4. Text!Bytes(r) = text_bytes'
  BY <1>1, BytesIs
<1>5. Holds(r, rt)'
  BY <1>1 DEF Holds
<1> QED
  BY <1>1, <1>3, <1>4, <1>5

LEMMA InsertIs ==
  ASSUME EntryInv, NEW s, NEW at, Holds(s, at), NEW position \in 0..text_chars,
         NEW chars \in Seq(Chars),
         Insert(position, chars)
  PROVE  /\ \E m \in 0..Len(chars) :
              /\ After(Spliced(s, position, SubSeq(chars, 1, m), position))
              /\ text_bytes' < MaxSize
              /\ m < Len(chars) => /\ refused' = <<chars[m + 1]>>
                                   /\ text_bytes' + Width[chars[m + 1]] >= MaxSize
              /\ m = Len(chars) => refused' = << >>
         /\ text' \in Seq(Byte) /\ Placed' /\ Cleared'
<1>1. PICK ct : Sums(chars, ct)
  BY SumsExist
<1> DEFINE B == Encode(chars)
           L == Len(chars)
           need == text_bytes + Len(B) + 1
           size == IF need > text_size THEN GrownSize(need) ELSE text_size
           nb == Truncate(B, size)
           old == Grown(size)
           a == OffsetToPointer(old, position)
           new == SubSeq(B, 1, nb)
           out == Edited(old, a, nb, text_bytes, new)
<1>2. /\ IF need > text_size THEN Realloc(size) ELSE UNCHANGED <<memory, left, loose>>
      /\ text' = out /\ text_bytes' = text_bytes + nb
      /\ text_chars' = text_chars + Utf8Strlen(B, nb)
      /\ refused' = IF nb < Len(B) THEN <<B[nb + 1][1]>> ELSE << >>
  BY DEF Insert, Edited
<1>3. /\ s \in Seq(Chars) /\ Sums(s, at) /\ Coded(text, s, at)
      /\ text_bytes = at[Len(s)] /\ text_chars = Len(s) /\ position \in 0..Len(s)
      /\ text_bytes \in Nat /\ Len(s) \in Nat /\ at[position] \in Nat /\ at[position] <= text_bytes
  <2>1. Len(s) \in 0..Len(s) /\ position \in 0..Len(s) /\ position <= Len(s)
    BY DEF Holds
  <2>2. /\ s \in Seq(Chars) /\ Sums(s, at) /\ Coded(text, s, at)
        /\ text_bytes = at[Len(s)] /\ text_chars = Len(s)
    BY DEF Holds
  <2>3. Len(s) \in Nat /\ at[Len(s)] \in Nat /\ at[position] \in Nat
    BY <2>1, <2>2 DEF Sums
  <2>4. at[position] <= at[Len(s)]
    BY <2>1, <2>2, SumsIncrease
  <2> QED
    BY <2>1, <2>2, <2>3, <2>4
<1>4. /\ B \in Seq(Chars \X (Nat \ {0})) /\ Len(B) = ct[L] /\ Coded(B, chars, ct)
      /\ L \in Nat /\ ct[L] \in Nat /\ \A k \in 0..L : ct[k] \in Nat
  <2>1. L \in Nat /\ ct \in [0..L -> Nat]
    BY <1>1 DEF Sums
  <2>2. L \in 0..L
    BY <2>1
  <2>3. B \in Seq(Chars \X (Nat \ {0})) /\ Len(B) = ct[L] /\ Coded(B, chars, ct)
    BY <1>1, EncodeCoded
  <2> HIDE DEF B, L
  <2> QED
    BY <2>1, <2>2, <2>3
<1>5. text \in Seq(Byte) /\ Len(text) \in Nat /\ text_size = Len(text) /\ MaxSize \in Nat
      /\ need \in Nat /\ need > 0
  <2>1. MaxSize \in Nat
    BY EntryBufferAssumption
  <2>2. text \in Seq(Byte) /\ Len(text) \in Nat
    BY DEF EntryInv
  <2>3. text_bytes \in Nat /\ Len(B) \in Nat
    BY <1>3, <1>4
  <2>4. need \in Nat /\ need > 0
    BY <2>3
  <2> QED
    BY <2>1, <2>2, <2>4 DEF text_size
<1> HIDE DEF B, L
<1>6. /\ size \in Sizes \cup {MaxSize} /\ size \in Nat /\ size <= MaxSize /\ size >= Len(text)
      /\ text_bytes < size /\ (size >= need \/ size = MaxSize)
  <2>1. CASE need > text_size
    <3> DEFINE g == GrownSize(need)
    <3> HIDE DEF need
    <3>1. g \in Sizes \cup {MaxSize} /\ g >= Len(text) /\ (g >= need \/ g = MaxSize)
      BY <1>5, GrownSizeIs DEF EntryInv
    <3>2. g \in Nat /\ 0 < g /\ g <= MaxSize
      BY <3>1, SizesAre
    <3> HIDE DEF g
    <3>3. text_bytes < g
      BY <1>3, <1>5, <3>1, <3>2 DEF EntryInv, Placed
    <3> QED
      BY <2>1, <3>1, <3>2, <3>3 DEF g
  <2>2. CASE ~(need > text_size)
    <3>1. Len(text) >= need /\ text # << >>
      BY <1>5, <2>2
    <3>2. text_bytes < Len(text) /\ Len(text) \in Sizes \cup {MaxSize}
      BY <3>1 DEF EntryInv, Placed
    <3> HIDE DEF need
    <3> QED
      BY <1>5, <2>2, <3>1, <3>2, SizesAre
  <2> QED
    BY <2>1, <2>2
<1>7. memory' \in {"locked", "fallback"} /\ (loose' = {} => loose = {} /\ left' = left)
  <2>1. CASE need > text_size
    <3>1. Realloc(size)
      BY <1>2, <2>1
    <3> HIDE DEF size, need
    <3>2. memory' \in {"locked", "fallback"}
      BY <3>1 DEF Realloc
    <3>3. loose' = {} => loose = {} /\ left' = left
      BY <3>1 DEF Realloc
    <3> QED
      BY <3>2, <3>3
  <2>2. CASE ~(need > text_size)
    <3>1. UNCHANGED <<memory, left, loose>> /\ text # << >>
      BY <1>2, <1>5, <2>2
    <3> HIDE DEF need
    <3> QED
      BY <3>1 DEF EntryInv, Placed
  <2> QED
    BY <2>1, <2>2
<1> HIDE DEF size
<1>8. PICK m \in 0..L : /\ nb = ct[m] /\ text_bytes + ct[m] < size
                        /\ m < L => text_bytes + ct[L] >= size /\ text_bytes + ct[m + 1] >= size
  BY <1>1, <1>3, <1>6, TruncateIs DEF B, L
<1>9. nb \in Nat /\ text_bytes + nb + 1 <= size /\ nb <= Len(B) /\ (nb < Len(B) <=> m < L)
      /\ (m < L => size = MaxSize)
  <2>1. m \in 0..Len(chars) /\ Len(chars) \in 0..Len(chars) /\ m <= L /\ m \in Nat
    BY <1>4, <1>8 DEF L
  <2>2. ct[m] <= ct[L] /\ (m < L => ct[m] < ct[L])
    BY <1>1, <2>1, SumsIncrease DEF L
  <2>3. nb \in Nat /\ nb = ct[m]
    BY <1>4, <1>8
  <2>4. text_bytes + nb + 1 <= size
    <3> HIDE DEF nb
    <3> QED
      BY <1>3, <1>6, <1>8, <2>3
  <2>5. nb <= Len(B) /\ (nb < Len(B) <=> m < L)
    <3> HIDE DEF nb
    <3> QED
      BY <1>4, <2>1, <2>2, <2>3
  <2>6. m < L => size = MaxSize
    <3> SUFFICES ASSUME m < L PROVE size = MaxSize
      OBVIOUS
    <3>1. text_bytes + ct[L] >= size
      BY <1>8
    <3>2. ~(size >= need)
      BY <1>3, <1>4, <1>6, <3>1
    <3> QED
      BY <1>6, <3>2
  <2> QED
    BY <2>3, <2>4, <2>5, <2>6
<1> HIDE DEF nb, need
<1>10. /\ DOMAIN old = 1..size
       /\ \A p \in 1..size : old[p] = IF p <= Len(text) THEN text[p] ELSE Junk
  BY <1>5 DEF Grown
<1>11. \A p \in 1..size : old[p] \in Byte
  <2>1. \A p \in 1..Len(text) : text[p] \in Byte
    BY <1>5
  <2>2. Junk \in Byte
    BY DEF Byte
  <2> HIDE DEF old
  <2> QED
    BY <1>5, <1>10, <2>1, <2>2
<1>12. text_bytes <= Len(text) /\ (text = << >> => text_bytes = 0)
  BY <1>3, <1>5 DEF EntryInv, Placed
<1>13. Coded(old, s, at)
  <2>1. \A p \in 1..text_bytes : old[p] = text[p]
    <3> HIDE DEF old
    <3> QED
      BY <1>3, <1>5, <1>6, <1>10, <1>12
  <2> HIDE DEF old
  <2>2. \A p \in 1..at[Len(s)] : old[p] = ByteAt(s, at, p)
    BY <1>3, <2>1, CodedIs
  <2> QED
    BY <1>3, <2>2, CodedIs
<1> HIDE DEF old
<1>14. a = at[position]
  BY <1>3, <1>13, OffsetIsSum
<1> HIDE DEF a
<1>15. a \in Nat /\ a <= text_bytes
  BY <1>3, <1>14
<1>n. /\ a \in Nat /\ nb \in Nat /\ size \in Nat /\ text_bytes \in Nat /\ Len(text) \in Nat
      /\ a <= text_bytes /\ text_bytes + nb + 1 <= size /\ text_bytes <= Len(text) /\ Len(text) <= size
  BY <1>3, <1>5, <1>6, <1>9, <1>12, <1>15
<1>16. new \in Seq(Chars \X (Nat \ {0})) /\ Len(new) = nb /\ \A p \in 1..nb : new[p] = B[p]
  <2>1. \A p \in 1..nb : B[p] \in Chars \X (Nat \ {0})
    BY <1>4, <1>9
  <2>2. new \in Seq(Chars \X (Nat \ {0})) /\ Len(new) = (IF 1 <= nb THEN nb - 1 + 1 ELSE 0)
        /\ \A p \in 1..(nb - 1 + 1) : new[p] = B[1 + p - 1]
    BY <1>9, <2>1, SubSeqProperties
  <2> HIDE DEF new
  <2> QED
    BY <1>9, <2>2
<1> HIDE DEF new
<1>o. DOMAIN out = 1..size /\ out = [p \in 1..size |-> out[p]]
      /\ Written(out, old, a, nb, text_bytes, new, size)
  BY <1>n, <1>10, <1>16, WrittenIs
<1> HIDE DEF out
<1>17. /\ \A p \in 1..a : out[p] = old[p]
       /\ \A p \in 1..nb : out[a + p] = new[p]
       /\ \A p \in 1..(text_bytes - a) : out[a + nb + p] = old[a + p]
       /\ out[text_bytes + nb + 1] = Nul
       /\ \A p \in (text_bytes + nb + 2)..size : out[p] = old[p]
  BY <1>o DEF Written
<1>18. text' \in Seq(Byte) /\ Len(text') = size
  <2>1. ASSUME NEW p \in 1..size PROVE out[p] \in Byte
    <3>1. CASE p <= a
      BY <1>11, <1>n, <1>17, <3>1
    <3>2. CASE a < p /\ p <= a + nb
      <4> DEFINE q == p - a
      <4>1. q \in 1..nb /\ a + q = p
        BY <1>n, <3>2
      <4> HIDE DEF q
      <4>2. out[p] = new[q] /\ new[q] \in Chars \X (Nat \ {0})
        BY <1>16, <1>17, <4>1
      <4> QED
        BY <4>2 DEF Byte
    <3>3. CASE a + nb < p /\ p <= text_bytes + nb
      <4> DEFINE q == p - (a + nb)
      <4>1. q \in 1..(text_bytes - a) /\ a + nb + q = p /\ a + q \in 1..size
        BY <1>n, <3>3
      <4> HIDE DEF q
      <4>2. out[p] = old[a + q]
        BY <1>17, <4>1
      <4> QED
        BY <1>11, <4>1, <4>2
    <3>4. CASE p = text_bytes + nb + 1
      BY <1>17, <3>4 DEF Byte
    <3>5. CASE p > text_bytes + nb + 1
      <4>1. p \in (text_bytes + nb + 2)..size
        BY <1>n, <3>5
      <4>2. p \in 1..size /\ out[p] = old[p]
        BY <1>17, <4>1
      <4> QED
        BY <1>11, <4>2
    <3> QED
      BY <1>n, <3>1, <3>2, <3>3, <3>4, <3>5
  <2>2. out \in [1..size -> Byte]
    BY <1>o, <2>1
  <2> QED
    BY <1>2, <1>6, <2>2, TableIsSeq
<1>19. text_bytes' < Len(text') /\ text_bytes' < MaxSize /\ text_bytes' \in Nat
  <2>1. text_bytes' = text_bytes + nb /\ Len(text') = size /\ size <= MaxSize /\ MaxSize \in Nat
    BY <1>2, <1>5, <1>6, <1>18
  <2> QED
    BY <1>n, <2>1
<1>20. Placed'
  <2>1. text'[text_bytes' + 1] = Nul
    BY <1>2, <1>17
  <2> QED
    BY <1>6, <1>7, <1>18, <1>19, <2>1 DEF Placed
<1>21. Cleared'
  <2> SUFFICES ASSUME loose' = {}
               PROVE  /\ left' = {}
                      /\ \A p \in (text_bytes' + 1)..Len(text') : text'[p] \in {Nul, Junk}
    BY DEF Cleared
  <2>1. left' = {} /\ \A p \in (text_bytes + 1)..Len(text) : text[p] \in {Nul, Junk}
    BY <1>7 DEF EntryInv, Cleared
  <2>2. ASSUME NEW p \in (text_bytes' + 1)..Len(text') PROVE text'[p] \in {Nul, Junk}
    <3>1. p \in (text_bytes + nb + 1)..size /\ p \in Nat
      <4>1. text_bytes' = text_bytes + nb /\ Len(text') = size
        BY <1>2, <1>18
      <4>2. text_bytes \in Nat /\ nb \in Nat /\ size \in Nat
        BY <1>3, <1>6, <1>9
      <4> HIDE DEF nb, size
      <4>3. p \in (text_bytes + nb + 1)..size
        BY <4>1
      <4> QED
        BY <4>2, <4>3
    <3>2. CASE p = text_bytes + nb + 1
      BY <1>2, <1>17, <3>2
    <3>3. CASE p # text_bytes + nb + 1
      <4>1. p \in (text_bytes + nb + 2)..size /\ p \in 1..size /\ p > text_bytes
        BY <1>n, <3>1, <3>3
      <4>2. text'[p] = old[p]
        BY <1>2, <1>17, <4>1
      <4>3. old[p] = IF p <= Len(text) THEN text[p] ELSE Junk
        BY <1>10, <4>1
      <4>4. p <= Len(text) => p \in (text_bytes + 1)..Len(text)
        BY <1>3, <1>5, <3>1, <4>1
      <4> QED
        BY <2>1, <4>2, <4>3, <4>4
    <3> QED
      BY <3>2, <3>3
  <2> QED
    BY <2>1, <2>2
<1> DEFINE c == SubSeq(chars, 1, m)
           r == Spliced(s, position, c, position)
<1>22. PICK am : /\ c \in Seq(Chars) /\ Len(c) = m
                 /\ Sums(c, am) /\ am[m] = ct[m] /\ Coded(B, c, am)
                 /\ \A k \in 0..m : am[k] = ct[k]
                 /\ \A k \in 1..m : c[k] = chars[k]
  <2>1. m \in 0..Len(chars)
    BY <1>8 DEF L
  <2> QED
    BY <1>1, <1>4, <2>1, Prefix
<1> HIDE DEF c
<1>23. am[Len(c)] = nb /\ at[position] = a /\ m \in Nat
  BY <1>8, <1>14, <1>22
<1>24. PICK rt : Sums(r, rt) /\ Coded(text', r, rt) /\ rt[Len(r)] = a + nb + (text_bytes - a)
  <2>1. \A p \in 1..a : text'[p] = text[p]
    <3>1. \A p \in 1..a : p \in 1..size /\ p <= Len(text)
      BY <1>3, <1>5, <1>6, <1>12, <1>15
    <3> QED
      BY <1>2, <1>10, <1>17, <3>1
  <2>2. \A p \in 1..nb : text'[a + p] = B[p]
    BY <1>2, <1>16, <1>17
  <2>3. \A p \in 1..(text_bytes - a) : text'[a + nb + p] = text[a + p]
    <3>1. \A p \in 1..(text_bytes - a) : a + p \in 1..size /\ a + p <= Len(text)
      BY <1>3, <1>5, <1>6, <1>12, <1>15
    <3> QED
      BY <1>2, <1>10, <1>17, <3>1
  <2>4. position <= position
    BY <1>3
  <2> DEFINE t == text'
  <2> HIDE DEF t
  <2>5. Replaced(t, text, s, at, position, position, B, am[Len(c)])
    <3>1. at[position] = a /\ am[Len(c)] = nb /\ at[Len(s)] = text_bytes
      BY <1>3, <1>23
    <3> HIDE DEF r
    <3> QED
      BY <2>1, <2>2, <2>3, <3>1 DEF t, Replaced
  <2>6. Encodes(t, r, at[position] + am[Len(c)] + (at[Len(s)] - at[position]))
    <3>1. s \in Seq(Chars) /\ Sums(s, at) /\ Coded(text, s, at) /\ position \in 0..Len(s)
      BY <1>3
    <3>2. c \in Seq(Chars) /\ Sums(c, am) /\ Coded(B, c, am)
      BY <1>22
    <3> QED
      BY <2>4, <2>5, <3>1, <3>2, SpliceIs
  <2> HIDE DEF r
  <2> QED
    BY <1>3, <1>23, <2>6 DEF t, Encodes
<1>25. rt[Len(r)] = text_bytes'
  <2> HIDE DEF r
  <2> QED
    BY <1>2, <1>3, <1>9, <1>15, <1>24
<1>26. r \in Seq(Chars) /\ Len(r) = text_chars'
  <2>1. position <= position
    BY <1>3
  <2>2. r \in Seq(Chars) /\ Len(r) = position + Len(c) + (Len(s) - position)
    BY <1>3, <1>22, <2>1, SplicedSeq
  <2>3. Utf8Strlen(B, nb) = m
    BY <1>1, <1>4, <1>8, StrlenIs DEF L
  <2> HIDE DEF r
  <2> QED
    BY <1>2, <1>3, <1>22, <1>23, <2>2, <2>3
<1>27. After(r)
  <2> HIDE DEF r
  <2> QED
    BY <1>24, <1>25, <1>26 DEF After
<1>28. m < L => refused' = <<chars[m + 1]>> /\ text_bytes' + Width[chars[m + 1]] >= MaxSize
  <2> SUFFICES ASSUME m < L
               PROVE refused' = <<chars[m + 1]>> /\ text_bytes' + Width[chars[m + 1]] >= MaxSize
    OBVIOUS
  <2> DEFINE k == m + 1
  <2>1. k \in 1..Len(chars) /\ k - 1 = m /\ chars[k] \in Chars
    BY <1>4, <1>23 DEF L
  <2> HIDE DEF k
  <2>2. Width[chars[k]] \in Nat /\ 1 \in 1..Width[chars[k]] /\ ct[k] = ct[m] + Width[chars[k]]
    BY <1>1, <2>1, WidthIsPositive DEF Sums
  <2>3. B[ct[m] + 1] = <<chars[k], 1>>
    BY <1>4, <2>1, <2>2 DEF Coded
  <2>4. refused' = <<chars[k]>>
    BY <1>2, <1>8, <1>9, <2>3
  <2>5. text_bytes + ct[k] >= MaxSize
    BY <1>8, <1>9 DEF k
  <2>6. text_bytes' + Width[chars[k]] >= MaxSize
    <3>1. text_bytes' = text_bytes + nb /\ nb = ct[m]
      BY <1>2, <1>8
    <3> DEFINE w == Width[chars[k]]
    <3>2. ct[k] = nb + w /\ w \in Nat
      BY <2>2, <3>1
    <3> HIDE DEF w
    <3>3. text_bytes + (nb + w) >= MaxSize
      BY <2>5, <3>2
    <3> HIDE DEF nb
    <3>4. text_bytes \in Nat /\ nb \in Nat /\ MaxSize \in Nat
      BY <1>3, <1>5, <1>9
    <3>5. text_bytes + (nb + w) = (text_bytes + nb) + w
      BY <3>2, <3>4
    <3>6. text_bytes' + w >= MaxSize
      BY <3>1, <3>3, <3>5
    <3> QED
      BY <3>6 DEF w
  <2> QED
    BY <2>4, <2>6 DEF k
<1>29. m = L => refused' = << >>
  <2>1. m = L => ~(nb < Len(B))
    BY <1>4, <1>9, <1>23
  <2> QED
    BY <1>2, <2>1
<1>30. m \in 0..Len(chars)
  BY <1>8 DEF L
<1> QED
  BY <1>18, <1>19, <1>20, <1>21, <1>27, <1>28, <1>29, <1>30 DEF c, L

Cut(s, i, j) == SubSeq(s, 1, i) \o SubSeq(s, j + 1, Len(s))

\* r is s without what is between i and j.
Shortened(r, s, i, j) ==
  /\ r \in Seq(Chars) /\ Len(r) = i + (Len(s) - j)
  /\ \A k \in 1..i : r[k] = s[k]
  /\ \A k \in 1..(Len(s) - j) : r[i + k] = s[j + k]

LEMMA NoneSpliced ==
  ASSUME NEW s \in Seq(Chars), NEW e \in Seq(Chars),
         NEW i \in 0..Len(s), NEW j \in 0..Len(s), i <= j
  PROVE  Len(e) = 0 => Shortened(Spliced(s, i, e, j), s, i, j)
<1> DEFINE r == Spliced(s, i, e, j)
           d == Len(s) - j
           m == Len(e)
<1>1. /\ r \in Seq(Chars) /\ Len(r) = i + m + d
      /\ \A k \in 1..i : r[k] = s[k]
      /\ \A k \in 1..m : r[i + k] = e[k]
      /\ \A k \in 1..d : r[i + m + k] = s[j + k]
  BY SplicedSeq
<1> HIDE DEF r
<1> SUFFICES ASSUME m = 0
             PROVE  /\ r \in Seq(Chars) /\ Len(r) = i + d
                    /\ \A k \in 1..i : r[k] = s[k]
                    /\ \A k \in 1..d : r[i + k] = s[j + k]
  BY DEF r, Shortened
<1> HIDE DEF m
<1>2. i + m + d = i + d
  OBVIOUS
<1>3. ASSUME NEW k \in 1..d PROVE r[i + k] = s[j + k]
  <2>1. r[i + m + k] = s[j + k]
    BY <1>1
  <2>2. i + m + k = i + k
    OBVIOUS
  <2> QED
    BY <2>1, <2>2
<1> QED
  BY <1>1, <1>2, <1>3

LEMMA CutIs ==
  ASSUME NEW s \in Seq(Chars), NEW i \in 0..Len(s), NEW j \in 0..Len(s), i <= j
  PROVE  /\ Spliced(s, i, << >>, j) = Cut(s, i, j)
         /\ Cut(s, i, j) \in Seq(Chars) /\ Len(Cut(s, i, j)) = Len(s) - (j - i)
         /\ i = j => Cut(s, i, j) = s
<1> DEFINE a == SubSeq(s, 1, i)
           e == << >>
<1>1. a \in Seq(Chars)
  <2>1. \A k \in 1..i : s[k] \in Chars
    OBVIOUS
  <2> QED
    BY <2>1, SubSeqProperties
<1>2. a \o << >> = a
  <2> HIDE DEF a
  <2> QED
    BY <1>1, ConcatEmptySeq
<1>3. Spliced(s, i, << >>, j) = Cut(s, i, j)
  BY <1>2 DEF Spliced, Cut
<1> DEFINE r == Spliced(s, i, e, j)
           d == Len(s) - j
<1>4. e \in Seq(Chars) /\ Len(e) = 0
  OBVIOUS
<1>5. /\ r \in Seq(Chars) /\ Len(r) = i + d
      /\ \A k \in 1..i : r[k] = s[k]
      /\ \A k \in 1..d : r[i + k] = s[j + k]
  <2>1. Shortened(r, s, i, j)
    <3> HIDE DEF e
    <3> QED
      BY <1>4, NoneSpliced
  <2> QED
    BY <2>1 DEF Shortened
<1> HIDE DEF r
<1>6. Len(r) = Len(s) - (j - i)
  BY <1>5
<1>7. ASSUME i = j PROVE r = s
  <2>1. Len(r) = Len(s) /\ Len(s) \in Nat
    BY <1>6, <1>7
  <2>2. ASSUME NEW k \in 1..Len(s) PROVE r[k] = s[k]
    <3>1. CASE k <= i
      BY <1>5, <3>1
    <3>2. CASE ~(k <= i)
      <4> DEFINE q == k - i
      <4>1. q \in 1..d /\ i + q = k /\ j + q = k
        BY <1>7, <3>2
      <4> HIDE DEF q, d
      <4>2. r[i + q] = s[j + q]
        BY <1>5, <4>1
      <4> QED
        BY <4>1, <4>2
    <3> QED
      BY <3>1, <3>2
  <2> QED
    BY <1>5, <2>1, <2>2, SeqEqual
<1> QED
  BY <1>3, <1>5, <1>6, <1>7 DEF r

LEMMA EmptySums == Sums(<< >>, [k \in 0..0 |-> 0])
  BY DEF Sums

LEMMA DeleteIs ==
  ASSUME EntryInv, NEW s, NEW at, Holds(s, at),
         NEW position \in 0..(text_chars + 1), NEW n_chars \in 0..(text_chars + 1),
         DeleteText(position, n_chars)
  PROVE  /\ \E i \in 0..Len(s) : \E n \in 0..(Len(s) - i) : After(Cut(s, i, i + n))
         /\ text' \in Seq(Byte) /\ Placed' /\ Cleared' /\ refused' = << >>
<1> DEFINE from == IF position > text_chars THEN text_chars ELSE position
           n == IF from + n_chars > text_chars THEN text_chars - from ELSE n_chars
           start == OffsetToPointer(text, from)
           end == OffsetToPointer(text, from + n)
<1>1. /\ s \in Seq(Chars) /\ Sums(s, at) /\ Coded(text, s, at)
      /\ text_bytes = at[Len(s)] /\ text_chars = Len(s) /\ Len(s) \in Nat
  BY DEF Holds
<1>2. from \in 0..Len(s) /\ n \in 0..(Len(s) - from) /\ from + n \in 0..Len(s) /\ from <= from + n
  <2>1. position \in Nat /\ n_chars \in Nat
    BY <1>1
  <2>2. from \in 0..Len(s)
    BY <1>1, <2>1
  <2> HIDE DEF from
  <2>3. n \in 0..(Len(s) - from)
    BY <1>1, <2>1, <2>2
  <2> HIDE DEF n
  <2> QED
    BY <1>1, <2>2, <2>3
<1>3. /\ IF n = 0 THEN UNCHANGED <<text, text_bytes, text_chars, loose>>
         ELSE /\ text' = Move(text, start, end, text_bytes + 1 - end)
              /\ text_bytes' = text_bytes - (end - start)
              /\ text_chars' = text_chars - n
              /\ loose' = loose \cup {"shrunk"}
      /\ refused' = << >> /\ UNCHANGED <<memory, left>>
  BY DEF DeleteText, Delete
<1> HIDE DEF from, n
<1>4. start = at[from] /\ end = at[from + n]
  BY <1>1, <1>2, OffsetIsSum
<1> HIDE DEF start, end
<1>5. CASE n = 0
  <2>1. UNCHANGED <<text, text_bytes, text_chars, loose, memory, left>>
    BY <1>3, <1>5
  <2>2. Cut(s, from, from + n) = s
    <3>1. from = from + n
      BY <1>2, <1>5
    <3> QED
      BY <1>1, <1>2, <3>1, CutIs
  <2>3. After(s)
    BY <1>1, <2>1 DEF After
  <2>4. text' \in Seq(Byte) /\ Placed' /\ Cleared'
    BY <2>1 DEF EntryInv, Placed, Cleared
  <2> QED
    BY <1>2, <1>3, <2>2, <2>3, <2>4
<1>6. CASE n # 0
  <2> DEFINE size == Len(text)
             rest == text_bytes - end
  <2>1. /\ start \in Nat /\ end \in Nat /\ start < end /\ end <= text_bytes /\ text_bytes \in Nat
    <3>1. Len(s) \in 0..Len(s) /\ from < from + n /\ from + n <= Len(s)
      BY <1>1, <1>2, <1>6
    <3>2. at[from] \in Nat /\ at[from + n] \in Nat /\ at[Len(s)] \in Nat
      BY <1>1, <1>2, <3>1 DEF Sums
    <3>3. at[from] < at[from + n] /\ at[from + n] <= at[Len(s)]
      BY <1>1, <1>2, <3>1, SumsIncrease
    <3> QED
      BY <1>1, <1>4, <3>2, <3>3
  <2>2. text \in Seq(Byte) /\ size \in Nat /\ DOMAIN text = 1..size /\ text_bytes < size
        /\ text[text_bytes + 1] = Nul /\ size \in Sizes \cup {MaxSize}
        /\ memory \in {"locked", "fallback"}
    BY <2>1 DEF EntryInv, Placed
  <2>3. text' = Move(text, start, end, text_bytes + 1 - end)
        /\ text_bytes' = text_bytes - (end - start)
        /\ text_chars' = text_chars - n /\ memory' = memory /\ "shrunk" \in loose'
    BY <1>3, <1>6
  <2> HIDE DEF size
  <2>4. rest \in Nat /\ text_bytes' = start + rest /\ end + rest = text_bytes /\ start + rest < size
    BY <2>1, <2>2, <2>3
  <2>5. /\ DOMAIN text' = 1..size /\ text' = [p \in 1..size |-> text'[p]]
        /\ \A p \in 1..size : text'[p] = IF p \in (start + 1)..(start + (text_bytes + 1 - end))
                                         THEN text[p - start + end] ELSE text[p]
    BY <2>2, <2>3 DEF Move
  <2> HIDE DEF rest
  <2>6. ASSUME NEW p \in 1..start PROVE text'[p] = text[p]
    <3>1. p \in 1..size /\ p \notin (start + 1)..(start + (text_bytes + 1 - end))
      BY <2>1, <2>2, <2>4
    <3> QED
      BY <2>5, <3>1
  <2>7. ASSUME NEW p \in 1..(rest + 1) PROVE text'[start + p] = text[end + p]
    <3> DEFINE q == start + p
    <3>1. q \in 1..size /\ q \in (start + 1)..(start + (text_bytes + 1 - end)) /\ q - start + end = end + p
      BY <2>1, <2>2, <2>4
    <3> HIDE DEF q
    <3>2. text'[q] = text[end + p]
      BY <2>5, <3>1
    <3> QED
      BY <3>2 DEF q
  <2>8. text' \in Seq(Byte) /\ Len(text') = size
    <3>1. ASSUME NEW p \in 1..size PROVE text'[p] \in Byte
      <4>1. CASE p \in (start + 1)..(start + (text_bytes + 1 - end))
        <5> DEFINE q == p - start + end
        <5>1. q \in 1..size
          BY <2>1, <2>2, <4>1
        <5>2. text'[p] = text[q]
          BY <2>5, <4>1
        <5> HIDE DEF q
        <5>3. text[q] \in Byte
          BY <2>2, <5>1
        <5> QED
          BY <5>2, <5>3
      <4>2. CASE p \notin (start + 1)..(start + (text_bytes + 1 - end))
        <5>1. text'[p] = text[p]
          BY <2>5, <4>2
        <5>2. text[p] \in Byte
          BY <2>2
        <5> QED
          BY <5>1, <5>2
      <4> QED
        BY <4>1, <4>2
    <3>2. text' \in [1..size -> Byte]
      BY <2>5, <3>1
    <3> QED
      BY <2>2, <3>2, TableIsSeq
  <2>9. Placed'
    <3>1. text'[start + (rest + 1)] = text[end + (rest + 1)]
      BY <2>4, <2>7
    <3>2. end + (rest + 1) = text_bytes + 1 /\ start + (rest + 1) = text_bytes' + 1 /\ text_bytes' < size
      BY <2>1, <2>4
    <3>3. text'[text_bytes' + 1] = Nul
      BY <2>2, <3>1, <3>2
    <3> QED
      BY <2>2, <2>3, <2>8, <3>2, <3>3 DEF Placed
  <2>10. Cleared'
    BY <2>3 DEF Cleared
  <2>11. After(Cut(s, from, from + n))
    <3> DEFINE j == from + n
               e == << >>
               et == [k \in 0..0 |-> 0]
               t == text'
               r == Cut(s, from, j)
    <3>1. e \in Seq(Chars) /\ Sums(e, et) /\ Coded(e, e, et) /\ et[Len(e)] = 0
      <4>1. e \in Seq(Chars) /\ et[Len(e)] = 0 /\ Coded(e, e, et)
        BY DEF Coded
      <4> QED
        BY <4>1, EmptySums
    <3>2. j \in 0..Len(s) /\ from <= j /\ at[j] = end
      BY <1>2, <1>4
    <3> HIDE DEF t, e, et, j
    <3>3. Replaced(t, text, s, at, from, j, e, et[Len(e)])
      <4>1. \A p \in 1..at[from] : t[p] = text[p]
        BY <1>4, <2>6 DEF t
      <4>2. \A p \in 1..0 : t[at[from] + p] = e[p]
        OBVIOUS
      <4>3. \A p \in 1..(at[Len(s)] - at[j]) : t[at[from] + 0 + p] = text[at[j] + p]
        <5> SUFFICES ASSUME NEW p \in 1..rest PROVE t[start + 0 + p] = text[end + p]
          BY <1>1, <1>4, <3>2 DEF rest
        <5>1. p \in 1..(rest + 1) /\ start + 0 + p = start + p
          BY <2>1, <2>4
        <5> QED
          BY <2>7, <5>1 DEF t
      <4> QED
        BY <3>1, <4>1, <4>2, <4>3 DEF Replaced
    <3>4. Encodes(t, Spliced(s, from, e, j), at[from] + et[Len(e)] + (at[Len(s)] - at[j]))
      BY <1>1, <1>2, <3>1, <3>2, <3>3, SpliceIs
    <3>5. at[from] + et[Len(e)] + (at[Len(s)] - at[j]) = text_bytes'
      <4>1. at[from] = start /\ at[Len(s)] = text_bytes /\ at[j] = end /\ et[Len(e)] = 0
        BY <1>1, <1>4, <3>1, <3>2
      <4> QED
        BY <2>1, <2>3, <4>1
    <3>6. Spliced(s, from, e, j) = r /\ r \in Seq(Chars) /\ Len(r) = Len(s) - (j - from)
      BY <1>1, <1>2, <3>2, CutIs DEF e
    <3>7. Len(r) = text_chars'
      <4> HIDE DEF r
      <4> QED
        BY <1>1, <1>2, <2>3, <3>6 DEF j
    <3>8. Encodes(t, r, text_bytes')
      BY <3>4, <3>5, <3>6
    <3> HIDE DEF r
    <3>9. After(r)
      BY <3>6, <3>7, <3>8 DEF After, Encodes, t
    <3> QED
      BY <3>9 DEF r, j
  <2> QED
    BY <1>2, <1>3, <2>8, <2>9, <2>10, <2>11
<1> QED
  BY <1>5, <1>6

LEMMA CharByte == ASSUME NEW b \in Chars \X (Nat \ {0}) PROVE b # Nul /\ b # Junk
  BY DEF Nul, Junk

LEMMA FinalizeIs ==
  ASSUME EntryInv, Finalize
  PROVE  After(<< >>) /\ text' \in Seq(Byte) /\ Placed' /\ Cleared' /\ refused' = << >>
<1>1. /\ memory # "none"
      /\ left' = IF memory = "fallback" THEN left \cup Secrets(Strclear(text)) ELSE left
      /\ text' = << >> /\ text_bytes' = 0 /\ text_chars' = 0 /\ refused' = << >> /\ memory' = "none"
      /\ loose' = loose
  BY DEF Finalize
<1>2. After(<< >>)
  <2> DEFINE e == << >>
             et == [k \in 0..0 |-> 0]
  <2>1. e \in Seq(Chars) /\ Len(e) = 0 /\ et[Len(e)] = 0 /\ Coded(text', e, et)
    BY DEF Coded
  <2> HIDE DEF e, et
  <2>2. Sums(e, et)
    BY EmptySums DEF e, et
  <2>3. After(e)
    BY <1>1, <2>1, <2>2 DEF After
  <2> QED
    BY <2>3 DEF e
<1>3. text' \in Seq(Byte) /\ Placed'
  BY <1>1 DEF Placed
<1>4. ASSUME loose = {} PROVE left' = {}
  <2>1. left = {} /\ \A p \in (text_bytes + 1)..Len(text) : text[p] \in {Nul, Junk}
    BY <1>4 DEF EntryInv, Cleared
  <2>2. text_bytes < Len(text) /\ text[text_bytes + 1] = Nul /\ text \in Seq(Byte)
        /\ Len(text) \in Nat /\ DOMAIN text = 1..Len(text)
    BY <1>1 DEF EntryInv, Placed
  <2>3. PICK s, at : Holds(s, at)
    BY DEF EntryInv
  <2>4. s \in Seq(Chars) /\ Sums(s, at) /\ Coded(text, s, at) /\ text_bytes = at[Len(s)]
    BY <2>3 DEF Holds
  <2>5. text_bytes \in Nat
    BY <2>4 DEF Sums
  <2>6. \A p \in 1..text_bytes : text[p] # Nul
    <3>1. \A p \in 1..text_bytes : text[p] = ByteAt(s, at, p) /\ ByteAt(s, at, p) \in Chars \X (Nat \ {0})
      BY <2>4, CodedIs, CharAtType
    <3> QED
      BY <3>1, CharByte
  <2> DEFINE I == {i \in DOMAIN text : text[i] = Nul}
  <2>7. I \in SUBSET Nat /\ text_bytes + 1 \in I /\ \A i \in I : i >= text_bytes + 1
    BY <2>2, <2>5, <2>6
  <2>8. Strlen(text) = text_bytes
    <3>1. Min(I) \in I /\ \A i \in I : Min(I) <= i
      <4> HIDE DEF I
      <4> QED
        BY <2>7, LeastIsMin
    <3> DEFINE f == Min(I)
    <3>2. Strlen(text) = f - 1
      BY DEF Strlen
    <3> HIDE DEF f, I
    <3>3. f \in Nat /\ f <= text_bytes + 1 /\ f >= text_bytes + 1
      BY <2>7, <3>1 DEF f
    <3> QED
      BY <2>5, <3>2, <3>3
  <2>9. ASSUME NEW i \in DOMAIN text PROVE Strclear(text)[i] \in {Nul, Junk}
    <3>1. Strclear(text)[i] = IF i <= text_bytes THEN Junk ELSE text[i]
      BY <2>8 DEF Strclear
    <3>2. ~(i <= text_bytes) => i \in (text_bytes + 1)..Len(text)
      BY <2>2, <2>5
    <3> QED
      BY <2>1, <3>1, <3>2
  <2>10. DOMAIN Strclear(text) = DOMAIN text
    BY DEF Strclear
  <2>11. Secrets(Strclear(text)) = {}
    BY <2>9, <2>10 DEF Secrets
  <2> QED
    BY <1>1, <2>1, <2>11
<1>5. Cleared'
  <2>1. \A p \in (text_bytes' + 1)..Len(text') : text'[p] \in {Nul, Junk}
    BY <1>1
  <2> QED
    BY <1>1, <1>4, <2>1 DEF Cleared
<1> QED
  BY <1>1, <1>2, <1>3, <1>5

---------------------------------------------------------------------------
(* The invariant and the properties.                                        *)

LEMMA InitEntryInv == EntryInit => EntryInv
<1> SUFFICES ASSUME EntryInit PROVE EntryInv
  OBVIOUS
<1> DEFINE e == << >>
           et == [k \in 0..0 |-> 0]
<1>1. e \in Seq(Chars) /\ Len(e) = 0 /\ et[Len(e)] = 0 /\ Coded(text, e, et)
  BY DEF Coded
<1> HIDE DEF e, et
<1>2. Sums(e, et)
  BY EmptySums DEF e, et
<1>3. Holds(e, et)
  BY <1>1, <1>2 DEF Holds, EntryInit
<1>4. text \in Seq(Byte) /\ Placed /\ Cleared
  BY DEF EntryInit, Placed, Cleared
<1> QED
  BY <1>3, <1>4 DEF EntryInv

LEMMA OneOf ==
  ASSUME NEW s \in Seq(Chars), NEW m \in Nat, m < Len(s)
  PROVE  SubSeq(s, m + 1, m + 1) = <<s[m + 1]>>
<1> DEFINE q == m + 1
           z == SubSeq(s, q, q)
           c == s[q]
<1>1. q \in 1..Len(s) /\ q \in Int
  OBVIOUS
<1>2. c \in Chars
  BY <1>1
<1> HIDE DEF q
<1>3. \A k \in q..q : s[k] \in Chars
  <2>1. \A k \in q..q : k = q
    BY <1>1
  <2> QED
    BY <1>2, <2>1
<1>4. /\ z \in Seq(Chars) /\ Len(z) = IF q <= q THEN q - q + 1 ELSE 0
      /\ \A k \in 1..(q - q + 1) : z[k] = s[q + k - 1]
  BY <1>1, <1>3, SubSeqProperties
<1>5. q <= q /\ q - q + 1 = 1 /\ q + 1 - 1 = q /\ 1 \in 1..1
  BY <1>1
<1>6. Len(z) = 1 /\ z[1] = c
  BY <1>4, <1>5
<1>7. <<c>> \in Seq(Chars) /\ Len(<<c>>) = 1 /\ <<c>>[1] = c
  <2> HIDE DEF c
  <2> QED
    BY <1>2
<1> HIDE DEF z, c
<1>8. z = <<c>>
  BY <1>4, <1>6, <1>7, SeqEqual
<1> QED
  BY <1>8 DEF z, c, q

LEMMA InsertStep ==
  ASSUME EntryInv, NEW position \in 0..text_chars, NEW chars \in Inputs,
         InsertText(position, chars)
  PROVE  EntryInv' /\ Text!Next
<1>1. PICK s, at : Holds(s, at)
  BY DEF EntryInv
<1>2. chars \in Seq(Chars) /\ Len(chars) \in Nat
  BY InputsAre
<1>3. PICK m \in 0..Len(chars) :
        /\ After(Spliced(s, position, SubSeq(chars, 1, m), position))
        /\ text_bytes' < MaxSize
        /\ m < Len(chars) => /\ refused' = <<chars[m + 1]>>
                             /\ text_bytes' + Width[chars[m + 1]] >= MaxSize
        /\ m = Len(chars) => refused' = << >>
  BY <1>1, <1>2, InsertIs DEF InsertText
<1>4. text' \in Seq(Byte) /\ Placed' /\ Cleared'
  BY <1>1, <1>2, InsertIs DEF InsertText
<1>5. EntryInv'
  <2>1. (\E x, y : Holds(x, y))'
    BY <1>3, AfterIs
  <2> QED
    BY <1>4, <2>1 DEF EntryInv
<1>6. Shown = s /\ position \in 0..Len(Shown)
  BY <1>1, ShownIs DEF Holds
<1>7. Shown' = Spliced(s, position, SubSeq(chars, 1, m), position)
      /\ Text!Bytes(Shown') = text_bytes'
  BY <1>3, AfterIs
<1>8. Shown' = Text!Splice(position, SubSeq(chars, 1, m))
  BY <1>6, <1>7 DEF Text!Splice, Spliced
<1>9. refused' = SubSeq(chars, m + 1, Text!Min({m + 1, Len(chars)}))
  <2>1. CASE m = Len(chars)
    <3>1. Text!Min({m + 1, Len(chars)}) = m
      BY <1>2, <2>1 DEF Text!Min
    <3>2. SubSeq(chars, m + 1, m) = << >>
      BY <1>2
    <3> QED
      BY <1>3, <2>1, <3>1, <3>2
  <2>2. CASE m < Len(chars)
    <3>1. Text!Min({m + 1, Len(chars)}) = m + 1
      BY <1>2, <2>2 DEF Text!Min
    <3>2. SubSeq(chars, m + 1, m + 1) = <<chars[m + 1]>>
      BY <1>2, <2>2, OneOf
    <3> QED
      BY <1>3, <2>2, <3>1, <3>2
  <2>3. m = Len(chars) \/ m < Len(chars)
    BY <1>2
  <2> QED
    BY <2>1, <2>2, <2>3, Zenon
<1>10. Text!Insert(position, chars)
  BY <1>3, <1>7, <1>8, <1>9 DEF Text!Insert
<1> QED
  BY <1>5, <1>6, <1>10 DEF Text!Next

LEMMA DeleteStep ==
  ASSUME EntryInv, NEW position \in 0..(text_chars + 1), NEW n_chars \in 0..(text_chars + 1),
         DeleteText(position, n_chars)
  PROVE  EntryInv' /\ Text!Next
<1>1. PICK s, at : Holds(s, at)
  BY DEF EntryInv
<1>2. PICK i \in 0..Len(s) : \E n \in 0..(Len(s) - i) : After(Cut(s, i, i + n))
  BY <1>1, DeleteIs
<1>3. PICK n \in 0..(Len(s) - i) : After(Cut(s, i, i + n))
  BY <1>2
<1>4. text' \in Seq(Byte) /\ Placed' /\ Cleared' /\ refused' = << >>
  BY <1>1, DeleteIs
<1>5. (\E x, y : Holds(x, y))' /\ Shown' = Cut(s, i, i + n)
  BY <1>3, AfterIs
<1>6. Shown = s
  BY <1>1, ShownIs
<1>7. Text!Delete(i, n)
  BY <1>4, <1>5, <1>6 DEF Text!Delete, Cut
<1> QED
  BY <1>4, <1>5, <1>6, <1>7 DEF EntryInv, Text!Next

LEMMA FinalizeStep ==
  ASSUME EntryInv, Finalize
  PROVE  EntryInv' /\ Text!Next
<1>1. After(<< >>) /\ text' \in Seq(Byte) /\ Placed' /\ Cleared' /\ refused' = << >>
  BY FinalizeIs
<1>2. (\E x, y : Holds(x, y))' /\ Shown' = << >>
  BY <1>1, AfterIs
<1> QED
  BY <1>1, <1>2 DEF EntryInv, Text!Next, Text!Clear

LEMMA NextStep ==
  ASSUME EntryInv, [EntryNext]_entryVars
  PROVE  EntryInv' /\ [Text!Next]_<<Shown, refused>>
<1>1. ASSUME NEW position \in 0..text_chars, NEW chars \in Inputs, InsertText(position, chars)
      PROVE  EntryInv' /\ Text!Next
  BY <1>1, InsertStep
<1>2. ASSUME NEW position \in 0..(text_chars + 1), NEW n_chars \in 0..(text_chars + 1),
             DeleteText(position, n_chars)
      PROVE  EntryInv' /\ Text!Next
  BY <1>2, DeleteStep
<1>3. CASE Finalize
  BY <1>3, FinalizeStep
<1>4. CASE UNCHANGED entryVars
  <2>1. EntryInv' /\ UNCHANGED <<text, text_bytes, refused>>
    BY <1>4 DEF entryVars, EntryInv, Holds, Placed, Cleared
  <2> QED
    BY <2>1 DEF Shown
<1> QED
  BY <1>1, <1>2, <1>3, <1>4 DEF EntryNext

LEMMA SpecEntryInv == EntrySpec => []EntryInv
<1>1. EntryInv /\ [EntryNext]_entryVars => EntryInv'
  BY NextStep
<1> QED
  BY <1>1, InitEntryInv, PTL DEF EntrySpec

\* For any characters and widths, any sizes and any insertions and deletions: the counters are
\* those of whole characters in the bytes, the NUL follows them within the allocation, and the
\* allocation has a size of the doubling sequence.
THEOREM BufferSound == EntrySpec => []BufferIsSound
<1>1. EntryInv => BufferIsSound
  <2> SUFFICES ASSUME EntryInv PROVE BufferIsSound
    OBVIOUS
  <2>1. PICK s, at : Holds(s, at)
    BY DEF EntryInv
  <2>2. /\ s \in Seq(Chars) /\ Sums(s, at) /\ Coded(text, s, at) /\ text \in Seq(Byte)
        /\ text_bytes = at[Len(s)] /\ text_chars = Len(s) /\ Len(s) \in Nat
    BY <2>1 DEF Holds, EntryInv
  <2>3. Shown = s
    BY <2>1, ShownIs
  <2>4. CASE text = << >> /\ text_bytes = 0 /\ memory = "none"
    <3>1. 0 \in 0..Len(s) /\ Len(s) \in 0..Len(s) /\ at[0] = 0
      BY <2>2 DEF Sums
    <3>2. ~(0 < Len(s))
      <4> SUFFICES ASSUME 0 < Len(s) PROVE FALSE
        OBVIOUS
      <4>1. at[0] < at[Len(s)]
        BY <2>2, <3>1, SumsIncrease
      <4> QED
        BY <2>2, <2>4, <3>1, <4>1
    <3> QED
      BY <2>2, <2>4, <3>2 DEF BufferIsSound
  <2>5. CASE /\ text_bytes < Len(text) /\ text[text_bytes + 1] = Nul
             /\ Len(text) \in Sizes \cup {MaxSize} /\ memory \in {"locked", "fallback"}
    <3>1. text_bytes \in Nat /\ Len(text) \in Nat
      BY <2>2 DEF Sums
    <3>2. SubSeq(text, 1, text_bytes) = Encode(s)
      BY <2>2, <2>5, <3>1, CodedBytes
    <3>3. Nul \notin ToSet(Encode(s))
      <4>1. Encode(s) \in Seq(Chars \X (Nat \ {0}))
        BY <2>2, EncodeCoded
      <4>2. \A p \in DOMAIN Encode(s) : Encode(s)[p] # Nul
        BY <4>1, CharByte
      <4> QED
        BY <4>2 DEF ToSet
    <3> QED
      BY <2>2, <2>3, <2>5, <3>2, <3>3 DEF BufferIsSound, text_size
  <2> QED
    BY <2>4, <2>5 DEF EntryInv, Placed
<1> QED
  BY <1>1, SpecEntryInv, PTL

\* Pageable memory that is freed holds nothing of the text, unless the text was moved by
\* g_realloc or shortened before.
THEOREM FreedCleared == EntrySpec => []FreedTextIsCleared
<1>1. EntryInv => FreedTextIsCleared
  BY DEF EntryInv, Cleared, FreedTextIsCleared
<1> QED
  BY <1>1, SpecEntryInv, PTL

\* Editing the bytes in place implements editing a sequence of characters: an insertion keeps the
\* longest run of whole characters there is room for, and nothing else changes.
THEOREM BufferIsText == EntrySpec => ImplementsText
<1>1. EntryInit => Text!Init
  <2> SUFFICES ASSUME EntryInit PROVE Text!Init
    OBVIOUS
  <2>1. PICK s, at : Holds(s, at)
    BY InitEntryInv DEF EntryInv
  <2>2. Shown = s /\ Len(s) = 0 /\ s \in Seq(Chars)
    BY <2>1, ShownIs DEF Holds, EntryInit
  <2>3. Shown = << >>
    BY <2>2
  <2> QED
    BY <2>3 DEF EntryInit, Text!Init
<1>2. EntryInv /\ [EntryNext]_entryVars => [Text!Next]_<<Shown, refused>>
  BY NextStep
<1> QED
  BY <1>1, <1>2, SpecEntryInv, PTL DEF EntrySpec, ImplementsText, Text!Spec
===============================================================================
