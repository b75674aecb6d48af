------------------------------- MODULE GpgFetcher -------------------------------
(***************************************************************************)
(* The dialog that looks for keys on a key server (src/gpg-fetcher.vala).   *)
(* Every search is an operation as GpgOperation describes it; they share    *)
(* the dialog's cancellable, which a new search cancels and resets in one   *)
(* go, its list of matches, and the id of the timeout that, half a second   *)
(* after a search has begun, turns the page to "loading".                   *)
(***************************************************************************)
EXTENDS Naturals, Sequences

CONSTANTS
  MaxSearches,  \* bound: searches, numbered in order
  MaxKeys       \* bound: keys found by a search

ASSUME FetcherAssumption == MaxSearches \in Nat /\ MaxKeys \in Nat

Searches == 1..MaxSearches

VARIABLES
  phase, result, keys, reports, cancelled,  \* the searches, and _cancellable
  store,        \* the matches, each by the search that found it
  search_page,  \* the page of search_stack
  main_page,    \* the page of main_stack; "closed" once the dialog is destroyed
  timeouts,     \* pending timeouts, each by the search that began it
  timeout_id,   \* _spinner_timeout_id
  lost          \* a timeout was pending when its id was overwritten

dialog == <<store, search_page, main_page, timeouts, timeout_id, lost>>
searching == <<phase, result, keys, reports, cancelled>>
vars == <<searching, dialog>>

Operation == INSTANCE GpgOperation WITH Ops <- Searches, Cancellable <- Searches

Init ==
  /\ Operation!Init
  /\ store = << >>
  /\ search_page = "initial"
  /\ main_page = "search"
  /\ timeouts = {}
  /\ timeout_id = 0
  /\ lost = FALSE

---------------------------------------------------------------------------
(* on_search_activate                                                       *)

Slip_CancelNothing == {}
Running == {s \in Searches : phase[s] = "running"}

\* clear_matches is connected to the cancellable; a cancellable that is cancelled
\* already tells nobody.
MatchesAfterCancel == IF cancelled THEN store ELSE << >>

Unused == {s \in Searches : phase[s] = "idle"}

\* An empty text only cancels.
ClearSearch ==
  /\ main_page = "search"
  /\ IF cancelled THEN UNCHANGED searching ELSE Operation!Cancel
  /\ store' = MatchesAfterCancel
  /\ UNCHANGED <<search_page, main_page, timeouts, timeout_id, lost>>

\* The searches in flight are cancelled, the cancellable is reset, and the next search
\* begins, or fails to.
Search ==
  /\ main_page = "search"
  /\ \E s \in Unused, p \in {"running", "ended"} :
       /\ \A t \in Unused : s <= t
       /\ phase' = [t \in Searches |-> IF t = s THEN p ELSE
                                       IF t \in Running THEN "ended" ELSE phase[t]]
       /\ result' = [t \in Searches |-> IF t \in Running \/ (t = s /\ p = "ended") THEN "error"
                                        ELSE result[t]]
       /\ timeouts' = timeouts \cup {s}
       /\ timeout_id' = s
       /\ lost' = (lost \/ timeouts # {})
  /\ cancelled' = FALSE
  /\ store' = MatchesAfterCancel
  /\ UNCHANGED <<keys, reports, search_page, main_page>>

\* No context can be made: an error is shown, and no search begins.
SearchFails ==
  /\ main_page = "search"
  /\ phase' = [t \in Searches |-> IF t \in Running THEN "ended" ELSE phase[t]]
  /\ result' = [t \in Searches |-> IF t \in Running THEN "error" ELSE result[t]]
  /\ cancelled' = FALSE
  /\ store' = MatchesAfterCancel
  /\ UNCHANGED <<keys, reports, search_page, main_page, timeouts, timeout_id, lost>>

---------------------------------------------------------------------------
(* The main loop.                                                           *)

\* A key that has a user id is a match; the listing's callback runs in the main loop.
FindKey(s) ==
  /\ Operation!Deliver(s)
  /\ store' \in {store, Append(store, s)}
  /\ UNCHANGED <<search_page, main_page, timeouts, timeout_id, lost>>

EndSearch(s) == Operation!End(s) /\ UNCHANGED dialog

\* The timeout of start_spinner.
ForgetId == 0

Slip_TimeoutRepeats(t) == timeouts
RemoveTimeout(t) == timeouts \ {t}

SpinnerTimeout(t) ==
  /\ t \in timeouts
  /\ timeouts' = RemoveTimeout(t)
  /\ timeout_id' = ForgetId
  /\ search_page' = "loading"
  /\ UNCHANGED <<searching, store, main_page, lost>>

Slip_KeepTimeout == timeouts
StopTimeout == RemoveTimeout(timeout_id)

\* The search reports, and stop_spinner runs, whatever search began the timeout.
ReportSearch(s) ==
  /\ Operation!Report(s)
  /\ timeouts' = StopTimeout
  /\ timeout_id' = 0
  /\ search_page' = IF store # << >> THEN "listing" ELSE "initial"
  /\ UNCHANGED <<store, main_page, lost>>

---------------------------------------------------------------------------
(* The other page.                                                          *)

SelectKey ==
  /\ main_page = "search" /\ search_page = "listing"
  /\ store # << >>
  /\ main_page' = "browse"
  /\ UNCHANGED <<searching, store, search_page, timeouts, timeout_id, lost>>

Back ==
  /\ main_page = "browse"
  /\ main_page' = "search"
  /\ UNCHANGED <<searching, store, search_page, timeouts, timeout_id, lost>>

\* The import is begun with _cancellable, and any response destroys the dialog.
Import ==
  /\ main_page = "browse"
  /\ main_page' = "closed"
  /\ UNCHANGED <<searching, store, search_page, timeouts, timeout_id, lost>>

Loop == \E s \in Searches : FindKey(s) \/ EndSearch(s) \/ ReportSearch(s) \/ SpinnerTimeout(s)

Next == ClearSearch \/ Search \/ SearchFails \/ SelectKey \/ Back \/ Import \/ Loop

\* gpg ends, and the main loop runs callbacks and timeouts.
Spec == Init /\ [][Next]_vars /\ WF_vars(Loop)

---------------------------------------------------------------------------
(* Properties                                                               *)

\* The type of the state; a timeout id, when there is one, is that of a pending timeout,
\* so that it is never removed twice.
TypeOK ==
  /\ phase \in [Searches -> {"idle", "running", "ended", "reported"}]
  /\ result \in [Searches -> {"none", "ok", "error"}]
  /\ keys \in [Searches -> 0..MaxKeys]
  /\ \A s \in Searches : Len(reports[s]) <= 1
  /\ cancelled \in BOOLEAN /\ lost \in BOOLEAN
  /\ store \in Seq(Searches)
  /\ search_page \in {"initial", "loading", "listing"}
  /\ main_page \in {"search", "browse", "closed"}
  /\ timeouts \subseteq Searches
  /\ timeout_id \in timeouts \cup {0}

\* A key is imported with a cancellable that is not cancelled: the import is not
\* cancelled before it has begun.
ImportIsNotCancelled == main_page = "browse" => ~cancelled

\* However searches overlap, every match in the list was found by the last one: a search
\* that was cancelled finds nothing any more, and its matches have been cleared.  What is
\* chosen from them can be imported.
Begun == Searches \ Unused
MatchesAreOfTheLastSearch ==
  /\ TypeOK /\ ImportIsNotCancelled
  /\ \A i \in DOMAIN store : \A s \in Begun : s <= store[i]

\* Once all searches have reported and no timeout is pending, matches are shown, and
\* not the "loading" page; as long as a search was never begun while the timeout of the
\* one before was pending.
AtRest == timeouts = {} /\ \A s \in Begun : phase[s] = "reported"
MatchesAreShown ==
  AtRest /\ ~lost => /\ search_page # "loading"
                     /\ store # << >> => search_page = "listing"

\* Every search comes to rest.
SearchesComeToRest == []<>AtRest
=============================================================================
