---------------------------- MODULE Interactive -----------------------------
(***************************************************************************)
(* The interactive view: the loop of App::run over tick, draw and one key, *)
(* with the choices of window, scope and grouping, the totals and the      *)
(* history that are fetched for them, the filter, and the cursor that      *)
(* follows a row through the ranking (tui.rs).                             *)
(*                                                                         *)
(* What is fetched is known by what it was fetched for.  A ranking is any  *)
(* order of the rows, so that the sort key and the amounts are left out,   *)
(* and a filter is the set of rows it hides.  The sidebar's cursor only    *)
(* says which choice Enter makes, and every choice can be made at any time *)
(* the filter is not being typed.                                          *)
(***************************************************************************)
EXTENDS Integers, Sequences, FiniteSets, SequencesExt

CONSTANTS
    Ident,         \* identities
    Label,         \* Label[i]: the group of identity i
    Flow,          \* records [id, scope]: what may have moved bytes
    Window,        \* the windows that can be chosen, Live among them
    Live,          \* the live window
    Moves,         \* how far a key moves the cursor
    Filters,       \* bound: the sets of rows a filter can hide
    None           \* no value

Labels == {Label[i] : i \in Ident}
Scope == {"external", "loopback", "all"}

(* What a history is fetched for. *)
Request == [id : Ident, window : Window, scope : Scope]

ASSUME InteractiveAssumption ==
    /\ Live \in Window /\ Moves \subseteq Int
    /\ {} \in Filters
    /\ None \notin Ident \cup Window \cup Labels
                 \cup {"just now", "long ago"} \cup Request
    /\ IsFiniteSet(Flow)
    /\ \A f \in Flow : f.id \in Ident /\ f.scope \in {"external", "loopback"}

VARIABLES
    step,          \* where the loop of run is
    seen,          \* the flows of App.flows
    window, scope, group,  \* the choices
    hidden,        \* the rows the filter hides
    filtering,     \* whether the filter is being typed
    rows,          \* App.rows: the keys of the rows, best first
    table,         \* App.table: the cursor, 0 for None
    selectedKey,   \* App.selected_key
    refreshed,     \* App.refreshed: None, less than REFRESH ago, or more
    stored,        \* App.stored
    storedFor,     \* history: the window App.stored was fetched for
    todayFor,      \* history: the scope App.today was summed for
    error,         \* whether App.error is Some
    historyFor,    \* App.history_for
    history        \* what App.history shows: for what, and before which refresh

choices == <<window, scope, group>>
filter == <<hidden, filtering>>
cursor == <<table, selectedKey>>
totals == <<refreshed, stored, storedFor, todayFor>>
series == <<historyFor, history>>
vars == <<step, seen, choices, filter, rows, cursor, totals, error, series>>

Empty == [of |-> None, age |-> "new"]

Init ==
    /\ step = "feed" /\ seen = {}
    /\ window = Live /\ scope \in Scope /\ group \in {"identity", "project"}
    /\ hidden = {} /\ filtering = FALSE
    /\ rows = <<>> /\ table = 0 /\ selectedKey = None
    /\ refreshed = None /\ stored = {} /\ storedFor = None /\ todayFor = None
    /\ error = FALSE /\ historyFor = None /\ history = Empty

-----------------------------------------------------------------------------
(* App::tick, one step for each of its parts. *)

(* What arrived since the last frame. *)
TakeIn ==
    /\ step = "feed"
    /\ \E new \in {{}} \cup {{f} : f \in Flow} : seen' = seen \cup new
    /\ step' = "refresh"
    /\ UNCHANGED <<choices, filter, rows, cursor, totals, error, series>>

(* Bug: only a choice or a key fetches the totals again. *)
DueWhenAsked == refreshed = None

Due == refreshed \in {None, "long ago"}

NotDue ==
    /\ step = "refresh" /\ ~Due
    /\ step' = "recompute"
    /\ UNCHANGED <<seen, choices, filter, rows, cursor, totals, error, series>>

(* Bug: the history shown is not fetched again with the totals. *)
BeginRefreshKeepsSeries ==
    /\ step = "refresh" /\ Due
    /\ refreshed' = "just now"
    /\ historyFor' = historyFor /\ history' = [history EXCEPT !.age = "old"]
    /\ step' = "recompute"
    /\ UNCHANGED <<seen, choices, filter, rows, cursor>>

(* refresh forgets first which history is shown. *)
BeginRefresh ==
    /\ step = "refresh" /\ Due
    /\ refreshed' = "just now"
    /\ historyFor' = None /\ history' = [history EXCEPT !.age = "old"]
    /\ step' = "recompute"
    /\ UNCHANGED <<seen, choices, filter, rows, cursor>>

(* Both queries are answered; the live window needs the first one only. *)
Refreshed ==
    /\ BeginRefresh
    /\ error' = FALSE
    /\ todayFor' = scope /\ storedFor' = window
    /\ IF window = Live THEN stored' = {} ELSE stored' \in SUBSET Flow

(* Either query fails: what was fetched before stays. *)
RefreshFails ==
    /\ BeginRefresh
    /\ error' = TRUE
    /\ UNCHANGED <<stored, storedFor, todayFor>>

InScope(f) == scope \in {"all", f.scope}
KeyOf(i) == IF group = "identity" THEN i ELSE Label[i]

(* The rows of recompute: one for every key of a flow in scope, but for    *)
(* those the filter hides.                                                 *)
Measured == {f \in IF window = Live THEN seen ELSE stored : InScope(f)}
RowKeys == {KeyOf(f.id) : f \in Measured} \ hidden

(* App::select. *)
Select(index, ranking) ==
    IF ranking = <<>> THEN table' = 0 /\ selectedKey' = None
                      ELSE /\ table' = index
                           /\ selectedKey' = IF index \in DOMAIN ranking THEN ranking[index]
                                                                          ELSE None

Positions(key, ranking) == {n \in DOMAIN ranking : ranking[n] = key}
AtLeastOne(n) == IF n = 0 THEN 1 ELSE n
AtMost(n, m) == IF n > m THEN m ELSE n

(* Bug: the cursor stays where it is while the rows move. *)
CursorByPosition(ranking) == AtMost(AtLeastOne(table), Len(ranking))
(* Bug: a cursor whose row is gone stays, also below the last row. *)
CursorUnclamped(ranking) ==
    IF Positions(selectedKey, ranking) # {}
    THEN CHOOSE n \in Positions(selectedKey, ranking) : TRUE
    ELSE AtLeastOne(table)

(* Where the cursor goes: to the selected row, or else stays, or is moved  *)
(* to the last row.                                                        *)
CursorIn(ranking) ==
    IF Positions(selectedKey, ranking) # {}
    THEN CHOOSE n \in Positions(selectedKey, ranking) : TRUE
    ELSE AtMost(AtLeastOne(table), Len(ranking))

Recompute ==
    /\ step = "recompute"
    /\ \E ranking \in SetToSeqs(RowKeys) :
          rows' = ranking /\ Select(CursorIn(ranking), ranking)
    /\ step' = "history"
    /\ UNCHANGED <<seen, choices, filter, totals, error, series>>

(* fetch_history: the series of the selected identity, in a history        *)
(* window, unless it is there.                                             *)
SelectedIdentity == IF group = "identity" /\ table \in DOMAIN rows
                    THEN rows[table] ELSE None
Wanted == [id |-> SelectedIdentity, window |-> window, scope |-> scope]
NeedsHistory == SelectedIdentity # None /\ window # Live /\ historyFor # Wanted

NoFetch ==
    /\ step = "history" /\ ~NeedsHistory
    /\ step' = "draw"
    /\ UNCHANGED <<seen, choices, filter, rows, cursor, totals, error, series>>

Fetched ==
    /\ step = "history" /\ NeedsHistory
    /\ historyFor' = Wanted /\ history' = [of |-> Wanted, age |-> "new"]
    /\ step' = "draw"
    /\ UNCHANGED <<seen, choices, filter, rows, cursor, totals, error>>

FetchFails ==
    /\ step = "history" /\ NeedsHistory
    /\ historyFor' = Wanted /\ history' = Empty
    /\ error' = TRUE
    /\ step' = "draw"
    /\ UNCHANGED <<seen, choices, filter, rows, cursor, totals>>

-----------------------------------------------------------------------------
(* on_key: at most one key after a frame. *)

Key == step = "draw" /\ step' = "feed"

NoKey == Key /\ UNCHANGED <<seen, choices, filter, rows, cursor, totals, error, series>>

(* choose, whether by a cycling key or from the sidebar. *)
Choose(what) ==
    /\ Key /\ ~filtering
    /\ refreshed' = IF what = "group" THEN refreshed ELSE None
    /\ table' = 0 /\ selectedKey' = None
    /\ UNCHANGED <<seen, filter, rows, stored, storedFor, todayFor, error, series>>

ChooseWindow == window' \in Window /\ UNCHANGED <<scope, group>> /\ Choose("window")
ChooseScope  == scope' \in Scope /\ UNCHANGED <<window, group>> /\ Choose("scope")
ChooseGroup  == group' \in {"identity", "project"} /\ UNCHANGED <<window, scope>>
                  /\ Choose("group")

(* Bug: the step is not cut off at the last row. *)
StepUncut(index, by) == AtLeastOne(IF index + by < 0 THEN 0 ELSE index + by)

StepTo(index, by) == AtMost(AtLeastOne(IF index + by < 0 THEN 0 ELSE index + by), Len(rows))

Move ==
    /\ Key /\ ~filtering
    /\ \E by \in Moves : Select(StepTo(AtLeastOne(table), by), rows)
    /\ UNCHANGED <<seen, choices, filter, rows, totals, error, series>>

OpenFilter ==
    /\ Key /\ ~filtering /\ filtering' = TRUE
    /\ UNCHANGED <<seen, choices, hidden, rows, cursor, totals, error, series>>

(* A character or Backspace. *)
Type ==
    /\ Key /\ filtering
    /\ hidden' \in Filters
    /\ UNCHANGED <<seen, choices, filtering, rows, cursor, totals, error, series>>

(* Enter keeps the filter, Esc clears it, also where it is not typed. *)
CloseFilter ==
    /\ Key
    /\ filtering' = FALSE
    /\ hidden' = {} \/ (filtering /\ UNCHANGED hidden)
    /\ UNCHANGED <<seen, choices, rows, cursor, totals, error, series>>

AskAgain ==
    /\ Key /\ ~filtering
    /\ refreshed' = None
    /\ UNCHANGED <<seen, choices, filter, rows, cursor, stored, storedFor, todayFor, error, series>>

(* q where no filter is typed, or Ctrl-C. *)
Quit ==
    /\ step = "draw" /\ step' = "quit"
    /\ UNCHANGED <<seen, choices, filter, rows, cursor, totals, error, series>>

(* REFRESH passes. *)
Elapse ==
    /\ refreshed = "just now" /\ refreshed' = "long ago"
    /\ UNCHANGED <<step, seen, choices, filter, rows, cursor, stored, storedFor, todayFor,
                   error, series>>

TickStep ==
    TakeIn \/ NotDue \/ Refreshed \/ RefreshFails \/ Recompute
           \/ NoFetch \/ Fetched \/ FetchFails

Press ==
    \/ NoKey \/ ChooseWindow \/ ChooseScope \/ ChooseGroup \/ Move
    \/ OpenFilter \/ Type \/ CloseFilter \/ AskAgain

Next == TickStep \/ Press \/ Quit \/ Elapse

Spec == Init /\ [][Next]_vars

(* The loop goes on, each query is answered or fails by its timeout, and   *)
(* time passes.                                                            *)
FairSpec == Spec /\ WF_vars(TickStep) /\ WF_vars(Press) /\ WF_vars(Elapse)

-----------------------------------------------------------------------------
(* Properties. *)

TypeOK ==
    /\ step \in {"feed", "refresh", "recompute", "history", "draw", "quit"}
    /\ seen \subseteq Flow
    /\ window \in Window /\ scope \in Scope /\ group \in {"identity", "project"}
    /\ hidden \in Filters /\ filtering \in BOOLEAN
    /\ rows \in Seq(Ident \cup Labels)
    /\ table \in 0 .. Len(rows)
    /\ selectedKey \in {None} \cup Ident \cup Labels
    /\ refreshed \in {None, "just now", "long ago"}
    /\ stored \subseteq Flow
    /\ storedFor \in Window \cup {None} /\ todayFor \in Scope \cup {None}
    /\ error \in BOOLEAN
    /\ historyFor \in Request \cup {None}
    /\ history \in [of : Request \cup {None}, age : {"new", "old"}]

(* A frame that shows no error shows what is chosen: the totals are those  *)
(* of this window, today's those of this scope, and the detail pane has    *)
(* the history of the row under the cursor, in this window and scope,      *)
(* fetched since the totals were, whatever was chosen, selected, ranked    *)
(* anew or failed in between.                                              *)
ShownIsChosen ==
    step = "draw" /\ ~error =>
        /\ storedFor = window /\ todayFor = scope
        /\ window # Live /\ SelectedIdentity # None =>
             history = [of |-> Wanted, age |-> "new"]

(* At every frame the cursor is on a row, if there is one, and the row     *)
(* under it is the one whose key is remembered.                            *)
CursorOnRow ==
    step = "draw" =>
        IF rows = <<>> THEN table = 0 /\ selectedKey = None
                       ELSE table \in DOMAIN rows /\ rows[table] = selectedKey

(* "Keep the cursor on the same row as it moves through the ranking"       *)
(* (tui.rs:618): the selected row changes by a choice, by a cursor key, or *)
(* because it is no longer there; then the cursor stays at its height.     *)
CursorFollows ==
    [][ selectedKey' # selectedKey /\ selectedKey # None =>
          \/ ChooseWindow \/ ChooseScope \/ ChooseGroup \/ Move
          \/ Positions(selectedKey, rows') = {} /\ table' = AtMost(table, Len(rows')) ]_vars

(* An error on screen goes away by itself: once the daemon answers again,  *)
(* no key has to be pressed ("until one succeeds", tui.rs:225).            *)
ErrorHeals ==
    (<>[][~RefreshFails /\ ~FetchFails]_vars /\ [](step # "quit")) => <>[](~error)

=============================================================================
