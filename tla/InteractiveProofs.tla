------------------------- MODULE InteractiveProofs --------------------------
(***************************************************************************)
(* Proofs about Interactive for every set of identities, groups, flows,    *)
(* windows, filters and cursor keys.                                       *)
(***************************************************************************)
EXTENDS Interactive, FiniteSetTheorems, TLAPS

-----------------------------------------------------------------------------
(* The rows. *)

(* The keys of the rows are identities or labels, and there are finitely   *)
(* many of them.                                                           *)
LEMMA RowKeysFacts ==
    ASSUME seen \subseteq Flow, stored \subseteq Flow
    PROVE  /\ RowKeys \subseteq Ident \cup Labels
           /\ group = "identity" => RowKeys \subseteq Ident
           /\ IsFiniteSet(RowKeys)
<1>1. Measured \subseteq Flow
  BY DEF Measured
<1>2. \A f \in Measured : f.id \in Ident
  BY <1>1, InteractiveAssumption
<1>3. RowKeys \subseteq Ident \cup Labels /\ (group = "identity" => RowKeys \subseteq Ident)
  BY <1>2 DEF RowKeys, KeyOf, Labels
<1>4. IsFiniteSet(Measured)
  BY <1>1, InteractiveAssumption, FS_Subset
<1> DEFINE Keys == {KeyOf(f.id) : f \in Measured}
           key == [f \in Measured |-> KeyOf(f.id)]
<1>5. key \in Surjection(Measured, Keys)
  BY DEF Surjection
<1> HIDE DEF key
<1>6. IsFiniteSet(Keys)
  BY <1>4, <1>5, FS_Surjection
<1>7. RowKeys \in SUBSET Keys
  BY DEF RowKeys
<1> HIDE DEF Keys
<1> QED BY <1>3, <1>6, <1>7, FS_Subset

(* A ranking of a finite set of keys is a sequence of them. *)
LEMMA RankingType ==
    ASSUME NEW S, IsFiniteSet(S), NEW ranking \in SetToSeqs(S)
    PROVE  ranking \in Seq(S)
<1>1. Cardinality(S) \in Nat
  BY FS_CardinalityType
<1>2. ranking \in [1 .. Cardinality(S) -> S]
  BY DEF SetToSeqs
<1> QED BY <1>1, <1>2

-----------------------------------------------------------------------------
(* The inductive invariant. *)

(* The remembered key is that of a row the cursor is on, and from          *)
(* recompute to the next key the cursor is on a row if there is one.       *)
OnRow == IF rows = <<>> THEN table = 0 /\ selectedKey = None
                        ELSE table \in DOMAIN rows /\ rows[table] = selectedKey
CursorInv ==
    /\ table = 0 => selectedKey = None
    /\ step \in {"history", "draw"} => OnRow /\ (group = "identity" => rows \in Seq(Ident))

(* Totals that are not asked for again, and a history that is not, are     *)
(* those of the choices, or an error says that they are not.               *)
ShownInv ==
    /\ refreshed # None => error \/ (storedFor = window /\ todayFor = scope)
    /\ step \in {"recompute", "history", "draw"} => refreshed # None
    /\ historyFor # None => error \/ history = [of |-> historyFor, age |-> "new"]
    /\ step = "draw" => ~NeedsHistory

IInv == TypeOK /\ CursorInv /\ ShownInv

LEMMA NoRows == <<>> \in Seq(Ident \cup Labels) /\ 0 \in 0 .. Len(<<>>)
OBVIOUS

LEMMA InvInit == Init => IInv
<1> SUFFICES ASSUME Init PROVE IInv
  OBVIOUS
<1> USE InteractiveAssumption DEF Init
<1>1. TypeOK
  <2>1. history \in [of : Request \cup {None}, age : {"new", "old"}]
    BY DEF Empty
  <2>2. rows = <<>> /\ table = 0
    OBVIOUS
  <2>3. rows \in Seq(Ident \cup Labels) /\ table \in 0 .. Len(rows)
    BY <2>2, NoRows, Zenon
  <2> QED BY <2>1, <2>3 DEF TypeOK
<1>2. CursorInv /\ ShownInv
  BY DEF CursorInv, OnRow, ShownInv
<1> QED BY <1>1, <1>2 DEF IInv

(* Putting the cursor on a place in a ranking. *)
LEMMA SelectFacts ==
    ASSUME NEW K, NEW ranking \in Seq(K), NEW index \in Nat, Select(index, ranking),
           ranking # <<>> => index \in DOMAIN ranking
    PROVE  /\ table' \in 0 .. Len(ranking)
           /\ selectedKey' \in K \cup {None}
           /\ table' = 0 => selectedKey' = None
           /\ IF ranking = <<>> THEN table' = 0 /\ selectedKey' = None
                                ELSE table' \in DOMAIN ranking /\ ranking[table'] = selectedKey'
BY DEF Select

(* The cursor finds a row in every ranking that has one. *)
LEMMA CursorInRange ==
    ASSUME TypeOK, NEW K, NEW ranking \in Seq(K)
    PROVE  /\ CursorIn(ranking) \in Nat
           /\ ranking # <<>> => CursorIn(ranking) \in DOMAIN ranking
<1>1. CASE Positions(selectedKey, ranking) # {}
  BY <1>1 DEF CursorIn, Positions
<1>2. CASE Positions(selectedKey, ranking) = {}
  <2>1. Len(ranking) \in Nat /\ (ranking # <<>> => Len(ranking) > 0)
    OBVIOUS
  <2>2. rows \in Seq(Ident \cup Labels) /\ table \in 0 .. Len(rows)
    BY DEF TypeOK
  <2>3. table \in Nat
    BY <2>2
  <2> QED BY <1>2, <2>1, <2>3 DEF CursorIn, AtMost, AtLeastOne
<1> QED BY <1>1, <1>2

LEMMA StepInRange ==
    ASSUME TypeOK, NEW by \in Int
    PROVE  /\ StepTo(AtLeastOne(table), by) \in Nat
           /\ rows # <<>> => StepTo(AtLeastOne(table), by) \in DOMAIN rows
<1>1. rows \in Seq(Ident \cup Labels) /\ table \in 0 .. Len(rows)
  BY DEF TypeOK
<1>2. Len(rows) \in Nat /\ DOMAIN rows = 1 .. Len(rows) /\ (rows # <<>> => Len(rows) > 0)
  BY <1>1
<1> QED BY <1>1, <1>2 DEF StepTo, AtMost, AtLeastOne

LEMMA RecomputeStep == IInv /\ Recompute => CursorInv' /\ ShownInv'
<1> SUFFICES ASSUME IInv, Recompute PROVE CursorInv' /\ ShownInv'
  OBVIOUS
<1>1. PICK ranking \in SetToSeqs(RowKeys) : rows' = ranking /\ Select(CursorIn(ranking), ranking)
  BY DEF Recompute
<1>2. ranking \in Seq(RowKeys) /\ RowKeys \subseteq Ident \cup Labels
      /\ (group = "identity" => RowKeys \subseteq Ident)
  BY RowKeysFacts, RankingType DEF IInv, TypeOK
<1>3. ranking \in Seq(Ident \cup Labels) /\ (group = "identity" => ranking \in Seq(Ident))
  BY <1>2
<1>4. CursorIn(ranking) \in Nat /\ (ranking # <<>> => CursorIn(ranking) \in DOMAIN ranking)
  BY <1>3, CursorInRange DEF IInv
<1>5. /\ table' = 0 => selectedKey' = None
      /\ IF ranking = <<>> THEN table' = 0 /\ selectedKey' = None
                           ELSE table' \in DOMAIN ranking /\ ranking[table'] = selectedKey'
  BY <1>1, <1>3, <1>4, SelectFacts
<1>6. group' = group
  BY DEF Recompute, choices
<1>7. CursorInv'
  BY <1>1, <1>3, <1>5, <1>6, Zenon DEF CursorInv, OnRow
<1>8. ShownInv'
  BY DEF Recompute, IInv, ShownInv, choices, totals, series
<1> QED BY <1>7, <1>8

(* TypeOK in three parts, of which most actions disturb one. *)
LoopTyped ==
    /\ step \in {"feed", "refresh", "recompute", "history", "draw", "quit"}
    /\ seen \subseteq Flow
    /\ window \in Window /\ scope \in Scope /\ group \in {"identity", "project"}
    /\ hidden \in Filters /\ filtering \in BOOLEAN
RowsTyped ==
    /\ rows \in Seq(Ident \cup Labels)
    /\ table \in 0 .. Len(rows)
    /\ selectedKey \in {None} \cup Ident \cup Labels
FetchTyped ==
    /\ refreshed \in {None, "just now", "long ago"}
    /\ stored \subseteq Flow
    /\ storedFor \in Window \cup {None} /\ todayFor \in Scope \cup {None}
    /\ error \in BOOLEAN
    /\ historyFor \in Request \cup {None}
    /\ history \in [of : Request \cup {None}, age : {"new", "old"}]

LEMMA TypeParts == (TypeOK <=> LoopTyped /\ RowsTyped /\ FetchTyped)
                   /\ (TypeOK' <=> LoopTyped' /\ RowsTyped' /\ FetchTyped')
BY Zenon DEF TypeOK, LoopTyped, RowsTyped, FetchTyped

LEMMA RowsKept ==
    ASSUME RowsTyped, UNCHANGED <<rows, cursor>> PROVE RowsTyped'
<1>1. rows' = rows /\ table' = table /\ selectedKey' = selectedKey
  BY DEF cursor
<1> QED BY <1>1, Zenon DEF RowsTyped

LEMMA FetchKept ==
    ASSUME FetchTyped, UNCHANGED <<totals, error, series>> PROVE FetchTyped'
<1>1. /\ refreshed' = refreshed /\ stored' = stored /\ storedFor' = storedFor
      /\ todayFor' = todayFor /\ error' = error
      /\ historyFor' = historyFor /\ history' = history
  BY DEF totals, series
<1> QED BY <1>1, Zenon DEF FetchTyped

LEMMA LoopStep == TypeOK /\ [Next]_vars => LoopTyped'
<1> SUFFICES ASSUME LoopTyped, [Next]_vars PROVE LoopTyped'
  BY TypeParts
<1> USE DEF LoopTyped, choices, filter
<1>1. CASE TakeIn
  BY <1>1 DEF TakeIn
<1>2. CASE NotDue \/ Refreshed \/ RefreshFails \/ Recompute
  BY <1>2 DEF NotDue, Refreshed, RefreshFails, BeginRefresh, Recompute
<1>3. CASE NoFetch \/ Fetched \/ FetchFails
  BY <1>3 DEF NoFetch, Fetched, FetchFails
<1>4. CASE ChooseWindow \/ ChooseScope \/ ChooseGroup
  BY <1>4 DEF ChooseWindow, ChooseScope, ChooseGroup, Choose, Key
<1>5. CASE Move \/ NoKey \/ AskAgain
  BY <1>5 DEF Move, NoKey, AskAgain, Key
<1>6. CASE OpenFilter \/ Type \/ CloseFilter
  BY <1>6, InteractiveAssumption DEF OpenFilter, Type, CloseFilter, Key
<1>7. CASE Quit \/ Elapse \/ UNCHANGED vars
  BY <1>7 DEF Quit, Elapse, vars
<1> QED BY <1>1, <1>2, <1>3, <1>4, <1>5, <1>6, <1>7 DEF Next, TickStep, Press

LEMMA RowsStep == TypeOK /\ [Next]_vars => RowsTyped'
<1> SUFFICES ASSUME TypeOK, RowsTyped, [Next]_vars PROVE RowsTyped'
  BY TypeParts
<1>1. CASE Recompute
  <2>1. PICK ranking \in SetToSeqs(RowKeys) :
           rows' = ranking /\ Select(CursorIn(ranking), ranking)
    BY <1>1 DEF Recompute
  <2>2. ranking \in Seq(Ident \cup Labels)
    <3>1. ranking \in Seq(RowKeys) /\ RowKeys \subseteq Ident \cup Labels
      BY RowKeysFacts, RankingType DEF TypeOK
    <3> QED BY <3>1
  <2>3. CursorIn(ranking) \in Nat /\ (ranking # <<>> => CursorIn(ranking) \in DOMAIN ranking)
    BY <2>2, CursorInRange
  <2>4. table' \in 0 .. Len(ranking) /\ selectedKey' \in Ident \cup Labels \cup {None}
    BY <2>1, <2>2, <2>3, SelectFacts
  <2> QED BY <2>1, <2>2, <2>4 DEF RowsTyped
<1>2. CASE Move
  <2>1. PICK by \in Moves : Select(StepTo(AtLeastOne(table), by), rows)
    BY <1>2 DEF Move
  <2>2. rows \in Seq(Ident \cup Labels) /\ by \in Int /\ rows' = rows
    BY <1>2, InteractiveAssumption DEF Move, RowsTyped
  <2>3. /\ StepTo(AtLeastOne(table), by) \in Nat
        /\ rows # <<>> => StepTo(AtLeastOne(table), by) \in DOMAIN rows
    BY <2>2, StepInRange
  <2>4. table' \in 0 .. Len(rows) /\ selectedKey' \in Ident \cup Labels \cup {None}
    BY <2>1, <2>2, <2>3, SelectFacts
  <2> QED BY <2>2, <2>4 DEF RowsTyped
<1>3. CASE ChooseWindow \/ ChooseScope \/ ChooseGroup
  <2>1. table' = 0 /\ selectedKey' = None /\ rows' = rows
    BY <1>3 DEF ChooseWindow, ChooseScope, ChooseGroup, Choose
  <2> QED BY <2>1 DEF RowsTyped
<1>4. CASE TakeIn \/ NotDue \/ Refreshed \/ RefreshFails \/ NoFetch \/ Fetched \/ FetchFails
  <2>1. UNCHANGED <<rows, cursor>>
    BY <1>4 DEF TakeIn, NotDue, Refreshed, RefreshFails, BeginRefresh, NoFetch, Fetched,
       FetchFails
  <2> QED BY <2>1, RowsKept
<1>5. CASE NoKey \/ OpenFilter \/ Type \/ CloseFilter \/ AskAgain
  <2>1. UNCHANGED <<rows, cursor>>
    BY <1>5 DEF NoKey, OpenFilter, Type, CloseFilter, AskAgain
  <2> QED BY <2>1, RowsKept
<1>6. CASE Quit \/ Elapse \/ UNCHANGED vars
  <2>1. UNCHANGED <<rows, cursor>>
    BY <1>6 DEF Quit, Elapse, vars
  <2> QED BY <2>1, RowsKept
<1> QED BY <1>1, <1>2, <1>3, <1>4, <1>5, <1>6 DEF Next, TickStep, Press

(* What a history is fetched for is a request. *)
LEMMA WantedType ==
    ASSUME TypeOK, SelectedIdentity # None, group = "identity" => rows \in Seq(Ident)
    PROVE  Wanted \in Request
<1>1. group = "identity" /\ table \in DOMAIN rows /\ SelectedIdentity = rows[table]
  BY DEF SelectedIdentity
<1>2. SelectedIdentity \in Ident
  <2>1. rows \in Seq(Ident)
    BY <1>1
  <2> QED BY <1>1, <2>1
<1>3. window \in Window /\ scope \in Scope
  BY TypeParts DEF LoopTyped
<1> QED BY <1>2, <1>3 DEF Wanted, Request

LEMMA FetchStep == IInv /\ [Next]_vars => FetchTyped'
<1> SUFFICES ASSUME IInv, TypeOK, LoopTyped, FetchTyped, [Next]_vars PROVE FetchTyped'
  BY TypeParts DEF IInv
<1>1. CASE Refreshed \/ RefreshFails
  <2>1. refreshed' = "just now" /\ historyFor' = None /\ history' = [history EXCEPT !.age = "old"]
    BY <1>1 DEF Refreshed, RefreshFails, BeginRefresh
  <2>2. history' \in [of : Request \cup {None}, age : {"new", "old"}]
    BY <2>1 DEF FetchTyped
  <2>3. /\ stored' \subseteq Flow /\ error' \in BOOLEAN
        /\ storedFor' \in Window \cup {None} /\ todayFor' \in Scope \cup {None}
    BY <1>1 DEF Refreshed, RefreshFails, FetchTyped, LoopTyped
  <2> QED BY <2>1, <2>2, <2>3 DEF FetchTyped
<1>2. CASE Fetched \/ FetchFails
  <2>1. Wanted \in Request
    <3>1. SelectedIdentity # None /\ step = "history"
      BY <1>2 DEF Fetched, FetchFails, NeedsHistory
    <3>2. group = "identity" => rows \in Seq(Ident)
      BY <3>1 DEF IInv, CursorInv
    <3> QED BY <3>1, <3>2, WantedType
  <2>2. /\ historyFor' = Wanted /\ error' \in BOOLEAN
        /\ refreshed' = refreshed /\ stored' = stored /\ storedFor' = storedFor
        /\ todayFor' = todayFor
    BY <1>2 DEF Fetched, FetchFails, totals, FetchTyped
  <2>3. history' = [of |-> Wanted, age |-> "new"] \/ history' = [of |-> None, age |-> "new"]
    BY <1>2, Zenon DEF Fetched, FetchFails, Empty
  <2>4. history' \in [of : Request \cup {None}, age : {"new", "old"}]
    BY <2>1, <2>3
  <2> QED BY <2>1, <2>2, <2>4 DEF FetchTyped
<1>3. CASE ChooseWindow \/ ChooseScope \/ ChooseGroup \/ AskAgain \/ Elapse
  <2>1. /\ refreshed' \in {refreshed, None, "long ago"}
        /\ stored' = stored /\ storedFor' = storedFor /\ todayFor' = todayFor
        /\ error' = error /\ historyFor' = historyFor /\ history' = history
    BY <1>3 DEF ChooseWindow, ChooseScope, ChooseGroup, Choose, AskAgain, Elapse, series
  <2>2. refreshed' \in {None, "just now", "long ago"}
    BY <2>1 DEF FetchTyped
  <2> QED BY <2>1, <2>2, Zenon DEF FetchTyped
<1>4. CASE TakeIn \/ NotDue \/ Recompute \/ NoFetch
  <2>1. UNCHANGED <<totals, error, series>>
    BY <1>4 DEF TakeIn, NotDue, Recompute, NoFetch
  <2> QED BY <2>1, FetchKept
<1>5. CASE NoKey \/ Move \/ OpenFilter \/ Type \/ CloseFilter
  <2>1. UNCHANGED <<totals, error, series>>
    BY <1>5 DEF NoKey, Move, OpenFilter, Type, CloseFilter
  <2> QED BY <2>1, FetchKept
<1>6. CASE Quit \/ UNCHANGED vars
  <2>1. UNCHANGED <<totals, error, series>>
    BY <1>6 DEF Quit, vars
  <2> QED BY <2>1, FetchKept
<1> QED BY <1>1, <1>2, <1>3, <1>4, <1>5, <1>6 DEF Next, TickStep, Press

LEMMA TypeStep == IInv /\ [Next]_vars => TypeOK'
BY LoopStep, RowsStep, FetchStep, TypeParts DEF IInv

(* The cursor and the rows stay, and are looked at no earlier than before. *)
LEMMA CursorKept ==
    ASSUME CursorInv, UNCHANGED <<rows, cursor, group>>,
           step' \in {"history", "draw"} => step \in {"history", "draw"}
    PROVE  CursorInv'
<1>1. rows' = rows /\ table' = table /\ selectedKey' = selectedKey /\ group' = group
  BY DEF cursor
<1> QED BY <1>1, Zenon DEF CursorInv, OnRow

LEMMA CursorStep == IInv /\ [Next]_vars => CursorInv'
<1> SUFFICES ASSUME IInv, CursorInv, [Next]_vars PROVE CursorInv'
  BY DEF IInv
<1> USE DEF choices
<1>1. CASE TakeIn \/ NotDue \/ Refreshed \/ RefreshFails
  <2>1. UNCHANGED <<rows, cursor, group>> /\ step' \in {"refresh", "recompute"}
    BY <1>1 DEF TakeIn, NotDue, Refreshed, RefreshFails, BeginRefresh
  <2> QED BY <2>1, CursorKept
<1>2. CASE Recompute
  BY <1>2, RecomputeStep
<1>3. CASE NoFetch \/ Fetched \/ FetchFails
  <2>1. UNCHANGED <<rows, cursor, group>> /\ step = "history"
    BY <1>3 DEF NoFetch, Fetched, FetchFails
  <2> QED BY <2>1, CursorKept
<1>4. CASE Move
  <2>1. PICK by \in Moves : Select(StepTo(AtLeastOne(table), by), rows)
    BY <1>4 DEF Move
  <2>2. rows \in Seq(Ident \cup Labels) /\ by \in Int
    BY InteractiveAssumption DEF IInv, TypeOK
  <2>3. /\ StepTo(AtLeastOne(table), by) \in Nat
        /\ rows # <<>> => StepTo(AtLeastOne(table), by) \in DOMAIN rows
    BY <2>2, StepInRange DEF IInv
  <2>4. table' = 0 => selectedKey' = None
    BY <2>1, <2>2, <2>3, SelectFacts
  <2>5. step' = "feed"
    BY <1>4 DEF Move, Key
  <2> QED BY <2>4, <2>5 DEF CursorInv
<1>5. CASE ChooseWindow \/ ChooseScope \/ ChooseGroup
  BY <1>5 DEF ChooseWindow, ChooseScope, ChooseGroup, Choose, Key, CursorInv
<1>6. CASE NoKey \/ OpenFilter \/ Type \/ CloseFilter \/ AskAgain \/ Quit
  <2>1. UNCHANGED <<rows, cursor, group>> /\ step' \in {"feed", "quit"}
    BY <1>6 DEF NoKey, OpenFilter, Type, CloseFilter, AskAgain, Key, Quit
  <2> QED BY <2>1, CursorKept
<1>7. CASE Elapse \/ UNCHANGED vars
  <2>1. UNCHANGED <<rows, cursor, group>> /\ step' = step
    BY <1>7 DEF Elapse, vars
  <2> QED BY <2>1, CursorKept
<1> QED
  BY <1>1, <1>2, <1>3, <1>4, <1>5, <1>6, <1>7 DEF Next, TickStep, Press

LEMMA ShownStep == IInv /\ [Next]_vars => ShownInv'
<1> SUFFICES ASSUME IInv, [Next]_vars PROVE ShownInv'
  OBVIOUS
<1> USE InteractiveAssumption
    DEF ShownInv, choices, filter, cursor, totals, series, NeedsHistory, Wanted, SelectedIdentity
<1>0. ShownInv
  BY DEF IInv
<1>1. CASE TakeIn \/ NotDue
  BY <1>0, <1>1 DEF TakeIn, NotDue, Due
<1>2. CASE Refreshed \/ RefreshFails
  BY <1>0, <1>2 DEF Refreshed, RefreshFails, BeginRefresh
<1>3. CASE Recompute
  BY <1>3, RecomputeStep
<1>4. CASE NoFetch \/ Fetched \/ FetchFails
  BY <1>0, <1>4 DEF NoFetch, Fetched, FetchFails
<1>5. CASE Press
  BY <1>0, <1>5 DEF Press, NoKey, ChooseWindow, ChooseScope, ChooseGroup, Choose, Move,
     OpenFilter, Type, CloseFilter, AskAgain, Key
<1>6. CASE Quit \/ Elapse \/ UNCHANGED vars
  BY <1>0, <1>6 DEF Quit, Elapse, vars
<1> QED
  BY <1>1, <1>2, <1>3, <1>4, <1>5, <1>6 DEF Next, TickStep

LEMMA InvStep == IInv /\ [Next]_vars => IInv'
BY TypeStep, CursorStep, ShownStep DEF IInv

LEMMA Invariant == Spec => []IInv
BY InvInit, InvStep, PTL DEF Spec

-----------------------------------------------------------------------------
(* The theorems. *)

(* Every field of App keeps its type, the cursor within the rows. *)
THEOREM TypeCorrect == Spec => []TypeOK
<1>1. IInv => TypeOK
  BY DEF IInv
<1> QED BY <1>1, Invariant, PTL

(* A frame without an error shows the totals and the history of what is    *)
(* chosen (tui.rs App::tick, refresh, fetch_history, choose).              *)
THEOREM ShowsTheChoice == Spec => []ShownIsChosen
<1>1. IInv => ShownIsChosen
  <2> SUFFICES ASSUME IInv, step = "draw", ~error PROVE ShownIsChosen
    BY DEF ShownIsChosen
  <2>1. storedFor = window /\ todayFor = scope
    BY DEF IInv, ShownInv
  <2>2. ASSUME window # Live, SelectedIdentity # None
        PROVE  history = [of |-> Wanted, age |-> "new"]
    <3>1. historyFor = Wanted
      BY <2>2 DEF IInv, ShownInv, NeedsHistory
    <3>2. Wanted \in Request
      BY <2>2, WantedType DEF IInv, CursorInv
    <3> QED BY <3>1, <3>2, InteractiveAssumption DEF IInv, ShownInv
  <2> QED BY <2>1, <2>2 DEF ShownIsChosen
<1> QED BY <1>1, Invariant, PTL

(* The cursor of a frame is on the row whose key it remembers (tui.rs      *)
(* recompute, select, step).                                               *)
THEOREM CursorIsOnRow == Spec => []CursorOnRow
<1>1. IInv => CursorOnRow
  BY DEF IInv, CursorInv, OnRow, CursorOnRow
<1> QED BY <1>1, Invariant, PTL

(* Only recompute moves the cursor unasked, and only when its row is gone. *)
LEMMA RecomputeFollows ==
    ASSUME IInv, Recompute, selectedKey' # selectedKey, selectedKey # None
    PROVE  Positions(selectedKey, rows') = {} /\ table' = AtMost(table, Len(rows'))
<1>1. PICK ranking \in SetToSeqs(RowKeys) : rows' = ranking /\ Select(CursorIn(ranking), ranking)
  BY DEF Recompute
<1>2. ranking \in Seq(Ident \cup Labels)
  <2>1. ranking \in Seq(RowKeys) /\ RowKeys \subseteq Ident \cup Labels
    BY RowKeysFacts, RankingType DEF IInv, TypeOK
  <2> QED BY <2>1
<1>3. rows \in Seq(Ident \cup Labels) /\ table \in 0 .. Len(rows) /\ table # 0
  BY DEF IInv, TypeOK, CursorInv
<1>4. Positions(selectedKey, ranking) = {}
  <2> SUFFICES ASSUME Positions(selectedKey, ranking) # {} PROVE FALSE
    OBVIOUS
  <2>1. CursorIn(ranking) \in DOMAIN ranking /\ ranking[CursorIn(ranking)] = selectedKey
    BY DEF CursorIn, Positions
  <2>2. ranking # <<>>
    BY <2>1
  <2>3. selectedKey' = selectedKey
    BY <1>1, <2>1, <2>2 DEF Select
  <2> QED BY <2>3
<1>5. CursorIn(ranking) = AtMost(table, Len(ranking))
  BY <1>3, <1>4 DEF CursorIn, AtLeastOne
<1>6. table' = AtMost(table, Len(ranking))
  <2>1. CASE ranking = <<>>
    BY <1>1, <1>3, <2>1 DEF Select, AtMost
  <2>2. CASE ranking # <<>>
    BY <1>1, <1>5, <2>2 DEF Select
  <2> QED BY <2>1, <2>2
<1> QED BY <1>1, <1>4, <1>6

(* The cursor follows its row through every ranking, filter and refresh.   *)
THEOREM CursorKeepsRow == Spec => CursorFollows
<1> DEFINE Follows ==
      selectedKey' # selectedKey /\ selectedKey # None =>
         \/ ChooseWindow \/ ChooseScope \/ ChooseGroup \/ Move
         \/ Positions(selectedKey, rows') = {} /\ table' = AtMost(table, Len(rows'))
<1>1. IInv /\ [Next]_vars => [Follows]_vars
  <2> SUFFICES ASSUME IInv, Next, selectedKey' # selectedKey, selectedKey # None
               PROVE  Follows
    BY DEF vars
  <2> USE DEF cursor
  <2>1. CASE Recompute
    BY <2>1, RecomputeFollows
  <2>2. CASE TakeIn \/ NotDue \/ Refreshed \/ RefreshFails \/ NoFetch \/ Fetched \/ FetchFails
    BY <2>2 DEF TakeIn, NotDue, Refreshed, RefreshFails, BeginRefresh, NoFetch, Fetched, FetchFails
  <2>3. CASE NoKey \/ OpenFilter \/ Type \/ CloseFilter \/ AskAgain \/ Quit \/ Elapse
    BY <2>3 DEF NoKey, OpenFilter, Type, CloseFilter, AskAgain, Quit, Elapse
  <2>4. CASE ChooseWindow \/ ChooseScope \/ ChooseGroup \/ Move
    BY <2>4
  <2> QED BY <2>1, <2>2, <2>3, <2>4 DEF Next, TickStep, Press
<1>2. IInv /\ [Next]_vars => [selectedKey' # selectedKey /\ selectedKey # None =>
         \/ ChooseWindow \/ ChooseScope \/ ChooseGroup \/ Move
         \/ Positions(selectedKey, rows') = {} /\ table' = AtMost(table, Len(rows'))]_vars
  BY <1>1
<1> QED BY <1>2, Invariant, PTL DEF Spec, CursorFollows

=============================================================================
