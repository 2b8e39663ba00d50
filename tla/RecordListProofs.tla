--------------------------- MODULE RecordListProofs ---------------------------
(***************************************************************************)
(* Proofs about RecordList, for any texts, filters, page sizes, runs and     *)
(* inputs: rows are only shown under the conditions, the order and the page  *)
(* size that they were asked for; a list at rest shows its page of current   *)
(* data, and one that is busy waits for something.                         *)
(*                                                                         *)
(* The component does not compare a result with its conditions.  It relies   *)
(* on the session key: what is under way and what has come belong to the     *)
(* session of the navigation, and this session changes only in an effect,    *)
(* which cancels what is under way, or at the end of a poll, whose callback  *)
(* saw the same session.                                                   *)
(***************************************************************************)
EXTENDS RecordList, TLAPS

Fields == {"q", "appliedQ", "draft", "searchError", "conditions", "version", "limit", "sort",
           "navigation", "retry", "loading", "result", "error", "capability", "sync", "run",
           "answers", "syncError", "submitting", "refresh"}

IsUi(u) == DOMAIN u = Fields /\ DOMAIN u.navigation = {"key", "page", "target", "version"}

(* What was asked for in the session with this key.                        *)
Belongs(x, key) == x.limit = key[1] /\ x.conditions = key[2] /\ x.sort = key[4]

(* A result belongs to the session of the navigation it is kept with.       *)
Owned(u) == u.result # Null => Belongs(u.result, u.navigation.key)

(* Nothing was asked for yet.                                              *)
Fresh == due /\ CurrentSession(shown) /\ listing = Null /\ poll = "none"

(* The session of the navigation is the one that the effects ran for last,   *)
(* and so is that of whatever is under way.                                *)
Followed ==
    /\ ran.list[1] = ui.navigation.key /\ ran.poll[1] = ui.navigation.key
    /\ poll # "none" => pollKey = ui.navigation.key

IInv ==
    /\ IsUi(ui) /\ IsUi(shown)
    /\ Owned(ui) /\ Owned(shown)
    /\ due => shown.navigation.key = ui.navigation.key
    /\ listing # Null => Belongs(listing, ui.navigation.key)
    /\ Fresh \/ Followed

(* A step that leaves effects, requests and the session alone.              *)
LEMMA Keeps ==
    ASSUME IInv, IsUi(ui'), Owned(ui'),
           ui'.navigation.key = ui.navigation.key,
           UNCHANGED <<shown, due, ran, pollKey>>,
           listing' = listing \/ listing' = Null,
           poll = "none" => poll' = "none"
    PROVE  IInv'
  <1>1. IsUi(shown)' /\ Owned(shown)' /\ IsUi(ui)' /\ Owned(ui)'
    BY DEF IInv, IsUi, Owned
  <1>2. Fresh => Fresh'
    BY DEF Fresh, CurrentSession, Key
  <1>3. Followed => Followed'
    BY DEF Followed
  <1>4. (due => shown.navigation.key = ui.navigation.key)'
    BY DEF IInv
  <1>5. (listing # Null => Belongs(listing, ui.navigation.key))'
    BY DEF IInv
  <1>. QED  BY <1>1, <1>2, <1>3, <1>4, <1>5 DEF IInv

(* A change that keeps the result and the session of the navigation.        *)
LEMMA SameResult ==
    ASSUME NEW u, NEW v, IsUi(u), Owned(u), DOMAIN v = Fields,
           DOMAIN v.navigation = DOMAIN u.navigation,
           v.navigation.key = u.navigation.key, v.result = u.result
    PROVE  IsUi(v) /\ Owned(v)
  BY DEF IsUi, Owned

LEMMA Initially == Init => IInv
  <1>. SUFFICES ASSUME Init PROVE IInv
    OBVIOUS
  <1>. DEFINE new == NewUi(DefaultSize)
  <1>1. ui = new /\ shown = new /\ due /\ listing = Null /\ poll = "none"
    BY DEF Init
  <1>2. IsUi(new)
    BY DEF NewUi, IsUi, Fields, Reset
  <1>3. new.result = Null /\ new.navigation.key = Key(new)
    BY DEF NewUi, Reset, Key
  <1>. HIDE DEF new
  <1>. QED  BY <1>1, <1>2, <1>3 DEF IInv, Owned, Fresh, CurrentSession

LEMMA Rendering == IInv /\ Render => IInv'
  <1>. SUFFICES ASSUME IInv, Render PROVE IInv'
    OBVIOUS
  <1>1. shown' = ui /\ UNCHANGED <<ui, ran, listing, poll, pollKey>> /\ ~due
    BY DEF Render
  <1>2. Followed
    BY <1>1 DEF IInv, Fresh
  <1>3. Followed'
    BY <1>1, <1>2 DEF Followed
  <1>. QED  BY <1>1, <1>3 DEF IInv, IsUi, Owned

(* The effects bring the navigation to the session that is shown.           *)
LEMMA Effects == IInv /\ RunEffects => IInv'
  <1>. SUFFICES ASSUME IInv, RunEffects PROVE IInv'
    OBVIOUS
  <1>. DEFINE asked == AfterCapabilityEffect(ui)
  <1>1. IsUi(asked) /\ Owned(asked) /\ asked.navigation = ui.navigation
    BY DEF IInv, IsUi, Fields, Owned, AfterCapabilityEffect
  <1>2. /\ due /\ ~due' /\ shown' = shown
        /\ ran'.list[1] = Key(shown) /\ ran'.poll[1] = Key(shown)
    BY DEF RunEffects, Dependencies
  <1>3. shown.navigation.key = ui.navigation.key
    BY <1>2 DEF IInv
  <1>4. ui' = AfterListEffect(asked)
    BY DEF RunEffects
  <1>5. IsUi(ui') /\ Owned(ui')
    <2>. HIDE DEF asked
    <2>. QED  BY <1>1, <1>4 DEF AfterListEffect, IsUi, Fields, Owned, Reset
  <1>6. ui'.navigation.key = Key(shown)
    <2>1. CASE ~Changed("list") /\ Followed
      <3>1. ran.list[1] = Key(shown)
        BY <2>1 DEF Changed, Dependencies
      <3>. QED  BY <1>1, <1>4, <2>1, <3>1 DEF AfterListEffect, Followed
    <2>2. CASE ~Changed("list") /\ Fresh
      BY <1>1, <1>3, <1>4, <2>2 DEF AfterListEffect, Fresh, CurrentSession
    <2>3. CASE Changed("list") /\ CurrentSession(shown)
      BY <1>1, <1>3, <1>4, <2>3 DEF AfterListEffect, CurrentSession, IsUi, Fields
    <2>4. CASE Changed("list") /\ ~CurrentSession(shown)
      <3>. HIDE DEF asked
      <3>. QED  BY <1>1, <1>4, <2>4 DEF AfterListEffect, IsUi, Fields, Reset
    <2>. QED  BY <2>1, <2>2, <2>3, <2>4 DEF IInv
  <1>7. listing' # Null => Belongs(listing', Key(shown))
    <2>1. CASE Changed("list")
      BY <2>1 DEF RunEffects, Asked, Belongs, Key
    <2>2. CASE ~Changed("list")
      <3>1. listing' = listing
        BY <2>2 DEF RunEffects
      <3>2. ui'.navigation = ui.navigation
        BY <1>1, <1>4, <2>2 DEF AfterListEffect
      <3>. QED  BY <1>6, <3>1, <3>2 DEF IInv
    <2>. QED  BY <2>1, <2>2
  <1>8. poll' # "none" => pollKey' = Key(shown)
    <2>1. CASE Changed("poll")
      BY <2>1 DEF RunEffects
    <2>2. CASE ~Changed("poll") /\ Followed
      BY <2>2 DEF RunEffects, Followed, Changed, Dependencies
    <2>3. CASE ~Changed("poll") /\ Fresh
      BY <2>3 DEF RunEffects, Fresh
    <2>. QED  BY <2>1, <2>2, <2>3 DEF IInv
  <1>. QED  BY <1>2, <1>5, <1>6, <1>7, <1>8 DEF IInv, Followed, IsUi, Owned

LEMMA Acting == IInv /\ UserActs => IInv'
  <1>. SUFFICES ASSUME IInv, UserActs PROVE IInv'
    OBVIOUS
  <1>1. /\ UNCHANGED <<shown, due, ran, listing, poll, pollKey>>
        /\ DOMAIN ui' = Fields /\ ui'.result = ui.result
        /\ DOMAIN ui'.navigation = DOMAIN ui.navigation
        /\ ui'.navigation.key = ui.navigation.key
    <2>1. DOMAIN ui = Fields /\ DOMAIN ui.navigation = {"key", "page", "target", "version"}
      BY DEF IInv, IsUi
    <2>2. CASE \E text \in Text : SetQ(text)
      BY <2>1, <2>2 DEF SetQ, Input, Fields
    <2>3. CASE \E draft \in Draft : UpdateFilter(draft)
      BY <2>1, <2>3 DEF UpdateFilter, Applied, Input, Fields
    <2>4. CASE SubmitSearch \/ ClearSearch
      BY <2>1, <2>4 DEF SubmitSearch, ClearSearch, Applied, Input, Fields
    <2>5. CASE ChangeSort \/ Retry \/ BeginSync \/ \E limit \in PageSize : ChangeLimit(limit)
      BY <2>1, <2>5 DEF ChangeSort, Retry, BeginSync, ChangeLimit, Input, Fields
    <2>6. CASE \E page \in 1..MaxPages : ChangePage(page)
      <3>1. PICK page :
              ui' = [ui EXCEPT !.error = FALSE, !.navigation.target = page,
                               !.navigation.version = @ + 1]
        BY <2>6 DEF ChangePage, Input
      <3>2. UNCHANGED <<shown, due, ran, listing, poll, pollKey>>
        BY <2>6 DEF ChangePage, Input
      <3>3. DOMAIN ui' = Fields /\ ui'.result = ui.result
        BY <2>1, <3>1 DEF Fields
      <3>4. ui'.navigation = [ui.navigation EXCEPT !.target = page, !.version = @ + 1]
        BY <2>1, <3>1 DEF Fields
      <3>5. DOMAIN ui'.navigation = DOMAIN ui.navigation /\ ui'.navigation.key = ui.navigation.key
        BY <2>1, <3>4
      <3>. QED  BY <3>2, <3>3, <3>5
    <2>. QED  BY <2>2, <2>3, <2>4, <2>5, <2>6 DEF UserActs
  <1>2. IsUi(ui') /\ Owned(ui')
    BY <1>1, SameResult DEF IInv
  <1>. QED  BY <1>1, <1>2, Keeps

LEMMA Answering == IInv /\ Answered => IInv'
  <1>. SUFFICES ASSUME IInv, Answered PROVE IInv'
    OBVIOUS
  <1>1. DOMAIN ui = Fields /\ DOMAIN ui.navigation = {"key", "page", "target", "version"}
    BY DEF IInv, IsUi
  <1>2. CASE ListAnswered
    <2>1. PICK page, pages :
            ui' = [ui EXCEPT !.result = Result(listing, page, pages), !.loading = FALSE,
                             !.navigation.page = page, !.navigation.target = Null]
      BY <1>2 DEF ListAnswered, Callback
    <2>2. listing # Null /\ listing' = Null /\ UNCHANGED <<shown, due, ran, poll, pollKey>>
      BY <1>2 DEF ListAnswered, Callback
    <2>3. /\ IsUi(ui') /\ ui'.navigation.key = ui.navigation.key
          /\ ui'.result = Result(listing, page, pages)
      BY <1>1, <2>1 DEF IsUi, Fields
    <2>4. Belongs(Result(listing, page, pages), ui.navigation.key)
      BY <2>2 DEF IInv, Result, Belongs
    <2>. QED  BY <2>2, <2>3, <2>4, Keeps DEF Owned
  <1>3. CASE PollEnded
    <2>1. pollKey = ui.navigation.key /\ ui' = SyncOver(ui)
      BY <1>3 DEF IInv, Fresh, Followed, PollEnded, Callback
    <2>2. IsUi(ui') /\ ui'.result = Null /\ ui'.navigation.key = ui.navigation.key
      BY <1>1, <2>1 DEF SyncOver, Reset, IsUi, Fields
    <2>3. UNCHANGED <<shown, due, ran, pollKey, listing>> /\ poll # "none"
      BY <1>3 DEF PollEnded, Callback
    <2>. QED  BY <2>2, <2>3, Keeps DEF Owned
  <1>4. CASE ListFailed \/ CapabilityAnswered \/ SyncAccepted \/ SyncRefused \/ PollTimer
                \/ StillRunning \/ PollFailed
    <2>1. /\ DOMAIN ui' = Fields /\ ui'.result = ui.result /\ ui'.navigation = ui.navigation
          /\ UNCHANGED <<shown, due, ran, pollKey>>
          /\ listing' = listing \/ listing' = Null
          /\ poll = "none" => poll' = "none"
      BY <1>1, <1>4 DEF ListFailed, CapabilityAnswered, SyncAccepted, SyncRefused, PollTimer,
            StillRunning, PollFailed, Callback, Submitted, Follow, NotAgain, Fields
    <2>2. IsUi(ui') /\ Owned(ui')
      BY <2>1, SameResult DEF IInv
    <2>. QED  BY <2>1, <2>2, Keeps
  <1>. QED  BY <1>2, <1>3, <1>4 DEF Answered

-----------------------------------------------------------------------------
(* The inductive invariant holds.                                          *)
THEOREM Invariance == Spec => []IInv
  <1>1. IInv /\ [Next]_vars => IInv'
    <2>. SUFFICES ASSUME IInv, [Next]_vars PROVE IInv'
      OBVIOUS
    <2>1. CASE OtherStarts \/ RunEnds \/ UNCHANGED vars
      <3>1. UNCHANGED <<ui, shown, due, ran, listing, poll, pollKey>>
        BY <2>1 DEF OtherStarts, RunEnds, vars
      <3>2. IsUi(ui') /\ Owned(ui')
        BY <3>1 DEF IInv
      <3>. QED  BY <3>1, <3>2, Keeps
    <2>. QED  BY <2>1, Rendering, Effects, Acting, Answering DEF Next
  <1>. QED  BY Initially, <1>1, PTL DEF Spec

(* Rows are shown only under what they were asked for with.                 *)
THEOREM RowsBelong == Spec => []RowsMatchConditions
  <1>1. IInv => RowsMatchConditions
    BY DEF IInv, Owned, RowsMatchConditions, VisibleResult, CurrentSession, Key, Belongs
  <1>. QED  BY Invariance, <1>1, PTL

-----------------------------------------------------------------------------
(* The second layer: what is under way brings the list to rest.             *)

(* Dependencies of the effect that loads the list.                          *)
Load(u) == <<Key(u), u.navigation.version, u.navigation.key, u.retry>>

Typed(u) ==
    /\ u.q \in Text /\ u.appliedQ \in Text /\ u.draft \in Draft
    /\ u.conditions \in Text \X Draft /\ u.limit \in PageSize /\ u.sort \in Sort
    /\ u.version \in Nat /\ u.retry \in Nat /\ u.navigation.version \in Nat
    /\ u.navigation.page \in 1..MaxPages
    /\ u.navigation.target \in 1..MaxPages \union {Null}

(* The state never returns to what is shown by counting: a version that was  *)
(* reset comes with a new session or another retry.                         *)
Ahead ==
    /\ ui.version >= shown.version /\ ui.retry >= shown.retry
    /\ ui.retry = shown.retry /\ ui.navigation.key = shown.navigation.key =>
            ui.navigation.version >= shown.navigation.version

Waiting(u) == u.loading \/ (u.navigation.target # Null /\ ~u.error)

(* Nobody has to load anything but the request under way, and neither it nor *)
(* the rows it left in place are older than the last run seen to end.       *)
AtRest ==
    /\ CurrentSession(ui)
    /\ Waiting(ui) => listing # Null
    /\ listing # Null => listing.at >= seen
    /\ ui.result # Null /\ ~ui.loading /\ ~ui.error => ui.result.at >= seen

JInv ==
    /\ Typed(ui) /\ Typed(shown)
    /\ stored \in 0..MaxRuns /\ seen \in 0..stored
    /\ Ahead
    /\ ~due => ran = Dependencies(shown)
    /\ \A u \in {ui, shown} : u.result # Null => u.result.page = u.navigation.page
    /\ ran.list = Load(shown) => Load(ui) # Load(shown) \/ AtRest

(* The effect's dependencies say whether the session is current.            *)
LEMMA LoadSays ==
    /\ \A u : Dependencies(u).list = Load(u)
    /\ \A u, v : Load(u) = Load(v) => (CurrentSession(u) <=> CurrentSession(v))
  BY DEF Dependencies, Load, CurrentSession

(* What is asked for is no Null.                                            *)
LEMMA AskedIsRequest ==
    ASSUME NEW u, Typed(u), stored \in 0..MaxRuns
    PROVE  Asked(u) # Null /\ Asked(u).at = stored
  BY NullAssumption DEF Typed, Asked, Request

LEMMA InitiallyJ == Init => JInv
  <1>. SUFFICES ASSUME Init PROVE JInv
    OBVIOUS
  <1>. DEFINE new == NewUi(DefaultSize)
  <1>1. ui = new /\ shown = new /\ due /\ ran.list = <<>> /\ stored = 0 /\ seen = 0
    BY DEF Init
  <1>2. Typed(new)
    BY TextAssumption, SizeAssumption, DraftAssumption, BoundAssumption
    DEF NewUi, Typed, Reset, Conditions, Sort
  <1>3. new.result = Null
    BY DEF NewUi
  <1>. HIDE DEF new
  <1>4. Load(new) # <<>>
    BY DEF Load
  <1>5. Ahead
    BY <1>1, <1>2 DEF Typed, Ahead
  <1>. QED  BY <1>1, <1>2, <1>3, <1>4, <1>5, BoundAssumption DEF JInv

LEMMA RenderingJ == IInv /\ JInv /\ Render => JInv'
  <1>. SUFFICES ASSUME IInv, JInv, Render PROVE JInv'
    OBVIOUS
  <1>1. /\ ~due /\ shown' = ui /\ due' = (Dependencies(ui) # ran)
        /\ UNCHANGED <<ui, ran, listing, stored, seen>>
    BY DEF Render
  <1>2. ran = Dependencies(shown) /\ ran.list = Load(shown)
    BY <1>1, LoadSays DEF JInv
  <1>3. Typed(ui)' /\ Typed(shown)' /\ stored' \in 0..MaxRuns /\ seen' \in 0..stored'
    BY <1>1 DEF JInv, Typed
  <1>4. Ahead'
    BY <1>1 DEF JInv, Ahead, Typed
  <1>5. (~due => ran = Dependencies(shown))'
    BY <1>1 DEF Dependencies, Key
  <1>6. ran.list' = Load(shown') => AtRest'
    <2>1. Load(ui) = Load(shown) => AtRest
      BY <1>2 DEF JInv
    <2>2. AtRest => AtRest'
      BY <1>1 DEF AtRest, CurrentSession, Key, Waiting
    <2>. QED  BY <1>1, <1>2, <2>1, <2>2
  <1>7. (\A u \in {ui, shown} : u.result # Null => u.result.page = u.navigation.page)'
    BY <1>1 DEF JInv
  <1>. QED  BY <1>1, <1>3, <1>4, <1>5, <1>6, <1>7 DEF JInv, Load, Key

(* The effect asks for the list of the session that is shown, or brings the  *)
(* navigation to it, which is another reason to run.                        *)
LEMMA EffectsJ == IInv /\ JInv /\ RunEffects => JInv'
  <1>. SUFFICES ASSUME IInv, JInv, RunEffects PROVE JInv'
    OBVIOUS
  <1>. DEFINE asked == AfterCapabilityEffect(ui)
  <1>1. /\ IsUi(asked) /\ Typed(asked)
        /\ asked.navigation = ui.navigation /\ asked.result = ui.result
        /\ asked.version = ui.version /\ asked.retry = ui.retry
        /\ asked.loading = ui.loading /\ asked.error = ui.error
        /\ Load(asked) = Load(ui) /\ CurrentSession(asked) = CurrentSession(ui)
    BY DEF IInv, JInv, IsUi, Fields, Typed, AfterCapabilityEffect, Load, Key, CurrentSession
  <1>2. /\ ~due' /\ UNCHANGED <<shown, stored, seen>> /\ ran' = Dependencies(shown)
        /\ ui' = AfterListEffect(asked)
        /\ listing' = IF ~Changed("list") THEN listing
                      ELSE IF CurrentSession(shown) THEN Asked(shown) ELSE Null
    BY DEF RunEffects
  <1>3. ran'.list = Load(shown) /\ Changed("list") = (Load(shown) # ran.list)
    BY <1>2, LoadSays DEF Changed
  <1>. HIDE DEF asked
  <1>4. CASE ~Changed("list")
    <2>1. ui' = asked /\ listing' = listing /\ ran.list = Load(shown)
      BY <1>2, <1>3, <1>4 DEF AfterListEffect
    <2>2. Load(ui') # Load(shown) \/ AtRest'
      BY <1>1, <1>2, <2>1 DEF JInv, AtRest, Waiting, CurrentSession, Key
    <2>3. Ahead'
      BY <1>1, <1>2, <2>1 DEF JInv, Ahead
    <2>. QED  BY <1>1, <1>2, <1>3, <2>1, <2>2, <2>3 DEF JInv, Typed, Load, Key, Dependencies
  <1>5. CASE Changed("list") /\ CurrentSession(shown)
    <2>1. ui' = [asked EXCEPT !.loading = TRUE, !.error = FALSE] /\ listing' = Asked(shown)
      BY <1>2, <1>5 DEF AfterListEffect
    <2>2. /\ Typed(ui') /\ ui'.navigation = asked.navigation /\ ui'.result = asked.result
          /\ ui'.version = asked.version /\ ui'.retry = asked.retry
          /\ ui'.loading /\ Load(ui') = Load(asked)
      BY <1>1, <2>1 DEF IsUi, Fields, Typed, Load, Key
    <2>3. Asked(shown) # Null /\ Asked(shown).at = stored /\ stored >= seen
      BY AskedIsRequest DEF JInv
    <2>4. Load(ui') = Load(shown) => AtRest'
      <3>1. Load(ui') = Load(shown) => CurrentSession(ui')
        BY <1>5, LoadSays
      <3>. QED  BY <1>2, <2>1, <2>2, <2>3, <3>1 DEF AtRest, CurrentSession, Key
    <2>5. Ahead'
      BY <1>1, <1>2, <2>2 DEF JInv, Ahead
    <2>. QED  BY <1>1, <1>2, <1>3, <2>2, <2>4, <2>5 DEF JInv, Typed, Load, Key, Dependencies
  <1>6. CASE Changed("list") /\ ~CurrentSession(shown)
    <2>1. ui' = [asked EXCEPT !.navigation = Reset(Key(shown)), !.result = Null, !.error = FALSE]
      BY <1>2, <1>6 DEF AfterListEffect
    <2>2. /\ ui'.navigation = Reset(Key(shown)) /\ ui'.result = Null
          /\ ui'.version = asked.version /\ ui'.retry = asked.retry
      BY <1>1, <2>1 DEF IsUi, Fields
    <2>3. Typed(ui')
      BY <1>1, <2>1, <2>2, BoundAssumption DEF IsUi, Fields, Typed, Reset
    <2>4. ui'.navigation.key # shown.navigation.key
      BY <1>6, <2>2 DEF Reset, CurrentSession
    <2>5. Load(ui') # Load(shown)
      BY <2>4 DEF Load
    <2>6. Ahead'
      BY <1>1, <1>2, <2>2, <2>4 DEF JInv, Ahead
    <2>. QED  BY <1>2, <1>3, <2>2, <2>3, <2>5, <2>6 DEF JInv, Typed, Load, Key, Dependencies
  <1>. QED  BY <1>4, <1>5, <1>6

(* A change of the state that leaves effects and requests alone: either there *)
(* is now a reason to load, or nothing that the list waits for has changed.  *)
LEMMA KeepsJ ==
    ASSUME JInv, Typed(ui'), Ahead',
           UNCHANGED <<shown, due, ran>>,
           stored' \in 0..MaxRuns, seen' \in 0..stored',
           ui'.result # Null => ui'.result.page = ui'.navigation.page,
           \/ Load(ui') # Load(shown)
           \/ Load(ui') = Load(ui) /\ (AtRest => AtRest')
    PROVE  JInv'
  <1>1. ran'.list = Load(shown') => Load(ui') # Load(shown') \/ AtRest'
    BY DEF JInv
  <1>2. (~due => ran = Dependencies(shown))'
    BY DEF JInv, Dependencies, Key
  <1>. QED  BY <1>1, <1>2 DEF JInv, Typed, Load, Key

(* A change outside of the list.                                            *)
LEMMA OutsideJ ==
    ASSUME IInv, JInv, UNCHANGED <<shown, due, ran, listing, seen>>,
           stored' \in stored..MaxRuns,
           ui'.q \in Text, ui'.appliedQ \in Text, ui'.draft \in Draft,
           ui'.conditions = ui.conditions, ui'.version = ui.version, ui'.limit = ui.limit,
           ui'.sort = ui.sort, ui'.navigation = ui.navigation, ui'.retry = ui.retry,
           ui'.loading = ui.loading, ui'.result = ui.result, ui'.error = ui.error
    PROVE  JInv'
  <1>1. Typed(ui') /\ Ahead' /\ Load(ui') = Load(ui)
    BY DEF JInv, Typed, Ahead, Load, Key
  <1>2. AtRest => AtRest'
    BY DEF AtRest, Waiting, CurrentSession, Key
  <1>3. stored' \in 0..MaxRuns /\ seen' \in 0..stored'
    BY BoundAssumption DEF JInv
  <1>. QED  BY <1>1, <1>2, <1>3, KeepsJ DEF JInv

(* Conditions that are applied are a new session.                           *)
LEMMA ApplyingJ ==
    ASSUME IInv, JInv, UNCHANGED <<shown, due, ran, listing, stored, seen>>,
           NEW text \in Text, NEW base, IsUi(base),
           base.q \in Text, base.appliedQ \in Text, base.draft \in Draft,
           base.conditions = ui.conditions, base.version = ui.version, base.limit = ui.limit,
           base.sort = ui.sort, base.navigation = ui.navigation, base.retry = ui.retry,
           base.loading = ui.loading, base.result = ui.result, base.error = ui.error,
           \/ ui' = Applied(base, text)
           \/ /\ Valid(text, base.draft)
              /\ ui' = [Applied(base, text) EXCEPT !.appliedQ = text]
    PROVE  JInv'
  <1>1. CASE Valid(text, base.draft)
    <2>1. /\ ui'.conditions = <<text, base.draft>> /\ ui'.version = ui.version + 1
          /\ ui'.q \in Text /\ ui'.appliedQ \in Text /\ ui'.draft \in Draft
          /\ ui'.limit = ui.limit /\ ui'.sort = ui.sort /\ ui'.navigation = ui.navigation
          /\ ui'.retry = ui.retry /\ ui'.result = ui.result
      <3> DEFINE new == Applied(base, text)
      <3>1. new = [base EXCEPT !.conditions = <<text, base.draft>>, !.version = @ + 1,
                               !.searchError = FALSE]
        BY <1>1 DEF Applied, Conditions
      <3>2. /\ DOMAIN new = Fields
            /\ new.conditions = <<text, base.draft>> /\ new.version = ui.version + 1
            /\ new.q \in Text /\ new.appliedQ \in Text /\ new.draft \in Draft
            /\ new.limit = ui.limit /\ new.sort = ui.sort /\ new.navigation = ui.navigation
            /\ new.retry = ui.retry /\ new.result = ui.result
        BY <3>1 DEF IsUi, Fields
      <3>3. ui' = new \/ ui' = [new EXCEPT !.appliedQ = text]
        OBVIOUS
      <3>. HIDE DEF new
      <3>. QED  BY <3>2, <3>3 DEF Fields
    <2>2. Typed(ui') /\ Ahead'
      BY <2>1 DEF JInv, Typed, Ahead
    <2>3. Load(ui') # Load(shown)
      BY <2>1 DEF JInv, Typed, Ahead, Load, Key
    <2>. QED  BY <2>1, <2>2, <2>3, KeepsJ DEF JInv
  <1>2. CASE ~Valid(text, base.draft)
    <2>1. ui' = [base EXCEPT !.searchError = TRUE]
      BY <1>2 DEF Applied
    <2>2. stored' \in stored..MaxRuns
      BY BoundAssumption DEF JInv
    <2>. QED  BY <2>1, <2>2, OutsideJ DEF IsUi, Fields
  <1>. QED  BY <1>1, <1>2

LEMMA ActingJ == IInv /\ JInv /\ UserActs => JInv'
  <1>. SUFFICES ASSUME IInv, JInv, UserActs PROVE JInv'
    OBVIOUS
  <1>1. DOMAIN ui = Fields /\ DOMAIN ui.navigation = {"key", "page", "target", "version"} /\ IsUi(ui)
    BY DEF IInv, IsUi
  <1>2. UNCHANGED <<shown, due, ran, listing, stored, seen>> /\ stored' \in stored..MaxRuns
    <2>1. ASSUME NEW new, Input(new)
          PROVE  UNCHANGED <<shown, due, ran, listing, stored, seen>>
      BY <2>1 DEF Input
    <2>2. UNCHANGED <<shown, due, ran, listing, stored, seen>>
      BY <2>1 DEF UserActs, SetQ, UpdateFilter, SubmitSearch, ClearSearch,
         ChangeSort, Retry, BeginSync, ChangeLimit, ChangePage
    <2>. QED  BY <2>2, BoundAssumption DEF JInv
  <1>3. ui.q \in Text /\ ui.appliedQ \in Text /\ ui.draft \in Draft /\ shown.q \in Text
    BY DEF JInv, Typed
  <1>4. CASE \E text \in Text : SetQ(text)
    <2>1. PICK text \in Text : ui' = [ui EXCEPT !.q = text, !.searchError = FALSE]
      BY <1>4 DEF SetQ, Input
    <2>. QED  BY <1>1, <1>2, <1>3, <2>1, OutsideJ DEF Fields
  <1>5. CASE \E draft \in Draft : UpdateFilter(draft)
    <2>1. PICK draft \in Draft : ui' = Applied([ui EXCEPT !.draft = draft], ui.appliedQ)
      BY <1>5 DEF UpdateFilter, Input
    <2> DEFINE base == [ui EXCEPT !.draft = draft]
    <2>2. /\ IsUi(base) /\ base.q = ui.q /\ base.appliedQ = ui.appliedQ /\ base.draft = draft
          /\ base.conditions = ui.conditions /\ base.version = ui.version /\ base.limit = ui.limit
          /\ base.sort = ui.sort /\ base.navigation = ui.navigation /\ base.retry = ui.retry
          /\ base.loading = ui.loading /\ base.result = ui.result /\ base.error = ui.error
      BY <1>1 DEF IsUi, Fields
    <2>3. ui' = Applied(base, ui.appliedQ)
      BY <2>1
    <2>. HIDE DEF base
    <2>. QED  BY <1>2, <1>3, <2>2, <2>3, ApplyingJ
  <1>6. CASE SubmitSearch
    <2>1. \/ ui' = Applied(ui, shown.q)
          \/ /\ Valid(shown.q, ui.draft)
             /\ ui' = [Applied(ui, shown.q) EXCEPT !.appliedQ = shown.q]
      BY <1>6 DEF SubmitSearch, Input
    <2>. QED  BY <1>1, <1>2, <1>3, <2>1, ApplyingJ
  <1>7. CASE ClearSearch
    <2> DEFINE base == [ui EXCEPT !.q = NoText, !.appliedQ = NoText]
    <2>1. ui' = Applied(base, NoText) /\ NoText \in Text
      BY <1>7, TextAssumption DEF ClearSearch, Input
    <2>2. /\ IsUi(base) /\ base.q = NoText /\ base.appliedQ = NoText /\ base.draft = ui.draft
          /\ base.conditions = ui.conditions /\ base.version = ui.version /\ base.limit = ui.limit
          /\ base.sort = ui.sort /\ base.navigation = ui.navigation /\ base.retry = ui.retry
          /\ base.loading = ui.loading /\ base.result = ui.result /\ base.error = ui.error
      BY <1>1 DEF IsUi, Fields
    <2>. HIDE DEF base
    <2>. QED  BY <1>2, <1>3, <2>1, <2>2, ApplyingJ
  <1>8. CASE BeginSync
    <2>1. ui' = [ui EXCEPT !.submitting = TRUE, !.syncError = FALSE]
      BY <1>8 DEF BeginSync, Input
    <2>. QED  BY <1>1, <1>2, <1>3, <2>1, OutsideJ DEF Fields
  <1>9. CASE ChangeSort \/ \E limit \in PageSize : ChangeLimit(limit)
    <2>1. /\ ui'.limit \in PageSize /\ ui'.sort \in Sort
          /\ ui'.limit # shown.limit \/ ui'.sort # shown.sort
          /\ ui'.q = ui.q /\ ui'.appliedQ = ui.appliedQ /\ ui'.draft = ui.draft
          /\ ui'.conditions = ui.conditions /\ ui'.version = ui.version
          /\ ui'.navigation = ui.navigation /\ ui'.retry = ui.retry /\ ui'.result = ui.result
      <3>1. CASE ChangeSort
        <4>1. ui' = [ui EXCEPT !.sort = NextSort(shown.sort)]
          BY <3>1 DEF ChangeSort, Input
        <4>2. NextSort(shown.sort) \in Sort /\ NextSort(shown.sort) # shown.sort
          BY DEF NextSort, Sort, JInv, Typed
        <4>. QED  BY <1>1, <4>1, <4>2 DEF Fields, JInv, Typed
      <3>2. CASE \E limit \in PageSize : ChangeLimit(limit)
        <4>1. PICK limit \in PageSize : limit # shown.limit /\ ui' = [ui EXCEPT !.limit = limit]
          BY <3>2 DEF ChangeLimit, Input
        <4>. QED  BY <1>1, <4>1 DEF Fields, JInv, Typed
      <3>. QED  BY <1>9, <3>1, <3>2
    <2>2. Typed(ui') /\ Ahead'
      BY <1>2, <2>1 DEF JInv, Typed, Ahead
    <2>3. Load(ui') # Load(shown)
      BY <2>1 DEF Load, Key
    <2>. QED  BY <1>2, <2>1, <2>2, <2>3, KeepsJ DEF JInv
  <1>10. CASE Retry
    <2>1. ui' = [ui EXCEPT !.error = FALSE, !.retry = @ + 1]
      BY <1>10 DEF Retry, Input
    <2>2. /\ ui'.retry = ui.retry + 1 /\ ui'.navigation = ui.navigation /\ ui'.result = ui.result
          /\ ui'.q = ui.q /\ ui'.appliedQ = ui.appliedQ /\ ui'.draft = ui.draft
          /\ ui'.conditions = ui.conditions /\ ui'.version = ui.version
          /\ ui'.limit = ui.limit /\ ui'.sort = ui.sort
      BY <1>1, <2>1 DEF Fields
    <2>3. Typed(ui') /\ Ahead'
      BY <1>2, <2>2 DEF JInv, Typed, Ahead
    <2>4. Load(ui') # Load(shown)
      BY <2>2 DEF JInv, Typed, Ahead, Load
    <2>. QED  BY <1>2, <2>2, <2>3, <2>4, KeepsJ DEF JInv
  <1>11. CASE \E page \in 1..MaxPages : ChangePage(page)
    <2>1. PICK page \in 1..MaxPages :
            ui' = [ui EXCEPT !.error = FALSE, !.navigation.target = page,
                             !.navigation.version = @ + 1]
      BY <1>11 DEF ChangePage, Input
    <2>2. /\ ui'.navigation = [ui.navigation EXCEPT !.target = page, !.version = @ + 1]
          /\ ui'.retry = ui.retry /\ ui'.result = ui.result
          /\ ui'.q = ui.q /\ ui'.appliedQ = ui.appliedQ /\ ui'.draft = ui.draft
          /\ ui'.conditions = ui.conditions /\ ui'.version = ui.version
          /\ ui'.limit = ui.limit /\ ui'.sort = ui.sort
      BY <1>1, <2>1 DEF Fields
    <2>3. /\ ui'.navigation.target = page /\ ui'.navigation.version = ui.navigation.version + 1
          /\ ui'.navigation.page = ui.navigation.page /\ ui'.navigation.key = ui.navigation.key
      BY <1>1, <2>2
    <2>4. Typed(ui') /\ Ahead'
      BY <1>2, <2>2, <2>3 DEF JInv, Typed, Ahead
    <2>5. Load(ui') # Load(shown)
      BY <2>2, <2>3 DEF JInv, Typed, Ahead, Load
    <2>. QED  BY <1>2, <2>2, <2>3, <2>4, <2>5, KeepsJ DEF JInv
  <1>. QED  BY <1>4, <1>5, <1>6, <1>7, <1>8, <1>9, <1>10, <1>11 DEF UserActs

LEMMA AnsweringJ == IInv /\ JInv /\ Answered => JInv'
  <1>. SUFFICES ASSUME IInv, JInv, Answered PROVE JInv'
    OBVIOUS
  <1>1. DOMAIN ui = Fields /\ DOMAIN ui.navigation = {"key", "page", "target", "version"}
    BY DEF IInv, IsUi
  <1>2. UNCHANGED <<shown, due, ran, stored>> /\ stored' \in stored..MaxRuns
    <2>1. ASSUME NEW new, Callback(new)
          PROVE  UNCHANGED <<shown, due, ran>>
      BY <2>1 DEF Callback
    <2>2. UNCHANGED <<shown, due, ran, stored>>
      BY <2>1 DEF Answered, ListAnswered, ListFailed, CapabilityAnswered,
         SyncAccepted, SyncRefused, PollTimer, StillRunning, PollEnded, PollFailed
    <2>. QED  BY <2>2, BoundAssumption DEF JInv
  <1>3. CASE ListAnswered
    <2>1. PICK page \in 1..MaxPages, pages \in 0..MaxPages :
            ui' = [ui EXCEPT !.result = Result(listing, page, pages), !.loading = FALSE,
                             !.navigation.page = page, !.navigation.target = Null]
      BY <1>3 DEF ListAnswered, Callback
    <2>2. listing # Null /\ listing' = Null /\ seen' = seen
      BY <1>3 DEF ListAnswered
    <2>3. /\ ui'.navigation = [ui.navigation EXCEPT !.page = page, !.target = Null]
          /\ ui'.retry = ui.retry /\ ui'.result = Result(listing, page, pages)
          /\ ui'.q = ui.q /\ ui'.appliedQ = ui.appliedQ /\ ui'.draft = ui.draft
          /\ ui'.conditions = ui.conditions /\ ui'.version = ui.version
          /\ ui'.limit = ui.limit /\ ui'.sort = ui.sort /\ ~ui'.loading
      BY <1>1, <2>1 DEF Fields
    <2>4. /\ ui'.navigation.target = Null /\ ui'.navigation.version = ui.navigation.version
          /\ ui'.navigation.page = page /\ ui'.navigation.key = ui.navigation.key
      BY <1>1, <2>3
    <2>5. ui'.result.page = page /\ ui'.result.at = listing.at
      BY <2>3 DEF Result
    <2>6. Typed(ui') /\ Ahead' /\ Load(ui') = Load(ui)
      BY <1>2, <2>3, <2>4 DEF JInv, Typed, Ahead, Load, Key
    <2>7. AtRest => AtRest'
      BY <2>2, <2>3, <2>4, <2>5 DEF AtRest, Waiting, CurrentSession, Key
    <2>. QED  BY <1>2, <2>2, <2>4, <2>5, <2>6, <2>7, KeepsJ DEF JInv
  <1>4. CASE ListFailed
    <2>1. ui' = [ui EXCEPT !.error = TRUE, !.loading = FALSE] /\ listing' = Null /\ seen' = seen
      BY <1>4 DEF ListFailed, Callback
    <2>2. /\ ui'.navigation = ui.navigation /\ ui'.retry = ui.retry /\ ui'.result = ui.result
          /\ ui'.q = ui.q /\ ui'.appliedQ = ui.appliedQ /\ ui'.draft = ui.draft
          /\ ui'.conditions = ui.conditions /\ ui'.version = ui.version
          /\ ui'.limit = ui.limit /\ ui'.sort = ui.sort /\ ~ui'.loading /\ ui'.error
      BY <1>1, <2>1 DEF Fields
    <2>3. Typed(ui') /\ Ahead' /\ Load(ui') = Load(ui)
      BY <1>2, <2>2 DEF JInv, Typed, Ahead, Load, Key
    <2>4. AtRest => AtRest'
      BY <2>1, <2>2 DEF AtRest, Waiting, CurrentSession, Key
    <2>. QED  BY <1>2, <2>1, <2>2, <2>3, <2>4, KeepsJ DEF JInv
  <1>5. CASE PollEnded
    <2>1. ui' = SyncOver(ui) /\ seen' = stored
      BY <1>5 DEF PollEnded, Callback
    <2>2. /\ ui'.navigation = Reset(pollKey) /\ ui'.retry = ui.retry + 1 /\ ui'.result = Null
          /\ ui'.q = ui.q /\ ui'.appliedQ = ui.appliedQ /\ ui'.draft = ui.draft
          /\ ui'.conditions = ui.conditions /\ ui'.version = ui.version
          /\ ui'.limit = ui.limit /\ ui'.sort = ui.sort
      BY <1>1, <2>1 DEF SyncOver, Fields
    <2>3. Typed(ui') /\ Ahead'
      BY <1>2, <2>2, BoundAssumption DEF JInv, Typed, Ahead, Reset
    <2>4. Load(ui') # Load(shown)
      BY <2>2 DEF JInv, Typed, Ahead, Load
    <2>. QED  BY <1>2, <2>1, <2>2, <2>3, <2>4, KeepsJ DEF JInv
  <1>6. CASE CapabilityAnswered \/ SyncAccepted \/ SyncRefused \/ PollTimer \/ StillRunning
                \/ PollFailed
    <2>1. /\ ui'.navigation = ui.navigation /\ ui'.retry = ui.retry /\ ui'.result = ui.result
          /\ ui'.q = ui.q /\ ui'.appliedQ = ui.appliedQ /\ ui'.draft = ui.draft
          /\ ui'.conditions = ui.conditions /\ ui'.version = ui.version
          /\ ui'.limit = ui.limit /\ ui'.sort = ui.sort /\ ui'.loading = ui.loading
          /\ ui'.error = ui.error /\ listing' = listing /\ seen' = seen
      <3>1. CASE CapabilityAnswered \/ PollFailed \/ PollTimer
        BY <1>1, <3>1 DEF CapabilityAnswered, PollFailed, PollTimer, Callback, Fields
      <3>2. CASE StillRunning
        BY <1>1, <3>2 DEF StillRunning, Follow, Callback, Fields
      <3>3. CASE SyncAccepted
        BY <1>1, <3>3 DEF SyncAccepted, Callback, Submitted, Follow, NotAgain, Fields
      <3>4. CASE SyncRefused
        BY <1>1, <3>4 DEF SyncRefused, Callback, Submitted, Follow, Fields
      <3>. QED  BY <1>6, <3>1, <3>2, <3>3, <3>4
    <2>. QED  BY <1>2, <2>1, OutsideJ DEF JInv, Typed
  <1>. QED  BY <1>3, <1>4, <1>5, <1>6 DEF Answered

(* Whatever the list waits for is under way, or an effect has a reason to run. *)
THEOREM ListInvariance == Spec => []JInv
  <1>1. IInv /\ JInv /\ [Next]_vars => JInv'
    <2>. SUFFICES ASSUME IInv, JInv, [Next]_vars PROVE JInv'
      OBVIOUS
    <2>1. CASE OtherStarts \/ RunEnds \/ UNCHANGED vars
      <3>1. UNCHANGED <<ui, shown, due, ran, listing, seen>> /\ stored' \in stored..MaxRuns
        BY <2>1, BoundAssumption DEF OtherStarts, RunEnds, vars, JInv
      <3>. QED  BY <3>1, OutsideJ DEF JInv, Typed
    <2>. QED  BY <2>1, RenderingJ, EffectsJ, ActingJ, AnsweringJ DEF Next
  <1>. QED  BY InitiallyJ, Invariance, <1>1, PTL DEF Spec

(* A list that is busy waits for something that comes.                      *)
THEOREM BusyListsWait == Spec => []BusyIsWaiting
  <1>1. JInv => BusyIsWaiting
    <2>. SUFFICES ASSUME JInv, Busy(ui), ~due, ui = shown PROVE listing # Null
      BY DEF BusyIsWaiting
    <2>1. AtRest
      BY LoadSays DEF JInv
    <2>. QED  BY <2>1 DEF AtRest, Busy, Waiting, VisibleError
  <1>. QED  BY ListInvariance, <1>1, PTL

(* A list at rest is the page it says, of data no older than the last run    *)
(* that was seen to end.                                                    *)
THEOREM SettledListsAreCurrent == Spec => []SettledViewIsCurrent
  <1>1. JInv => SettledViewIsCurrent
    <2>. SUFFICES ASSUME JInv, ~Busy(shown), ~due, ui = shown, ~VisibleError(shown),
                         VisibleResult(shown) # Null
                  PROVE  /\ shown.result.page = shown.navigation.page
                         /\ shown.result.at >= seen
      BY DEF SettledViewIsCurrent
    <2>1. AtRest
      BY LoadSays DEF JInv
    <2>2. shown.result # Null
      BY <2>1 DEF AtRest, VisibleResult
    <2>. QED  BY <2>1, <2>2 DEF JInv, AtRest, Busy, VisibleError
  <1>. QED  BY ListInvariance, <1>1, PTL

------------------------------------------------------------------------------
(* The poll.  What runs is polled, or the answer that said so is not the one  *)
(* that the effects saw.                                                   *)

Count(b) == IF b THEN 1 ELSE 0

(* How many more answers may have come than were rendered: one before the    *)
(* effects ran and one after, of a poll or of the start request; but a poll   *)
(* that waits was not answered yet, and a start request only if it was under  *)
(* way when the list was rendered.                                         *)
Room == Count(~due) + Count(poll = "none") + Count(shown.submitting /\ ~starting)

PInv ==
    /\ ui.answers \in 0..3 /\ shown.answers \in 0..3
    /\ ~due => ran.poll = Dependencies(shown).poll
    /\ starting <=> ui.submitting
    /\ starting => urgent \/ shown.submitting
    /\ \E k \in 0..3 : k <= Room /\ ui.answers = After(shown.answers, k)
    /\ ran.poll = Dependencies(shown).poll /\ poll = "none" /\ Active(ui) /\ ~lost =>
            ui.answers # shown.answers \/ ~Active(shown)

LEMMA Counting ==
    ASSUME NEW a \in 0..3, NEW k \in 0..3
    PROVE  /\ After(a, k) \in 0..3 /\ After(a, 0) = a
           /\ k + 1 \in 0..3 => After(After(a, k), 1) = After(a, k + 1)
           /\ After(a, k) = a => k = 0
  BY DEF After

LEMMA RoomIs ==
    /\ Room \in 0..3
    /\ poll # "none" => Room <= 2
    /\ ~(shown.submitting /\ ~starting) => Room <= 2
  BY DEF Room, Count

(* A step that renders nothing and runs no effect: an answer needs room.      *)
LEMMA KeepsP ==
    ASSUME PInv, UNCHANGED <<shown, due, ran>>,
           starting' <=> ui'.submitting, starting' => urgent' \/ shown.submitting,
           \/ ui'.answers = ui.answers /\ Room <= Room'
           \/ ui'.answers = After(ui.answers, 1) /\ Room + 1 <= Room',
           ran.poll = Dependencies(shown).poll /\ poll' = "none" /\ Active(ui') /\ ~lost' =>
                ui'.answers # shown.answers \/ ~Active(shown)
    PROVE  PInv'
  <1>1. Room \in 0..3 /\ Room' \in 0..3
    BY DEF Room, Count
  <1>2. PICK k \in 0..3 : k <= Room /\ ui.answers = After(shown.answers, k)
    BY DEF PInv
  <1>3. ui'.answers \in 0..3 /\ \E m \in 0..3 : m <= Room' /\ ui'.answers = After(shown.answers, m)
    <2>1. CASE ui'.answers = ui.answers /\ Room <= Room'
      BY <1>1, <1>2, <2>1 DEF PInv
    <2>2. CASE ui'.answers = After(ui.answers, 1) /\ Room + 1 <= Room'
      <3>1. k + 1 \in 0..3 /\ k + 1 <= Room'
        BY <1>1, <1>2, <2>2
      <3>2. shown.answers \in 0..3
        BY DEF PInv
      <3>3. ui'.answers = After(shown.answers, k + 1)
        BY <1>2, <2>2, <3>1, <3>2, Counting
      <3>4. ui'.answers \in 0..3
        BY <3>1, <3>2, <3>3, Counting
      <3>. QED  BY <3>1, <3>3, <3>4
    <2>. QED  BY <2>1, <2>2
  <1>4. Dependencies(shown') = Dependencies(shown) /\ shown'.answers = shown.answers
        /\ (Active(shown') <=> Active(shown))
    BY DEF Dependencies, Key, Active
  <1>. QED  BY <1>3, <1>4 DEF PInv, Active

(* An answer for which there is room is not the one that was rendered.      *)
LEMMA MoreAnswers ==
    ASSUME PInv, Room <= 2
    PROVE  After(ui.answers, 1) # shown.answers
  <1>1. PICK k \in 0..3 : k <= Room /\ ui.answers = After(shown.answers, k)
    BY DEF PInv
  <1>2. k \in 0..2 /\ shown.answers \in 0..3
    BY <1>1, RoomIs DEF PInv
  <1>3. After(ui.answers, 1) = After(shown.answers, k + 1) /\ k + 1 \in 0..3 /\ k + 1 # 0
    BY <1>1, <1>2, Counting
  <1>. QED  BY <1>2, <1>3, Counting

(* Nothing that is polled changes.                                         *)
LEMMA OutsideP ==
    ASSUME PInv, UNCHANGED <<shown, due, ran, lost>>, starting' = starting, urgent => urgent',
           poll' = "none" <=> poll = "none",
           ui'.sync = ui.sync, ui'.answers = ui.answers, ui'.submitting = ui.submitting
    PROVE  PInv'
  <1>1. Room <= Room'
    BY DEF Room, Count
  <1>. QED  BY <1>1, KeepsP DEF PInv, Active

LEMMA InitiallyP == Init => PInv
  <1>. SUFFICES ASSUME Init PROVE PInv
    OBVIOUS
  <1>. DEFINE new == NewUi(DefaultSize)
  <1>1. ui = new /\ shown = new /\ due /\ ran.poll = <<>> /\ ~starting
    BY DEF Init
  <1>2. new.answers = 0 /\ ~new.submitting /\ new.sync = Null
    BY DEF NewUi
  <1>. HIDE DEF new
  <1>3. Dependencies(new).poll # <<>>
    BY DEF Dependencies
  <1>4. 0 <= Room /\ 0 = After(0, 0)
    BY RoomIs, Counting
  <1>. QED  BY <1>1, <1>2, <1>3, <1>4 DEF PInv

(* What is rendered is what there is: nothing more has come.                *)
LEMMA RenderingP == PInv /\ Render => PInv'
  <1>. SUFFICES ASSUME PInv, Render PROVE PInv'
    OBVIOUS
  <1>1. /\ ~due /\ shown' = ui /\ due' = (Dependencies(ui) # ran)
        /\ UNCHANGED <<ui, ran, poll, starting, lost>>
    BY DEF Render
  <1>2. ran.poll = Dependencies(shown).poll
    BY <1>1 DEF PInv
  <1>3. (~due => ran.poll = Dependencies(shown).poll)'
    <2>1. Dependencies(ui)' = Dependencies(ui) /\ Dependencies(shown)' = Dependencies(ui)
      BY <1>1 DEF Dependencies, Key
    <2>. QED  BY <1>1, <2>1
  <1>4. ui'.answers = After(shown'.answers, 0) /\ 0 <= Room' /\ 0 \in 0..3
    BY <1>1, Counting DEF PInv, Room, Count
  <1>5. ran'.poll = Dependencies(shown').poll /\ poll' = "none" /\ Active(ui') /\ ~lost'
            => FALSE
    <2>. SUFFICES ASSUME ran.poll = Dependencies(ui).poll, poll = "none", Active(ui), ~lost
                  PROVE  FALSE
      BY <1>1 DEF Active, Dependencies, Key
    <2>1. ui.answers # shown.answers \/ ~Active(shown)
      BY <1>2 DEF PInv
    <2>2. ui.answers = shown.answers /\ ui.sync = shown.sync
      BY <1>2 DEF Dependencies
    <2>. QED  BY <2>1, <2>2 DEF Active
  <1>6. /\ ui'.answers \in 0..3 /\ shown'.answers \in 0..3
        /\ starting' <=> ui'.submitting
        /\ starting' => shown'.submitting
    BY <1>1 DEF PInv
  <1>. QED  BY <1>3, <1>4, <1>5, <1>6 DEF PInv

(* The effects start the timer, or what is shown does not run.              *)
LEMMA EffectsP == IInv /\ PInv /\ RunEffects => PInv'
  <1>. SUFFICES ASSUME IInv, PInv, RunEffects PROVE PInv'
    OBVIOUS
  <1>. DEFINE asked == AfterCapabilityEffect(ui)
  <1>1. /\ DOMAIN asked = Fields /\ asked.answers = ui.answers /\ asked.submitting = ui.submitting
        /\ asked.sync \in {ui.sync, Null}
    BY DEF IInv, IsUi, Fields, AfterCapabilityEffect
  <1>2. /\ due /\ ~due' /\ UNCHANGED <<shown, starting, urgent>> /\ ran' = Dependencies(shown)
        /\ ui' = AfterListEffect(asked)
        /\ poll' = IF Dependencies(shown).poll = ran.poll THEN poll
                   ELSE IF Active(shown) THEN "timer" ELSE "none"
        /\ Dependencies(shown).poll = ran.poll => (lost' <=> lost)
    BY DEF RunEffects, Changed
  <1>. HIDE DEF asked
  <1>3. /\ ui'.answers = ui.answers /\ ui'.submitting = ui.submitting
        /\ ui'.sync \in {ui.sync, Null}
    BY <1>1, <1>2 DEF AfterListEffect, Fields
  <1>4. Room <= Room'
    BY <1>2 DEF Room, Count
  <1>5. Dependencies(shown') = Dependencies(shown) /\ shown'.answers = shown.answers
        /\ (Active(shown') <=> Active(shown))
    BY <1>2 DEF Dependencies, Key, Active
  <1>6. \E k \in 0..3 : k <= Room' /\ ui'.answers = After(shown'.answers, k)
    <2>1. PICK k \in 0..3 : k <= Room /\ ui.answers = After(shown.answers, k)
      BY DEF PInv
    <2>2. Room \in 0..3 /\ Room' \in 0..3
      BY DEF Room, Count
    <2>. QED  BY <1>3, <1>4, <1>5, <2>1, <2>2
  <1>7. poll' = "none" /\ Active(ui') /\ ~lost' =>
            ui'.answers # shown'.answers \/ ~Active(shown')
    <2>. SUFFICES ASSUME poll' = "none", Active(ui'), ~lost', Active(shown)
                  PROVE  ui.answers # shown.answers
      BY <1>3, <1>5
    <2>1. ui'.sync # Null
      BY NullAssumption DEF Active
    <2>2. ran.poll = Dependencies(shown).poll /\ poll = "none" /\ ~lost
      BY <1>2
    <2>. QED  BY <1>3, <2>1, <2>2 DEF PInv, Active
  <1>. QED  BY <1>2, <1>3, <1>5, <1>6, <1>7 DEF PInv

(* What the user does is no answer; a start asks for one.                   *)
LEMMA ActingP == IInv /\ PInv /\ UserActs => PInv'
  <1>. SUFFICES ASSUME IInv, PInv, UserActs PROVE PInv'
    OBVIOUS
  <1>1. DOMAIN ui = Fields /\ DOMAIN ui.navigation = {"key", "page", "target", "version"} /\ IsUi(ui)
    BY DEF IInv, IsUi
  <1>2. UNCHANGED <<shown, due, ran, poll, lost>> /\ ~urgent /\ urgent'
    <2>1. ASSUME NEW new, Input(new)
          PROVE  UNCHANGED <<shown, due, ran, poll, lost>> /\ ~urgent /\ urgent'
      BY <2>1 DEF Input
    <2>. QED  BY <2>1 DEF UserActs, SetQ, UpdateFilter, SubmitSearch, ClearSearch, ChangeLimit,
                          ChangeSort, ChangePage, Retry, BeginSync
  <1>3. CASE BeginSync
    <2>1. /\ ui' = [ui EXCEPT !.submitting = TRUE, !.syncError = FALSE] /\ starting'
          /\ ~shown.submitting /\ ~Active(shown)
      BY <1>3 DEF BeginSync, Input, SyncBusy
    <2>2. ui'.answers = ui.answers /\ ui'.submitting
      BY <1>1, <2>1 DEF Fields
    <2>3. Room <= Room'
      BY <1>2, <2>1 DEF Room, Count
    <2>. QED  BY <1>2, <2>1, <2>2, <2>3, KeepsP
  <1>4. ASSUME NEW base, DOMAIN base = Fields, NEW text,
               base.sync = ui.sync, base.answers = ui.answers, base.submitting = ui.submitting,
               NEW new, new = Applied(base, text)
        PROVE  /\ DOMAIN new = Fields /\ new.sync = ui.sync /\ new.answers = ui.answers
               /\ new.submitting = ui.submitting
    BY <1>4 DEF Applied, Fields
  <1>5. CASE ~BeginSync
    <2>1. starting' = starting
      BY <1>5 DEF UserActs, SetQ, UpdateFilter, SubmitSearch, ClearSearch, ChangeLimit, ChangeSort,
                  ChangePage, Retry
    <2>2. /\ ui'.sync = ui.sync /\ ui'.answers = ui.answers /\ ui'.submitting = ui.submitting
      <3>1. CASE \E text \in Text : SetQ(text)
        BY <1>1, <3>1 DEF SetQ, Input, Fields
      <3>2. CASE \E draft \in Draft : UpdateFilter(draft)
        <4>1. PICK draft \in Draft : ui' = Applied([ui EXCEPT !.draft = draft], ui.appliedQ)
          BY <3>2 DEF UpdateFilter, Input
        <4>. DEFINE base == [ui EXCEPT !.draft = draft]
        <4>2. /\ DOMAIN base = Fields /\ base.sync = ui.sync /\ base.answers = ui.answers
              /\ base.submitting = ui.submitting
          BY <1>1 DEF Fields
        <4>3. ui' = Applied(base, ui.appliedQ)
          BY <4>1
        <4>. HIDE DEF base
        <4>. QED  BY <1>4, <4>2, <4>3
      <3>3. CASE SubmitSearch
        <4>1. PICK text : \/ ui' = Applied(ui, text)
                          \/ ui' = [Applied(ui, text) EXCEPT !.appliedQ = text]
          BY <3>3 DEF SubmitSearch, Input
        <4>. DEFINE new == Applied(ui, text)
        <4>2. /\ DOMAIN new = Fields /\ new.sync = ui.sync /\ new.answers = ui.answers
              /\ new.submitting = ui.submitting
          BY <1>1, <1>4
        <4>3. ui' = new \/ ui' = [new EXCEPT !.appliedQ = text]
          BY <4>1
        <4>. HIDE DEF new
        <4>. QED  BY <4>2, <4>3 DEF Fields
      <3>4. CASE ClearSearch
        <4>1. ui' = Applied([ui EXCEPT !.q = NoText, !.appliedQ = NoText], NoText)
          BY <3>4 DEF ClearSearch, Input
        <4>. DEFINE base == [ui EXCEPT !.q = NoText, !.appliedQ = NoText]
        <4>2. /\ DOMAIN base = Fields /\ base.sync = ui.sync /\ base.answers = ui.answers
              /\ base.submitting = ui.submitting
          BY <1>1 DEF Fields
        <4>3. ui' = Applied(base, NoText)
          BY <4>1
        <4>. HIDE DEF base
        <4>. QED  BY <1>4, <4>2, <4>3
      <3>5. CASE ChangeSort \/ \E limit \in PageSize : ChangeLimit(limit)
        BY <1>1, <3>5 DEF ChangeSort, ChangeLimit, Input, Fields
      <3>6. CASE Retry \/ \E page \in 1..MaxPages : ChangePage(page)
        BY <1>1, <3>6 DEF Retry, ChangePage, Input, Fields
      <3>. QED  BY <1>5, <3>1, <3>2, <3>3, <3>4, <3>5, <3>6 DEF UserActs
    <2>. QED  BY <1>2, <2>1, <2>2, OutsideP
  <1>. QED  BY <1>3, <1>5

(* Answers, to a poll, to a start request or to others.                     *)
LEMMA AnsweringP == IInv /\ PInv /\ Answered => PInv'
  <1>. SUFFICES ASSUME IInv, PInv, Answered PROVE PInv'
    OBVIOUS
  <1>1. DOMAIN ui = Fields /\ DOMAIN ui.navigation = {"key", "page", "target", "version"}
    BY DEF IInv, IsUi
  <1>2. UNCHANGED <<shown, due, ran, urgent>> /\ ~urgent
    <2>1. ASSUME NEW new, Callback(new)
          PROVE  UNCHANGED <<shown, due, ran, urgent>> /\ ~urgent
      BY <2>1 DEF Callback
    <2>. QED  BY <2>1 DEF Answered, ListAnswered, ListFailed, CapabilityAnswered,
         SyncAccepted, SyncRefused, PollTimer, StillRunning, PollEnded, PollFailed
  <1>3. CASE ListAnswered \/ ListFailed \/ CapabilityAnswered \/ PollTimer
    <2>1. /\ ui'.sync = ui.sync /\ ui'.answers = ui.answers /\ ui'.submitting = ui.submitting
      BY <1>1, <1>3 DEF ListAnswered, ListFailed, CapabilityAnswered, PollTimer, Callback, Fields
    <2>2. starting' = starting /\ (poll' = "none" <=> poll = "none") /\ lost' = lost
      BY <1>3 DEF ListAnswered, ListFailed, CapabilityAnswered, PollTimer
    <2>. QED  BY <1>2, <2>1, <2>2, OutsideP
  <1>4. CASE StillRunning
    <2>1. /\ ui' = Follow(ui, pollRun) /\ poll = "asked" /\ poll' = "none" /\ starting' = starting
      BY <1>4 DEF StillRunning, Callback
    <2>2. ui'.answers = After(ui.answers, 1) /\ ui'.submitting = ui.submitting
      BY <1>1, <2>1 DEF Follow, Fields
    <2>3. Room + 1 <= Room' /\ Room <= 2 /\ Room \in 0..3
      BY <1>2, <2>1 DEF Room, Count
    <2>4. ui'.answers # shown.answers
      BY <2>2, <2>3, MoreAnswers
    <2>. QED  BY <1>2, <2>1, <2>2, <2>3, <2>4, KeepsP DEF PInv
  <1>5. CASE PollEnded \/ PollFailed
    <2>1. /\ ui'.answers = ui.answers /\ ui'.submitting = ui.submitting
          /\ ui'.sync = "ended" \/ lost'
      BY <1>1, <1>5 DEF PollEnded, PollFailed, Callback, SyncOver, Fields
    <2>2. poll' = "none" /\ starting' = starting
      BY <1>5 DEF PollEnded, PollFailed
    <2>3. Room <= Room'
      BY <1>2, <2>2 DEF Room, Count
    <2>. QED  BY <1>2, <2>1, <2>2, <2>3, KeepsP DEF PInv, Active
  <1>6. CASE SyncAccepted \/ SyncRefused
    <2>1. /\ starting /\ ~starting' /\ poll' = poll /\ lost' = lost
          /\ \/ ui' = NotAgain(Follow(Submitted, RunUnderWay))
             \/ ui' = [Follow(Submitted, RunUnderWay) EXCEPT !.syncError = TRUE]
             \/ ui' = [Submitted EXCEPT !.syncError = TRUE]
      BY <1>6 DEF SyncAccepted, SyncRefused, Callback
    <2>2. /\ ~ui'.submitting
          /\ \/ ui'.answers = After(ui.answers, 1)
             \/ ui'.answers = ui.answers /\ ui'.sync = ui.sync
      <3>1. CASE ui' = NotAgain(Follow(Submitted, RunUnderWay))
        BY <1>1, <3>1 DEF NotAgain, Follow, Submitted, Fields
      <3>2. CASE ui' = [Follow(Submitted, RunUnderWay) EXCEPT !.syncError = TRUE]
        BY <1>1, <3>2 DEF Follow, Submitted, Fields
      <3>3. CASE ui' = [Submitted EXCEPT !.syncError = TRUE]
        BY <1>1, <3>3 DEF Submitted, Fields
      <3>. QED  BY <2>1, <3>1, <3>2, <3>3
    <2>3. shown.submitting
      BY <1>2, <2>1 DEF PInv
    <2>4. Room + 1 <= Room' /\ Room <= Room' /\ Room <= 2 /\ Room \in 0..3
      BY <1>2, <2>1, <2>3 DEF Room, Count
    <2>5. ui'.answers = After(ui.answers, 1) => ui'.answers # shown.answers
      BY <2>4, MoreAnswers
    <2>. QED  BY <1>2, <2>1, <2>2, <2>4, <2>5, KeepsP DEF PInv, Active
  <1>. QED  BY <1>3, <1>4, <1>5, <1>6 DEF Answered

(* Of two answers that are no render apart, the effects see that they differ. *)
THEOREM PollInvariance == Spec => [](IInv /\ PInv)
  <1>1. IInv /\ PInv /\ [Next]_vars => PInv'
    <2>. SUFFICES ASSUME IInv, PInv, [Next]_vars PROVE PInv'
      OBVIOUS
    <2>1. CASE OtherStarts \/ RunEnds \/ UNCHANGED vars
      <3>1. UNCHANGED <<ui, shown, due, urgent, ran, poll, starting, lost>>
        BY <2>1 DEF OtherStarts, RunEnds, vars
      <3>. QED  BY <3>1, OutsideP
    <2>. QED  BY <2>1, RenderingP, EffectsP, ActingP, AnsweringP DEF Next
  <1>. QED  BY InitiallyP, Invariance, <1>1, PTL DEF Spec

(* A run shown as running is polled, or will be once effects have run, unless *)
(* the last poll of it failed: no answer is taken for the one before it.     *)
THEOREM RunsArePolled == Spec => []RunIsPolled
  <1>1. PInv => RunIsPolled
    <2>. SUFFICES ASSUME PInv, Active(ui), ~lost, ~due, ui = shown PROVE poll # "none"
      BY DEF RunIsPolled
    <2>. QED  BY DEF PInv
  <1>. QED  BY PollInvariance, <1>1, PTL

=============================================================================
