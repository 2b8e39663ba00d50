------------------------------ MODULE RecordList ------------------------------
(***************************************************************************)
(* The list of one menu in the browser: RecordListSession of apps/web, its   *)
(* search state, and the requests and polls it has under way.               *)
(*                                                                         *)
(* A handler of the user and a callback of a request change the state of the *)
(* component (ui); React renders it (shown), and after that, but not at      *)
(* once, runs the effects whose dependencies changed.  Handlers and effects  *)
(* see the state as it was rendered.  Callbacks may run between a render and *)
(* its effects; a render waits for the effects of the one before, and what   *)
(* a click changes is rendered before anything else happens.               *)
(***************************************************************************)
EXTENDS Integers, FiniteSets, FiniteSetsExt

CONSTANTS
    Null,
    Text,       \* what may be typed into the search box
    NoText,     \* nothing
    LongText,   \* more than 200 characters
    Draft,      \* filters as they are entered
    BadDraft,   \* the drafts that are no condition
    NoDraft,
    PageSize,   \* limits
    DefaultSize,
    MaxPages,   \* bound: pages of a list
    MaxInputs,  \* bound: what the user does
    MaxRuns     \* bound: collections of the plugin

Sort == {"none", "asc", "desc"}

(* What a list request asks for, and how many runs had ended by then.       *)
Request == [conditions : Text \X Draft, limit : PageSize, sort : Sort,
            at : 0..MaxRuns, page : 1..MaxPages]

ASSUME TextAssumption == {NoText, LongText} \subseteq Text
ASSUME SizeAssumption == DefaultSize \in PageSize
ASSUME DraftAssumption == NoDraft \in Draft /\ BadDraft \subseteq Draft
ASSUME NullAssumption == Null \notin Request /\ Null \notin {"running", "ended"}
ASSUME BoundAssumption == MaxPages \in Nat \ {0} /\ MaxInputs \in Nat /\ MaxRuns \in Nat \ {0}

VARIABLES
    ui,         \* the state of the component
    shown,      \* what was rendered last
    due,        \* it has effects that did not run yet
    urgent,     \* the user clicked: rendering comes first
    ran,        \* dependencies of the effects that ran last
    listing,    \* the list request that was not cancelled
    asking,     \* a capability request that was not cancelled
    poll,       \* the poll: none, timer or asked
    pollKey,    \* the session its callback saw
    pollRun,    \* the run it asks for
    starting,   \* a start request is under way
    server,     \* what runs: nothing, a run that some request started, another
    stored,     \* how many runs ended: the age of the data
    seen,       \* history: the age at which this component saw a run end
    lost,       \* history: the last poll failed, and no other was armed
    inputs

vars == <<ui, shown, due, urgent, ran, listing, asking, poll, pollKey, pollRun, starting,
          server, stored, seen, lost, inputs>>

(* buildSearchConditions                                                   *)
Valid(text, draft) == text # LongText /\ draft \notin BadDraft
Conditions(text, draft) == <<text, draft>>

(* sessionKey                                                              *)
Key(u) == <<u.limit, u.conditions, u.version, u.sort>>

Reset(key) == [key |-> key, page |-> 1, target |-> Null, version |-> 0]

NewUi(limit) ==
    LET conditions == Conditions(NoText, NoDraft)
    IN  [q |-> NoText, appliedQ |-> NoText, draft |-> NoDraft, searchError |-> FALSE,
         conditions |-> conditions, version |-> 0, limit |-> limit, sort |-> "none",
         navigation |-> Reset(<<limit, conditions, 0, "none">>),
         retry |-> 0, loading |-> TRUE, result |-> Null, error |-> FALSE,
         capability |-> Null, sync |-> Null, run |-> 0, answers |-> 0, syncError |-> FALSE,
         submitting |-> FALSE, refresh |-> 0]

Active(u) == u.sync = "running"

(* Each answer is an object of its own.  The model counts them modulo four:  *)
(* no more than three come between two renders.                             *)
After(answer, n) == (answer + n) % 4

(* What RecordListSession makes of its state for the view.                 *)
CurrentSession(u) == u.navigation.key = Key(u)
(* Mutant: a result is shown until the effect of the new session removed it. *)
AnyResult(u) == u.result

VisibleResult(u) == IF CurrentSession(u) THEN u.result ELSE Null
VisibleError(u) == CurrentSession(u) /\ u.error

(* Mutant: a page that could not be loaded keeps the list busy.            *)
BusyUntilThere(u) == ~CurrentSession(u) \/ u.loading \/ u.navigation.target # Null

Busy(u) == \/ ~CurrentSession(u) \/ u.loading
           \/ u.navigation.target # Null /\ ~VisibleError(u)

SyncBusy(u) == u.submitting \/ Active(u)

(* Mutant: an answer with the status there was is no reason to poll again.  *)
DependenciesByStatus(u) ==
    [capability |-> u.refresh,
     poll |-> <<Key(u), u.sync>>,
     list |-> <<Key(u), u.navigation.version, u.navigation.key, u.retry>>]

(* Dependencies of the three effects.                                      *)
Dependencies(u) ==
    [capability |-> u.refresh,
     poll |-> <<Key(u), u.sync, u.answers>>,
     list |-> <<Key(u), u.navigation.version, u.navigation.key, u.retry>>]

TypeOK ==
    /\ \A u \in {ui, shown} :
        /\ u.q \in Text /\ u.appliedQ \in Text /\ u.draft \in Draft
        /\ u.limit \in PageSize /\ u.sort \in Sort
        /\ u.navigation.page \in 1..MaxPages
        /\ u.navigation.target \in 1..MaxPages \union {Null}
        /\ u.capability \in BOOLEAN \union {Null}
        /\ u.sync \in {Null, "running", "ended"} /\ u.run \in 0..MaxRuns
        /\ Valid(u.conditions[1], u.conditions[2])
        /\ u.answers \in 0..3      \* which answer sync is: up to three come before it is rendered
        /\ u.result # Null => u.result.page \in 1..MaxPages
    /\ due \in BOOLEAN /\ urgent \in BOOLEAN /\ asking \in BOOLEAN /\ starting \in BOOLEAN
    /\ poll \in {"none", "timer", "asked"}
    /\ server \in {"idle", "request", "other"}
    /\ pollRun \in 0..MaxRuns /\ lost \in BOOLEAN
    /\ stored \in 0..MaxRuns /\ seen \in 0..stored /\ inputs \in 0..MaxInputs

Init ==
    /\ ui = NewUi(DefaultSize)
    /\ shown = ui
    /\ due = TRUE
    /\ urgent = FALSE
    /\ ran = [capability |-> Null, poll |-> <<>>, list |-> <<>>]
    /\ listing = Null
    /\ asking = FALSE
    /\ poll = "none" /\ pollKey = Null /\ pollRun = 0
    /\ starting = FALSE
    /\ server \in {"idle", "request", "other"}
    /\ stored = 0 /\ seen = 0 /\ lost = FALSE
    /\ inputs = 0

-----------------------------------------------------------------------------
(* React.                                                                  *)

Render ==
    /\ ~due
    /\ ui # shown \/ urgent
    /\ shown' = ui
    /\ due' = (Dependencies(ui) # ran)
    /\ urgent' = FALSE
    /\ UNCHANGED <<ui, ran, listing, asking, poll, pollKey, pollRun, starting, server, stored,
                   seen, lost, inputs>>

Changed(effect) == Dependencies(shown)[effect] # ran[effect]

(* The effect that asks what the plugin can do.                            *)
AfterCapabilityEffect(u) ==
    IF Changed("capability")
    THEN [u EXCEPT !.capability = Null, !.sync = Null, !.run = 0, !.syncError = FALSE]
    ELSE u

(* The effect that loads the list: first the session is brought up to date. *)
AfterListEffect(u) ==
    IF ~Changed("list") THEN u
    ELSE IF ~CurrentSession(shown)
         THEN [u EXCEPT !.navigation = Reset(Key(shown)), !.result = Null, !.error = FALSE]
         ELSE [u EXCEPT !.loading = TRUE, !.error = FALSE]

(* What it asks for.                                                       *)
Asked(u) ==
    [conditions |-> u.conditions, limit |-> u.limit, sort |-> u.sort, at |-> stored,
     page |-> IF u.navigation.target = Null THEN u.navigation.page
              ELSE u.navigation.target]

(* The cleanups of the effects that changed cancel what they had under way. *)
RunEffects ==
    /\ due
    /\ due' = FALSE
    /\ ran' = Dependencies(shown)
    /\ ui' = AfterListEffect(AfterCapabilityEffect(ui))
    /\ asking' = (asking \/ Changed("capability"))
    /\ poll' = IF ~Changed("poll") THEN poll
               ELSE IF Active(shown) THEN "timer" ELSE "none"
    /\ pollKey' = IF Changed("poll") THEN Key(shown) ELSE pollKey
    /\ pollRun' = IF Changed("poll") THEN shown.run ELSE pollRun
    /\ lost' = (lost /\ ~Changed("poll"))
    /\ listing' = IF ~Changed("list") THEN listing
                  ELSE IF CurrentSession(shown) THEN Asked(shown) ELSE Null
    /\ UNCHANGED <<shown, urgent, starting, server, stored, seen, inputs>>

-----------------------------------------------------------------------------
(* What the user does, to what is shown.                                   *)
Input(new) ==
    /\ ~urgent
    /\ inputs < MaxInputs
    /\ inputs' = inputs + 1
    /\ urgent' = TRUE
    /\ ui' = new
    /\ UNCHANGED <<shown, due, ran, listing, asking, poll, pollKey, pollRun, server, stored,
                   seen, lost>>

(* applyConditions                                                         *)
Applied(u, text) ==
    IF Valid(text, u.draft)
    THEN [u EXCEPT !.conditions = Conditions(text, u.draft), !.version = @ + 1,
                   !.searchError = FALSE]
    ELSE [u EXCEPT !.searchError = TRUE]

SetQ(text) ==
    /\ text # shown.q
    /\ Input([ui EXCEPT !.q = text, !.searchError = FALSE])
    /\ UNCHANGED starting

(* update and clearFilter                                                  *)
UpdateFilter(draft) ==
    /\ draft # shown.draft
    /\ Input(Applied([ui EXCEPT !.draft = draft], ui.appliedQ))
    /\ UNCHANGED starting

SubmitSearch ==
    /\ shown.q # shown.appliedQ
    /\ LET text == shown.q
           applied == Applied(ui, text)
       IN  Input(IF Valid(text, ui.draft) THEN [applied EXCEPT !.appliedQ = text] ELSE applied)
    /\ UNCHANGED starting

ClearSearch ==
    /\ shown.q # NoText
    /\ Input(Applied([ui EXCEPT !.q = NoText, !.appliedQ = NoText], NoText))
    /\ UNCHANGED starting

ChangeLimit(limit) ==
    /\ ~Busy(shown) /\ limit # shown.limit
    /\ Input([ui EXCEPT !.limit = limit])
    /\ UNCHANGED starting

(* nextRecordSort                                                          *)
NextSort(sort) ==
    CASE sort = "none" -> "asc"
      [] sort = "asc" -> "desc"
      [] OTHER -> "none"

ChangeSort ==
    /\ Input([ui EXCEPT !.sort = NextSort(shown.sort)])
    /\ UNCHANGED starting

ChangePage(page) ==
    /\ ~Busy(shown) /\ ~VisibleError(shown) /\ VisibleResult(shown) # Null
    /\ page \in 1..shown.result.pages
    /\ page # shown.navigation.page
    /\ Input([ui EXCEPT !.error = FALSE, !.navigation.target = page,
                        !.navigation.version = @ + 1])
    /\ UNCHANGED starting

Retry ==
    /\ ~Busy(shown) /\ VisibleError(shown)
    /\ Input([ui EXCEPT !.error = FALSE, !.retry = @ + 1])
    /\ UNCHANGED starting

BeginSync ==
    /\ ~SyncBusy(shown) /\ shown.capability = TRUE
    /\ Input([ui EXCEPT !.submitting = TRUE, !.syncError = FALSE])
    /\ starting' = TRUE

-----------------------------------------------------------------------------
(* What the requests bring, when they were not cancelled.                  *)
Callback(new) ==
    /\ ~urgent
    /\ ui' = new
    /\ UNCHANGED <<shown, due, urgent, ran, pollRun, inputs>>

(* isNumberedListResult: the page that was asked for, or the last one.     *)
FitsRequest(asked, page, pages) == page = Min({asked.page, Max({1, pages})})

Result(asked, page, pages) ==
    [conditions |-> asked.conditions, limit |-> asked.limit, sort |-> asked.sort,
     at |-> asked.at, page |-> page, pages |-> pages]

ListAnswered ==
    /\ listing # Null
    /\ \E page \in 1..MaxPages, pages \in 0..MaxPages :
        /\ FitsRequest(listing, page, pages)
        /\ Callback([ui EXCEPT !.result = Result(listing, page, pages), !.loading = FALSE,
                               !.navigation.page = page, !.navigation.target = Null])
    /\ listing' = Null
    /\ UNCHANGED <<asking, poll, pollKey, starting, server, stored, seen, lost>>

(* Any error, and an answer that does not fit the request.                 *)
ListFailed ==
    /\ listing # Null
    /\ Callback([ui EXCEPT !.error = TRUE, !.loading = FALSE])
    /\ listing' = Null
    /\ UNCHANGED <<asking, poll, pollKey, starting, server, stored, seen, lost>>

CapabilityAnswered ==
    /\ asking
    /\ \/ Callback([ui EXCEPT !.capability = (server = "idle")])
       \/ Callback([ui EXCEPT !.syncError = TRUE])
    /\ asking' = FALSE
    /\ UNCHANGED <<listing, poll, pollKey, starting, server, stored, seen, lost>>

Submitted == [ui EXCEPT !.submitting = FALSE]

(* The capability is changed only if there is one.                         *)
NotAgain(u) == [u EXCEPT !.capability = IF @ = Null THEN Null ELSE FALSE]

(* 202, or 409 with the request that runs, or the answer of a poll.         *)
Follow(u, run) == [u EXCEPT !.sync = "running", !.run = run, !.answers = After(@, 1)]

(* Runs are numbered in the order in which they end: the one under way.     *)
RunUnderWay == stored + 1

SyncAccepted ==
    /\ starting /\ server = "idle" /\ stored < MaxRuns
    /\ Callback(NotAgain(Follow(Submitted, RunUnderWay)))
    /\ server' = "request"
    /\ starting' = FALSE
    /\ UNCHANGED <<listing, asking, poll, pollKey, stored, seen, lost>>

(* A run that a request started, of whichever page or user, is followed; any *)
(* other has no id to follow.  The answer may be lost after a run started.   *)
SyncRefused ==
    /\ starting
    /\ \/ /\ server = "request"
          /\ Callback([Follow(Submitted, RunUnderWay) EXCEPT !.syncError = TRUE])
          /\ UNCHANGED server
       \/ Callback([Submitted EXCEPT !.syncError = TRUE])
          /\ server' \in {server} \union (IF server = "idle" /\ stored < MaxRuns
                                          THEN {"request"} ELSE {})
    /\ starting' = FALSE
    /\ UNCHANGED <<listing, asking, poll, pollKey, stored, seen, lost>>

PollTimer ==
    /\ ~urgent
    /\ poll = "timer"
    /\ poll' = "asked"
    /\ UNCHANGED <<ui, shown, due, urgent, ran, listing, asking, pollKey, pollRun, starting,
                   server, stored, seen, lost, inputs>>

StillRunning ==
    /\ poll = "asked" /\ stored < pollRun
    /\ Callback(Follow(ui, pollRun))
    /\ poll' = "none"
    /\ UNCHANGED <<listing, asking, pollKey, starting, server, stored, seen, lost>>

(* Mutant: only the capability is asked for again.                         *)
SyncOverWithoutReload(u) == [u EXCEPT !.sync = "ended", !.refresh = @ + 1]

(* The run ended: the list is loaded again from its first page.            *)
SyncOver(u) ==
    [u EXCEPT !.sync = "ended", !.navigation = Reset(pollKey), !.result = Null,
              !.retry = @ + 1, !.refresh = @ + 1]

PollEnded ==
    /\ poll = "asked" /\ stored >= pollRun
    /\ Callback(SyncOver(ui))
    /\ poll' = "none"
    /\ seen' = stored
    /\ UNCHANGED <<listing, asking, pollKey, starting, server, stored, lost>>

(* No answer, or a request the server does not know any more.              *)
PollFailed ==
    /\ poll = "asked"
    /\ Callback([ui EXCEPT !.syncError = TRUE])
    /\ poll' = "none"
    /\ lost' = TRUE
    /\ UNCHANGED <<listing, asking, pollKey, starting, server, stored, seen>>

-----------------------------------------------------------------------------
(* Collections of the plugin on the server.                                *)
OtherStarts ==
    /\ ~urgent
    /\ server = "idle" /\ stored < MaxRuns
    /\ server' \in {"request", "other"}
    /\ UNCHANGED <<ui, shown, due, urgent, ran, listing, asking, poll, pollKey, pollRun, starting,
                   stored, seen, lost, inputs>>

RunEnds ==
    /\ ~urgent
    /\ server # "idle" /\ stored < MaxRuns
    /\ server' = "idle"
    /\ stored' = stored + 1
    /\ UNCHANGED <<ui, shown, due, urgent, ran, listing, asking, poll, pollKey, pollRun, starting,
                   seen, lost, inputs>>

-----------------------------------------------------------------------------
UserActs ==
    \/ \E text \in Text : SetQ(text)
    \/ \E draft \in Draft : UpdateFilter(draft)
    \/ SubmitSearch \/ ClearSearch \/ ChangeSort \/ Retry \/ BeginSync
    \/ \E limit \in PageSize : ChangeLimit(limit)
    \/ \E page \in 1..MaxPages : ChangePage(page)

Answered ==
    \/ ListAnswered \/ ListFailed \/ CapabilityAnswered \/ SyncAccepted \/ SyncRefused
    \/ PollTimer \/ StillRunning \/ PollEnded \/ PollFailed

Next == Render \/ RunEffects \/ UserActs \/ Answered \/ OtherStarts \/ RunEnds

Spec == Init /\ [][Next]_vars

-----------------------------------------------------------------------------
(* Rows are only ever shown under the conditions, order and page size they   *)
(* were asked for, also while others load: an answer that comes after the    *)
(* user changed them is not shown (docs/client-development.md:142, 208).     *)
RowsMatchConditions ==
    LET result == VisibleResult(shown)
    IN  result # Null =>
            /\ result.conditions = shown.conditions
            /\ result.limit = shown.limit
            /\ result.sort = shown.sort

(* A list at rest is the page it says it is, and was asked for after the     *)
(* last run this component saw the end of.                                  *)
SettledViewIsCurrent ==
    ~Busy(shown) /\ ~due /\ ui = shown /\ ~VisibleError(shown) /\ VisibleResult(shown) # Null =>
        /\ shown.result.page = shown.navigation.page
        /\ shown.result.at >= seen

(* A list that is busy waits for something: there is a request that was not  *)
(* cancelled, or React has yet to render or run its effects.                *)
BusyIsWaiting ==
    Busy(ui) => listing # Null \/ due \/ urgent \/ ui # shown

(* A run that is shown as running is polled, unless the last poll of it       *)
(* failed: every answer arms the next poll, also one with the status there   *)
(* was, and so does the 409 whose run is followed.                          *)
RunIsPolled ==
    Active(ui) /\ ~lost => poll # "none" \/ due \/ urgent \/ ui # shown

(* docs/client-development.md:150: while a run is accepted or running its    *)
(* status is polled, until it is final.  A poll that fails is the last one.  *)
PollsUntilFinal ==
    Active(ui) => poll # "none" \/ due \/ urgent \/ ui # shown

=============================================================================
