------------------------------- MODULE QueuePage -------------------------------
(***************************************************************************)
(* The approval queue of the web console (queue/page.tsx) against the API. *)
(* A handler works with the filter and the selection of the rendering its  *)
(* button was on, while requests that were sent earlier come back in any   *)
(* order, and nothing tells an old answer from a new one.                  *)
(***************************************************************************)
EXTENDS Integers, Sequences, FiniteSets, SequencesExt

CONSTANTS
  Order,        \* the suggestions, in the order the API lists them
  PageSize,
  BulkLimit,    \* of bulk-approve and bulk-decline
  Gets, Posts,  \* names of requests: bound on those under way at a time
  MaxEvents     \* bound on clicks, on decisions of others and on expiries

VARIABLES
  status,       \* the suggestions, in the database
  filters,      \* the filter in use: status and page
  currentPage, totalCount,
  suggestions,  \* the rows held: what a GET read
  loading,      \* skeletons in place of the rows
  selectedIds,
  actionLoadingId,  \* {} or the suggestion whose buttons are disabled
  bulkLoading,
  simRunning,   \* the page refreshes itself
  get,          \* GETs under way
  post,         \* POSTs under way, and what their handler knows
  events,       \* of those that are bounded, so far
  picked,       \* suggestions selected by a click and not let go since
  slipped,      \* suggestions let go while a POST was under way
  shown,        \* the view whose rows are held, none before the first answer
  astray,       \* the view changed while a request was under way, or a GET failed
  decided,      \* suggestions this page has decided
  repeatable,   \* those whose row may show an older status
  repeats       \* decided suggestions sent again without being repeatable

page == <<filters, currentPage, totalCount, suggestions, loading, selectedIds,
          actionLoadingId, bulkLoading, simRunning>>
net == <<get, post>>
ghosts == <<picked, slipped, shown, astray, decided, repeatable, repeats>>
vars == <<status, page, net, events, ghosts>>

Suggestions == ToSet(Order)
FilterStatus == {"pending", "expired", "all"}

NoGet == [at |-> "free", view |-> {}, by |-> {}, rows |-> {}, total |-> 0]
\* A GET is asked for by the handler of a POST, by the timer or by the effect.
Timer == {"timer"}

NoPost == [at |-> "free", ids |-> {}, bulk |-> FALSE, kind |-> "none", view |-> {},
           sel |-> {}, owner |-> {}, current |-> FALSE]

Count == events < MaxEvents /\ events' = events + 1

\* A GET of fetchSuggestions under way, for the effect or for the handler of a POST.
Fetch(n, view, by) ==
  /\ get[n].at = "free"
  /\ get' = [get EXCEPT ![n] = [NoGet EXCEPT !.at = "sent", !.view = {view}, !.by = by]]
  /\ loading' = TRUE

Init ==
  /\ status = [s \in Suggestions |-> "pending"]
  /\ filters = [status |-> "pending", page |-> 1]
  /\ currentPage = 1
  /\ totalCount = 0
  /\ suggestions = {}
  /\ loading = TRUE
  /\ selectedIds = {}
  /\ actionLoadingId = {}
  /\ bulkLoading = FALSE
  /\ simRunning = FALSE
  /\ get = [n \in Gets |->
              IF n = CHOOSE m \in Gets : TRUE
              THEN [NoGet EXCEPT !.at = "sent", !.view = {filters}, !.by = {}]
              ELSE NoGet]
  /\ post = [p \in Posts |-> NoPost]
  /\ events = 0
  /\ picked = {} /\ slipped = {} /\ shown = {} /\ astray = FALSE
  /\ decided = {} /\ repeatable = {} /\ repeats = {}

--------------------------------------------------------------------------------
(* The API. *)

\* The places, in Order, of the suggestions that the view's filter lets through.
Listed(view) == {i \in DOMAIN Order : view.status \in {"all", status[Order[i]]}}

Rank(i, view) == Cardinality({j \in Listed(view) : j <= i})

\* The rows of a page and the count are read together, as far as the page can tell.
Serve(n) ==
  /\ get[n].at = "sent"
  /\ \E view \in get[n].view :
       LET from == (view.page - 1) * PageSize
           rows == {i \in Listed(view) : from < Rank(i, view) /\ Rank(i, view) <= from + PageSize}
       IN  get' = [get EXCEPT ![n].at = "read", ![n].total = Cardinality(Listed(view)),
                     ![n].rows = {[id |-> Order[i], status |-> status[Order[i]]] : i \in rows}]
  /\ UNCHANGED <<status, page, post, events, ghosts>>

Decision(kind) == IF kind = "approve" THEN "approved" ELSE "declined"

Accepted(p) == ~(post[p].bulk /\ Cardinality(post[p].ids) > BulkLimit)

\* One suggestion, or each of several: what is no longer pending fails, and so
\* may an approval.  More than the limit are refused together.
Decide(p) ==
  /\ post[p].at = "sent"
  /\ LET pending == {s \in post[p].ids : status[s] = "pending"}
     IN  \E done \in IF ~Accepted(p) THEN {{}}
                     ELSE IF post[p].kind = "approve" THEN SUBSET pending ELSE {pending} :
           /\ status' = [s \in Suggestions |->
                           IF s \in done THEN Decision(post[p].kind) ELSE status[s]]
           /\ post' = [post EXCEPT ![p].at =
                IF (post[p].bulk /\ Accepted(p)) \/ done # {}
                THEN "done" ELSE "refused"]
  /\ UNCHANGED <<page, get, events, ghosts>>

Foreign(s, to) ==
  /\ status[s] = "pending"
  /\ status' = [status EXCEPT ![s] = to]
  /\ Count
  /\ UNCHANGED <<page, net, ghosts>>

--------------------------------------------------------------------------------
(* The view. *)

Idle == \A p \in Posts : post[p].at = "free"

\* The selection is a new Set: no handler under way holds the one on display.
Select(ids) ==
  /\ selectedIds' = ids
  /\ post' = [p \in Posts |-> [post[p] EXCEPT !.current = FALSE]]

LetGo(ids) ==
  /\ picked' = picked \ ids
  /\ slipped' = IF Idle THEN slipped \ ids ELSE slipped \cup (picked \cap ids)

\* A bug: the effect does not depend on the filters.
SetFiltersUnseen(n, new) ==
  /\ Count
  /\ filters' = new
  /\ get[n].at = "free" /\ UNCHANGED <<get, loading>>
  /\ astray' = (\/ \E m \in Gets \ {n} : get[m].at # "free"
                \/ \E p \in Posts : post[p].at # "free")
  /\ UNCHANGED <<status, currentPage, totalCount, suggestions, actionLoadingId,
                 bulkLoading, simRunning>>
  /\ UNCHANGED <<shown, decided, repeatable, repeats>>

\* New filters are a new object, so that the effect fetches.
SetFilters(n, new) ==
  /\ Count
  /\ filters' = new
  /\ Fetch(n, new, {})
  /\ astray' = (\/ \E m \in Gets \ {n} : get[m].at # "free"
                \/ \E p \in Posts : post[p].at # "free")
  /\ UNCHANGED <<status, currentPage, totalCount, suggestions, actionLoadingId,
                 bulkLoading, simRunning>>
  /\ UNCHANGED <<shown, decided, repeatable, repeats>>

\* A bug: the selection outlives the filter.
FilterKeepingSelection(n, new) ==
  /\ new.page = 1
  /\ SetFilters(n, new)
  /\ LetGo(Suggestions)
  /\ UNCHANGED <<selectedIds, post>>

Filter(n, new) ==
  /\ new.page = 1
  /\ SetFilters(n, new)
  /\ Select({})
  /\ LetGo(Suggestions)

\* Previous, Next, and "View all expired": the selection stays.
Turn(n, new) ==
  /\ \/ /\ new.status = filters.status
        /\ new.page \in {currentPage - 1, currentPage + 1}
        /\ new.page >= 1 /\ (new.page - 1) * PageSize < totalCount
     \/ /\ new = [status |-> "expired", page |-> 1] /\ filters.status # "expired"
        /\ \E s \in Suggestions : status[s] = "expired"
  /\ SetFilters(n, new)
  /\ UNCHANGED <<selectedIds, post, picked, slipped>>

\* The refresh of a running simulation does not show that it loads.
Refresh(n) ==
  /\ simRunning
  /\ get[n].at = "free"
  /\ \A m \in Gets : get[m].by # Timer
  /\ get' = [get EXCEPT ![n] = [NoGet EXCEPT !.at = "sent", !.view = {filters},
                                             !.by = Timer]]
  /\ UNCHANGED <<status, page, post, events, ghosts>>

SimToggle ==
  /\ Count
  /\ simRunning' = ~simRunning
  /\ UNCHANGED <<status, filters, currentPage, totalCount, suggestions, loading, selectedIds,
                 actionLoadingId, bulkLoading, net, ghosts>>

--------------------------------------------------------------------------------
(* Answers to GETs. *)

ByPost(n) == {p \in Posts : p \in get[n].by}

\* The handler of a POST ends with the selection of its own rendering, less the
\* suggestion it decided.  Set.delete changes the Set that handlers of the same
\* rendering hold.
Settle(n) ==
  IF ByPost(n) = {} THEN UNCHANGED <<selectedIds, actionLoadingId, bulkLoading, post>>
  ELSE \E p \in ByPost(n) :
         IF post[p].bulk
         THEN /\ bulkLoading' = FALSE
              /\ post' = [post EXCEPT ![p] = NoPost]
              /\ UNCHANGED <<selectedIds, actionLoadingId>>
         ELSE /\ selectedIds' = post[p].sel \ post[p].ids
              /\ actionLoadingId' = {}
              /\ post' = [q \in Posts |->
                            IF q = p THEN NoPost
                            ELSE [post[q] EXCEPT !.current = FALSE,
                                    !.sel = IF post[q].owner = post[p].owner
                                            THEN @ \ post[p].ids ELSE @]]
              /\ UNCHANGED bulkLoading

\* The rows are taken whatever the view is by now.  A page other than the one
\* shown makes the effect fetch again.
Arrive(n) ==
  /\ get[n].at = "read"
  /\ suggestions' = get[n].rows
  /\ totalCount' = get[n].total
  /\ shown' = get[n].view
  /\ repeatable' = repeatable \cup
       {s \in decided : [id |-> s, status |-> "pending"] \in get[n].rows}
  /\ IF get[n].by = Timer
     THEN /\ get' = [get EXCEPT ![n] = NoGet]
          /\ UNCHANGED <<currentPage, loading>>
     ELSE \E view \in get[n].view :
            /\ currentPage' = view.page
            /\ IF view.page = currentPage
               THEN get' = [get EXCEPT ![n] = NoGet] /\ loading' = FALSE
               ELSE /\ get' = [get EXCEPT ![n] = [NoGet EXCEPT !.at = "sent", !.view = {filters},
                                                               !.by = {}]]
                    /\ loading' = TRUE
  /\ Settle(n)
  /\ UNCHANGED <<status, filters, simRunning, events, picked, slipped, astray, decided, repeats>>

\* The rows held stay.
GetFails(n) ==
  /\ get[n].at # "free"
  /\ get' = [get EXCEPT ![n] = NoGet]
  /\ loading' = (get[n].by = Timer /\ loading)
  /\ Settle(n)
  /\ astray' = (astray \/ get[n].by # Timer)
  /\ repeatable' = repeatable \cup (IF ByPost(n) = {} THEN {} ELSE decided)
  /\ UNCHANGED <<status, filters, currentPage, totalCount, suggestions, simRunning, events>>
  /\ UNCHANGED <<picked, slipped, shown, decided, repeats>>

--------------------------------------------------------------------------------
(* Rows, buttons and POSTs. *)

Rows == IF loading THEN {} ELSE suggestions
PendingRows == {x.id : x \in {y \in Rows : y.status = "pending"}}

ToggleSelect(s) ==
  /\ Count
  /\ s \in PendingRows
  /\ IF s \in selectedIds
     THEN Select(selectedIds \ {s}) /\ LetGo({s})
     ELSE Select(selectedIds \cup {s}) /\ picked' = picked \cup {s} /\ slipped' = slipped \ {s}
  /\ UNCHANGED <<status, filters, currentPage, totalCount, suggestions, loading, actionLoadingId>>
  /\ UNCHANGED <<bulkLoading, simRunning, get, shown, astray, decided, repeatable, repeats>>

\* All pending rows, in place of what is selected on other pages.
ToggleSelectAll ==
  /\ Count
  /\ Rows # {}
  /\ LET new == IF PendingRows \subseteq selectedIds THEN {} ELSE PendingRows
     IN  /\ Select(new)
         /\ picked' = new
         /\ slipped' = (IF Idle THEN slipped ELSE slipped \cup (picked \ new)) \ new
  /\ UNCHANGED <<status, filters, currentPage, totalCount, suggestions, loading, actionLoadingId>>
  /\ UNCHANGED <<bulkLoading, simRunning, get, shown, astray, decided, repeatable, repeats>>

Clear ==
  /\ Count
  /\ selectedIds # {}
  /\ Select({})
  /\ LetGo(Suggestions)
  /\ UNCHANGED <<status, filters, currentPage, totalCount, suggestions, loading, actionLoadingId>>
  /\ UNCHANGED <<bulkLoading, simRunning, get, shown, astray, decided, repeatable, repeats>>

\* A POST, with what its handler will use: the view and the Set of the
\* rendering, which is the one another handler holds if nothing was selected since.
Send(p, ids, bulk, kind) ==
  /\ Count
  /\ post[p].at = "free"
  /\ LET same == {q \in Posts : post[q].current}
     IN  post' = [post EXCEPT ![p] =
           [at |-> "sent", ids |-> ids, bulk |-> bulk, kind |-> kind, view |-> {filters},
            sel |-> selectedIds, current |-> TRUE,
            owner |-> IF same = {} THEN {p} ELSE UNION {post[q].owner : q \in same}]]

\* Approve or Decline on a row: only the row of the latest click is disabled.
Act(p, s, kind) ==
  /\ s \in PendingRows \ actionLoadingId
  /\ Send(p, {s}, FALSE, kind)
  /\ actionLoadingId' = {s}
  /\ LET others == UNION {post[q].ids : q \in {r \in Posts : post[r].at # "free" /\ ~post[r].bulk}}
     IN  /\ repeatable' = repeatable \cup (IF others = {} THEN {} ELSE others \cup {s})
         /\ repeats' = repeats \cup ({s} \cap (decided \ repeatable))
  /\ UNCHANGED <<status, filters, currentPage, totalCount, suggestions, loading, selectedIds>>
  /\ UNCHANGED <<bulkLoading, simRunning, get, picked, slipped, shown, astray>>
  /\ UNCHANGED decided

\* All that is selected, on display or not.
Bulk(p, kind) ==
  /\ selectedIds # {} /\ ~bulkLoading
  /\ Send(p, selectedIds, TRUE, kind)
  /\ bulkLoading' = TRUE
  /\ UNCHANGED <<status, filters, currentPage, totalCount, suggestions, loading, selectedIds>>
  /\ UNCHANGED <<actionLoadingId, simRunning, get, ghosts>>

\* A bug: the buttons are enabled before the rows are read again.
AnsweredEnabling(p, n) ==
  /\ post[p].at = "done"
  /\ \E view \in post[p].view : Fetch(n, view, {p})
  /\ post' = [post EXCEPT ![p].at = "refetch"]
  /\ IF post[p].bulk
     THEN selectedIds' = {} /\ LetGo(Suggestions) /\ UNCHANGED <<decided, actionLoadingId>>
     ELSE /\ decided' = decided \cup post[p].ids
          /\ actionLoadingId' = {}
          /\ UNCHANGED <<selectedIds, picked, slipped>>
  /\ UNCHANGED <<status, filters, currentPage, totalCount, suggestions>>
  /\ UNCHANGED <<bulkLoading, simRunning, events, shown, astray, repeatable, repeats>>

\* The rows are read again with the view of the click; a bulk action lets the
\* selection go first.
Answered(p, n) ==
  /\ post[p].at = "done"
  /\ \E view \in post[p].view : Fetch(n, view, {p})
  /\ IF post[p].bulk
     THEN /\ selectedIds' = {}
          /\ post' = [q \in Posts |-> IF q = p THEN [post[q] EXCEPT !.at = "refetch"]
                                      ELSE [post[q] EXCEPT !.current = FALSE]]
          /\ LetGo(Suggestions)
          /\ UNCHANGED decided
     ELSE /\ post' = [post EXCEPT ![p].at = "refetch"]
          /\ decided' = decided \cup post[p].ids
          /\ UNCHANGED <<selectedIds, picked, slipped>>
  /\ UNCHANGED <<status, filters, currentPage, totalCount, suggestions, actionLoadingId>>
  /\ UNCHANGED <<bulkLoading, simRunning, events, shown, astray, repeatable, repeats>>

\* An error, or no answer, whatever the API has done by then.
PostFails(p) ==
  /\ post[p].at \in {"sent", "done", "refused"}
  /\ post' = [post EXCEPT ![p] = NoPost]
  /\ IF post[p].bulk THEN bulkLoading' = FALSE /\ UNCHANGED actionLoadingId
     ELSE actionLoadingId' = {} /\ UNCHANGED bulkLoading
  /\ UNCHANGED <<status, filters, currentPage, totalCount, suggestions, loading, selectedIds>>
  /\ UNCHANGED <<simRunning, get, events, ghosts>>

Views == [status : FilterStatus, page : 1 .. Len(Order)]

Next ==
  \/ \E n \in Gets :
       \/ Serve(n) \/ Arrive(n) \/ GetFails(n) \/ Refresh(n)
       \/ \E view \in Views : Filter(n, view) \/ Turn(n, view)
       \/ \E p \in Posts : Answered(p, n)
  \/ \E s \in Suggestions :
       \/ ToggleSelect(s)
       \/ \E to \in {"approved", "declined", "expired"} : Foreign(s, to)
       \/ \E p \in Posts, kind \in {"approve", "decline"} : Act(p, s, kind)
  \/ \E p \in Posts :
       \/ Decide(p) \/ PostFails(p)
       \/ \E kind \in {"approve", "decline"} : Bulk(p, kind)
  \/ ToggleSelectAll \/ Clear \/ SimToggle

Spec == Init /\ [][Next]_vars

--------------------------------------------------------------------------------
\* What a bulk action would send was selected by a click and not let go since,
\* by a click, a filter or an earlier bulk action: except for what was let go
\* while a POST was under way, which the handler's old selection brings back.
SelectionWasMeant == selectedIds \subseteq picked \cup slipped

\* Once no request is under way the rows held are those of the filter in use,
\* unless the filter was changed while a request was under way or a GET failed.
RowsMatchFilter ==
  ((\A n \in Gets : get[n].at = "free") /\ Idle /\ ~astray) => shown = {filters}

\* What the page has decided it does not send again, unless two actions were
\* under way at a time, the GET that follows an action failed, or rows that
\* were read before the decision came in after it.
NotDecidedTwice == repeats = {}
================================================================================
