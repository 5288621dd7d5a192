--------------------------------- MODULE Lists ---------------------------------
(***************************************************************************)
(* The paged lists: the catalogue of the home page, the events of the      *)
(* administration and its records (orders, tickets, users).  The catalogue *)
(* asks where a filter is chosen and keeps the page of the last answer;    *)
(* the administration keeps page and filter in its state and an effect     *)
(* asks whenever they change.  The page buttons start from the answer on   *)
(* the screen, those of the records from the page in the state.  No        *)
(* request is aborted: the last answer to come is the one on the screen.   *)
(***************************************************************************)
EXTENDS Integers, FiniteSets

CONSTANTS
  Filters,    \* combinations of text, city, category, status or role
  Pages,      \* the number of pages the server has for each
  MaxAsked    \* requests, a bound for TLC

VARIABLES
  kind,      \* "home", "events" or "records"
  list,      \* React state; of: the request whose answer is on the screen
  asking,    \* requests under way
  last,      \* the request made last
  asked      \* how many so far

vars == <<kind, list, asking, last, asked>>

\* No filter at first; that of the events is the queue of the moderation.
Init ==
  /\ kind \in {"home", "events", "records"}
  /\ \E f \in Filters :
       /\ last = [filters |-> f, page |-> 1]
       /\ list = [filters |-> f, page |-> 1, front |-> 1, loading |-> TRUE,
                  error |-> FALSE, rows |-> FALSE, totalPages |-> 1, of |-> last]
  /\ asking = {last}
  /\ asked = 1

\* load(), loadEvents()
Ask(l, f, p) ==
  /\ asked < MaxAsked /\ asked' = asked + 1
  /\ last' = [filters |-> f, page |-> p]
  /\ asking' = asking \cup {last'}
  /\ list' = [l EXCEPT !.loading = TRUE, !.error = FALSE]
  /\ UNCHANGED kind

\* The list shows its rows only when there are any.
Drawn == ~list.loading /\ ~list.error /\ list.rows

------------------------------------------------------------------------------
(* Choosing *)

\* chooseCategory(), submit(): asks even for the filters it has.
ChooseHome(f) ==
  /\ kind = "home"
  /\ Ask([list EXCEPT !.filters = f], f, 1)

\* submitSearch(), the select's onValueChange: one render, one effect.
ChooseAdmin(f) ==
  /\ kind # "home"
  /\ <<f, 1>> # <<list.filters, list.page>>
  /\ Ask([list EXCEPT !.filters = f, !.page = 1], f, 1)

\* The page buttons stand under the rows; one that leads nowhere is disabled.
PageButton(p) == Drawn /\ p \in 1 .. list.totalPages

\* changePage(), onChange of the buttons.  A page set to what it is asks nothing.
ChangePage(delta) ==
  LET p == (IF kind = "records" THEN list.page ELSE list.front) + delta
  IN /\ PageButton(p)
     /\ kind # "home" => p # list.page
     /\ Ask(IF kind = "home" THEN list ELSE [list EXCEPT !.page = p], list.filters, p)

\* The button of an error.
Retry ==
  /\ ~list.loading /\ list.error
  /\ Ask(list, list.filters, list.page)

------------------------------------------------------------------------------
(* The answer *)

\* orders(), tickets(), users() of AdminService: the rows are counted and read in one
\* transaction.
TotalPages(r) == Pages[r.filters]

\* A page beyond the last has no rows.
Rows(r) == r.page <= TotalPages(r)

\* events() of AdminService, which answers with the page it was asked for.
Answer(r) == [rows |-> Rows(r), totalPages |-> TotalPages(r), page |-> r.page]

\* Mutant: the administration takes its page from the answer, too.
KeptPage_Answered(p) == p

\* The catalogue takes the page from the answer; the administration's data does
\* not change the page it keeps.
KeptPage(p) == IF kind = "home" THEN p ELSE list.page

Answered(r) ==
  LET data == Answer(r)
  IN /\ r \in asking
     /\ asking' = asking \ {r}
     /\ list' = [list EXCEPT !.loading = FALSE, !.rows = data.rows,
                             !.totalPages = data.totalPages, !.front = data.page,
                             !.page = KeptPage(data.page), !.of = r]
     /\ UNCHANGED <<kind, last, asked>>

\* A problem of the API.
Failed(r) ==
  /\ r \in asking
  /\ asking' = asking \ {r}
  /\ list' = [list EXCEPT !.loading = FALSE, !.error = TRUE, !.rows = FALSE,
                          !.totalPages = 1, !.front = r.page,
                          !.page = KeptPage(r.page), !.of = r]
  /\ UNCHANGED <<kind, last, asked>>

\* The promise rejects: the list keeps its spinner.
Lost(r) ==
  /\ r \in asking
  /\ asking' = asking \ {r}
  /\ UNCHANGED <<kind, list, last, asked>>

Next ==
  \/ \E f \in Filters : ChooseHome(f) \/ ChooseAdmin(f)
  \/ \E delta \in {-1, 1} : ChangePage(delta)
  \/ Retry
  \/ \E r \in asking : Answered(r) \/ Failed(r) \/ Lost(r)

Spec == Init /\ [][Next]_vars

------------------------------------------------------------------------------
(* Properties *)

\* The answer on the screen is to another request than the last: it came late, or the
\* last one has not come yet.
Late == ~list.loading /\ list.of # last

Exists(r) == r.page = 1 \/ Rows(r)

\* Nothing aborts a request, and page and filters are kept in several places.  Unless
\* the answer on the screen is a late one, a list goes on asking for pages that the
\* filters chosen have; and Retry repeats the request made last, in the administration
\* after a late answer or failure too, of whatever page of whatever filters it was.
RequestsFitChoice ==
  [][/\ asked' # asked /\ Exists(last) /\ ~Late => Exists(last')
     /\ Retry /\ (Late => kind # "home") => last' = last]_vars

------------------------------------------------------------------------------
(* The invariant behind the theorem of PagesProofs *)

Fields == {"filters", "page", "front", "loading", "error", "rows", "totalPages", "of"}

\* The filters in the state are those of the request made last, and so is the page of
\* the administration; an answer to it brought its page and the number of pages.
ListInv ==
  /\ DOMAIN list = Fields
  /\ list.filters = last.filters /\ last.filters \in Filters
  /\ last = [filters |-> last.filters, page |-> last.page]
  /\ list.page \in Int /\ last.page \in Int /\ \A r \in asking : r.page \in Int
  /\ kind # "home" => list.page = last.page
  /\ ~list.loading /\ list.of = last =>
       /\ list.page = last.page /\ list.front = last.page
       /\ list.rows => list.totalPages = TotalPages(last)
===============================================================================
