------------------------------- MODULE SearchBox -------------------------------
(***************************************************************************)
(* The two boxes of the home page that suggest while one types: events for *)
(* the text and the city, and cities.  An effect of React follows the      *)
(* text: it aborts what the last one started and, 250 ms later, asks the   *)
(* API.  An aborted request may still be answered; the handler then looks  *)
(* at the signal and stops.                                                *)
(*                                                                         *)
(* A suggestion is known by the query it answers and its place in the      *)
(* list.  The city box and the search box have the same code but for the   *)
(* reference that keeps a chosen city from being searched again.           *)
(***************************************************************************)
EXTENDS Integers

CONSTANTS
  Words,      \* texts of at least two letters
  MaxFound,   \* suggestions an answer brings at most
  MaxEdits    \* changes of a text, a bound for TLC

VARIABLES
  boxes,   \* React state of the two boxes and their timers
  skip,    \* skipNextCitySuggestionsRef
  asked,   \* requests under way, with the state of their signal
  edits    \* changes so far

vars == <<boxes, skip, asked, edits>>

Names == {"search", "city"}
Texts == Words \cup {"short"}   \* "short": fewer than two letters
None == <<>>

Empty == [text |-> "short", open |-> FALSE, loading |-> FALSE, active |-> -1,
          shown |-> None, size |-> 0, timer |-> FALSE]

Init ==
  /\ boxes = [b \in Names |-> Empty]
  /\ skip = FALSE
  /\ asked = {}
  /\ edits = 0

\* What the box asks for: the cities' box only its own text.
Query(bs, b) == IF b = "search" THEN <<bs["search"].text, bs["city"].text>>
                ELSE <<bs["city"].text>>

Aborted(b) == {[r EXCEPT !.aborted = @ \/ r.box = b] : r \in asked}

------------------------------------------------------------------------------
(* Typing *)

\* The effect of [city, search]: a short text starts nothing.
Restarted(bs) == [bs EXCEPT !["search"].timer = bs["search"].text \in Words]

\* Too short a text empties the list at once.
Typed(box, t) ==
  IF t \in Words THEN [box EXCEPT !.text = t]
  ELSE [box EXCEPT !.text = t, !.shown = None, !.size = 0, !.open = FALSE,
                   !.loading = FALSE]

ChangeSearch(t) ==
  /\ edits < MaxEdits /\ t # boxes["search"].text
  /\ LET box == Typed(boxes["search"], t)
         calm == IF t \in Words THEN box ELSE [box EXCEPT !.active = -1]
     IN boxes' = Restarted([boxes EXCEPT !["search"] = calm])
  /\ asked' = Aborted("search")
  /\ edits' = edits + 1
  /\ UNCHANGED skip

\* Both effects follow the city; the one after a choice does not search it.
FollowCity(bs, skipping) ==
  LET long == bs["city"].text \in Words
  IN /\ boxes' = Restarted([bs EXCEPT !["city"].timer = long /\ ~skipping])
     /\ skip' = (skipping /\ ~long)
     /\ asked' = {[r EXCEPT !.aborted = TRUE] : r \in asked}

ChangeCity(t) ==
  /\ edits < MaxEdits /\ t # boxes["city"].text
  /\ FollowCity([boxes EXCEPT !["city"] = [Typed(@, t) EXCEPT !.active = -1]], skip)
  /\ edits' = edits + 1

------------------------------------------------------------------------------
(* Asking and answering *)

Fire(b) ==
  /\ boxes[b].timer
  /\ boxes' = [boxes EXCEPT ![b].timer = FALSE, ![b].loading = TRUE]
  /\ asked' = asked \cup {[box |-> b, query |-> Query(boxes, b), aborted |-> FALSE]}
  /\ UNCHANGED <<skip, edits>>

\* Mutant: the handler does not look at the signal.
Heeded_Always(r) == TRUE

Heeded(r) == ~r.aborted

\* The answer, or a failure (n = -1), of a request that was not aborted.
Outcome(box, r, n) ==
  IF n >= 0
  THEN [box EXCEPT !.shown = r.query, !.size = n, !.open = TRUE, !.active = -1,
                   !.loading = FALSE]
  ELSE [box EXCEPT !.shown = None, !.size = 0, !.open = FALSE, !.loading = FALSE]

Answered(r) ==
  /\ r \in asked
  /\ asked' = asked \ {r}
  /\ \E n \in -1 .. MaxFound :
       boxes' = IF Heeded(r) THEN [boxes EXCEPT ![r.box] = Outcome(@, r, n)] ELSE boxes
  /\ UNCHANGED <<skip, edits>>

------------------------------------------------------------------------------
(* Choosing, with the keyboard or the mouse *)

\* A chosen city, which may be the text already typed: then no effect runs and
\* the reference stays set for the next text.
SelectCity(c) ==
  LET bs == [boxes EXCEPT !["city"].text = c, !["city"].open = FALSE,
                          !["city"].active = -1]
  IN IF c = boxes["city"].text
     THEN /\ boxes' = bs
          /\ skip' = TRUE
          /\ UNCHANGED <<asked, edits>>
     ELSE /\ edits < MaxEdits
          /\ FollowCity(bs, TRUE)
          /\ edits' = edits + 1

\* A chosen event leaves the page, which is mounted afresh on the way back.
Leave ==
  /\ boxes' = [b \in Names |-> Empty]
  /\ skip' = FALSE
  /\ asked' = {[r EXCEPT !.aborted = TRUE] : r \in asked}
  /\ UNCHANGED edits

Choose(b) == IF b = "search" THEN Leave ELSE \E c \in Words : SelectCity(c)

Rolled(box, key) ==
  IF key = "ArrowDown" THEN (box.active + 1) % box.size
  ELSE IF box.active <= 0 THEN box.size - 1 ELSE box.active - 1

\* The keys act on the list even while its spinner hides it.
Arrow(b, key) ==
  /\ boxes[b].open /\ boxes[b].size > 0
  /\ boxes' = [boxes EXCEPT ![b].active = Rolled(boxes[b], key)]
  /\ UNCHANGED <<skip, asked, edits>>

Enter(b) ==
  /\ boxes[b].open /\ boxes[b].active \in 0 .. boxes[b].size - 1
  /\ Choose(b)

\* An open list without suggestions only closes.
Escape(b) ==
  /\ boxes[b].open
  /\ boxes' = [boxes EXCEPT ![b].open = FALSE,
                            ![b].active = IF boxes[b].size > 0 THEN -1 ELSE @]
  /\ UNCHANGED <<skip, asked, edits>>

\* The list drawn, and what the mouse may do to it.
Listed(b) == IF boxes[b].open /\ ~boxes[b].loading THEN 0 .. boxes[b].size - 1 ELSE {}

Hover(b) ==
  /\ \E i \in Listed(b) : boxes' = [boxes EXCEPT ![b].active = i]
  /\ UNCHANGED <<skip, asked, edits>>

Click(b) == Listed(b) # {} /\ Choose(b)

Focus(b) ==
  /\ boxes[b].text \in Words
  /\ boxes' = [boxes EXCEPT ![b].open = TRUE]
  /\ UNCHANGED <<skip, asked, edits>>

\* 150 ms after the box is left; submitting the form closes the events' list.
Blur(b) ==
  /\ boxes' = [boxes EXCEPT ![b].open = FALSE]
  /\ UNCHANGED <<skip, asked, edits>>

Next ==
  \/ \E t \in Texts : ChangeSearch(t) \/ ChangeCity(t)
  \/ \E b \in Names : \/ Fire(b) \/ Enter(b) \/ Escape(b) \/ Hover(b) \/ Click(b)
                      \/ Focus(b) \/ Blur(b)
                      \/ \E key \in {"ArrowDown", "ArrowUp"} : Arrow(b, key)
  \/ \E r \in asked : Answered(r)

Spec == Init /\ [][Next]_vars

------------------------------------------------------------------------------
(* Properties *)

\* With no timer set and no request the box still listens to, the events
\* suggested answer the text and the city as they are now, or none are, and the
\* spinner is gone: whatever was typed in either box meanwhile, in whatever
\* order the answers of aborted requests came.
SuggestionsFitText ==
  ~boxes["search"].timer /\ (\A r \in asked : r.box = "search" => r.aborted)
    => /\ boxes["search"].shown \in {None, Query(boxes, "search")}
       /\ boxes["search"].text = "short" => boxes["search"].shown = None
       /\ ~boxes["search"].loading

------------------------------------------------------------------------------
(* The inductive invariant behind the theorem of PagesProofs *)

Queries == (Texts \X Texts) \cup {<<t>> : t \in Texts}

Box == [text : Texts, open : BOOLEAN, loading : BOOLEAN, active : Int,
        shown : {None} \cup Queries, size : Int, timer : BOOLEAN]

\* A request the box listens to asks for what is typed, was sent by the last timer
\* set, and is the only one; a text too short has no list, no spinner, no timer.
SearchInv ==
  /\ boxes \in [Names -> Box]
  /\ asked \subseteq [box : Names, query : Queries, aborted : BOOLEAN]
  /\ \A r \in asked :
       r.box = "search" /\ ~r.aborted =>
         /\ r.query = Query(boxes, "search")
         /\ boxes["search"].text \in Words /\ ~boxes["search"].timer
  /\ boxes["search"].text \notin Words =>
       boxes["search"].shown = None /\ ~boxes["search"].loading /\ ~boxes["search"].timer
  /\ SuggestionsFitText
===============================================================================
