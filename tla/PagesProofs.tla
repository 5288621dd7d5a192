------------------------------ MODULE PagesProofs ------------------------------
(***************************************************************************)
(* Theorems about the pages of the browser, for every set of texts, CEPs,  *)
(* tickets and filters, and every bound: what stands on the screen belongs *)
(* to what was asked last, in whatever order the answers come.             *)
(***************************************************************************)
EXTENDS Clients, TLAPS

-----------------------------------------------------------------------------
(* From the programs to each of them *)

\* Every first state is one of each page.
LEMMA PagesInit ==
  ClientsInit => /\ Buying!Init /\ Searching!Init /\ Address!Init /\ Door!Init
                 /\ Paging!Init /\ Showing!Init
BY DEF ClientsInit

\* A step of the programs is a step of each page, or leaves it alone.
LEMMA PagesNext ==
  [ClientsNext]_clientsVars =>
    /\ [Buying!Next]_tab /\ [Searching!Next]_search /\ [Address!Next]_address
    /\ [Door!Next]_gate /\ [Paging!Next]_paged /\ [Showing!Next]_shown
BY DEF ClientsNext, clientsVars, Buys, Searches, FillsIn, LetsIn, Turns, Shows, Seeds,
       Limits, Reports

-----------------------------------------------------------------------------
(* The gate *)

\* A page that has not scanned anything meets the gate's invariant.
LEMMA GateInit == Door!Init => Door!GateInv
BY DEF Door!Init, Door!GateInv, Door!Screen, Door!Opened, Door!AnswerFitsCode

\* Nothing is sent while a code is under way, so an answer finds the code it
\* answers on the screen.
LEMMA GateStep ==
  ASSUME Door!GateInv, [Door!Next]_gate
  PROVE  Door!GateInv'
<1> USE DEF Door!GateInv, Door!Screen, Door!AnswerFitsCode
<1>1. CASE Door!Loaded
  BY <1>1 DEF Door!Loaded
<1>2. CASE Door!Reload
  BY <1>2 DEF Door!Reload, Door!Opened
<1>3. CASE Door!StartCamera
  BY <1>3 DEF Door!StartCamera, Door!Cleared
<1>4. CASE Door!CameraReady
  BY <1>4 DEF Door!CameraReady
<1>5. CASE Door!CameraRefused
  BY <1>5 DEF Door!CameraRefused
<1>6. CASE Door!StopCamera
  BY <1>6 DEF Door!StopCamera
<1>7. ASSUME NEW t \in Tickets, Door!Frame(t) \/ Door!SubmitManual(t)
      PROVE  Door!GateInv'
  <2>1. ~screen.validating /\ posted = {} /\ posted' = {t} /\ used' = used
    BY <1>7 DEF Door!Frame, Door!SubmitManual, Door!Post, Door!Free
  <2>2. screen' = [Door!Cleared(screen) EXCEPT !.validating = TRUE, !.busy = TRUE, !.sent = t]
    BY <1>7 DEF Door!Frame, Door!SubmitManual, Door!Post
  <2> QED BY <2>1, <2>2 DEF Door!Cleared
<1>8. ASSUME NEW t \in Tickets, Door!Accepted(t)
      PROVE  Door!GateInv'
  BY <1>8 DEF Door!Accepted
<1>9. ASSUME NEW t \in Tickets, Door!Rejected(t)
      PROVE  Door!GateInv'
  BY <1>9 DEF Door!Rejected
<1>10. ASSUME NEW t \in Tickets, Door!Lost(t)
       PROVE  Door!GateInv'
  BY <1>10 DEF Door!Lost
<1>11. CASE Door!Reset
  BY <1>11 DEF Door!Reset, Door!Cleared
<1>12. CASE Door!Elsewhere
  BY <1>12 DEF Door!Elsewhere
<1>13. CASE UNCHANGED gate
  BY <1>13 DEF gate
<1> QED
  BY <1>1, <1>2, <1>3, <1>4, <1>5, <1>6, <1>7, <1>8, <1>9, <1>10, <1>11, <1>12, <1>13
     DEF Door!Next

\* The answer at the door is that of the last code sent, and nobody is let in on
\* a code the server has not marked.
THEOREM AnswersFitCodes == ClientsSpec => []AnswerFitsCode
<1>1. Door!GateInv => AnswerFitsCode
  BY DEF Door!GateInv, AnswerFitsCode
<1> QED BY <1>1, PagesInit, PagesNext, GateInit, GateStep, PTL DEF ClientsSpec

-----------------------------------------------------------------------------
(* The boxes that suggest *)

\* The literals the boxes are written with are of their types.
LEMMA Plain ==
  -1 \in Int /\ 0 \in Int /\ FALSE \in BOOLEAN /\ TRUE \in BOOLEAN
  /\ Searching!None \in {Searching!None} \cup Searching!Queries
OBVIOUS

\* Conditions the code writes into a field.
LEMMA Conditions ==
  ASSUME NEW t, NEW k
  PROVE  (t \in Words) \in BOOLEAN /\ (t \in Words /\ ~k) \in BOOLEAN
<1>1. (t \in Words) \in BOOLEAN
  <2>1. CASE t \in Words
    BY <2>1, (t \in Words) = TRUE, Zenon
  <2>2. CASE t \notin Words
    BY <2>2, (t \in Words) = FALSE, Zenon
  <2> QED BY <2>1, <2>2
<1>2. (t \in Words /\ ~k) \in BOOLEAN
  BY Zenon
<1> QED BY <1>1, <1>2

\* Boxes nobody typed in meet the search's invariant.
LEMMA SearchInit == Searching!Init => Searching!SearchInv
BY ClientsAssumption, Plain
   DEF Searching!Init, Searching!SearchInv, Searching!Box, Searching!Empty, Searching!Names,
       Searching!Texts, Searching!SuggestionsFitText

\* What the invariant says of the search box alone: its list and the requests it
\* listens to, for the texts of both boxes.
SearchFacts(bs, rs) ==
  /\ \A r \in rs :
       r.box = "search" /\ ~r.aborted =>
         /\ r.query = Searching!Query(bs, "search")
         /\ bs["search"].text \in Words /\ ~bs["search"].timer
  /\ bs["search"].text \notin Words =>
       bs["search"].shown = Searching!None /\ ~bs["search"].loading /\ ~bs["search"].timer
  /\ ~bs["search"].timer /\ (\A r \in rs : r.box = "search" => r.aborted) =>
       /\ bs["search"].shown \in {Searching!None, Searching!Query(bs, "search")}
       /\ ~bs["search"].loading

SearchType ==
  /\ boxes \in [Searching!Names -> Searching!Box]
  /\ fetches \subseteq [box : Searching!Names, query : Searching!Queries, aborted : BOOLEAN]

\* The search's invariant is its types and what is known of boxes and fetches.
LEMMA SearchInvFacts == Searching!SearchInv <=> SearchType /\ SearchFacts(boxes, fetches)
BY ClientsAssumption
   DEF Searching!SearchInv, SearchType, SearchFacts, Searching!SuggestionsFitText, Searching!Box,
       Searching!Texts, Searching!Names

\* A box may be put in the place of another.
LEMMA PutBox ==
  ASSUME NEW bs \in [Searching!Names -> Searching!Box], NEW b \in Searching!Names,
         NEW x \in Searching!Box
  PROVE  [bs EXCEPT ![b] = x] \in [Searching!Names -> Searching!Box]
OBVIOUS

\* Whatever is written into its fields, a box stays a box.
LEMMA BoxKept ==
  ASSUME NEW x \in Searching!Box
  PROVE  /\ \A t \in Searching!Texts : [x EXCEPT !.text = t] \in Searching!Box
         /\ \A o \in BOOLEAN : [x EXCEPT !.open = o] \in Searching!Box
         /\ \A o \in BOOLEAN : [x EXCEPT !.timer = o] \in Searching!Box
         /\ \A a \in Int : [x EXCEPT !.active = a] \in Searching!Box
         /\ \A o \in BOOLEAN, a \in Int : [x EXCEPT !.open = o, !.active = a] \in Searching!Box
         /\ \A o, l \in BOOLEAN : [x EXCEPT !.timer = o, !.loading = l] \in Searching!Box
         /\ \A t \in Searching!Texts, o \in BOOLEAN, a \in Int :
              [x EXCEPT !.text = t, !.open = o, !.active = a] \in Searching!Box
         /\ \A t \in Searching!Texts, o, l \in BOOLEAN, n \in Int,
               q \in {Searching!None} \cup Searching!Queries :
              [x EXCEPT !.text = t, !.shown = q, !.size = n, !.open = o, !.loading = l] \in Searching!Box
         /\ \A o, l \in BOOLEAN, n, a \in Int, q \in {Searching!None} \cup Searching!Queries :
              /\ [x EXCEPT !.shown = q, !.size = n, !.open = o, !.loading = l] \in Searching!Box
              /\ [x EXCEPT !.shown = q, !.size = n, !.open = o, !.active = a, !.loading = l]
                   \in Searching!Box
<1>1. \A t \in Searching!Texts : [x EXCEPT !.text = t] \in Searching!Box
  BY DEF Searching!Box
<1>2. \A o \in BOOLEAN : [x EXCEPT !.open = o] \in Searching!Box
  BY DEF Searching!Box
<1>3. \A o \in BOOLEAN : [x EXCEPT !.timer = o] \in Searching!Box
  BY DEF Searching!Box
<1>4. \A a \in Int : [x EXCEPT !.active = a] \in Searching!Box
  BY DEF Searching!Box
<1>5. \A o \in BOOLEAN, a \in Int : [x EXCEPT !.open = o, !.active = a] \in Searching!Box
  BY DEF Searching!Box
<1>6. \A o, l \in BOOLEAN : [x EXCEPT !.timer = o, !.loading = l] \in Searching!Box
  BY DEF Searching!Box
<1>7. \A t \in Searching!Texts, o \in BOOLEAN, a \in Int :
       [x EXCEPT !.text = t, !.open = o, !.active = a] \in Searching!Box
  BY DEF Searching!Box
<1>8. \A t \in Searching!Texts, o, l \in BOOLEAN, n \in Int,
        q \in {Searching!None} \cup Searching!Queries :
       [x EXCEPT !.text = t, !.shown = q, !.size = n, !.open = o, !.loading = l] \in Searching!Box
  BY DEF Searching!Box
<1>9. \A o, l \in BOOLEAN, n \in Int, q \in {Searching!None} \cup Searching!Queries :
       [x EXCEPT !.shown = q, !.size = n, !.open = o, !.loading = l] \in Searching!Box
  BY DEF Searching!Box
<1>10. \A o, l \in BOOLEAN, n, a \in Int, q \in {Searching!None} \cup Searching!Queries :
       [x EXCEPT !.shown = q, !.size = n, !.open = o, !.active = a, !.loading = l]
         \in Searching!Box
  BY DEF Searching!Box
<1> QED BY <1>1, <1>2, <1>3, <1>4, <1>5, <1>6, <1>7, <1>8, <1>9, <1>10

\* A box that is typed in is well typed and holds the text.
LEMMA TypedBox ==
  ASSUME NEW x \in Searching!Box, NEW t \in Searching!Texts
  PROVE  /\ Searching!Typed(x, t) \in Searching!Box
         /\ Searching!Typed(x, t).text = t
         /\ [Searching!Typed(x, t) EXCEPT !.active = -1] \in Searching!Box
<1>1. Searching!Typed(x, t) \in Searching!Box
  BY Plain, BoxKept DEF Searching!Typed
<1>2. Searching!Typed(x, t).text = t
  BY DEF Searching!Typed, Searching!Box
<1> QED BY <1>1, <1>2, Plain, BoxKept

\* Opening a box and walking through its list keeps the rest of it.
LEMMA BrowsedBox ==
  ASSUME NEW x \in Searching!Box, NEW o \in BOOLEAN, NEW a \in Int,
         NEW y \in {[x EXCEPT !.open = o], [x EXCEPT !.active = a],
                    [x EXCEPT !.open = o, !.active = a]}
  PROVE  /\ y \in Searching!Box
         /\ y.text = x.text /\ y.shown = x.shown /\ y.loading = x.loading /\ y.timer = x.timer
<1>1. CASE y = [x EXCEPT !.open = o]
  <2>1. y \in Searching!Box
    BY <1>1, BoxKept
  <2> QED BY <1>1, <2>1 DEF Searching!Box
<1>2. CASE y = [x EXCEPT !.active = a]
  <2>1. y \in Searching!Box
    BY <1>2, BoxKept
  <2> QED BY <1>2, <2>1 DEF Searching!Box
<1>3. CASE y = [x EXCEPT !.open = o, !.active = a]
  <2>1. y \in Searching!Box
    BY <1>3, BoxKept
  <2> QED BY <1>3, <2>1 DEF Searching!Box
<1> QED BY <1>1, <1>2, <1>3

\* The same for a box that is only opened or closed.
LEMMA OpenedBox ==
  ASSUME NEW x \in Searching!Box, NEW o \in BOOLEAN
  PROVE  /\ [x EXCEPT !.open = o] \in Searching!Box
         /\ [x EXCEPT !.open = o].text = x.text /\ [x EXCEPT !.open = o].shown = x.shown
         /\ [x EXCEPT !.open = o].loading = x.loading /\ [x EXCEPT !.open = o].timer = x.timer
<1>1. [x EXCEPT !.open = o] \in Searching!Box
  BY DEF Searching!Box
<1>2. /\ [x EXCEPT !.open = o].text = x.text /\ [x EXCEPT !.open = o].shown = x.shown
      /\ [x EXCEPT !.open = o].loading = x.loading /\ [x EXCEPT !.open = o].timer = x.timer
  BY DEF Searching!Box
<1> QED BY <1>1, <1>2

\* What the facts depend on: the two texts, and the list, spinner and timer of
\* the search box.
LEMMA SameSearch ==
  ASSUME NEW bs, NEW cs, NEW rs, SearchFacts(bs, rs),
         cs["search"].text = bs["search"].text, cs["city"].text = bs["city"].text,
         cs["search"].shown = bs["search"].shown, cs["search"].loading = bs["search"].loading,
         cs["search"].timer = bs["search"].timer
  PROVE  SearchFacts(cs, rs)
BY DEF SearchFacts, Searching!Query

\* An effect that aborted every request of the search box and set its timer if
\* there is something to ask for.
LEMMA FreshSearch ==
  ASSUME NEW bs, NEW rs,
         \A r \in rs : r.box = "search" => r.aborted,
         bs["search"].timer <=> (bs["search"].text \in Words),
         bs["search"].text \notin Words =>
           bs["search"].shown = Searching!None /\ ~bs["search"].loading
  PROVE  SearchFacts(bs, rs)
BY DEF SearchFacts

\* What a box asks the server for is a query.
LEMMA QueryType ==
  ASSUME SearchType, NEW b \in Searching!Names
  PROVE  Searching!Query(boxes, b) \in Searching!Queries
<1>1. boxes["search"].text \in Searching!Texts /\ boxes["city"].text \in Searching!Texts
  BY DEF SearchType, Searching!Names, Searching!Box
<1> QED BY <1>1 DEF Searching!Query, Searching!Queries

\* Typing in the text box keeps the search's invariant.
LEMMA ChangeSearchStep ==
  ASSUME SearchType, SearchFacts(boxes, fetches), NEW t \in Searching!Texts,
         Searching!ChangeSearch(t)
  PROVE  SearchType' /\ SearchFacts(boxes', fetches')
<1>1. fetches' = Searching!Aborted("search")
  BY DEF Searching!ChangeSearch
<1>2. /\ \A r \in fetches' : r.box = "search" => r.aborted
      /\ fetches' \subseteq [box : Searching!Names, query : Searching!Queries, aborted : BOOLEAN]
  BY <1>1 DEF Searching!Aborted, SearchType, Searching!Names
<1> DEFINE typed == Searching!Typed(boxes["search"], t)
           calm == IF t \in Words THEN typed ELSE [typed EXCEPT !.active = -1]
<1>3. boxes["search"] \in Searching!Box /\ typed \in Searching!Box /\ calm \in Searching!Box
  BY TypedBox DEF SearchType, Searching!Names
<1>4. calm.text = t /\ (t \notin Words => calm.shown = Searching!None /\ ~calm.loading)
  BY <1>3 DEF Searching!Typed, Searching!Box
<1>5. Searching!Restarted([boxes EXCEPT !["search"] = calm]) = boxes'
  BY DEF Searching!ChangeSearch
<1> HIDE DEF calm, typed
<1>6. boxes' = [boxes EXCEPT !["search"] = [calm EXCEPT !.timer = t \in Words]]
  BY <1>3, <1>4, <1>5 DEF Searching!Restarted, SearchType, Searching!Names
<1>7. [calm EXCEPT !.timer = t \in Words] \in Searching!Box
  BY <1>3, BoxKept, Conditions
<1>8. SearchType'
  BY <1>2, <1>6, <1>7, PutBox DEF SearchType, Searching!Names
<1>9. /\ boxes'["search"].timer <=> (boxes'["search"].text \in Words)
      /\ boxes'["search"].text \notin Words =>
           boxes'["search"].shown = Searching!None /\ ~boxes'["search"].loading
  BY <1>3, <1>4, <1>6 DEF SearchType, Searching!Names, Searching!Box
<1> QED BY <1>2, <1>8, <1>9, FreshSearch

\* Following the city restarts the search of the text that stands in the box.
LEMMA FollowCityStep ==
  ASSUME SearchType, SearchFacts(boxes, fetches), NEW bs \in [Searching!Names -> Searching!Box],
         bs["search"] = boxes["search"], NEW skipping,
         Searching!FollowCity(bs, skipping)
  PROVE  SearchType' /\ SearchFacts(boxes', fetches')
<1> DEFINE long == bs["city"].text \in Words
<1>1. /\ boxes' = [bs EXCEPT !["city"] = [bs["city"] EXCEPT !.timer = long /\ ~skipping],
                             !["search"] = [bs["search"] EXCEPT !.timer = bs["search"].text \in Words]]
      /\ fetches' = {[r EXCEPT !.aborted = TRUE] : r \in fetches}
  BY DEF Searching!FollowCity, Searching!Restarted, Searching!Names
<1>2. /\ \A r \in fetches' : r.aborted
      /\ fetches' \subseteq [box : Searching!Names, query : Searching!Queries, aborted : BOOLEAN]
  BY <1>1 DEF SearchType
<1>3. boxes' \in [Searching!Names -> Searching!Box]
  <2>1. /\ [bs["city"] EXCEPT !.timer = long /\ ~skipping] \in Searching!Box
        /\ [bs["search"] EXCEPT !.timer = bs["search"].text \in Words] \in Searching!Box
    BY BoxKept, Conditions DEF Searching!Names
  <2> QED BY <1>1, <2>1 DEF Searching!Names
<1>4. /\ boxes'["search"].timer <=> (boxes'["search"].text \in Words)
      /\ boxes'["search"].text \notin Words =>
           boxes'["search"].shown = Searching!None /\ ~boxes'["search"].loading
  BY <1>1 DEF SearchFacts, Searching!Names, Searching!Box
<1> QED BY <1>2, <1>3, <1>4, FreshSearch DEF SearchType

\* Leaving the page keeps the search's invariant: nothing is left under way.
LEMMA LeaveStep ==
  ASSUME SearchType, Searching!Leave
  PROVE  SearchType' /\ SearchFacts(boxes', fetches')
<1>1. /\ boxes' = [b \in Searching!Names |-> Searching!Empty]
      /\ fetches' = {[r EXCEPT !.aborted = TRUE] : r \in fetches}
  BY DEF Searching!Leave
<1>2. \A r \in fetches' : r.aborted
  BY <1>1 DEF SearchType
<1>3. SearchType'
  <2>1. Searching!Empty \in Searching!Box
    BY Plain DEF Searching!Empty, Searching!Box, Searching!Texts
  <2> QED BY <1>1, <2>1 DEF SearchType
<1>4. /\ boxes'["search"].timer <=> (boxes'["search"].text \in Words)
      /\ boxes'["search"].shown = Searching!None /\ ~boxes'["search"].loading
  <2>1. boxes'["search"] = Searching!Empty /\ "short" \notin Words
    BY <1>1, ClientsAssumption DEF Searching!Names
  <2>2. /\ Searching!Empty.text = "short" /\ Searching!Empty.shown = Searching!None
        /\ Searching!Empty.timer = FALSE /\ Searching!Empty.loading = FALSE
    BY DEF Searching!Empty
  <2> QED BY <2>1, <2>2
<1> QED BY <1>2, <1>3, <1>4, FreshSearch

\* Choosing a suggestion keeps the search's invariant.
LEMMA ChooseStep ==
  ASSUME SearchType, SearchFacts(boxes, fetches), NEW b \in Searching!Names, Searching!Choose(b)
  PROVE  SearchType' /\ SearchFacts(boxes', fetches')
<1>1. CASE b = "search"
  BY <1>1, LeaveStep DEF Searching!Choose
<1>2. ASSUME NEW c \in Words, Searching!SelectCity(c)
      PROVE  SearchType' /\ SearchFacts(boxes', fetches')
  <2> DEFINE bs == [boxes EXCEPT !["city"] =
                      [boxes["city"] EXCEPT !.text = c, !.open = FALSE, !.active = -1]]
  <2>1. bs \in [Searching!Names -> Searching!Box] /\ bs["search"] = boxes["search"]
    <3>1. [boxes["city"] EXCEPT !.text = c, !.open = FALSE, !.active = -1] \in Searching!Box
      BY Plain, BoxKept DEF SearchType, Searching!Names, Searching!Texts
    <3> QED BY <3>1, PutBox DEF SearchType, Searching!Names
  <2>2. CASE c = boxes["city"].text
    <3>1. boxes' = bs /\ fetches' = fetches
      BY <1>2, <2>2 DEF Searching!SelectCity, SearchType, Searching!Names
    <3>2. bs["city"].text = boxes["city"].text
      BY <2>2 DEF SearchType, Searching!Names, Searching!Box
    <3> HIDE DEF bs
    <3> QED BY <2>1, <3>1, <3>2, SameSearch DEF SearchType
  <2>3. CASE c # boxes["city"].text
    <3>1. Searching!FollowCity(bs, TRUE)
      BY <1>2, <2>3 DEF Searching!SelectCity, SearchType, Searching!Names
    <3> HIDE DEF bs
    <3> QED BY <2>1, <3>1, FollowCityStep
  <2> QED BY <2>2, <2>3
<1> QED BY <1>1, <1>2 DEF Searching!Choose, Searching!Names

\* The timer asks for what is typed.
LEMMA FireStep ==
  ASSUME SearchType, SearchFacts(boxes, fetches), NEW b \in Searching!Names, Searching!Fire(b)
  PROVE  SearchType' /\ SearchFacts(boxes', fetches')
<1> DEFINE r0 == [box |-> b, query |-> Searching!Query(boxes, b), aborted |-> FALSE]
<1>1. /\ boxes[b].timer
      /\ boxes' = [boxes EXCEPT ![b] = [boxes[b] EXCEPT !.timer = FALSE, !.loading = TRUE]]
      /\ fetches' = fetches \cup {r0}
  BY DEF Searching!Fire, SearchType
<1>2. SearchType'
  <2>1. r0 \in [box : Searching!Names, query : Searching!Queries, aborted : BOOLEAN]
    BY QueryType
  <2> HIDE DEF r0
  <2>2. fetches' \subseteq [box : Searching!Names, query : Searching!Queries, aborted : BOOLEAN]
    BY <1>1, <2>1 DEF SearchType
  <2> QED BY <1>1, <2>2 DEF SearchType, Searching!Box
<1>3. Searching!Query(boxes', "search") = Searching!Query(boxes, "search")
  BY <1>1 DEF Searching!Query, SearchType, Searching!Names, Searching!Box
<1>4. CASE b = "search"
  <2>1. boxes["search"].text \in Words
    BY <1>1, <1>4 DEF SearchFacts
  <2>2. /\ boxes'["search"].text = boxes["search"].text /\ ~boxes'["search"].timer
        /\ boxes'["search"].shown = boxes["search"].shown
    BY <1>1, <1>4 DEF SearchType, Searching!Names, Searching!Box
  <2>3. r0 \in fetches' /\ r0.box = "search" /\ ~r0.aborted
        /\ r0.query = Searching!Query(boxes', "search")
    BY <1>1, <1>3, <1>4
  <2> HIDE DEF r0
  <2>4. \A r \in fetches' : r.box = "search" /\ ~r.aborted =>
          r.query = Searching!Query(boxes', "search")
    BY <1>1, <1>3, <2>3 DEF SearchFacts
  <2> QED BY <1>2, <2>1, <2>2, <2>3, <2>4 DEF SearchFacts
<1>5. CASE b = "city"
  BY <1>1, <1>2, <1>3, <1>5 DEF SearchFacts, SearchType, Searching!Names, Searching!Box
<1> QED BY <1>4, <1>5 DEF Searching!Names

\* Only the request the box listens to puts its answer on the screen.
LEMMA AnsweredStep ==
  ASSUME SearchType, SearchFacts(boxes, fetches), NEW r \in fetches, Searching!Answered(r)
  PROVE  SearchType' /\ SearchFacts(boxes', fetches')
<1>1. fetches' = fetches \ {r}
  BY DEF Searching!Answered
<1>2. CASE r.aborted
  <2>1. boxes' = boxes
    BY <1>2 DEF Searching!Answered, Searching!Heeded
  <2> QED BY <1>1, <1>2, <2>1 DEF SearchFacts, SearchType
<1>3. CASE ~r.aborted
  <2>1. PICK n \in -1 .. MaxFound :
          boxes' = [boxes EXCEPT ![r.box] = Searching!Outcome(boxes[r.box], r, n)]
    BY <1>3 DEF Searching!Answered, Searching!Heeded, SearchType
  <2>2. boxes' \in [Searching!Names -> Searching!Box]
    <3>1. r.box \in Searching!Names /\ r.query \in Searching!Queries /\ n \in Int
      BY ClientsAssumption DEF SearchType
    <3>2. Searching!Outcome(boxes[r.box], r, n) \in Searching!Box
      BY <3>1, Plain, BoxKept DEF SearchType, Searching!Outcome
    <3> QED BY <2>1, <3>1, <3>2, PutBox DEF SearchType
  <2>3. /\ boxes'["search"].text = boxes["search"].text /\ boxes'["city"].text = boxes["city"].text
        /\ boxes'["search"].timer = boxes["search"].timer
    BY <2>1 DEF SearchType, Searching!Outcome, Searching!Box, Searching!Names
  <2>4. Searching!Query(boxes', "search") = Searching!Query(boxes, "search")
    BY <2>3 DEF Searching!Query
  <2>5. CASE r.box = "city"
    <3>1. boxes'["search"] = boxes["search"]
      BY <2>1, <2>5 DEF SearchType, Searching!Names
    <3> QED BY <1>1, <2>2, <2>3, <2>4, <2>5, <3>1 DEF SearchFacts, SearchType
  <2>6. CASE r.box = "search"
    <3>1. r.query = Searching!Query(boxes, "search") /\ boxes["search"].text \in Words
      BY <1>3, <2>6 DEF SearchFacts
    <3>2. \A s \in fetches' : s.box = "search" => s.aborted
      <4> SUFFICES ASSUME NEW s \in fetches', s.box = "search", ~s.aborted PROVE FALSE
        BY DEF SearchType
      <4>1. s.query = r.query /\ s \in fetches /\ s # r
        BY <1>1, <3>1 DEF SearchFacts
      <4> QED BY <1>3, <2>6, <4>1 DEF SearchType
    <3>3. /\ boxes'["search"].shown \in {Searching!None, Searching!Query(boxes, "search")}
          /\ ~boxes'["search"].loading
      BY <2>1, <2>6, <3>1 DEF SearchType, Searching!Names, Searching!Outcome, Searching!Box
    <3> QED BY <1>1, <2>2, <2>3, <2>4, <3>1, <3>2, <3>3 DEF SearchFacts, SearchType
  <2> QED BY <2>5, <2>6 DEF SearchType, Searching!Names
<1> QED BY <1>2, <1>3

\* Keys and mouse open, close and walk through a list, and leave it as it is.
LEMMA BrowseStep ==
  ASSUME SearchType, SearchFacts(boxes, fetches), NEW b \in Searching!Names,
         \/ Searching!Escape(b) \/ Searching!Hover(b) \/ Searching!Focus(b) \/ Searching!Blur(b)
         \/ \E key \in {"ArrowDown", "ArrowUp"} : Searching!Arrow(b, key)
  PROVE  SearchType' /\ SearchFacts(boxes', fetches')
<1>1. fetches' = fetches
  BY DEF Searching!Escape, Searching!Hover, Searching!Focus, Searching!Blur, Searching!Arrow
<1>2. boxes[b] \in Searching!Box
  BY DEF SearchType
<1>3. PICK x \in Searching!Box :
        /\ boxes' = [boxes EXCEPT ![b] = x]
        /\ x.text = boxes[b].text /\ x.shown = boxes[b].shown
        /\ x.loading = boxes[b].loading /\ x.timer = boxes[b].timer
  <2> DEFINE Good(x) == /\ x.text = boxes[b].text /\ x.shown = boxes[b].shown
                        /\ x.loading = boxes[b].loading /\ x.timer = boxes[b].timer
  <2>1. CASE Searching!Focus(b) \/ Searching!Blur(b)
    <3>1. PICK o \in BOOLEAN : boxes' = [boxes EXCEPT ![b] = [boxes[b] EXCEPT !.open = o]]
      <4>1. PICK o \in BOOLEAN : boxes' = [boxes EXCEPT ![b].open = o]
        BY <2>1 DEF Searching!Focus, Searching!Blur
      <4> QED BY <4>1 DEF SearchType
    <3>2. [boxes[b] EXCEPT !.open = o] \in Searching!Box /\ Good([boxes[b] EXCEPT !.open = o])
      BY <1>2, OpenedBox
    <3> HIDE DEF Good
    <3>3. \E x \in Searching!Box : boxes' = [boxes EXCEPT ![b] = x] /\ Good(x)
      BY <3>1, <3>2
    <3> QED BY <3>3 DEF Good
  <2>2. CASE Searching!Hover(b)
    <3>1. PICK a \in Int : boxes' = [boxes EXCEPT ![b] = [boxes[b] EXCEPT !.active = a]]
      <4>1. PICK i \in Searching!Listed(b) : boxes' = [boxes EXCEPT ![b].active = i]
        BY <2>2 DEF Searching!Hover
      <4>2. boxes[b].size \in Int
        BY <1>2 DEF Searching!Box
      <4>3. i \in Int
        BY <4>1, <4>2 DEF Searching!Listed
      <4> QED BY <4>1, <4>3 DEF SearchType
    <3>2. [boxes[b] EXCEPT !.active = a] \in Searching!Box /\ Good([boxes[b] EXCEPT !.active = a])
      BY <1>2, Plain, BrowsedBox
    <3> QED BY <3>1, <3>2
  <2>3. ASSUME NEW key \in {"ArrowDown", "ArrowUp"}, Searching!Arrow(b, key)
        PROVE  \E x \in Searching!Box : boxes' = [boxes EXCEPT ![b] = x] /\ Good(x)
    <3> DEFINE a == Searching!Rolled(boxes[b], key)
    <3>1. a \in Int
      BY <1>2, <2>3 DEF Searching!Arrow, Searching!Rolled, Searching!Box
    <3>2. boxes' = [boxes EXCEPT ![b] = [boxes[b] EXCEPT !.active = a]]
      BY <2>3 DEF Searching!Arrow, SearchType
    <3> HIDE DEF a
    <3>3. [boxes[b] EXCEPT !.active = a] \in Searching!Box /\ Good([boxes[b] EXCEPT !.active = a])
      BY <1>2, <3>1, Plain, BrowsedBox
    <3> QED BY <3>2, <3>3
  <2>4. CASE Searching!Escape(b)
    <3> DEFINE a == IF boxes[b].size > 0 THEN -1 ELSE boxes[b].active
    <3>1. a \in Int
      BY <1>2, Plain DEF Searching!Box
    <3>2. boxes' = [boxes EXCEPT ![b] = [boxes[b] EXCEPT !.open = FALSE, !.active = a]]
      BY <2>4, <1>2 DEF Searching!Escape, SearchType, Searching!Box
    <3> HIDE DEF a
    <3>3. /\ [boxes[b] EXCEPT !.open = FALSE, !.active = a] \in Searching!Box
          /\ Good([boxes[b] EXCEPT !.open = FALSE, !.active = a])
      BY <1>2, <3>1, Plain, BrowsedBox
    <3> QED BY <3>2, <3>3
  <2> QED BY <2>1, <2>2, <2>3, <2>4
<1>4. SearchType'
  BY <1>1, <1>3, PutBox DEF SearchType
<1>5. /\ boxes'["search"].text = boxes["search"].text /\ boxes'["city"].text = boxes["city"].text
      /\ boxes'["search"].shown = boxes["search"].shown
      /\ boxes'["search"].loading = boxes["search"].loading
      /\ boxes'["search"].timer = boxes["search"].timer
  BY <1>3 DEF SearchType, Searching!Names
<1> QED BY <1>1, <1>4, <1>5, SameSearch

\* Whatever happens to the boxes keeps the search's invariant.
LEMMA SearchStep ==
  ASSUME Searching!SearchInv, [Searching!Next]_search
  PROVE  Searching!SearchInv'
<1>1. SearchType /\ SearchFacts(boxes, fetches)
  BY SearchInvFacts
<1> SUFFICES SearchType' /\ SearchFacts(boxes', fetches')
  BY ClientsAssumption
     DEF Searching!SearchInv, SearchType, SearchFacts, Searching!SuggestionsFitText, Searching!Box,
         Searching!Texts, Searching!Names
<1>2. ASSUME NEW t \in Searching!Texts, Searching!ChangeSearch(t)
      PROVE  SearchType' /\ SearchFacts(boxes', fetches')
  BY <1>1, <1>2, ChangeSearchStep
<1>3. ASSUME NEW t \in Searching!Texts, Searching!ChangeCity(t)
      PROVE  SearchType' /\ SearchFacts(boxes', fetches')
  <2> DEFINE bs == [boxes EXCEPT !["city"] = [Searching!Typed(boxes["city"], t) EXCEPT !.active = -1]]
  <2>1. bs \in [Searching!Names -> Searching!Box] /\ bs["search"] = boxes["search"]
    BY <1>1, TypedBox, PutBox DEF SearchType, Searching!Names
  <2>2. Searching!FollowCity(bs, skip)
    BY <1>3 DEF Searching!ChangeCity
  <2> HIDE DEF bs
  <2> QED BY <1>1, <2>1, <2>2, FollowCityStep
<1>4. ASSUME NEW b \in Searching!Names, Searching!Fire(b)
      PROVE  SearchType' /\ SearchFacts(boxes', fetches')
  BY <1>1, <1>4, FireStep
<1>5. ASSUME NEW b \in Searching!Names, Searching!Enter(b) \/ Searching!Click(b)
      PROVE  SearchType' /\ SearchFacts(boxes', fetches')
  BY <1>1, <1>5, ChooseStep DEF Searching!Enter, Searching!Click
<1>6. ASSUME NEW b \in Searching!Names,
             \/ Searching!Escape(b) \/ Searching!Hover(b) \/ Searching!Focus(b) \/ Searching!Blur(b)
             \/ \E key \in {"ArrowDown", "ArrowUp"} : Searching!Arrow(b, key)
      PROVE  SearchType' /\ SearchFacts(boxes', fetches')
  BY <1>1, <1>6, BrowseStep
<1>7. ASSUME NEW r \in fetches, Searching!Answered(r)
      PROVE  SearchType' /\ SearchFacts(boxes', fetches')
  BY <1>1, <1>7, AnsweredStep
<1>8. CASE UNCHANGED search
  BY <1>1, <1>8 DEF search, SearchType
<1> QED BY <1>2, <1>3, <1>4, <1>5, <1>6, <1>7, <1>8 DEF Searching!Next

\* The suggestions on the screen are those of the text and the city in the boxes.
THEOREM SuggestionsFit == ClientsSpec => []SuggestionsFitText
<1>1. Searching!SearchInv => SuggestionsFitText
  BY DEF Searching!SearchInv, SuggestionsFitText
<1> QED BY <1>1, PagesInit, PagesNext, SearchInit, SearchStep, PTL DEF ClientsSpec

-----------------------------------------------------------------------------
(* The address of a CEP *)

\* What the lookups the form listens to have to do with what it shows.
Listened(f, ls) ==
  \A l \in ls :
    ~l.aborted =>
      /\ l.postalCode = f.postalCode
      /\ f.city \in {l.snapshot.city, l.postalCode, "typed", "stored"}
      /\ f.street \in {l.snapshot.street, l.postalCode, "typed", "stored"}

Fits(f, c) ==
  c = "found" =>
    /\ f.city \in {f.postalCode, "typed", "stored"}
    /\ f.postalCode \in WithStreet => f.street \in {f.postalCode, "typed", "stored"}

AddressType ==
  /\ page \in Address!Page /\ form \in Address!Form /\ lookups \subseteq Address!Lookup
  /\ saved \in Address!Complete \cup {"partial"}

\* What is shown of the form, and what is loaded over it.
Mounting ==
  /\ page.kind = "editor" => saved \in Address!Complete
  /\ page.mounted /\ page.loading # "no" => page.kind = "editor"
  /\ ~page.mounted => cep = "idle" /\ \A l \in lookups : l.aborted

\* The address form's invariant, part by part.
LEMMA AddressInvParts ==
  Address!AddressInv <=> AddressType /\ Mounting /\ Listened(form, lookups) /\ Fits(form, cep)
BY DEF Address!AddressInv, Address!AddressFitsCep, AddressType, Mounting, Listened, Fits

\* A form that is not shown meets the address form's invariant.
LEMMA AddressInit == Address!Init => Address!AddressInv
<1> SUFFICES ASSUME Address!Init PROVE Address!AddressInv
  OBVIOUS
<1>1. form \in Address!Form
  BY DEF Address!Init, Address!Form, Address!Blank, Address!Typeable, Address!Sources
<1>2. page \in Address!Page
  BY DEF Address!Init, Address!Page
<1>3. saved \in Address!Complete \cup {"partial"} /\ (page.kind = "editor" => saved \in Address!Complete)
  BY DEF Address!Init
<1>4. page.mounted => page.loading = "no"
  <2>1. PICK k \in {"profile", "editor", "new"} :
          page = [kind |-> k, mounted |-> k = "new", busy |-> FALSE,
                  loading |-> IF k = "new" THEN "no" ELSE "first"]
    BY DEF Address!Init
  <2> QED BY <2>1
<1>5. cep = "idle" /\ lookups = {}
  BY DEF Address!Init
<1> QED
  BY <1>1, <1>2, <1>3, <1>4, <1>5 DEF Address!AddressInv, Address!AddressFitsCep

\* An aborted lookup is never listened to; the one that begins remembers the form.
LEMMA AbortedLookups ==
  ASSUME lookups \subseteq Address!Lookup
  PROVE  Address!Aborted \subseteq Address!Lookup /\ \A l \in Address!Aborted : l.aborted
BY DEF Address!Aborted, Address!Lookup

\* A mounted form asks for the postal code it shows, and for no other.
LEMMA LookedUp ==
  ASSUME lookups \subseteq Address!Lookup, NEW f \in Address!Form
  PROVE  Address!Looked(f) \subseteq Address!Lookup /\ Listened(f, Address!Looked(f))
<1>1. CASE f.postalCode \in Address!Complete
  <2> DEFINE l0 == [postalCode |-> f.postalCode, snapshot |-> f, aborted |-> FALSE]
  <2>1. /\ l0 \in Address!Lookup /\ l0.postalCode = f.postalCode
        /\ l0.snapshot = f
    BY <1>1 DEF Address!Lookup
  <2>2. Address!Looked(f) = Address!Aborted \cup {l0}
    BY <1>1 DEF Address!Looked
  <2> HIDE DEF l0
  <2> QED BY <2>1, <2>2, AbortedLookups DEF Listened
<1>2. CASE f.postalCode \notin Address!Complete
  BY <1>2, AbortedLookups DEF Address!Looked, Listened
<1> QED BY <1>1, <1>2

\* A profile that comes in fills the form and asks for its postal code.
LEMMA AddressLoaded ==
  ASSUME AddressType, Mounting, Listened(form, lookups), Fits(form, cep), Address!Loaded
  PROVE  AddressType' /\ Mounting' /\ Listened(form', lookups') /\ Fits(form', cep')
<1> DEFINE changed == page'.mounted /\ (~page.mounted \/ saved # form.postalCode)
<1>1. /\ form' = Address!StoredForm /\ saved' = saved
      /\ page' = [page EXCEPT !.loading = "no", !.busy = @ /\ page.loading # "own",
                              !.mounted = @ \/ page.loading = "first"]
      /\ IF changed THEN cep' = Address!StatusAfter(form', cep) /\ lookups' = Address!Looked(form')
         ELSE UNCHANGED <<cep, lookups>>
  BY DEF Address!Loaded, Address!Follow
<1>2. /\ page' \in Address!Page /\ page'.kind = page.kind /\ page'.loading = "no"
      /\ page.mounted => page'.mounted
      /\ page'.mounted => page.mounted \/ page.loading = "first"
  BY <1>1 DEF AddressType, Address!Page
<1>3. /\ form' \in Address!Form
      /\ saved \in Address!Complete => form'.postalCode = saved /\ form'.city = "stored"
                                         /\ form'.street = "stored"
      /\ saved \notin Address!Complete => form'.postalCode = "partial"
  BY <1>1, ClientsAssumption
     DEF Address!StoredForm, Address!Kept, Address!Blank, Address!Form, Address!Typeable, Address!Sources,
         AddressType, Address!Complete
<1>4. page.mounted => saved \in Address!Complete
  BY DEF Mounting, Address!Loaded
<1>5. ~page.mounted => cep = "idle"
  BY DEF Mounting
<1>6. CASE changed
  <2>1. /\ cep' = (IF form'.postalCode \in Address!Complete THEN "loading" ELSE cep)
        /\ lookups' = Address!Looked(form')
    BY <1>1, <1>6 DEF Address!StatusAfter
  <2>2. cep' # "found"
    BY <1>3, <1>4, <1>5, <2>1
  <2>3. lookups' \subseteq Address!Lookup /\ Listened(form', lookups')
    BY <1>3, <2>1, LookedUp DEF AddressType
  <2> QED BY <1>1, <1>2, <1>3, <1>6, <2>2, <2>3 DEF AddressType, Mounting, Fits
<1>7. CASE ~changed
  <2>1. cep' = cep /\ lookups' = lookups
    BY <1>1, <1>7
  <2>2. CASE page.mounted
    <3>1. saved = form.postalCode
      BY <1>2, <1>7, <2>2
    <3>2. Listened(form', lookups')
      BY <1>3, <1>4, <2>1, <2>2, <3>1 DEF Listened
    <3> QED BY <1>1, <1>2, <1>3, <1>4, <2>1, <2>2, <3>1, <3>2 DEF AddressType, Mounting, Fits
  <2>3. CASE ~page.mounted
    <3>1. cep = "idle" /\ (\A l \in lookups : l.aborted) /\ ~page'.mounted
      BY <1>7, <2>3 DEF Mounting
    <3> QED BY <1>1, <1>2, <1>3, <2>1, <3>1 DEF AddressType, Mounting, Fits, Listened
  <2> QED BY <2>2, <2>3
<1> QED BY <1>6, <1>7

\* Typing the CEP looks it up, unless its digits are the same.
LEMMA AddressTyped ==
  ASSUME AddressType, Mounting, Listened(form, lookups), Fits(form, cep),
         NEW c \in Address!Typeable, Address!TypeCep(c)
  PROVE  AddressType' /\ Mounting' /\ Listened(form', lookups') /\ Fits(form', cep')
<1>1. /\ page.mounted /\ page' = page /\ saved' = saved
      /\ form' = [form EXCEPT !.postalCode = c] /\ form' \in Address!Form
      /\ form'.postalCode = c
  BY DEF Address!TypeCep, Address!Typing, AddressType, Address!Form
<1>2. CASE c = form.postalCode
  <2>1. cep' = "idle" /\ lookups' = lookups /\ form' = form
    BY <1>1, <1>2 DEF Address!TypeCep, AddressType, Address!Form
  <2> QED BY <1>1, <2>1 DEF AddressType, Mounting, Fits
<1>3. CASE c # form.postalCode
  <2>1. cep' # "found" /\ lookups' = Address!Looked(form')
    BY <1>3 DEF Address!TypeCep, Address!StatusAfter
  <2>2. lookups' \subseteq Address!Lookup /\ Listened(form', lookups')
    BY <1>1, <2>1, LookedUp DEF AddressType
  <2> QED BY <1>1, <2>1, <2>2 DEF AddressType, Mounting, Fits
<1> QED BY <1>2, <1>3

\* An answer that is listened to fills what nobody touched since it was asked.
LEMMA AddressFound ==
  ASSUME AddressType, Mounting, Listened(form, lookups), Fits(form, cep),
         NEW l \in lookups, Address!CepFound(l)
  PROVE  AddressType' /\ Mounting' /\ Listened(form', lookups') /\ Fits(form', cep')
<1>1. /\ page' = page /\ saved' = saved /\ lookups' = lookups \ {l}
      /\ l \in Address!Lookup /\ l.postalCode \in Ceps
  BY DEF Address!CepFound, AddressType
<1>2. CASE l.aborted
  <2>1. form' = form /\ cep' = cep
    BY <1>2 DEF Address!CepFound, Address!Heeded
  <2> QED BY <1>1, <2>1 DEF AddressType, Mounting, Fits, Listened
<1>3. CASE ~l.aborted
  <2> DEFINE city == Address!Filled("city", l, l.postalCode)
             street == Address!Filled("street", l, Address!Street(l))
  <2>1. form' = [form EXCEPT !.city = city, !.street = street] /\ cep' = "found"
    BY <1>3 DEF Address!CepFound, Address!Heeded
  <2>2. /\ l.postalCode = form.postalCode /\ l.postalCode # "empty"
        /\ form.city \in {l.snapshot.city, l.postalCode, "typed", "stored"}
        /\ form.street \in {l.snapshot.street, l.postalCode, "typed", "stored"}
    BY <1>1, <1>3, ClientsAssumption DEF Listened
  <2>3. city \in {l.postalCode, "typed", "stored"} /\ city \in {form.city, l.postalCode}
    BY <2>2 DEF Address!Filled
  <2>4. /\ street \in {form.street, l.postalCode}
        /\ l.postalCode \in WithStreet => street \in {l.postalCode, "typed", "stored"}
    BY <2>2 DEF Address!Filled, Address!Street
  <2> HIDE DEF city, street
  <2>5. /\ form' \in Address!Form /\ form'.postalCode = form.postalCode
        /\ form'.city = city /\ form'.street = street
    <3>1. city \in Address!Sources /\ street \in Address!Sources
      BY <1>1, <2>3, <2>4 DEF AddressType, Address!Form, Address!Sources
    <3> QED BY <2>1, <3>1 DEF AddressType, Address!Form
  <2>6. Listened(form', lookups')
    BY <1>1, <2>2, <2>3, <2>4, <2>5 DEF Listened
  <2>7. page.mounted
    BY <1>3 DEF Mounting
  <2> QED BY <1>1, <2>1, <2>2, <2>3, <2>4, <2>5, <2>6, <2>7 DEF AddressType, Mounting, Fits
<1> QED BY <1>2, <1>3

\* Whatever happens to the form keeps its invariant.
LEMMA AddressStep ==
  ASSUME Address!AddressInv, [Address!Next]_address
  PROVE  Address!AddressInv'
<1>0. AddressType /\ Mounting /\ Listened(form, lookups) /\ Fits(form, cep)
  BY AddressInvParts
<1> SUFFICES AddressType' /\ Mounting' /\ Listened(form', lookups') /\ Fits(form', cep')
  BY DEF Address!AddressInv, Address!AddressFitsCep, AddressType, Mounting, Listened, Fits
<1>1. CASE Address!Loaded
  BY <1>0, <1>1, AddressLoaded
<1>2. CASE Address!LoadFailed
  <2>1. page' \in Address!Page /\ page'.kind = page.kind /\ page'.mounted = page.mounted
        /\ (page'.loading # "no" => page.loading # "no")
    BY <1>0, <1>2 DEF Address!LoadFailed, AddressType, Address!Page
  <2> QED BY <1>0, <1>2, <2>1 DEF Address!LoadFailed, AddressType, Mounting
<1>3. CASE Address!Tab
  <2>1. page' \in Address!Page /\ page'.kind = page.kind /\ page'.mounted = ~page.mounted
        /\ page'.loading = page.loading /\ page.kind = "editor" /\ form' = form /\ saved' = saved
    BY <1>0, <1>3 DEF Address!Tab, AddressType, Address!Page
  <2>2. CASE page.mounted
    <3>1. cep' = "idle" /\ lookups' = Address!Aborted
      BY <1>3, <2>2 DEF Address!Tab
    <3> QED BY <1>0, <2>1, <2>2, <3>1, AbortedLookups DEF AddressType, Mounting, Listened, Fits
  <2>3. CASE ~page.mounted
    <3>1. cep' # "found" /\ lookups' = Address!Looked(form)
      BY <1>3, <2>3 DEF Address!Tab, Address!StatusAfter
    <3> QED BY <1>0, <2>1, <2>3, <3>1, LookedUp DEF AddressType, Mounting, Fits
  <2> QED BY <2>2, <2>3
<1>4. CASE Address!Reload
  <2>1. page' \in Address!Page /\ page'.kind = page.kind /\ page'.mounted = page.mounted
        /\ page.kind = "editor"
    BY <1>0, <1>4 DEF Address!Reload, AddressType, Address!Page
  <2> QED BY <1>0, <1>4, <2>1 DEF Address!Reload, AddressType, Mounting
<1>5. ASSUME NEW c \in Address!Typeable, Address!TypeCep(c)
      PROVE  AddressType' /\ Mounting' /\ Listened(form', lookups') /\ Fits(form', cep')
  BY <1>0, <1>5, AddressTyped
<1>6. ASSUME NEW f \in {"city", "street"}, Address!TypeField(f)
      PROVE  AddressType' /\ Mounting' /\ Listened(form', lookups') /\ Fits(form', cep')
  <2>1. /\ form' = [form EXCEPT ![f] = "typed"] /\ cep' = cep /\ lookups' = lookups
        /\ page' = page /\ saved' = saved
    BY <1>6 DEF Address!TypeField
  <2>2. /\ form' \in Address!Form /\ form'.postalCode = form.postalCode
        /\ form'.city \in {form.city, "typed"} /\ form'.street \in {form.street, "typed"}
    BY <1>0, <2>1 DEF AddressType, Address!Form, Address!Sources
  <2> QED BY <1>0, <2>1, <2>2 DEF AddressType, Mounting, Listened, Fits
<1>7. ASSUME NEW l \in lookups, Address!CepFound(l)
      PROVE  AddressType' /\ Mounting' /\ Listened(form', lookups') /\ Fits(form', cep')
  BY <1>0, <1>7, AddressFound
<1>8. ASSUME NEW l \in lookups, Address!CepFailed(l)
      PROVE  AddressType' /\ Mounting' /\ Listened(form', lookups') /\ Fits(form', cep')
  <2>1. /\ form' = form /\ page' = page /\ saved' = saved /\ lookups' = lookups \ {l}
        /\ cep' # "found" \/ cep' = cep
        /\ l.aborted => cep' = cep
    BY <1>8 DEF Address!CepFailed, Address!Heeded
  <2> QED BY <1>0, <2>1 DEF AddressType, Mounting, Listened, Fits
<1>9. CASE Address!Submit
  <2>1. /\ form' = form /\ lookups' = lookups /\ cep' \in {"notFound", cep}
        /\ page' \in Address!Page /\ page'.kind = page.kind /\ page'.mounted = page.mounted
        /\ page'.loading = page.loading /\ page.mounted
    BY <1>0, <1>9 DEF Address!Submit, AddressType, Address!Page
  <2>2. saved' = saved \/ (saved' = form.postalCode /\ form.postalCode \in Address!Complete)
    BY <1>9 DEF Address!Submit
  <2> QED BY <1>0, <2>1, <2>2 DEF AddressType, Mounting, Fits
<1>10. CASE Address!Saved
  <2>1. page.busy /\ page.loading = "no" /\ saved' = saved
    BY <1>10 DEF Address!Saved, Address!Enabled, Address!Kept
  <2>2. CASE page.kind = "editor" /\ page' = [page EXCEPT !.loading = "own"]
             /\ UNCHANGED <<form, cep, lookups>>
    <3>1. page' \in Address!Page /\ page'.kind = "editor" /\ page'.mounted = page.mounted
      BY <1>0, <2>2 DEF AddressType, Address!Page
    <3> QED BY <1>0, <2>1, <2>2, <3>1 DEF AddressType, Mounting
  <2>3. CASE page' = [page EXCEPT !.busy = FALSE] /\ UNCHANGED <<form, cep, lookups>>
    <3>1. page' \in Address!Page /\ page'.kind = page.kind /\ page'.mounted = page.mounted
          /\ page'.loading = page.loading
      BY <1>0, <2>3 DEF AddressType, Address!Page
    <3> QED BY <1>0, <2>1, <2>3, <3>1 DEF AddressType, Mounting
  <2>4. CASE /\ saved # "partial"
             /\ page' = [kind |-> "editor", mounted |-> FALSE, busy |-> FALSE, loading |-> "first"]
             /\ form' = Address!Blank /\ cep' = "idle" /\ lookups' = Address!Aborted
    <3>1. page' \in Address!Page /\ ~page'.mounted /\ saved \in Address!Complete
      BY <1>0, <2>4 DEF AddressType, Address!Page
    <3>2. form' \in Address!Form
      BY <2>4 DEF Address!Blank, Address!Form, Address!Typeable, Address!Sources
    <3> QED BY <1>0, <2>1, <2>4, <3>1, <3>2, AbortedLookups
            DEF AddressType, Mounting, Listened, Fits
  <2> QED BY <1>10, <2>2, <2>3, <2>4 DEF Address!Saved, Address!Enabled, Address!Kept
<1>11. CASE UNCHANGED address
  BY <1>0, <1>11 DEF address, AddressType, Mounting
<1> QED
  BY <1>1, <1>2, <1>3, <1>4, <1>5, <1>6, <1>7, <1>8, <1>9, <1>10, <1>11 DEF Address!Next

\* The address on the screen is that of the CEP in the form.
THEOREM AddressesFit == ClientsSpec => []AddressFitsCep
<1>1. Address!AddressInv => AddressFitsCep
  BY DEF Address!AddressInv, AddressFitsCep
<1> QED BY <1>1, PagesInit, PagesNext, AddressInit, AddressStep, PTL DEF ClientsSpec


-----------------------------------------------------------------------------
(* The paged lists *)

\* A list that has asked for its first page meets the list's invariant.
LEMMA ListInit == Paging!Init => Paging!ListInv
BY DEF Paging!Init, Paging!ListInv, Paging!Fields

\* Whatever is asked leaves the filters asked for in the state, and the page where
\* the administration keeps it.
LEMMA AskedFor ==
  ASSUME Paging!ListInv, NEW l, NEW f \in Filters, NEW p \in Int, Paging!Ask(l, f, p),
         l.filters = f, l.page \in Int, kind # "home" => l.page = p,
         DOMAIN l = Paging!Fields
  PROVE  Paging!ListInv' /\ last' = [filters |-> f, page |-> p]
<1>1. /\ list' = [l EXCEPT !.loading = TRUE, !.error = FALSE]
      /\ last' = [filters |-> f, page |-> p] /\ asking' = asking \cup {last'} /\ kind' = kind
  BY DEF Paging!Ask
<1>2. /\ DOMAIN list' = Paging!Fields /\ list'.filters = f /\ list'.loading
      /\ list'.page \in Int /\ kind # "home" => list'.page = p
  BY <1>1 DEF Paging!Fields
<1> QED BY <1>1, <1>2 DEF Paging!ListInv

\* An answer brings the page and the number of pages of what it answers, and takes
\* away nothing that was chosen.
LEMMA AnswerKept ==
  ASSUME Paging!ListInv, NEW r \in asking, Paging!Answered(r) \/ Paging!Failed(r)
  PROVE  Paging!ListInv'
<1>1. /\ kind' = kind /\ last' = last /\ asking' = asking \ {r}
      /\ DOMAIN list' = Paging!Fields /\ list'.filters = list.filters
      /\ list'.page = Paging!KeptPage(r.page) /\ list'.front = r.page /\ list'.of = r
      /\ list'.rows => list'.totalPages = Paging!TotalPages(r)
  BY DEF Paging!Answered, Paging!Failed, Paging!Answer, Paging!ListInv, Paging!Fields
<1> QED BY <1>1 DEF Paging!ListInv, Paging!KeptPage, Paging!TotalPages

\* Retry asks again for what the list asked for last, unless a late answer has given
\* the catalogue another page.
LEMMA RetryRepeats ==
  ASSUME Paging!ListInv, Paging!Retry
  PROVE  /\ Paging!ListInv'
         /\ (Paging!Late => kind # "home") => last' = last
<1>1. ~list.loading /\ Paging!Ask(list, list.filters, list.page)
  BY DEF Paging!Retry
<1>2. last' = [filters |-> list.filters, page |-> list.page]
  BY <1>1 DEF Paging!Ask
<1>3. Paging!ListInv'
  BY <1>1, AskedFor DEF Paging!ListInv
<1>4. (Paging!Late => kind # "home") => last' = last
  BY <1>1, <1>2 DEF Paging!ListInv, Paging!Late
<1> QED BY <1>3, <1>4

\* Whatever a step asks for exists, unless a late answer is on the screen.
LEMMA ListStep ==
  ASSUME Paging!ListInv, [Paging!Next]_paged
  PROVE  /\ Paging!ListInv'
         /\ asked' # asked /\ Paging!Exists(last) /\ ~Paging!Late => Paging!Exists(last')
<1> DEFINE Good ==
      /\ Paging!ListInv'
      /\ asked' # asked /\ Paging!Exists(last) /\ ~Paging!Late => Paging!Exists(last')
<1>1. ASSUME NEW f \in Filters, Paging!ChooseHome(f) \/ Paging!ChooseAdmin(f)
      PROVE  Good
  <2> DEFINE l == IF kind = "home" THEN [list EXCEPT !.filters = f]
                                   ELSE [list EXCEPT !.filters = f, !.page = 1]
  <2>1. /\ Paging!Ask(l, f, 1) /\ l.filters = f /\ l.page \in Int /\ DOMAIN l = Paging!Fields
        /\ kind # "home" => l.page = 1
    BY <1>1 DEF Paging!ChooseHome, Paging!ChooseAdmin, Paging!ListInv, Paging!Fields
  <2> HIDE DEF l
  <2>2. Paging!ListInv' /\ last' = [filters |-> f, page |-> 1]
    BY <2>1, AskedFor
  <2> QED BY <2>2 DEF Paging!Exists
<1>2. ASSUME NEW delta \in {-1, 1}, Paging!ChangePage(delta)
      PROVE  Good
  <2> DEFINE p == (IF kind = "records" THEN list.page ELSE list.front) + delta
             l == IF kind = "home" THEN list ELSE [list EXCEPT !.page = p]
  <2>1. /\ Paging!Ask(l, list.filters, p) /\ ~list.loading /\ list.rows
        /\ p \in 1 .. list.totalPages
    BY <1>2 DEF Paging!ChangePage, Paging!PageButton, Paging!Drawn
  <2>2. p \in Int
    BY <2>1
  <2>3. /\ l.filters = list.filters /\ l.page \in Int /\ DOMAIN l = Paging!Fields
        /\ kind # "home" => l.page = p
    BY <2>2 DEF Paging!ListInv, Paging!Fields
  <2> HIDE DEF l, p
  <2>4. Paging!ListInv' /\ last' = [filters |-> list.filters, page |-> p]
    BY <2>1, <2>2, <2>3, AskedFor DEF Paging!ListInv
  <2>5. ~Paging!Late => p <= Paging!TotalPages(last')
    BY <2>1, <2>4, ClientsAssumption DEF Paging!ListInv, Paging!Late, Paging!TotalPages
  <2> QED BY <2>4, <2>5 DEF Paging!Exists, Paging!Rows
<1>3. CASE Paging!Retry
  <2>1. /\ last' = [filters |-> list.filters, page |-> list.page] /\ ~list.loading
    BY <1>3 DEF Paging!Retry, Paging!Ask
  <2>2. ~Paging!Late => last' = last
    BY <2>1 DEF Paging!ListInv, Paging!Late
  <2> QED BY <1>3, <2>2, RetryRepeats
<1>4. ASSUME NEW r \in asking, Paging!Answered(r) \/ Paging!Failed(r)
      PROVE  Good
  <2>1. asked' = asked
    BY <1>4 DEF Paging!Answered, Paging!Failed
  <2> QED BY <1>4, <2>1, AnswerKept
<1>5. ASSUME NEW r \in asking, Paging!Lost(r)
      PROVE  Good
  BY <1>5 DEF Paging!Lost, Paging!ListInv, Paging!TotalPages
<1>6. CASE UNCHANGED paged
  BY <1>6 DEF paged, Paging!ListInv, Paging!TotalPages
<1> QED BY <1>1, <1>2, <1>3, <1>4, <1>5, <1>6 DEF Paging!Next

\* A list asks for pages that its filters have, and Retry repeats the request made
\* last, unless a late answer is on the screen; in the administration always.
THEOREM RequestsFitTheChoice == ClientsSpec => RequestsFitChoice
<1>1. ASSUME Paging!ListInv, [Paging!Next]_paged
      PROVE  /\ Paging!ListInv'
             /\ [/\ asked' # asked /\ Paging!Exists(last) /\ ~Paging!Late
                      => Paging!Exists(last')
                 /\ Paging!Retry /\ (Paging!Late => kind # "home")
                      => last' = last]_(Paging!vars)
  BY <1>1, ListStep, RetryRepeats
<1> QED
  BY <1>1, PagesInit, PagesNext, ListInit, PTL
     DEF ClientsSpec, RequestsFitChoice, Paging!RequestsFitChoice

-----------------------------------------------------------------------------
(* The carousel *)

\* A carousel just mounted meets its invariant.
LEMMA CarouselInit == Showing!Init => Showing!CarouselInv
BY DEF Showing!Init, Showing!CarouselInv

\* From one to seven slides, the remainder is a place among them.
LEMMA Circle ==
  ASSUME NEW n \in 1 .. 7, NEW a \in -7 .. 14
  PROVE  a % n \in 0 .. n - 1
<1>1. n = 1 \/ n = 2 \/ n = 3 \/ n = 4 \/ n = 5 \/ n = 6 \/ n = 7
  OBVIOUS
<1> QED BY <1>1

\* Arrows, thumbnails and new events keep the carousel's invariant.
LEMMA CarouselStep ==
  ASSUME Showing!CarouselInv, [Showing!Next]_shown
  PROVE  Showing!CarouselInv'
<1> DEFINE n == hero.slides
<1>1. n \in 0 .. 7 /\ hero.active \in 0 .. 6 /\ (hero.active < n \/ hero.active = 0)
  BY DEF Showing!CarouselInv
<1>2. CASE Showing!Featured
  BY <1>1, <1>2, ClientsAssumption DEF Showing!Featured, Showing!CarouselInv
<1>3. CASE Showing!Pause
  BY <1>3 DEF Showing!Pause, Showing!Shown, Showing!CarouselInv
<1>4. CASE Showing!Advance
  <2>1. n \in 1 .. 7 /\ hero.active + 1 \in -7 .. 14
    BY <1>1, <1>4 DEF Showing!Advance
  <2>2. (hero.active + 1) % n \in 0 .. n - 1
    BY <2>1, Circle
  <2> QED BY <1>4, <2>1, <2>2 DEF Showing!Advance, Showing!CarouselInv
<1>5. ASSUME NEW d \in {-1, 1}, Showing!Move(d) \/ Showing!Arrow(d)
      PROVE  Showing!CarouselInv'
  <2>1. n \in 1 .. 7 /\ hero.active + d + n \in -7 .. 14
    BY <1>1, <1>5 DEF Showing!Move, Showing!Shown, Showing!Arrow
  <2>2. (hero.active + d + n) % n \in 0 .. n - 1
    BY <2>1, Circle
  <2> QED BY <1>5, <2>1, <2>2 DEF Showing!Move, Showing!Arrow, Showing!CarouselInv
<1>6. ASSUME NEW i \in Showing!Slides, Showing!Click(i) \/ Showing!Dot(i)
      PROVE  Showing!CarouselInv'
  BY <1>1, <1>6 DEF Showing!Click, Showing!Dot, Showing!Slides, Showing!CarouselInv
<1>7. CASE UNCHANGED shown
  BY <1>7 DEF shown, Showing!CarouselInv
<1> QED BY <1>2, <1>3, <1>4, <1>5, <1>6, <1>7 DEF Showing!Next

\* The offsets of up to seven slides are the shortest ways round.
LEMMA ShortestWay ==
  ASSUME NEW n \in 1 .. 7, NEW f \in 0 .. n - 1, NEW i \in 0 .. n - 1
  PROVE  LET o == Showing!CircularOffset(i, f, n)
         IN /\ (o - (i - f)) % n = 0
            /\ 2 * o <= n /\ -(2 * o) <= n
            /\ o = 0 <=> i = f
<1>1. n = 1 \/ n = 2 \/ n = 3 \/ n = 4 \/ n = 5 \/ n = 6 \/ n = 7
  OBVIOUS
<1> QED BY <1>1 DEF Showing!CircularOffset

\* The slide an arrow leads to stands next to the one in front.
LEMMA Neighbours ==
  ASSUME NEW n \in 2 .. 7, NEW f \in 0 .. n - 1, NEW d \in {-1, 1}
  PROVE  Showing!CircularOffset((f + d + n) % n, f, n) \in {-1, 1}
<1>1. n = 2 \/ n = 3 \/ n = 4 \/ n = 5 \/ n = 6 \/ n = 7
  OBVIOUS
<1> QED BY <1>1 DEF Showing!CircularOffset

\* The slides stand around the one in front by the shortest way.
THEOREM SlidesStandAround == ClientsSpec => []SlidesAroundFront
<1>1. ASSUME Showing!CarouselInv PROVE SlidesAroundFront
  <2> DEFINE n == hero.slides
             f == Showing!Front
  <2>1. /\ n \in 0 .. 7 /\ f \in Int
        /\ n > 0 => n \in 1 .. 7 /\ f = hero.active % n /\ f \in 0 .. n - 1
    BY Circle DEF Showing!CarouselInv, Showing!Front
  <2>2. ASSUME NEW i \in Showing!Slides
        PROVE  /\ (Showing!Offset(i) - (i - f)) % n = 0
               /\ 2 * Showing!Distance(i) <= n
               /\ Showing!Offset(i) = 0 <=> i = f
    <3> DEFINE o == Showing!CircularOffset(i, f, n)
    <3>1. n \in 1 .. 7 /\ i \in 0 .. n - 1 /\ f \in 0 .. n - 1
      BY <2>1 DEF Showing!Slides
    <3>2. (o - (i - f)) % n = 0 /\ 2 * o <= n /\ -(2 * o) <= n /\ (o = 0 <=> i = f)
      BY <3>1, ShortestWay
    <3>3. o \in Int /\ n \in Int
      BY <3>1 DEF Showing!CircularOffset
    <3>4. Showing!Offset(i) = o
      BY DEF Showing!Offset
    <3> HIDE DEF o
    <3>5. Showing!Distance(i) = (IF o < 0 THEN -o ELSE o)
      BY <3>4 DEF Showing!Distance
    <3> HIDE DEF n, f
    <3> QED BY <3>2, <3>3, <3>4, <3>5
  <2>3. ASSUME n >= 2, NEW d \in {-1, 1}
        PROVE  Showing!Distance((f + d + n) % n) = 1
    BY <2>1, <2>3, Neighbours DEF Showing!Offset, Showing!Distance
  <2> QED BY <2>2, <2>3 DEF SlidesAroundFront, Showing!SlidesAroundFront
<1> QED BY <1>1, PagesInit, PagesNext, CarouselInit, CarouselStep, PTL DEF ClientsSpec

-----------------------------------------------------------------------------
(* The pages of a purchase *)

\* A tab that opens an event meets the purchase's invariant.
LEMMA PurchaseInit == Buying!Init => Buying!PurchaseInv
BY DEF Buying!Init, Buying!PurchaseInv, Buying!Fields, Buying!Confirming, Buying!FreshPay

\* No step changes which fields the state has.
LEMMA PurchaseFields ==
  ASSUME Buying!Fields, [Buying!Next]_tab
  PROVE  Buying!Fields'
<1> USE DEF Buying!Fields, Buying!FreshPay
<1>1. CASE Buying!EventLoaded
  BY <1>1 DEF Buying!EventLoaded, Buying!OnEvent
<1>2. CASE Buying!StartCheckout
  BY <1>2 DEF Buying!StartCheckout, Buying!OnEvent, Buying!MayReserve
<1>3. CASE Buying!CheckoutOpened
  BY <1>3 DEF Buying!CheckoutOpened, Buying!Reserved, Buying!Show, Buying!LeftBehind
<1>4. CASE Buying!CheckoutRefused
  BY <1>4 DEF Buying!CheckoutRefused, Buying!Show, Buying!LeftBehind
<1>5. CASE Buying!CloseDialog
  BY <1>5 DEF Buying!CloseDialog, Buying!OnEvent
<1>6. CASE Buying!PreviousCancelled
  BY <1>6 DEF Buying!PreviousCancelled, Buying!OnEvent, Buying!Closed
<1>7. CASE Buying!Resume
  BY <1>7 DEF Buying!Resume, Buying!Show, Buying!LeftBehind
<1>8. CASE Buying!CheckoutLoaded
  BY <1>8 DEF Buying!CheckoutLoaded, Buying!OnCheckout
<1>9. CASE Buying!SessionAnswered
  BY <1>9 DEF Buying!SessionAnswered, Buying!OnCheckout
<1>10. CASE Buying!CountdownEnds
  BY <1>10 DEF Buying!CountdownEnds, Buying!OnCheckout
<1>11. CASE Buying!Beat
  BY <1>11 DEF Buying!Beat, Buying!OnCheckout
<1>12. CASE Buying!BeatAnswered
  BY <1>12 DEF Buying!BeatAnswered, Buying!OnCheckout
<1>13. CASE Buying!Cancel
  BY <1>13 DEF Buying!Cancel, Buying!OnCheckout, Buying!MayCancel, Buying!Terminal
<1>14. CASE Buying!CancelAnswered
  BY <1>14 DEF Buying!CancelAnswered, Buying!OnCheckout, Buying!Closed
<1>15. CASE Buying!Confirm
  BY <1>15 DEF Buying!Confirm, Buying!OnCheckout, Buying!MayConfirm, Buying!Terminal
<1>16. CASE Buying!ConfirmAnswered
  BY <1>16 DEF Buying!ConfirmAnswered, Buying!OnCheckout, Buying!Payable
<1>17. CASE Buying!OrphanConfirmed
  BY <1>17 DEF Buying!OrphanConfirmed, Buying!Payable, Buying!Show, Buying!LeftBehind
<1>18. CASE Buying!SubmitCard
  BY <1>18 DEF Buying!SubmitCard, Buying!OnCheckout, Buying!MayPay, Buying!CardForm, Buying!Terminal, Buying!OnProgress
<1>19. CASE Buying!CardRefused
  BY <1>19 DEF Buying!CardRefused, Buying!OnCheckout, Buying!OnProgress
<1>20. CASE Buying!CardPaid
  BY <1>20 DEF Buying!CardPaid, Buying!OnCheckout
<1>21. CASE Buying!OrphanCard
  BY <1>21 DEF Buying!OrphanCard
<1>22. CASE Buying!Unload
  BY <1>22 DEF Buying!Unload, Buying!Show, Buying!LeftBehind, Buying!CancelsOnExit
<1>23. CASE Buying!Back
  BY <1>23 DEF Buying!Back, Buying!Show, Buying!LeftBehind
<1>24. CASE Buying!Arrive
  BY <1>24 DEF Buying!Arrive, Buying!Show, Buying!LeftBehind
<1>25. CASE Buying!ExitCancelled
  BY <1>25 DEF Buying!ExitCancelled, Buying!Closed
<1>26. CASE Buying!Lost
  BY <1>26 DEF Buying!Lost, Buying!Reserved, Buying!Closed
<1>27. CASE Buying!ConfirmLost
  BY <1>27 DEF Buying!ConfirmLost, Buying!OnCheckout, Buying!Payable, Buying!AfterLoss, Buying!OnProgress
<1>28. CASE Buying!ServerCloses
  BY <1>28 DEF Buying!ServerCloses, Buying!Closed
<1>29. CASE Buying!Webhook
  BY <1>29 DEF Buying!Webhook
<1>30. CASE Buying!Reopen
  BY <1>30 DEF Buying!Reopen, Buying!Show, Buying!LeftBehind
<1>31. ASSUME NEW delta \in {-1, 1}, Buying!Select(delta)
       PROVE  Buying!Fields'
  BY <1>31 DEF Buying!Select, Buying!OnEvent
<1>32. CASE UNCHANGED tab
  BY <1>32 DEF tab
<1> QED
  BY <1>1, <1>2, <1>3, <1>4, <1>5, <1>6, <1>7, <1>8, <1>9, <1>10, <1>11, <1>12,
     <1>13, <1>14, <1>15, <1>16, <1>17, <1>18, <1>19, <1>20, <1>21, <1>22, <1>23, <1>24,
     <1>25, <1>26, <1>27, <1>28, <1>29, <1>30, <1>31, <1>32
     DEF Buying!Next

\* A page that is opened waits for nothing that a page left behind asked.
LEMMA Mounted ==
  ASSUME Buying!Fields, NEW r, NEW w, Buying!Show(r, w), DOMAIN w = DOMAIN wire,
         ~w.session, ~w.cancel, ~w.create, w.confirm \notin {"page", "form"}, w.card # "mine",
         Buying!Fields', server'.status = "CONFIRMED" => server'.intent = "SUCCEEDED"
  PROVE  Buying!PurchaseInv'
<1>1. pay' = Buying!FreshPay /\ wire' = [w EXCEPT !.load = r \in {"event", "checkout"}]
  BY DEF Buying!Show
<1>2. /\ ~wire'.session /\ ~wire'.cancel /\ ~wire'.create
      /\ wire'.confirm \notin {"page", "form"} /\ wire'.card # "mine"
  BY <1>1 DEF Buying!Fields
<1>3. pay'.session = "none"
  BY <1>1 DEF Buying!FreshPay
<1> QED BY <1>1, <1>2, <1>3 DEF Buying!PurchaseInv, Buying!Confirming

\* What a page leaves behind when it is left can enable nothing on the next.
LEMMA Behind ==
  ASSUME Buying!Fields, NEW x, NEW w \in {Buying!LeftBehind,
           [Buying!LeftBehind EXCEPT !.card = "none", !.confirm = "none"],
           [Buying!LeftBehind EXCEPT !.confirm = "none"],
           [Buying!LeftBehind EXCEPT !.exit = x, !.card = "none", !.confirm = "none"]}
  PROVE  /\ DOMAIN w = DOMAIN wire
         /\ ~w.session /\ ~w.cancel /\ ~w.create
         /\ w.confirm \notin {"page", "form"} /\ w.card # "mine"
<1> DEFINE v == Buying!LeftBehind
<1>1. /\ DOMAIN v = DOMAIN wire /\ ~v.session /\ ~v.cancel /\ ~v.create
      /\ v.confirm \notin {"page", "form"} /\ v.card # "mine"
  BY DEF Buying!LeftBehind, Buying!Fields
<1> HIDE DEF v
<1>2. CASE w = v
  BY <1>1, <1>2
<1>3. CASE w = [v EXCEPT !.card = "none", !.confirm = "none"]
  BY <1>1, <1>3 DEF Buying!Fields
<1>4. CASE w = [v EXCEPT !.confirm = "none"]
  BY <1>1, <1>4 DEF Buying!Fields
<1>5. CASE w = [v EXCEPT !.exit = x, !.card = "none", !.confirm = "none"]
  BY <1>1, <1>5 DEF Buying!Fields
<1> QED BY <1>2, <1>3, <1>4, <1>5 DEF v

\* A page that charges is busy, and waits for no answer that could enable it.
LEMMA PurchaseStep ==
  ASSUME Buying!PurchaseInv, [Buying!Next]_tab
  PROVE  Buying!PurchaseInv'
<1> USE DEF Buying!PurchaseInv, Buying!Fields, Buying!FreshPay, Buying!Confirming, Buying!Providers
<1>0. Buying!Fields'
  BY PurchaseFields
<1>1. CASE Buying!EventLoaded
  BY <1>0, <1>1 DEF Buying!EventLoaded, Buying!OnEvent
<1>2. CASE Buying!StartCheckout
  BY <1>0, <1>2 DEF Buying!StartCheckout, Buying!OnEvent, Buying!MayReserve
<1>3. CASE Buying!CheckoutOpened
  <2> DEFINE w == [Buying!LeftBehind EXCEPT !.card = "none", !.confirm = "none"]
  <2>1. Buying!Show("checkout", w) /\ server'.status = "ACTIVE"
    BY <1>3 DEF Buying!CheckoutOpened, Buying!Reserved
  <2>2. /\ DOMAIN w = DOMAIN wire /\ ~w.session /\ ~w.cancel /\ ~w.create
        /\ w.confirm \notin {"page", "form"} /\ w.card # "mine"
    BY Behind
  <2> HIDE DEF w
  <2> QED BY <1>0, <2>1, <2>2, Mounted
<1>4. CASE Buying!CheckoutRefused
  <2>1. CASE Buying!Show("away", [Buying!LeftBehind EXCEPT !.card = "none", !.confirm = "none"])
    <3> DEFINE w == [Buying!LeftBehind EXCEPT !.card = "none", !.confirm = "none"]
    <3>1. /\ DOMAIN w = DOMAIN wire /\ ~w.session /\ ~w.cancel /\ ~w.create
          /\ w.confirm \notin {"page", "form"} /\ w.card # "mine"
      BY Behind
    <3>2. Buying!Show("away", w) /\ server' = server
      BY <1>4, <2>1 DEF Buying!CheckoutRefused
    <3> HIDE DEF w
    <3> QED BY <1>0, <3>1, <3>2, Mounted
  <2>2. CASE wire' = [wire EXCEPT !.create = FALSE] /\ UNCHANGED <<route, pay>>
    BY <1>0, <1>4, <2>2 DEF Buying!CheckoutRefused
  <2> QED BY <1>4, <2>1, <2>2 DEF Buying!CheckoutRefused
<1>5. CASE Buying!CloseDialog
  BY <1>0, <1>5 DEF Buying!CloseDialog, Buying!OnEvent
<1>6. CASE Buying!PreviousCancelled
  BY <1>0, <1>6 DEF Buying!PreviousCancelled, Buying!OnEvent, Buying!Closed
<1>7. CASE Buying!Resume
  BY <1>0, <1>7 DEF Buying!Resume, Buying!Show, Buying!LeftBehind
<1>8. CASE Buying!CheckoutLoaded
  <2>1. /\ route = "checkout" /\ route' = route /\ server' = server /\ wire.load
        /\ pay = Buying!FreshPay /\ ~wire.session /\ ~wire.cancel
        /\ ~Buying!Confirming /\ wire.card # "mine" /\ ~wire.create
    BY <1>8 DEF Buying!CheckoutLoaded, Buying!OnCheckout
  <2> DEFINE live == server.status = "ACTIVE"
             done == server.status = "CONFIRMED"
  <2>2. CASE /\ pay' = [pay EXCEPT !.loading = FALSE, !.seen = server.status,
                                   !.sessionLoading = live, !.beating = live, !.busy = done]
             /\ wire' = [wire EXCEPT !.load = FALSE, !.session = live, !.beat = live,
                                     !.confirm = IF done THEN "page" ELSE @]
    <3>1. /\ pay'.session = "none" /\ pay'.busy = done
          /\ wire'.confirm = (IF done THEN "page" ELSE wire.confirm)
          /\ ~wire'.load /\ wire'.cancel = wire.cancel /\ wire'.card = wire.card
          /\ wire'.create = wire.create
      BY <2>1, <2>2
    <3> QED BY <1>0, <2>1, <3>1
  <2>3. CASE /\ pay' = [pay EXCEPT !.loading = FALSE, !.error = TRUE]
             /\ wire' = [wire EXCEPT !.load = FALSE]
    BY <1>0, <2>1, <2>3
  <2> QED BY <1>8, <2>2, <2>3 DEF Buying!CheckoutLoaded
<1>9. CASE Buying!SessionAnswered
  <2>1. /\ route = "checkout" /\ route' = route /\ wire.session /\ ~wire.load
        /\ pay.session = "none" /\ wire.card # "mine"
    BY <1>9 DEF Buying!SessionAnswered, Buying!OnCheckout
  <2>2. CASE pay' = [pay EXCEPT !.sessionLoading = FALSE]
             /\ wire' = [wire EXCEPT !.session = FALSE] /\ UNCHANGED server
    BY <1>0, <2>1, <2>2
  <2> DEFINE intent == IF server.provider = "STRIPE_TEST"
                       THEN IF server.intent = "none" THEN "PENDING" ELSE server.intent
                       ELSE "SUCCEEDED"
             paid == server.provider = "STRIPE_TEST" /\ intent = "SUCCEEDED"
             confirming == paid /\ ~pay.confirmed
  <2>3. CASE /\ server' = [server EXCEPT !.intent = intent]
             /\ pay' = [pay EXCEPT !.session = server.provider, !.paid = paid,
                                   !.sessionLoading = FALSE, !.busy = @ \/ confirming]
             /\ wire' = [wire EXCEPT !.session = FALSE,
                                     !.confirm = IF confirming THEN "page" ELSE @]
    <3>1. /\ intent # "none"
          /\ server.provider \in {"FREE", "SIMULATED"} => intent = "SUCCEEDED"
          /\ intent = "PENDING" => server.intent \in {"none", "PENDING"} /\ ~confirming
          /\ server.status = "CONFIRMED" => intent = "SUCCEEDED"
      OBVIOUS
    <3> HIDE DEF intent, confirming, paid
    <3>2. /\ server'.intent = intent /\ server'.status = server.status
          /\ pay'.session = server.provider /\ pay'.inProgress = pay.inProgress
          /\ pay'.busy = (pay.busy \/ confirming)
          /\ wire'.confirm = (IF confirming THEN "page" ELSE wire.confirm)
          /\ ~wire'.session /\ ~wire'.load /\ wire'.create = wire.create
          /\ wire'.cancel = wire.cancel /\ wire'.card = wire.card
      BY <2>1, <2>3
    <3> QED BY <1>0, <2>1, <3>1, <3>2
  <2> QED BY <1>9, <2>2, <2>3 DEF Buying!SessionAnswered
<1>10. CASE Buying!CountdownEnds
  BY <1>0, <1>10 DEF Buying!CountdownEnds, Buying!OnCheckout
<1>11. CASE Buying!Beat
  BY <1>0, <1>11 DEF Buying!Beat, Buying!OnCheckout
<1>12. CASE Buying!BeatAnswered
  <2>1. /\ route = "checkout" /\ route' = route /\ server' = server
        /\ wire' = [wire EXCEPT !.beat = FALSE] /\ wire.beat
    BY <1>12 DEF Buying!BeatAnswered, Buying!OnCheckout
  <2>2. CASE pay' = pay
    BY <1>0, <2>1, <2>2
  <2>3. CASE pay.beating /\ pay' = [pay EXCEPT !.beating = FALSE, !.error = TRUE]
    <3>1. pay # Buying!FreshPay
      BY <2>3
    <3> QED BY <1>0, <2>1, <2>3, <3>1
  <2> QED BY <1>12, <2>2, <2>3 DEF Buying!BeatAnswered
<1>13. CASE Buying!Cancel
  BY <1>0, <1>13 DEF Buying!Cancel, Buying!OnCheckout, Buying!MayCancel, Buying!Terminal
<1>14. CASE Buying!CancelAnswered
  <2>1. /\ route = "checkout" /\ route' = route /\ wire.cancel /\ ~wire.load
        /\ wire' = [wire EXCEPT !.cancel = FALSE]
    BY <1>14 DEF Buying!CancelAnswered, Buying!OnCheckout
  <2>2. /\ server'.intent = server.intent
        /\ server'.status = "CONFIRMED" => server.status = "CONFIRMED"
    BY <1>14 DEF Buying!CancelAnswered, Buying!Closed
  <2>3. /\ pay'.session = pay.session /\ ~pay'.busy /\ pay'.inProgress = pay.inProgress
    BY <1>14 DEF Buying!CancelAnswered
  <2>4. /\ ~wire'.cancel /\ ~wire'.load /\ wire'.create = wire.create
        /\ wire'.session = wire.session /\ wire'.confirm = wire.confirm
        /\ wire'.card = wire.card
    BY <2>1
  <2>5. server.intent \in {"none", "PENDING"} => ~Buying!Confirming /\ wire.card # "mine"
    BY <2>1
  <2> QED BY <1>0, <2>1, <2>2, <2>3, <2>4, <2>5
<1>15. CASE Buying!Confirm
  BY <1>0, <1>15 DEF Buying!Confirm, Buying!OnCheckout, Buying!MayConfirm, Buying!Terminal
<1>16. CASE Buying!ConfirmAnswered
  <2>1. /\ route = "checkout" /\ route' = route /\ Buying!Confirming /\ ~wire.load
        /\ wire' = [wire EXCEPT !.confirm = "none"]
    BY <1>16 DEF Buying!ConfirmAnswered, Buying!OnCheckout
  <2>2. /\ server'.intent = server.intent
        /\ server'.status = "CONFIRMED" => server.intent = "SUCCEEDED"
    BY <1>16 DEF Buying!ConfirmAnswered, Buying!Payable
  <2>3. pay'.session = pay.session
    BY <1>16 DEF Buying!ConfirmAnswered
  <2>4. /\ wire'.cancel = wire.cancel /\ ~wire'.load /\ wire'.create = wire.create
        /\ wire'.session = wire.session /\ wire'.confirm = "none" /\ wire'.card = wire.card
    BY <2>1
  <2>5. server.intent \in {"none", "PENDING"} => ~wire.cancel /\ wire.card # "mine"
    BY <2>1
  <2> QED BY <1>0, <2>1, <2>2, <2>3, <2>4, <2>5
<1>17. CASE Buying!OrphanConfirmed
  <2> DEFINE w == [Buying!LeftBehind EXCEPT !.confirm = "none"]
  <2>1. CASE Buying!Payable(server) /\ server' = [server EXCEPT !.status = "CONFIRMED"]
             /\ Buying!Show("order", w)
    <3>1. /\ DOMAIN w = DOMAIN wire /\ ~w.session /\ ~w.cancel /\ ~w.create
          /\ w.confirm \notin {"page", "form"} /\ w.card # "mine"
      BY Behind
    <3>2. server'.intent = "SUCCEEDED"
      BY <2>1 DEF Buying!Payable
    <3> HIDE DEF w
    <3> QED BY <1>0, <2>1, <3>1, <3>2, Mounted
  <2>2. CASE wire' = [wire EXCEPT !.confirm = "none"] /\ UNCHANGED <<route, shop, pay, server>>
    BY <1>0, <1>17, <2>2 DEF Buying!OrphanConfirmed
  <2> QED BY <1>17, <2>1, <2>2 DEF Buying!OrphanConfirmed
<1>18. CASE Buying!SubmitCard
  BY <1>0, <1>18 DEF Buying!SubmitCard, Buying!OnCheckout, Buying!MayPay, Buying!CardForm, Buying!Terminal, Buying!OnProgress
<1>19. CASE Buying!CardRefused
  BY <1>0, <1>19 DEF Buying!CardRefused, Buying!OnCheckout, Buying!OnProgress
<1>20. CASE Buying!CardPaid
  BY <1>0, <1>20 DEF Buying!CardPaid, Buying!OnCheckout
<1>21. CASE Buying!OrphanCard
  <2>1. UNCHANGED <<route, shop, pay>> /\ wire.card = "orphan"
    BY <1>21 DEF Buying!OrphanCard
  <2>2. CASE /\ server' = [server EXCEPT !.intent = "SUCCEEDED"]
             /\ wire' = [wire EXCEPT !.card = "none", !.confirm = "orphan"]
    BY <1>0, <2>1, <2>2
  <2>3. CASE wire' = [wire EXCEPT !.card = "none"] /\ UNCHANGED server
    BY <1>0, <2>1, <2>3
  <2> QED BY <1>21, <2>2, <2>3 DEF Buying!OrphanCard
<1>22. CASE Buying!Unload
  <2> DEFINE w == [Buying!LeftBehind EXCEPT !.exit = @ \/ Buying!CancelsOnExit,
                                            !.card = "none", !.confirm = "none"]
  <2>1. PICK r \in {"away", "checkout"} : Buying!Show(r, w)
    BY <1>22 DEF Buying!Unload
  <2>2. server'.status = "CONFIRMED" => server'.intent = "SUCCEEDED"
    BY <1>22 DEF Buying!Unload
  <2>3. /\ DOMAIN w = DOMAIN wire /\ ~w.session /\ ~w.cancel /\ ~w.create
        /\ w.confirm \notin {"page", "form"} /\ w.card # "mine"
    BY Behind
  <2> HIDE DEF w
  <2> QED BY <1>0, <2>1, <2>2, <2>3, Mounted
<1>23. CASE Buying!Back
  BY <1>0, <1>23 DEF Buying!Back, Buying!Show, Buying!LeftBehind
<1>24. CASE Buying!Arrive
  BY <1>0, <1>24 DEF Buying!Arrive, Buying!Show, Buying!LeftBehind
<1>25. CASE Buying!ExitCancelled
  BY <1>0, <1>25 DEF Buying!ExitCancelled, Buying!Closed
<1>26. CASE Buying!Lost
  <2>1. PICK f \in {"load", "create", "undo", "session", "beat", "cancel"} :
          /\ wire[f] /\ wire' = [wire EXCEPT ![f] = FALSE]
          /\ \/ UNCHANGED server
             \/ f = "create" /\ Buying!Reserved
             \/ f \in {"undo", "cancel"} /\ server' = Buying!Closed(server)
    BY <1>26 DEF Buying!Lost
  <2>2. /\ wire'.load => wire.load
        /\ wire'.create => wire.create
        /\ wire'.session => wire.session
        /\ wire'.cancel => wire.cancel
        /\ wire'.confirm = wire.confirm /\ wire'.card = wire.card
    BY <2>1
  <2>3. route' = route /\ pay' = pay
    BY <1>26 DEF Buying!Lost
  <2>4. CASE server'.intent = server.intent /\ (server'.status = "CONFIRMED" => server.status = "CONFIRMED")
    BY <1>0, <2>2, <2>3, <2>4
  <2>5. CASE f = "create" /\ Buying!Reserved
    <3>1. pay = Buying!FreshPay /\ ~wire.cancel /\ ~Buying!Confirming /\ wire.card # "mine"
      BY <2>1, <2>5
    <3>2. server'.status = "ACTIVE"
      BY <2>5 DEF Buying!Reserved
    <3> QED BY <1>0, <2>2, <2>3, <3>1, <3>2
  <2> QED BY <2>1, <2>4, <2>5 DEF Buying!Closed
<1>27. CASE Buying!ConfirmLost
  BY <1>0, <1>27 DEF Buying!ConfirmLost, Buying!OnCheckout, Buying!Payable, Buying!AfterLoss, Buying!OnProgress
<1>28. CASE Buying!ServerCloses
  BY <1>0, <1>28 DEF Buying!ServerCloses, Buying!Closed
<1>29. CASE Buying!Webhook
  BY <1>0, <1>29 DEF Buying!Webhook
<1>30. CASE Buying!Reopen
  BY <1>0, <1>30 DEF Buying!Reopen, Buying!Show, Buying!LeftBehind
<1>31. ASSUME NEW delta \in {-1, 1}, Buying!Select(delta)
       PROVE  Buying!PurchaseInv'
  BY <1>0, <1>31 DEF Buying!Select, Buying!OnEvent
<1>32. CASE UNCHANGED tab
  BY <1>32 DEF tab
<1> QED
  BY <1>1, <1>2, <1>3, <1>4, <1>5, <1>6, <1>7, <1>8, <1>9, <1>10, <1>11, <1>12,
     <1>13, <1>14, <1>15, <1>16, <1>17, <1>18, <1>19, <1>20, <1>21, <1>22, <1>23, <1>24,
     <1>25, <1>26, <1>27, <1>28, <1>29, <1>30, <1>31, <1>32
     DEF Buying!Next

\* Only the button and the exit handler ask to cancel.
LEMMA OtherSteps ==
  ASSUME Buying!Fields, Buying!Next, ~Buying!Cancel, ~Buying!Unload
  PROVE  (wire'.cancel => wire.cancel) /\ (wire'.exit => wire.exit)
<1> USE DEF Buying!Fields
<1>1. CASE Buying!EventLoaded
  BY <1>1 DEF Buying!EventLoaded, Buying!OnEvent
<1>2. CASE Buying!StartCheckout
  BY <1>2 DEF Buying!StartCheckout, Buying!OnEvent, Buying!MayReserve
<1>3. CASE Buying!CheckoutOpened
  BY <1>3 DEF Buying!CheckoutOpened, Buying!Reserved, Buying!Show, Buying!LeftBehind
<1>4. CASE Buying!CheckoutRefused
  BY <1>4 DEF Buying!CheckoutRefused, Buying!Show, Buying!LeftBehind
<1>5. CASE Buying!CloseDialog
  BY <1>5 DEF Buying!CloseDialog, Buying!OnEvent
<1>6. CASE Buying!PreviousCancelled
  BY <1>6 DEF Buying!PreviousCancelled, Buying!OnEvent, Buying!Closed
<1>7. CASE Buying!Resume
  BY <1>7 DEF Buying!Resume, Buying!Show, Buying!LeftBehind
<1>8. CASE Buying!CheckoutLoaded
  BY <1>8 DEF Buying!CheckoutLoaded, Buying!OnCheckout
<1>9. CASE Buying!SessionAnswered
  BY <1>9 DEF Buying!SessionAnswered, Buying!OnCheckout
<1>10. CASE Buying!CountdownEnds
  BY <1>10 DEF Buying!CountdownEnds, Buying!OnCheckout
<1>11. CASE Buying!Beat
  BY <1>11 DEF Buying!Beat, Buying!OnCheckout
<1>12. CASE Buying!BeatAnswered
  BY <1>12 DEF Buying!BeatAnswered, Buying!OnCheckout
<1>13. CASE Buying!CancelAnswered
  BY <1>13 DEF Buying!CancelAnswered, Buying!OnCheckout, Buying!Closed
<1>14. CASE Buying!Confirm
  BY <1>14 DEF Buying!Confirm, Buying!OnCheckout, Buying!MayConfirm, Buying!Terminal
<1>15. CASE Buying!ConfirmAnswered
  BY <1>15 DEF Buying!ConfirmAnswered, Buying!OnCheckout, Buying!Payable
<1>16. CASE Buying!OrphanConfirmed
  BY <1>16 DEF Buying!OrphanConfirmed, Buying!Payable, Buying!Show, Buying!LeftBehind
<1>17. CASE Buying!SubmitCard
  BY <1>17 DEF Buying!SubmitCard, Buying!OnCheckout, Buying!MayPay, Buying!CardForm, Buying!Terminal, Buying!OnProgress
<1>18. CASE Buying!CardRefused
  BY <1>18 DEF Buying!CardRefused, Buying!OnCheckout, Buying!OnProgress
<1>19. CASE Buying!CardPaid
  BY <1>19 DEF Buying!CardPaid, Buying!OnCheckout
<1>20. CASE Buying!OrphanCard
  BY <1>20 DEF Buying!OrphanCard
<1>21. CASE Buying!Back
  BY <1>21 DEF Buying!Back, Buying!Show, Buying!LeftBehind
<1>22. CASE Buying!Arrive
  BY <1>22 DEF Buying!Arrive, Buying!Show, Buying!LeftBehind
<1>23. CASE Buying!ExitCancelled
  BY <1>23 DEF Buying!ExitCancelled, Buying!Closed
<1>24. CASE Buying!Lost
  BY <1>24 DEF Buying!Lost, Buying!Reserved, Buying!Closed
<1>25. CASE Buying!ConfirmLost
  BY <1>25 DEF Buying!ConfirmLost, Buying!OnCheckout, Buying!Payable, Buying!AfterLoss, Buying!OnProgress
<1>26. CASE Buying!ServerCloses
  BY <1>26 DEF Buying!ServerCloses, Buying!Closed
<1>27. CASE Buying!Webhook
  BY <1>27 DEF Buying!Webhook
<1>28. CASE Buying!Reopen
  BY <1>28 DEF Buying!Reopen, Buying!Show, Buying!LeftBehind
<1>29. ASSUME NEW delta \in {-1, 1}, Buying!Select(delta)
       PROVE  (wire'.cancel => wire.cancel) /\ (wire'.exit => wire.exit)
  BY <1>29 DEF Buying!Select, Buying!OnEvent
<1> QED
  BY <1>1, <1>2, <1>3, <1>4, <1>5, <1>6, <1>7, <1>8, <1>9, <1>10, <1>11, <1>12, <1>13,
     <1>14, <1>15, <1>16, <1>17, <1>18, <1>19, <1>20, <1>21, <1>22, <1>23, <1>24, <1>25,
     <1>26, <1>27, <1>28, <1>29
     DEF Buying!Next

\* They ask when no card of this page is at the bank.
LEMMA CancelsWhenFree ==
  ASSUME Buying!PurchaseInv, Buying!Next,
         (~wire.cancel /\ wire'.cancel) \/ (~wire.exit /\ wire'.exit)
  PROVE  ~(wire.card = "mine" /\ server.intent = "PENDING")
<1> USE DEF Buying!PurchaseInv, Buying!Fields
<1>1. CASE Buying!Cancel
  BY <1>1 DEF Buying!Cancel, Buying!MayCancel
<1>2. CASE Buying!Unload
  <2>1. wire'.exit = (wire.exit \/ Buying!CancelsOnExit) /\ ~wire'.cancel
    BY <1>2 DEF Buying!Unload, Buying!Show, Buying!LeftBehind
  <2> QED BY <2>1 DEF Buying!CancelsOnExit
<1> QED BY <1>1, <1>2, OtherSteps

\* Neither the button nor the exit handler cancels while the bank takes the money.
THEOREM NoCancelDuringACharge == ClientsSpec => NoCancelWhileCharging
<1>1. Buying!PurchaseInv /\ [Buying!Next]_tab =>
        [(~wire.cancel /\ wire'.cancel) \/ (~wire.exit /\ wire'.exit)
           => ~(wire.card = "mine" /\ server.intent = "PENDING")]_(Buying!vars)
  BY CancelsWhenFree DEF tab, Buying!vars
<1> QED
  BY <1>1, PagesInit, PagesNext, PurchaseInit, PurchaseStep, PTL
     DEF ClientsSpec, NoCancelWhileCharging, Buying!NoCancelWhileCharging
===============================================================================
