------------------------------ MODULE BackstageProofs ------------------------------
(***************************************************************************)
(* Theorems about the programs behind the pages: the covers of the seed,   *)
(* the limiter and the report, for every capacity, limit, length of window *)
(* and number of checkouts.                                                *)
(***************************************************************************)
EXTENDS Clients, FiniteSetTheorems, TLAPS

-----------------------------------------------------------------------------
(* From the programs to each of them *)

\* The three parts start each in its own initial state.
LEMMA BackstageInit ==
  ClientsInit => Init /\ Limiting!Init /\ Reporting!Init
BY DEF ClientsInit

\* A step of the three parts together is a step or a stutter of each.
LEMMA BackstageNext ==
  [ClientsNext]_clientsVars =>
    [Next]_vars /\ [Limiting!Next]_table /\ [Reporting!Next]_report
BY DEF ClientsNext, clientsVars, Buys, Searches, FillsIn, LetsIn, Turns, Shows, Seeds,
       Limits, Reports

-----------------------------------------------------------------------------
(* The order of the seed's steps *)

\* The row of a cover is written right after its object, and what it replaced is
\* removed right after the row.
Ordered(s) ==
  /\ \E S : s \in Seq(S)
  /\ \A k \in 1 .. Len(s) :
       /\ s[k].what = "coverRow" =>
            k > 1 /\ s[k - 1] = [what |-> "putCover", on |-> s[k].on] /\ s[k].on \in Slugs
       /\ s[k].what = "oldCover" =>
            k > 1 /\ s[k - 1] = [what |-> "coverRow", on |-> s[k].on]

\* Two ordered scripts run one after the other are ordered.
LEMMA JoinOrdered ==
  ASSUME NEW s, NEW t, Ordered(s), Ordered(t)
  PROVE  Ordered(s \o t)
<1>1. PICK S : s \in Seq(S)
  BY DEF Ordered
<1>2. PICK T : t \in Seq(T)
  BY DEF Ordered
<1> DEFINE U == S \cup T
<1>3. s \in Seq(U) /\ t \in Seq(U)
  BY <1>1, <1>2
<1> HIDE DEF U
<1>4. s \o t \in Seq(U) /\ Len(s \o t) = Len(s) + Len(t) /\ Len(s) \in Nat /\ Len(t) \in Nat
  BY <1>3
<1>5. \A k \in 1 .. Len(s) : (s \o t)[k] = s[k]
  BY <1>3
<1>6. \A k \in 1 .. Len(t) : (s \o t)[Len(s) + k] = t[k]
  BY <1>3
<1>7. ASSUME NEW k \in 1 .. Len(s \o t)
      PROVE  /\ (s \o t)[k].what = "coverRow" =>
                  /\ k > 1 /\ (s \o t)[k - 1] = [what |-> "putCover", on |-> (s \o t)[k].on]
                  /\ (s \o t)[k].on \in Slugs
             /\ (s \o t)[k].what = "oldCover" =>
                  k > 1 /\ (s \o t)[k - 1] = [what |-> "coverRow", on |-> (s \o t)[k].on]
  <2>1. CASE k \in 1 .. Len(s)
    <3>1. k > 1 => k - 1 \in 1 .. Len(s)
      BY <1>4, <2>1
    <3> QED BY <1>5, <2>1, <3>1 DEF Ordered
  <2>2. CASE k \notin 1 .. Len(s)
    <3> DEFINE j == k - Len(s)
    <3>1. j \in 1 .. Len(t) /\ k = Len(s) + j /\ k \in Nat
      BY <1>4, <2>2
    <3>2. j > 1 => j - 1 \in 1 .. Len(t) /\ k - 1 = Len(s) + (j - 1) /\ k > 1
      BY <1>4, <3>1
    <3> HIDE DEF j
    <3>3. (s \o t)[k] = t[j] /\ (j > 1 => (s \o t)[k - 1] = t[j - 1] /\ k > 1)
      BY <1>6, <3>1, <3>2
    <3> QED BY <3>1, <3>2, <3>3 DEF Ordered
  <2> QED BY <2>1, <2>2
<1> QED BY <1>4, <1>7 DEF Ordered

\* A step that is neither of the two may come anywhere.
LEMMA DoOrdered ==
  ASSUME NEW w, NEW x, w \notin {"coverRow", "oldCover"}
  PROVE  Ordered(Do(w, x))
<1> DEFINE r == [what |-> w, on |-> x]
<1>1. Do(w, x) = <<r>> /\ r.what = w
  BY DEF Do
<1> HIDE DEF r
<1>2. <<r>> \in Seq({r}) /\ Len(<<r>>) = 1 /\ <<r>>[1] = r
  OBVIOUS
<1>3. <<r>> \in Seq({r}) => \E S : <<r>> \in Seq(S)
  OBVIOUS
<1> QED BY <1>1, <1>2, <1>3 DEF Ordered

\* A script that ends with a step has that step last.
LEMMA LastDone ==
  ASSUME NEW s, NEW w, NEW x, Ordered(s)
  PROVE  /\ s \o Do(w, x) # <<>>
         /\ (s \o Do(w, x))[Len(s \o Do(w, x))] = [what |-> w, on |-> x]
<1> DEFINE r == [what |-> w, on |-> x]
           t == s \o <<r>>
<1>1. PICK S : s \in Seq(S)
  BY DEF Ordered
<1> HIDE DEF r
<1>2. /\ s \in Seq(S \cup {r}) /\ <<r>> \in Seq(S \cup {r})
      /\ Len(s) \in Nat /\ Len(t) = Len(s) + 1 /\ t[Len(s) + 1] = r
  BY <1>1
<1>3. s \o Do(w, x) = t
  BY DEF Do, r
<1> HIDE DEF t
<1>4. t # <<>> /\ t[Len(t)] = r
  BY <1>2
<1> QED BY <1>3, <1>4 DEF r

\* The other two come after their predecessor, the last of what is done so far.
LEMMA AfterOrdered ==
  ASSUME NEW s, NEW w, NEW x, NEW v, Ordered(s), x \in Slugs,
         s # <<>>, s[Len(s)] = [what |-> v, on |-> x],
         <<v, w>> \in {<<"putCover", "coverRow">>, <<"coverRow", "oldCover">>}
  PROVE  /\ Ordered(s \o Do(w, x))
         /\ s \o Do(w, x) # <<>>
         /\ (s \o Do(w, x))[Len(s \o Do(w, x))] = [what |-> w, on |-> x]
<1> DEFINE r == [what |-> w, on |-> x]
           t == s \o <<r>>
<1>1. s \o Do(w, x) = t /\ r.what = w /\ r.on = x
  BY DEF Do
<1>2. PICK S : s \in Seq(S)
  BY DEF Ordered
<1> HIDE DEF r
<1>3. /\ s \in Seq(S \cup {r}) /\ <<r>> \in Seq(S \cup {r}) /\ t \in Seq(S \cup {r})
      /\ Len(s) \in Nat /\ Len(s) > 0 /\ Len(t) = Len(s) + 1
      /\ t[Len(s) + 1] = r /\ \A k \in 1 .. Len(s) : t[k] = s[k]
  BY <1>2
<1> HIDE DEF t
<1>4. ASSUME NEW k \in 1 .. Len(t)
      PROVE  /\ t[k].what = "coverRow" =>
                  k > 1 /\ t[k - 1] = [what |-> "putCover", on |-> t[k].on] /\ t[k].on \in Slugs
             /\ t[k].what = "oldCover" =>
                  k > 1 /\ t[k - 1] = [what |-> "coverRow", on |-> t[k].on]
  <2>1. CASE k \in 1 .. Len(s)
    <3>1. k > 1 => k - 1 \in 1 .. Len(s)
      BY <1>3, <2>1
    <3> QED BY <1>3, <2>1, <3>1 DEF Ordered
  <2>2. CASE k = Len(s) + 1
    <3>1. k > 1 /\ k - 1 = Len(s) /\ t[k] = r /\ t[k - 1] = s[Len(s)]
      BY <1>3, <2>2
    <3> QED BY <1>1, <3>1
  <2> QED BY <1>3, <2>1, <2>2
<1>5. Ordered(t)
  <2>1. t \in Seq(S \cup {r}) => \E X : t \in Seq(X)
    OBVIOUS
  <2> QED BY <1>3, <1>4, <2>1 DEF Ordered
<1>6. t # <<>> /\ t[Len(t)] = [what |-> w, on |-> x]
  BY <1>1, LastDone
<1> QED BY <1>1, <1>5, <1>6

\* What the seed does for one event is ordered, with a cover or without.
LEMMA EventOrdered ==
  ASSUME NEW f, f.slug \in Slugs
  PROVE  Ordered(EventSteps(f))
<1> DEFINE a == Do("event", f.slug) \o Do("putCover", f.slug)
           b == a \o Do("coverRow", f.slug)
           c == b \o Do("oldCover", f.slug)
<1>1. Ordered(a) /\ a # <<>> /\ a[Len(a)] = [what |-> "putCover", on |-> f.slug]
  <2>1. Ordered(a)
    BY DoOrdered, JoinOrdered
  <2> QED BY <2>1, DoOrdered, LastDone
<1> HIDE DEF a
<1>2. Ordered(b) /\ b # <<>> /\ b[Len(b)] = [what |-> "coverRow", on |-> f.slug]
  BY <1>1, AfterOrdered
<1> HIDE DEF b
<1>3. Ordered(c)
  BY <1>2, AfterOrdered
<1> HIDE DEF c
<1> DEFINE g == IF f.gallery = 0 THEN <<>>
                ELSE Do("gallery", <<f.slug, "one">>) \o Do("galleryRow", <<f.slug, "one">>)
                       \o Do("gallery", <<f.slug, "two">>) \o Do("galleryRow", <<f.slug, "two">>)
           h == IF Len(f.tickets) = 1 THEN <<>>
                ELSE Do("findType", <<f.slug, f.tickets[2]>>)
                       \o Do("saveType", <<f.slug, f.tickets[2]>>)
                       \o Do("units", <<f.slug, f.tickets[2]>>)
<1>4. Ordered(<<>>)
  <2>1. <<>> \in Seq({}) => \E S : <<>> \in Seq(S)
    OBVIOUS
  <2> QED BY <2>1 DEF Ordered
<1>5. Ordered(g)
  BY <1>4, DoOrdered, JoinOrdered
<1>6. Ordered(h)
  BY <1>4, DoOrdered, JoinOrdered
<1>7. EventSteps(f) =
        c \o g \o Do("findType", <<f.slug, f.tickets[1]>>) \o Do("saveType", <<f.slug, f.tickets[1]>>)
          \o Do("units", <<f.slug, f.tickets[1]>>) \o h \o Do("staff", f.slug)
  BY DEF EventSteps, c, b, a
<1> HIDE DEF g, h
<1> QED BY <1>3, <1>5, <1>6, <1>7, DoOrdered, JoinOrdered

\* The whole seed is ordered: a row of a cover follows its upload.
LEMMA ScriptOrdered == Ordered(Script)
<1>1. \A i \in 1 .. 4 : Ordered(EnsureUser(i))
  BY DoOrdered, JoinOrdered DEF EnsureUser
<1>2. ASSUME NEW i \in 1 .. 7 PROVE Ordered(EventSteps(fixtures[i]))
  <2>1. DOMAIN fixtures = 1 .. 7
    BY DEF fixtures
  <2>2. fixtures[i].slug \in Slugs
    BY <2>1 DEF Slugs
  <2> QED BY <2>2, EventOrdered
<1> QED BY <1>1, <1>2, DoOrdered, JoinOrdered DEF Script

\* No cover row and no removal of an old cover is the seed's first step.
LEMMA ScriptSteps ==
  /\ Len(Script) \in Nat /\ DOMAIN Script = 1 .. Len(Script)
  /\ \A k \in DOMAIN Script : /\ Script[k].what = "coverRow" => k > 1 /\ Script[k].on \in Slugs
                              /\ Script[k].what = "oldCover" => k > 1
<1>1. PICK S : Script \in Seq(S)
  BY ScriptOrdered DEF Ordered
<1>2. Len(Script) \in Nat /\ DOMAIN Script = 1 .. Len(Script)
  BY <1>1
<1> QED BY <1>2, ScriptOrdered DEF Ordered

-----------------------------------------------------------------------------
(* The covers *)

\* The database the seed finds, empty or left by an older script, meets the invariant.
LEMMA CoverInit == Init => CoverInv
<1> SUFFICES ASSUME Init PROVE CoverInv
  OBVIOUS
<1>1. Script[1].what \notin {"coverRow", "oldCover"} \/ 1 \notin DOMAIN Script
  BY ScriptSteps
<1>2. ~Is("coverRow") /\ ~Is("oldCover")
  BY <1>1 DEF Init, Is, Running
<1>3. /\ "cover" \in DOMAIN Nothing /\ Nothing.cover = [s \in Slugs |-> "none"]
  BY DEF Nothing
<1>4. CASE db = Nothing
  BY <1>2, <1>3, <1>4 DEF CoverInv, CoverStored
<1>5. CASE db = Older /\ objects = {<<"futuro", "older">>, <<"futuro", "olderOne">>}
  <2>1. /\ "cover" \in DOMAIN db /\ db.cover = [Nothing.cover EXCEPT !["futuro"] = "older"]
    BY <1>3, <1>5 DEF Older, Nothing
  <2>2. DOMAIN db.cover = Slugs
        /\ \A s \in Slugs : db.cover[s] = IF s = "futuro" THEN "older" ELSE "none"
    BY <1>3, <2>1
  <2> QED BY <1>2, <1>5, <2>1, <2>2 DEF CoverInv, CoverStored
<1> QED BY <1>4, <1>5 DEF Init

\* The step after this one is a row only after its object was put, a removal only
\* after the row.
LEMMA NextStep ==
  ASSUME at \in DOMAIN Script, at' = at + 1
  PROVE  /\ Is("coverRow")' => Script[at] = [what |-> "putCover", on |-> On'] /\ On' \in Slugs
         /\ Is("oldCover")' => Script[at] = [what |-> "coverRow", on |-> On']
<1>1. PICK S : Script \in Seq(S)
  BY ScriptOrdered DEF Ordered
<1>2. DOMAIN Script = 1 .. Len(Script) /\ at \in Int /\ (at + 1) - 1 = at
  BY <1>1
<1> QED BY <1>2, ScriptOrdered DEF Ordered, Is, Running, On

\* A step of the script that is neither the object's nor the row's leaves the
\* covers alone and no key less.
LEMMA CoverKept ==
  ASSUME CoverInv, at \in DOMAIN Script, at' = at + 1,
         Script[at].what \notin {"putCover", "coverRow"},
         "cover" \in DOMAIN db', db'.cover = db.cover, CoverStored'
  PROVE  CoverInv'
<1>1. ~Is("coverRow")' /\ ~Is("oldCover")'
  BY NextStep
<1> QED BY <1>1 DEF CoverInv

\* A step, a crash or a new run of the seed keeps every cover stored.
LEMMA CoverStep ==
  ASSUME CoverInv, [Next]_vars
  PROVE  CoverInv'
<1> DEFINE plain == /\ at \in DOMAIN Script /\ at' = at + 1
                    /\ Script[at].what \notin {"putCover", "coverRow"}
                    /\ "cover" \in DOMAIN db' /\ db'.cover = db.cover
                    /\ objects \subseteq objects'
<1>1. plain => CoverInv'
  BY CoverKept DEF CoverInv, CoverStored
<1>2. ASSUME at' \in {0, 1} \/ at' = Len(Script) + 1, db' = db, objects' = objects
      PROVE  CoverInv'
  <2>1. at' \in DOMAIN Script => at' = 1
    BY <1>2, ScriptSteps
  <2>2. ~Is("coverRow")' /\ ~Is("oldCover")'
    BY <2>1, ScriptSteps DEF Is, Running
  <2> QED BY <1>2, <2>2 DEF CoverInv, CoverStored
<1>3. ASSUME at' = at, "cover" \in DOMAIN db', db'.cover = db.cover, objects' = objects
      PROVE  CoverInv'
  BY <1>3 DEF CoverInv, CoverStored, Is, Running, On
<1> USE DEF Is, Running, Goes
<1>4. CASE User
  <2>1. plain
    BY <1>4 DEF User, CreateUser, CoverInv
  <2> QED BY <1>1, <2>1
<1>5. CASE Role
  <2>1. plain
    BY <1>5 DEF Role, CoverInv
  <2> QED BY <1>1, <2>1
<1>6. CASE Profile
  <2>1. plain
    BY <1>6 DEF Profile, CoverInv
  <2> QED BY <1>1, <2>1
<1>7. CASE Categories
  <2>1. plain
    BY <1>7 DEF Categories, CoverInv
  <2> QED BY <1>1, <2>1
<1>8. CASE Event
  <2>1. plain
    BY <1>8 DEF Event, CoverInv
  <2> QED BY <1>1, <2>1
<1>9. CASE PutCover
  <2>1. /\ at \in DOMAIN Script /\ at' = at + 1 /\ Script[at].what = "putCover"
        /\ db' = db /\ objects' = objects \cup {<<On, "seed">>}
    BY <1>9 DEF PutCover
  <2>2. ~Is("oldCover")' /\ (Is("coverRow")' => On' = On)
    BY <2>1, NextStep DEF On
  <2> QED BY <2>1, <2>2 DEF CoverInv, CoverStored
<1>10. CASE Cover
  <2>1. /\ at \in DOMAIN Script /\ at' = at + 1 /\ Script[at].what = "coverRow"
        /\ db' = [db EXCEPT !.cover[On] = "seed"] /\ objects' = objects
    BY <1>10 DEF Cover, CoverRow
  <2>2. <<On, "seed">> \in objects
    BY <2>1 DEF CoverInv
  <2>3. On \in Slugs
    BY <2>1, ScriptSteps DEF On
  <2>4. /\ "cover" \in DOMAIN db' /\ DOMAIN db'.cover = Slugs
        /\ \A s \in Slugs : db'.cover[s] = IF s = On THEN "seed" ELSE db.cover[s]
    BY <2>1, <2>3 DEF CoverInv
  <2>5. ~Is("coverRow")' /\ (Is("oldCover")' => On' = On)
    BY <2>1, NextStep DEF On
  <2> QED BY <2>1, <2>2, <2>3, <2>4, <2>5 DEF CoverInv, CoverStored
<1>11. CASE OldCover
  <2>1. /\ at \in DOMAIN Script /\ at' = at + 1 /\ Script[at].what = "oldCover" /\ db' = db
        /\ \/ objects' = objects
           \/ found.old # "seed" /\ objects' = objects \ {<<On, found.old>>}
    BY <1>11 DEF OldCover
  <2>2. db.cover[On] = "seed"
    BY <2>1 DEF CoverInv
  <2>3. CoverStored'
    BY <2>1, <2>2 DEF CoverInv, CoverStored
  <2> QED BY <2>1, <2>3, CoverKept DEF CoverInv
<1>12. CASE PutGallery
  <2>1. plain
    BY <1>12 DEF PutGallery, CoverInv
  <2> QED BY <1>1, <2>1
<1>13. CASE GalleryRow
  <2>1. plain
    BY <1>13 DEF GalleryRow, CoverInv
  <2> QED BY <1>1, <2>1
<1>14. CASE Staff
  <2>1. plain
    BY <1>14 DEF Staff, CoverInv
  <2> QED BY <1>1, <2>1
<1>15. CASE Legacy
  <2>1. plain
    BY <1>15 DEF Legacy, CoverInv
  <2> QED BY <1>1, <2>1
<1>16. CASE FindType
  <2>1. plain
    BY <1>16 DEF FindType, CoverInv
  <2> QED BY <1>1, <2>1
<1>17. CASE SaveType
  <2>1. plain
    BY <1>17 DEF SaveType, CoverInv
  <2> QED BY <1>1, <2>1
<1>18. CASE Units
  <2>1. plain
    BY <1>18 DEF Units, CoverInv
  <2> QED BY <1>1, <2>1
<1>19. CASE FindOrder
  <2>1. CASE db.order
    BY <1>2, <1>19, <2>1 DEF FindOrder
  <2>2. CASE ~db.order
    <3>1. plain
      BY <1>19, <2>2 DEF FindOrder, CoverInv
    <3> QED BY <1>1, <3>1
  <2> QED BY <2>1, <2>2
<1>20. CASE Checkout
  <2>1. plain \/ Throws
    BY <1>20 DEF Checkout, CoverInv
  <2> QED BY <1>1, <1>2, <2>1 DEF Throws, Failed
<1>21. CASE Confirm
  <2>1. plain \/ Throws
    BY <1>21 DEF Confirm, CoverInv
  <2> QED BY <1>1, <1>2, <2>1 DEF Throws, Failed
<1>22. CASE Crash
  BY <1>2, <1>22 DEF Crash, Failed
<1>23. CASE Rerun
  BY <1>2, <1>23 DEF Rerun
<1>24. CASE Restart
  BY <1>2, <1>24 DEF Restart
<1>25. CASE Abandoned
  BY <1>3, <1>25 DEF Abandoned, CoverInv
<1>26. CASE EventCancelled
  BY <1>3, <1>26 DEF EventCancelled, Meddle, CoverInv
<1>27. CASE Sold
  BY <1>3, <1>27 DEF Sold, Meddle, CoverInv
<1>28. CASE Shrunk
  BY <1>3, <1>28 DEF Shrunk, Meddle, CoverInv
<1>29. CASE Grown
  BY <1>3, <1>29 DEF Grown, Meddle, CoverInv
<1>30. CASE UNCHANGED vars
  BY <1>3, <1>30 DEF vars, CoverInv
<1> QED
  BY <1>4, <1>5, <1>6, <1>7, <1>8, <1>9, <1>10, <1>11, <1>12, <1>13, <1>14, <1>15, <1>16,
     <1>17, <1>18, <1>19, <1>20, <1>21, <1>22, <1>23, <1>24, <1>25, <1>26, <1>27, <1>28,
     <1>29, <1>30 DEF Next, Step

\* The cover a row names is in the bucket at every moment.
THEOREM CoversAreStored == ClientsSpec => []CoverStored
<1>1. CoverInv => CoverStored
  BY DEF CoverInv
<1> QED BY <1>1, BackstageInit, BackstageNext, CoverInit, CoverStep, PTL DEF ClientsSpec

-----------------------------------------------------------------------------
(* The limiter *)

\* The limits the guard is configured with are positive numbers.
LEMMA LimiterConstants == Limit \in Nat /\ TTL \in Nat /\ TTL >= 1 /\ Horizon \in Nat /\ Horizon >= 1
BY ClientsAssumption

\* A window split where a bucket starts lets through two limits at most.
LEMMA TwoParts ==
  ASSUME NEW x, NEW u \in Nat, x = u, NEW v \in Nat, NEW w \in Nat,
         u - v <= Limit, v - w <= Limit \/ v <= w
  PROVE  x - w <= 2 * Limit
BY LimiterConstants

\* With what was never let through, a key without a bucket is as it should be.
LEMMA QuietHeld ==
  ASSUME NEW n \in 1 .. Horizon, NEW P, P = [t \in 0 .. Horizon |-> 0], NEW T, NEW k, k \notin DOMAIN T
  PROVE  Limiting!Held(T, P, n, k)
<1>1. \A t \in 0 .. Horizon : P[t] = 0
  OBVIOUS
<1>2. Limiting!Counted(P, n)
  BY <1>1, LimiterConstants DEF Limiting!Counted
<1>3. Limiting!Twice(P)
  BY <1>1, LimiterConstants DEF Limiting!Twice
<1>4. Limiting!Unbucketed(P, n)
  BY <1>1, LimiterConstants DEF Limiting!Unbucketed
<1> QED BY <1>2, <1>3, <1>4 DEF Limiting!Held, Limiting!Live

\* A guard just started has let nobody through.
LEMMA LimiterInit == Limiting!Init => Limiting!LimiterInv
<1> SUFFICES ASSUME Limiting!Init PROVE Limiting!LimiterInv
  OBVIOUS
<1>1. now \in 1 .. Horizon /\ DOMAIN authAttempts = {}
  BY LimiterConstants DEF Limiting!Init
<1>2. DOMAIN passed = Keys /\ \A k \in Keys : passed[k] = [t \in 0 .. Horizon |-> 0]
  BY DEF Limiting!Init, Limiting!Quiet
<1> QED BY <1>1, <1>2, QuietHeld DEF Limiting!LimiterInv

\* An attempt that passes counts from its moment on.
LEMMA PassCounted ==
  ASSUME NEW n \in 1 .. Horizon, NEW P, Limiting!Counted(P, n),
         NEW Q, Q = [t \in 0 .. Horizon |-> IF t < n THEN P[t] ELSE P[t] + 1]
  PROVE  Limiting!Counted(Q, n)
<1>1. P \in [0 .. Horizon -> Nat] /\ Horizon \in Nat
  BY LimiterConstants DEF Limiting!Counted
<1>2. \A t \in 0 .. Horizon : Q[t] = IF t < n THEN P[t] ELSE P[t] + 1
  OBVIOUS
<1>3. Q \in [0 .. Horizon -> Nat]
  BY <1>1
<1>4. ASSUME NEW t \in 0 .. Horizon, NEW s \in 0 .. t
      PROVE  Q[s] <= Q[t]
  <2>1. s \in 0 .. Horizon /\ P[s] <= P[t] /\ P[s] \in Nat /\ P[t] \in Nat
    BY <1>1, <1>4 DEF Limiting!Counted
  <2> QED BY <1>2, <2>1
<1>5. ASSUME NEW t \in 0 .. Horizon, t >= n
      PROVE  Q[t] = Q[n]
  <2>1. P[t] = P[n] /\ n \in 0 .. Horizon
    BY <1>1, <1>5 DEF Limiting!Counted
  <2> QED BY <1>2, <1>5, <2>1
<1> QED BY <1>3, <1>4, <1>5 DEF Limiting!Counted

\* The bucket an attempt finds or opens counts what passed in it.
LEMMA BucketOf ==
  ASSUME Limiting!LimiterInv, NEW k \in Keys
  PROVE  /\ Limiting!InBucket(passed[k], now, Limiting!Bucket(k))
         /\ Limiting!Bucket(k) \in [count : Nat, resetAt : Int]
         /\ Limiting!Bucket(k).resetAt > now
<1>1. /\ now \in 1 .. Horizon /\ Horizon \in Nat
      /\ Limiting!Held(authAttempts, passed[k], now, k)
  BY LimiterConstants DEF Limiting!LimiterInv
<1>2. CASE Limiting!Live(authAttempts, now, k)
  BY <1>1, <1>2 DEF Limiting!Bucket, Limiting!Live, Limiting!Held, Limiting!LimiterInv
<1>3. CASE ~Limiting!Live(authAttempts, now, k)
  <2> DEFINE b == [count |-> 0, resetAt |-> now + TTL]
  <2>1. Limiting!Bucket(k) = b
    <3>1. k \notin DOMAIN authAttempts \/ authAttempts[k].resetAt <= now
      BY <1>1, <1>3 DEF Limiting!Live, Limiting!LimiterInv
    <3> QED BY <3>1 DEF Limiting!Bucket
  <2>2. b.resetAt - TTL = now /\ b.count = 0 /\ b.resetAt > now /\ b \in [count : Nat, resetAt : Int]
    BY <1>1, LimiterConstants
  <2> HIDE DEF b
  <2>3. Limiting!Unbucketed(passed[k], now) /\ passed[k] \in [0 .. Horizon -> Nat]
    BY <1>1, <1>3 DEF Limiting!Held, Limiting!Counted
  <2>4. passed[k][now] = passed[k][now - 1] /\ passed[k][now] \in Nat
    BY <1>1, <2>3 DEF Limiting!Unbucketed
  <2>5. Limiting!InBucket(passed[k], now, b)
    <3> DEFINE start == b.resetAt - TTL
    <3>1. start = now /\ start \in 1 .. now
      BY <1>1, <2>2
    <3> HIDE DEF start
    <3>2. passed[k][now] - passed[k][start - 1] = IF b.count < Limit THEN b.count ELSE Limit
      BY <2>2, <2>4, <3>1, LimiterConstants
    <3>3. ASSUME NEW s \in 1 .. start, s > start - TTL
          PROVE  passed[k][start - 1] - passed[k][s - 1] <= Limit
      BY <2>3, <2>4, <3>1, <3>3 DEF Limiting!Unbucketed
    <3> QED BY <3>1, <3>2, <3>3 DEF start, Limiting!InBucket
  <2> QED BY <2>1, <2>2, <2>5
<1> QED BY <1>2, <1>3

\* One more attempt in a bucket: it passes while the count is below the limit, and a
\* window that it falls into touches no bucket but this one and the one before.
LEMMA OneMore ==
  ASSUME NEW n \in 1 .. Horizon, NEW P, Limiting!Counted(P, n), Limiting!Twice(P),
         NEW b \in [count : Nat, resetAt : Int], b.resetAt > n, Limiting!InBucket(P, n, b),
         NEW c, c = [b EXCEPT !.count = @ + 1],
         NEW Q, Q = IF c.count <= Limit
                    THEN [t \in 0 .. Horizon |-> IF t < n THEN P[t] ELSE P[t] + 1] ELSE P
  PROVE  Limiting!Counted(Q, n) /\ Limiting!Twice(Q) /\ Limiting!InBucket(Q, n, c)
<1> DEFINE start == b.resetAt - TTL
<1>1. /\ n \in Nat /\ Horizon \in Nat /\ n <= Horizon /\ P \in [0 .. Horizon -> Nat]
      /\ b.count \in Nat /\ b.resetAt \in Int /\ c.count = b.count + 1 /\ c.resetAt = b.resetAt
  BY LimiterConstants DEF Limiting!Counted
<1>2. /\ start \in 1 .. n
      /\ P[n] - P[start - 1] = IF b.count < Limit THEN b.count ELSE Limit
      /\ \A s \in 1 .. start : s > start - TTL => P[start - 1] - P[s - 1] <= Limit
  BY DEF Limiting!InBucket
<1>3. c.resetAt - TTL = start
  BY <1>1
<1>4. n <= start + TTL - 1 /\ start \in Int
  BY <1>1, LimiterConstants
<1> HIDE DEF start
<1>5. CASE c.count > Limit
  <2>1. Q = P
    BY <1>1, <1>5, LimiterConstants
  <2>2. P[n] - P[start - 1] = IF c.count < Limit THEN c.count ELSE Limit
    BY <1>1, <1>2, <1>5, LimiterConstants
  <2>3. Limiting!InBucket(Q, n, c)
    BY <1>2, <1>3, <2>1, <2>2 DEF Limiting!InBucket
  <2> QED BY <2>1, <2>3
<1>6. CASE c.count <= Limit
  <2>1. Q = [t \in 0 .. Horizon |-> IF t < n THEN P[t] ELSE P[t] + 1]
    BY <1>6
  <2>2. Limiting!Counted(Q, n)
    BY <2>1, PassCounted
  <2>3. \A t \in 0 .. Horizon : Q[t] = (IF t < n THEN P[t] ELSE P[t] + 1) /\ P[t] \in Nat
    BY <1>1, <2>1
  <2>4. Q[n] - Q[start - 1] = IF c.count < Limit THEN c.count ELSE Limit
    <3>1. n \in 0 .. Horizon /\ start - 1 \in 0 .. Horizon /\ start - 1 < n
      BY <1>1, <1>2
    <3>2. Q[n] = P[n] + 1 /\ Q[start - 1] = P[start - 1] /\ P[n] \in Nat /\ P[start - 1] \in Nat
      BY <2>3, <3>1
    <3>3. b.count < Limit
      BY <1>1, <1>6, LimiterConstants
    <3>4. P[n] - P[start - 1] = b.count
      BY <1>2, <3>3
    <3>5. Q[n] - Q[start - 1] = c.count
      BY <1>1, <3>2, <3>4
    <3> QED BY <1>1, <1>6, <3>5, LimiterConstants
  <2>5. ASSUME NEW s \in 1 .. start, s > start - TTL
        PROVE  Q[start - 1] - Q[s - 1] <= Limit
    <3>1. /\ start - 1 \in 0 .. Horizon /\ start - 1 < n
          /\ s - 1 \in 0 .. Horizon /\ s - 1 < n
      BY <1>1, <1>2, <2>5
    <3> QED BY <1>2, <2>3, <2>5, <3>1
  <2>6. Limiting!InBucket(Q, n, c)
    BY <1>2, <1>3, <2>4, <2>5 DEF Limiting!InBucket
  <2>7. ASSUME NEW s \in 1 .. Horizon
        PROVE  Q[IF s + TTL - 1 > Horizon THEN Horizon ELSE s + TTL - 1] - Q[s - 1] <= 2 * Limit
    <3> DEFINE e == IF s + TTL - 1 > Horizon THEN Horizon ELSE s + TTL - 1
    <3>1. e \in 0 .. Horizon /\ s - 1 \in 0 .. Horizon /\ e >= s /\ e <= s + TTL - 1
      BY <1>1, LimiterConstants, SMTT(30)
    <3>2. P[e] - P[s - 1] <= 2 * Limit
      BY DEF Limiting!Twice
    <3> HIDE DEF e
    <3>3. CASE e < n \/ s - 1 >= n
      <4>1. Q[e] - Q[s - 1] = P[e] - P[s - 1]
        BY <1>1, <2>3, <3>1, <3>3, SMTT(30)
      <4> QED BY <3>2, <4>1 DEF e
    <3>4. CASE e >= n /\ s - 1 < n
      <4>1. Q[e] = Q[n] /\ Q[n] \in Nat /\ Q[s - 1] \in Nat /\ Q[start - 1] \in Nat
        <5>1. start - 1 \in 0 .. Horizon /\ n \in 0 .. Horizon
          BY <1>1, <1>2
        <5> QED BY <2>2, <3>1, <3>4, <5>1 DEF Limiting!Counted
      <4>2. Q[n] - Q[start - 1] <= Limit
        BY <1>1, <2>4, LimiterConstants
      <4>3. CASE s <= start
        <5>1. s \in 1 .. start /\ s > start - TTL
          BY <1>1, <1>2, <3>1, <3>4, <4>3, LimiterConstants, SMTT(30)
        <5>2. Q[start - 1] - Q[s - 1] <= Limit
          BY <2>5, <5>1, SMTT(30)
        <5>3. Q[e] - Q[s - 1] <= 2 * Limit
          BY <4>1, <4>2, <5>2, TwoParts
        <5> QED BY <5>3 DEF e
      <4>4. CASE s > start
        <5>1. start - 1 \in 0 .. s - 1 /\ s - 1 \in 0 .. Horizon
          BY <1>1, <1>2, <3>1, <4>4, SMTT(30)
        <5>2. Q[start - 1] <= Q[s - 1]
          BY <2>2, <5>1, SMTT(30) DEF Limiting!Counted
        <5>3. Q[e] - Q[s - 1] <= 2 * Limit
          BY <4>1, <4>2, <5>2, TwoParts
        <5> QED BY <5>3 DEF e
      <4> QED BY <1>1, <1>2, <4>3, <4>4
    <3> QED BY <1>1, <3>1, <3>3, <3>4
  <2>8. Limiting!Twice(Q)
    BY <2>7 DEF Limiting!Twice
  <2> QED BY <2>2, <2>6, <2>8
<1> QED BY <1>1, <1>5, <1>6, LimiterConstants

\* The sweep drops no bucket whose window has not ended, and changes none.
LEMMA SweepKeeps ==
  ASSUME NEW T, NEW k
  PROVE  /\ DOMAIN Limiting!Swept(T) \subseteq DOMAIN T
         /\ k \in DOMAIN Limiting!Swept(T) => Limiting!Swept(T)[k] = T[k]
         /\ k \in DOMAIN T /\ T[k].resetAt > now => k \in DOMAIN Limiting!Swept(T)
BY DEF Limiting!Swept

\* An attempt, let through or refused, keeps the count of its bucket right.
LEMMA AttemptStep ==
  ASSUME Limiting!LimiterInv, NEW k \in Keys, Limiting!Attempt(k)
  PROVE  Limiting!LimiterInv'
<1> DEFINE bucket == [Limiting!Bucket(k) EXCEPT !.count = @ + 1]
           T == [j \in DOMAIN authAttempts \cup {k} |-> IF j = k THEN bucket ELSE authAttempts[j]]
           Q == IF bucket.count <= Limit
                THEN [t \in 0 .. Horizon |-> IF t < now THEN passed[k][t] ELSE passed[k][t] + 1]
                ELSE passed[k]
<1>1. /\ now \in 1 .. Horizon /\ DOMAIN authAttempts \subseteq Keys /\ DOMAIN passed = Keys
      /\ \A j \in DOMAIN authAttempts : authAttempts[j] \in [count : Nat, resetAt : Int]
      /\ \A j \in Keys : Limiting!Held(authAttempts, passed[j], now, j)
  BY DEF Limiting!LimiterInv
<1>2. /\ Limiting!InBucket(passed[k], now, Limiting!Bucket(k))
      /\ Limiting!Bucket(k) \in [count : Nat, resetAt : Int]
      /\ Limiting!Bucket(k).resetAt > now
  BY BucketOf
<1>3. bucket \in [count : Nat, resetAt : Int] /\ bucket.resetAt > now
  BY <1>2
<1>4. now' = now /\ authAttempts' = Limiting!Swept(T)
  BY DEF Limiting!Attempt
<1>5. DOMAIN passed' = Keys /\ passed'[k] = Q /\ \A j \in Keys \ {k} : passed'[j] = passed[j]
  BY <1>1 DEF Limiting!Attempt
<1>6. Limiting!Counted(passed[k], now) /\ Limiting!Twice(passed[k])
  BY <1>1 DEF Limiting!Held
<1>7. Limiting!Counted(Q, now) /\ Limiting!Twice(Q) /\ Limiting!InBucket(Q, now, bucket)
  <2> DEFINE b == Limiting!Bucket(k)
  <2>1. bucket = [b EXCEPT !.count = @ + 1]
    OBVIOUS
  <2>2. Q = IF bucket.count <= Limit
            THEN [t \in 0 .. Horizon |-> IF t < now THEN passed[k][t] ELSE passed[k][t] + 1]
            ELSE passed[k]
    OBVIOUS
  <2> HIDE DEF b, bucket, Q
  <2>3. Limiting!InBucket(passed[k], now, b) /\ b \in [count : Nat, resetAt : Int] /\ b.resetAt > now
    BY <1>2 DEF b
  <2> QED BY <1>1, <1>6, <2>1, <2>2, <2>3, OneMore
<1> HIDE DEF bucket, Q
<1>8. /\ DOMAIN T = DOMAIN authAttempts \cup {k} /\ T[k] = bucket
      /\ \A j \in DOMAIN authAttempts \ {k} : T[j] = authAttempts[j]
  OBVIOUS
<1> HIDE DEF T
<1>9. /\ DOMAIN authAttempts' \subseteq DOMAIN T
      /\ \A j \in DOMAIN authAttempts' : authAttempts'[j] = T[j]
      /\ \A j \in DOMAIN T : T[j].resetAt > now => j \in DOMAIN authAttempts'
  BY <1>4, SweepKeeps
<1>10. /\ DOMAIN authAttempts' \subseteq Keys
       /\ \A j \in DOMAIN authAttempts' : authAttempts'[j] \in [count : Nat, resetAt : Int]
  BY <1>1, <1>3, <1>8, <1>9
<1>11. Limiting!Held(authAttempts', passed'[k], now', k)
  BY <1>3, <1>4, <1>5, <1>7, <1>8, <1>9 DEF Limiting!Held, Limiting!Live
<1>12. ASSUME NEW j \in Keys \ {k}
       PROVE  Limiting!Held(authAttempts', passed'[j], now', j)
  <2>1. passed'[j] = passed[j] /\ Limiting!Held(authAttempts, passed[j], now, j)
    BY <1>1, <1>5
  <2>2. /\ Limiting!Live(authAttempts', now, j) <=> Limiting!Live(authAttempts, now, j)
        /\ Limiting!Live(authAttempts, now, j) => authAttempts'[j] = authAttempts[j]
    BY <1>8, <1>9 DEF Limiting!Live
  <2> QED BY <1>4, <2>1, <2>2 DEF Limiting!Held
<1> QED BY <1>1, <1>4, <1>5, <1>10, <1>11, <1>12 DEF Limiting!LimiterInv

\* A moment goes by: the windows that end now leave at most Limit behind them.
LEMMA TickHeld ==
  ASSUME NEW n \in 1 .. Horizon, n < Horizon, NEW T, NEW P, NEW k, Limiting!Held(T, P, n, k),
         k \in DOMAIN T => T[k] \in [count : Nat, resetAt : Int]
  PROVE  Limiting!Held(T, P, n + 1, k)
<1>1. /\ n \in Nat /\ Horizon \in Nat /\ P \in [0 .. Horizon -> Nat]
      /\ n \in 0 .. Horizon /\ n + 1 \in 0 .. Horizon /\ n + 1 > n
  BY LimiterConstants DEF Limiting!Held, Limiting!Counted
<1>2. P[n + 1] = P[n] /\ P[n] \in Nat
  BY <1>1 DEF Limiting!Held, Limiting!Counted
<1>3. Limiting!Counted(P, n + 1)
  <2>1. ASSUME NEW t \in 0 .. Horizon, t >= n + 1
        PROVE  P[t] = P[n + 1]
    BY <1>1, <1>2, <2>1 DEF Limiting!Held, Limiting!Counted
  <2> QED BY <2>1 DEF Limiting!Held, Limiting!Counted
<1>4. ASSUME Limiting!Live(T, n + 1, k)
      PROVE  Limiting!InBucket(P, n + 1, T[k])
  <2>1. Limiting!InBucket(P, n, T[k])
    BY <1>1, <1>4 DEF Limiting!Held, Limiting!Live
  <2> QED BY <1>1, <1>2, <2>1 DEF Limiting!InBucket
<1>6. P[n + 1] = P[(n + 1) - 1]
  <2>1. (n + 1) - 1 = n
    BY <1>1
  <2> QED BY <1>2, <2>1
<1>5. ASSUME ~Limiting!Live(T, n + 1, k)
      PROVE  Limiting!Unbucketed(P, n + 1)
  <2>1. CASE Limiting!Live(T, n, k)
    <3> DEFINE start == T[k].resetAt - TTL
    <3>1. Limiting!InBucket(P, n, T[k]) /\ T[k].resetAt = n + 1 /\ T[k].count \in Nat
      BY <1>1, <1>5, <2>1 DEF Limiting!Held, Limiting!Live
    <3>2. start = (n + 1) - TTL /\ start \in 1 .. n /\ P[n] - P[start - 1] <= Limit
      <4>1. start = (n + 1) - TTL
        BY ONLY <3>1
      <4>2. start \in 1 .. n
        BY <3>1 DEF Limiting!InBucket
      <4>3. P[n] - P[start - 1] = IF T[k].count < Limit THEN T[k].count ELSE Limit
        BY <3>1 DEF Limiting!InBucket
      <4> HIDE DEF start
      <4>4. (IF T[k].count < Limit THEN T[k].count ELSE Limit) <= Limit
        BY <3>1, LimiterConstants
      <4> QED BY <4>1, <4>2, <4>3, <4>4
    <3> HIDE DEF start
    <3>3. ASSUME NEW s \in 1 .. n + 1, s > (n + 1) - TTL
          PROVE  P[n + 1] - P[s - 1] <= Limit
      <4>1. start - 1 \in 0 .. s - 1 /\ s - 1 \in 0 .. Horizon /\ start - 1 \in 0 .. Horizon
        BY <1>1, <3>2, <3>3, LimiterConstants
      <4>2. P[start - 1] <= P[s - 1] /\ P[start - 1] \in Nat /\ P[s - 1] \in Nat
        BY <1>1, <4>1 DEF Limiting!Held, Limiting!Counted
      <4> QED BY <1>2, <3>2, <4>2, LimiterConstants
    <3>9. \A s \in 1 .. n + 1 : s > (n + 1) - TTL => P[n + 1] - P[s - 1] <= Limit
      BY <3>3
    <3> QED BY <1>6, <3>9 DEF Limiting!Unbucketed
  <2>2. CASE ~Limiting!Live(T, n, k)
    <3>1. Limiting!Unbucketed(P, n)
      BY <2>2 DEF Limiting!Held
    <3>2. ASSUME NEW s \in 1 .. n + 1, s > (n + 1) - TTL
          PROVE  P[n + 1] - P[s - 1] <= Limit
      <4>1. CASE s \in 1 .. n
        BY <1>1, <1>2, <3>1, <3>2, <4>1, LimiterConstants DEF Limiting!Unbucketed
      <4>2. CASE s = n + 1
        BY <1>1, <1>2, <4>2, LimiterConstants
      <4> QED BY <1>1, <4>1, <4>2
    <3>9. \A s \in 1 .. n + 1 : s > (n + 1) - TTL => P[n + 1] - P[s - 1] <= Limit
      BY <3>2
    <3> QED BY <1>6, <3>9 DEF Limiting!Unbucketed
  <2> QED BY <2>1, <2>2
<1> QED BY <1>3, <1>4, <1>5 DEF Limiting!Held

\* Attempts, sweeps and time keep the count of every bucket right.
LEMMA LimiterStep ==
  ASSUME Limiting!LimiterInv, [Limiting!Next]_table
  PROVE  Limiting!LimiterInv'
<1>1. ASSUME NEW k \in Keys, Limiting!Attempt(k)
      PROVE  Limiting!LimiterInv'
  BY <1>1, AttemptStep
<1>2. CASE Limiting!Tick
  <2>1. now < Horizon /\ now' = now + 1 /\ authAttempts' = authAttempts /\ passed' = passed
    BY <1>2 DEF Limiting!Tick
  <2>2. now \in 1 .. Horizon /\ now' \in 1 .. Horizon
    BY <2>1, LimiterConstants DEF Limiting!LimiterInv
  <2>3. \A k \in Keys : Limiting!Held(authAttempts, passed[k], now + 1, k)
    BY <2>1, <2>2, TickHeld DEF Limiting!LimiterInv
  <2> QED BY <2>1, <2>2, <2>3 DEF Limiting!LimiterInv
<1>3. CASE Limiting!Restart
  <2>1. /\ DOMAIN authAttempts' = {} /\ now' = now /\ DOMAIN passed' = Keys
        /\ \A k \in Keys : passed'[k] = [t \in 0 .. Horizon |-> 0]
    BY <1>3 DEF Limiting!Restart, Limiting!Quiet
  <2>2. \A k \in Keys : Limiting!Held(authAttempts', passed'[k], now', k)
    BY <2>1, QuietHeld DEF Limiting!LimiterInv
  <2> QED BY <2>1, <2>2 DEF Limiting!LimiterInv
<1>4. CASE UNCHANGED table
  BY <1>4 DEF table, Limiting!LimiterInv
<1> QED BY <1>1, <1>2, <1>3, <1>4 DEF Limiting!Next

\* At most twice the limit passes in one window, and only an address's own attempts
\* are charged to it.
THEOREM LimitsHold == ClientsSpec => []LimitHolds
<1>1. ASSUME Limiting!LimiterInv PROVE LimitHolds
  <2>1. now \in 1 .. Horizon /\ DOMAIN authAttempts \subseteq Keys /\ Horizon \in Nat
    BY <1>1, LimiterConstants DEF Limiting!LimiterInv
  <2>2. ASSUME NEW k \in Keys, NEW s \in 1 .. Horizon
        PROVE  Limiting!Within(k, s) <= 2 * Limit
    BY <1>1 DEF Limiting!LimiterInv, Limiting!Held, Limiting!Twice, Limiting!Within
  <2>3. ASSUME NEW k \in DOMAIN authAttempts, authAttempts[k].resetAt > now
        PROVE  Limiting!Within(k, authAttempts[k].resetAt - TTL)
                 = IF authAttempts[k].count < Limit THEN authAttempts[k].count ELSE Limit
    <3> DEFINE b == authAttempts[k]
               start == b.resetAt - TTL
               e == IF start + TTL - 1 > Horizon THEN Horizon ELSE start + TTL - 1
    <3>1. /\ Limiting!InBucket(passed[k], now, b) /\ Limiting!Counted(passed[k], now)
          /\ b.resetAt \in Int
      BY <1>1, <2>1, <2>3 DEF Limiting!LimiterInv, Limiting!Held, Limiting!Live
    <3>2. e \in 0 .. Horizon /\ e >= now
      BY <2>1, <2>3, <3>1, LimiterConstants
    <3>3. passed[k][e] = passed[k][now]
      BY <3>1, <3>2 DEF Limiting!Counted
    <3>4. passed[k][now] - passed[k][start - 1] = IF b.count < Limit THEN b.count ELSE Limit
      BY <3>1 DEF Limiting!InBucket
    <3>5. Limiting!Within(k, start) = passed[k][e] - passed[k][start - 1]
      BY DEF Limiting!Within
    <3> QED BY <3>3, <3>4, <3>5
  <2> QED BY <2>2, <2>3 DEF LimitHolds, Limiting!LimitHolds
<1> QED BY <1>1, BackstageInit, BackstageNext, LimiterInit, LimiterStep, PTL DEF ClientsSpec
-----------------------------------------------------------------------------
(* The report *)

\* The constants of the report as facts of their own.
LEMMA ReportConstants ==
  IsFiniteSet(EventId) /\ IsFiniteSet(CheckoutId) /\ Main \in EventId /\ Top \in Nat
BY ClientsAssumption

\* The report counts as the library does.
LEMMA SameCount == \A S : Reporting!Cardinality(S) = Cardinality(S)
BY DEF Reporting!Cardinality, Cardinality

\* What a write of the platform does to the tables and to a report that is read: the
\* rows of R may change, no other does, and no type goes away.
Writes(R) ==
  /\ UNCHANGED <<section, stage, listed, answers>>
  /\ Reporting!Tables'
  /\ touched' = IF stage = "reading" THEN touched \cup R ELSE touched
  /\ \A c \in CheckoutId \ R : sale'[c] = sale[c]
  /\ types \subseteq types' /\ types' \ types \subseteq R
  /\ Main \notin R => capacity' = capacity /\ Reporting!Type!Rows' = Reporting!Type!Rows

\* Every step of the platform is a write of that kind.
LEMMA PlatformWrites ==
  ASSUME Reporting!Tables,
         \/ \E c \in CheckoutId, e \in EventId : Reporting!Reserve(c, e)
         \/ \E c \in CheckoutId, m \in Reporting!Moves : Reporting!Move(c, m)
         \/ \E e \in EventId : \/ Reporting!CancelEvent(e) \/ Reporting!CreateEvent(e)
                               \/ Reporting!CreateTicketType(e)
         \/ Reporting!ChangeUnits
  PROVE  \E R : Writes(R)
<1>1. /\ sale \in [CheckoutId -> [event : EventId, fate : Reporting!Fates]]
      /\ events \in [EventId -> {"NONE", "LIVE", "CANCELLED"}] /\ events[Main] # "NONE"
      /\ types \subseteq EventId /\ Main \in types /\ Main \in EventId
      /\ section \in Reporting!Sections /\ touched \subseteq CheckoutId \cup EventId
  BY ReportConstants DEF Reporting!Tables
<1>2. \A R : R \subseteq CheckoutId \cup EventId /\ Reporting!Changes(R) =>
        /\ UNCHANGED <<section, stage, listed, answers>>
        /\ touched' = IF stage = "reading" THEN touched \cup R ELSE touched
        /\ touched' \subseteq CheckoutId \cup EventId
  BY <1>1 DEF Reporting!Changes
<1>3. ASSUME UNCHANGED <<capacity, unit>>
      PROVE  capacity' = capacity /\ Reporting!Type!Rows' = Reporting!Type!Rows
  BY <1>3 DEF Reporting!Type!Rows, Reporting!Type!Sequence
<1>4. ASSUME NEW c \in CheckoutId, NEW e \in EventId, Reporting!Reserve(c, e)
      PROVE  Writes({c})
  <2>1. /\ sale' = [sale EXCEPT ![c] = [event |-> e, fate |-> "ACTIVE"]] /\ events' = events
        /\ types' = types /\ capacity' = capacity /\ unit' = unit /\ Reporting!Changes({c})
    BY <1>4 DEF Reporting!Reserve, Reporting!Sells, Reporting!typeVars
  <2>2. sale' \in [CheckoutId -> [event : EventId, fate : Reporting!Fates]]
    BY <1>1, <2>1 DEF Reporting!Fates
  <2>3. \A k \in CheckoutId \ {c} : sale'[k] = sale[k]
    BY <1>1, <2>1
  <2> QED BY <1>1, <1>2, <1>3, <2>1, <2>2, <2>3 DEF Writes, Reporting!Tables
<1>5. ASSUME NEW c \in CheckoutId, NEW m \in Reporting!Moves, Reporting!Move(c, m)
      PROVE  Writes({c})
  <2>1. /\ sale' = [sale EXCEPT ![c].fate = m[2]] /\ events' = events
        /\ types' = types /\ capacity' = capacity /\ unit' = unit /\ Reporting!Changes({c})
    BY <1>5 DEF Reporting!Move, Reporting!Sells, Reporting!typeVars
  <2>2. m[2] \in Reporting!Fates
    BY DEF Reporting!Moves, Reporting!Fates
  <2>3. sale' \in [CheckoutId -> [event : EventId, fate : Reporting!Fates]]
    BY <1>1, <2>1, <2>2
  <2>4. \A k \in CheckoutId \ {c} : sale'[k] = sale[k]
    BY <1>1, <2>1
  <2> QED BY <1>1, <1>2, <1>3, <2>1, <2>3, <2>4 DEF Writes, Reporting!Tables
<1>6. ASSUME NEW e \in EventId, Reporting!CancelEvent(e)
      PROVE  \E R : Writes(R)
  <2> DEFINE R == {c \in CheckoutId : sale[c].event = e}
  <2>1. /\ sale' = [c \in CheckoutId |->
                      IF sale[c].event = e
                      THEN [event |-> e, fate |-> Reporting!FateAtCancel(sale[c].fate)]
                      ELSE sale[c]]
        /\ events' = [events EXCEPT ![e] = "CANCELLED"]
        /\ types' = types /\ capacity' = capacity /\ unit' = unit /\ Reporting!Changes(R)
    BY <1>6 DEF Reporting!CancelEvent, Reporting!Sells, Reporting!typeVars
  <2>2. \A f \in Reporting!Fates : Reporting!FateAtCancel(f) \in Reporting!Fates
    BY DEF Reporting!FateAtCancel, Reporting!Fates, Reporting!Standing
  <2>3. sale' \in [CheckoutId -> [event : EventId, fate : Reporting!Fates]]
    BY <1>1, <2>1, <2>2
  <2>4. \A k \in CheckoutId \ R : sale'[k] = sale[k]
    BY <1>1, <2>1
  <2>5. events' \in [EventId -> {"NONE", "LIVE", "CANCELLED"}] /\ events'[Main] # "NONE"
    BY <1>1, <2>1
  <2>6. R \subseteq CheckoutId \cup EventId
    OBVIOUS
  <2> HIDE DEF R
  <2>7. Writes(R)
    BY <1>1, <1>2, <1>3, <2>1, <2>3, <2>4, <2>5, <2>6 DEF Writes, Reporting!Tables
  <2> QED BY <2>7
<1>7. ASSUME NEW e \in EventId, Reporting!CreateEvent(e)
      PROVE  Writes({})
  <2>1. /\ events' = [events EXCEPT ![e] = "LIVE"] /\ UNCHANGED <<sale, types, capacity, unit>>
        /\ Reporting!Changes({})
    BY <1>7 DEF Reporting!CreateEvent, Reporting!typeVars
  <2>2. events' \in [EventId -> {"NONE", "LIVE", "CANCELLED"}] /\ events'[Main] # "NONE"
    BY <1>1, <2>1
  <2> QED BY <1>1, <1>2, <1>3, <2>1, <2>2 DEF Writes, Reporting!Tables
<1>8. ASSUME NEW e \in EventId, Reporting!CreateTicketType(e)
      PROVE  Writes({e})
  <2>1. /\ types' = types \cup {e} /\ UNCHANGED <<events, sale, capacity, unit>>
        /\ Reporting!Changes({e})
    BY <1>8 DEF Reporting!CreateTicketType, Reporting!typeVars
  <2> QED BY <1>1, <1>2, <1>3, <2>1 DEF Writes, Reporting!Tables
<1>9. ASSUME Reporting!ChangeUnits
      PROVE  \E R : Writes(R)
  <2> DEFINE still == capacity' = capacity /\ Reporting!Type!Rows' = Reporting!Type!Rows
             R == IF still THEN {} ELSE {Main}
  <2>1. UNCHANGED <<events, sale, types>> /\ Reporting!Changes(R)
    BY <1>9 DEF Reporting!ChangeUnits
  <2>2. R \subseteq CheckoutId \cup EventId /\ (Main \notin R => still)
    BY <1>1
  <2> HIDE DEF R
  <2>3. Writes(R)
    BY <1>1, <1>2, <2>1, <2>2 DEF Writes, Reporting!Tables
  <2> QED BY <2>3
<1> QED BY <1>4, <1>5, <1>6, <1>7, <1>8, <1>9

\* Rows once found stay those that would be found now, but for what a write touched.
LEMMA FoundAgain ==
  ASSUME Reporting!Tables, NEW R, Writes(R), stage = "reading"
  PROVE  /\ touched' = touched \cup R
         /\ \A F, A : Reporting!Same(A, Reporting!Of(F)) => Reporting!Same(A, Reporting!Of(F))'
         /\ \A F : Reporting!Of(F) \ touched' = Reporting!Of(F)' \ touched'
         /\ \A E : Reporting!OrdersAt(E) \ touched' = Reporting!OrdersAt(E)' \ touched'
<1>1. /\ touched' = touched \cup R /\ listed' = listed
      /\ \A c \in CheckoutId \ touched' : sale'[c] = sale[c]
  BY DEF Writes
<1>2. \A F : Reporting!Of(F) \ touched' = Reporting!Of(F)' \ touched'
  BY <1>1 DEF Reporting!Of
<1>3. ASSUME NEW E
      PROVE  Reporting!OrdersAt(E) \ touched' = Reporting!OrdersAt(E)' \ touched'
  BY <1>1 DEF Reporting!OrdersAt, Reporting!Of
<1> QED BY <1>1, <1>2, <1>3 DEF Reporting!Same

\* What was found by the queries of a section stays good under a write.
LEMMA SectionWritten ==
  ASSUME Reporting!Tables, NEW R, Writes(R), stage = "reading", Main \in listed,
         Reporting!SectionRead
  PROVE  Reporting!SectionRead'
<1>1. /\ touched' = touched \cup R /\ UNCHANGED <<section, listed, answers>>
      /\ \A q : Reporting!Has(q)' <=> Reporting!Has(q)
      /\ section \in Reporting!Sections
  BY FoundAgain DEF Writes, Reporting!Has, Reporting!Tables
<1>2. /\ \A F, A : Reporting!Same(A, Reporting!Of(F)) => Reporting!Same(A, Reporting!Of(F))'
      /\ \A F : Reporting!Of(F) \ touched' = Reporting!Of(F)' \ touched'
      /\ \A E : Reporting!OrdersAt(E) \ touched' = Reporting!OrdersAt(E)' \ touched'
  BY FoundAgain
<1>3. CASE section = "funnel"
  <2>1. Reporting!FunnelRead
    BY <1>3 DEF Reporting!SectionRead
  <2>2. Reporting!FunnelRead'
    BY <1>1, <1>2, <2>1 DEF Reporting!FunnelRead
  <2> QED BY <1>1, <1>3, <2>2 DEF Reporting!SectionRead
<1>4. CASE section = "sales"
  <2>1. Reporting!SalesRead
    BY <1>4 DEF Reporting!SectionRead
  <2>2. ASSUME Reporting!Has("ranking")
        PROVE  /\ Reporting!Same(answers.ranking.orders, Reporting!OrdersAt(answers.ranking.events))'
               /\ Reporting!Cardinality(answers.ranking.events) < Top =>
                    Reporting!Of(Reporting!Standing)' \ touched' \subseteq answers.ranking.orders
    <3> DEFINE O == answers.ranking.orders
               E == answers.ranking.events
    <3>1. /\ O \subseteq CheckoutId /\ O \ touched = Reporting!OrdersAt(E) \ touched
          /\ Reporting!Cardinality(E) < Top => Reporting!Of(Reporting!Standing) \ touched \subseteq O
      BY <2>1, <2>2 DEF Reporting!SalesRead, Reporting!Same
    <3>2. O' = O /\ E' = E
      BY <1>1
    <3>3. Reporting!OrdersAt(E) \ touched' = Reporting!OrdersAt(E)' \ touched'
      BY <1>2, <3>2 DEF Reporting!OrdersAt
    <3>4. O \ touched' = Reporting!OrdersAt(E)' \ touched'
      BY <1>1, <3>1, <3>3
    <3>5. Reporting!Cardinality(E) < Top =>
            Reporting!Of(Reporting!Standing)' \ touched' \subseteq O
      BY <1>1, <1>2, <3>1
    <3> QED BY <3>1, <3>2, <3>4, <3>5 DEF Reporting!Same
  <2>3. Reporting!SalesRead'
    BY <1>1, <1>2, <2>1, <2>2 DEF Reporting!SalesRead
  <2> QED BY <1>1, <1>4, <2>3 DEF Reporting!SectionRead
<1>5. CASE section = "tickets"
  <2>1. Reporting!TicketsRead
    BY <1>5 DEF Reporting!SectionRead
  <2>2. Reporting!TicketsRead'
    BY <1>1, <1>2, <2>1 DEF Reporting!TicketsRead
  <2> QED BY <1>1, <1>5, <2>2 DEF Reporting!SectionRead
<1>6. CASE section = "occupancy"
  <2>1. Reporting!OccupancyRead
    BY <1>6 DEF Reporting!SectionRead
  <2>2. \A D : Reporting!Found(D) => Reporting!Found(D)'
    BY <1>1 DEF Reporting!Found, Writes
  <2>3. ASSUME NEW t, t \notin touched'
        PROVE  /\ Reporting!CapacityOf(t)' = Reporting!CapacityOf(t)
               /\ Reporting!UnitsOf(t)' = Reporting!UnitsOf(t)
    BY <1>1, <2>3 DEF Reporting!CapacityOf, Reporting!UnitsOf, Writes
  <2>4. Reporting!OccupancyRead'
    BY <1>1, <2>1, <2>2, <2>3 DEF Reporting!OccupancyRead
  <2> QED BY <1>1, <1>6, <2>4 DEF Reporting!SectionRead
<1> QED BY <1>1, <1>3, <1>4, <1>5, <1>6 DEF Reporting!Sections

\* An answer that comes in adds itself to the others and changes none.
LEMMA ReadAnswers ==
  ASSUME NEW q, NEW rows, q \notin DOMAIN answers,
         answers' = [r \in DOMAIN answers \cup {q} |-> IF r = q THEN rows ELSE answers[r]]
  PROVE  /\ answers'[q] = rows
         /\ \A r : Reporting!Has(r)' <=> Reporting!Has(r) \/ r = q
         /\ \A r : Reporting!Has(r) => answers'[r] = answers[r] /\ r # q
BY DEF Reporting!Has

\* An answer is good when it comes, and the others stay so.
LEMMA SectionAnswered ==
  ASSUME Reporting!Tables, stage = "reading", Main \in listed, Reporting!SectionRead,
         NEW q \in Reporting!Queries, Reporting!Read(q)
  PROVE  Reporting!SectionRead'
<1>1. /\ UNCHANGED <<section, events, sale, types, capacity, unit, listed, touched>>
      /\ section \in Reporting!Sections
      /\ q \notin DOMAIN answers
  BY DEF Reporting!Read, Reporting!Tables, Reporting!typeVars
<1>2. PICK rows \in Reporting!Finds(q) :
        answers' = [r \in DOMAIN answers \cup {q} |-> IF r = q THEN rows ELSE answers[r]]
  BY DEF Reporting!Read
<1>3. /\ answers'[q] = rows
      /\ \A r : Reporting!Has(r)' <=> Reporting!Has(r) \/ r = q
      /\ \A r : Reporting!Has(r) => answers'[r] = answers[r] /\ r # q
  BY <1>1, <1>2, ReadAnswers
<1>4. /\ \A F : Reporting!Of(F)' = Reporting!Of(F) /\ Reporting!Of(F) \subseteq CheckoutId
      /\ \A E : Reporting!OrdersAt(E)' = Reporting!OrdersAt(E)
      /\ \A A, B : Reporting!Same(A, B)' <=> Reporting!Same(A, B)
      /\ \A D : Reporting!Found(D)' <=> Reporting!Found(D)
  BY <1>1 DEF Reporting!Of, Reporting!OrdersAt, Reporting!Same, Reporting!Found
<1>5. CASE section = "funnel"
  <2>1. Reporting!FunnelRead /\ q \in {"checkoutGroups", "activeReservations", "allOrders"}
    BY <1>5 DEF Reporting!SectionRead, Reporting!Queries
  <2>2. /\ q = "checkoutGroups" => /\ rows.ACTIVE = Reporting!Of({"ACTIVE"})
                                   /\ rows.CONFIRMED = Reporting!Of(Reporting!Ordered)
        /\ q = "activeReservations" => rows \subseteq Reporting!Of({"ACTIVE"})
        /\ q = "allOrders" => rows = Reporting!Of(Reporting!Ordered)
    BY <1>2 DEF Reporting!Finds
  <2>3. Reporting!FunnelRead'
    BY <1>1, <1>3, <1>4, <2>1, <2>2 DEF Reporting!FunnelRead, Reporting!Same
  <2> QED BY <1>1, <1>5, <2>3 DEF Reporting!SectionRead
<1>6. CASE section = "sales"
  <2>1. Reporting!SalesRead /\ q \in {"allOrders", "confirmedOrders", "ranking"}
    BY <1>6 DEF Reporting!SectionRead, Reporting!Queries
  <2>2. CASE q = "ranking"
    <3>1. PICK R \in SUBSET listed :
            /\ Reporting!IsRanking(R)
            /\ rows.events = R
            /\ rows.orders = {c \in Reporting!Ranked : sale[c].event \in R}
      BY <1>2, <2>2 DEF Reporting!Finds
    <3>2. rows.orders = Reporting!OrdersAt(rows.events)
      BY <3>1 DEF Reporting!Ranked, Reporting!OrdersAt
    <3>3. ASSUME Reporting!Cardinality(R) < Top, NEW c \in Reporting!Of(Reporting!Standing)
          PROVE  c \in rows.orders
      <4>1. R = {e \in listed : {k \in Reporting!Ranked : sale[k].event = e} # {}}
        BY <3>1, <3>3 DEF Reporting!IsRanking
      <4>2. c \in Reporting!Ranked /\ sale[c].event \in listed
        BY DEF Reporting!Ranked, Reporting!Of
      <4> QED BY <3>1, <4>1, <4>2
    <3>4. Reporting!Of(Reporting!Standing)' = Reporting!Of(Reporting!Standing)
          /\ Reporting!OrdersAt(rows.events)' = Reporting!OrdersAt(rows.events)
          /\ Reporting!OrdersAt(rows.events) \subseteq CheckoutId
      BY <1>4 DEF Reporting!OrdersAt
    <3>5. /\ Reporting!Same(rows.orders, Reporting!OrdersAt(rows.events))'
          /\ Reporting!Cardinality(rows.events) < Top =>
               Reporting!Of(Reporting!Standing)' \ touched' \subseteq rows.orders
      BY <3>1, <3>2, <3>3, <3>4 DEF Reporting!Same
    <3>6. Reporting!SalesRead'
      BY <1>3, <1>4, <2>1, <2>2, <3>5 DEF Reporting!SalesRead
    <3> QED BY <1>1, <1>6, <3>6 DEF Reporting!SectionRead
  <2>3. CASE q # "ranking"
    <3>1. /\ q = "allOrders" => rows = Reporting!Of(Reporting!Ordered)
          /\ q = "confirmedOrders" => rows = Reporting!Of(Reporting!Standing)
      BY <1>2 DEF Reporting!Finds
    <3>2. Reporting!SalesRead'
      BY <1>1, <1>3, <1>4, <2>1, <2>3, <3>1 DEF Reporting!SalesRead, Reporting!Same
    <3> QED BY <1>1, <1>6, <3>2 DEF Reporting!SectionRead
  <2> QED BY <2>2, <2>3
<1>7. CASE section = "tickets"
  <2>1. Reporting!TicketsRead /\ q \in {"issuedTickets", "usedTickets", "validations"}
    BY <1>7 DEF Reporting!SectionRead, Reporting!Queries
  <2>2. /\ q = "issuedTickets" => rows = Reporting!Of(Reporting!Ordered)
        /\ q \in {"usedTickets", "validations"} => rows = Reporting!Of({"USED"})
    BY <1>2 DEF Reporting!Finds
  <2>3. Reporting!TicketsRead'
    BY <1>1, <1>3, <1>4, <2>1, <2>2 DEF Reporting!TicketsRead, Reporting!Same
  <2> QED BY <1>1, <1>7, <2>3 DEF Reporting!SectionRead
<1>8. CASE section = "occupancy"
  <2>1. Reporting!OccupancyRead /\ q \in {"ticketTypes", "unitGroups"}
    BY <1>8 DEF Reporting!SectionRead, Reporting!Queries
  <2>2. /\ q = "ticketTypes" => rows = [t \in types \cap listed |-> Reporting!CapacityOf(t)]
        /\ q = "unitGroups" => rows = [t \in types \cap listed |-> Reporting!UnitsOf(t)]
    BY <1>2 DEF Reporting!Finds
  <2>3. Reporting!Found(types \cap listed)
    BY DEF Reporting!Found, Reporting!Tables
  <2>4. \A t : /\ Reporting!CapacityOf(t)' = Reporting!CapacityOf(t)
               /\ Reporting!UnitsOf(t)' = Reporting!UnitsOf(t)
    BY <1>1 DEF Reporting!CapacityOf, Reporting!UnitsOf, Reporting!Type!Rows, Reporting!Type!Sequence
  <2>5. Reporting!OccupancyRead'
    BY <1>1, <1>3, <1>4, <2>1, <2>2, <2>3, <2>4 DEF Reporting!OccupancyRead
  <2> QED BY <1>1, <1>8, <2>5 DEF Reporting!SectionRead
<1> QED BY <1>1, <1>5, <1>6, <1>7, <1>8 DEF Reporting!Sections

\* Rows of A that did not change are of B: A has no more than B and what changed.
LEMMA CountWithin ==
  ASSUME Reporting!Tables, NEW A, NEW B, A \subseteq CheckoutId, B \subseteq CheckoutId,
         A \ touched \subseteq B
  PROVE  Reporting!Within(A, B)
<1>1. IsFiniteSet(CheckoutId \cup EventId)
  BY ReportConstants, FS_Union
<1>2. IsFiniteSet(A) /\ IsFiniteSet(B) /\ IsFiniteSet(touched)
  BY <1>1, FS_Subset DEF Reporting!Tables
<1>3. /\ IsFiniteSet(B \cup touched) /\ IsFiniteSet(B \cap touched)
      /\ Cardinality(B \cup touched) = Cardinality(B) + Cardinality(touched) - Cardinality(B \cap touched)
  BY <1>2, FS_Union, FS_Intersection
<1>4. Cardinality(A) <= Cardinality(B \cup touched)
  BY <1>3, FS_Subset
<1>5. /\ Cardinality(A) \in Nat /\ Cardinality(B) \in Nat /\ Cardinality(touched) \in Nat
      /\ Cardinality(B \cap touched) \in Nat
  BY <1>2, <1>3, FS_CardinalityType
<1> QED BY <1>3, <1>4, <1>5, SameCount DEF Reporting!Within

\* With every query answered the sections agree up to what changed.
LEMMA SectionsAgree == Reporting!ReportInv => Reporting!TornByChangedRowsOnly
<1> SUFFICES ASSUME Reporting!ReportInv, Reporting!Complete
             PROVE  CASE section = "funnel" -> Reporting!FunnelAgrees
                      [] section = "sales" -> Reporting!SalesAgree
                      [] section = "tickets" -> Reporting!TicketsAgree
                      [] section = "occupancy" -> Reporting!OccupancyAgrees
  BY DEF Reporting!TornByChangedRowsOnly, Reporting!ReportInv
<1>1. /\ Reporting!Tables /\ Reporting!SectionRead /\ section \in Reporting!Sections
      /\ \A q : Reporting!Has(q) <=> q \in Reporting!Queries
  BY DEF Reporting!ReportInv, Reporting!Tables, Reporting!Complete, Reporting!Has
<1>2. /\ \A F : Reporting!Of(F) \subseteq CheckoutId
      /\ Reporting!Of({"USED"}) \subseteq Reporting!Of(Reporting!Ordered)
      /\ Reporting!Of(Reporting!Standing) \subseteq Reporting!Of(Reporting!Ordered)
  BY DEF Reporting!Of, Reporting!Standing, Reporting!Ordered
<1>3. CASE section = "funnel"
  <2>1. /\ Reporting!FunnelRead
        /\ Reporting!Has("checkoutGroups") /\ Reporting!Has("activeReservations")
        /\ Reporting!Has("allOrders")
    BY <1>1, <1>3 DEF Reporting!SectionRead, Reporting!Queries
  <2>2. Reporting!FunnelAgrees
    BY <1>1, <2>1, CountWithin
       DEF Reporting!FunnelRead, Reporting!FunnelAgrees, Reporting!Same, Reporting!Near
  <2> QED BY <1>3, <2>2
<1>4. CASE section = "sales"
  <2> DEFINE R == answers.ranking.events
             C == {c \in answers.confirmedOrders : sale[c].event \in R}
  <2>1. /\ Reporting!SalesRead
        /\ Reporting!Has("allOrders") /\ Reporting!Has("confirmedOrders") /\ Reporting!Has("ranking")
    BY <1>1, <1>4 DEF Reporting!SectionRead, Reporting!Queries
  <2>2. /\ answers.ranking.orders \subseteq CheckoutId /\ answers.confirmedOrders \subseteq CheckoutId
        /\ answers.allOrders \subseteq CheckoutId
        /\ answers.ranking.orders \ touched = Reporting!OrdersAt(R) \ touched
        /\ answers.confirmedOrders \ touched = Reporting!Of(Reporting!Standing) \ touched
        /\ answers.allOrders \ touched = Reporting!Of(Reporting!Ordered) \ touched
        /\ Reporting!Cardinality(R) < Top =>
             Reporting!Of(Reporting!Standing) \ touched \subseteq answers.ranking.orders
    BY <2>1 DEF Reporting!SalesRead, Reporting!Same
  <2>3. Reporting!Within(answers.ranking.orders, answers.confirmedOrders)
    BY <1>1, <2>2, CountWithin DEF Reporting!OrdersAt
  <2>4. C \subseteq CheckoutId /\ C \ touched \subseteq answers.ranking.orders
    BY <2>2 DEF Reporting!OrdersAt
  <2>5. Reporting!Within(C, answers.ranking.orders)
    BY <1>1, <2>2, <2>4, CountWithin
  <2>6. Reporting!Cardinality(R) < Top => Reporting!Within(answers.confirmedOrders, answers.ranking.orders)
    BY <1>1, <2>2, CountWithin
  <2>7. Reporting!Within(answers.confirmedOrders, answers.allOrders)
    BY <1>1, <1>2, <2>2, CountWithin
  <2>8. Reporting!SalesAgree
    BY <2>3, <2>5, <2>6, <2>7 DEF Reporting!SalesAgree
  <2> QED BY <1>4, <2>8
<1>5. CASE section = "tickets"
  <2>1. /\ Reporting!TicketsRead
        /\ Reporting!Has("issuedTickets") /\ Reporting!Has("usedTickets")
        /\ Reporting!Has("validations")
    BY <1>1, <1>5 DEF Reporting!SectionRead, Reporting!Queries
  <2>2. Reporting!TicketsAgree
    BY <1>1, <1>2, <2>1, CountWithin
       DEF Reporting!TicketsRead, Reporting!TicketsAgree, Reporting!Same, Reporting!Near
  <2> QED BY <1>5, <2>2
<1>6. CASE section = "occupancy"
  <2>1. /\ Reporting!OccupancyRead
        /\ Reporting!Has("ticketTypes") /\ Reporting!Has("unitGroups")
    BY <1>1, <1>6 DEF Reporting!SectionRead, Reporting!Queries
  <2>2. Reporting!OccupancyAgrees
    BY <2>1 DEF Reporting!OccupancyRead, Reporting!OccupancyAgrees
  <2> QED BY <1>6, <2>2
<1> QED BY <1>1, <1>3, <1>4, <1>5, <1>6 DEF Reporting!Sections

\* A report nobody asked for has found nothing.
LEMMA ReportInit == Reporting!Init => Reporting!ReportInv
BY ReportConstants
   DEF Reporting!Init, Reporting!ReportInv, Reporting!Tables, Reporting!Fates

\* Writes, answers and new reports keep what was found as good as what changed allows.
LEMMA ReportStep ==
  ASSUME Reporting!ReportInv, [Reporting!Next]_report
  PROVE  Reporting!ReportInv'
<1>1. Reporting!Tables
  BY DEF Reporting!ReportInv
<1>2. CASE \/ \E c \in CheckoutId, e \in EventId : Reporting!Reserve(c, e)
           \/ \E c \in CheckoutId, m \in Reporting!Moves : Reporting!Move(c, m)
           \/ \E e \in EventId : \/ Reporting!CancelEvent(e) \/ Reporting!CreateEvent(e)
                                 \/ Reporting!CreateTicketType(e)
           \/ Reporting!ChangeUnits
  <2>1. PICK R : Writes(R)
    BY <1>1, <1>2, PlatformWrites
  <2>2. stage = "reading" => Main \in listed' /\ Reporting!SectionRead'
    BY <1>1, <2>1, SectionWritten DEF Reporting!ReportInv, Writes
  <2>3. stage = "failed" => touched' = touched /\ types \subseteq types'
    BY <2>1 DEF Writes
  <2> QED BY <2>1, <2>2, <2>3 DEF Reporting!ReportInv, Writes
<1>3. CASE Reporting!Ask
  <2>1. /\ stage' = "reading" /\ listed' = {e \in EventId : events[e] # "NONE"}
        /\ touched' = {} /\ UNCHANGED <<section, events, sale, types>>
        /\ \A q : ~Reporting!Has(q)'
    BY <1>3 DEF Reporting!Ask, Reporting!Has
  <2>2. /\ Reporting!FunnelRead' /\ Reporting!SalesRead' /\ Reporting!TicketsRead'
        /\ Reporting!OccupancyRead'
    BY <2>1 DEF Reporting!FunnelRead, Reporting!SalesRead, Reporting!TicketsRead,
                Reporting!OccupancyRead
  <2>3. Reporting!SectionRead'
    BY <1>1, <2>1, <2>2 DEF Reporting!SectionRead, Reporting!Tables, Reporting!Sections
  <2>4. Reporting!Tables' /\ Main \in listed'
    BY <1>1, <2>1, ReportConstants DEF Reporting!Tables
  <2> QED BY <2>1, <2>3, <2>4 DEF Reporting!ReportInv
<1>4. CASE Reporting!Composed
  <2>1. /\ UNCHANGED <<section, events, sale, types, listed, answers, touched>>
        /\ Reporting!SectionRead /\ stage' \in {"answered", "failed"}
        /\ stage' = "failed" => section = "occupancy" /\ Reporting!Unplaced # {}
    BY <1>4 DEF Reporting!Composed, Reporting!Complete, Reporting!ReportInv
  <2>2. ASSUME stage' = "failed"
        PROVE  touched \cap (types \ {Main}) # {}
    <3>1. section = "occupancy" /\ DOMAIN answers = {"ticketTypes", "unitGroups"}
      BY <1>4, <2>1, <2>2 DEF Reporting!Composed, Reporting!Complete, Reporting!Queries
    <3>2. Reporting!Found(DOMAIN answers.ticketTypes) /\ Reporting!Found(DOMAIN answers.unitGroups)
      BY <2>1, <3>1 DEF Reporting!SectionRead, Reporting!OccupancyRead, Reporting!Has
    <3>3. PICK t \in DOMAIN answers.unitGroups : t \notin DOMAIN answers.ticketTypes
      BY <2>1, <2>2 DEF Reporting!Unplaced
    <3> QED BY <3>2, <3>3 DEF Reporting!Found
  <2>3. Reporting!Tables'
    BY <1>1, <2>1 DEF Reporting!Tables
  <2> QED BY <2>1, <2>2, <2>3 DEF Reporting!ReportInv
<1>5. ASSUME NEW q \in Reporting!Queries, Reporting!Read(q)
      PROVE  Reporting!ReportInv'
  <2>1. /\ UNCHANGED <<section, events, sale, types, stage, listed, touched>>
        /\ stage = "reading" /\ Main \in listed /\ Reporting!SectionRead
    BY <1>5 DEF Reporting!Read, Reporting!ReportInv
  <2>2. Reporting!SectionRead'
    BY <1>1, <1>5, <2>1, SectionAnswered
  <2>3. Reporting!Tables'
    BY <1>1, <2>1 DEF Reporting!Tables
  <2> QED BY <2>1, <2>2, <2>3 DEF Reporting!ReportInv
<1>6. CASE UNCHANGED report
  <2>1. UNCHANGED <<section, events, sale, types, capacity, unit, stage, listed, answers, touched>>
    BY <1>6 DEF report, Reporting!typeVars
  <2>2. /\ \A F : Reporting!Of(F)' = Reporting!Of(F)
        /\ \A E : Reporting!OrdersAt(E)' = Reporting!OrdersAt(E)
        /\ \A t : /\ Reporting!CapacityOf(t)' = Reporting!CapacityOf(t)
                 /\ Reporting!UnitsOf(t)' = Reporting!UnitsOf(t)
    BY <2>1 DEF Reporting!Of, Reporting!OrdersAt, Reporting!CapacityOf, Reporting!UnitsOf,
                Reporting!Type!Rows, Reporting!Type!Sequence
  <2>3. /\ Reporting!FunnelRead => Reporting!FunnelRead'
        /\ Reporting!SalesRead => Reporting!SalesRead'
        /\ Reporting!TicketsRead => Reporting!TicketsRead'
    BY <2>1, <2>2 DEF Reporting!FunnelRead, Reporting!SalesRead, Reporting!TicketsRead,
                      Reporting!Has, Reporting!Same
  <2>4. Reporting!OccupancyRead => Reporting!OccupancyRead'
    BY <2>1, <2>2 DEF Reporting!OccupancyRead, Reporting!Has, Reporting!Found
  <2>5. Reporting!SectionRead => Reporting!SectionRead'
    BY <1>1, <2>1, <2>3, <2>4 DEF Reporting!SectionRead, Reporting!Tables, Reporting!Sections
  <2>6. Reporting!Tables'
    BY <1>1, <2>1 DEF Reporting!Tables
  <2> QED BY <2>1, <2>5, <2>6 DEF Reporting!ReportInv
<1> QED BY <1>2, <1>3, <1>4, <1>5, <1>6 DEF Reporting!Next

\* The sections of a report disagree by no more than the rows that changed between its
\* queries, for any number of events and checkouts, any length of the ranking and
\* whatever the updates of the capacity do.
THEOREM ReportsTornByChangedRowsOnly == ClientsSpec => []TornByChangedRowsOnly
<1>1. Reporting!ReportInv => TornByChangedRowsOnly
  BY SectionsAgree DEF TornByChangedRowsOnly
<1> QED BY <1>1, BackstageInit, BackstageNext, ReportInit, ReportStep, PTL DEF ClientsSpec
=============================================================================
