------------------------------- MODULE Carousel -------------------------------
(***************************************************************************)
(* The carousel of the home page: up to seven events around the one in     *)
(* front.  It advances by itself unless it is paused or has one slide.     *)
(***************************************************************************)
EXTENDS Integers

CONSTANT MaxFeatured   \* events the API may answer, a bound for TLC

VARIABLE hero   \* slides, activeIndex and paused

vars == <<hero>>

Init == hero = [slides |-> 0, active |-> 0, paused |-> FALSE]

\* The featured events arrive once; a failure leaves none.
Featured ==
  /\ hero.slides = 0
  /\ \E n \in 0 .. MaxFeatured :
       hero' = [hero EXCEPT !.slides = IF n > 7 THEN 7 ELSE n]

\* The slide in front.
Front == IF hero.slides = 0 THEN 0 ELSE hero.active % hero.slides

\* Without events there is a picture and nothing to press.
Shown == hero.slides > 0

\* move(): the arrows of the keyboard.
Move(direction) ==
  /\ Shown
  /\ hero' = [hero EXCEPT !.active =
                IF hero.slides < 2 THEN 0
                ELSE (hero.active + direction + hero.slides) % hero.slides]

\* Mutant: the half is not compared on the left side.
CircularOffset_Right(index, active, length) ==
  LET offset == index - active
  IN IF 2 * offset > length THEN offset - length ELSE offset

\* circularOffset()
CircularOffset(index, active, length) ==
  LET offset == index - active
  IN IF 2 * offset > length THEN offset - length
     ELSE IF 2 * offset < -length THEN offset + length ELSE offset

Offset(i) == CircularOffset(i, Front, hero.slides)
Distance(i) == IF Offset(i) < 0 THEN -Offset(i) ELSE Offset(i)
Slides == 0 .. hero.slides - 1

\* The arrows on the screen, which one slide does not have.
Arrow(direction) == hero.slides > 1 /\ Move(direction)

\* A slide beside the one in front comes forward; its dot brings any.
Click(i) ==
  /\ i \in Slides /\ Distance(i) = 1
  /\ hero' = [hero EXCEPT !.active = i]

Dot(i) ==
  /\ i \in Slides
  /\ hero' = [hero EXCEPT !.active = i]

Pause == Shown /\ hero' = [hero EXCEPT !.paused = ~@]

Advance ==
  /\ ~hero.paused /\ hero.slides >= 2
  /\ hero' = [hero EXCEPT !.active = (@ + 1) % hero.slides]

Next ==
  \/ Featured \/ Pause \/ Advance
  \/ \E direction \in {-1, 1} : Move(direction) \/ Arrow(direction)
  \/ \E i \in Slides : Click(i) \/ Dot(i)

Spec == Init /\ [][Next]_vars

\* Whatever was pressed, the slides stand around the front one by the shortest
\* way: each offset is its distance on the circle, the one in front is the only
\* one at zero, and from two slides on the one that an arrow brings is within
\* reach of a click.
SlidesAroundFront ==
  /\ \A i \in Slides :
       /\ (Offset(i) - (i - Front)) % hero.slides = 0
       /\ 2 * Distance(i) <= hero.slides
       /\ Offset(i) = 0 <=> i = Front
  /\ hero.slides >= 2 =>
       \A d \in {-1, 1} : Distance((Front + d + hero.slides) % hero.slides) = 1

------------------------------------------------------------------------------
(* The invariant behind the theorem of PagesProofs *)

CarouselInv ==
  /\ hero \in [slides : 0 .. 7, active : 0 .. 6, paused : BOOLEAN]
  /\ hero.active < hero.slides \/ hero.active = 0
===============================================================================
