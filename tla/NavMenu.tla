------------------------------- MODULE NavMenu -------------------------------
(***************************************************************************)
(* The navigation accordion, src/vanntool/static/js/nav.js: a click on    *)
(* the link of menu item i reads the CSS display of i's submenu, and      *)
(* either opens it (slideUp on every submenu, slideDown on i's, nav-show  *)
(* on i only) or closes it (slideUp on i's, nav-show removed from all).   *)
(*                                                                         *)
(* jQuery runs the animations of an element from its fx queue, one after  *)
(* another, each for 300 ms.  An animation queued on an idle element     *)
(* starts at once; the next starts when the previous completes.  slideDown *)
(* sets display to block when it starts (on a hidden element); slideUp    *)
(* keeps display until it completes and then sets none; either is a no-op *)
(* that still takes its 300 ms when the element is already in its target  *)
(* state.  Clicks and completions are handlers of the one event loop.     *)
(***************************************************************************)
EXTENDS Naturals, Sequences, FiniteSets

CONSTANTS
    Items,         \* the menu items
    MaxClicks      \* bound on the number of clicks

ASSUME NavAssumption == MaxClicks \in Nat /\ Items # {}

VARIABLES
    display,       \* display[j]: the CSS display of item j's submenu
    fx,            \* fx[j]: the fx queue of j's submenu, head running
    navShow,       \* the items with the class nav-show
    clicks         \* clicks so far

vars == <<display, fx, navShow, clicks>>

TypeOK ==
    /\ display \in [Items -> {"none", "block"}]
    /\ fx \in [Items -> Seq({"slideUp", "slideDown"})]
    /\ navShow \subseteq Items
    /\ clicks \in 0..MaxClicks

(* The display an animation leaves when it starts and when it completes. *)
OnStart(a, d) == IF a = "slideDown" THEN "block" ELSE d
OnComplete(a) == IF a = "slideUp" THEN "none" ELSE "block"

(* The fx queues and displays after queueing a on each submenu of S. *)
QueueFx(S, a, q, d) == [j \in Items |-> IF j \in S THEN Append(q[j], a) ELSE q[j]]
StartIdle(S, a, q, d) ==
    [j \in Items |-> IF j \in S /\ q[j] = << >> THEN OnStart(a, d[j]) ELSE d[j]]

(* The page starts with every submenu closed. *)
Init ==
    /\ display = [j \in Items |-> "none"]
    /\ fx = [j \in Items |-> << >>]
    /\ navShow = {}
    /\ clicks = 0

(* Mutant: the open branch does not slide the other submenus up. *)
ClickNoCollapse(i) ==
    /\ clicks < MaxClicks
    /\ clicks' = clicks + 1
    /\ IF display[i] = "none"
       THEN /\ fx' = QueueFx({i}, "slideDown", fx, display)
            /\ display' = StartIdle({i}, "slideDown", fx, display)
            /\ navShow' = {i}
       ELSE /\ fx' = QueueFx({i}, "slideUp", fx, display)
            /\ display' = StartIdle({i}, "slideUp", fx, display)
            /\ navShow' = {}

(* The click handler on the link of item i. *)
Click(i) ==
    /\ clicks < MaxClicks
    /\ clicks' = clicks + 1
    /\ IF display[i] = "none"
       THEN LET fx1 == QueueFx(Items, "slideUp", fx, display)
                d1  == StartIdle(Items, "slideUp", fx, display)
            IN  /\ fx' = QueueFx({i}, "slideDown", fx1, d1)
                /\ display' = StartIdle({i}, "slideDown", fx1, d1)
                /\ navShow' = {i}
       ELSE /\ fx' = QueueFx({i}, "slideUp", fx, display)
            /\ display' = StartIdle({i}, "slideUp", fx, display)
            /\ navShow' = {}

(* The running animation of j's submenu completes and the next in its     *)
(* queue, if any, starts.                                                 *)
Complete(j) ==
    /\ fx[j] # << >>
    /\ LET done == OnComplete(Head(fx[j]))
           rest == Tail(fx[j])
       IN  /\ fx' = [fx EXCEPT ![j] = rest]
           /\ display' = [display EXCEPT ![j] =
                            IF rest = << >> THEN done ELSE OnStart(Head(rest), done)]
    /\ UNCHANGED <<navShow, clicks>>

Next == (\E i \in Items : Click(i)) \/ (\E j \in Items : Complete(j))

Spec == Init /\ [][Next]_vars

-----------------------------------------------------------------------------
(* No animation is queued or running. *)
Quiescent == \A j \in Items : fx[j] = << >>

(* The accordion shows at most one submenu once its animations are over, *)
(* however fast the user clicks during them.                             *)
AccordionOneOpen ==
    Quiescent => Cardinality({j \in Items : display[j] = "block"}) <= 1

(* Once the animations are over, nav-show marks exactly the items whose  *)
(* submenu is shown.                                                     *)
NavShowMarksOpen ==
    Quiescent => navShow = {j \in Items : display[j] = "block"}

(* The display j's submenu will have once its queue has drained: the     *)
(* display the last queued animation leaves, or the current one.         *)
Destined(j) == IF fx[j] = << >> THEN display[j] ELSE OnComplete(fx[j][Len(fx[j])])

(* Inductive strengthening of AccordionOneOpen: at any moment, however   *)
(* many animations are queued, at most one submenu is bound to end open,  *)
(* because every opening click queues a slideUp behind every other       *)
(* submenu's animations.                                                  *)
OneDestinedOpen ==
    \A j, k \in Items : Destined(j) = "block" /\ Destined(k) = "block" => j = k

NavIInv == TypeOK /\ OneDestinedOpen

(* The submenus bound to end open once their queues drain. *)
Expanded == {j \in Items : Destined(j) = "block"}

Acc == INSTANCE NavAccordion WITH expanded <- Expanded

(* nav.js behaves as the instant accordion of its comments, judged by    *)
(* where the animations are headed: every click either leaves exactly    *)
(* the clicked submenu bound to open or closes the clicked one and       *)
(* nothing else, and a completing animation changes nothing.             *)
ImplementsAccordion == Acc!Spec

=============================================================================
