---------------------------- MODULE NavMenuProofs ----------------------------
(***************************************************************************)
(* Proofs about the navigation accordion (NavMenu): for any set of menu   *)
(* items and any click bound, once no animation is queued at most one     *)
(* submenu is shown.  The argument follows each submenu's Destined        *)
(* display, the one its last queued animation leaves: an opening click    *)
(* makes the clicked submenu the only one destined to be open, a closing  *)
(* click makes its submenu destined closed, and a completion never changes *)
(* where a queue ends up.  The same three facts (ClickOpens, ClickCloses, *)
(* CompleteKeeps) show that NavMenu implements NavAccordion.              *)
(***************************************************************************)
EXTENDS NavMenu, FiniteSetTheorems, SequenceTheorems, TLAPS

Display == {"none", "block"}

(* Appending an animation makes it the last one of the queue. *)
LEMMA AppendLast ==
    ASSUME NEW s \in Seq({"slideUp", "slideDown"}), NEW a \in {"slideUp", "slideDown"}
    PROVE  /\ Append(s, a) \in Seq({"slideUp", "slideDown"})
           /\ Append(s, a) # << >>
           /\ Append(s, a)[Len(Append(s, a))] = a
<1>1. /\ Append(s, a) \in Seq({"slideUp", "slideDown"})
      /\ Len(Append(s, a)) = Len(s) + 1
      /\ Append(s, a)[Len(s) + 1] = a
    BY AppendProperties
<1>2. Append(s, a) # << >>
    BY <1>1
<1>3. QED
    BY <1>1, <1>2

(* Removing the running animation keeps the last one, if any remains. *)
LEMMA TailLast ==
    ASSUME NEW s \in Seq({"slideUp", "slideDown"}), s # << >>
    PROVE  /\ Tail(s) \in Seq({"slideUp", "slideDown"})
           /\ Tail(s) = << >> => s[Len(s)] = Head(s)
           /\ Tail(s) # << >> => /\ Tail(s)[Len(Tail(s))] = s[Len(s)]
                                 /\ Head(Tail(s)) = Tail(s)[1]
<1>1. /\ Tail(s) \in Seq({"slideUp", "slideDown"})
      /\ Len(Tail(s)) = Len(s) - 1
      /\ \A i \in 1..Len(Tail(s)) : Tail(s)[i] = s[i + 1]
      /\ Head(s) = s[1]
    BY HeadTailProperties
<1>2. Len(s) \in Nat \ {0}
    BY LenProperties
<1>3. Tail(s) = << >> => s[Len(s)] = Head(s)
    <2> SUFFICES ASSUME Tail(s) = << >> PROVE s[Len(s)] = Head(s)
        OBVIOUS
    <2>1. Len(s) = 1
        BY <1>1, <1>2
    <2>2. QED
        BY <1>1, <2>1
<1>4. Tail(s) # << >> => Tail(s)[Len(Tail(s))] = s[Len(s)]
    <2> SUFFICES ASSUME Tail(s) # << >> PROVE Tail(s)[Len(Tail(s))] = s[Len(s)]
        OBVIOUS
    <2>1. Len(Tail(s)) \in 1..Len(Tail(s))
        BY <1>1, <1>2, LenProperties
    <2>2. QED
        BY <1>1, <2>1
<1>5. Tail(s) # << >> => Head(Tail(s)) = Tail(s)[1]
    BY <1>1
<1>6. QED
    BY <1>1, <1>3, <1>4, <1>5

LEMMA InitNavIInv == Init => NavIInv
BY NavAssumption DEF Init, NavIInv, TypeOK, OneDestinedOpen, Destined

(* An opening click (the clicked submenu reads as hidden) keeps the      *)
(* types and leaves the clicked submenu the only one destined to open.    *)
LEMMA ClickOpens ==
    ASSUME TypeOK, NEW i \in Items, Click(i), display[i] = "none"
    PROVE  /\ TypeOK'
           /\ \A j \in Items : Destined(j)' = IF j = i THEN "block" ELSE "none"
<1> USE DEF TypeOK
<1> DEFINE fx1 == QueueFx(Items, "slideUp", fx, display)
           d1  == StartIdle(Items, "slideUp", fx, display)
<1>1. fx' = QueueFx({i}, "slideDown", fx1, d1) /\ display' = StartIdle({i}, "slideDown", fx1, d1)
      /\ navShow' = {i} /\ clicks' = clicks + 1 /\ clicks < MaxClicks
    BY DEF Click
<1>2. \A j \in Items : fx1[j] = Append(fx[j], "slideUp")
    BY DEF QueueFx
<1>3. \A j \in Items : fx'[j] = IF j = i THEN Append(fx1[j], "slideDown") ELSE fx1[j]
    BY <1>1 DEF QueueFx
<1>4. \A j \in Items : /\ fx'[j] \in Seq({"slideUp", "slideDown"})
                       /\ fx'[j] # << >>
                       /\ fx'[j][Len(fx'[j])] = IF j = i THEN "slideDown" ELSE "slideUp"
    <2> SUFFICES ASSUME NEW j \in Items
                 PROVE  /\ fx'[j] \in Seq({"slideUp", "slideDown"})
                        /\ fx'[j] # << >>
                        /\ fx'[j][Len(fx'[j])] = IF j = i THEN "slideDown" ELSE "slideUp"
        OBVIOUS
    <2>0. fx[j] \in Seq({"slideUp", "slideDown"})
        OBVIOUS
    <2>1. fx1[j] \in Seq({"slideUp", "slideDown"}) /\ fx1[j] # << >>
          /\ fx1[j][Len(fx1[j])] = "slideUp"
        <3>1. fx1[j] = Append(fx[j], "slideUp")
            BY <1>2
        <3>2. QED
            BY <2>0, <3>1, AppendLast
    <2>2. CASE j = i
        <3>1. fx'[j] = Append(fx1[j], "slideDown")
            BY <1>3, <2>2
        <3>2. /\ Append(fx1[j], "slideDown") \in Seq({"slideUp", "slideDown"})
              /\ Append(fx1[j], "slideDown") # << >>
              /\ Append(fx1[j], "slideDown")[Len(Append(fx1[j], "slideDown"))] = "slideDown"
            BY <2>1, AppendLast
        <3>3. QED
            BY <2>2, <3>1, <3>2
    <2>3. CASE j # i
        BY <1>3, <2>1, <2>3
    <2>4. QED
        BY <2>2, <2>3
<1>5. \A j \in Items : Destined(j)' = IF j = i THEN "block" ELSE "none"
    BY <1>4 DEF Destined, OnComplete
<1>6. display' \in [Items -> Display]
    BY <1>1 DEF StartIdle, OnStart, Display
<1>7. fx' \in [Items -> Seq({"slideUp", "slideDown"})]
    BY <1>1, <1>4 DEF QueueFx
<1>8. TypeOK'
    <2>1. clicks' \in 0..MaxClicks
        BY <1>1, NavAssumption
    <2>2. navShow' \subseteq Items
        BY <1>1
    <2>3. QED
        BY <2>1, <2>2, <1>6, <1>7 DEF Display
<1>9. QED
    BY <1>5, <1>8

(* A closing click keeps the types, leaves the clicked submenu destined   *)
(* closed, and every other submenu's destination as it was.              *)
LEMMA ClickCloses ==
    ASSUME TypeOK, NEW i \in Items, Click(i), display[i] # "none"
    PROVE  /\ TypeOK'
           /\ Destined(i)' = "none"
           /\ \A j \in Items \ {i} : Destined(j)' = Destined(j)
<1> USE DEF TypeOK
<1>1. fx' = QueueFx({i}, "slideUp", fx, display) /\ display' = StartIdle({i}, "slideUp", fx, display)
      /\ navShow' = {} /\ clicks' = clicks + 1 /\ clicks < MaxClicks
    BY DEF Click
<1>2. \A j \in Items : fx'[j] = IF j = i THEN Append(fx[j], "slideUp") ELSE fx[j]
    BY <1>1 DEF QueueFx
<1>3. \A j \in Items \ {i} : display'[j] = display[j]
    BY <1>1 DEF StartIdle
<1>4. \A j \in Items \ {i} : Destined(j)' = Destined(j)
    BY <1>2, <1>3 DEF Destined
<1>5. /\ fx'[i] \in Seq({"slideUp", "slideDown"})
      /\ fx'[i] # << >>
      /\ fx'[i][Len(fx'[i])] = "slideUp"
    <2>1. fx[i] \in Seq({"slideUp", "slideDown"}) /\ fx'[i] = Append(fx[i], "slideUp")
        BY <1>2
    <2>2. QED
        BY <2>1, AppendLast
<1>6. Destined(i)' = "none"
    BY <1>5 DEF Destined, OnComplete
<1>7. display' \in [Items -> Display]
    BY <1>1 DEF StartIdle, OnStart, Display
<1>8. fx' \in [Items -> Seq({"slideUp", "slideDown"})]
    BY <1>1, <1>2, <1>5 DEF QueueFx
<1>9. TypeOK'
    <2>1. clicks' \in 0..MaxClicks
        BY <1>1, NavAssumption
    <2>2. navShow' \subseteq Items
        BY <1>1
    <2>3. QED
        BY <2>1, <2>2, <1>7, <1>8 DEF Display
<1>10. QED
    BY <1>4, <1>6, <1>9

(* A completion keeps the types and every submenu's destined display. *)
LEMMA CompleteKeeps ==
    ASSUME TypeOK, NEW j \in Items, Complete(j)
    PROVE  /\ TypeOK'
           /\ \A k \in Items : Destined(k)' = Destined(k)
<1> USE DEF TypeOK
<1>1. fx[j] \in Seq({"slideUp", "slideDown"}) /\ fx[j] # << >>
    BY DEF Complete
<1>2. fx' = [fx EXCEPT ![j] = Tail(fx[j])]
      /\ display' = [display EXCEPT ![j] = IF Tail(fx[j]) = << >>
                                           THEN OnComplete(Head(fx[j]))
                                           ELSE OnStart(Head(Tail(fx[j])), OnComplete(Head(fx[j])))]
      /\ UNCHANGED <<navShow, clicks>>
    BY DEF Complete
<1>3. Destined(j)' = Destined(j)
    <2>1. CASE Tail(fx[j]) = << >>
        BY <1>1, <1>2, <2>1, TailLast DEF Destined
    <2>2. CASE Tail(fx[j]) # << >>
        BY <1>1, <1>2, <2>2, TailLast DEF Destined
    <2>3. QED
        BY <2>1, <2>2
<1>4. \A k \in Items \ {j} : Destined(k)' = Destined(k)
    BY <1>2 DEF Destined
<1>5. fx' \in [Items -> Seq({"slideUp", "slideDown"})]
    BY <1>1, <1>2, TailLast
<1>6. display' \in [Items -> Display]
    BY <1>2 DEF OnStart, OnComplete, Display
<1>7. QED
    BY <1>2, <1>3, <1>4, <1>5, <1>6 DEF Display

(* The click handler keeps the types and leaves at most one submenu       *)
(* destined to be open.                                                   *)
LEMMA ClickNavIInv ==
    ASSUME NavIInv, NEW i \in Items, Click(i)
    PROVE  NavIInv'
<1>1. CASE display[i] = "none"
    BY <1>1, ClickOpens DEF NavIInv, OneDestinedOpen
<1>2. CASE display[i] # "none"
    BY <1>2, ClickCloses DEF NavIInv, OneDestinedOpen
<1>3. QED
    BY <1>1, <1>2

(* A completion keeps the types and every submenu's destined display. *)
LEMMA CompleteNavIInv ==
    ASSUME NavIInv, NEW j \in Items, Complete(j)
    PROVE  NavIInv'
BY CompleteKeeps DEF NavIInv, OneDestinedOpen

LEMMA NextNavIInv == NavIInv /\ [Next]_vars => NavIInv'
<1> SUFFICES ASSUME NavIInv, [Next]_vars PROVE NavIInv'
    OBVIOUS
<1>1. CASE \E i \in Items : Click(i)
    BY <1>1, ClickNavIInv
<1>2. CASE \E j \in Items : Complete(j)
    BY <1>2, CompleteNavIInv
<1>3. CASE UNCHANGED vars
    BY <1>3 DEF vars, NavIInv, TypeOK, OneDestinedOpen, Destined
<1>4. QED
    BY <1>1, <1>2, <1>3 DEF Next

(* The strengthening holds in every reachable state: at most one submenu *)
(* is bound to end open, whatever clicks and animations are in flight.   *)
THEOREM NavIInvariant == Spec => []NavIInv
BY InitNavIInv, NextNavIInv, PTL DEF Spec

(* With no animation queued, each submenu shows its destined display, so *)
(* the shown submenus form a set of at most one.                          *)
LEMMA IInvAccordion == NavIInv => AccordionOneOpen
<1> SUFFICES ASSUME NavIInv, Quiescent
             PROVE  Cardinality({j \in Items : display[j] = "block"}) <= 1
    BY DEF AccordionOneOpen
<1> DEFINE S == {j \in Items : display[j] = "block"}
<1>1. \A j, k \in S : j = k
    BY DEF NavIInv, OneDestinedOpen, Destined, Quiescent
<1>2. CASE S = {}
    BY <1>2, FS_EmptySet
<1>3. CASE S # {}
    <2>1. PICK x \in S : TRUE
        BY <1>3
    <2>2. S = {x}
        BY <1>1, <2>1
    <2>3. QED
        BY <2>2, FS_Singleton
<1>4. QED
    BY <1>2, <1>3

(* nav.js: however fast the user clicks while submenus slide, once the   *)
(* animations are over the accordion shows at most one submenu.          *)
THEOREM AccordionSafe == Spec => []AccordionOneOpen
BY NavIInvariant, IInvAccordion, PTL

-----------------------------------------------------------------------------
(* The refinement of NavAccordion: an opening click is Expand, a closing  *)
(* click is Collapse, and a completion leaves the destined-open set as   *)
(* it was.                                                                *)
LEMMA NextAccordion == NavIInv /\ [Next]_vars => [Acc!Next]_Expanded
<1> SUFFICES ASSUME NavIInv, [Next]_vars PROVE [Acc!Next]_Expanded
    OBVIOUS
<1>1. TypeOK
    BY DEF NavIInv
<1>2. ASSUME NEW i \in Items, Click(i), display[i] = "none"
      PROVE  Acc!Expand(i)
    <2>1. \A j \in Items : Destined(j)' = IF j = i THEN "block" ELSE "none"
        BY <1>1, <1>2, ClickOpens
    <2>2. Expanded' = {i}
        BY <2>1 DEF Expanded
    <2>3. QED
        BY <2>2 DEF Acc!Expand
<1>3. ASSUME NEW i \in Items, Click(i), display[i] # "none"
      PROVE  Acc!Collapse(i)
    <2>1. Destined(i)' = "none" /\ \A j \in Items \ {i} : Destined(j)' = Destined(j)
        BY <1>1, <1>3, ClickCloses
    <2>2. Expanded' = Expanded \ {i}
        BY <2>1 DEF Expanded
    <2>3. QED
        BY <2>2 DEF Acc!Collapse
<1>4. ASSUME NEW j \in Items, Complete(j)
      PROVE  UNCHANGED Expanded
    <2>1. \A k \in Items : Destined(k)' = Destined(k)
        BY <1>1, <1>4, CompleteKeeps
    <2>2. QED
        BY <2>1 DEF Expanded
<1>5. CASE UNCHANGED vars
    BY <1>5 DEF vars, Expanded, Destined
<1>6. QED
    BY <1>2, <1>3, <1>4, <1>5 DEF Next, Acc!Next

(* nav.js implements the accordion of its comments, for any set of items *)
(* and any number of clicks: judged by where each submenu's animations   *)
(* end, a click expands the clicked item alone or collapses it and       *)
(* nothing else, and animations completing change nothing.               *)
THEOREM Accordion == Spec => ImplementsAccordion
<1>1. Init => Acc!Init
    BY DEF Init, Acc!Init, Expanded, Destined
<1>2. QED
    BY <1>1, NextAccordion, InitNavIInv, NextNavIInv, PTL
       DEF Spec, ImplementsAccordion, Acc!Spec

=============================================================================
