-------------------------- MODULE CoordinatorProofs --------------------------
(***************************************************************************)
(* The adapter around one runtime, for any controls, callers, closers,     *)
(* plans and ratings: whose goals are pursued, what a close has given up   *)
(* before it saves, and what the two records hold.                         *)
(*                                                                         *)
(* The invariant has three parts.  Books relates the callers to the goals, *)
(* Life the closers to the connection, and Ledger what was counted and     *)
(* learned to what is saved.  An action mostly disturbs one of them.       *)
(***************************************************************************)
EXTENDS Coordinator, FiniteSetTheorems, WellFoundedInduction, TLAPS

-----------------------------------------------------------------------------
(* The books of the callers.                                               *)

Goal == [control : Controls, desired : {goal[2] : goal \in Asked},
         active : BOOLEAN, due : BOOLEAN]
Caller == [pc : {"waiting", "returned", "cancelled"}, goal : {None} \cup Nat]

BooksTyped(gs, ps, cs) ==
    gs \in Seq(Goal) /\ ps \in [Controls -> {None} \cup Nat] /\ cs \in Seq(Caller)

WaitsFor(cs, k, i) == cs[k].pc = "waiting" /\ cs[k].goal = i

(* Who waits, waits for a goal; what is pending is waited for; what is     *)
(* pursued is pending, and the newest of its control.                      *)
CallersOK(gs, cs) == \A k \in DOMAIN cs : cs[k].pc = "waiting" => cs[k].goal \in DOMAIN gs
PendingOK(gs, ps, cs) ==
    \A c \in Controls : ps[c] # None =>
        /\ ps[c] \in DOMAIN gs /\ gs[ps[c]].control = c
        /\ \E k \in DOMAIN cs : WaitsFor(cs, k, ps[c])
PursuedOK(gs, ps) == \A i \in DOMAIN gs : gs[i].active => ps[gs[i].control] = i
NewestOK(gs) ==
    \A i, j \in DOMAIN gs : gs[i].active /\ gs[j].control = gs[i].control => j <= i

Books(gs, ps, cs) ==
    /\ BooksTyped(gs, ps, cs) /\ CallersOK(gs, cs) /\ PendingOK(gs, ps, cs)
    /\ PursuedOK(gs, ps) /\ NewestOK(gs)

(* Goals of which some have ended.                                         *)
Subsides(gs, hs) ==
    /\ hs \in Seq(Goal) /\ DOMAIN hs = DOMAIN gs
    /\ \A i \in DOMAIN gs : hs[i].control = gs[i].control /\ (hs[i].active => gs[i].active)

(* Goals that only end leave the books in order.                           *)
LEMMA SubsidesBooks ==
    ASSUME NEW gs, NEW hs, NEW ps, NEW cs, Books(gs, ps, cs), Subsides(gs, hs)
    PROVE  Books(hs, ps, cs)
<1>1. BooksTyped(hs, ps, cs) /\ CallersOK(hs, cs) /\ PendingOK(hs, ps, cs)
  BY DEF Books, BooksTyped, Subsides, CallersOK, PendingOK
<1>2. PursuedOK(hs, ps) /\ NewestOK(hs)
  BY DEF Books, Subsides, PursuedOK, NewestOK
<1>3. QED
  BY <1>1, <1>2 DEF Books

(* A function on the first n numbers is a sequence of length n.            *)
LEMMA FunctionIsSeq ==
    ASSUME NEW S, NEW n \in Nat, NEW f, f \in [1..n -> S]
    PROVE  f \in Seq(S) /\ DOMAIN f = 1..n /\ Len(f) = n
  OBVIOUS

(* A goal that is over is still the goal of its control.                   *)
LEMMA OverOK ==
    ASSUME NEW g \in Goal
    PROVE  Over(g) \in Goal /\ Over(g).control = g.control /\ ~Over(g).active
  BY DEF Over, Goal

(* A tick ends the goals that are due, and begins none.                    *)
LEMMA TickedSubsides ==
    ASSUME NEW gs \in Seq(Goal)
    PROVE  Subsides(gs, Ticked(gs)) /\ \A i \in DOMAIN gs : gs[i].due => ~Ticked(gs)[i].active
<1> DEFINE hs == Ticked(gs)
<1>1. /\ DOMAIN gs = 1..Len(gs) /\ Len(gs) \in Nat
      /\ \A i \in DOMAIN gs : gs[i] \in Goal /\ Over(gs[i]) \in Goal
  BY OverOK
<1>2. hs = [i \in DOMAIN gs |-> IF gs[i].due THEN Over(gs[i]) ELSE gs[i]]
  BY DEF Ticked
<1> HIDE DEF hs
<1>3. hs \in [1..Len(gs) -> Goal]
  BY <1>1, <1>2
<1>4. hs \in Seq(Goal) /\ DOMAIN hs = DOMAIN gs
  BY <1>1, <1>3, FunctionIsSeq
<1>5. \A i \in DOMAIN gs : hs[i].control = gs[i].control
                           /\ (hs[i].active => gs[i].active) /\ (gs[i].due => ~hs[i].active)
  BY <1>1, <1>2, OverOK
<1>6. QED
  BY <1>4, <1>5 DEF hs, Subsides

(* One goal ends, and no other changes.                                    *)
LEMMA EndSubsides ==
    ASSUME NEW gs \in Seq(Goal), NEW i
    PROVE  /\ Subsides(gs, End(gs, i))
           /\ i \in DOMAIN gs => ~End(gs, i)[i].active
           /\ \A j \in DOMAIN gs : j # i => End(gs, i)[j] = gs[j]
<1> DEFINE hs == End(gs, i)
<1>1. hs = [gs EXCEPT ![i] = Over(gs[i])]
  BY DEF End
<1> HIDE DEF hs
<1>2. \A j \in DOMAIN gs : gs[j] \in Goal /\ Over(gs[j]) \in Goal
  BY OverOK
<1>3. DOMAIN hs = DOMAIN gs /\ \A j \in DOMAIN gs : hs[j] = IF j = i THEN Over(gs[i]) ELSE gs[j]
  BY <1>1
<1>4. hs \in Seq(Goal)
  <2>1. DOMAIN gs = 1..Len(gs) /\ Len(gs) \in Nat
    OBVIOUS
  <2>2. hs \in [1..Len(gs) -> Goal]
    BY <1>1, <1>2, <2>1
  <2>3. QED
    BY <2>1, <2>2, FunctionIsSeq
<1>5. Subsides(gs, hs)
  BY <1>2, <1>3, <1>4, OverOK DEF Subsides
<1>6. QED
  BY <1>2, <1>3, <1>5, OverOK DEF hs

(* A nonempty finite set of naturals has a greatest element; Max finds it. *)
LEMMA GreatestOfFinite ==
    ASSUME NEW n \in Nat, NEW S, S \subseteq 1..n, S # {}
    PROVE  Max(S) \in S /\ \A j \in S : Max(S) >= j
<1> DEFINE T == {i..n : i \in S}
           R == StrictSubsetOrdering(Nat)
<1>1. T \subseteq FiniteSubsetsOf(Nat)
  BY FS_Interval DEF FiniteSubsetsOf
<1>2. IsWellFoundedOn(R, FiniteSubsetsOf(Nat))
  BY FS_StrictSubsetOrderingWellFounded
<1> HIDE DEF R
<1>3. PICK x \in T : \A y \in T : <<y, x>> \notin R
  <2>1. T # {}
    OBVIOUS
  <2> HIDE DEF T
  <2>2. QED
    BY <1>1, <1>2, <2>1, WFMin
<1>4. PICK i \in S : x = i..n
  OBVIOUS
<1>5. ASSUME NEW j \in S, j > i
      PROVE  FALSE
  <2>1. j..n \in SUBSET Nat /\ i..n \in SUBSET Nat /\ j..n \subseteq i..n
    BY <1>5
  <2>2. i \in i..n /\ i \notin j..n
    BY <1>5
  <2>3. <<j..n, i..n>> \in R
    BY <2>1, <2>2 DEF R, StrictSubsetOrdering
  <2>4. QED
    BY <1>3, <1>4, <2>3
<1>6. \A j \in S : i >= j
  BY <1>5
<1>7. QED
  BY <1>6 DEF Max

(* The lesser of two integers.                                             *)
LEMMA Lesser ==
    ASSUME NEW a \in Int, NEW b \in Int
    PROVE  Min({a, b}) = IF a <= b THEN a ELSE b
<1>1. \E x \in {a, b} : \A y \in {a, b} : x <= y
  OBVIOUS
<1>2. Min({a, b}) \in {a, b} /\ \A y \in {a, b} : Min({a, b}) <= y
  BY <1>1 DEF Min
<1>3. QED
  BY <1>2

(* The greater of two integers.                                            *)
LEMMA Greater ==
    ASSUME NEW a \in Int, NEW b \in Int
    PROVE  Max({a, b}) = IF a >= b THEN a ELSE b
<1>1. \E x \in {a, b} : \A y \in {a, b} : x >= y
  OBVIOUS
<1>2. Max({a, b}) \in {a, b} /\ \A y \in {a, b} : Max({a, b}) >= y
  BY <1>1 DEF Max
<1>3. QED
  BY <1>2

(* The newest goal of a control is the one that is pursued, if any is.     *)
LEMMA LatestIs ==
    ASSUME NEW gs \in Seq(Goal), NewestOK(gs), NEW i \in DOMAIN gs, gs[i].active
    PROVE  Latest(gs, gs[i].control) = i /\ Latest(gs, gs[i].control) # None
<1> DEFINE of == {j \in DOMAIN gs : gs[j].control = gs[i].control}
<1>1. i \in of /\ \A j \in of : j <= i
  BY DEF NewestOK
<1>2. of \subseteq Nat
  OBVIOUS
<1>3. Latest(gs, gs[i].control) = Max(of)
  BY <1>1 DEF Latest
<1> HIDE DEF of
<1>4. Max(of) \in of /\ \A j \in of : Max(of) >= j
  <2>1. \E x \in of : \A y \in of : x >= y
    BY <1>1, <1>2
  <2>2. QED
    BY <2>1 DEF Max
<1>5. Max(of) = i
  BY <1>1, <1>2, <1>4
<1>6. i # None
  BY <1>1, <1>2, NoneIsNoValue
<1>7. QED
  BY <1>3, <1>5, <1>6

(* A cancelled control loses its goal, and no other does.                  *)
LEMMA CancelSubsides ==
    ASSUME NEW gs \in Seq(Goal), NewestOK(gs), NEW control
    PROVE  /\ Subsides(gs, Cancel(gs, control))
           /\ \A j \in DOMAIN gs : gs[j].active =>
                 IF gs[j].control = control THEN ~Cancel(gs, control)[j].active
                 ELSE Cancel(gs, control)[j] = gs[j]
<1>1. CASE Latest(gs, control) = None
  <2>1. Cancel(gs, control) = gs
    BY <1>1 DEF Cancel
  <2>2. \A j \in DOMAIN gs : gs[j].active => gs[j].control # control
    BY <1>1, LatestIs
  <2>3. QED
    BY <2>1, <2>2 DEF Subsides
<1>2. CASE Latest(gs, control) # None
  <2> DEFINE i == Latest(gs, control)
             hs == End(gs, i)
  <2>1. Cancel(gs, control) = hs
    BY <1>2 DEF Cancel
  <2>2. /\ Subsides(gs, hs) /\ (i \in DOMAIN gs => ~hs[i].active)
        /\ \A j \in DOMAIN gs : j # i => hs[j] = gs[j]
    BY EndSubsides
  <2>3. \A j \in DOMAIN gs : gs[j].active /\ gs[j].control = control => j = i
    BY LatestIs
  <2>4. \A j \in DOMAIN gs : j = i /\ gs[j].active => gs[j].control = control
    <3> SUFFICES ASSUME NEW j \in DOMAIN gs, j = i, gs[j].active, gs[j].control # control
                 PROVE  FALSE
      OBVIOUS
    <3> DEFINE of == {n \in DOMAIN gs : gs[n].control = control}
    <3>1. i = Max(of) /\ of # {}
      BY <1>2 DEF Latest
    <3>2. of \subseteq 1..Len(gs) /\ Len(gs) \in Nat
      OBVIOUS
    <3>3. Max(of) \in of
      BY <3>1, <3>2, GreatestOfFinite
    <3>4. QED
      BY <3>1, <3>3
  <2> HIDE DEF i, hs
  <2>5. QED
    BY <2>1, <2>2, <2>3, <2>4
<1>3. QED
  BY <1>1, <1>2

(* _cancel_pending ends everything that is pursued.                        *)
LEMMA CancelPendingSubsides ==
    ASSUME Books(goals, pending, callers)
    PROVE  /\ Subsides(goals, CancelPending(goals))
           /\ \A i \in DOMAIN goals : ~CancelPending(goals)[i].active
<1> DEFINE gs == goals
           hs == CancelPending(gs)
           ends(i) == \E c \in Controls : pending[c] # None /\ Active(gs[pending[c]])
                                          /\ i = Latest(gs, c) /\ Active(gs[i])
<1>1. /\ gs \in Seq(Goal) /\ NewestOK(gs) /\ PursuedOK(gs, pending)
      /\ DOMAIN gs = 1..Len(gs) /\ Len(gs) \in Nat
      /\ \A i \in DOMAIN gs : gs[i] \in Goal /\ Over(gs[i]) \in Goal
  BY OverOK DEF Books, BooksTyped
<1>2. hs = [i \in DOMAIN gs |-> IF ends(i) THEN Over(gs[i]) ELSE gs[i]]
  BY DEF CancelPending
<1>3. ASSUME NEW i \in DOMAIN gs, gs[i].active
      PROVE  ends(i)
  <2>1. gs[i].control \in Controls /\ pending[gs[i].control] = i
    BY <1>1, <1>3 DEF PursuedOK, Goal
  <2>2. i # None /\ i = Latest(gs, gs[i].control)
    BY <1>1, <1>3, LatestIs
  <2>3. QED
    BY <1>3, <2>1, <2>2 DEF Active
<1> HIDE DEF hs, ends
<1>4. hs \in [1..Len(gs) -> Goal]
  BY <1>1, <1>2
<1>5. hs \in Seq(Goal) /\ DOMAIN hs = DOMAIN gs
  BY <1>1, <1>4, FunctionIsSeq
<1>6. \A i \in DOMAIN gs : hs[i].control = gs[i].control /\ ~hs[i].active
  BY <1>1, <1>2, <1>3, OverOK
<1>7. QED
  BY <1>5, <1>6 DEF hs, gs, Subsides

-----------------------------------------------------------------------------
(* The steps of the callers.                                               *)

BooksKept == Books(goals, pending, callers)'

(* A call that returns at once changes nothing.                            *)
LEMMA NewCaller ==
    ASSUME NEW gs, NEW ps, NEW cs, Books(gs, ps, cs), NEW pc \in {"waiting", "returned"},
           NEW i, i \in DOMAIN gs \/ (pc = "returned" /\ i = None)
    PROVE  Books(gs, ps, Append(cs, [pc |-> pc, goal |-> i]))
<1> DEFINE w == [pc |-> pc, goal |-> i]
           ds == Append(cs, w)
<1>1. cs \in Seq(Caller) /\ gs \in Seq(Goal)
  BY DEF Books, BooksTyped
<1>2. w \in Caller /\ w.pc = pc /\ w.goal = i
  BY <1>1 DEF Caller
<1> HIDE DEF w
<1>3. /\ ds \in Seq(Caller) /\ DOMAIN ds = 1..(Len(cs) + 1) /\ DOMAIN cs = 1..Len(cs)
      /\ Len(cs) \in Nat /\ ds[Len(cs) + 1] = w /\ \A k \in 1..Len(cs) : ds[k] = cs[k]
  BY <1>1, <1>2
<1> HIDE DEF ds
<1>4. DOMAIN cs \subseteq DOMAIN ds /\ \A k \in DOMAIN ds : k \in DOMAIN cs \/ k = Len(cs) + 1
  BY <1>3
<1>5. CallersOK(gs, ds)
  BY <1>2, <1>3, <1>4 DEF Books, CallersOK
<1>6. PendingOK(gs, ps, ds)
  <2> SUFFICES ASSUME NEW c \in Controls, ps[c] # None
               PROVE  /\ ps[c] \in DOMAIN gs /\ gs[ps[c]].control = c
                      /\ \E k \in DOMAIN ds : WaitsFor(ds, k, ps[c])
    BY DEF PendingOK
  <2>1. ps[c] \in DOMAIN gs /\ gs[ps[c]].control = c
    BY DEF Books, PendingOK
  <2>2. PICK k \in DOMAIN cs : WaitsFor(cs, k, ps[c])
    BY DEF Books, PendingOK
  <2>3. k \in DOMAIN ds /\ WaitsFor(ds, k, ps[c])
    BY <1>3, <1>4, <2>2 DEF WaitsFor
  <2>4. QED
    BY <2>1, <2>3
<1>7. QED
  BY <1>3, <1>5, <1>6 DEF Books, BooksTyped, ds, w

(* A goal of a control takes the place of the one before it, and its caller*)
(* waits for it.                                                           *)
LEMMA RequestedBooks ==
    ASSUME NEW gs, NEW ps, NEW cs, Books(gs, ps, cs), NEW goal \in Asked
    PROVE  LET hs == Requested(gs, goal[1], goal[2])
           IN  Books(hs, [ps EXCEPT ![goal[1]] = Len(hs)],
                     Append(cs, [pc |-> "waiting", goal |-> Len(hs)]))
<1> DEFINE control == goal[1]
           i == Latest(gs, control)
           es == IF i = None THEN gs ELSE End(gs, i)
           replacing == control \in Pumps /\ i # None /\ Active(gs[i])
           g == [control |-> control, desired |-> goal[2], active |-> TRUE,
                 due |-> replacing /\ gs[i].due]
           hs == Append(es, g)
           n == Len(gs) + 1
           qs == [ps EXCEPT ![control] = n]
           w == [pc |-> "waiting", goal |-> n]
           ds == Append(cs, w)
<1>1. /\ gs \in Seq(Goal) /\ ps \in [Controls -> {None} \cup Nat] /\ cs \in Seq(Caller)
      /\ NewestOK(gs) /\ control \in Controls
  BY CoordinatorParameters DEF Books, BooksTyped
<1>2. /\ Subsides(gs, es)
      /\ \A j \in DOMAIN gs : gs[j].active /\ gs[j].control = control => ~es[j].active
  <2>1. es = Cancel(gs, control)
    BY DEF Cancel
  <2> HIDE DEF es, i
  <2>2. QED
    BY <1>1, <2>1, CancelSubsides
<1>3. Books(es, ps, cs)
  BY <1>2, SubsidesBooks
<1>4. hs = Requested(gs, control, goal[2])
  BY DEF Requested
<1>5. g \in Goal /\ g.control = control /\ g.active
  BY <1>1 DEF Goal
<1> HIDE DEF i, es, replacing, g
<1>6. /\ es \in Seq(Goal) /\ Len(es) = Len(gs) /\ Len(gs) \in Nat
      /\ DOMAIN es = 1..Len(gs) /\ DOMAIN gs = 1..Len(gs)
  BY <1>1, <1>2 DEF Subsides
<1>7. /\ hs \in Seq(Goal) /\ Len(hs) = n /\ DOMAIN hs = 1..n /\ n \in Nat
      /\ hs[n] = g /\ \A j \in 1..Len(gs) : hs[j] = es[j]
  BY <1>5, <1>6
<1> HIDE DEF hs
<1>8. w \in Caller /\ w.pc = "waiting" /\ w.goal = n
  BY <1>7 DEF Caller
<1> HIDE DEF w
<1>9. /\ ds \in Seq(Caller) /\ DOMAIN ds = 1..(Len(cs) + 1) /\ DOMAIN cs = 1..Len(cs)
      /\ Len(cs) \in Nat /\ ds[Len(cs) + 1] = w /\ \A k \in 1..Len(cs) : ds[k] = cs[k]
  BY <1>1, <1>8
<1> HIDE DEF ds
<1>10. qs \in [Controls -> {None} \cup Nat] /\ qs[control] = n
       /\ \A c \in Controls : c # control => qs[c] = ps[c]
  BY <1>1, <1>7
<1> HIDE DEF qs
<1>11. \A j \in 1..n : j = n \/ j \in 1..Len(gs)
  BY <1>6
<1>12. CallersOK(hs, ds)
  <2> SUFFICES ASSUME NEW k \in DOMAIN ds, ds[k].pc = "waiting"
               PROVE  ds[k].goal \in 1..n
    BY <1>7 DEF CallersOK
  <2>1. CASE k = Len(cs) + 1
    BY <1>7, <1>8, <1>9, <2>1
  <2>2. CASE k \in 1..Len(cs)
    <3>1. cs[k].goal \in 1..Len(gs)
      BY <1>3, <1>6, <1>9, <2>2 DEF Books, CallersOK
    <3>2. QED
      BY <1>6, <1>9, <2>2, <3>1
  <2>3. QED
    BY <1>9, <2>1, <2>2
<1>13. PendingOK(hs, qs, ds)
  <2> SUFFICES ASSUME NEW c \in Controls, qs[c] # None
               PROVE  /\ qs[c] \in DOMAIN hs /\ hs[qs[c]].control = c
                      /\ \E k \in DOMAIN ds : WaitsFor(ds, k, qs[c])
    BY DEF PendingOK
  <2>1. CASE c = control
    <3>1. qs[c] = n /\ n \in DOMAIN hs /\ hs[n].control = c
      BY <1>5, <1>7, <1>10, <2>1
    <3>2. Len(cs) + 1 \in DOMAIN ds /\ WaitsFor(ds, Len(cs) + 1, n)
      BY <1>8, <1>9 DEF WaitsFor
    <3>3. QED
      BY <3>1, <3>2
  <2>2. CASE c # control
    <3>1. qs[c] = ps[c] /\ ps[c] \in DOMAIN es /\ es[ps[c]].control = c
      BY <1>3, <1>10, <2>2 DEF Books, PendingOK
    <3>2. PICK k \in DOMAIN cs : WaitsFor(cs, k, ps[c])
      BY <1>3, <1>10, <2>2 DEF Books, PendingOK
    <3>3. k \in DOMAIN ds /\ WaitsFor(ds, k, ps[c])
      BY <1>9, <3>2 DEF WaitsFor
    <3>4. ps[c] \in DOMAIN hs /\ hs[ps[c]] = es[ps[c]]
      BY <1>6, <1>7, <3>1
    <3>5. QED
      BY <3>1, <3>3, <3>4
  <2>3. QED
    BY <2>1, <2>2
<1>14. PursuedOK(hs, qs)
  <2> SUFFICES ASSUME NEW j \in 1..n, hs[j].active
               PROVE  qs[hs[j].control] = j
    BY <1>7 DEF PursuedOK
  <2>1. CASE j = n
    BY <1>5, <1>7, <1>10, <2>1
  <2>2. CASE j \in 1..Len(gs)
    <3>1. gs[j] \in Goal
      BY <1>1, <1>6, <2>2
    <3>2. /\ hs[j] = es[j] /\ es[j].active /\ gs[j].active /\ es[j].control = gs[j].control
          /\ gs[j].control \in Controls
      BY <1>2, <1>6, <1>7, <2>2, <3>1 DEF Subsides, Goal
    <3>3. gs[j].control # control
      BY <1>2, <1>6, <2>2, <3>2
    <3>4. ps[es[j].control] = j
      BY <1>3, <1>6, <2>2, <3>2 DEF Books, PursuedOK
    <3>5. QED
      BY <1>10, <3>2, <3>3, <3>4
  <2>3. QED
    BY <1>11, <2>1, <2>2
<1>15. NewestOK(hs)
  <2> SUFFICES ASSUME NEW a \in 1..n, NEW b \in 1..n, hs[a].active, hs[b].control = hs[a].control
               PROVE  b <= a
    BY <1>7 DEF NewestOK
  <2>1. CASE a = n
    BY <1>7, <2>1
  <2>2. CASE a \in 1..Len(gs)
    <3>1. /\ hs[a] = es[a] /\ es[a].active /\ gs[a].active /\ es[a].control = gs[a].control
      BY <1>2, <1>6, <1>7, <2>2 DEF Subsides
    <3>2. gs[a].control # control
      BY <1>2, <1>6, <2>2, <3>1
    <3>3. b # n
      BY <1>5, <1>7, <3>1, <3>2
    <3>4. b \in 1..Len(gs) /\ hs[b] = es[b]
      BY <1>7, <1>11, <3>3
    <3>5. QED
      BY <1>3, <1>6, <2>2, <3>1, <3>4 DEF Books, NewestOK
  <2>3. QED
    BY <1>11, <2>1, <2>2
<1>16. Books(hs, qs, ds)
  BY <1>7, <1>9, <1>10, <1>12, <1>13, <1>14, <1>15 DEF Books, BooksTyped
<1>17. Len(hs) = n
  BY <1>7
<1>18. QED
  BY <1>4, <1>16, <1>17 DEF qs, ds, w

(* A caller may leave when its goal is over, or while others wait for it.  *)
LEMMA LeaveBooks ==
    ASSUME NEW gs, Books(gs, pending, callers), NEW k \in DOMAIN callers, Waits(k),
           NEW pc \in {"returned", "cancelled"}, Leave(k, pc),
           ~gs[callers[k].goal].active \/ Waiters(callers[k].goal) # {k}
    PROVE  Books(gs, pending', callers')
<1> DEFINE i == callers[k].goal
           w == [pc |-> pc, goal |-> None]
           alone == Waiters(i) = {k}
<1>1. /\ callers' = [callers EXCEPT ![k] = w]
      /\ pending' = [c \in Controls |-> IF alone /\ pending[c] = i THEN None ELSE pending[c]]
  BY DEF Leave
<1>2. w \in Caller /\ w.pc # "waiting"
  BY DEF Caller
<1>3. i \in DOMAIN gs /\ k \in Waiters(i)
  BY DEF Books, CallersOK, Waits, Waiters
<1>4. \A n \in DOMAIN callers : n \in Waiters(i) <=> WaitsFor(callers, n, i)
  BY DEF Waiters, WaitsFor
<1>5. ~gs[i].active \/ ~alone
  OBVIOUS
<1>6. ~alone => \E n \in Waiters(i) : n # k
  BY <1>3
<1>7. Waiters(i) \subseteq DOMAIN callers
  BY DEF Waiters
<1> HIDE DEF i, w, alone
<1>8. /\ callers' \in Seq(Caller) /\ DOMAIN callers' = DOMAIN callers
      /\ \A n \in DOMAIN callers : callers'[n] = IF n = k THEN w ELSE callers[n]
  BY <1>1, <1>2 DEF Books, BooksTyped
<1>9. pending' \in [Controls -> {None} \cup Nat]
  BY <1>1 DEF Books, BooksTyped
<1>10. CallersOK(gs, callers')
  BY <1>2, <1>8 DEF Books, CallersOK
<1>11. PendingOK(gs, pending', callers')
  <2> SUFFICES ASSUME NEW c \in Controls, pending'[c] # None
               PROVE  /\ pending'[c] \in DOMAIN gs /\ gs[pending'[c]].control = c
                      /\ \E n \in DOMAIN callers' : WaitsFor(callers', n, pending'[c])
    BY DEF PendingOK
  <2>1. pending'[c] = pending[c] /\ (pending[c] = i => ~alone)
    BY <1>1
  <2>2. pending[c] \in DOMAIN gs /\ gs[pending[c]].control = c
    BY <2>1 DEF Books, PendingOK
  <2>3. \E n \in DOMAIN callers : n # k /\ WaitsFor(callers, n, pending[c])
    <3>1. CASE pending[c] = i
      BY <1>4, <1>6, <1>7, <2>1, <3>1
    <3>2. CASE pending[c] # i
      <4>1. PICK n \in DOMAIN callers : WaitsFor(callers, n, pending[c])
        BY <2>1 DEF Books, PendingOK
      <4>2. n # k
        BY <3>2, <4>1 DEF WaitsFor, i
      <4>3. QED
        BY <4>1, <4>2
    <3>3. QED
      BY <3>1, <3>2
  <2>4. PICK n \in DOMAIN callers : n # k /\ WaitsFor(callers, n, pending[c])
    BY <2>3
  <2>5. n \in DOMAIN callers' /\ WaitsFor(callers', n, pending[c])
    BY <1>8, <2>4 DEF WaitsFor
  <2>6. QED
    BY <2>1, <2>2, <2>5
<1>12. PursuedOK(gs, pending')
  <2> SUFFICES ASSUME NEW j \in DOMAIN gs, gs[j].active
               PROVE  pending'[gs[j].control] = j
    BY DEF PursuedOK
  <2>1. gs[j] \in Goal
    BY DEF Books, BooksTyped
  <2>2. gs[j].control \in Controls /\ pending[gs[j].control] = j
    BY <2>1 DEF Books, PursuedOK, Goal
  <2>3. ~(alone /\ j = i)
    BY <1>5
  <2>4. QED
    BY <1>1, <2>2, <2>3
<1>13. QED
  BY <1>8, <1>9, <1>10, <1>11, <1>12 DEF Books, BooksTyped

BooksNow == Books(goals, pending, callers)

(* A call joins a goal or makes one, and the books stay in order.          *)
LEMMA AsyncCommandBooks ==
    ASSUME BooksNow, NEW goal \in Asked, AsyncCommand(goal[1], goal[2])
    PROVE  BooksKept
<1> DEFINE control == goal[1]
           desired == goal[2]
<1>1. CASE Refused(control, desired)
  <2>1. goals' = goals /\ pending' = pending
        /\ callers' = Append(callers, [pc |-> "returned", goal |-> None])
    BY <1>1 DEF Refused, Call
  <2>2. Books(goals, pending, Append(callers, [pc |-> "returned", goal |-> None]))
    BY NewCaller DEF BooksNow
  <2>3. QED
    BY <2>1, <2>2 DEF BooksKept
<1>2. CASE Join(control, desired)
  <2>1. /\ goals' = goals /\ pending' = pending
        /\ callers' = Append(callers, [pc |-> "waiting", goal |-> pending[control]])
        /\ pending[control] # None
    BY <1>2 DEF Join, Call, Shares
  <2>2. pending[control] \in DOMAIN goals
    BY <2>1, CoordinatorParameters DEF BooksNow, Books, PendingOK
  <2>3. Books(goals, pending, Append(callers, [pc |-> "waiting", goal |-> pending[control]]))
    BY <2>2, NewCaller DEF BooksNow
  <2>4. QED
    BY <2>1, <2>3 DEF BooksKept
<1>3. CASE Request(control, desired)
  <2> DEFINE ts == Ticked(goals)
  <2>1. Books(ts, pending, callers)
    BY TickedSubsides, SubsidesBooks DEF BooksNow, Books, BooksTyped
  <2>2. CASE Admitted(ts, control)
    <3> DEFINE hs == Requested(ts, control, desired)
    <3>1. /\ goals' = hs /\ pending' = [pending EXCEPT ![control] = Len(goals')]
          /\ callers' = Append(callers, [pc |-> "waiting", goal |-> Len(goals')])
      BY <1>3, <2>2 DEF Request, Call
    <3> HIDE DEF ts
    <3>2. Books(hs, [pending EXCEPT ![control] = Len(hs)],
                Append(callers, [pc |-> "waiting", goal |-> Len(hs)]))
      BY <2>1, RequestedBooks
    <3> HIDE DEF hs
    <3>3. QED
      BY <3>1, <3>2 DEF BooksKept
  <2>3. CASE ~Admitted(ts, control)
    <3>1. /\ goals' = ts /\ pending' = pending
          /\ callers' = Append(callers, [pc |-> "returned", goal |-> None])
      BY <1>3, <2>3 DEF Request, Call
    <3> HIDE DEF ts
    <3>2. Books(ts, pending, Append(callers, [pc |-> "returned", goal |-> None]))
      BY <2>1, NewCaller
    <3>3. QED
      BY <3>1, <3>2 DEF BooksKept
  <2>4. QED
    BY <2>2, <2>3
<1>4. QED
  BY <1>1, <1>2, <1>3 DEF AsyncCommand

(* A caller that goes on leaves the books in order.                        *)
LEMMA ResumeBooks ==
    ASSUME BooksNow, NEW k \in DOMAIN callers, Resume(k)
    PROVE  BooksKept /\ Subsides(goals, goals')
<1>1. /\ Waits(k) /\ Leave(k, "returned") /\ goals' = goals
      /\ ~goals[callers[k].goal].active
  BY DEF Resume, Active
<1>2. Books(goals, pending', callers')
  BY <1>1, LeaveBooks DEF BooksNow
<1>3. QED
  BY <1>1, <1>2 DEF BooksKept, BooksNow, Books, BooksTyped, Subsides

(* The goal that timed out is the one that is given up, whoever does it.   *)
LEMMA TimesOutBooks ==
    ASSUME BooksNow, NEW k \in DOMAIN callers, TimesOut(k)
    PROVE  BooksKept /\ Subsides(goals, goals')
<1> DEFINE i == callers[k].goal
<1>1. Waits(k) /\ Leave(k, "returned") /\ goals[i].active /\ goals[i].due
  BY DEF TimesOut, Active
<1>2. goals \in Seq(Goal) /\ NewestOK(goals) /\ i \in DOMAIN goals
  BY <1>1 DEF BooksNow, Books, BooksTyped, CallersOK, Waits
<1>3. pending[goals[i].control] = i
  BY <1>1, <1>2 DEF BooksNow, Books, PursuedOK
<1>4. Subsides(goals, goals') /\ ~goals'[i].active
  <2>1. CASE goals' = Ticked(goals)
    BY <1>1, <1>2, <2>1, TickedSubsides
  <2>2. CASE goals' = Cancel(goals, goals[i].control)
    BY <1>1, <1>2, <2>2, CancelSubsides
  <2>3. QED
    BY <1>3, <2>1, <2>2 DEF TimesOut
<1>5. Books(goals', pending, callers)
  BY <1>4, SubsidesBooks DEF BooksNow
<1>6. Books(goals', pending', callers')
  BY <1>1, <1>4, <1>5, LeaveBooks
<1>7. QED
  BY <1>4, <1>6 DEF BooksKept

(* A caller that is cancelled takes its goal with it only if it is alone,  *)
(* and no other goal in any case.                                          *)
LEMMA CallerCancelledBooks ==
    ASSUME BooksNow, NEW k \in DOMAIN callers, CallerCancelled(k)
    PROVE  /\ BooksKept
           /\ Subsides(goals, goals')
           /\ \A i \in DOMAIN goals : goals[i].active /\ Waiters(i) # {k} => goals'[i] = goals[i]
<1> DEFINE i == callers[k].goal
           control == goals[i].control
<1>1. /\ Waits(k) /\ Leave(k, "cancelled")
      /\ goals' = IF CancelsGoal(k, i) THEN Cancel(goals, control) ELSE goals
  BY DEF CallerCancelled
<1>2. goals \in Seq(Goal) /\ NewestOK(goals) /\ i \in DOMAIN goals
  BY <1>1 DEF BooksNow, Books, BooksTyped, CallersOK, Waits
<1>3. CancelsGoal(k, i) <=> pending[control] = i /\ Waiters(i) = {k}
  BY DEF CancelsGoal
<1>4. \A j \in DOMAIN goals : goals[j].active => pending[goals[j].control] = j
  BY DEF BooksNow, Books, PursuedOK
<1>5. CASE CancelsGoal(k, i)
  <2>1. /\ Subsides(goals, goals')
        /\ \A j \in DOMAIN goals : goals[j].active =>
              IF goals[j].control = control THEN ~goals'[j].active ELSE goals'[j] = goals[j]
    BY <1>1, <1>2, <1>5, CancelSubsides
  <2>2. ~goals'[i].active
    BY <1>2, <2>1 DEF Subsides
  <2>3. Books(goals', pending, callers)
    BY <2>1, SubsidesBooks DEF BooksNow
  <2>4. Books(goals', pending', callers')
    BY <1>1, <2>2, <2>3, LeaveBooks
  <2>5. \A j \in DOMAIN goals : goals[j].active /\ Waiters(j) # {k} => goals'[j] = goals[j]
    BY <1>3, <1>4, <1>5, <2>1
  <2>6. QED
    BY <2>1, <2>4, <2>5 DEF BooksKept
<1>6. CASE ~CancelsGoal(k, i)
  <2>1. goals' = goals
    BY <1>1, <1>6
  <2>2. ~goals[i].active \/ Waiters(i) # {k}
    BY <1>2, <1>3, <1>4, <1>6
  <2>3. Books(goals, pending', callers')
    BY <1>1, <2>2, LeaveBooks DEF BooksNow
  <2>4. QED
    BY <1>2, <2>1, <2>3 DEF BooksKept, Subsides
<1>7. QED
  BY <1>5, <1>6

(* A goal that ends leaves the books in order.                             *)
LEMMA GoalEndsBooks ==
    ASSUME BooksNow, NEW i, GoalEnds(i)
    PROVE  BooksKept /\ Subsides(goals, goals')
<1> DEFINE ts == Ticked(goals)
<1>1. Subsides(goals, ts) /\ ts \in Seq(Goal)
  BY TickedSubsides DEF BooksNow, Books, BooksTyped, Subsides
<1> HIDE DEF ts
<1>2. Subsides(ts, End(ts, i))
  BY <1>1, EndSubsides
<1>3. Subsides(goals, End(ts, i))
  BY <1>1, <1>2 DEF Subsides
<1>4. Books(End(ts, i), pending, callers)
  BY <1>3, SubsidesBooks DEF BooksNow
<1>5. QED
  BY <1>3, <1>4 DEF GoalEnds, BooksKept, ts

(* A deadline that passes leaves the books in order.                       *)
LEMMA DeadlinePassesBooks ==
    ASSUME BooksNow, NEW i \in DOMAIN goals, DeadlinePasses(i)
    PROVE  BooksKept /\ Subsides(goals, goals')
<1>1. /\ goals \in Seq(Goal) /\ goals' = [goals EXCEPT ![i].due = TRUE]
      /\ pending' = pending /\ callers' = callers
  BY DEF DeadlinePasses, BooksNow, Books, BooksTyped
<1>2. goals[i] \in Goal
  BY <1>1
<1>3. /\ [goals[i] EXCEPT !.due = TRUE] \in Goal
      /\ [goals[i] EXCEPT !.due = TRUE].control = goals[i].control
      /\ [goals[i] EXCEPT !.due = TRUE].active = goals[i].active
  BY <1>2 DEF Goal
<1>4. Subsides(goals, goals')
  BY <1>1, <1>2, <1>3 DEF Subsides
<1>5. Books(goals', pending, callers)
  BY <1>4, SubsidesBooks DEF BooksNow
<1>6. QED
  BY <1>1, <1>4, <1>5 DEF BooksKept

-----------------------------------------------------------------------------
(* The life of an entry.                                                   *)

Closer == [pc : {"idle", "lock", "watcher", "runtime", "prediction", "energy", "done"},
           opened : BOOLEAN]
Snapshot == [up : BOOLEAN, status : BOOLEAN, available : BOOLEAN, refresh : BOOLEAN,
             age : 0..Unreached, load : {None, 1}]

LifeTyped ==
    closers \in [Closers -> Closer] /\ opened \in BOOLEAN /\ snap \in Snapshot

IsLoaded == opener \notin {"prediction", "energy"}

Begun(c) == closers[c].pc \notin {"idle", "lock"}
Stops(c) == closers[c].pc \in {"watcher", "runtime"} /\ closers[c].opened

(* Closing is for an entry that was set up, or failed to be; there is one  *)
(* at a time.                                                              *)
ClosersOK ==
    /\ \A c \in Closers : closers[c].pc # "idle" => opener \in {"running", "failed"}
    /\ opened => IsLoaded
    /\ \A c \in Closers : Begun(c) => ~opened
    /\ \A c, d \in Closers : c \in Holding /\ d \in Holding => c = d

(* A connection that runs belongs to an entry that is open, or to the close*)
(* that found it open and is about to stop it.                             *)
ConnectionOK ==
    /\ connection = "running" \/ snap.up => opened \/ \E c \in Closers : Stops(c)
    /\ snap.status => snap.up

Life == LifeTyped /\ ClosersOK /\ ConnectionOK /\ BusRelinquished /\ QuietAfterClose

closeVars == <<opened, opener, closers, connection, snap>>

(* What is stopped stays stopped while goals only end.                     *)
LEMMA QuietSubsides ==
    ASSUME BooksNow, Life, Subsides(goals, goals')
    PROVE  (\E c \in Closers : Begun(c)) => \A i \in DOMAIN goals' : ~goals'[i].active
  BY DEF Life, QuietAfterClose, Subsides, Begun, Active

(* Callers leave the closers alone, and do not get through to the engine   *)
(* once a close has begun.                                                 *)
LEMMA LifeCallers ==
    ASSUME BooksNow, Life, UNCHANGED closeVars,
           Subsides(goals, goals') \/ \E goal \in Asked : AsyncCommand(goal[1], goal[2])
    PROVE  Life'
<1>1. LifeTyped' /\ ClosersOK' /\ ConnectionOK' /\ BusRelinquished'
  BY DEF Life, LifeTyped, ClosersOK, ConnectionOK, BusRelinquished, closeVars, Begun, Stops,
         Holding, IsLoaded
<1>2. QuietAfterClose'
  <2> SUFFICES ASSUME \E c \in Closers : Begun(c)
               PROVE  \A i \in DOMAIN goals' : ~goals'[i].active
    BY DEF QuietAfterClose, Begun, closeVars, Active
  <2>1. CASE Subsides(goals, goals')
    BY <2>1, QuietSubsides
  <2>2. CASE \E goal \in Asked : AsyncCommand(goal[1], goal[2])
    <3>1. ~opened
      BY DEF Life, ClosersOK
    <3>2. goals' = goals
      BY <2>2, <3>1 DEF AsyncCommand, Refused, Join, Request
    <3>3. QED
      BY <3>2 DEF Life, QuietAfterClose, Begun, Active
  <2>3. QED
    BY <2>1, <2>2
<1>3. QED
  BY <1>1, <1>2 DEF Life

(* A close goes on to its next step; the runtime is stopped in another     *)
(* lemma.                                                                  *)
LEMMA ProceedLife ==
    ASSUME Life, NEW c \in Closers, closers[c].pc \in {"watcher", "prediction", "energy"},
           NEW raised, Proceed(c, raised),
           UNCHANGED <<opened, opener, connection, snap, goals>>
    PROVE  Life'
<1> DEFINE next == After(closers[c].pc, raised)
<1>1. /\ closers[c].pc = "watcher" => next = "runtime"
      /\ closers[c].pc = "prediction" => next = "energy"
      /\ closers[c].pc = "energy" => next = "done"
  BY DEF After
<1>2. closers \in [Closers -> Closer]
  BY DEF Life, LifeTyped
<1>3. closers' = [closers EXCEPT ![c].pc = next]
  BY DEF Proceed
<1> HIDE DEF next
<1>4. /\ closers' \in [Closers -> Closer] /\ closers'[c].pc = next
      /\ closers'[c].opened = closers[c].opened
      /\ \A d \in Closers : d # c => closers'[d] = closers[d]
  <2>1. closers[c] \in Closer
    BY <1>2
  <2>2. [closers[c] EXCEPT !.pc = next] \in Closer
    BY <1>1, <2>1 DEF Closer
  <2>3. /\ [closers[c] EXCEPT !.pc = next].pc = next
        /\ [closers[c] EXCEPT !.pc = next].opened = closers[c].opened
    BY <2>1 DEF Closer
  <2>4. closers' = [closers EXCEPT ![c] = [closers[c] EXCEPT !.pc = next]]
    BY <1>3
  <2>5. QED
    BY <1>2, <2>2, <2>3, <2>4
<1>5. LifeTyped'
  BY <1>4 DEF Life, LifeTyped
<1>6. c \in Holding /\ Holding' \subseteq Holding
  BY <1>4 DEF Holding
<1>7. ClosersOK'
  <2>1. \A d \in Closers : (Begun(d))' => Begun(d)
    BY <1>4 DEF Begun
  <2>2. \A d \in Closers : (closers[d].pc # "idle")' => closers[d].pc # "idle"
    BY <1>4
  <2>3. \A d, e \in Closers : d \in Holding' /\ e \in Holding' => d = e
    BY <1>6 DEF Life, ClosersOK
  <2>4. QED
    BY <2>1, <2>2, <2>3 DEF Life, ClosersOK, IsLoaded
<1>8. ConnectionOK'
  <2> SUFFICES ASSUME \E d \in Closers : Stops(d)
               PROVE  \E d \in Closers : Stops(d)'
    BY DEF Life, ConnectionOK
  <2>1. PICK d \in Closers : Stops(d)
    OBVIOUS
  <2>2. Stops(d)'
    <3>1. CASE d = c
      BY <1>1, <1>4, <2>1, <3>1 DEF Stops
    <3>2. CASE d # c
      BY <1>4, <2>1, <3>2 DEF Stops
    <3>3. QED
      BY <3>1, <3>2
  <2>3. QED
    BY <2>2
<1>9. BusRelinquished'
  <2>1. \A d \in Closers : closers'[d].pc \in {"prediction", "energy", "done"}
           => closers[d].pc \in {"prediction", "energy", "done"}
    BY <1>1, <1>4
  <2>2. QED
    BY <2>1 DEF Life, BusRelinquished
<1>10. QuietAfterClose'
  BY <1>6 DEF Life, QuietAfterClose, Holding
<1>11. QED
  BY <1>5, <1>7, <1>8, <1>9, <1>10 DEF Life

(* A close waits for the lock.                                             *)
LEMMA AsksToClose ==
    ASSUME Life, NEW c \in Closers, closers[c].pc = "idle",
           closers' = [closers EXCEPT ![c].pc = "lock"], opener' \in {"running", "failed"},
           UNCHANGED <<opened, connection, snap, goals>>
    PROVE  Life'
<1>1. closers \in [Closers -> Closer]
  BY DEF Life, LifeTyped
<1>2. /\ closers' \in [Closers -> Closer] /\ closers'[c].pc = "lock"
      /\ \A d \in Closers : d # c => closers'[d] = closers[d]
  <2>1. closers[c] \in Closer /\ [closers[c] EXCEPT !.pc = "lock"] \in Closer
        /\ [closers[c] EXCEPT !.pc = "lock"].pc = "lock"
    BY <1>1 DEF Closer
  <2>2. QED
    BY <1>1, <2>1
<1>3. /\ \A d \in Closers : (Begun(d))' <=> Begun(d)
      /\ \A d \in Closers : Stops(d) => (Stops(d))'
      /\ Holding' = Holding
  BY <1>2 DEF Begun, Stops, Holding
<1>4. LifeTyped' /\ ClosersOK' /\ ConnectionOK'
  BY <1>2, <1>3 DEF Life, LifeTyped, ClosersOK, ConnectionOK, IsLoaded
<1>5. BusRelinquished' /\ QuietAfterClose'
  BY <1>2, <1>3 DEF Life, BusRelinquished, QuietAfterClose, Begun
<1>6. QED
  BY <1>4, <1>5 DEF Life

(* The close has the lock: nothing is pursued any more.                    *)
LEMMA BeginCloseLife ==
    ASSUME BooksNow, Life, NEW c \in Closers, BeginClose(c)
    PROVE  Life'
<1>1. closers \in [Closers -> Closer] /\ opened \in BOOLEAN
  BY DEF Life, LifeTyped
<1>2. /\ closers' = [closers EXCEPT ![c] = [pc |-> "watcher", opened |-> opened]]
      /\ closers[c].pc = "lock" /\ Holding = {} /\ opened' = FALSE
      /\ goals' = CancelPending(goals)
      /\ opener' = opener /\ connection' = connection /\ snap' = snap
  BY DEF BeginClose, LockIsFree, lifeVars, linkVars
<1>3. /\ closers' \in [Closers -> Closer] /\ closers'[c].pc = "watcher"
      /\ closers'[c].opened = opened
      /\ \A d \in Closers : d # c => closers'[d] = closers[d]
  BY <1>1, <1>2 DEF Closer
<1>4. LifeTyped'
  BY <1>2, <1>3 DEF Life, LifeTyped
<1>5. \A d \in Closers : ~Stops(d)
  BY <1>2 DEF Stops, Holding
<1>6. ClosersOK'
  <2>1. Holding' = {c}
    BY <1>2, <1>3 DEF Holding
  <2>2. \A d \in Closers : (closers[d].pc # "idle")' => closers[d].pc # "idle"
    BY <1>2, <1>3
  <2>3. QED
    BY <1>2, <2>1, <2>2 DEF Life, ClosersOK
<1>7. ConnectionOK'
  <2>1. opened => (Stops(c))'
    BY <1>3 DEF Stops
  <2>2. QED
    BY <1>2, <1>5, <2>1 DEF Life, ConnectionOK
<1>8. BusRelinquished'
  BY <1>2, <1>3 DEF Life, BusRelinquished
<1>9. QuietAfterClose'
  <2>1. \A i \in DOMAIN goals' : ~goals'[i].active
    BY <1>2, CancelPendingSubsides DEF BooksNow, Subsides
  <2>2. QED
    BY <2>1 DEF QuietAfterClose, Active
<1>10. QED
  BY <1>4, <1>6, <1>7, <1>8, <1>9 DEF Life

(* The task that owns the bus is cancelled by the close that found the     *)
(* entry open; any other close finds it stopped.                           *)
LEMMA StopRuntimeLife ==
    ASSUME Life, NEW c \in Closers, StopRuntime(c)
    PROVE  Life'
<1> DEFINE next == "prediction"
<1>1. closers \in [Closers -> Closer] /\ snap \in Snapshot
  BY DEF Life, LifeTyped
<1>2. PICK raised \in BOOLEAN :
         /\ Proceed(c, raised)
         /\ connection' = IF ~closers[c].opened THEN connection
                          ELSE IF raised THEN "stopping" ELSE "stopped"
  BY DEF StopRuntime
<1>3. /\ closers[c].pc = "runtime" /\ snap' = (IF closers[c].opened THEN Unlinked ELSE snap)
      /\ goals' = goals /\ opened' = opened /\ opener' = opener
  BY DEF StopRuntime, commandVars
<1>4. closers' = [closers EXCEPT ![c].pc = next]
  BY <1>2, <1>3 DEF Proceed, After
<1> HIDE DEF next
<1>5. /\ closers' \in [Closers -> Closer] /\ closers'[c].pc = next
      /\ \A d \in Closers : d # c => closers'[d] = closers[d]
  <2>1. closers[c] \in Closer /\ [closers[c] EXCEPT !.pc = next] \in Closer
        /\ [closers[c] EXCEPT !.pc = next].pc = next
    BY <1>1 DEF Closer, next
  <2>2. QED
    BY <1>1, <1>4, <2>1
<1>6. Unlinked \in Snapshot /\ ~Unlinked.up /\ ~Unlinked.status
  BY MaxGapIsPositive DEF Unlinked, Snapshot, Unreached
<1>7. LifeTyped'
  BY <1>1, <1>3, <1>5, <1>6 DEF Life, LifeTyped
<1>8. c \in Holding /\ Holding' = Holding
  BY <1>3, <1>5 DEF Holding, next
<1>9. \A d \in Closers : Stops(d) => d = c
  BY <1>8 DEF Life, ClosersOK, Stops, Holding
<1>10. ~opened
  BY <1>3 DEF Life, ClosersOK, Begun
<1>11. connection' # "running" /\ ~snap'.up /\ ~snap'.status
  <2>1. CASE closers[c].opened
    BY <1>2, <1>3, <1>6, <2>1
  <2>2. CASE ~closers[c].opened
    <3>1. \A d \in Closers : ~Stops(d)
      BY <1>9, <2>2 DEF Stops
    <3>2. connection # "running" /\ ~snap.up
      BY <1>10, <3>1 DEF Life, ConnectionOK
    <3>3. QED
      BY <1>2, <1>3, <2>2, <3>2 DEF Life, ConnectionOK
  <2>3. QED
    BY <2>1, <2>2
<1>12. ConnectionOK' /\ BusRelinquished'
  BY <1>11 DEF ConnectionOK, BusRelinquished
<1>13. ClosersOK'
  <2>1. \A d \in Closers : (closers[d].pc # "idle")' => closers[d].pc # "idle"
    BY <1>3, <1>5
  <2>2. QED
    BY <1>3, <1>8, <1>10, <2>1 DEF Life, ClosersOK, IsLoaded
<1>14. QuietAfterClose'
  BY <1>3, <1>8 DEF Life, QuietAfterClose, Holding
<1>15. QED
  BY <1>7, <1>12, <1>13, <1>14 DEF Life

(* While an entry is being set up nobody closes it.                        *)
LEMMA OpeningLife ==
    ASSUME Life, opener \notin {"running", "failed"}, UNCHANGED <<closers, snap, goals>>,
           opened' \in BOOLEAN, opened' => IsLoaded',
           connection' = "running" \/ connection' = connection,
           connection' = "running" \/ snap'.up => opened'
    PROVE  Life'
<1>1. \A c \in Closers : closers[c].pc = "idle" /\ closers'[c].pc = "idle"
  BY DEF Life, ClosersOK
<1>2. LifeTyped' /\ ClosersOK' /\ ConnectionOK'
  BY <1>1 DEF Life, LifeTyped, ClosersOK, ConnectionOK, Begun, Holding
<1>3. BusRelinquished' /\ QuietAfterClose'
  BY <1>1 DEF BusRelinquished, QuietAfterClose
<1>4. QED
  BY <1>2, <1>3 DEF Life

(* Opening a part keeps the order of setup and close.                      *)
LEMMA OpensLife ==
    ASSUME Life, OpenPrediction \/ OpenEnergy \/ OpenObserved \/ PlatformsAreUp
    PROVE  Life'
<1>1. /\ opener \notin {"running", "failed"} /\ UNCHANGED <<closers, snap, goals>>
      /\ \/ opener' = "energy" /\ opener = "prediction" /\ UNCHANGED <<opened, connection>>
         \/ connection' = "running" /\ opened' = TRUE /\ opener' = "status"
         \/ opener \in {"status", "platforms"} /\ opener' \in {"platforms", "running"}
            /\ UNCHANGED <<opened, connection>>
  <2>1. CASE OpenPrediction
    BY <2>1 DEF OpenPrediction, commandVars, linkVars
  <2>2. CASE OpenEnergy
    BY <2>2 DEF OpenEnergy, Enters, commandVars, linkVars
  <2>3. CASE OpenObserved
    BY <2>3 DEF OpenObserved, commandVars, linkVars
  <2>4. CASE PlatformsAreUp
    BY <2>4 DEF PlatformsAreUp, commandVars, linkVars
  <2>5. QED
    BY <2>1, <2>2, <2>3, <2>4
<1>2. \A c \in Closers : ~Stops(c)
  BY <1>1 DEF Life, ClosersOK, Stops
<1>3. connection = "running" \/ snap.up => opened
  BY <1>2 DEF Life, ConnectionOK
<1>4. opened \in BOOLEAN /\ (opened => IsLoaded)
  BY DEF Life, LifeTyped, ClosersOK
<1>5. /\ opened' \in BOOLEAN /\ (opened' => IsLoaded')
      /\ connection' = "running" \/ connection' = connection
      /\ connection' = "running" \/ snap'.up => opened'
  <2>1. snap' = snap
    BY <1>1
  <2>2. CASE opener' = "energy" /\ opener = "prediction" /\ UNCHANGED <<opened, connection>>
    <3>1. ~opened
      BY <1>4, <2>2 DEF IsLoaded
    <3>2. QED
      BY <1>3, <1>4, <2>1, <2>2, <3>1
  <2>3. CASE connection' = "running" /\ opened' = TRUE /\ opener' = "status"
    BY <2>3 DEF IsLoaded
  <2>4. CASE /\ opener \in {"status", "platforms"} /\ opener' \in {"platforms", "running"}
             /\ UNCHANGED <<opened, connection>>
    <3>1. IsLoaded'
      BY <2>4 DEF IsLoaded
    <3>2. QED
      BY <1>3, <1>4, <2>1, <2>4, <3>1
  <2>5. QED
    BY <1>1, <2>2, <2>3, <2>4
<1>6. QED
  BY <1>1, <1>5, OpeningLife

(* A close that is asked for keeps the order of setup and close.           *)
LEMMA AsksLife ==
    ASSUME Life, SetupFails \/ \E c \in Closers : AsyncClose(c)
    PROVE  Life'
<1>1. CASE SetupFails
  <2>1. /\ closers' = [closers EXCEPT !["setup"].pc = "lock"] /\ opener' = "failed"
        /\ opener \notin {"running", "failed"} /\ UNCHANGED <<opened, connection, snap, goals>>
    BY <1>1 DEF SetupFails, Fails, commandVars, linkVars
  <2>2. "setup" \in Closers
    BY DEF Closers
  <2>3. closers["setup"].pc = "idle"
    BY <2>1, <2>2 DEF Life, ClosersOK
  <2>4. QED
    BY <2>1, <2>2, <2>3, AsksToClose
<1>2. ASSUME NEW c \in Closers, AsyncClose(c)
      PROVE  Life'
  BY <1>2, AsksToClose DEF AsyncClose, commandVars, linkVars
<1>3. QED
  BY <1>1, <1>2

(* The link is up only while its task runs or until it is lost.            *)
LEMMA LinkLife ==
    ASSUME Life, UNCHANGED <<opened, opener, closers, connection, goals>>,
           snap' \in Snapshot, snap'.status => snap'.up,
           snap'.up => snap.up \/ connection = "running"
    PROVE  Life'
<1>1. LifeTyped' /\ ClosersOK' /\ ConnectionOK'
  BY DEF Life, LifeTyped, ClosersOK, ConnectionOK, Begun, Stops, Holding, IsLoaded
<1>2. BusRelinquished' /\ QuietAfterClose'
  BY DEF Life, BusRelinquished, QuietAfterClose
<1>3. QED
  BY <1>1, <1>2 DEF Life

(* A connection that is not there shows nothing.                           *)
LEMMA UnlinkedOK == Unlinked \in Snapshot /\ ~Unlinked.up /\ ~Unlinked.status
  BY MaxGapIsPositive DEF Unlinked, Snapshot, Unreached

(* What the connection does keeps the order of setup and close.            *)
LEMMA LinksLife ==
    ASSUME Life, Link \/ Second
    PROVE  Life'
<1>1. snap \in Snapshot /\ 0 \in 0..Unreached /\ Unreached \in Nat
  BY MaxGapIsPositive DEF Life, LifeTyped, Unreached
<1>2. snap.status => snap.up
  BY DEF Life, ConnectionOK
<1>3. /\ snap' \in Snapshot /\ (snap'.status => snap'.up)
      /\ snap'.up => snap.up \/ connection = "running"
  <2>1. CASE LinkUp
    <3>1. snap' = [Unlinked EXCEPT !.up = TRUE] /\ connection = "running"
      BY <2>1 DEF LinkUp
    <3>2. [Unlinked EXCEPT !.up = TRUE] \in Snapshot
          /\ ~[Unlinked EXCEPT !.up = TRUE].status
      BY UnlinkedOK DEF Snapshot
    <3>3. QED
      BY <3>1, <3>2
  <2>2. ASSUME NEW load \in {None, 1}, Status(load)
        PROVE  /\ snap' \in Snapshot /\ (snap'.status => snap'.up)
               /\ snap'.up => snap.up \/ connection = "running"
    <3>1. snap' = [snap EXCEPT !.status = TRUE, !.age = 0, !.load = load] /\ snap.up
      BY <2>2 DEF Status
    <3>2. QED
      BY <1>1, <3>1 DEF Snapshot
  <2>3. CASE Ready \/ Refreshing
    <3>1. \E a \in BOOLEAN, r \in BOOLEAN :
             snap' = [snap EXCEPT !.available = a, !.refresh = r]
      BY <2>3 DEF Ready, Refreshing
    <3>2. QED
      BY <1>1, <1>2, <3>1 DEF Snapshot
  <2>4. CASE LinkLost
    BY <2>4, UnlinkedOK DEF LinkLost
  <2>5. CASE Second
    <3> DEFINE older == Min({snap.age + 1, Unreached})
    <3>1. snap' = [snap EXCEPT !.age = older]
      BY <2>5 DEF Second
    <3>2. older \in 0..Unreached
      <4>1. snap.age + 1 \in Int /\ snap.age \in 0..Unreached /\ Unreached \in Int
        BY <1>1 DEF Snapshot
      <4>2. older = IF snap.age + 1 <= Unreached THEN snap.age + 1 ELSE Unreached
        BY <4>1, Lesser
      <4>3. QED
        BY <1>1, <4>1, <4>2
    <3> HIDE DEF older
    <3>3. QED
      BY <1>1, <1>2, <3>1, <3>2 DEF Snapshot
  <2>6. QED
    BY <2>1, <2>2, <2>3, <2>4, <2>5 DEF Link
<1>4. UNCHANGED <<opened, opener, closers, connection, goals>>
  BY DEF Link, Second, commandVars, lifeVars
<1>5. QED
  BY <1>3, <1>4, LinkLife

(* The runtime stops in its turn.                                          *)
LEMMA RuntimeStopsLife ==
    ASSUME Life, RuntimeStops
    PROVE  Life'
<1>1. /\ connection' # "running" /\ connection # "running"
      /\ UNCHANGED <<opened, opener, closers, goals, snap>>
  BY DEF RuntimeStops, commandVars, linkVars
<1>2. LifeTyped' /\ ClosersOK' /\ ConnectionOK'
  BY <1>1 DEF Life, LifeTyped, ClosersOK, ConnectionOK, Begun, Stops, Holding, IsLoaded
<1>3. BusRelinquished' /\ QuietAfterClose'
  BY <1>1 DEF Life, BusRelinquished, QuietAfterClose
<1>4. QED
  BY <1>2, <1>3 DEF Life

(* A process starts with nothing open.                                     *)
LEMMA IdleLife ==
    ASSUME NEW cl, cl = [c \in Closers |-> [pc |-> "idle", opened |-> FALSE]]
    PROVE  cl \in [Closers -> Closer] /\ \A c \in Closers : cl[c].pc = "idle"
  BY DEF Closer

(* After a restart nothing is open and nobody closes.                      *)
LEMMA RestartLife ==
    ASSUME Restart
    PROVE  Life'
<1>1. /\ closers' \in [Closers -> Closer] /\ \A c \in Closers : closers'[c].pc = "idle"
  BY IdleLife DEF Restart
<1>2. opened' = FALSE /\ connection' = "none" /\ snap' = Unlinked
  BY DEF Restart
<1>3. LifeTyped' /\ ClosersOK' /\ ConnectionOK'
  BY <1>1, <1>2, UnlinkedOK DEF LifeTyped, ClosersOK, ConnectionOK, Begun, Holding
<1>4. BusRelinquished' /\ QuietAfterClose'
  BY <1>1 DEF BusRelinquished, QuietAfterClose
<1>5. QED
  BY <1>3, <1>4 DEF Life

-----------------------------------------------------------------------------
(* The records: what was counted and learned, what is saved of it, and     *)
(* what is on disk.                                                        *)

TotalsSet == [kwh : Nat, known : Nat, unknown : Nat]
Sample == [age : 0..Unreached, watts : {None} \cup Nat, same : BOOLEAN]
Account ==
    [ totals : TotalsSet, previous : {None} \cup Sample, committed : {None} \cup Nat,
      record : TotalsSet, error : BOOLEAN, loadFailed : BOOLEAN, readyEpoch : BOOLEAN,
      lastSample : {None, <<TRUE>>, <<FALSE>>}, configured : BOOLEAN, enabled : BOOLEAN ]
Model == [learned : Nat, dirty : BOOLEAN, failed : BOOLEAN, event : BOOLEAN,
          task : {"none", "waiting"}]
SaveOf(S) == [by : Closers \cup {"task"}, record : S, stage : {"writing", "written"}]

(* An operator that only counts: the total does not fall, and what was     *)
(* saved of it stays saved.                                                *)
Keeps(a, b) ==
    /\ b.committed = a.committed /\ b.record = a.record /\ b.loadFailed = a.loadFailed
    /\ b.totals.kwh >= a.totals.kwh

(* An interval is credited when the status that ends it arrives, so what   *)
(* is still uncredited was drawn already: the age of the status, and of    *)
(* the sample before it, times the rating.                                 *)
Credited(a, s, r, m) ==
    /\ a.totals.kwh <= m
    /\ s.status /\ ~a.configured => a.totals.kwh + r * s.age <= m
    /\ a.previous # None /\ a.previous.watts # None =>
          /\ a.previous.watts = r
          /\ a.previous.same /\ s.up => a.totals.kwh + r * a.previous.age <= m

AccountOK(a, s, r, m) ==
    /\ a \in Account /\ r \in Nat /\ m \in Nat
    /\ a.committed # None => a.committed = a.record.kwh
    /\ Credited(a, s, r, m)

(* A sample adds to the totals and takes nothing from them.                *)
LEMMA TotalsCount ==
    ASSUME NEW total \in TotalsSet, NEW x \in Nat, NEW y \in Nat
    PROVE  LET t == [total EXCEPT !.kwh = total.kwh + x, !.known = total.known + y]
           IN  t \in TotalsSet /\ t.kwh = total.kwh + x /\ t.kwh >= total.kwh
<1> DEFINE kwhs == total.kwh + x
           seconds == total.known + y
           t == [total EXCEPT !.kwh = kwhs, !.known = seconds]
<1>1. total.kwh \in Nat /\ kwhs \in Nat /\ seconds \in Nat /\ kwhs >= total.kwh
  BY DEF TotalsSet
<1> HIDE DEF kwhs, seconds
<1>2. t \in TotalsSet /\ t.kwh = kwhs
  BY <1>1 DEF TotalsSet
<1>3. QED
  BY <1>1, <1>2 DEF kwhs, seconds

(* A sample keeps the account and counts at most the energy since the last *)
(* one.                                                                    *)
LEMMA SampledTyped ==
    ASSUME NEW a \in Account, NEW age \in 0..Unreached, NEW watts \in {None} \cup Nat
    PROVE  LET b == Sampled(a, age, watts)
               p == a.previous
           IN  /\ b \in Account /\ Keeps(a, b) /\ b.configured = a.configured
               /\ \/ b.totals = a.totals /\ b.previous = p
                  \/ /\ b.previous = [age |-> age, watts |-> watts, same |-> TRUE]
                     /\ b.totals.kwh = a.totals.kwh
                  \/ /\ b.previous = [age |-> age, watts |-> watts, same |-> TRUE]
                     /\ p # None /\ p \in Sample /\ Counts(p, p.age - age, watts)
                     /\ b.totals.kwh = a.totals.kwh + p.watts * (p.age - age)
<1> DEFINE p == a.previous
           seconds == p.age - age
           fresh == [age |-> age, watts |-> watts, same |-> TRUE]
           b == Sampled(a, age, watts)
<1>1. fresh \in Sample /\ a.totals \in TotalsSet
  BY DEF Sample, Account
<1>2. p # None => p \in Sample /\ p.age \in 0..Unreached /\ p.watts \in {None} \cup Nat
  BY DEF Sample, Account
<1>3. CASE p # None /\ seconds <= 0
  <2>1. b = a
    BY <1>3 DEF Sampled
  <2>2. Keeps(a, a)
    BY <1>1 DEF Keeps, TotalsSet
  <2>3. QED
    BY <2>1, <2>2
<1>4. ASSUME NEW t \in TotalsSet, t.kwh >= a.totals.kwh,
             b = [a EXCEPT !.previous = fresh, !.totals = t]
      PROVE  b \in Account /\ Keeps(a, b) /\ b.configured = a.configured
             /\ b.previous = fresh /\ b.totals = t
  <2> HIDE DEF fresh, b
  <2>1. b.previous = fresh /\ b.totals = t /\ b.configured = a.configured
        /\ b.committed = a.committed /\ b.record = a.record /\ b.loadFailed = a.loadFailed
    BY <1>4 DEF Account
  <2>2. b \in Account
    BY <1>1, <1>4 DEF Account
  <2>3. QED
    BY <1>4, <2>1, <2>2 DEF Keeps
<1>5. CASE p = None
  <2>1. b = [a EXCEPT !.previous = fresh, !.totals = a.totals]
    BY <1>5 DEF Sampled
  <2>2. a.totals.kwh >= a.totals.kwh
    BY <1>1 DEF TotalsSet
  <2>3. QED
    BY <1>1, <1>4, <2>1, <2>2
<1>6. CASE p # None /\ ~(seconds <= 0) /\ Counts(p, seconds, watts)
  <2> DEFINE t == [a.totals EXCEPT !.kwh = a.totals.kwh + p.watts * seconds,
                                   !.known = a.totals.known + seconds]
  <2>1. b = [a EXCEPT !.previous = fresh, !.totals = t]
    BY <1>6 DEF Sampled
  <2>2. seconds \in Nat /\ p.watts \in Nat
    BY <1>2, <1>6 DEF Counts
  <2>3. p.watts * seconds \in Nat
    BY <2>2
  <2>4. t \in TotalsSet /\ t.kwh = a.totals.kwh + p.watts * seconds /\ t.kwh >= a.totals.kwh
    BY <1>1, <2>2, <2>3, TotalsCount
  <2> HIDE DEF t
  <2>5. b \in Account /\ Keeps(a, b) /\ b.configured = a.configured
        /\ b.previous = fresh /\ b.totals = t
    BY <1>4, <2>1, <2>4
  <2>6. QED
    BY <1>2, <1>6, <2>4, <2>5
<1>7. CASE p # None /\ ~(seconds <= 0) /\ ~Counts(p, seconds, watts)
  <2> DEFINE t == [a.totals EXCEPT !.unknown = a.totals.unknown + seconds]
  <2>1. b = [a EXCEPT !.previous = fresh, !.totals = t]
    BY <1>7 DEF Sampled
  <2>2. seconds \in Nat
    BY <1>2, <1>7
  <2>3. t \in TotalsSet /\ t.kwh = a.totals.kwh /\ t.kwh >= a.totals.kwh
    BY <1>1, <2>2 DEF TotalsSet
  <2> HIDE DEF t
  <2>4. b \in Account /\ Keeps(a, b) /\ b.configured = a.configured
        /\ b.previous = fresh /\ b.totals = t
    BY <1>4, <2>1, <2>3
  <2>5. QED
    BY <2>3, <2>4
<1>8. QED
  BY <1>3, <1>5, <1>6, <1>7

(* A sample credits no more than was drawn.                                *)
LEMMA SampledOK ==
    ASSUME NEW a, NEW s \in Snapshot, NEW r, NEW m, AccountOK(a, s, r, m),
           s.status => s.up, NEW age, NEW watts,
           \/ age = s.age /\ watts \in {None, r} /\ s.status /\ ~a.configured
           \/ age = 0 /\ watts = None
    PROVE  AccountOK(Sampled(a, age, watts), s, r, m) /\ Keeps(a, Sampled(a, age, watts))
<1> DEFINE b == Sampled(a, age, watts)
           p == a.previous
           fresh == [age |-> age, watts |-> watts, same |-> TRUE]
<1>1. a \in Account /\ r \in Nat /\ m \in Nat /\ a.totals.kwh \in Nat
  BY DEF AccountOK, Account, TotalsSet
<1>2. age \in 0..Unreached /\ watts \in {None} \cup Nat /\ s.age \in 0..Unreached
  BY <1>1, MaxGapIsPositive DEF Snapshot, Unreached
<1>3. /\ b \in Account /\ Keeps(a, b) /\ b.configured = a.configured
      /\ \/ b.totals = a.totals /\ b.previous = p
         \/ b.previous = fresh /\ b.totals.kwh = a.totals.kwh
         \/ /\ b.previous = fresh
            /\ p # None /\ p \in Sample /\ Counts(p, p.age - age, watts)
            /\ b.totals.kwh = a.totals.kwh + p.watts * (p.age - age)
  BY <1>1, <1>2, SampledTyped
<1>4. fresh.age = age /\ fresh.watts = watts /\ fresh.same = TRUE
  OBVIOUS
<1> HIDE DEF b, fresh
<1>5. b.committed # None => b.committed = b.record.kwh
  BY <1>3 DEF AccountOK, Keeps
<1>6. Credited(b, s, r, m)
  <2>1. CASE b.totals = a.totals /\ b.previous = p
    BY <1>3, <2>1 DEF AccountOK, Credited
  <2>2. CASE b.previous = fresh /\ b.totals.kwh = a.totals.kwh
    <3>1. watts # None => watts = r /\ a.totals.kwh + r * age <= m
      BY <1>1 DEF AccountOK, Credited
    <3>2. QED
      BY <1>3, <1>4, <2>2, <3>1 DEF AccountOK, Credited
  <2>3. CASE /\ b.previous = fresh
             /\ p # None /\ p \in Sample /\ Counts(p, p.age - age, watts)
             /\ b.totals.kwh = a.totals.kwh + p.watts * (p.age - age)
    <3>1. p.watts # None /\ watts # None /\ p.same
      BY <2>3 DEF Counts
    <3>2. age = s.age /\ watts = r /\ s.up
      BY <3>1
    <3>3. p.watts = r /\ a.totals.kwh + r * p.age <= m
      BY <2>3, <3>1, <3>2 DEF AccountOK, Credited
    <3>4. p.age \in Nat /\ age \in Nat
      BY <1>2, <2>3, MaxGapIsPositive DEF Sample, Unreached
    <3>5. r * (p.age - age) + r * age = r * p.age /\ r * age \in Nat
          /\ r * (p.age - age) \in Int /\ r * p.age \in Nat
      BY <1>1, <3>4
    <3> DEFINE credit == r * (p.age - age)
               rest == r * age
               all == r * p.age
    <3>6. credit + rest = all /\ rest \in Nat /\ credit \in Int /\ all \in Nat
      BY <3>5
    <3>7. b.totals.kwh = a.totals.kwh + credit /\ a.totals.kwh + all <= m
      BY <2>3, <3>3
    <3> HIDE DEF credit, rest, all
    <3>8. b.totals.kwh + rest <= m /\ b.totals.kwh <= m
      BY <1>1, <3>6, <3>7
    <3>9. b.totals.kwh + r * age <= m
      BY <3>8 DEF rest
    <3>10. QED
      BY <1>4, <2>3, <3>2, <3>8, <3>9 DEF Credited
  <2>4. QED
    BY <1>3, <2>1, <2>2, <2>3
<1>7. QED
  BY <1>1, <1>3, <1>5, <1>6 DEF AccountOK, b

(* An operator that leaves the total and the sample alone.                 *)
LEMMA QuietAccount ==
    ASSUME NEW a, NEW b, NEW s, NEW r, NEW m, AccountOK(a, s, r, m), b \in Account,
           b.totals = a.totals, b.previous \in {None, a.previous},
           b.configured \/ b.configured = a.configured,
           b.committed = a.committed, b.record = a.record, b.loadFailed = a.loadFailed
    PROVE  AccountOK(b, s, r, m) /\ Keeps(a, b)
<1>1. Keeps(a, b)
  BY DEF AccountOK, Account, TotalsSet, Keeps
<1>2. Credited(b, s, r, m)
  BY DEF AccountOK, Credited
<1>3. QED
  BY <1>1, <1>2 DEF AccountOK

(* A sample keeps the bound on what was counted.                           *)
LEMMA SampledOnceOK ==
    ASSUME NEW a, NEW s \in Snapshot, NEW r, NEW m, AccountOK(a, s, r, m),
           s.status => s.up, NEW seen, NEW watts \in {None, r},
           seen.age = s.age, seen.stale = (~s.status \/ s.age >= StaleAfter)
    PROVE  AccountOK(SampledOnce(a, seen, watts), s, r, m) /\ Keeps(a, SampledOnce(a, seen, watts))
<1> DEFINE healthy == Healthy(a, seen)
           skips == ~a.enabled \/ a.loadFailed \/ a.lastSample = <<healthy>> \/ a.configured
           b == [a EXCEPT !.lastSample = <<healthy>>]
<1>1. healthy \in BOOLEAN /\ (healthy => s.status) /\ a \in Account
  BY DEF Healthy, AccountOK
<1> HIDE DEF healthy
<1>2. CASE skips
  <2>1. SampledOnce(a, seen, watts) = a
    BY <1>2 DEF SampledOnce, healthy
  <2>2. QED
    BY <1>1, <2>1, QuietAccount
<1>3. CASE ~skips
  <2>1. <<healthy>> \in {None, <<TRUE>>, <<FALSE>>}
    BY <1>1
  <2>2. /\ b \in Account /\ b.totals = a.totals /\ b.previous = a.previous
        /\ b.configured = a.configured /\ b.committed = a.committed /\ b.record = a.record
        /\ b.loadFailed = a.loadFailed
    BY <1>1, <2>1 DEF Account
  <2>3. SampledOnce(a, seen, watts)
           = Sampled(b, IF healthy THEN seen.age ELSE 0, IF healthy THEN watts ELSE None)
    BY <1>3 DEF SampledOnce, healthy
  <2> HIDE DEF b
  <2>4. AccountOK(b, s, r, m) /\ Keeps(a, b)
    BY <2>2, QuietAccount
  <2> DEFINE c == SampledOnce(a, seen, watts)
  <2>5. AccountOK(c, s, r, m) /\ Keeps(b, c)
    <3>1. CASE healthy
      <4>1. s.age = s.age /\ s.status /\ ~b.configured
        BY <1>1, <1>3, <2>2, <3>1
      <4>2. AccountOK(Sampled(b, s.age, watts), s, r, m) /\ Keeps(b, Sampled(b, s.age, watts))
        BY <2>4, <4>1, SampledOK
      <4>3. QED
        BY <2>3, <3>1, <4>2
    <3>2. CASE ~healthy
      <4>1. AccountOK(Sampled(b, 0, None), s, r, m) /\ Keeps(b, Sampled(b, 0, None))
        BY <2>4, SampledOK
      <4>2. QED
        BY <2>3, <3>2, <4>1
    <3>3. QED
      BY <3>1, <3>2
  <2>6. Keeps(a, c)
    <3>1. a.totals.kwh \in Nat /\ b.totals.kwh \in Nat /\ c.totals.kwh \in Nat
      BY <2>4, <2>5 DEF AccountOK, Account, TotalsSet
    <3> HIDE DEF c
    <3>2. QED
      BY <2>4, <2>5, <3>1 DEF Keeps
  <2>7. QED
    BY <2>5, <2>6
<1>4. QED
  BY <1>2, <1>3

(* Keeping what was counted composes over the calls of one step.           *)
LEMMA KeepsOn ==
    ASSUME NEW a \in Account, NEW b \in Account, NEW c \in Account, Keeps(a, b), Keeps(b, c)
    PROVE  Keeps(a, c)
<1>1. a.totals.kwh \in Nat /\ b.totals.kwh \in Nat /\ c.totals.kwh \in Nat
  BY DEF Account, TotalsSet
<1>2. QED
  BY <1>1 DEF Keeps

(* What both controllers see, at whatever rating the account goes by.      *)
LEMMA ObservedOK ==
    ASSUME NEW a, NEW r, NEW m, AccountOK(a, snap, r, m), Life
    PROVE  AccountOK(Observed(a, Seen, Power(r)), snap, r, m) /\ Keeps(a, Observed(a, Seen, Power(r)))
<1> DEFINE b == ReadyNoted(a, Seen)
           seen == Seen
           watts == Power(r)
           c == SampledOnce(b, seen, watts)
<1>1. snap \in Snapshot /\ (snap.status => snap.up)
  BY DEF Life, LifeTyped, ConnectionOK
<1>2. AccountOK(b, snap, r, m) /\ Keeps(a, b)
  <2>1. a \in Account
    BY DEF AccountOK
  <2>2. /\ b \in Account /\ b.totals = a.totals /\ b.previous = a.previous
        /\ b.configured = a.configured /\ b.committed = a.committed /\ b.record = a.record
        /\ b.loadFailed = a.loadFailed
    BY <2>1 DEF ReadyNoted, Account
  <2> HIDE DEF b
  <2>3. QED
    BY <2>2, QuietAccount
<1>3. watts \in {None, r}
  <2>1. snap.load = None \/ snap.load = 1
    BY <1>1 DEF Snapshot
  <2>2. r \in Nat
    BY DEF AccountOK
  <2>3. 1 * r = r
    BY <2>2
  <2>4. QED
    BY <2>1, <2>3 DEF Power
<1>4. seen.age = snap.age /\ seen.stale = (~snap.status \/ snap.age >= StaleAfter)
  BY DEF Seen
<1>5. Observed(a, Seen, Power(r)) = c
  BY DEF Observed
<1> HIDE DEF b, seen, watts
<1>6. AccountOK(c, snap, r, m) /\ Keeps(b, c)
  BY <1>1, <1>2, <1>3, <1>4, SampledOnceOK
<1>7. Keeps(a, c)
  BY <1>2, <1>6, KeepsOn DEF AccountOK
<1>8. QED
  BY <1>5, <1>6, <1>7

(* A change of rating starts again without a sample.                       *)
LEMMA ConfiguredOK ==
    ASSUME NEW a, NEW s, NEW r, NEW m, AccountOK(a, s, r, m), NEW e \in BOOLEAN, NEW q \in Nat
    PROVE  AccountOK(Configured(a, e), s, q, m) /\ Keeps(a, Configured(a, e))
<1> DEFINE y == [a EXCEPT !.previous = None]
           b == [y EXCEPT !.enabled = e, !.lastSample = None, !.configured = TRUE]
<1>1. a \in Account /\ Configured(a, e) = b
  BY DEF AccountOK, Configured, Broken
<1>2. y \in Account /\ y.previous = None /\ y.totals = a.totals /\ y.committed = a.committed
      /\ y.record = a.record /\ y.loadFailed = a.loadFailed
  BY <1>1 DEF Account
<1> HIDE DEF y
<1>3. b \in Account /\ b.previous = None /\ b.totals = y.totals /\ b.committed = y.committed
      /\ b.record = y.record /\ b.loadFailed = y.loadFailed /\ b.configured = TRUE
  BY <1>2 DEF Account
<1> HIDE DEF b
<1>4. AccountOK(b, s, q, m)
  BY <1>2, <1>3 DEF AccountOK, Credited
<1>5. Keeps(a, b)
  BY <1>1, <1>2, <1>3 DEF Keeps, Account, TotalsSet
<1>6. QED
  BY <1>1, <1>4, <1>5

(* A gap counts nothing.                                                   *)
LEMMA BrokenOK ==
    ASSUME NEW a, NEW s, NEW r, NEW m, AccountOK(a, s, r, m)
    PROVE  AccountOK(Broken(a), s, r, m) /\ Keeps(a, Broken(a))
<1> DEFINE b == Broken(a)
<1>1. /\ b \in Account /\ b.totals = a.totals /\ b.previous = None
      /\ b.configured = a.configured /\ b.committed = a.committed /\ b.record = a.record
      /\ b.loadFailed = a.loadFailed
  BY DEF AccountOK, Broken, Account
<1> HIDE DEF b
<1>2. QED
  BY <1>1, QuietAccount DEF b

(* A new status is 0 old, and a new epoch has none.                        *)
LEMMA StatusCameOK ==
    ASSUME NEW a, NEW s, NEW t, NEW r, NEW m, AccountOK(a, s, r, m), t.age = 0, t.up = s.up
    PROVE  AccountOK(StatusCame(a), t, r, m) /\ Keeps(a, StatusCame(a))
<1> DEFINE b == StatusCame(a)
<1>1. /\ b \in Account /\ b.totals = a.totals /\ b.previous = a.previous
      /\ b.committed = a.committed /\ b.record = a.record /\ b.loadFailed = a.loadFailed
      /\ b.totals.kwh \in Nat /\ r \in Nat /\ m \in Nat
  BY DEF AccountOK, StatusCame, Account, TotalsSet
<1> HIDE DEF b
<1>2. Credited(b, t, r, m)
  BY <1>1 DEF AccountOK, Credited
<1>3. QED
  BY <1>1, <1>2 DEF AccountOK, Keeps, b

(* The end of an epoch counts nothing.                                     *)
LEMMA EpochEndedOK ==
    ASSUME NEW a, NEW s, NEW t, NEW r, NEW m, AccountOK(a, s, r, m), ~t.status
    PROVE  AccountOK(EpochEnded(a), t, r, m) /\ Keeps(a, EpochEnded(a))
<1> DEFINE p == a.previous
           q == IF p = None THEN None ELSE [p EXCEPT !.same = FALSE]
           y == StatusCame(a)
           b == [y EXCEPT !.readyEpoch = FALSE, !.previous = q]
<1>1. a \in Account /\ EpochEnded(a) = b
  BY DEF AccountOK, EpochEnded
<1>2. y \in Account /\ y.totals = a.totals /\ y.committed = a.committed
      /\ y.record = a.record /\ y.loadFailed = a.loadFailed
  BY <1>1 DEF Account, StatusCame
<1>3. q \in {None} \cup Sample
      /\ (q # None /\ q.watts # None => ~q.same /\ q.watts = p.watts /\ p # None)
  <2>1. p # None => p \in Sample
    BY <1>1 DEF Account
  <2>2. CASE p = None
    BY <2>2
  <2>3. CASE p # None
    BY <2>1, <2>3 DEF Sample
  <2>4. QED
    BY <2>2, <2>3
<1> HIDE DEF y, q
<1>4. b \in Account /\ b.previous = q /\ b.totals = y.totals /\ b.committed = y.committed
      /\ b.record = y.record /\ b.loadFailed = y.loadFailed
  BY <1>2, <1>3 DEF Account
<1> HIDE DEF b
<1>5. Credited(b, t, r, m)
  BY <1>2, <1>3, <1>4 DEF AccountOK, Credited
<1>6. Keeps(a, b)
  BY <1>1, <1>2, <1>4 DEF Keeps, Account, TotalsSet
<1>7. QED
  BY <1>1, <1>2, <1>4, <1>5, <1>6 DEF AccountOK

(* One second more, up to what is told apart.                              *)
LEMMA OneMore ==
    ASSUME NEW x \in 0..Unreached
    PROVE  Min({x + 1, Unreached}) \in 0..Unreached /\ Min({x + 1, Unreached}) <= x + 1
<1>1. x + 1 \in Int /\ Unreached \in Nat
  BY MaxGapIsPositive DEF Unreached
<1>2. Min({x + 1, Unreached}) = IF x + 1 <= Unreached THEN x + 1 ELSE Unreached
  BY <1>1, Lesser
<1>3. QED
  BY <1>1, <1>2

(* In a second at most the rating is drawn.                                *)
LEMMA OlderCredit ==
    ASSUME NEW kwh \in Nat, NEW r \in Nat, NEW m \in Nat, NEW x \in 0..Unreached,
           kwh + r * x <= m
    PROVE  kwh + r * Min({x + 1, Unreached}) <= m + r
<1> DEFINE y == Min({x + 1, Unreached})
<1>1. y \in Nat /\ x \in Nat /\ y <= x + 1
  BY OneMore, MaxGapIsPositive DEF Unreached
<1> HIDE DEF y
<1>2. r * y <= r * (x + 1) /\ r * (x + 1) = r * x + r /\ r * y \in Nat /\ r * x \in Nat
  BY <1>1
<1> DEFINE u == r * y
           v == r * x
           w == r * (x + 1)
<1>3. u <= w /\ w = v + r /\ u \in Nat /\ v \in Nat /\ kwh + v <= m
  BY <1>2
<1> HIDE DEF u, v, w
<1>4. kwh + u <= m + r
  BY <1>3
<1>5. QED
  BY <1>4 DEF u, y

(* A second raises the bound by what the spa could have used.              *)
LEMMA AgedOK ==
    ASSUME NEW a, NEW s \in Snapshot, NEW t, NEW r, NEW m, AccountOK(a, s, r, m),
           s.status => s.up, t = [s EXCEPT !.age = Min({s.age + 1, Unreached})]
    PROVE  AccountOK(Aged(a), t, r, IF s.up THEN m + r ELSE m) /\ Keeps(a, Aged(a))
<1> DEFINE p == a.previous
           q == IF p = None THEN None ELSE [p EXCEPT !.age = Min({p.age + 1, Unreached})]
           b == [a EXCEPT !.previous = q]
           n == IF s.up THEN m + r ELSE m
<1>1. a \in Account /\ Aged(a) = b /\ r \in Nat /\ m \in Nat /\ n \in Nat /\ n >= m
  BY DEF AccountOK, Aged
<1>2. a.totals.kwh \in Nat
  BY <1>1 DEF Account, TotalsSet
<1>3. /\ t.age = Min({s.age + 1, Unreached}) /\ t.up = s.up /\ t.status = s.status
      /\ s.age \in 0..Unreached
  BY DEF Snapshot
<1>4. p # None => p \in Sample /\ p.age \in 0..Unreached
  BY <1>1 DEF Account, Sample
<1>5. q \in {None} \cup Sample
      /\ (q # None => /\ p # None /\ q.watts = p.watts /\ q.same = p.same
                      /\ q.age = Min({p.age + 1, Unreached}))
  <2>1. CASE p = None
    BY <2>1
  <2>2. CASE p # None
    <3> DEFINE older == Min({p.age + 1, Unreached})
    <3>1. older \in 0..Unreached
      BY <1>4, <2>2, OneMore
    <3>2. q = [p EXCEPT !.age = older]
      BY <2>2
    <3> HIDE DEF older, q
    <3>3. q \in Sample /\ q.watts = p.watts /\ q.same = p.same /\ q.age = older
      BY <1>4, <2>2, <3>1, <3>2 DEF Sample
    <3>4. QED
      BY <2>2, <3>3 DEF older
  <2>3. QED
    BY <2>1, <2>2
<1> HIDE DEF q
<1>6. b \in Account /\ b.previous = q /\ b.totals = a.totals /\ b.committed = a.committed
      /\ b.record = a.record /\ b.loadFailed = a.loadFailed /\ b.configured = a.configured
  BY <1>1, <1>5 DEF Account
<1> HIDE DEF b, n
<1>7. Credited(b, t, r, n)
  <2>1. b.totals.kwh <= n
    BY <1>1, <1>2, <1>6 DEF AccountOK, Credited
  <2>2. t.status /\ ~b.configured => b.totals.kwh + r * t.age <= n
    <3> SUFFICES ASSUME s.status, ~a.configured
                 PROVE  a.totals.kwh + r * Min({s.age + 1, Unreached}) <= m + r
      BY <1>3, <1>6 DEF n
    <3>1. a.totals.kwh + r * s.age <= m
      BY DEF AccountOK, Credited
    <3>2. QED
      BY <1>1, <1>2, <1>3, <3>1, OlderCredit
  <2>3. b.previous # None /\ b.previous.watts # None => b.previous.watts = r
    BY <1>5, <1>6 DEF AccountOK, Credited
  <2>4. b.previous # None /\ b.previous.watts # None /\ b.previous.same /\ t.up
           => b.totals.kwh + r * b.previous.age <= n
    <3> SUFFICES ASSUME q # None, p.watts # None, p.same, s.up
                 PROVE  a.totals.kwh + r * Min({p.age + 1, Unreached}) <= m + r
      BY <1>3, <1>5, <1>6 DEF n
    <3>1. p # None
      BY <1>5
    <3>2. a.totals.kwh + r * p.age <= m
      BY <3>1 DEF AccountOK, Credited
    <3>3. QED
      BY <1>1, <1>2, <1>4, <3>1, <3>2, OlderCredit
  <2>5. QED
    BY <2>1, <2>2, <2>3, <2>4 DEF Credited
<1>8. Keeps(a, b)
  BY <1>2, <1>6 DEF Keeps
<1>9. QED
  BY <1>1, <1>6, <1>7, <1>8 DEF AccountOK, n

(* A new account has counted nothing.                                      *)
LEMMA NewAccountOK ==
    ASSUME NEW e \in BOOLEAN, NEW s, NEW r \in Nat, NEW m \in Nat, ~s.status
    PROVE  /\ AccountOK(NewAccount(e), s, r, m) /\ NewAccount(e).totals.kwh = 0
           /\ NewAccount(e).committed = None
<1> DEFINE b == NewAccount(e)
<1>1. Totals \in TotalsSet /\ Totals.kwh = 0
  BY DEF Totals, TotalsSet
<1>2. b \in Account /\ b.totals = Totals /\ b.previous = None /\ b.committed = None
  BY <1>1 DEF NewAccount, Account
<1> HIDE DEF b
<1>3. QED
  BY <1>1, <1>2 DEF AccountOK, Credited, b

(* A record is loaded before anything is observed.                         *)
LEMMA LoadedOK ==
    ASSUME NEW a, NEW s, NEW r, NEW m, AccountOK(a, s, r, m), ~s.status, ~s.up,
           NEW record \in {None} \cup TotalsSet, record # None => record.kwh <= m
    PROVE  /\ AccountOK(Loaded(a, record), s, r, m)
           /\ Loaded(a, record).loadFailed = a.loadFailed
           /\ record # None => /\ Loaded(a, record).committed = record.kwh
                               /\ Loaded(a, record).totals = record
           /\ record = None => Loaded(a, record) = a
<1>1. CASE record = None
  BY <1>1 DEF Loaded
<1>2. CASE record # None
  <2> DEFINE b == [a EXCEPT !.totals = record, !.committed = record.kwh, !.record = record]
  <2>1. a \in Account /\ record \in TotalsSet /\ record.kwh \in Nat /\ r \in Nat /\ m \in Nat
    BY <1>2 DEF AccountOK, TotalsSet
  <2>2. /\ b \in Account /\ b.totals = record /\ b.committed = record.kwh /\ b.record = record
        /\ b.previous = a.previous /\ b.loadFailed = a.loadFailed
    BY <2>1 DEF Account
  <2>3. Loaded(a, record) = b
    BY <1>2 DEF Loaded
  <2> HIDE DEF b
  <2>4. AccountOK(b, s, r, m)
    BY <1>2, <2>1, <2>2 DEF AccountOK, Credited
  <2>5. QED
    BY <1>2, <2>2, <2>3, <2>4
<1>3. QED
  BY <1>1, <1>2

(* A failed load counts nothing, and is remembered.                        *)
LEMMA LoadCaughtOK ==
    ASSUME NEW a, NEW s, NEW r, NEW m, AccountOK(a, s, r, m)
    PROVE  /\ AccountOK(LoadCaught(a), s, r, m) /\ LoadCaught(a).loadFailed
           /\ LoadCaught(a).committed = a.committed
<1> DEFINE b == LoadCaught(a)
<1>1. /\ b \in Account /\ b.totals = a.totals /\ b.previous = a.previous /\ b.loadFailed
      /\ b.configured = a.configured /\ b.committed = a.committed /\ b.record = a.record
  BY DEF AccountOK, LoadCaught, Account
<1> HIDE DEF b
<1>2. QED
  BY <1>1 DEF AccountOK, Credited, b

(* A save changes what is committed, and never what was counted.           *)
LEMMA SavedOK ==
    ASSUME NEW a, NEW s, NEW r, NEW m, AccountOK(a, s, r, m), NEW record \in TotalsSet
    PROVE  /\ AccountOK(SaveVerified(a, record), s, r, m)
           /\ SaveVerified(a, record).totals = a.totals
           /\ SaveVerified(a, record).committed = record.kwh
           /\ SaveVerified(a, record).loadFailed = a.loadFailed
           /\ AccountOK(SaveFailed(a), s, r, m) /\ Keeps(a, SaveFailed(a))
<1>1. a \in Account /\ record.kwh \in Nat
  BY DEF AccountOK, TotalsSet
<1> DEFINE b == SaveVerified(a, record)
           c == SaveFailed(a)
<1>2. /\ b \in Account /\ b.totals = a.totals /\ b.previous = a.previous
      /\ b.configured = a.configured /\ b.committed = record.kwh /\ b.record = record
      /\ b.loadFailed = a.loadFailed
  BY <1>1 DEF SaveVerified, Account
<1>3. /\ c \in Account /\ c.totals = a.totals /\ c.previous = a.previous
      /\ c.configured = a.configured /\ c.committed = a.committed /\ c.record = a.record
      /\ c.loadFailed = a.loadFailed
  BY <1>1 DEF SaveFailed, Account
<1> HIDE DEF b, c
<1>4. AccountOK(b, s, r, m)
  BY <1>2 DEF AccountOK, Credited
<1>5. AccountOK(c, s, r, m) /\ Keeps(a, c)
  BY <1>3, QuietAccount
<1>6. QED
  BY <1>2, <1>4, <1>5 DEF b, c

-----------------------------------------------------------------------------
(* The ledger.                                                             *)

Slots == {None} \cup SaveOf(Nat) \cup SaveOf(TotalsSet)

StepOf(r) == IF r = "model" THEN "prediction" ELSE "energy"

(* A close that saves a record is at the step of that record; while the    *)
(* entry has not loaded its records, nothing is checkpointed.              *)
StoreOK ==
    /\ saves \in [Records -> Slots]
    /\ \A r \in Records : saves[r] # None /\ saves[r].by # "task" =>
          saves[r].by \in Closers /\ closers[saves[r].by].pc = StepOf(r)
    /\ disk \in [model : Nat, energy : {None} \cup TotalsSet]
    /\ ticking \in BOOLEAN /\ (ticking => IsLoaded)
    /\ ~IsLoaded => saves["energy"] = None

(* What was learned is dirty, or about to be what the disk holds.          *)
ModelOK(m, save, stored, new, stopping) ==
    /\ m \in Model /\ stored \in Nat /\ save \in {None} \cup SaveOf(Nat)
    /\ new => m.task = "none" /\ save = None
    /\ ~m.failed /\ ~stopping /\ ~new =>
          m.dirty \/ m.learned = IF save = None THEN stored ELSE save.record

EnergyOK(a, save, stored, s, r, m) ==
    /\ AccountOK(a, s, r, m)
    /\ stored # None => stored \in TotalsSet /\ stored.kwh <= m
    /\ save # None => save \in SaveOf(TotalsSet) /\ save.record.kwh <= m

(* What was shown is on disk, in every save to come, and in the total.     *)
ShownOK(a, save, stored, p, loaded) ==
    /\ p \in Nat
    /\ stored # None => stored.kwh >= p
    /\ stored = None => p = 0
    /\ loaded /\ ~a.loadFailed => a.totals.kwh >= p
    /\ ~loaded => ~a.loadFailed
    /\ ~loaded \/ a.loadFailed => save = None /\ a.committed = None
    /\ save # None => /\ save.record.kwh >= p /\ save.record.kwh <= a.totals.kwh
                      /\ a.committed # None => save.record.kwh >= a.committed
    /\ a.committed # None => /\ stored # None /\ stored.kwh >= a.committed
                             /\ a.totals.kwh >= a.committed /\ a.committed >= p

ModelNow == ModelOK(model, saves["model"], disk.model, opener = "prediction", Stopping)
EnergyNow == EnergyOK(account, saves["energy"], disk.energy, snap, rating, most)
ShownNow == ShownOK(account, saves["energy"], disk.energy, published, IsLoaded)

Ledger == StoreOK /\ ModelNow /\ EnergyNow
LoadFaultsAreCaught == "uncaught" \notin LoadFaults

LedgerKept == Ledger' /\ (LoadFaultsAreCaught /\ ShownNow => ShownNow')

(* What is stored, and what is on its way there, are records of their      *)
(* kind.                                                                   *)
LEMMA StoreTyped ==
    ASSUME Ledger
    PROVE  /\ saves["model"] \in {None} \cup SaveOf(Nat)
           /\ saves["energy"] \in {None} \cup SaveOf(TotalsSet)
           /\ disk.model \in Nat /\ disk.energy \in {None} \cup TotalsSet
           /\ account \in Account /\ model \in Model /\ rating \in Nat /\ most \in Nat
  BY DEF Ledger, StoreOK, ModelNow, ModelOK, EnergyNow, EnergyOK, AccountOK

(* What was counted and committed are numbers.                             *)
LEMMA NumbersOf ==
    /\ \A t \in TotalsSet : t.kwh \in Nat
    /\ \A a \in Account : a.totals.kwh \in Nat /\ a.totals \in TotalsSet
                          /\ a.committed \in {None} \cup Nat
    /\ \A x \in SaveOf(TotalsSet) : x.record \in TotalsSet /\ x.record.kwh \in Nat
  BY DEF TotalsSet, Account, SaveOf

(* Counting more leaves the records in order, and what was shown.          *)
LEMMA CountsEnergy ==
    ASSUME NEW a, NEW b, NEW save, NEW stored, NEW s, NEW t, NEW r, NEW q, NEW m, NEW n,
           EnergyOK(a, save, stored, s, r, m), AccountOK(b, t, q, n), n >= m
    PROVE  EnergyOK(b, save, stored, t, q, n)
  BY NumbersOf DEF EnergyOK, AccountOK

(* What was published stays covered while an account only counts on.       *)
LEMMA CountsShown ==
    ASSUME NEW a \in Account, NEW b \in Account, NEW save \in {None} \cup SaveOf(TotalsSet),
           NEW stored, NEW p, NEW loaded, ShownOK(a, save, stored, p, loaded), Keeps(a, b)
    PROVE  ShownOK(b, save, stored, p, loaded)
<1>1. /\ a.totals.kwh \in Nat /\ b.totals.kwh \in Nat /\ a.committed \in {None} \cup Nat
      /\ save # None => save.record.kwh \in Nat
      /\ p \in Nat
  BY NumbersOf DEF ShownOK
<1>2. QED
  BY <1>1 DEF ShownOK, Keeps

(* What is shown next is what was committed.                               *)
LEMMA ShownNext ==
    ASSUME NEW a \in Account, NEW save, NEW stored \in {None} \cup TotalsSet, NEW p,
           NEW q, NEW loaded, ShownOK(a, save, stored, p, loaded),
           q = IF a.enabled /\ a.committed # None THEN Max({p, a.committed}) ELSE p
    PROVE  ShownOK(a, save, stored, q, loaded)
<1>1. CASE a.enabled /\ a.committed # None
  <2>1. a.committed \in Nat /\ p \in Nat /\ a.committed >= p
    BY <1>1, NumbersOf DEF ShownOK
  <2>2. Max({p, a.committed}) = IF p >= a.committed THEN p ELSE a.committed
    BY <2>1, Greater
  <2>3. q = a.committed
    BY <1>1, <2>1, <2>2
  <2>4. QED
    BY <1>1, <2>1, <2>3 DEF ShownOK
<1>2. CASE ~(a.enabled /\ a.committed # None)
  BY <1>2
<1>3. QED
  BY <1>1, <1>2

(* Steps that leave the records alone.                                     *)
LEMMA AsideLedger ==
    ASSUME Life, Ledger, UNCHANGED <<model, account, ticking, saves, disk, rating, most, published>>,
           (opener' = "prediction") <=> (opener = "prediction"),
           IsLoaded => IsLoaded', (IsLoaded' => IsLoaded) \/ ~LoadFaultsAreCaught,
           Stopping => Stopping',
           \A c \in Closers : closers[c].pc \in {"prediction", "energy"} => closers'[c] = closers[c],
           snap'.up => snap.up, snap'.status => snap.status /\ snap'.age = snap.age
    PROVE  LedgerKept
<1>1. StoreOK'
  BY DEF Ledger, StoreOK, StepOf
<1>2. ModelNow'
  BY DEF Ledger, ModelNow, ModelOK
<1>3. AccountOK(account, snap', rating, most)
  BY DEF Ledger, EnergyNow, EnergyOK, AccountOK, Credited
<1>4. EnergyNow'
  BY <1>3 DEF Ledger, EnergyNow, EnergyOK
<1>5. LoadFaultsAreCaught /\ ShownNow => ShownNow'
  <2> SUFFICES ASSUME LoadFaultsAreCaught, ShownNow
               PROVE  ShownNow'
    OBVIOUS
  <2>1. IsLoaded' <=> IsLoaded
    OBVIOUS
  <2>2. QED
    BY <2>1 DEF ShownNow, ShownOK
<1>6. QED
  BY <1>1, <1>2, <1>4, <1>5 DEF Ledger, LedgerKept

(* Learning makes the model dirty, and leaves its task alone.              *)
LEMMA LearnsTyped ==
    ASSUME NEW m \in Model
    PROVE  Learns(m) \in Model /\ Learns(m).dirty /\ Learns(m).task = m.task
<1> DEFINE more == m.learned + 1
<1>1. more \in Nat /\ Learns(m) = [m EXCEPT !.learned = more, !.dirty = TRUE, !.event = TRUE]
  BY DEF Learns, Model
<1> HIDE DEF more
<1>2. QED
  BY <1>1 DEF Model

(* Steps that only count or observe.                                       *)
LEMMA CountsLedger ==
    ASSUME Ledger, UNCHANGED <<opener, closers, ticking, saves, disk>>,
           model' \in {model, Learns(model)},
           AccountOK(account', snap', rating', most'), Keeps(account, account'), most' >= most,
           published' = published \/ Shown(account')
    PROVE  LedgerKept
<1>1. StoreOK'
  BY DEF Ledger, StoreOK, StepOf, IsLoaded
<1>2. ModelNow'
  <2>1. ModelOK(model, saves["model"], disk.model, opener = "prediction", Stopping)
    BY DEF Ledger, ModelNow
  <2>2. ModelOK(Learns(model), saves["model"], disk.model, opener = "prediction", Stopping)
    <3>1. model \in Model
      BY <2>1 DEF ModelOK
    <3>2. Learns(model) \in Model /\ Learns(model).dirty /\ Learns(model).task = model.task
      BY <3>1, LearnsTyped
    <3>3. QED
      BY <2>1, <3>2 DEF ModelOK
  <2>3. Stopping' = Stopping
    BY DEF Stopping
  <2>4. QED
    BY <2>1, <2>2, <2>3 DEF ModelNow
<1>3. EnergyOK(account', saves["energy"], disk.energy, snap', rating', most')
  BY CountsEnergy DEF Ledger, EnergyNow
<1>4. ASSUME ShownNow
      PROVE  ShownNow'
  <2>1. account' \in Account
    BY DEF AccountOK
  <2>2. ShownOK(account', saves["energy"], disk.energy, published, IsLoaded)
    BY <1>4, <2>1, StoreTyped, CountsShown DEF ShownNow
  <2>3. ShownOK(account', saves["energy"], disk.energy, published', IsLoaded)
    <3>1. CASE published' = published
      BY <2>2, <3>1
    <3>2. CASE Shown(account')
      BY <2>1, <2>2, <3>2, StoreTyped, ShownNext DEF Shown
    <3>3. QED
      BY <3>1, <3>2
  <2>4. IsLoaded' = IsLoaded
    BY DEF IsLoaded
  <2>5. QED
    BY <2>3, <2>4 DEF ShownNow
<1>5. QED
  BY <1>1, <1>2, <1>3, <1>4 DEF Ledger, LedgerKept, EnergyNow

(* A step of one closer is none of another.                                *)
LEMMA GoesOn ==
    ASSUME Life, NEW c \in Closers, NEW next, next # "idle",
           \/ closers' = [closers EXCEPT ![c].pc = next]
           \/ \E o \in BOOLEAN : closers' = [closers EXCEPT ![c] = [pc |-> next, opened |-> o]]
    PROVE  (\A d \in Closers : d # c => closers'[d] = closers[d]) /\ (Stopping => Stopping')
<1>1. closers \in [Closers -> Closer] /\ "stop" \in Closers /\ closers[c] \in Closer
  BY DEF Life, LifeTyped, Closers
<1>2. closers'[c].pc = next /\ \A d \in Closers : d # c => closers'[d] = closers[d]
  <2>1. CASE closers' = [closers EXCEPT ![c].pc = next]
    <3>1. [closers[c] EXCEPT !.pc = next].pc = next
      BY <1>1 DEF Closer
    <3>2. QED
      BY <1>1, <2>1, <3>1
  <2>2. CASE \E o \in BOOLEAN : closers' = [closers EXCEPT ![c] = [pc |-> next, opened |-> o]]
    BY <1>1, <2>2
  <2>3. QED
    BY <2>1, <2>2
<1>3. Stopping => Stopping'
  BY <1>1, <1>2 DEF Stopping
<1>4. QED
  BY <1>2, <1>3

recordsAside == <<model, account, ticking, saves, disk, rating, most, published>>

(* Callers, and the engine.                                                *)
LEMMA CallersLedger ==
    ASSUME Life, Ledger, UNCHANGED recordsAside, UNCHANGED closeVars
    PROVE  LedgerKept
<1>1. /\ (opener' = "prediction") <=> (opener = "prediction")
      /\ IsLoaded' <=> IsLoaded
      /\ Stopping' <=> Stopping
      /\ closers' = closers /\ snap' = snap
  BY DEF closeVars, IsLoaded, Stopping
<1>2. QED
  BY <1>1, AsideLedger DEF recordsAside

(* Setup ends well or badly, and closes begin; none saves anything yet.    *)
LEMMA ClosesLedger ==
    ASSUME Life, Ledger,
           \/ PlatformsAreUp \/ RuntimeStops \/ SetupFails
           \/ \E c \in Closers : AsyncClose(c) \/ BeginClose(c) \/ StopWatcher(c) \/ StopRuntime(c)
    PROVE  LedgerKept
<1> DEFINE Others == /\ \A c \in Closers : closers[c].pc \in {"prediction", "energy"}
                           => closers'[c] = closers[c]
                     /\ Stopping => Stopping'
           Opener == /\ (opener' = "prediction") <=> (opener = "prediction")
                     /\ IsLoaded => IsLoaded'
                     /\ (IsLoaded' => IsLoaded) \/ ~LoadFaultsAreCaught
           Rest == /\ UNCHANGED recordsAside
                   /\ snap'.up => snap.up
                   /\ snap'.status => snap.status /\ snap'.age = snap.age
<1>1. CASE PlatformsAreUp \/ RuntimeStops
  <2>0. /\ closers' = closers
        /\ opener' = opener \/ (opener = "platforms" /\ opener' = "running")
    BY <1>1 DEF PlatformsAreUp, RuntimeStops
  <2>1. Others
    BY <2>0 DEF Stopping
  <2>2. Opener
    BY <2>0 DEF IsLoaded
  <2>3. Rest
    BY <1>1 DEF PlatformsAreUp, RuntimeStops, recordVars, linkVars, recordsAside
  <2>4. QED
    BY <2>1, <2>2, <2>3, AsideLedger DEF recordsAside
<1>2. CASE SetupFails
  <2>1. /\ closers' = [closers EXCEPT !["setup"].pc = "lock"] /\ opener' = "failed"
        /\ \/ opener \in {"status", "platforms"}
           \/ opener = "energy" /\ "uncaught" \in LoadFaults
    BY <1>2 DEF SetupFails, Fails
  <2>2. "setup" \in Closers /\ closers["setup"].pc = "idle"
    BY <2>1 DEF Closers, Life, ClosersOK
  <2>3. Others
    BY <2>1, <2>2, GoesOn
  <2>4. Opener
    BY <2>1 DEF IsLoaded, LoadFaultsAreCaught
  <2>5. Rest
    BY <1>2 DEF SetupFails, recordVars, linkVars, recordsAside
  <2>6. QED
    BY <2>3, <2>4, <2>5, AsideLedger DEF recordsAside
<1>3. ASSUME NEW c \in Closers, AsyncClose(c) \/ BeginClose(c) \/ StopWatcher(c) \/ StopRuntime(c)
      PROVE  LedgerKept
  <2>1. /\ closers[c].pc \notin {"prediction", "energy"}
        /\ \E next \in {"lock", "watcher", "runtime", "prediction"} :
              \/ closers' = [closers EXCEPT ![c].pc = next]
              \/ closers' = [closers EXCEPT ![c] = [pc |-> next, opened |-> opened]]
    BY <1>3 DEF AsyncClose, BeginClose, StopWatcher, StopRuntime, Proceed, After
  <2>2. opened \in BOOLEAN
    BY DEF Life, LifeTyped
  <2>3. Others
    <3>1. PICK next \in {"lock", "watcher", "runtime", "prediction"} :
              \/ closers' = [closers EXCEPT ![c].pc = next]
              \/ closers' = [closers EXCEPT ![c] = [pc |-> next, opened |-> opened]]
      BY <2>1
    <3>2. (\A d \in Closers : d # c => closers'[d] = closers[d]) /\ (Stopping => Stopping')
      BY <2>2, <3>1, GoesOn
    <3>3. QED
      BY <2>1, <3>2
  <2>4. Opener
    BY <1>3 DEF AsyncClose, BeginClose, StopWatcher, StopRuntime, lifeVars, IsLoaded
  <2>5. Rest
    <3>1. UNCHANGED recordsAside /\ snap' \in {snap, Unlinked}
      BY <1>3 DEF AsyncClose, BeginClose, StopWatcher, StopRuntime, recordVars, linkVars, recordsAside
    <3>2. QED
      BY <3>1, UnlinkedOK
  <2>6. QED
    BY <2>3, <2>4, <2>5, AsideLedger DEF recordsAside
<1>4. QED
  BY <1>1, <1>2, <1>3

(* A change of readiness is no change of the status.                       *)
LEMMA ReadySame ==
    ASSUME snap \in Snapshot, Ready \/ Refreshing
    PROVE  snap'.up = snap.up /\ snap'.status = snap.status /\ snap'.age = snap.age
  BY DEF Ready, Refreshing, Snapshot

(* What the connection does keeps the ledger.                              *)
LEMMA LinkLedger ==
    ASSUME Life, Ledger, Link \/ Second
    PROVE  LedgerKept
<1>1. /\ UNCHANGED <<opener, closers, ticking, saves, disk, model, rating, published>>
  BY DEF Link, Second, lifeVars
<1>2. /\ AccountOK(account, snap, rating, most) /\ snap \in Snapshot /\ (snap.status => snap.up)
      /\ rating \in Nat /\ most \in Nat
  BY StoreTyped DEF Ledger, EnergyNow, EnergyOK, Life, LifeTyped, ConnectionOK
<1> DEFINE Counted == /\ AccountOK(account', snap', rating, most') /\ Keeps(account, account')
                      /\ most' >= most
<1>3. Keeps(account, account)
  BY <1>2 DEF Keeps, AccountOK, Account, TotalsSet
<1>4. CASE Link
  <2>1. most' = most
    BY <1>4 DEF Link
  <2>2. CASE LinkUp
    <3>1. snap' = [Unlinked EXCEPT !.up = TRUE] /\ account' = EpochEnded(account)
      BY <2>2 DEF LinkUp
    <3>2. ~snap'.status
      BY <3>1 DEF Unlinked
    <3>3. Counted
      <4>1. /\ AccountOK(EpochEnded(account), snap', rating, most)
            /\ Keeps(account, EpochEnded(account))
        BY <1>2, <3>2, EpochEndedOK
      <4>2. account' = EpochEnded(account) /\ rating' = rating /\ most' = most /\ most >= most
        BY <1>1, <1>2, <2>1, <3>1
      <4>3. QED
        BY <4>1, <4>2
    <3>4. QED
      BY <1>1, <3>3, CountsLedger
  <2>3. ASSUME NEW load \in {None, 1}, Status(load)
        PROVE  LedgerKept
    <3>1. snap' = [snap EXCEPT !.status = TRUE, !.age = 0, !.load = load]
          /\ account' = StatusCame(account)
      BY <2>3 DEF Status
    <3>2. snap'.age = 0 /\ snap'.up = snap.up
      BY <1>2, <3>1 DEF Snapshot
    <3>3. Counted
      <4>1. /\ AccountOK(StatusCame(account), snap', rating, most)
            /\ Keeps(account, StatusCame(account))
        BY <1>2, <3>2, StatusCameOK
      <4>2. account' = StatusCame(account) /\ rating' = rating /\ most' = most /\ most >= most
        BY <1>1, <1>2, <2>1, <3>1
      <4>3. QED
        BY <4>1, <4>2
    <3>4. QED
      BY <1>1, <3>3, CountsLedger
  <2>4. CASE Ready \/ Refreshing \/ LinkLost
    <3>1. account' = account
      BY <2>4 DEF Ready, Refreshing, LinkLost
    <3>2. snap'.up => snap.up /\ (snap'.status => snap.status /\ snap'.age = snap.age)
      BY <1>2, <2>4, UnlinkedOK, ReadySame DEF LinkLost
    <3>3. snap'.status => snap'.up
      BY <1>2, <2>4, UnlinkedOK, ReadySame DEF LinkLost
    <3>4. Counted
      BY <1>2, <1>3, <2>1, <3>1, <3>2, <3>3 DEF AccountOK, Credited
    <3>5. QED
      BY <1>1, <3>4, CountsLedger
  <2>5. QED
    BY <1>4, <2>2, <2>3, <2>4 DEF Link
<1>5. CASE Second
  <2>1. /\ account' = Aged(account) /\ most' = IF snap.up THEN most + rating ELSE most
        /\ snap' = [snap EXCEPT !.age = Min({snap.age + 1, Unreached})]
    BY <1>5 DEF Second
  <2>2. most' >= most
    BY <1>2, <2>1
  <2>3. Counted
    BY <1>2, <2>1, <2>2, AgedOK
  <2>4. QED
    BY <1>1, <2>3, CountsLedger
<1>6. QED
  BY <1>4, <1>5

(* What is observed, and new options, keep the ledger.                     *)
LEMMA WatchLedger ==
    ASSUME Life, Ledger, Watch \/ \E e \in BOOLEAN, r \in Ratings : AsyncOptionsUpdated(e, r)
    PROVE  LedgerKept
<1>1. AccountOK(account, snap, rating, most) /\ most \in Nat
  BY StoreTyped DEF Ledger, EnergyNow, EnergyOK
<1>2. CASE Watch
  <2>1. /\ UNCHANGED <<opener, closers, ticking, saves, disk, snap, rating, most, published>>
        /\ model' \in {model, Learns(model)}
        /\ account' = Observed(account, Seen, Power(rating))
    BY <1>2 DEF Watch, lifeVars, linkVars
  <2>2. AccountOK(account', snap, rating, most) /\ Keeps(account, account')
    BY <1>1, <2>1, ObservedOK
  <2>3. AccountOK(account', snap', rating', most') /\ most' >= most
    BY <1>1, <2>1, <2>2
  <2>4. QED
    BY <2>1, <2>2, <2>3, CountsLedger
<1>3. ASSUME NEW e \in BOOLEAN, NEW r \in Ratings, AsyncOptionsUpdated(e, r)
      PROVE  LedgerKept
  <2> DEFINE b == IF r # rating THEN Configured(account, r > 0) ELSE account
             c == Observed(b, Seen, Power(r))
  <2>1. /\ UNCHANGED <<opener, closers, ticking, saves, disk, model, snap, most>>
        /\ rating' = r /\ account' = c /\ Shown(account')
    BY <1>3 DEF AsyncOptionsUpdated, lifeVars
  <2>2. r \in Nat
    BY CoordinatorParameters
  <2>3. AccountOK(b, snap, r, most) /\ Keeps(account, b)
    <3>1. CASE r # rating
      <4>1. (r > 0) \in BOOLEAN /\ b = Configured(account, r > 0)
        BY <2>2, <3>1
      <4> HIDE DEF b
      <4>2. /\ AccountOK(Configured(account, r > 0), snap, r, most)
            /\ Keeps(account, Configured(account, r > 0))
        BY <1>1, <2>2, <4>1, ConfiguredOK
      <4>3. QED
        BY <4>1, <4>2
    <3>2. CASE r = rating
      <4>1. b = account
        BY <3>2
      <4> HIDE DEF b
      <4>2. Keeps(account, account)
        BY <1>1 DEF AccountOK, Keeps, Account, TotalsSet
      <4>3. QED
        BY <1>1, <3>2, <4>1, <4>2
    <3>3. QED
      BY <3>1, <3>2
  <2> HIDE DEF b
  <2>4. AccountOK(c, snap, r, most) /\ Keeps(b, c)
    BY <2>3, ObservedOK
  <2> HIDE DEF c
  <2>5. Keeps(account, c)
    BY <1>1, <2>3, <2>4, KeepsOn DEF AccountOK
  <2>6. AccountOK(account', snap', rating', most') /\ Keeps(account, account') /\ most' >= most
    BY <1>1, <2>1, <2>4, <2>5
  <2>7. QED
    BY <2>1, <2>6, CountsLedger
<1>4. QED
  BY <1>2, <1>3

(* While the records are being loaded the link is down.                    *)
LEMMA LoadsUnlinked ==
    ASSUME Life, ~IsLoaded
    PROVE  ~snap.up /\ ~snap.status
<1>1. \A c \in Closers : ~Stops(c)
  BY DEF Life, ClosersOK, Stops, IsLoaded
<1>2. QED
  BY <1>1 DEF Life, ClosersOK, ConnectionOK

(* An opened prediction keeps the ledger.                                  *)
LEMMA OpenPredictionLedger ==
    ASSUME Ledger, OpenPrediction
    PROVE  LedgerKept
<1>1. /\ opener = "prediction" /\ opener' = "energy"
      /\ UNCHANGED <<closers, ticking, saves, disk, account, snap, rating, most, published>>
      /\ \/ model' = [model EXCEPT !.learned = disk.model, !.dirty = FALSE]
         \/ model' = [model EXCEPT !.failed = TRUE]
  BY DEF OpenPrediction, linkVars
<1>2. ModelOK(model, saves["model"], disk.model, TRUE, Stopping)
  BY <1>1 DEF Ledger, ModelNow
<1>3. model' \in Model /\ (~model'.failed => model'.learned = disk.model)
  BY <1>1, <1>2 DEF ModelOK, Model
<1>4. Stopping' = Stopping /\ IsLoaded' = IsLoaded /\ (opener' = "prediction") = FALSE
  BY <1>1 DEF Stopping, IsLoaded
<1>5. ModelOK(model', saves["model"], disk.model, FALSE, Stopping)
  BY <1>2, <1>3 DEF ModelOK
<1>6. ModelNow'
  BY <1>1, <1>4, <1>5 DEF ModelNow
<1>7. StoreOK' /\ EnergyNow'
  BY <1>1, <1>4 DEF Ledger, StoreOK, EnergyNow
<1>8. ShownNow => ShownNow'
  BY <1>1, <1>4 DEF ShownNow
<1>9. QED
  BY <1>6, <1>7, <1>8 DEF LedgerKept, Ledger

(* A loaded account keeps the ledger.                                      *)
LEMMA OpenEnergyLedger ==
    ASSUME Life, Ledger, OpenEnergy
    PROVE  LedgerKept
<1>1. /\ opener = "energy" /\ opener' = "status" /\ Shown(account')
      /\ UNCHANGED <<closers, ticking, saves, disk, model, snap, rating, most>>
      /\ account' = Loaded(account, disk.energy) \/ account' = LoadCaught(account)
  BY DEF OpenEnergy, Enters, linkVars
<1>2. ~IsLoaded /\ IsLoaded' /\ ~snap.up /\ ~snap.status
  BY <1>1, LoadsUnlinked DEF IsLoaded
<1>3. /\ saves["energy"] = None /\ disk.energy \in {None} \cup TotalsSet
      /\ AccountOK(account, snap, rating, most) /\ account \in Account
      /\ disk.energy # None => disk.energy.kwh <= most
  BY <1>2, StoreTyped DEF Ledger, StoreOK, EnergyNow, EnergyOK
<1>4. AccountOK(account', snap, rating, most)
  BY <1>1, <1>2, <1>3, LoadedOK, LoadCaughtOK
<1>5. EnergyNow'
  BY <1>1, <1>4 DEF Ledger, EnergyNow, EnergyOK
<1>6. StoreOK'
  BY <1>1, <1>2 DEF Ledger, StoreOK
<1>7. ModelNow'
  <2>1. Stopping' = Stopping /\ (opener' = "prediction") = (opener = "prediction")
    BY <1>1 DEF Stopping
  <2>2. QED
    BY <1>1, <2>1 DEF Ledger, ModelNow
<1>8. ASSUME ShownNow
      PROVE  ShownNow'
  <2>1. /\ published \in Nat /\ account.committed = None /\ ~account.loadFailed
        /\ disk.energy # None => disk.energy.kwh >= published
        /\ disk.energy = None => published = 0
    BY <1>2, <1>8 DEF ShownNow, ShownOK
  <2>2. ShownOK(account', None, disk.energy, published, TRUE)
    <3>1. CASE account' = Loaded(account, disk.energy) /\ disk.energy = None
      <4>1. account' = account /\ account.totals.kwh \in Nat
        BY <1>3, <3>1, NumbersOf DEF Loaded
      <4>2. QED
        BY <2>1, <3>1, <4>1 DEF ShownOK
    <3>2. CASE account' = Loaded(account, disk.energy) /\ disk.energy # None
      <4>1. /\ account'.committed = disk.energy.kwh /\ account'.totals = disk.energy
            /\ account'.loadFailed = account.loadFailed
        BY <1>2, <1>3, <3>2, LoadedOK
      <4>2. disk.energy.kwh \in Nat
        BY <1>3, <3>2, NumbersOf
      <4>3. QED
        BY <2>1, <3>2, <4>1, <4>2 DEF ShownOK
    <3>3. CASE account' = LoadCaught(account)
      <4>1. account'.loadFailed /\ account'.committed = None
        BY <1>3, <2>1, <3>3, LoadCaughtOK
      <4>2. QED
        BY <2>1, <4>1 DEF ShownOK
    <3>4. QED
      BY <1>1, <3>1, <3>2, <3>3
  <2>3. ShownOK(account', None, disk.energy, published', TRUE)
    BY <1>1, <1>3, <1>4, <2>2, ShownNext DEF Shown, AccountOK
  <2>4. QED
    BY <1>1, <1>2, <1>3, <2>3 DEF ShownNow
<1>9. QED
  BY <1>5, <1>6, <1>7, <1>8 DEF LedgerKept, Ledger

(* The first observation keeps the ledger.                                 *)
LEMMA OpenObservedLedger ==
    ASSUME Life, Ledger, OpenObserved
    PROVE  LedgerKept
<1>1. /\ opener = "status" /\ opener' = "platforms" /\ ticking' = TRUE
      /\ model' = [model EXCEPT !.task = "waiting"]
      /\ account' = Observed(account, Seen, Power(rating))
      /\ UNCHANGED <<closers, saves, disk, snap, rating, most, published>>
  BY DEF OpenObserved, linkVars
<1>2. IsLoaded /\ IsLoaded' /\ Stopping' = Stopping
  BY <1>1 DEF IsLoaded, Stopping
<1>3. AccountOK(account', snap, rating, most) /\ Keeps(account, account')
  BY <1>1, ObservedOK DEF Ledger, EnergyNow, EnergyOK
<1>4. StoreOK'
  BY <1>1, <1>2 DEF Ledger, StoreOK
<1>5. ModelNow'
  <2>1. ModelOK(model, saves["model"], disk.model, FALSE, Stopping)
    BY <1>1 DEF Ledger, ModelNow
  <2>2. /\ model' \in Model /\ model'.failed = model.failed /\ model'.dirty = model.dirty
        /\ model'.learned = model.learned
    BY <1>1, <2>1 DEF ModelOK, Model
  <2>3. ModelOK(model', saves["model"], disk.model, FALSE, Stopping)
    BY <2>1, <2>2 DEF ModelOK
  <2>4. QED
    BY <1>1, <1>2, <2>3 DEF ModelNow
<1>6. EnergyNow'
  BY <1>1, <1>3 DEF Ledger, EnergyNow, EnergyOK
<1>7. ASSUME ShownNow
      PROVE  ShownNow'
  <2>1. ShownOK(account, saves["energy"], disk.energy, published, TRUE)
    BY <1>2, <1>7 DEF ShownNow
  <2>2. ShownOK(account', saves["energy"], disk.energy, published, TRUE)
    BY <1>3, <2>1, StoreTyped, CountsShown DEF AccountOK
  <2>3. QED
    BY <1>1, <1>2, <2>2 DEF ShownNow
<1>8. QED
  BY <1>4, <1>5, <1>6, <1>7 DEF LedgerKept, Ledger

(* What was not saved is lost with the process; what was shown was saved.  *)
LEMMA RestartLedger ==
    ASSUME Ledger, Restart
    PROVE  LedgerKept
<1>1. /\ opener' = "prediction" /\ model' = NewModel /\ ticking' = FALSE
      /\ account' = NewAccount(rating > 0) /\ saves' = [r \in Records |-> None]
      /\ snap' = Unlinked /\ UNCHANGED <<disk, rating, most, published>>
  BY DEF Restart
<1>2. saves'["model"] = None /\ saves'["energy"] = None /\ saves' \in [Records -> Slots]
  BY <1>1 DEF Records, Slots
<1>3. ~IsLoaded'
  BY <1>1 DEF IsLoaded
<1>4. rating \in Nat /\ most \in Nat /\ (rating > 0) \in BOOLEAN
  BY StoreTyped
<1>5. StoreOK'
  BY <1>1, <1>2, <1>3 DEF Ledger, StoreOK, Records
<1>6. ModelNow'
  <2>1. NewModel \in Model /\ NewModel.task = "none"
    BY DEF NewModel, Model
  <2>2. disk.model \in Nat /\ disk' = disk
    BY <1>1, StoreTyped
  <2>3. QED
    BY <1>1, <1>2, <2>1, <2>2 DEF ModelNow, ModelOK
<1>7. /\ AccountOK(account', snap', rating, most) /\ account'.totals.kwh = 0
      /\ account'.committed = None /\ ~account'.loadFailed
  BY <1>1, <1>4, NewAccountOK, UnlinkedOK DEF NewAccount
<1>8. EnergyNow'
  BY <1>1, <1>2, <1>7 DEF Ledger, EnergyNow, EnergyOK
<1>9. ShownNow => ShownNow'
  BY <1>1, <1>2, <1>3, <1>7 DEF ShownNow, ShownOK
<1>10. QED
  BY <1>5, <1>6, <1>8, <1>9 DEF LedgerKept, Ledger

(* Saving.  A step changes what is known of one record.                    *)
LEMMA StoreSets ==
    ASSUME StoreOK, NEW r \in Records, NEW x \in Slots, saves' = [saves EXCEPT ![r] = x],
           disk' \in [model : Nat, energy : {None} \cup TotalsSet],
           ticking' \in BOOLEAN, ticking' => ticking, opener' = opener,
           x # None /\ x.by # "task" => x.by \in Closers /\ closers'[x.by].pc = StepOf(r),
           \A q \in Records : q # r =>
              \A c \in Closers : closers[c].pc = StepOf(q) => closers'[c] = closers[c],
           r = "energy" /\ ~IsLoaded => x = None
    PROVE  StoreOK' /\ saves'[r] = x /\ \A q \in Records : q # r => saves'[q] = saves[q]
<1>1. /\ saves' \in [Records -> Slots] /\ saves'[r] = x
      /\ \A q \in Records : q # r => saves'[q] = saves[q]
  BY DEF StoreOK
<1>2. \A q \in Records : saves'[q] # None /\ saves'[q].by # "task" =>
         saves'[q].by \in Closers /\ closers'[saves'[q].by].pc = StepOf(q)
  <2> SUFFICES ASSUME NEW q \in Records, saves'[q] # None, saves'[q].by # "task"
               PROVE  saves'[q].by \in Closers /\ closers'[saves'[q].by].pc = StepOf(q)
    OBVIOUS
  <2>1. CASE q = r
    BY <1>1, <2>1
  <2>2. CASE q # r
    <3>1. saves[q].by \in Closers /\ closers[saves[q].by].pc = StepOf(q)
      BY <1>1, <2>2 DEF StoreOK
    <3>2. QED
      BY <1>1, <2>2, <3>1
  <2>3. QED
    BY <2>1, <2>2
<1>3. IsLoaded' <=> IsLoaded
  BY DEF IsLoaded
<1>4. ~IsLoaded' => saves'["energy"] = None
  BY <1>1, <1>3 DEF StoreOK, Records
<1>5. QED
  BY <1>1, <1>2, <1>3, <1>4 DEF StoreOK

(* A save under way is told apart from none.                               *)
LEMMA SaveIsNotNone ==
    /\ \A x \in SaveOf(Nat) : x # None
    /\ \A t \in TotalsSet : t # None
  BY NoneIsNoValue DEF SaveOf, TotalsSet

(* A save of the model is a save.                                          *)
LEMMA ModelSave ==
    ASSUME NEW by \in Closers \cup {"task"}, NEW record \in Nat
    PROVE  LET x == Save("model", by, record)
           IN  x \in SaveOf(Nat) /\ x \in Slots /\ x # None /\ x.by = by /\ x.record = record
<1> DEFINE x == Save("model", by, record)
<1>1. x \in SaveOf(Nat) /\ x.by = by /\ x.record = record
  BY DEF Save, SaveOf
<1>2. x # None
  BY <1>1, NoneIsNoValue DEF SaveOf
<1>3. QED
  BY <1>1, <1>2 DEF Slots

(* A save of the totals is a save.                                         *)
LEMMA EnergySave ==
    ASSUME NEW by \in Closers \cup {"task"}, NEW record \in TotalsSet
    PROVE  LET x == Save("energy", by, record)
           IN  x \in SaveOf(TotalsSet) /\ x \in Slots /\ x.by = by /\ x.record = record
  BY DEF Save, SaveOf, Slots

(* A step of the model alone keeps the ledger.                             *)
LEMMA ModelStep ==
    ASSUME Ledger, UNCHANGED <<opener, account, snap, rating, most, published>>,
           saves'["energy"] = saves["energy"], disk'.energy = disk.energy, StoreOK', ModelNow'
    PROVE  LedgerKept
<1>1. EnergyNow' /\ (ShownNow => ShownNow')
  BY DEF Ledger, EnergyNow, ShownNow, IsLoaded
<1>2. QED
  BY <1>1 DEF Ledger, LedgerKept

(* A step of the energy alone keeps the ledger.                            *)
LEMMA EnergyStep ==
    ASSUME Ledger, UNCHANGED <<opener, model>>, Stopping => Stopping',
           saves'["model"] = saves["model"], disk'.model = disk.model,
           StoreOK', EnergyNow', ShownNow => ShownNow'
    PROVE  LedgerKept
<1>1. ModelNow'
  BY DEF Ledger, ModelNow, ModelOK
<1>2. QED
  BY <1>1 DEF Ledger, LedgerKept

(* A save of the model that begins keeps the ledger.                       *)
LEMMA SaveModelLedger ==
    ASSUME Life, Ledger, SaveModel
    PROVE  LedgerKept
<1> DEFINE saving == model.dirty /\ ~model.failed
           x == IF saving THEN Save("model", "task", model.learned) ELSE None
           kept == model.dirty /\ ~saving
<1>1. /\ model.task = "waiting" /\ saves["model"] = None
      /\ model' = [model EXCEPT !.event = FALSE, !.dirty = kept]
      /\ saves' = [saves EXCEPT !["model"] = x]
      /\ UNCHANGED <<opener, closers, account, ticking, disk, snap, rating, most, published>>
  BY DEF SaveModel, lifeVars, linkVars
<1>2. /\ ModelOK(model, None, disk.model, opener = "prediction", Stopping)
      /\ model \in Model /\ saving \in BOOLEAN /\ kept \in BOOLEAN
  BY <1>1 DEF Ledger, ModelNow, ModelOK, Model
<1>3. x \in {None} \cup SaveOf(Nat) /\ x \in Slots /\ (saving => x # None /\ x.record = model.learned)
      /\ (x # None => x.by = "task") /\ (~saving => x = None)
  <2>1. model.learned \in Nat /\ "task" \in Closers \cup {"task"}
    BY <1>2 DEF Model
  <2> DEFINE y == Save("model", "task", model.learned)
  <2>2. y \in SaveOf(Nat) /\ y \in Slots /\ y # None /\ y.by = "task" /\ y.record = model.learned
    BY <2>1, ModelSave
  <2>3. x = IF saving THEN y ELSE None
    OBVIOUS
  <2> HIDE DEF x, y
  <2>4. QED
    BY <2>2, <2>3 DEF Slots
<1>4. "model" \in Records /\ "energy" \in Records /\ "energy" # "model"
  BY DEF Records
<1>5. disk' \in [model : Nat, energy : {None} \cup TotalsSet] /\ ticking' \in BOOLEAN /\ StoreOK
  BY <1>1 DEF Ledger, StoreOK
<1> HIDE DEF x
<1>6. StoreOK' /\ saves'["model"] = x /\ saves'["energy"] = saves["energy"]
  BY <1>1, <1>3, <1>4, <1>5, StoreSets
<1>7. /\ model' \in Model /\ model'.dirty = kept /\ model'.failed = model.failed
      /\ model'.learned = model.learned
  BY <1>1, <1>2 DEF Model
<1>8. ModelOK(model', x, disk.model, opener = "prediction", Stopping)
  BY <1>1, <1>2, <1>3, <1>7 DEF ModelOK
<1>9. ModelNow'
  BY <1>1, <1>6, <1>8 DEF ModelNow, Stopping
<1>10. QED
  BY <1>1, <1>6, <1>9, ModelStep

(* A save of the totals that begins keeps the ledger.                      *)
LEMMA CheckpointLedger ==
    ASSUME Life, Ledger, Checkpoint
    PROVE  LedgerKept
<1> DEFINE x == Save("energy", "task", account.totals)
<1>1. /\ ticking /\ saves["energy"] = None /\ Saves(account)
      /\ saves' = [saves EXCEPT !["energy"] = x]
      /\ UNCHANGED <<opener, closers, account, model, ticking, disk, snap, rating, most, published>>
  BY DEF Checkpoint, lifeVars, linkVars
<1>2. account \in Account /\ account.totals \in TotalsSet /\ account.totals.kwh \in Nat
  BY StoreTyped, NumbersOf
<1>3. x \in SaveOf(TotalsSet) /\ x \in Slots /\ x.by = "task" /\ x.record = account.totals
  BY <1>2, EnergySave
<1>4. "model" \in Records /\ "energy" \in Records /\ "energy" # "model"
  BY DEF Records
<1>5. /\ disk' \in [model : Nat, energy : {None} \cup TotalsSet] /\ ticking' \in BOOLEAN
      /\ StoreOK /\ IsLoaded
  BY <1>1 DEF Ledger, StoreOK
<1> HIDE DEF x
<1>6. StoreOK' /\ saves'["energy"] = x /\ saves'["model"] = saves["model"]
  BY <1>1, <1>3, <1>4, <1>5, StoreSets
<1>7. EnergyNow'
  BY <1>1, <1>2, <1>3, <1>6 DEF Ledger, EnergyNow, EnergyOK, AccountOK, Credited
<1>8. ASSUME ShownNow
      PROVE  ShownNow'
  <2>1. ~account.loadFailed /\ IsLoaded' /\ IsLoaded
    BY <1>1, <1>5 DEF Saves, IsLoaded
  <2>2. ShownOK(account, None, disk.energy, published, TRUE)
    BY <1>1, <1>8, <2>1 DEF ShownNow
  <2>3. ShownOK(account, x, disk.energy, published, TRUE)
    BY <1>2, <1>3, <2>1, <2>2, NumbersOf DEF ShownOK
  <2>4. QED
    BY <1>1, <1>6, <2>1, <2>3 DEF ShownNow
<1>9. Stopping' = Stopping
  BY <1>1 DEF Stopping
<1>10. QED
  BY <1>1, <1>6, <1>7, <1>8, <1>9, EnergyStep

(* Writing the model leaves the totals on the disk.                        *)
LEMMA DiskModel ==
    ASSUME disk \in [model : Nat, energy : {None} \cup TotalsSet], NEW v \in Nat,
           disk' = [disk EXCEPT !["model"] = v]
    PROVE  /\ disk' \in [model : Nat, energy : {None} \cup TotalsSet]
           /\ disk'.model = v /\ disk'.energy = disk.energy
  OBVIOUS

(* Writing the totals leaves the model on the disk.                        *)
LEMMA DiskEnergy ==
    ASSUME disk \in [model : Nat, energy : {None} \cup TotalsSet], NEW v \in TotalsSet,
           disk' = [disk EXCEPT !["energy"] = v]
    PROVE  /\ disk' \in [model : Nat, energy : {None} \cup TotalsSet]
           /\ disk'.energy = v /\ disk'.model = disk.model
  OBVIOUS

(* A save that was written is still of its record.                         *)
LEMMA Written ==
    ASSUME NEW S, NEW x \in SaveOf(S)
    PROVE  LET y == [x EXCEPT !.stage = "written"]
           IN  y \in SaveOf(S) /\ y.by = x.by /\ y.record = x.record
  BY DEF SaveOf

(* The model on the disk keeps the ledger.                                 *)
LEMMA WriteModelLedger ==
    ASSUME Life, Ledger, WriteRecord("model")
    PROVE  LedgerKept
<1> DEFINE save == saves["model"]
           x == [save EXCEPT !.stage = "written"]
<1>1. /\ save # None /\ saves' = [saves EXCEPT !["model"] = x]
      /\ disk' = [disk EXCEPT !["model"] = save.record] \/ disk' = disk
      /\ UNCHANGED <<opener, closers, model, account, ticking, snap, rating, most, published>>
  BY DEF WriteRecord, lifeVars, linkVars
<1>2. save \in SaveOf(Nat) /\ save.record \in Nat
  BY <1>1, StoreTyped DEF SaveOf
<1>3. x \in SaveOf(Nat) /\ x.by = save.by /\ x.record = save.record
  BY <1>2, Written
<1>4. x # None /\ x \in Slots
  BY <1>3, SaveIsNotNone DEF Slots
<1>5. /\ disk' \in [model : Nat, energy : {None} \cup TotalsSet]
      /\ disk'.energy = disk.energy /\ disk'.model \in Nat
  <2>1. disk \in [model : Nat, energy : {None} \cup TotalsSet]
    BY DEF Ledger, StoreOK
  <2>2. QED
    BY <1>1, <1>2, <2>1, DiskModel
<1>6. "model" \in Records /\ "energy" \in Records /\ "energy" # "model" /\ StoreOK
  BY DEF Records, Ledger
<1> HIDE DEF x
<1>7. x.by # "task" => x.by \in Closers /\ closers'[x.by].pc = StepOf("model")
  BY <1>1, <1>3, <1>6 DEF StoreOK
<1>8. StoreOK' /\ saves'["model"] = x /\ saves'["energy"] = saves["energy"]
  <2>1. ticking' \in BOOLEAN /\ (ticking' => ticking)
    BY <1>1, <1>6 DEF StoreOK
  <2>2. QED
    BY <1>1, <1>4, <1>5, <1>6, <1>7, <2>1, StoreSets
<1>9. ModelOK(model, save, disk.model, opener = "prediction", Stopping)
  BY DEF Ledger, ModelNow
<1> HIDE DEF save
<1>10. ModelOK(model, x, disk'.model, opener = "prediction", Stopping)
  BY <1>1, <1>3, <1>4, <1>5, <1>9 DEF ModelOK
<1>11. ModelNow'
  BY <1>1, <1>8, <1>10 DEF ModelNow, Stopping
<1>12. QED
  BY <1>1, <1>5, <1>8, <1>11, ModelStep

(* The totals on the disk keep the ledger.                                 *)
LEMMA WriteEnergyLedger ==
    ASSUME Life, Ledger, WriteRecord("energy")
    PROVE  LedgerKept
<1> DEFINE save == saves["energy"]
           x == [save EXCEPT !.stage = "written"]
<1>1. /\ save # None /\ saves' = [saves EXCEPT !["energy"] = x]
      /\ disk' = [disk EXCEPT !["energy"] = save.record] \/ disk' = disk
      /\ UNCHANGED <<opener, closers, model, account, ticking, snap, rating, most, published>>
  BY DEF WriteRecord, lifeVars, linkVars
<1>2. save \in SaveOf(TotalsSet) /\ save.record \in TotalsSet /\ save.record.kwh \in Nat
  BY <1>1, StoreTyped, NumbersOf
<1>3. x \in SaveOf(TotalsSet) /\ x.by = save.by /\ x.record = save.record
  BY <1>2, Written
<1>4. x \in Slots
  BY <1>3 DEF Slots
<1>5. /\ disk' \in [model : Nat, energy : {None} \cup TotalsSet] /\ disk'.model = disk.model
      /\ disk'.energy = save.record \/ disk'.energy = disk.energy
  <2>1. disk \in [model : Nat, energy : {None} \cup TotalsSet]
    BY DEF Ledger, StoreOK
  <2>2. QED
    BY <1>1, <1>2, <2>1, DiskEnergy
<1>6. "model" \in Records /\ "energy" \in Records /\ "energy" # "model" /\ StoreOK
  BY DEF Records, Ledger
<1> HIDE DEF x
<1>7. x.by # "task" => x.by \in Closers /\ closers'[x.by].pc = StepOf("energy")
  BY <1>1, <1>3, <1>6 DEF StoreOK
<1>8. StoreOK' /\ saves'["energy"] = x /\ saves'["model"] = saves["model"]
  <2>1. ticking' \in BOOLEAN /\ (ticking' => ticking)
    BY <1>1, <1>6 DEF StoreOK
  <2>2. ~IsLoaded => FALSE
    BY <1>1, <1>6 DEF StoreOK
  <2>3. QED
    BY <1>1, <1>4, <1>5, <1>6, <1>7, <2>1, <2>2, StoreSets
<1>9. EnergyOK(account, save, disk.energy, snap, rating, most)
  BY DEF Ledger, EnergyNow
<1>10. ASSUME ShownNow
       PROVE  ShownOK(account, save, disk.energy, published, IsLoaded)
  BY <1>10 DEF ShownNow
<1> HIDE DEF save
<1>11. EnergyOK(account, x, disk'.energy, snap, rating, most)
  BY <1>1, <1>2, <1>3, <1>5, <1>9 DEF EnergyOK
<1>12. EnergyNow'
  BY <1>1, <1>8, <1>11 DEF EnergyNow
<1>13. ShownNow => ShownNow'
  <2> SUFFICES ASSUME ShownNow
               PROVE  ShownNow'
    OBVIOUS
  <2>1. ShownOK(account, save, disk.energy, published, IsLoaded)
    BY <1>10
  <2>2. save.record # None
    BY <1>2, SaveIsNotNone
  <2>3. ShownOK(account, x, disk'.energy, published, IsLoaded)
    BY <1>1, <1>3, <1>5, <2>1, <2>2 DEF ShownOK
  <2>4. IsLoaded' <=> IsLoaded
    BY <1>1 DEF IsLoaded
  <2>5. QED
    BY <1>1, <1>8, <2>3, <2>4 DEF ShownNow
<1>14. Stopping' = Stopping
  BY <1>1 DEF Stopping
<1>15. QED
  BY <1>1, <1>5, <1>8, <1>12, <1>13, <1>14, EnergyStep

(* A close goes on; what the other record awaits stays where it is.        *)
LEMMA ProceedOthers ==
    ASSUME Life, NEW r \in Records, NEW c \in Closers, closers[c].pc = StepOf(r),
           NEW raised, Proceed(c, raised)
    PROVE  /\ \A q \in Records : q # r =>
                 \A d \in Closers : closers[d].pc = StepOf(q) => closers'[d] = closers[d]
           /\ Stopping => Stopping'
<1> DEFINE next == After(closers[c].pc, raised)
<1>1. closers' = [closers EXCEPT ![c].pc = next] /\ next # "idle"
  BY DEF Proceed, After, StepOf
<1> HIDE DEF next
<1>2. (\A d \in Closers : d # c => closers'[d] = closers[d]) /\ (Stopping => Stopping')
  BY <1>1, GoesOn
<1>3. \A q \in Records : q # r => StepOf(q) # StepOf(r)
  BY DEF Records, StepOf
<1>4. QED
  BY <1>2, <1>3

(* The end of a save moves only the closer that waits for it.              *)
LEMMA FinishedOthers ==
    ASSUME Life, StoreOK, NEW r \in Records, saves[r] # None, Finished(r)
    PROVE  /\ \A q \in Records : q # r =>
                 \A d \in Closers : closers[d].pc = StepOf(q) => closers'[d] = closers[d]
           /\ Stopping => Stopping'
<1>1. CASE saves[r].by = "task"
  BY <1>1 DEF Finished, Stopping
<1>2. CASE saves[r].by # "task"
  <2>1. saves[r].by \in Closers /\ closers[saves[r].by].pc = StepOf(r)
    BY <1>2 DEF StoreOK
  <2>2. Proceed(saves[r].by, FALSE)
    BY <1>2 DEF Finished
  <2>3. QED
    BY <2>1, <2>2, ProceedOthers
<1>3. QED
  BY <1>1, <1>2

(* A verified model keeps the ledger.                                      *)
LEMMA ModelVerifiedLedger ==
    ASSUME Life, Ledger, ModelVerified
    PROVE  LedgerKept
<1> DEFINE save == saves["model"]
           failed == model.failed \/ (~Stopping /\ disk.model # save.record)
<1>1. /\ save # None /\ saves' = [saves EXCEPT !["model"] = None] /\ Finished("model")
      /\ model' = [model EXCEPT !.failed = failed]
      /\ UNCHANGED <<opener, account, ticking, disk, snap, rating, most, published>>
  BY DEF ModelVerified, linkVars
<1>2. "model" \in Records /\ "energy" \in Records /\ "energy" # "model" /\ StoreOK
  BY DEF Records, Ledger
<1>3. /\ \A q \in Records : q # "model" =>
            \A d \in Closers : closers[d].pc = StepOf(q) => closers'[d] = closers[d]
      /\ Stopping => Stopping'
  BY <1>1, <1>2, FinishedOthers
<1>4. StoreOK' /\ saves'["model"] = None /\ saves'["energy"] = saves["energy"]
  <2>1. /\ ticking' \in BOOLEAN /\ (ticking' => ticking) /\ None \in Slots
        /\ disk' \in [model : Nat, energy : {None} \cup TotalsSet]
    BY <1>1, <1>2 DEF StoreOK, Slots
  <2>2. QED
    BY <1>1, <1>2, <1>3, <2>1, StoreSets
<1>5. ModelOK(model, save, disk.model, opener = "prediction", Stopping) /\ model \in Model
  BY DEF Ledger, ModelNow, ModelOK
<1>6. failed \in BOOLEAN
  BY <1>5 DEF Model
<1>7. ~failed => ~model.failed /\ (Stopping \/ disk.model = save.record)
  OBVIOUS
<1> HIDE DEF save, failed
<1>8. /\ model' \in Model /\ model'.failed = failed /\ model'.dirty = model.dirty
      /\ model'.learned = model.learned /\ model'.task = model.task
  BY <1>1, <1>5, <1>6 DEF Model
<1>9. ModelOK(model', None, disk.model, opener = "prediction", Stopping \/ Stopping')
  BY <1>1, <1>5, <1>7, <1>8 DEF ModelOK
<1>10. ModelNow'
  BY <1>1, <1>3, <1>4, <1>9 DEF ModelNow, ModelOK
<1>11. QED
  BY <1>1, <1>4, <1>10, ModelStep

(* Verified totals keep the ledger.                                        *)
LEMMA EnergyVerifiedLedger ==
    ASSUME Life, Ledger, EnergyVerified
    PROVE  LedgerKept
<1> DEFINE save == saves["energy"]
<1>1. /\ save # None /\ saves' = [saves EXCEPT !["energy"] = None] /\ Finished("energy")
      /\ account' = EnergyRead(account, save) /\ Shown(account')
      /\ UNCHANGED <<opener, model, ticking, disk, snap, rating, most>>
  BY DEF EnergyVerified, linkVars
<1>2. "model" \in Records /\ "energy" \in Records /\ "energy" # "model" /\ StoreOK
  BY DEF Records, Ledger
<1>3. /\ \A q \in Records : q # "energy" =>
            \A d \in Closers : closers[d].pc = StepOf(q) => closers'[d] = closers[d]
      /\ Stopping => Stopping'
  BY <1>1, <1>2, FinishedOthers
<1>4. StoreOK' /\ saves'["energy"] = None /\ saves'["model"] = saves["model"]
  <2>1. /\ ticking' \in BOOLEAN /\ (ticking' => ticking) /\ None \in Slots
        /\ disk' \in [model : Nat, energy : {None} \cup TotalsSet]
    BY <1>1, <1>2 DEF StoreOK, Slots
  <2>2. QED
    BY <1>1, <1>2, <1>3, <2>1, StoreSets
<1>5. /\ save \in SaveOf(TotalsSet) /\ save.record \in TotalsSet /\ save.record.kwh \in Nat
      /\ save.record # None /\ account \in Account /\ account.totals.kwh \in Nat
  BY <1>1, StoreTyped, NumbersOf, SaveIsNotNone
<1>6. EnergyOK(account, save, disk.energy, snap, rating, most)
      /\ AccountOK(account, snap, rating, most)
  BY DEF Ledger, EnergyNow, EnergyOK
<1>7. \/ account' = account
      \/ account' = SaveVerified(account, save.record) /\ disk.energy = save.record
      \/ account' = SaveFailed(account)
  BY <1>1 DEF EnergyRead
<1>8. ASSUME ShownNow
      PROVE  ShownOK(account, save, disk.energy, published, IsLoaded)
  BY <1>8 DEF ShownNow
<1> HIDE DEF save
<1>9. Keeps(account, account)
  BY <1>5 DEF Keeps
<1>10. AccountOK(account', snap, rating, most)
  <2>1. CASE account' = account
    BY <1>6, <2>1
  <2>2. CASE account' = SaveVerified(account, save.record)
    BY <1>5, <1>6, <2>2, SavedOK
  <2>3. CASE account' = SaveFailed(account)
    BY <1>5, <1>6, <2>3, SavedOK
  <2>4. QED
    BY <1>7, <2>1, <2>2, <2>3
<1>11. EnergyNow'
  BY <1>1, <1>4, <1>6, <1>10 DEF EnergyNow, EnergyOK
<1>12. ShownNow => ShownNow'
  <2> SUFFICES ASSUME ShownNow
               PROVE  ShownNow'
    OBVIOUS
  <2>1. ShownOK(account, save, disk.energy, published, IsLoaded)
    BY <1>8
  <2>2. ShownOK(account', None, disk.energy, published, IsLoaded)
    <3>1. ASSUME Keeps(account, account'), account' \in Account
          PROVE  ShownOK(account', None, disk.energy, published, IsLoaded)
      <4>1. ShownOK(account', save, disk.energy, published, IsLoaded)
        BY <1>5, <2>1, <3>1, CountsShown
      <4>2. IsLoaded /\ ~account.loadFailed /\ account'.loadFailed = account.loadFailed
        BY <1>1, <2>1, <3>1 DEF ShownOK, Keeps
      <4>3. QED
        BY <4>1, <4>2 DEF ShownOK
    <3>2. CASE account' = account
      BY <1>5, <1>9, <3>1, <3>2
    <3>3. CASE account' = SaveFailed(account)
      <4>1. Keeps(account, account')
        BY <1>5, <1>6, <3>3, SavedOK
      <4>2. QED
        BY <1>10, <3>1, <4>1 DEF AccountOK
    <3>4. CASE account' = SaveVerified(account, save.record) /\ disk.energy = save.record
      <4>1. /\ account'.totals = account.totals /\ account'.committed = save.record.kwh
            /\ account'.loadFailed = account.loadFailed
        BY <1>5, <1>6, <3>4, SavedOK
      <4>2. QED
        BY <1>1, <1>5, <2>1, <3>4, <4>1 DEF ShownOK
    <3>5. QED
      BY <1>7, <3>2, <3>3, <3>4
  <2>3. ShownOK(account', None, disk.energy, published', IsLoaded)
    BY <1>1, <1>10, <2>2, StoreTyped, ShownNext DEF Shown, AccountOK
  <2>4. IsLoaded' <=> IsLoaded
    BY <1>1 DEF IsLoaded
  <2>5. QED
    BY <1>1, <1>4, <2>3, <2>4 DEF ShownNow
<1>13. QED
  BY <1>1, <1>3, <1>4, <1>11, <1>12, EnergyStep

(* Closing the prediction keeps the ledger.                                *)
LEMMA ClosePredictionLedger ==
    ASSUME Life, Ledger, NEW c \in Closers, ClosePrediction(c)
    PROVE  LedgerKept
<1> DEFINE save == saves["model"]
           dirty == model.dirty \/ save # None
           saving == dirty /\ ~model.failed
           rest == dirty /\ ~saving
           x == IF saving THEN Save("model", c, model.learned) ELSE None
<1>1. /\ closers[c].pc = "prediction" /\ saves' = [saves EXCEPT !["model"] = x]
      /\ disk' = disk \/ (save # None /\ disk' = [disk EXCEPT !["model"] = save.record])
      /\ model' = [model EXCEPT !.task = "none", !.dirty = rest]
      /\ IF saving THEN closers' = closers ELSE Proceed(c, FALSE)
      /\ UNCHANGED <<opener, account, ticking, snap, rating, most, published>>
  BY DEF ClosePrediction, Interrupted, linkVars
<1>2. "model" \in Records /\ "energy" \in Records /\ "energy" # "model" /\ StoreOK
  BY DEF Records, Ledger
<1>3. /\ \A q \in Records : q # "model" =>
            \A d \in Closers : closers[d].pc = StepOf(q) => closers'[d] = closers[d]
      /\ Stopping => Stopping'
  <2>1. closers[c].pc = StepOf("model")
    BY <1>1 DEF StepOf
  <2>2. CASE saving
    BY <1>1, <2>2 DEF Stopping
  <2>3. CASE ~saving
    BY <1>1, <1>2, <2>1, <2>3, ProceedOthers
  <2>4. QED
    BY <2>2, <2>3
<1>4. ModelOK(model, save, disk.model, opener = "prediction", Stopping) /\ model \in Model
      /\ save \in {None} \cup SaveOf(Nat) /\ model.learned \in Nat /\ model.dirty \in BOOLEAN
  BY StoreTyped DEF Ledger, ModelNow, Model
<1>5. x \in {None} \cup SaveOf(Nat) /\ x \in Slots /\ (saving => x # None /\ x.record = model.learned)
      /\ (x # None => x.by = c) /\ (~saving => x = None)
  <2> DEFINE y == Save("model", c, model.learned)
  <2>1. y \in SaveOf(Nat) /\ y \in Slots /\ y # None /\ y.by = c /\ y.record = model.learned
    BY <1>4, ModelSave
  <2>2. x = IF saving THEN y ELSE None
    OBVIOUS
  <2> HIDE DEF x, y, saving
  <2>3. QED
    BY <2>1, <2>2 DEF Slots
<1>6. /\ disk' \in [model : Nat, energy : {None} \cup TotalsSet]
      /\ disk'.energy = disk.energy /\ disk'.model \in Nat /\ (save = None => disk' = disk)
  <2>1. disk \in [model : Nat, energy : {None} \cup TotalsSet]
    BY <1>2 DEF StoreOK
  <2>2. save # None => save.record \in Nat
    BY <1>4 DEF SaveOf
  <2>3. QED
    BY <1>1, <2>1, <2>2, DiskModel
<1>7. saving \in BOOLEAN /\ rest \in BOOLEAN /\ (~saving => model.failed \/ (~model.dirty /\ save = None))
      /\ (rest => model.failed)
  BY <1>4
<1> HIDE DEF x, saving, dirty, rest
<1>8. x # None /\ x.by # "task" => x.by \in Closers /\ closers'[x.by].pc = StepOf("model")
  BY <1>1, <1>5 DEF StepOf
<1>9. StoreOK' /\ saves'["model"] = x /\ saves'["energy"] = saves["energy"]
  <2>1. ticking' \in BOOLEAN /\ (ticking' => ticking)
    BY <1>1, <1>2 DEF StoreOK
  <2>2. QED
    BY <1>1, <1>2, <1>3, <1>5, <1>6, <1>8, <2>1, StoreSets
<1>10. opener # "prediction"
  BY <1>1 DEF Life, ClosersOK
<1>11. /\ model' \in Model /\ model'.failed = model.failed /\ model'.dirty = rest
       /\ model'.learned = model.learned
  BY <1>1, <1>4, <1>7 DEF Model
<1> HIDE DEF save
<1>12. ModelOK(model', x, disk'.model, FALSE, Stopping \/ Stopping')
  <2>1. CASE saving
    BY <1>4, <1>5, <1>6, <1>11, <2>1 DEF ModelOK
  <2>2. CASE ~saving
    BY <1>4, <1>5, <1>6, <1>7, <1>10, <1>11, <2>2 DEF ModelOK
  <2>3. QED
    BY <2>1, <2>2
<1>13. ModelNow'
  BY <1>1, <1>3, <1>9, <1>10, <1>12 DEF ModelNow, ModelOK
<1>14. QED
  BY <1>1, <1>6, <1>9, <1>13, ModelStep

(* Closing the account keeps the ledger.                                   *)
LEMMA CloseEnergyLedger ==
    ASSUME Life, Ledger, NEW c \in Closers, CloseEnergy(c)
    PROVE  LedgerKept
<1> DEFINE save == saves["energy"]
           saving == Saves(account)
           x == IF saving THEN Save("energy", c, account.totals) ELSE None
<1>1. /\ closers[c].pc = "energy" /\ saves' = [saves EXCEPT !["energy"] = x]
      /\ disk' = disk \/ (save # None /\ disk' = [disk EXCEPT !["energy"] = save.record])
      /\ account' = Broken(account) /\ ticking' = FALSE
      /\ IF saving THEN closers' = closers ELSE Proceed(c, FALSE)
      /\ UNCHANGED <<opener, model, snap, rating, most, published>>
  BY DEF CloseEnergy, Interrupted, linkVars
<1>2. "model" \in Records /\ "energy" \in Records /\ "energy" # "model" /\ StoreOK
  BY DEF Records, Ledger
<1>3. /\ \A q \in Records : q # "energy" =>
            \A d \in Closers : closers[d].pc = StepOf(q) => closers'[d] = closers[d]
      /\ Stopping => Stopping'
  <2>1. closers[c].pc = StepOf("energy")
    BY <1>1 DEF StepOf
  <2>2. CASE saving
    BY <1>1, <2>2 DEF Stopping
  <2>3. CASE ~saving
    BY <1>1, <1>2, <2>1, <2>3, ProceedOthers
  <2>4. QED
    BY <2>2, <2>3
<1>4. /\ account \in Account /\ account.totals \in TotalsSet /\ account.totals.kwh \in Nat
      /\ save \in {None} \cup SaveOf(TotalsSet)
      /\ save # None => /\ save.record \in TotalsSet /\ save.record # None
                        /\ save.record.kwh \in Nat
      /\ EnergyOK(account, save, disk.energy, snap, rating, most)
      /\ AccountOK(account, snap, rating, most)
  BY StoreTyped, NumbersOf, SaveIsNotNone DEF Ledger, EnergyNow, EnergyOK
<1>5. x \in {None} \cup SaveOf(TotalsSet) /\ x \in Slots
      /\ (x # None => saving /\ x.record = account.totals /\ x.by = c)
  <2> DEFINE y == Save("energy", c, account.totals)
  <2>1. y \in SaveOf(TotalsSet) /\ y \in Slots /\ y.by = c /\ y.record = account.totals
    BY <1>4, EnergySave
  <2>2. x = IF saving THEN y ELSE None
    OBVIOUS
  <2> HIDE DEF x, y, saving
  <2>3. QED
    BY <2>1, <2>2 DEF Slots
<1>6. /\ disk' \in [model : Nat, energy : {None} \cup TotalsSet] /\ disk'.model = disk.model
      /\ disk'.energy = disk.energy \/ (save # None /\ disk'.energy = save.record)
  <2>1. disk \in [model : Nat, energy : {None} \cup TotalsSet]
    BY <1>2 DEF StoreOK
  <2>2. QED
    BY <1>1, <1>4, <2>1, DiskEnergy
<1>7. IsLoaded /\ (IsLoaded' <=> IsLoaded)
  BY <1>1 DEF Life, ClosersOK, IsLoaded
<1>8. saving => ~account.loadFailed
  BY DEF Saves
<1> HIDE DEF x, saving
<1>9. x # None /\ x.by # "task" => x.by \in Closers /\ closers'[x.by].pc = StepOf("energy")
  BY <1>1, <1>5 DEF StepOf
<1>10. StoreOK' /\ saves'["energy"] = x /\ saves'["model"] = saves["model"]
  <2>1. ticking' \in BOOLEAN /\ (ticking' => ticking)
    BY <1>1
  <2>2. ~("energy" = "energy" /\ ~IsLoaded)
    BY <1>7
  <2>3. opener' = opener /\ saves' = [saves EXCEPT !["energy"] = x] /\ x \in Slots
        /\ disk' \in [model : Nat, energy : {None} \cup TotalsSet] /\ StoreOK
    BY <1>1, <1>2, <1>5, <1>6
  <2>4. /\ StoreOK' /\ saves'["energy"] = x
        /\ \A q \in Records : q # "energy" => saves'[q] = saves[q]
    BY <1>2, <1>3, <1>9, <2>1, <2>2, <2>3, StoreSets
  <2>5. QED
    BY <1>2, <2>4
<1>11. AccountOK(account', snap, rating, most) /\ Keeps(account, account')
  BY <1>1, <1>4, BrokenOK
<1>12. ASSUME ShownNow
       PROVE  ShownOK(account, save, disk.energy, published, TRUE)
  BY <1>7, <1>12 DEF ShownNow
<1> HIDE DEF save
<1>13. EnergyOK(account', x, disk'.energy, snap, rating, most)
  <2>1. disk'.energy # None => disk'.energy \in TotalsSet /\ disk'.energy.kwh <= most
    BY <1>4, <1>6 DEF EnergyOK
  <2>2. x # None => x \in SaveOf(TotalsSet) /\ x.record.kwh <= most
    BY <1>4, <1>5 DEF AccountOK, Credited
  <2>3. QED
    BY <1>11, <2>1, <2>2 DEF EnergyOK
<1>14. EnergyNow'
  BY <1>1, <1>10, <1>13 DEF EnergyNow
<1>15. ShownNow => ShownNow'
  <2> SUFFICES ASSUME ShownNow
               PROVE  ShownNow'
    OBVIOUS
  <2>1. ShownOK(account, save, disk.energy, published, TRUE)
    BY <1>12
  <2>2. ShownOK(account, save, disk'.energy, published, TRUE)
    BY <1>4, <1>6, <2>1 DEF ShownOK
  <2>3. ShownOK(account, x, disk'.energy, published, TRUE)
    <3>1. x # None => /\ ~account.loadFailed /\ x.record.kwh = account.totals.kwh
      BY <1>5, <1>8
    <3>2. QED
      BY <1>4, <2>2, <3>1, NumbersOf DEF ShownOK
  <2>4. ShownOK(account', x, disk'.energy, published, TRUE)
    BY <1>4, <1>5, <1>11, <2>3, CountsShown DEF AccountOK
  <2>5. QED
    BY <1>1, <1>7, <1>10, <2>4 DEF ShownNow
<1>16. QED
  BY <1>1, <1>3, <1>6, <1>10, <1>14, <1>15, EnergyStep

-----------------------------------------------------------------------------
(* The invariant, and the steps.                                           *)

Invariant == BooksNow /\ Life /\ Ledger
InvariantKept == Invariant' /\ (LoadFaultsAreCaught /\ ShownNow => ShownNow')

(* What touches no command leaves the books as they are.                   *)
LEMMA BooksSame ==
    ASSUME BooksNow, UNCHANGED commandVars
    PROVE  BooksKept /\ Subsides(goals, goals') /\ goals' = goals
  BY DEF commandVars, BooksNow, BooksKept, Books, BooksTyped, Subsides

(* What callers and their goals do keeps the invariant.                    *)
LEMMA CallersStep ==
    ASSUME Invariant,
           \/ \E goal \in Asked : AsyncCommand(goal[1], goal[2])
           \/ \E k \in DOMAIN callers : Resume(k) \/ TimesOut(k) \/ CallerCancelled(k)
           \/ \E i \in DOMAIN goals : DeadlinePasses(i) \/ GoalEnds(i)
    PROVE  InvariantKept
<1>1. BooksNow /\ Life /\ Ledger
  BY DEF Invariant
<1>2. BooksKept /\ (Subsides(goals, goals') \/ \E goal \in Asked : AsyncCommand(goal[1], goal[2]))
  BY <1>1, AsyncCommandBooks, ResumeBooks, TimesOutBooks, CallerCancelledBooks,
     DeadlinePassesBooks, GoalEndsBooks
<1>3. UNCHANGED closeVars /\ UNCHANGED recordsAside
  BY DEF AsyncCommand, Resume, TimesOut, CallerCancelled, DeadlinePasses, GoalEnds, closeVars,
         recordsAside, lifeVars, recordVars, linkVars
<1>4. Life'
  BY <1>1, <1>2, <1>3, LifeCallers
<1>5. LedgerKept
  BY <1>1, <1>3, CallersLedger
<1>6. QED
  BY <1>2, <1>4, <1>5 DEF Invariant, InvariantKept, BooksKept, BooksNow, LedgerKept

(* Setup, its failure and a request to close keep the invariant.           *)
LEMMA SetupStep ==
    ASSUME Invariant,
           \/ OpenPrediction \/ OpenEnergy \/ OpenObserved \/ PlatformsAreUp \/ SetupFails
           \/ \E c \in Closers : AsyncClose(c)
    PROVE  InvariantKept
<1>1. BooksNow /\ Life /\ Ledger
  BY DEF Invariant
<1>2. BooksKept
  <2>1. UNCHANGED commandVars
    BY DEF OpenPrediction, OpenEnergy, OpenObserved, PlatformsAreUp, SetupFails, AsyncClose
  <2>2. QED
    BY <1>1, <2>1, BooksSame
<1>3. Life'
  BY <1>1, OpensLife, AsksLife
<1>4. LedgerKept
  BY <1>1, OpenPredictionLedger, OpenEnergyLedger, OpenObservedLedger, ClosesLedger
<1>5. QED
  BY <1>2, <1>3, <1>4 DEF Invariant, InvariantKept, BooksKept, BooksNow, LedgerKept

(* A step of a close keeps the invariant.                                  *)
LEMMA CloseStep ==
    ASSUME Invariant, RuntimeStops \/ \E c \in Closers : Close(c)
    PROVE  InvariantKept
<1>1. BooksNow /\ Life /\ Ledger
  BY DEF Invariant
<1>2. CASE RuntimeStops
  <2>1. BooksKept
    BY <1>1, <1>2, BooksSame DEF RuntimeStops
  <2>2. QED
    BY <1>1, <1>2, <2>1, RuntimeStopsLife, ClosesLedger
       DEF Invariant, InvariantKept, BooksKept, BooksNow, LedgerKept
<1>3. ASSUME NEW c \in Closers, Close(c)
      PROVE  InvariantKept
  <2>1. BooksKept
    <3>1. CASE BeginClose(c)
      <4>1. /\ Subsides(goals, CancelPending(goals)) /\ goals' = CancelPending(goals)
            /\ pending' = pending /\ callers' = callers
        BY <1>1, <3>1, CancelPendingSubsides DEF BeginClose, BooksNow
      <4>2. Books(CancelPending(goals), pending, callers)
        BY <1>1, <4>1, SubsidesBooks DEF BooksNow
      <4>3. QED
        BY <4>1, <4>2 DEF BooksKept
    <3>2. CASE StopWatcher(c) \/ StopRuntime(c) \/ ClosePrediction(c) \/ CloseEnergy(c)
      BY <1>1, <3>2, BooksSame DEF StopWatcher, StopRuntime, ClosePrediction, CloseEnergy
    <3>3. QED
      BY <1>3, <3>1, <3>2 DEF Close
  <2>2. Life'
    <3>1. CASE BeginClose(c)
      BY <1>1, <3>1, BeginCloseLife
    <3>2. CASE StopRuntime(c)
      BY <1>1, <3>2, StopRuntimeLife
    <3>3. CASE StopWatcher(c) \/ ClosePrediction(c) \/ CloseEnergy(c)
      <4>1. /\ closers[c].pc \in {"watcher", "prediction", "energy"}
            /\ closers' = closers \/ \E raised \in BOOLEAN : Proceed(c, raised)
            /\ UNCHANGED <<opened, opener, connection, snap, goals>>
        BY <3>3 DEF StopWatcher, ClosePrediction, CloseEnergy, commandVars, linkVars
      <4>2. CASE closers' = closers
        <5>1. UNCHANGED closeVars /\ Subsides(goals, goals')
          BY <1>1, <3>3, <4>1, <4>2, BooksSame
             DEF closeVars, StopWatcher, ClosePrediction, CloseEnergy
        <5>2. QED
          BY <1>1, <5>1, LifeCallers
      <4>3. CASE \E raised \in BOOLEAN : Proceed(c, raised)
        BY <1>1, <4>1, <4>3, ProceedLife
      <4>4. QED
        BY <4>1, <4>2, <4>3
    <3>4. QED
      BY <1>3, <3>1, <3>2, <3>3 DEF Close
  <2>3. LedgerKept
    BY <1>1, <1>3, ClosesLedger, ClosePredictionLedger, CloseEnergyLedger DEF Close
  <2>4. QED
    BY <2>1, <2>2, <2>3 DEF Invariant, InvariantKept, BooksKept, BooksNow, LedgerKept
<1>4. QED
  BY <1>2, <1>3

(* A step of a save keeps the invariant.                                   *)
LEMMA SavingStep ==
    ASSUME Invariant, SaveModel \/ Checkpoint \/ Saving
    PROVE  InvariantKept
<1>1. BooksNow /\ Life /\ Ledger
  BY DEF Invariant
<1>2. /\ UNCHANGED commandVars /\ UNCHANGED <<opened, opener, connection, snap>>
      /\ closers' = closers \/ \E r \in Records : saves[r] # None /\ Finished(r)
  BY DEF SaveModel, Checkpoint, Saving, WriteRecord, ModelVerified, EnergyVerified, lifeVars,
         linkVars, Records
<1>3. BooksKept /\ Subsides(goals, goals') /\ goals' = goals
  BY <1>1, <1>2, BooksSame
<1>4. Life'
  <2>1. CASE closers' = closers
    BY <1>1, <1>2, <1>3, <2>1, LifeCallers DEF closeVars
  <2>2. ASSUME NEW r \in Records, saves[r] # None, Finished(r), closers' # closers
        PROVE  Life'
    <3>1. saves[r].by # "task" /\ Proceed(saves[r].by, FALSE)
      BY <2>2 DEF Finished
    <3>2. saves[r].by \in Closers /\ closers[saves[r].by].pc \in {"watcher", "prediction", "energy"}
      BY <1>1, <2>2, <3>1 DEF Ledger, StoreOK, StepOf
    <3>3. QED
      BY <1>1, <1>2, <1>3, <3>1, <3>2, ProceedLife
  <2>3. QED
    BY <1>2, <2>1, <2>2
<1>5. LedgerKept
  BY <1>1, SaveModelLedger, CheckpointLedger, WriteModelLedger, WriteEnergyLedger,
     ModelVerifiedLedger, EnergyVerifiedLedger DEF Saving
<1>6. QED
  BY <1>3, <1>4, <1>5 DEF Invariant, InvariantKept, BooksKept, BooksNow, LedgerKept

(* Observations, options and time keep the invariant.                      *)
LEMMA ObservingStep ==
    ASSUME Invariant,
           \/ Watch \/ \E e \in BOOLEAN, r \in Ratings : AsyncOptionsUpdated(e, r)
           \/ Link \/ Second
    PROVE  InvariantKept
<1>1. BooksNow /\ Life /\ Ledger
  BY DEF Invariant
<1>2. CASE Watch
  <2>1. BooksKept /\ Subsides(goals, goals')
    BY <1>1, <1>2, BooksSame DEF Watch
  <2>2. UNCHANGED closeVars
    BY <1>2 DEF Watch, closeVars, lifeVars, linkVars
  <2>3. Life'
    BY <1>1, <2>1, <2>2, LifeCallers
  <2>4. QED
    BY <1>1, <1>2, <2>1, <2>3, WatchLedger
       DEF Invariant, InvariantKept, BooksKept, BooksNow, LedgerKept
<1>3. ASSUME NEW e \in BOOLEAN, NEW r \in Ratings, AsyncOptionsUpdated(e, r)
      PROVE  InvariantKept
  <2>1. /\ goals' = goals \/ goals' = CancelPending(goals)
        /\ pending' = pending /\ callers' = callers /\ UNCHANGED closeVars
    BY <1>3 DEF AsyncOptionsUpdated, closeVars, lifeVars
  <2>2. Subsides(goals, goals')
    BY <1>1, <2>1, CancelPendingSubsides DEF BooksNow, Books, BooksTyped, Subsides
  <2>3. BooksKept
    <3>1. Books(goals', pending, callers)
      BY <1>1, <2>2, SubsidesBooks DEF BooksNow
    <3>2. QED
      BY <2>1, <3>1 DEF BooksKept
  <2>4. Life'
    BY <1>1, <2>1, <2>2, LifeCallers
  <2>5. LedgerKept
    BY <1>1, <1>3, WatchLedger
  <2>6. QED
    BY <2>3, <2>4, <2>5 DEF Invariant, InvariantKept, BooksKept, BooksNow, LedgerKept
<1>4. CASE Link \/ Second
  <2>1. BooksKept
    BY <1>1, <1>4, BooksSame DEF Link, Second
  <2>2. QED
    BY <1>1, <1>4, <2>1, LinksLife, LinkLedger
       DEF Invariant, InvariantKept, BooksKept, BooksNow, LedgerKept
<1>5. QED
  BY <1>2, <1>3, <1>4

(* Empty books are in order.                                               *)
LEMMA NoBooks ==
    ASSUME NEW ps, ps = [c \in Controls |-> None]
    PROVE  Books(<<>>, ps, <<>>)
<1>1. /\ <<>> \in Seq(Goal) /\ <<>> \in Seq(Caller) /\ DOMAIN <<>> = {}
      /\ ps \in [Controls -> {None} \cup Nat] /\ \A c \in Controls : ps[c] = None
  OBVIOUS
<1>2. QED
  BY <1>1 DEF Books, BooksTyped, CallersOK, PendingOK, PursuedOK, NewestOK

(* A restart keeps the invariant.                                          *)
LEMMA RestartStep ==
    ASSUME Invariant, Restart
    PROVE  InvariantKept
<1>1. BooksKept
  BY NoBooks DEF Restart, BooksKept
<1>2. QED
  BY <1>1, RestartLife, RestartLedger
     DEF Invariant, InvariantKept, BooksKept, BooksNow, LedgerKept

(* What changes nothing keeps the invariant.                               *)
LEMMA StutterStep ==
    ASSUME Invariant, UNCHANGED coordinatorVars
    PROVE  InvariantKept
<1>1. BooksKept /\ UNCHANGED closeVars /\ UNCHANGED recordsAside /\ Subsides(goals, goals')
  BY BooksSame DEF Invariant, coordinatorVars, closeVars, recordsAside, lifeVars, recordVars,
     linkVars
<1>2. Life' /\ LedgerKept
  BY <1>1, LifeCallers, CallersLedger DEF Invariant
<1>3. QED
  BY <1>1, <1>2 DEF Invariant, InvariantKept, BooksKept, BooksNow, LedgerKept

(* Every step keeps the invariant.                                         *)
LEMMA InvariantStep ==
    ASSUME Invariant, [CoordinatorNext]_coordinatorVars
    PROVE  InvariantKept
  BY CallersStep, SetupStep, CloseStep, SavingStep, ObservingStep, RestartStep, StutterStep
     DEF CoordinatorNext

(* The invariant holds before setup.                                       *)
LEMMA InvariantInit ==
    ASSUME CoordinatorInit
    PROVE  Invariant /\ ShownNow
<1>1. BooksNow
  BY NoBooks DEF CoordinatorInit, BooksNow
<1>2. closers \in [Closers -> Closer] /\ \A c \in Closers : closers[c].pc = "idle"
  BY IdleLife DEF CoordinatorInit
<1>3. Life
  <2>1. opened = FALSE /\ connection = "none" /\ snap = Unlinked
    BY DEF CoordinatorInit
  <2>2. LifeTyped /\ ClosersOK /\ ConnectionOK
    BY <1>2, <2>1, UnlinkedOK DEF LifeTyped, ClosersOK, ConnectionOK, Begun, Holding
  <2>3. BusRelinquished /\ QuietAfterClose
    BY <1>2 DEF BusRelinquished, QuietAfterClose
  <2>4. QED
    BY <2>2, <2>3 DEF Life
<1>4. /\ opener = "prediction" /\ model = NewModel /\ ticking = FALSE
      /\ account = NewAccount(rating > 0) /\ saves = [r \in Records |-> None]
      /\ disk = [model |-> 0, energy |-> None]
      /\ snap = Unlinked /\ most = 0 /\ published = 0 /\ rating \in Nat
  BY CoordinatorParameters DEF CoordinatorInit
<1>5. saves["model"] = None /\ saves["energy"] = None /\ saves \in [Records -> Slots]
  BY <1>4 DEF Records, Slots
<1>6. disk \in [model : Nat, energy : {None} \cup TotalsSet] /\ disk.model = 0 /\ disk.energy = None
  BY <1>4
<1>7. StoreOK
  BY <1>4, <1>5, <1>6 DEF StoreOK, Records, IsLoaded
<1>8. ModelNow
  <2>1. NewModel \in Model /\ NewModel.task = "none"
    BY DEF NewModel, Model
  <2>2. QED
    BY <1>4, <1>5, <1>6, <2>1 DEF ModelNow, ModelOK
<1>9. /\ AccountOK(account, snap, rating, most) /\ account.totals.kwh = 0
      /\ account.committed = None /\ ~account.loadFailed
  <2>1. (rating > 0) \in BOOLEAN /\ 0 \in Nat
    BY <1>4
  <2>2. QED
    BY <1>4, <2>1, NewAccountOK, UnlinkedOK DEF NewAccount
<1>10. EnergyNow
  BY <1>5, <1>6, <1>9 DEF EnergyNow, EnergyOK
<1>11. ShownNow
  BY <1>4, <1>5, <1>6, <1>9 DEF ShownNow, ShownOK, IsLoaded
<1>12. QED
  BY <1>1, <1>3, <1>7, <1>8, <1>10, <1>11 DEF Invariant, Ledger

(* Everything below follows from this: the books of the callers, the order *)
(* in which an entry is closed, and the ledger of what is counted, learned *)
(* and saved, are in order in every reachable state.                       *)
THEOREM CoordinatorInvariance == FairCoordinatorSpec => []Invariant
<1>1. CoordinatorInit => Invariant
  BY InvariantInit
<1>2. Invariant /\ [CoordinatorNext]_coordinatorVars => Invariant'
  BY InvariantStep DEF InvariantKept
<1>3. QED
  BY <1>1, <1>2, PTL DEF FairCoordinatorSpec, CoordinatorSpec

(* One closer at most is past the lock.                                    *)
LEMMA OneHolds ==
    ASSUME Life
    PROVE  Cardinality(Holding) <= 1
<1>1. \A c, d \in Holding : c = d
  BY DEF Life, ClosersOK, Holding
<1>2. CASE Holding = {}
  BY <1>2, FS_EmptySet
<1>3. CASE Holding # {}
  <2>1. PICK c \in Holding : TRUE
    BY <1>3
  <2>2. Holding = {c}
    BY <1>1, <2>1
  <2>3. QED
    BY <2>2, FS_Singleton
<1>4. QED
  BY <1>2, <1>3

(* What the runs check of a state follows from the invariant.              *)
LEMMA InvariantIsSound ==
    ASSUME Invariant
    PROVE  CoordinatorInv
<1>1. BooksNow /\ Life /\ Ledger
  BY DEF Invariant
<1>2. CoordinatorTypeOK
  <2>1. \A c \in Controls : pending[c] # None =>
           pending[c] \in DOMAIN goals /\ goals[pending[c]].control = c
    BY <1>1 DEF BooksNow, Books, PendingOK
  <2>2. \A k \in DOMAIN callers : Waits(k) => callers[k].goal \in DOMAIN goals
    BY <1>1 DEF BooksNow, Books, CallersOK, Waits
  <2>3. Cardinality(Holding) <= 1
    BY <1>1, OneHolds
  <2>4. account.previous # None => account.previous.age \in 0..Unreached
    <3>1. account \in Account
      BY <1>1, StoreTyped
    <3>2. QED
      BY <3>1 DEF Account, Sample
  <2>5. account.committed # None => account.committed = account.record.kwh
    BY <1>1 DEF Ledger, EnergyNow, EnergyOK, AccountOK
  <2>6. QED
    BY <2>1, <2>2, <2>3, <2>4, <2>5 DEF CoordinatorTypeOK
<1>3. NoOrphanGoal
  <2>1. \A c \in Controls : pending[c] # None => Waiters(pending[c]) # {}
    <3> SUFFICES ASSUME NEW c \in Controls, pending[c] # None
                 PROVE  Waiters(pending[c]) # {}
      OBVIOUS
    <3>1. PICK k \in DOMAIN callers : WaitsFor(callers, k, pending[c])
      BY <1>1 DEF BooksNow, Books, PendingOK
    <3>2. k \in Waiters(pending[c])
      BY <3>1 DEF Waiters, WaitsFor
    <3>3. QED
      BY <3>2
  <2>2. ASSUME NEW i \in DOMAIN goals, Active(goals[i])
        PROVE  Waiters(i) # {} /\ pending[goals[i].control] = i
    <3>1. goals[i] \in Goal /\ i \in Nat
      BY <1>1 DEF BooksNow, Books, BooksTyped
    <3>2. goals[i].control \in Controls /\ pending[goals[i].control] = i /\ i # None
      BY <1>1, <2>2, <3>1, NoneIsNoValue DEF Goal, BooksNow, Books, PursuedOK, Active
    <3>3. QED
      BY <2>1, <3>2
  <2>3. QED
    BY <2>1, <2>2 DEF NoOrphanGoal
<1>4. QED
  BY <1>1, <1>2, <1>3 DEF CoordinatorInv, Life

(* CoordinatorInv: nothing is pursued that nobody waits for, nor after a   *)
(* close has begun, and no close saves or ends before the bus is given up. *)
THEOREM ClosingIsOrderly == FairCoordinatorSpec => []CoordinatorInv
<1>1. Invariant => CoordinatorInv
  BY InvariantIsSound
<1>2. QED
  BY <1>1, CoordinatorInvariance, PTL

(* What was counted and learned is accounted for by the invariant.         *)
LEMMA InvariantAccounts ==
    ASSUME Invariant
    PROVE  NothingInvented /\ LearnedIsAccountedFor
<1>1. Ledger
  BY DEF Invariant
<1>2. NothingInvented
  BY <1>1 DEF Ledger, EnergyNow, EnergyOK, AccountOK, Credited, NothingInvented
<1>3. LearnedIsAccountedFor
  <2> SUFFICES ASSUME opener \notin {"prediction", "failed"}, ~model.failed, ~Stopping
               PROVE  \/ disk.model = model.learned
                      \/ model.dirty
                      \/ saves["model"] # None /\ saves["model"].record = model.learned
    BY DEF LearnedIsAccountedFor
  <2>1. model.dirty \/ model.learned = IF saves["model"] = None THEN disk.model
                                       ELSE saves["model"].record
    BY <1>1 DEF Ledger, ModelNow, ModelOK
  <2>2. QED
    BY <2>1
<1>4. QED
  BY <1>2, <1>3

(* Whatever faults there are, the estimate never exceeds what was drawn    *)
(* while the spa was observed, and what was learned is on disk, on its way *)
(* there, or will be tried again.                                          *)
THEOREM NothingIsMadeUp == FairCoordinatorSpec => [](NothingInvented /\ LearnedIsAccountedFor)
<1>1. Invariant => NothingInvented /\ LearnedIsAccountedFor
  BY InvariantAccounts
<1>2. QED
  BY <1>1, CoordinatorInvariance, PTL

(* BooksAreHonest: besides, a published total never falls, provided that   *)
(* every error of reading the energy record is caught where it is read.    *)
THEOREM BooksStayHonest ==
    ASSUME LoadFaultsAreCaught
    PROVE  FairCoordinatorSpec => []BooksAreHonest
<1>1. CoordinatorInit => Invariant /\ ShownNow
  BY InvariantInit
<1>2. Invariant /\ ShownNow /\ [CoordinatorNext]_coordinatorVars => (Invariant /\ ShownNow)'
  BY InvariantStep DEF InvariantKept
<1>3. Invariant /\ ShownNow => BooksAreHonest
  <2> SUFFICES ASSUME Invariant, ShownNow
               PROVE  BooksAreHonest
    OBVIOUS
  <2>1. PublishedNeverFalls
    BY DEF ShownNow, ShownOK, PublishedNeverFalls
  <2>2. QED
    BY <2>1, InvariantAccounts DEF BooksAreHonest
<1>4. QED
  BY <1>1, <1>2, <1>3, PTL DEF FairCoordinatorSpec, CoordinatorSpec

(* A caller that leaves changes no other caller.                           *)
LEMMA LeavesAlone ==
    ASSUME BooksNow, NEW k \in DOMAIN callers, NEW pc \in {"returned", "cancelled"}, Leave(k, pc)
    PROVE  /\ DOMAIN callers' = DOMAIN callers /\ callers'[k].pc = pc
           /\ \A n \in DOMAIN callers : n # k => callers'[n] = callers[n]
<1>1. callers' = [callers EXCEPT ![k] = [pc |-> pc, goal |-> None]]
  BY DEF Leave
<1>2. QED
  BY <1>1

(* OthersGoalsSurvive: a caller that goes away takes nobody else's goal    *)
(* with it, neither the one it shared nor the one that replaced its own.   *)
THEOREM OthersAreLeftAlone == FairCoordinatorSpec => OthersGoalsSurvive
<1> DEFINE Survives ==
        \A k \in DOMAIN callers :
            (Waits(k) /\ k \in DOMAIN callers' /\ callers'[k].pc = "cancelled") =>
            \A i \in DOMAIN goals :
                Active(goals[i]) /\ Waiters(i) # {k} => goals'[i] = goals[i]
<1>1. Invariant /\ [CoordinatorNext]_coordinatorVars => [Survives]_coordinatorVars
  <2> SUFFICES ASSUME Invariant, CoordinatorNext,
                      NEW k \in DOMAIN callers, Waits(k), k \in DOMAIN callers',
                      callers'[k].pc = "cancelled",
                      NEW i \in DOMAIN goals, Active(goals[i]), Waiters(i) # {k}
               PROVE  goals'[i] = goals[i]
    OBVIOUS
  <2>1. BooksNow /\ callers[k].pc = "waiting"
    BY DEF Invariant, Waits
  <2>2. callers'[k] # callers[k]
    BY <2>1
  <2>3. PICK n \in DOMAIN callers : CallerCancelled(n)
    <3>1. ASSUME NEW goal \in Asked, AsyncCommand(goal[1], goal[2])
          PROVE  FALSE
      <4>1. \E w : callers' = Append(callers, w)
        BY <3>1 DEF AsyncCommand, Refused, Join, Request, Call
      <4>2. callers \in Seq(Caller)
        BY <2>1 DEF BooksNow, Books, BooksTyped
      <4>3. callers'[k] = callers[k]
        BY <4>1, <4>2
      <4>4. QED
        BY <2>2, <4>3
    <3>2. ASSUME NEW n \in DOMAIN callers, Resume(n) \/ TimesOut(n)
          PROVE  FALSE
      <4>1. Leave(n, "returned")
        BY <3>2 DEF Resume, TimesOut
      <4>2. callers'[n].pc = "returned" /\ (n # k => callers'[k] = callers[k])
        BY <2>1, <4>1, LeavesAlone
      <4>3. QED
        BY <2>2, <4>2
    <3>3. CASE Restart
      <4>1. callers' = <<>>
        BY <3>3 DEF Restart
      <4>2. QED
        BY <4>1
    <3>4. CASE callers' = callers
      BY <2>2, <3>4
    <3>5. \/ \E goal \in Asked : AsyncCommand(goal[1], goal[2])
          \/ \E n \in DOMAIN callers : Resume(n) \/ TimesOut(n) \/ CallerCancelled(n)
          \/ Restart \/ callers' = callers
      BY DEF CoordinatorNext, Close, Saving, DeadlinePasses, GoalEnds, OpenPrediction, OpenEnergy,
             OpenObserved, PlatformsAreUp, SetupFails, AsyncClose, BeginClose, StopWatcher,
             StopRuntime, ClosePrediction, CloseEnergy, RuntimeStops, SaveModel, Checkpoint,
             WriteRecord, ModelVerified, EnergyVerified, Watch, AsyncOptionsUpdated, Link, Second,
             commandVars
    <3>6. QED
      BY <3>1, <3>2, <3>3, <3>4, <3>5
  <2>4. n = k
    <3>1. Leave(n, "cancelled")
      BY <2>3 DEF CallerCancelled
    <3>2. n # k => callers'[k] = callers[k]
      BY <2>1, <3>1, LeavesAlone
    <3>3. QED
      BY <2>2, <3>2
  <2>5. QED
    BY <2>1, <2>3, <2>4, CallerCancelledBooks DEF Active
<1>2. QED
  BY <1>1, CoordinatorInvariance, PTL DEF FairCoordinatorSpec, CoordinatorSpec, OthersGoalsSurvive
=============================================================================
