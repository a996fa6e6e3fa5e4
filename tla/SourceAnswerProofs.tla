--------------------------- MODULE SourceAnswerProofs ---------------------------
(***************************************************************************)
(* Theorems about the answers of SourceCall, for any sources, limits and   *)
(* lists of items the fork returns: the parent accepts what its worker     *)
(* wrote, the caller gets what it asked for, and what is left out is told. *)
(***************************************************************************)
EXTENDS SourceCallProofs, FiniteSetTheorems

-----------------------------------------------------------------------------
(* Induction along a list, and the functions defined along one.            *)

\* What holds of 0 and of the successor of every number it holds of, up to n,
\* holds up to n.
LEMMA Along ==
    ASSUME NEW n \in Nat, NEW T, 0 \in T,
           \A i \in 1..n : i - 1 \in T => i \in T
    PROVE  \A i \in 0..n : i \in T
<1> SUFFICES ASSUME NEW k \in 0..n, k \notin T
             PROVE  FALSE
  OBVIOUS
<1> DEFINE Missing == {i \in 0..n : i \notin T}
           Below == OpToRel(<, Nat)
<1>1. Missing \subseteq Nat /\ Missing # {}
  OBVIOUS
<1>2. PICK least \in Missing : \A i \in Missing : <<i, least>> \notin Below
  <2>1. IsWellFoundedOn(Below, Nat)
    BY NatLessThanWellFounded
  <2> HIDE DEF Below, Missing
  <2> QED
    BY <1>1, <2>1, WFMin
<1>3. \A i \in Missing : ~(i < least)
  BY <1>1, <1>2 DEF OpToRel
<1>4. least \in 1..n
  OBVIOUS
<1>5. least - 1 \in 0..n /\ least - 1 \in T
  BY <1>3, <1>4
<1> QED
  BY <1>4, <1>5

\* A function that starts at base and makes a step at every number up to n.
Follows(f, n, S, base, step) ==
    /\ f \in [0..n -> S]
    /\ f[0] = base
    /\ \A i \in 1..n : f[i] = step[<<f[i - 1], i>>]

\* A step on the values of a set makes such a function, from any of them.
LEMMA FunctionAlong ==
    ASSUME NEW n \in Nat, NEW S, NEW base \in S, NEW step \in [S \X (1..n) -> S]
    PROVE  \E f : Follows(f, n, S, base, step)
<1> DEFINE Upto(m) == {f \in [0..m -> S] :
                           f[0] = base /\ \A i \in 1..m : f[i] = step[<<f[i - 1], i>>]}
           T == {m \in 0..n : Upto(m) # {}}
<1>1. 0 \in T
  <2> DEFINE f == [i \in 0..0 |-> base]
  <2>1. f \in [0..0 -> S] /\ f[0] = base
    OBVIOUS
  <2>2. \A i \in 1..0 : FALSE
    OBVIOUS
  <2>3. f \in Upto(0)
    <3> HIDE DEF f
    <3> QED
      BY <2>1, <2>2
  <2> QED
    BY <2>3
<1>2. \A m \in 1..n : m - 1 \in T => m \in T
  <2> SUFFICES ASSUME NEW m \in 1..n, m - 1 \in T
               PROVE  m \in T
    OBVIOUS
  <2>0. PICK g : g \in Upto(m - 1)
    OBVIOUS
  <2> DEFINE f == [i \in 0..m |-> IF i = m THEN step[<<g[m - 1], m>>] ELSE g[i]]
  <2>1. /\ g \in [0..(m - 1) -> S] /\ g[0] = base
        /\ \A i \in 1..(m - 1) : g[i] = step[<<g[i - 1], i>>]
    BY <2>0
  <2>2. g[m - 1] \in S /\ m \in 1..n
    BY <2>1
  <2>3. <<g[m - 1], m>> \in S \X (1..n)
    BY <2>2
  <2>4. step[<<g[m - 1], m>>] \in S
    BY <2>3
  <2>5. f \in [0..m -> S]
    BY <2>1, <2>4
  <2>6. f[0] = base /\ f[m] = step[<<f[m - 1], m>>]
    <3>1. m \in 0..m /\ m - 1 \in 0..m /\ 0 \in 0..m /\ m - 1 # m /\ 0 # m
      OBVIOUS
    <3>2. f[m] = step[<<g[m - 1], m>>] /\ f[m - 1] = g[m - 1] /\ f[0] = g[0]
      BY <3>1
    <3> HIDE DEF f
    <3> QED
      BY <2>1, <3>2
  <2>7. \A i \in 1..(m - 1) : f[i] = step[<<f[i - 1], i>>]
    BY <2>1
  <2>8. \A i \in 1..m : i = m \/ i \in 1..(m - 1)
    OBVIOUS
  <2>9. f \in Upto(m)
    <3> HIDE DEF f
    <3>1. \A i \in 1..m : f[i] = step[<<f[i - 1], i>>]
      BY <2>6, <2>7, <2>8
    <3>2. f \in [0..m -> S] /\ f[0] = base
      BY <2>5, <2>6
    <3> QED
      BY <3>1, <3>2, Zenon
  <2> HIDE DEF Upto
  <2> QED
    BY <2>9
<1>3. n \in T
  <2> HIDE DEF T
  <2> QED
    BY <1>1, <1>2, Along
<1> QED
  BY <1>3 DEF Follows
-----------------------------------------------------------------------------
(* The characters of a list of items.                                      *)

\* The items of a list that have a size.
Sized(items) ==
    /\ \E S : items \in Seq(S)
    /\ \A i \in 1..Len(items) : Characters(items[i]) \in Nat

\* The sum is defined along the list.
LEMMA SumAlong ==
    ASSUME NEW items, Sized(items)
    PROVE  \E sum \in [0..Len(items) -> Nat] :
               /\ sum[0] = 0
               /\ \A n \in 1..Len(items) : sum[n] = sum[n - 1] + Characters(items[n])
               /\ TotalCharacters(items) = sum[Len(items)]
<1> DEFINE Adds(f) == f = [n \in 0..Len(items) |->
                              IF n = 0 THEN 0 ELSE f[n - 1] + Characters(items[n])]
           size == [i \in 1..Len(items) |-> Characters(items[i])]
           step == [p \in Nat \X (1..Len(items)) |-> p[1] + size[p[2]]]
           sum == CHOOSE f : Adds(f)
<1>1. Len(items) \in Nat
  BY DEF Sized
<1>2. size \in [1..Len(items) -> Nat]
  BY DEF Sized
<1>3. step \in [Nat \X (1..Len(items)) -> Nat]
  <2> HIDE DEF size
  <2> QED
    BY <1>2
<1>4. PICK f : Follows(f, Len(items), Nat, 0, step)
  <2> HIDE DEF step
  <2> QED
    BY <1>1, <1>3, 0 \in Nat, FunctionAlong
<1>5. \A n \in 1..Len(items) : f[n] = f[n - 1] + Characters(items[n])
  <2> SUFFICES ASSUME NEW n \in 1..Len(items)
               PROVE  f[n] = f[n - 1] + Characters(items[n])
    OBVIOUS
  <2>1. <<f[n - 1], n>> \in Nat \X (1..Len(items))
    BY <1>1, <1>4 DEF Follows
  <2>2. step[<<f[n - 1], n>>] = f[n - 1] + size[n]
    BY <2>1
  <2>3. f[n] = step[<<f[n - 1], n>>]
    <3> HIDE DEF step
    <3> QED
      BY <1>4 DEF Follows
  <2> QED
    BY <2>2, <2>3
<1>6. Adds(f)
  <2>1. f[0] = 0 /\ f \in [0..Len(items) -> Nat]
    BY <1>4 DEF Follows
  <2> QED
    BY <1>1, <1>5, <2>1
<1>7. Adds(sum)
  <2> HIDE DEF Adds
  <2> QED
    BY <1>6
<1>8. TotalCharacters(items) = sum[Len(items)]
  BY DEF TotalCharacters
<1> HIDE DEF sum
<1>9. sum = [n \in 0..Len(items) |->
                 IF n = 0 THEN 0 ELSE sum[n - 1] + Characters(items[n])]
  BY <1>7
<1>10. sum[0] = 0 /\ \A n \in 1..Len(items) : sum[n] = sum[n - 1] + Characters(items[n])
  BY <1>1, <1>9
<1>11. \A n \in 0..Len(items) : sum[n] \in Nat
  <2> DEFINE T == {n \in 0..Len(items) : sum[n] \in Nat}
  <2>1. 0 \in T
    BY <1>1, <1>10
  <2>2. \A n \in 1..Len(items) : n - 1 \in T => n \in T
    BY <1>1, <1>10 DEF Sized
  <2>3. \A n \in 0..Len(items) : n \in T
    <3> HIDE DEF T
    <3> QED
      BY <1>1, <2>1, <2>2, Along
  <2> QED
    BY <2>3
<1>12. sum \in [0..Len(items) -> Nat]
  BY <1>9, <1>11
<1> QED
  BY <1>8, <1>10, <1>12

\* Nothing has no characters.
LEMMA NoCharacters == TotalCharacters(<<>>) = 0
<1>1. Sized(<<>>)
  <2>1. <<>> \in Seq({})
    OBVIOUS
  <2> QED
    BY <2>1 DEF Sized
<1>2. Len(<<>>) = 0
  OBVIOUS
<1> QED
  BY <1>1, <1>2, SumAlong

\* One item more adds its characters.
LEMMA OneItemMore ==
    ASSUME NEW S, NEW items \in Seq(S), Sized(items),
           NEW item, Characters(item) \in Nat
    PROVE  /\ TotalCharacters(items) \in Nat
           /\ Sized(Append(items, item))
           /\ TotalCharacters(Append(items, item))
                  = TotalCharacters(items) + Characters(item)
<1> DEFINE more == Append(items, item)
           last == Len(items)
<1>1. /\ last \in Nat /\ Len(more) = last + 1
      /\ \A i \in 1..last : more[i] = items[i]
      /\ more[last + 1] = item
      /\ more \in Seq(S \cup {item})
  OBVIOUS
<1>2. Sized(more)
  <2>1. \A i \in 1..Len(more) : i \in 1..last \/ i = last + 1
    BY <1>1
  <2> HIDE DEF more
  <2> QED
    BY <1>1, <2>1 DEF Sized
<1>3. PICK sum \in [0..last -> Nat] :
          /\ sum[0] = 0
          /\ \A n \in 1..last : sum[n] = sum[n - 1] + Characters(items[n])
          /\ TotalCharacters(items) = sum[last]
  BY SumAlong
<1>4. PICK total \in [0..Len(more) -> Nat] :
          /\ total[0] = 0
          /\ \A n \in 1..Len(more) : total[n] = total[n - 1] + Characters(more[n])
          /\ TotalCharacters(more) = total[Len(more)]
  <2> HIDE DEF more
  <2> QED
    BY <1>2, SumAlong
<1> HIDE DEF more, last
<1>5. \A n \in 0..last : total[n] = sum[n]
  <2> DEFINE T == {n \in 0..last : total[n] = sum[n]}
  <2>1. 0 \in T
    BY <1>1, <1>3, <1>4
  <2>2. ASSUME NEW n \in 1..last, n - 1 \in T
        PROVE  n \in T
    <3>1. n \in 1..Len(more) /\ more[n] = items[n]
      BY <1>1
    <3>2. total[n - 1] = sum[n - 1]
      BY <2>2
    <3>3. total[n] = total[n - 1] + Characters(items[n])
      BY <1>4, <3>1
    <3>4. sum[n] = sum[n - 1] + Characters(items[n])
      BY <1>3
    <3> QED
      BY <1>1, <3>2, <3>3, <3>4
  <2>3. \A n \in 0..last : n \in T
    <3> HIDE DEF T
    <3> QED
      BY <1>1, <2>1, <2>2, Along
  <2> QED
    BY <2>3
<1>6. last + 1 \in 1..Len(more) /\ last \in 0..last /\ (last + 1) - 1 = last
  BY <1>1
<1>7. total[last + 1] = total[last] + Characters(item)
  BY <1>1, <1>4, <1>6
<1>8. total[last] = sum[last] /\ sum[last] \in Nat
  BY <1>3, <1>5, <1>6
<1> QED
  BY <1>1, <1>2, <1>3, <1>4, <1>7, <1>8 DEF more
-----------------------------------------------------------------------------
(* The budget of characters of a social answer.                            *)

\* The states of the loop that fits the items of a social source.
FitStates ==
    [items : Seq(OpencliItems), remaining : Nat, stopped : BOOLEAN, truncated : BOOLEAN]

\* The smaller of two numbers.
LEMMA MinOfTwo ==
    ASSUME NEW a \in Nat, NEW b \in Nat
    PROVE  /\ Min({a, b}) \in Nat
           /\ Min({a, b}) \in {a, b}
           /\ Min({a, b}) <= a /\ Min({a, b}) <= b
<1>1. \E x \in {a, b} : \A y \in {a, b} : x <= y
  <2>1. CASE a <= b
    BY <2>1
  <2>2. CASE b <= a
    BY <2>2
  <2> QED
    BY <2>1, <2>2
<1>2. Min({a, b}) \in {a, b} /\ \A y \in {a, b} : Min({a, b}) <= y
  BY <1>1 DEF Min
<1> QED
  BY <1>2

\* An item whose required fields are within what remains is fitted to it, and is as
\* well decoded as it was.
LEMMA FittedItem ==
    ASSUME NEW item \in OpencliItems, NEW remaining \in Nat, item.base <= remaining
    PROVE  /\ Fitted(item, remaining) \in OpencliItems
           /\ Fitted(item, remaining).ok = item.ok
           /\ Fitted(item, remaining).schema = item.schema
           /\ Characters(Fitted(item, remaining)) \in 0..remaining
<1> DEFINE kept == IF item.base + item.optional <= remaining
                   THEN item ELSE [item EXCEPT !.optional = 0]
           rest == remaining - kept.base - kept.optional
           text == Min({kept.text, rest})
<1>1. /\ kept \in OpencliItems /\ kept.ok = item.ok /\ kept.schema = item.schema
      /\ kept.base + kept.optional <= remaining
  <2>1. CASE item.base + item.optional <= remaining
    <3>1. kept = item
      BY <2>1, Zenon
    <3> HIDE DEF kept
    <3> QED
      BY <2>1, <3>1
  <2>2. CASE ~(item.base + item.optional <= remaining)
    <3>1. kept = [item EXCEPT !.optional = 0]
      BY <2>2, Zenon
    <3> HIDE DEF kept
    <3> QED
      BY <2>2, <3>1 DEF OpencliItems
  <2> HIDE DEF kept
  <2> QED
    BY <2>1, <2>2
<1>2. Fitted(item, remaining) = [kept EXCEPT !.text = text]
  BY DEF Fitted
<1> HIDE DEF kept
<1>3. kept.base \in Nat /\ kept.optional \in Nat /\ kept.text \in Nat
  BY <1>1 DEF OpencliItems
<1>4. rest \in Nat
  BY <1>1, <1>3
<1>5. text \in Nat /\ text <= rest
  <2> HIDE DEF rest
  <2> QED
    BY <1>3, <1>4, MinOfTwo
<1> HIDE DEF text
<1> QED
  BY <1>1, <1>2, <1>3, <1>4, <1>5 DEF OpencliItems, Characters

\* Items of a social source have sizes.
LEMMA SocialSized ==
    ASSUME NEW items \in Seq(OpencliItems)
    PROVE  Sized(items)
<1>1. \A i \in 1..Len(items) : items[i] \in OpencliItems
  OBVIOUS
<1>2. \A item \in OpencliItems : Characters(item) \in Nat
  BY DEF OpencliItems, Characters
<1> QED
  BY <1>1, <1>2 DEF Sized

\* One turn of the loop leaves a state of it.
LEMMA FitItemType ==
    ASSUME NEW asked, NEW state \in FitStates, NEW item \in OpencliItems
    PROVE  FitItem(asked, state, item) \in FitStates
<1> DEFINE next == Fitted(item, state.remaining)
<1>1. /\ state.items \in Seq(OpencliItems) /\ state.remaining \in Nat
      /\ state.truncated \in BOOLEAN /\ item.base \in Nat
  BY DEF FitStates, OpencliItems
<1>2. item.base <= state.remaining =>
          next \in OpencliItems /\ Characters(next) \in 0..state.remaining
  BY <1>1, FittedItem
<1>3. \/ FitItem(asked, state, item) =
             [state EXCEPT !.stopped = TRUE, !.truncated = TRUE]
      \/ /\ item.base <= state.remaining
         /\ FitItem(asked, state, item) =
             [items |-> Append(state.items, next),
              remaining |-> state.remaining - Characters(next),
              stopped |-> FALSE,
              truncated |-> state.truncated \/ next # item \/ item.over # None]
  <2>1. item.base > state.remaining \/ item.base <= state.remaining
    BY <1>1
  <2> QED
    BY <2>1 DEF FitItem
<1> DEFINE more == Append(state.items, next)
           left == state.remaining - Characters(next)
           cut == state.truncated \/ next # item \/ item.over # None
<1> HIDE DEF next
<1>4. item.base <= state.remaining => more \in Seq(OpencliItems) /\ left \in Nat
  BY <1>1, <1>2
<1>5. cut \in BOOLEAN
  BY <1>1
<1> HIDE DEF more, left, cut
<1>7. [state EXCEPT !.stopped = TRUE, !.truncated = TRUE] \in FitStates
  BY DEF FitStates
<1>8. item.base <= state.remaining =>
          [items |-> more, remaining |-> left, stopped |-> FALSE, truncated |-> cut]
              \in FitStates
  BY <1>4, <1>5 DEF FitStates
<1> QED
  BY <1>3, <1>7, <1>8 DEF more, left, cut

\* What the loop has kept after n of the items: no more than n, within the budget,
\* and fewer only when it says so.
FitsUpTo(items, n, state) ==
    /\ Len(state.items) <= n
    /\ TotalCharacters(state.items) + state.remaining = MaxResultCharacters
    /\ ~state.stopped => Len(state.items) = n
    /\ state.stopped => state.truncated
    /\ AllDecode(items) => AllDecode(state.items)

\* One turn of the loop keeps it.
LEMMA FitsOneMore ==
    ASSUME NEW asked, NEW items \in Seq(OpencliItems), NEW n \in 1..Len(items),
           NEW state \in FitStates, FitsUpTo(items, n - 1, state)
    PROVE  FitsUpTo(items, n, FitItem(asked, state, items[n]))
<1> DEFINE item == items[n]
           next == Fitted(item, state.remaining)
           more == Append(state.items, next)
           left == state.remaining - Characters(next)
           cut == state.truncated \/ next # item \/ item.over # None
<1>0. item \in OpencliItems
  OBVIOUS
<1>1. /\ state.items \in Seq(OpencliItems) /\ state.remaining \in Nat
      /\ state.truncated \in BOOLEAN /\ state.stopped \in BOOLEAN
  BY DEF FitStates
<1>2. item.base <= state.remaining =>
          /\ next \in OpencliItems /\ next.ok = item.ok
          /\ Characters(next) \in 0..state.remaining
  BY <1>0, <1>1, FittedItem
<1>3. \/ FitItem(asked, state, item) =
             [state EXCEPT !.stopped = TRUE, !.truncated = TRUE]
      \/ /\ ~state.stopped /\ item.base <= state.remaining
         /\ FitItem(asked, state, item) =
                [items |-> more, remaining |-> left, stopped |-> FALSE, truncated |-> cut]
  <2>1. item.base \in Nat /\ state.remaining \in Nat
    <3> HIDE DEF item
    <3> QED
      BY <1>0, <1>1 DEF OpencliItems
  <2>2. \A k, m \in Nat : k > m \/ k <= m
    OBVIOUS
  <2>3. item.base > state.remaining \/ item.base <= state.remaining
    BY <2>1, <2>2, Zenon
  <2> QED
    BY <2>3 DEF FitItem
<1> HIDE DEF next, item, cut
<1>4. CASE FitItem(asked, state, item) =
             [state EXCEPT !.stopped = TRUE, !.truncated = TRUE]
  <2> DEFINE after == FitItem(asked, state, item)
  <2>1. /\ after.items = state.items /\ after.remaining = state.remaining
        /\ after.stopped = TRUE /\ after.truncated = TRUE
    BY <1>4 DEF FitStates
  <2>2. Len(state.items) <= n
    BY <1>1 DEF FitsUpTo
  <2> HIDE DEF after
  <2> QED
    BY <2>1, <2>2 DEF FitsUpTo, after, item
<1>5. CASE /\ ~state.stopped /\ item.base <= state.remaining
           /\ FitItem(asked, state, item) =
                [items |-> more, remaining |-> left, stopped |-> FALSE, truncated |-> cut]
  <2> DEFINE after == FitItem(asked, state, item)
  <2>0. next \in OpencliItems /\ next.ok = item.ok /\ Characters(next) \in 0..state.remaining
    BY <1>2, <1>5
  <2>1. /\ after.items = more /\ after.remaining = left /\ after.stopped = FALSE
    BY <1>5
  <2>2. /\ Len(state.items) = n - 1
        /\ TotalCharacters(state.items) + state.remaining = MaxResultCharacters
    BY <1>5 DEF FitsUpTo
  <2>3. /\ Len(more) = n
        /\ \A i \in 1..(n - 1) : more[i] = state.items[i]
        /\ more[n] = next
        /\ DOMAIN more = 1..n
    BY <1>1, <2>0, <2>2
  <2>4. /\ TotalCharacters(state.items) \in Nat
        /\ TotalCharacters(more) = TotalCharacters(state.items) + Characters(next)
    BY <1>1, <2>0, SocialSized, OneItemMore
  <2>5. TotalCharacters(more) + left = MaxResultCharacters
    BY <1>1, <2>0, <2>2, <2>4
  <2>6. AllDecode(items) => AllDecode(more)
    <3> SUFFICES ASSUME AllDecode(items), NEW i \in 1..n
                 PROVE  more[i].ok
      BY <2>3 DEF AllDecode
    <3>1. CASE i = n
      BY <2>0, <2>3, <3>1 DEF AllDecode, item
    <3>2. CASE i \in 1..(n - 1)
      <4>1. i \in DOMAIN state.items
        BY <1>1, <2>2, <3>2
      <4> QED
        BY <2>3, <3>2, <4>1 DEF AllDecode, FitsUpTo
    <3>3. i = n \/ i \in 1..(n - 1)
      OBVIOUS
    <3> HIDE DEF more
    <3> QED
      BY <3>1, <3>2, <3>3
  <2> HIDE DEF after, more, left
  <2> QED
    BY <2>1, <2>3, <2>5, <2>6 DEF FitsUpTo, after, item
<1> QED
  BY <1>3, <1>4, <1>5

\* Of every list the fork returns and for every call, what _fit_result_budget keeps
\* is no more than there was and within the budget of characters, is as well decoded,
\* and is less only when it says that it is truncated.
LEMMA BudgetIsKept ==
    ASSUME NEW asked, NEW items \in Seq(OpencliItems),
           NEW fitted, fitted = FitBudget(asked, items)
    PROVE  /\ fitted.items \in Seq(OpencliItems)
           /\ Len(fitted.items) <= Len(items)
           /\ TotalCharacters(fitted.items) <= MaxResultCharacters
           /\ fitted.truncated \in BOOLEAN
           /\ ~fitted.truncated => Len(fitted.items) = Len(items)
           /\ AllDecode(items) => AllDecode(fitted.items)
<1> DEFINE last == Len(items)
           start == [items |-> <<>>, remaining |-> MaxResultCharacters,
                     stopped |-> FALSE, truncated |-> FALSE]
           Fits(f) == f = [n \in 0..last |->
                               IF n = 0 THEN start ELSE FitItem(asked, f[n - 1], items[n])]
           step == [p \in FitStates \X (1..last) |-> FitItem(asked, p[1], items[p[2]])]
           fit == CHOOSE f : Fits(f)
<1>1. last \in Nat /\ \A n \in 1..last : items[n] \in OpencliItems
  OBVIOUS
<1>2. start \in FitStates
  BY OpencliLimits DEF FitStates
<1>3. step \in [FitStates \X (1..last) -> FitStates]
  <2> SUFFICES ASSUME NEW p \in FitStates \X (1..last)
               PROVE  FitItem(asked, p[1], items[p[2]]) \in FitStates
    OBVIOUS
  <2>1. p[1] \in FitStates /\ items[p[2]] \in OpencliItems
    BY <1>1
  <2> QED
    BY <2>1, FitItemType
<1>4. PICK f : Follows(f, last, FitStates, start, step)
  <2> HIDE DEF step, start, last
  <2> QED
    BY <1>1, <1>2, <1>3, FunctionAlong
<1>5. \A n \in 1..last : f[n] = FitItem(asked, f[n - 1], items[n])
  <2> SUFFICES ASSUME NEW n \in 1..last
               PROVE  f[n] = FitItem(asked, f[n - 1], items[n])
    OBVIOUS
  <2>1. <<f[n - 1], n>> \in FitStates \X (1..last)
    BY <1>1, <1>4 DEF Follows
  <2>2. step[<<f[n - 1], n>>] = FitItem(asked, f[n - 1], items[n])
    BY <2>1
  <2>3. f[n] = step[<<f[n - 1], n>>]
    <3> HIDE DEF step
    <3> QED
      BY <1>4 DEF Follows
  <2> QED
    BY <2>2, <2>3
<1>6. Fits(f)
  <2>1. f[0] = start /\ f \in [0..last -> FitStates]
    BY <1>4 DEF Follows
  <2> HIDE DEF start
  <2> QED
    BY <1>1, <1>5, <2>1
<1>7. Fits(fit)
  <2> HIDE DEF Fits
  <2> QED
    BY <1>6
<1>8. fitted = fit[last]
  BY DEF FitBudget
<1> HIDE DEF fit
<1>9. fit[0] = start /\ \A n \in 1..last : fit[n] = FitItem(asked, fit[n - 1], items[n])
  <2> HIDE DEF start
  <2>1. fit = [n \in 0..last |->
                   IF n = 0 THEN start ELSE FitItem(asked, fit[n - 1], items[n])]
    BY <1>7
  <2> QED
    BY <1>1, <2>1
<1>10. \A n \in 0..last : fit[n] \in FitStates /\ FitsUpTo(items, n, fit[n])
  <2> DEFINE T == {n \in 0..last : fit[n] \in FitStates /\ FitsUpTo(items, n, fit[n])}
  <2>1. 0 \in T
    <3>1. AllDecode(<<>>)
      BY DEF AllDecode
    <3>2. FitsUpTo(items, 0, start)
      BY <3>1, NoCharacters, OpencliLimits DEF FitsUpTo
    <3> HIDE DEF start
    <3> QED
      BY <1>1, <1>2, <1>9, <3>2
  <2>2. ASSUME NEW n \in 1..last, n - 1 \in T
        PROVE  n \in T
    <3>1. fit[n - 1] \in FitStates /\ FitsUpTo(items, n - 1, fit[n - 1])
      BY <2>2
    <3>2. fit[n] = FitItem(asked, fit[n - 1], items[n]) /\ items[n] \in OpencliItems
      BY <1>1, <1>9
    <3>3. fit[n] \in FitStates
      BY <3>1, <3>2, FitItemType
    <3>4. FitsUpTo(items, n, fit[n])
      BY <3>1, <3>2, FitsOneMore
    <3> QED
      BY <1>1, <3>3, <3>4
  <2>3. \A n \in 0..last : n \in T
    <3> HIDE DEF T
    <3> QED
      BY <1>1, <2>1, <2>2, Along
  <2> QED
    BY <2>3
<1>11. fitted \in FitStates /\ FitsUpTo(items, last, fitted)
  BY <1>1, <1>8, <1>10
<1>12. /\ fitted.items \in Seq(OpencliItems) /\ fitted.remaining \in Nat
       /\ fitted.truncated \in BOOLEAN /\ fitted.stopped \in BOOLEAN
  BY <1>11 DEF FitStates
<1>13. TotalCharacters(fitted.items) \in Nat
  <2>1. PICK sum \in [0..Len(fitted.items) -> Nat] :
            TotalCharacters(fitted.items) = sum[Len(fitted.items)]
    BY <1>12, SocialSized, SumAlong
  <2>2. Len(fitted.items) \in 0..Len(fitted.items)
    BY <1>12
  <2> QED
    BY <2>1, <2>2
<1> QED
  BY <1>11, <1>12, <1>13, OpencliLimits DEF FitsUpTo

-----------------------------------------------------------------------------
(* Lists without an item twice, and the usable entries of a feed.          *)

\* As many identifiers as items: no two items have the same one.
LEMMA DistinctIdentifiers ==
    ASSUME NEW S, NEW items \in Seq(S), Distinct(items)
    PROVE  \A i, j \in 1..Len(items) : i # j => items[i].id # items[j].id
<1> DEFINE Places == 1..Len(items)
           Ids == {items[i].id : i \in DOMAIN items}
           idOf == [i \in Places |-> items[i].id]
<1>1. Len(items) \in Nat /\ DOMAIN items = Places
  OBVIOUS
<1>2. IsFiniteSet(Places) /\ Cardinality(Places) = Len(items)
  BY <1>1, FS_Interval
<1>3. idOf \in Surjection(Places, Ids)
  <2>1. idOf \in [Places -> Ids]
    BY <1>1
  <2>2. \A id \in Ids : \E i \in Places : idOf[i] = id
    BY <1>1
  <2> QED
    BY <2>1, <2>2 DEF Surjection
<1>4. Cardinality(Ids) = Cardinality(Places)
  BY <1>2 DEF Distinct
<1> HIDE DEF Ids, Places, idOf
<1>5. idOf \in Injection(Places, Ids)
  BY <1>2, <1>3, <1>4, FS_Surjection
<1>6. \A i, j \in Places : idOf[i] = idOf[j] => i = j
  BY <1>5 DEF Injection, IsInjective
<1> QED
  BY <1>6 DEF idOf, Places

\* Of the first n entries of a feed, some.
EntriesUpTo(items, n, kept) ==
    /\ Len(kept) <= n
    /\ \A j \in 1..Len(kept) : \E i \in 1..Len(items) : kept[j] = items[i]

\* The entries that are usable are entries of the feed, and no more than there were.
LEMMA UsableAreEntries ==
    ASSUME NEW S, NEW items \in Seq(S), NEW usable, usable = UsableEntries(items)
    PROVE  usable \in Seq(S) /\ EntriesUpTo(items, Len(items), usable)
<1> DEFINE last == Len(items)
           Take(n, list) == IF items[n].usable THEN Append(list, items[n]) ELSE list
           Keeps(f) == f = [n \in 0..last |->
                                IF n = 0 THEN <<>> ELSE Take(n, f[n - 1])]
           step == [p \in Seq(S) \X (1..last) |-> Take(p[2], p[1])]
           kept == CHOOSE f : Keeps(f)
<1>1. last \in Nat /\ \A n \in 1..last : items[n] \in S
  OBVIOUS
<1>2. <<>> \in Seq(S)
  OBVIOUS
<1>3. \A n \in 1..last, list \in Seq(S) : Take(n, list) \in Seq(S)
  BY <1>1
<1>4. step \in [Seq(S) \X (1..last) -> Seq(S)]
  <2> HIDE DEF Take
  <2> QED
    BY <1>3
<1>5. PICK f : Follows(f, last, Seq(S), <<>>, step)
  <2> HIDE DEF step, last
  <2> QED
    BY <1>1, <1>2, <1>4, FunctionAlong
<1>6. \A n \in 1..last : f[n] = Take(n, f[n - 1])
  <2> SUFFICES ASSUME NEW n \in 1..last
               PROVE  f[n] = Take(n, f[n - 1])
    OBVIOUS
  <2> HIDE DEF Take
  <2>1. <<f[n - 1], n>> \in Seq(S) \X (1..last)
    BY <1>1, <1>5 DEF Follows
  <2>2. step[<<f[n - 1], n>>] = Take(n, f[n - 1])
    BY <2>1
  <2>3. f[n] = step[<<f[n - 1], n>>]
    <3> HIDE DEF step
    <3> QED
      BY <1>5 DEF Follows
  <2> QED
    BY <2>2, <2>3
<1>7. Keeps(f)
  <2> HIDE DEF Take
  <2>1. f[0] = <<>> /\ f \in [0..last -> Seq(S)]
    BY <1>5 DEF Follows
  <2> QED
    BY <1>1, <1>6, <2>1
<1>8. Keeps(kept)
  <2> HIDE DEF Keeps
  <2> QED
    BY <1>7
<1>9. usable = kept[last]
  BY DEF UsableEntries
<1> HIDE DEF kept
<1>10. kept[0] = <<>> /\ \A n \in 1..last : kept[n] = Take(n, kept[n - 1])
  <2> HIDE DEF Take
  <2>1. kept = [n \in 0..last |-> IF n = 0 THEN <<>> ELSE Take(n, kept[n - 1])]
    BY <1>8
  <2> QED
    BY <1>1, <2>1
<1>11. \A n \in 0..last : kept[n] \in Seq(S) /\ EntriesUpTo(items, n, kept[n])
  <2> DEFINE T == {n \in 0..last : kept[n] \in Seq(S) /\ EntriesUpTo(items, n, kept[n])}
  <2>1. 0 \in T
    <3>1. EntriesUpTo(items, 0, <<>>)
      BY DEF EntriesUpTo
    <3>2. 0 \in 0..last /\ kept[0] = <<>>
      BY <1>1, <1>10
    <3> QED
      BY <1>2, <3>1, <3>2
  <2>2. ASSUME NEW n \in 1..last, n - 1 \in T
        PROVE  n \in T
    <3> DEFINE before == kept[n - 1]
               more == Append(before, items[n])
    <3>1. before \in Seq(S) /\ EntriesUpTo(items, n - 1, before)
      BY <2>2
    <3>2. kept[n] = before \/ kept[n] = more
      BY <1>10
    <3>3. CASE kept[n] = before
      <4> HIDE DEF before
      <4>1. EntriesUpTo(items, n, before)
        BY <3>1 DEF EntriesUpTo
      <4> QED
        BY <1>1, <3>1, <3>3, <4>1
    <3>4. CASE kept[n] = more
      <4> HIDE DEF before
      <4>1. /\ more \in Seq(S) /\ Len(more) = Len(before) + 1
            /\ \A j \in 1..Len(before) : more[j] = before[j]
            /\ more[Len(before) + 1] = items[n]
        BY <1>1, <3>1
      <4>2. \A j \in 1..Len(more) : j \in 1..Len(before) \/ j = Len(before) + 1
        BY <3>1, <4>1
      <4> HIDE DEF more
      <4>3. EntriesUpTo(items, n, more)
        BY <3>1, <4>1, <4>2 DEF EntriesUpTo
      <4> QED
        BY <1>1, <3>4, <4>1, <4>3
    <3> QED
      BY <3>2, <3>3, <3>4
  <2>3. \A n \in 0..last : n \in T
    <3> HIDE DEF T
    <3> QED
      BY <1>1, <2>1, <2>2, Along
  <2> QED
    BY <2>3
<1> QED
  BY <1>1, <1>9, <1>11

-----------------------------------------------------------------------------
(* The requests made of a worker, and the lists a fork returns for one.    *)

XueqiuAsked == [source : {"xueqiu"}, op : {"search.stocks"}, limit : Nat, forced : BOOLEAN]
RssAsked == [source : {"rss"}, op : {"read.feed", "browse.entries"}, entries : Nat]
AskedRequests ==
    V2exCalls \cup BilibiliCalls \cup YoutubeCalls \cup ExaCalls \cup OpencliCalls
        \cup XueqiuAsked \cup RssAsked

\* A limit the caller left out is filled in within the catalog's.
LEMMA LimitIsFilled ==
    ASSUME NEW limit \in Limits
    PROVE  LimitOr(limit, MaximumItems) \in Limits /\ LimitOr(limit, MaximumItems) \in Nat
BY SourceLimits DEF Limits, LimitOr

\* The adapter of every source but RSS makes a request of its worker.
LEMMA PreparedIsAsked ==
    ASSUME NEW call \in AllCalls, call.source # "rss"
    PROVE  Prepared(call) \in AskedRequests
<1>0. \/ call \in V2exCalls \/ call \in RssCalls \/ call \in BilibiliCalls
      \/ call \in YoutubeCalls \/ call \in ExaCalls \/ call \in XueqiuCalls
      \/ call \in OpencliCalls
  BY DEF AllCalls
<1>1. CASE call \in V2exCalls
  <2>1. call.source = "v2ex"
    BY <1>1 DEF V2exCalls
  <2>2. V2exRequest(call) \in V2exCalls
    <3>1. CASE V2exBrowses(call)
      <4>1. call.limit \in Limits
        BY <1>1, <3>1 DEF V2exCalls, V2exBrowses
      <4>2. V2exRequest(call) = [call EXCEPT !.limit = LimitOr(call.limit, MaximumItems)]
        BY <3>1 DEF V2exRequest
      <4> QED
        BY <1>1, <3>1, <4>1, <4>2, LimitIsFilled DEF V2exCalls, V2exBrowses
    <3>2. CASE ~V2exBrowses(call)
      BY <1>1, <3>2 DEF V2exRequest
    <3> QED
      BY <3>1, <3>2
  <2>3. Prepared(call) = V2exRequest(call)
    BY <2>1, Zenon DEF Prepared
  <2> QED
    BY <2>2, <2>3 DEF AskedRequests
<1>2. CASE call \in BilibiliCalls
  <2>1. call.source = "bilibili"
    BY <1>2 DEF BilibiliCalls
  <2>2. BilibiliRequest(call) \in BilibiliCalls
    <3>1. CASE call.op # "read.video"
      <4>1. call.limit \in Limits
        BY <1>2, <3>1 DEF BilibiliCalls
      <4> QED
        BY <1>2, <3>1, <4>1, LimitIsFilled DEF BilibiliCalls, BilibiliRequest
    <3>2. CASE call.op = "read.video"
      BY <1>2, <3>2 DEF BilibiliRequest
    <3> QED
      BY <3>1, <3>2
  <2>3. Prepared(call) = BilibiliRequest(call)
    BY <2>1, Zenon DEF Prepared
  <2> QED
    BY <2>2, <2>3 DEF AskedRequests
<1>3. CASE call \in YoutubeCalls
  <2>1. call.source = "youtube"
    BY <1>3 DEF YoutubeCalls
  <2>2. YoutubeRequest(call) \in YoutubeCalls
    <3>1. CASE call.op = "search.videos"
      <4>1. call.limit \in Limits
        BY <1>3, <3>1 DEF YoutubeCalls
      <4> QED
        BY <1>3, <3>1, <4>1, LimitIsFilled DEF YoutubeCalls, YoutubeRequest
    <3>2. CASE call.op # "search.videos"
      BY <1>3, <3>2 DEF YoutubeRequest
    <3> QED
      BY <3>1, <3>2
  <2>3. Prepared(call) = YoutubeRequest(call)
    BY <2>1, Zenon DEF Prepared
  <2> QED
    BY <2>2, <2>3 DEF AskedRequests
<1>4. CASE call \in ExaCalls
  <2>1. call.source = "exa"
    BY <1>4 DEF ExaCalls
  <2>2. ExaRequest(call) \in ExaCalls
    BY <1>4, LimitIsFilled DEF ExaCalls, ExaRequest
  <2>3. Prepared(call) = ExaRequest(call)
    BY <2>1, Zenon DEF Prepared
  <2> QED
    BY <2>2, <2>3 DEF AskedRequests
<1>5. CASE call \in XueqiuCalls
  <2>1. call.source = "xueqiu" /\ call.op = "search.stocks" /\ call.limit \in Limits
    BY <1>5 DEF XueqiuCalls
  <2> DEFINE requested == LimitOr(call.limit, MaximumItems)
  <2>2. requested \in Nat
    BY <2>1, LimitIsFilled
  <2> HIDE DEF requested
  <2>3. Min({requested, MaximumItems}) \in Nat
    BY <2>2, SourceLimits, MinOfTwo
  <2>4. XueqiuRequest(call) \in XueqiuAsked
    BY <2>1, <2>3 DEF XueqiuRequest, XueqiuAsked, requested
  <2>5. Prepared(call) = XueqiuRequest(call)
    BY <2>1, Zenon DEF Prepared
  <2> QED
    BY <2>4, <2>5 DEF AskedRequests
<1>6. CASE call \in OpencliCalls
  <2>1. call.source = "opencli"
    BY <1>6 DEF OpencliCalls
  <2>2. OpencliRequest(call) \in OpencliCalls
    <3>1. CASE "limit" \in DOMAIN call
      <4>1. call.limit \in Limits
        BY <1>6, <3>1 DEF OpencliCalls
      <4>2. [call EXCEPT !.limit = LimitOr(call.limit, MaximumItems)] \in OpencliCalls
        BY <1>6, <3>1, <4>1, LimitIsFilled DEF OpencliCalls
      <4> QED
        BY <1>6, <4>2, Zenon DEF OpencliRequest
    <3>2. CASE "limit" \notin DOMAIN call
      <4>1. call.op \in {"reddit.read.subreddit", "reddit.read.post"}
        BY <1>6, <3>2 DEF OpencliCalls
      <4>2. Shape(call.op) \in {"profile", "thread"}
        <5>1. CASE call.op = "reddit.read.subreddit"
          BY <5>1, Zenon DEF Shape
        <5>2. CASE call.op = "reddit.read.post"
          BY <5>2, Zenon DEF Shape
        <5> QED
          BY <4>1, <5>1, <5>2
      <4> QED
        BY <1>6, <4>2 DEF OpencliRequest
    <3> QED
      BY <3>1, <3>2
  <2>3. Prepared(call) = OpencliRequest(call)
    BY <2>1, Zenon DEF Prepared
  <2> QED
    BY <2>2, <2>3 DEF AskedRequests
<1>7. call \notin RssCalls
  BY DEF RssCalls
<1> QED
  BY <1>0, <1>1, <1>2, <1>3, <1>4, <1>5, <1>6, <1>7

\* A call of RSS is one of its source's.
LEMMA FeedCall ==
    ASSUME NEW call \in AllCalls, call.source = "rss"
    PROVE  call \in RssCalls
<1>1. \/ call \in V2exCalls \/ call \in RssCalls \/ call \in BilibiliCalls
      \/ call \in YoutubeCalls \/ call \in ExaCalls \/ call \in XueqiuCalls
      \/ call \in OpencliCalls
  BY DEF AllCalls
<1>2. /\ call \notin V2exCalls /\ call \notin BilibiliCalls /\ call \notin YoutubeCalls
  BY DEF V2exCalls, BilibiliCalls, YoutubeCalls
<1>3. call \notin ExaCalls /\ call \notin XueqiuCalls /\ call \notin OpencliCalls
  BY DEF ExaCalls, XueqiuCalls, OpencliCalls
<1> QED
  BY <1>1, <1>2, <1>3

\* The smallest of three numbers is one of them.
LEMMA MinOfThree ==
    ASSUME NEW a \in Nat, NEW b \in Nat, NEW c \in Nat
    PROVE  Min({a, b, c}) \in Nat
<1>1. \E x \in {a, b, c} : \A y \in {a, b, c} : x <= y
  <2>1. CASE a <= b /\ a <= c
    BY <2>1
  <2>2. CASE b <= a /\ b <= c
    BY <2>2
  <2>3. CASE c <= a /\ c <= b
    BY <2>3
  <2> QED
    BY <2>1, <2>2, <2>3
<1>2. Min({a, b, c}) \in {a, b, c}
  BY <1>1 DEF Min
<1> QED
  BY <1>2

\* What the adapter of RSS asks of its worker.
LEMMA FeedIsAsked ==
    ASSUME NEW call \in RssCalls
    PROVE  RssRequest(call) \in AskedRequests
<1>1. call.op \in {"read.feed", "browse.entries"}
  BY DEF RssCalls
<1>2. RssRequest(call).entries \in Nat
  <2>1. CASE call.op = "read.feed"
    BY <2>1 DEF RssRequest
  <2>2. CASE call.op # "read.feed"
    <3>1. call.limit \in Limits
      BY <2>2 DEF RssCalls
    <3> DEFINE limit == LimitOr(call.limit, MaximumItems)
    <3>2. limit \in Nat
      BY <3>1, LimitIsFilled
    <3> HIDE DEF limit
    <3>3. Min({limit, MaximumItems + 1, MaxEntries}) \in Nat
      BY <3>2, SourceLimits, MaxEntriesAssumption, MinOfThree
    <3> QED
      BY <2>2, <3>3 DEF RssRequest, limit
  <2> QED
    BY <2>1, <2>2
<1>3. RssRequest(call) \in RssAsked
  BY <1>1, <1>2 DEF RssRequest, RssAsked
<1> QED
  BY <1>3 DEF AskedRequests

\* What is bounded is a list.
LEMMA ForkListsAreLists ==
    ASSUME NEW S, NEW limit \in Nat, NEW items \in ForkLists(S, limit)
    PROVE  items \in Seq(S)
<1> DEFINE longest == Min({limit + 1, MaxForkItems})
<1>1. longest \in Nat
  <2>1. limit + 1 \in Nat /\ MaxForkItems \in Nat
    BY SourceLimits
  <2> QED
    BY <2>1, MinOfTwo
<1> HIDE DEF longest
<1>2. PICK length \in 0..longest : items \in [1..length -> S]
  BY DEF ForkLists, BoundedSeq, SeqOf, longest
<1>3. length \in Nat
  BY <1>1
<1> QED
  BY <1>2, <1>3

\* The limit of a social answer, which is never above that of the call.
LEMMA SocialLimit ==
    ASSUME request \in OpencliCalls
    PROVE  /\ OpencliItemLimit(request) \in Nat
           /\ "limit" \in DOMAIN request =>
                  request.limit \in Nat /\ OpencliItemLimit(request) <= request.limit
<1>1. CASE request.op = "reddit.read.subreddit"
  <2>1. Shape(request.op) = "profile"
    BY <1>1, Zenon DEF Shape
  <2>2. OpencliItemLimit(request) = 1
    BY <2>1, Zenon DEF OpencliItemLimit
  <2>3. "limit" \notin DOMAIN request
    BY <1>1 DEF OpencliCalls
  <2> QED
    BY <2>2, <2>3
<1>2. CASE request.op = "reddit.read.post"
  <2>1. Shape(request.op) = "thread"
    BY <1>2, Zenon DEF Shape
  <2>2. OpencliItemLimit(request) = MaxThreadItems
    BY <2>1, Zenon DEF OpencliItemLimit
  <2>3. "limit" \notin DOMAIN request
    BY <1>2 DEF OpencliCalls
  <2> QED
    BY <2>2, <2>3, OpencliLimits, SourceLimits
<1>3. CASE request.op \notin {"reddit.read.subreddit", "reddit.read.post"}
  <2>1. /\ request.limit \in Limits
        /\ request.op \in {"twitter.search.posts", "facebook.browse.feed",
                           "reddit.browse.subreddit", "instagram.browse.user_posts"}
    BY <1>3 DEF OpencliCalls
  <2>2. Shape(request.op) \in {"identified", "numbered"}
    <3>1. /\ Shape("twitter.search.posts") = "identified"
          /\ Shape("facebook.browse.feed") = "numbered"
          /\ Shape("reddit.browse.subreddit") = "identified"
          /\ Shape("instagram.browse.user_posts") = "numbered"
      BY Zenon DEF Shape
    <3> QED
      BY <2>1, <3>1
  <2>3. OpencliItemLimit(request) = Min({request.limit, MaximumItems})
    <3>1. Shape(request.op) # "profile" /\ Shape(request.op) # "thread"
      BY <2>2
    <3> QED
      BY <3>1, Zenon DEF OpencliItemLimit
  <2>4. request.limit \in Nat /\ MaximumItems \in Nat
    BY <2>1, SourceLimits DEF Limits
  <2> QED
    BY <2>3, <2>4, MinOfTwo
<1> QED
  BY <1>1, <1>2, <1>3

\* What a fork returns for a request is a list, of social items for a social source.
LEMMA ForkReturnsList ==
    ASSUME request \in AskedRequests, NEW items \in ForkItemLists
    PROVE  /\ \E S : items \in Seq(S)
           /\ request.source = "opencli" => items \in Seq(OpencliItems)
<1>1. CASE request \in V2exCalls
  <2>1. request.source = "v2ex"
    BY <1>1 DEF V2exCalls
  <2>2. ForkItemLists = V2exForkLists(request)
    BY <2>1, Zenon DEF ForkItemLists
  <2>3. V2exItemLimit(request) \in Nat
    <3>1. CASE V2exBrowses(request)
      <4>1. V2exItemLimit(request) = request.limit
        BY <3>1, Zenon DEF V2exItemLimit, V2exBrowses
      <4>2. request.limit \in Limits
        BY <1>1, <3>1 DEF V2exCalls, V2exBrowses
      <4> QED
        BY <4>1, <4>2, SourceLimits DEF Limits
    <3>2. CASE request.op = "read.topic"
      <4>1. V2exItemLimit(request) = MaxTopicItems
        <5>1. ~V2exBrowses(request)
          BY <3>2 DEF V2exBrowses
        <5> QED
          BY <3>2, <5>1, Zenon DEF V2exItemLimit
      <4> QED
        BY <4>1, MaxTopicItemsAssumption
    <3>3. CASE ~V2exBrowses(request) /\ request.op # "read.topic"
      <4>1. V2exItemLimit(request) = 1
        BY <3>3, Zenon DEF V2exItemLimit
      <4> QED
        BY <4>1
    <3> QED
      BY <3>1, <3>2, <3>3
  <2> QED
    BY <2>1, <2>2, <2>3, ForkListsAreLists DEF V2exForkLists
<1>2. CASE request \in BilibiliCalls
  <2>1. request.source = "bilibili" /\ BilibiliItemLimit(request) \in Nat
    BY <1>2, SourceLimits DEF BilibiliCalls, BilibiliItemLimit, Limits
  <2>2. ForkItemLists = BilibiliForkLists(request)
    BY <2>1, Zenon DEF ForkItemLists
  <2> QED
    BY <2>1, <2>2, ForkListsAreLists DEF BilibiliForkLists
<1>3. CASE request \in YoutubeCalls
  <2>1. /\ request.source = "youtube"
        /\ request.op = "search.videos" => request.limit \in Nat
    BY <1>3, SourceLimits DEF YoutubeCalls, Limits
  <2>2. ForkItemLists = YoutubeForkLists(request)
    BY <2>1, Zenon DEF ForkItemLists
  <2> DEFINE limit == IF request.op = "search.videos" THEN request.limit ELSE 1
  <2>3. limit \in Nat
    BY <2>1
  <2>4. PICK S : YoutubeForkLists(request) = ForkLists(S, limit)
    BY DEF YoutubeForkLists
  <2> HIDE DEF limit
  <2> QED
    BY <2>1, <2>2, <2>3, <2>4, ForkListsAreLists
<1>4. CASE request \in ExaCalls
  <2>1. request.source = "exa" /\ request.limit \in Nat /\ MaximumItems \in Nat
    BY <1>4, SourceLimits DEF ExaCalls, Limits
  <2>2. ForkItemLists = ExaForkLists(request)
    BY <2>1, Zenon DEF ForkItemLists
  <2>3. ExaItemLimit(request) \in Nat
    BY <2>1, MinOfTwo DEF ExaItemLimit
  <2> QED
    BY <2>1, <2>2, <2>3, ForkListsAreLists DEF ExaForkLists
<1>5. CASE request \in XueqiuAsked
  <2>1. request.source = "xueqiu" /\ request.limit \in Nat
    BY <1>5 DEF XueqiuAsked
  <2>2. ForkItemLists = XueqiuForkLists(request)
    BY <2>1, Zenon DEF ForkItemLists
  <2> QED
    BY <2>1, <2>2, ForkListsAreLists DEF XueqiuForkLists
<1>6. CASE request \in RssAsked
  <2>1. request.source = "rss" /\ request.entries \in Nat
    BY <1>6 DEF RssAsked
  <2>2. ForkItemLists = RssForkLists(request)
    BY <2>1, Zenon DEF ForkItemLists
  <2> QED
    BY <2>1, <2>2, ForkListsAreLists DEF RssForkLists
<1>7. CASE request \in OpencliCalls
  <2>1. request.source = "opencli"
    BY <1>7 DEF OpencliCalls
  <2>2. ForkItemLists = OpencliForkLists(request)
    BY <2>1, Zenon DEF ForkItemLists
  <2>3. OpencliItemLimit(request) \in Nat
    BY <1>7, SocialLimit
  <2>4. OpencliForkItems(request) \subseteq OpencliItems
    <3>1. /\ <<"a", "upper">> \in Names /\ <<"b", "lower">> \in Names
          /\ <<"a", "lower">> \in Names
      BY DEF Names
    <3> DEFINE True == {TRUE}
               Posts == [schema : {"content"}, id : {1},
                         of : {<<"a", "upper">>, <<"b", "lower">>}, whole : BOOLEAN,
                         base : {1}, optional : {1}, text : 0..1, gap : {0},
                         over : {None}, ok : True]
               Replies == [schema : {"reply"}, id : {NoId, 2}, of : {<<"a", "lower">>},
                           whole : True, base : {1}, optional : {0}, text : 0..1,
                           gap : {0}, over : {None}, ok : True]
               Long == [schema : {"reply"}, id : {NoId}, of : {<<"a", "lower">>},
                        whole : True, base : {1}, optional : {0}, text : {2},
                        gap : {1}, over : {None}, ok : True]
               Whole == [schema : {"item"}, id : 1..2,
                         of : {<<"a", "upper">>, <<"b", "lower">>}, whole : True,
                         base : 1..2, optional : {1}, text : {1}, gap : {0},
                         over : {None}, ok : True]
               Odd == [schema : {"item"}, id : {1}, of : {<<"a", "lower">>},
                       whole : True, base : {1}, optional : {0}, text : {0},
                       gap : {0}, over : Cuts, ok : BOOLEAN]
    <3>2. /\ ThreadForkItems = Posts \cup Replies \cup Long
          /\ ListedForkItems = Whole \cup Odd
      BY DEF ThreadForkItems, ListedForkItems
    <3>3. True \subseteq BOOLEAN /\ None \in Cuts
      BY Zenon DEF Cuts
    <3> HIDE DEF True
    <3>4. ASSUME NEW item \in Posts
          PROVE  item \in OpencliItems
      BY <3>1, <3>3 DEF OpencliItems
    <3>5. ASSUME NEW item \in Replies
          PROVE  item \in OpencliItems
      BY <3>1, <3>3 DEF OpencliItems, NoId
    <3>6. ASSUME NEW item \in Long
          PROVE  item \in OpencliItems
      BY <3>1, <3>3 DEF OpencliItems, NoId
    <3>7. ASSUME NEW item \in Whole
          PROVE  item \in OpencliItems
      BY <3>1, <3>3 DEF OpencliItems
    <3>8. ASSUME NEW item \in Odd
          PROVE  item \in OpencliItems
      BY <3>1, <3>3 DEF OpencliItems
    <3> HIDE DEF Posts, Replies, Long, Whole, Odd
    <3> QED
      BY <3>2, <3>4, <3>5, <3>6, <3>7, <3>8 DEF OpencliForkItems
  <2>5. items \in Seq(OpencliForkItems(request))
    BY <2>2, <2>3, ForkListsAreLists DEF OpencliForkLists
  <2>6. items \in Seq(OpencliItems)
    BY <2>4, <2>5
  <2> QED
    BY <2>6
<1> QED
  BY <1>1, <1>2, <1>3, <1>4, <1>5, <1>6, <1>7 DEF AskedRequests

-----------------------------------------------------------------------------
(* What a result must say of what the fork returned.                       *)

\* A list of items as they were asked for, but for how many there may ever be.
AsRequested(items) ==
    /\ \E S : items \in Seq(S)
    /\ "limit" \in DOMAIN request => Len(items) <= request.limit
    /\ "entries" \in DOMAIN request => Len(items) <= request.entries
    /\ \A i \in 1..Len(items) : items[i].ok /\ Belongs(items[i])
    /\ request.source \in Identified =>
           \A i, j \in 1..Len(items) :
               (/\ i # j
                /\ items[i].schema = items[j].schema
                /\ items[i].schema # "reply") => items[i].id # items[j].id

\* What was left out of a fork's items is told.
Told(forked, items, partial, truncated) ==
    \/ truncated
    \/ partial # None
    \/ /\ Len(items) = Len(forked.items)
       /\ forked.partial = None
       /\ forked.truncated => request.source = "youtube" /\ request.op = "search.videos"

\* A result of a call whose fork returned forked: a failure, or what was asked for.
Answers(adapted, forked) ==
    \/ \E class \in FailureClasses : adapted = Failed(class)
    \/ \E items, partial, truncated :
           /\ adapted = [items |-> items, failure |-> None, partial |-> partial,
                         truncated |-> truncated]
           /\ request \in AskedRequests
           /\ AsRequested(items)
           /\ Told(forked, items, partial, truncated)

\* A success the constructor refuses is a failure of a class.
LEMMA SucceededAnswers ==
    ASSUME NEW forked, NEW items, NEW partial, NEW truncated,
           NEW class \in FailureClasses, request \in AskedRequests,
           AsRequested(items), Told(forked, items, partial, truncated)
    PROVE  Answers(Succeeded(items, partial, truncated, class), forked)
<1> DEFINE made == [items |-> items, failure |-> None, partial |-> partial,
                    truncated |-> truncated]
<1>1. \/ Succeeded(items, partial, truncated, class) = made
      \/ Succeeded(items, partial, truncated, class) = Failed(class)
  BY Zenon DEF Succeeded
<1> HIDE DEF made
<1>2. CASE Succeeded(items, partial, truncated, class) = Failed(class)
  BY <1>2 DEF Answers
<1>3. CASE Succeeded(items, partial, truncated, class) = made
  BY <1>3, Zenon DEF Answers, made
<1> QED
  BY <1>1, <1>2, <1>3

\* Only a feed's worker is asked for entries.
LEMMA OnlyFeedsHaveEntries ==
    ASSUME request \in AskedRequests, request.source # "rss"
    PROVE  "entries" \notin DOMAIN request
BY DEF AskedRequests, V2exCalls, BilibiliCalls, YoutubeCalls, ExaCalls, OpencliCalls,
   XueqiuAsked, RssAsked

\* An item belongs to the target of the call when it is compared with none, or is
\* like the one it is compared with.
LEMMA ItemBelongs ==
    ASSUME request \in AskedRequests, NEW item,
           request.op = "browse.node_topics" =>
               Casefold(item.node) = Casefold(request.node),
           request.op = "read.user" => Casefold(item.name) = Casefold(request.user),
           (request.source = "youtube" /\ request.op # "search.videos") =>
               item.id = request.video,
           (request.op \in Targeted /\ item.schema # "reply") =>
               Casefold(item.of) = Casefold(request.target)
    PROVE  Belongs(item)
<1>1. CASE request.op = "browse.node_topics"
  <2>1. request.op \notin Targeted /\ request.source # "youtube"
    BY <1>1 DEF AskedRequests, V2exCalls, BilibiliCalls, YoutubeCalls, ExaCalls,
       OpencliCalls, XueqiuAsked, RssAsked, Targeted
  <2> QED
    BY <1>1, <2>1, Zenon DEF Belongs
<1>2. CASE request.op = "read.user"
  <2>1. request.op \notin Targeted /\ request.source # "youtube"
    BY <1>2 DEF AskedRequests, V2exCalls, BilibiliCalls, YoutubeCalls, ExaCalls,
       OpencliCalls, XueqiuAsked, RssAsked, Targeted
  <2>2. request.op # "browse.node_topics"
    BY <1>2
  <2> QED
    BY <1>2, <2>1, <2>2, Zenon DEF Belongs
<1>3. CASE request.source = "youtube" /\ request.op # "search.videos"
  <2>1. /\ request.op \notin Targeted
        /\ request.op # "browse.node_topics" /\ request.op # "read.user"
    BY <1>3 DEF AskedRequests, V2exCalls, BilibiliCalls, YoutubeCalls, ExaCalls,
       OpencliCalls, XueqiuAsked, RssAsked, Targeted
  <2> QED
    BY <1>3, <2>1, Zenon DEF Belongs
<1>4. CASE request.op \in Targeted /\ item.schema # "reply"
  <2>1. /\ request.op # "browse.node_topics" /\ request.op # "read.user"
        /\ request.source # "youtube"
    BY <1>4 DEF AskedRequests, V2exCalls, BilibiliCalls, YoutubeCalls, ExaCalls,
       OpencliCalls, XueqiuAsked, RssAsked, Targeted
  <2> QED
    BY <1>4, <2>1, Zenon DEF Belongs
<1>5. CASE /\ request.op # "browse.node_topics" /\ request.op # "read.user"
           /\ ~(request.source = "youtube" /\ request.op # "search.videos")
           /\ ~(request.op \in Targeted /\ item.schema # "reply")
  BY <1>5, Zenon DEF Belongs
<1> QED
  BY <1>1, <1>2, <1>3, <1>4, <1>5

-----------------------------------------------------------------------------
(* What each source makes of what its fork returned.                       *)

\* The fields of a fork's success.
LEMMA SuccessFields ==
    ASSUME request \in AskedRequests, NEW forked \in Forks, forked.type = "success"
    PROVE  /\ forked.items \in ForkItemLists
           /\ \E S : forked.items \in Seq(S)
           /\ forked.partial \in {None, "permanent"}
<1>1. forked.items \in ForkItemLists /\ forked.partial \in {None, "permanent"}
  BY DEF Forks, ForkSuccess, ForkFailure, ForkForeign
<1> QED
  BY <1>1, ForkReturnsList

\* A list without its head.
LEMMA TailOfList ==
    ASSUME NEW S, NEW items \in Seq(S), items # <<>>
    PROVE  \A i \in 2..Len(items) :
               i - 1 \in DOMAIN Tail(items) /\ Tail(items)[i - 1] = items[i]
OBVIOUS

\* What the parent of a V2EX worker accepts is what was asked for.
LEMMA V2exItems ==
    ASSUME request \in AskedRequests, request.source = "v2ex",
           NEW S, NEW items \in Seq(S), NEW partial,
           AllDecode(items), V2exSequence(request, items, partial)
    PROVE  AsRequested(items)
<1>1. request \in V2exCalls
  BY DEF AskedRequests, V2exCalls, BilibiliCalls, YoutubeCalls, ExaCalls,
     OpencliCalls, XueqiuAsked, RssAsked
<1>2. DOMAIN items = 1..Len(items)
  OBVIOUS
<1>3. /\ request.op \notin Targeted /\ request.source # "youtube"
      /\ "limit" \in DOMAIN request => V2exBrowses(request)
  BY <1>1 DEF V2exCalls, Targeted, V2exBrowses
<1>4. Len(items) <= V2exItemLimit(request) /\ "entries" \notin DOMAIN request
  BY OnlyFeedsHaveEntries DEF V2exSequence
<1>5. CASE V2exBrowses(request)
  <2>0. request.op # "read.topic"
    BY <1>5 DEF V2exBrowses
  <2>1. /\ OfSchema(items, "topic") /\ Distinct(items)
        /\ request.op = "browse.node_topics" =>
               \A i \in DOMAIN items : Casefold(items[i].node) = Casefold(request.node)
    BY <1>5, <2>0, Zenon DEF V2exSequence
  <2>2. V2exItemLimit(request) = request.limit
    BY <1>5, <2>0, Zenon DEF V2exItemLimit
  <2>3. request.op # "read.user"
    BY <1>5 DEF V2exBrowses
  <2>4. \A i \in 1..Len(items) : Belongs(items[i])
    BY <1>2, <1>3, <2>1, <2>3, ItemBelongs
  <2>5. \A i, j \in 1..Len(items) : i # j => items[i].id # items[j].id
    BY <2>1, DistinctIdentifiers
  <2> QED
    BY <1>2, <1>4, <2>2, <2>4, <2>5 DEF AsRequested, AllDecode
<1>6. CASE request.op = "read.topic"
  <2>0. ~V2exBrowses(request)
    BY <1>6 DEF V2exBrowses
  <2>1. items # <<>> /\ items[1].schema = "topic" /\ OfSchema(Tail(items), "reply")
    BY <1>6, <2>0, Zenon DEF V2exSequence
  <2>2. \A i \in 1..Len(items) : i = 1 \/ items[i].schema = "reply"
    <3>1. \A i \in 1..Len(items) : i = 1 \/ i \in 2..Len(items)
      OBVIOUS
    <3>2. \A i \in 2..Len(items) :
            i - 1 \in DOMAIN Tail(items) /\ Tail(items)[i - 1] = items[i]
      BY <2>1, TailOfList, Zenon
    <3>3. \A i \in 2..Len(items) : items[i].schema = "reply"
      <4> DEFINE tail == Tail(items)
      <4>1. \A k \in DOMAIN tail : tail[k].schema = "reply"
        BY <2>1, Zenon DEF OfSchema
      <4>2. \A i \in 2..Len(items) : i - 1 \in DOMAIN tail /\ tail[i - 1] = items[i]
        BY <3>2, Zenon
      <4> HIDE DEF tail
      <4> QED
        BY <4>1, <4>2
    <3> QED
      BY <3>1, <3>3
  <2>3. \A i \in 1..Len(items) : Belongs(items[i])
    BY <1>3, <1>6, ItemBelongs
  <2>4. \A i, j \in 1..Len(items) :
          (i # j /\ items[i].schema = items[j].schema) => items[i].schema = "reply"
    BY <2>2
  <2> QED
    BY <1>2, <1>3, <1>4, <2>0, <2>3, <2>4 DEF AsRequested, AllDecode
<1>7. CASE request.op = "read.user"
  <2>0. ~V2exBrowses(request) /\ request.op # "read.topic"
    BY <1>7 DEF V2exBrowses
  <2>1. Len(items) = 1 /\ Casefold(items[1].name) = Casefold(request.user)
    BY <1>7, <2>0, Zenon DEF V2exSequence
  <2>2. \A i \in 1..Len(items) : i = 1
    BY <2>1
  <2>3. \A i \in 1..Len(items) : Belongs(items[i])
    BY <1>3, <1>7, <2>1, <2>2, ItemBelongs
  <2> QED
    BY <1>2, <1>3, <1>4, <2>0, <2>2, <2>3 DEF AsRequested, AllDecode
<1> QED
  BY <1>1, <1>5, <1>6, <1>7 DEF V2exCalls, V2exBrowses

\* The answer of a V2EX worker whose fork succeeded.
LEMMA V2exAnswers ==
    ASSUME request \in AskedRequests, request.source = "v2ex",
           NEW forked \in Forks, forked.type = "success",
           NEW answer, answer = V2exWorker(request, forked)
    PROVE  /\ answer.type \in {"success", "failure"}
           /\ V2exDecode(request, answer) = answer
           /\ Answers(V2exAdapted(answer), forked)
<1> DEFINE accepted == /\ forked.identity /\ forked.fits
                       /\ V2exPartialAllowed(request, forked.partial)
                       /\ AllDecode(forked.items)
                       /\ V2exSequence(request, forked.items, forked.partial)
<1>1. CASE accepted
  <2>1. answer = Success(forked.items, forked.partial, forked.truncated)
    BY <1>1, Zenon DEF V2exWorker
  <2>2. /\ answer.type = "success" /\ answer.items = forked.items
        /\ answer.partial = forked.partial /\ answer.truncated = forked.truncated
    BY <2>1 DEF Success
  <2>3. V2exDecode(request, answer) = answer
    BY <1>1, <2>2, Zenon DEF V2exDecode
  <2> DEFINE partial == IF answer.partial = None THEN None
                        ELSE V2exPartialClass(answer.partial)
  <2>4. V2exAdapted(answer) =
            Succeeded(forked.items, partial, forked.truncated, "permanent")
    BY <2>2, Zenon DEF V2exAdapted
  <2>5. forked.partial # None => partial # None
    <3>1. V2exPartialClass("permanent") = "permanent"
      BY Zenon DEF V2exPartialClass
    <3> QED
      BY <2>2, <3>1, SuccessFields DEF None
  <2>6. AsRequested(forked.items)
    BY <1>1, SuccessFields, V2exItems
  <2> HIDE DEF partial
  <2>7. Told(forked, forked.items, partial, forked.truncated)
    BY <2>5, SuccessFields DEF Told
  <2> QED
    BY <2>2, <2>3, <2>4, <2>6, <2>7, SucceededAnswers DEF FailureClasses
<1>2. CASE ~accepted
  <2>1. answer = Failure("backend_contract_violation")
    BY <1>2 DEF V2exWorker
  <2>2. answer.type = "failure" /\ answer.code = "backend_contract_violation"
    BY <2>1 DEF Failure
  <2>3. V2exDecode(request, answer) = answer
    BY <2>2 DEF V2exDecode, V2exErrorCodes, SharedErrorCodes
  <2>4. V2exAdapted(answer) = Failed("permanent")
    <3>1. V2exFailureClass("backend_contract_violation") = "permanent"
      BY DEF V2exFailureClass
    <3> QED
      BY <2>2, <3>1, Zenon DEF V2exAdapted
  <2> QED
    BY <2>2, <2>3, <2>4 DEF Answers, FailureClasses
<1> QED
  BY <1>1, <1>2

\* The answer of a Bilibili worker whose fork succeeded.
LEMMA BilibiliAnswers ==
    ASSUME request \in AskedRequests, request.source = "bilibili",
           NEW forked \in Forks, forked.type = "success",
           NEW answer, answer = BilibiliWorker(request, forked)
    PROVE  /\ answer.type \in {"success", "failure"}
           /\ BilibiliDecode(request, answer) = answer
           /\ Answers(BilibiliAdapted(answer), forked)
<1> DEFINE accepted == /\ forked.identity
                       /\ forked.partial = None
                       /\ BilibiliSized(request, forked.items)
                       /\ OfSchema(forked.items, "video")
                       /\ AllDecode(forked.items)
<1>1. CASE accepted
  <2>1. answer = Success(forked.items, None, forked.truncated)
    BY <1>1, Zenon DEF BilibiliWorker
  <2>2. /\ answer.type = "success" /\ answer.items = forked.items
        /\ answer.partial = None /\ answer.truncated = forked.truncated
    BY <2>1 DEF Success
  <2>3. BilibiliDecode(request, answer) = answer
    BY <1>1, <2>2, Zenon DEF BilibiliDecode
  <2>4. BilibiliAdapted(answer) =
            Succeeded(forked.items, None, forked.truncated, "permanent")
    BY <2>2, Zenon DEF BilibiliAdapted
  <2>5. AsRequested(forked.items)
    <3>1. request \in BilibiliCalls
      BY DEF AskedRequests, V2exCalls, BilibiliCalls, YoutubeCalls, ExaCalls,
         OpencliCalls, XueqiuAsked, RssAsked
    <3>2. /\ request.op \notin Targeted /\ request.source # "youtube"
          /\ request.op # "browse.node_topics" /\ request.op # "read.user"
          /\ request.source \notin Identified
          /\ "limit" \in DOMAIN request => request.op # "read.video"
      BY <3>1 DEF BilibiliCalls, Targeted, Identified
    <3>3. PICK S : forked.items \in Seq(S)
      BY SuccessFields
    <3>4. DOMAIN forked.items = 1..Len(forked.items)
      BY <3>3
    <3>5. \A i \in 1..Len(forked.items) : forked.items[i].ok /\ Belongs(forked.items[i])
      BY <1>1, <3>2, <3>4, ItemBelongs DEF AllDecode
    <3>6. "limit" \in DOMAIN request => Len(forked.items) <= request.limit
      BY <1>1, <3>2 DEF BilibiliSized, BilibiliItemLimit
    <3> QED
      BY <3>2, <3>3, <3>5, <3>6, OnlyFeedsHaveEntries DEF AsRequested
  <2>6. Told(forked, forked.items, None, forked.truncated)
    BY <1>1 DEF Told
  <2> QED
    BY <2>2, <2>3, <2>4, <2>5, <2>6, SucceededAnswers DEF FailureClasses
<1>2. CASE ~accepted
  <2>1. answer = Failure("backend_contract_violation")
    BY <1>2 DEF BilibiliWorker
  <2>2. answer.type = "failure" /\ answer.code = "backend_contract_violation"
    BY <2>1 DEF Failure
  <2>3. BilibiliDecode(request, answer) = answer
    BY <2>2 DEF BilibiliDecode, BilibiliErrorCodes, SharedErrorCodes
  <2>4. BilibiliAdapted(answer) = Failed("permanent")
    <3>1. BilibiliFailureClass("backend_contract_violation") = "permanent"
      BY DEF BilibiliFailureClass
    <3> QED
      BY <2>2, <3>1, Zenon DEF BilibiliAdapted
  <2> QED
    BY <2>2, <2>3, <2>4 DEF Answers, FailureClasses
<1> QED
  BY <1>1, <1>2

\* The answer of an Exa worker whose fork succeeded.
LEMMA ExaAnswers ==
    ASSUME request \in AskedRequests, request.source = "exa",
           NEW forked \in Forks, forked.type = "success",
           NEW answer, answer = ExaWorker(request, forked)
    PROVE  /\ answer.type \in {"success", "failure"}
           /\ ExaDecode(request, answer) = answer
           /\ Answers(ExaAdapted(answer), forked)
<1> DEFINE accepted == /\ forked.identity /\ forked.fits
                       /\ forked.partial = None
                       /\ Len(forked.items) <= ExaItemLimit(request)
                       /\ OfSchema(forked.items, request.op)
                       /\ AllDecode(forked.items)
<1>1. CASE accepted
  <2>1. answer = Success(forked.items, None, forked.truncated)
    BY <1>1, Zenon DEF ExaWorker
  <2>2. /\ answer.type = "success" /\ answer.items = forked.items
        /\ answer.partial = None /\ answer.truncated = forked.truncated
    BY <2>1 DEF Success
  <2>3. ExaDecode(request, answer) = answer
    BY <1>1, <2>2, Zenon DEF ExaDecode
  <2>4. ExaAdapted(answer) = Succeeded(forked.items, None, forked.truncated, "permanent")
    BY <2>2, Zenon DEF ExaAdapted
  <2>5. AsRequested(forked.items)
    <3>1. request \in ExaCalls
      BY DEF AskedRequests, V2exCalls, BilibiliCalls, YoutubeCalls, ExaCalls,
         OpencliCalls, XueqiuAsked, RssAsked
    <3>2. /\ request.op \notin Targeted /\ request.source # "youtube"
          /\ request.op # "browse.node_topics" /\ request.op # "read.user"
          /\ request.source \notin Identified
          /\ request.limit \in Limits
      BY <3>1 DEF ExaCalls, Targeted, Identified
    <3>3. PICK S : forked.items \in Seq(S)
      BY SuccessFields
    <3>4. DOMAIN forked.items = 1..Len(forked.items)
      BY <3>3
    <3>5. \A i \in 1..Len(forked.items) : forked.items[i].ok /\ Belongs(forked.items[i])
      BY <1>1, <3>2, <3>4, ItemBelongs DEF AllDecode
    <3>6. Len(forked.items) <= request.limit
      <4>1. request.limit \in Nat /\ MaximumItems \in Nat
        BY <3>2, SourceLimits DEF Limits
      <4>2. /\ ExaItemLimit(request) <= request.limit
            /\ ExaItemLimit(request) \in Nat /\ Len(forked.items) \in Nat
        BY <3>3, <4>1, MinOfTwo DEF ExaItemLimit
      <4> QED
        BY <1>1, <4>1, <4>2
    <3> QED
      BY <3>2, <3>3, <3>5, <3>6, OnlyFeedsHaveEntries DEF AsRequested
  <2>6. Told(forked, forked.items, None, forked.truncated)
    BY <1>1 DEF Told
  <2> QED
    BY <2>2, <2>3, <2>4, <2>5, <2>6, SucceededAnswers DEF FailureClasses
<1>2. CASE ~accepted
  <2>1. answer = Failure("backend_contract_violation")
    BY <1>2 DEF ExaWorker
  <2>2. answer.type = "failure" /\ answer.code = "backend_contract_violation"
    BY <2>1 DEF Failure
  <2>3. ExaDecode(request, answer) = answer
    BY <2>2 DEF ExaDecode, ExaErrorCodes, SharedErrorCodes
  <2>4. ExaAdapted(answer) = Failed("permanent")
    <3>1. ExaFailureClass("backend_contract_violation") = "permanent"
      BY DEF ExaFailureClass
    <3> QED
      BY <2>2, <3>1, Zenon DEF ExaAdapted
  <2> QED
    BY <2>2, <2>3, <2>4 DEF Answers, FailureClasses
<1> QED
  BY <1>1, <1>2

\* The answer of a YouTube worker whose fork succeeded: only a search has no word
\* for what the fork left out, and only a blank title is refused by the parent.
LEMMA YoutubeAnswers ==
    ASSUME request \in AskedRequests, request.source = "youtube",
           NEW forked \in Forks, forked.type = "success",
           NEW answer, answer = YoutubeWorker(request, forked)
    PROVE  /\ answer.type \in {"success", "failure"}
           /\ \/ YoutubeDecode(request, answer) = answer
              \/ answer.type = "success" /\ ~TitlesAreRead(request, answer.items)
           /\ Answers(YoutubeAdapted(request, YoutubeDecode(request, answer)), forked)
<1> DEFINE truncated == forked.truncated /\ request.op # "search.videos"
<1>0. request \in YoutubeCalls
  BY DEF AskedRequests, V2exCalls, BilibiliCalls, YoutubeCalls, ExaCalls,
     OpencliCalls, XueqiuAsked, RssAsked
<1>1. CASE YoutubeWorkerAccepts(request, forked) /\ forked.fits
  <2>1. answer = Success(forked.items, None, truncated)
    BY <1>1, Zenon DEF YoutubeWorker
  <2> HIDE DEF truncated
  <2>2. /\ answer.type = "success" /\ answer.items = forked.items
        /\ answer.partial = None /\ answer.truncated = truncated
    BY <2>1 DEF Success
  <2>3. PICK S : forked.items \in Seq(S)
    BY SuccessFields
  <2>4. /\ DOMAIN forked.items = 1..Len(forked.items)
        /\ forked.items = <<>> => Len(forked.items) = 0
    BY <2>3
  <2>5. /\ forked.partial = None /\ AllDecode(forked.items)
        /\ OfSchema(forked.items, YoutubeSchema(request))
        /\ request.op = "search.videos" =>
               Len(forked.items) <= request.limit /\ Distinct(forked.items)
        /\ request.op # "search.videos" =>
               Len(forked.items) = 1 /\ forked.items[1].id = request.video
    BY <1>1 DEF YoutubeWorkerAccepts
  <2>6. \/ YoutubeDecode(request, answer) = answer
        \/ /\ YoutubeDecode(request, answer) = Refused
           /\ ~TitlesAreRead(request, answer.items)
    BY <2>2, <2>5 DEF YoutubeDecode
  <2>7. YoutubeAdapted(request, answer) =
            Succeeded(forked.items, None, truncated, "permanent")
    <3>1. ~(request.op = "read.subtitles" /\ forked.items = <<>>)
      BY <2>4, <2>5
    <3> QED
      BY <2>2, <3>1, Zenon DEF YoutubeAdapted
  <2>8. AsRequested(forked.items)
    <3>1. /\ request.op \notin Targeted
          /\ request.op # "browse.node_topics" /\ request.op # "read.user"
          /\ "limit" \in DOMAIN request => request.op = "search.videos"
      BY <1>0 DEF YoutubeCalls, Targeted
    <3>2. \A i \in 1..Len(forked.items) :
            request.op # "search.videos" => forked.items[i].id = request.video
      BY <2>5
    <3>3. \A i \in 1..Len(forked.items) : forked.items[i].ok /\ Belongs(forked.items[i])
      BY <2>4, <2>5, <3>1, <3>2, ItemBelongs DEF AllDecode
    <3>4. \A i, j \in 1..Len(forked.items) :
            i # j => forked.items[i].id # forked.items[j].id
      <4>1. CASE request.op = "search.videos"
        BY <2>3, <2>5, <4>1, DistinctIdentifiers
      <4>2. CASE request.op # "search.videos"
        BY <2>5, <4>2
      <4> QED
        BY <4>1, <4>2
    <3> QED
      BY <2>3, <2>5, <3>1, <3>3, <3>4, OnlyFeedsHaveEntries DEF AsRequested
  <2>9. Told(forked, forked.items, None, truncated)
    BY <2>5 DEF Told, truncated
  <2>10. Answers(YoutubeAdapted(request, answer), forked)
    BY <2>7, <2>8, <2>9, SucceededAnswers DEF FailureClasses
  <2>11. Answers(YoutubeAdapted(request, Refused), forked)
    <3>1. Refused.type = "refused"
      BY DEF Refused
    <3>2. YoutubeAdapted(request, Refused) = Failed("permanent")
      BY <3>1 DEF YoutubeAdapted
    <3> QED
      BY <3>2 DEF Answers, FailureClasses
  <2> QED
    BY <2>2, <2>6, <2>10, <2>11
<1>2. CASE ~(YoutubeWorkerAccepts(request, forked) /\ forked.fits)
  <2>1. answer = Failure("permanent")
    BY <1>2 DEF YoutubeWorker
  <2>2. answer.type = "failure" /\ answer.code = "permanent"
    BY <2>1 DEF Failure
  <2>3. YoutubeDecode(request, answer) = answer
    BY <2>2 DEF YoutubeDecode, YoutubeErrorCodes
  <2>4. YoutubeAdapted(request, answer) = Failed("permanent")
    <3>1. YoutubeFailureClass("permanent") = "permanent"
      BY DEF YoutubeFailureClass
    <3> QED
      BY <2>2, <3>1, Zenon DEF YoutubeAdapted
  <2> QED
    BY <2>2, <2>3, <2>4 DEF Answers, FailureClasses
<1> QED
  BY <1>1, <1>2

\* The answer of a Xueqiu worker whose fork succeeded, through the Connector.
LEMMA XueqiuAnswers ==
    ASSUME request \in AskedRequests, request.source = "xueqiu",
           NEW forked \in Forks, forked.type = "success",
           NEW answer, answer = XueqiuWorker(request, forked)
    PROVE  /\ answer.type \in {"success", "failure"}
           /\ XueqiuDecode(request, answer) = answer
           /\ Answers(XueqiuAdapted(request, answer), forked)
<1>1. CASE forked.fits /\ XueqiuAccepts(request, forked)
  <2>1. answer = Success(forked.items, None, forked.truncated)
    BY <1>1, Zenon DEF XueqiuWorker
  <2>2. /\ answer.type = "success" /\ answer.items = forked.items
        /\ answer.partial = None /\ answer.truncated = forked.truncated
    BY <2>1 DEF Success
  <2>3. /\ forked.partial = None
        /\ Len(forked.items) <= request.limit
        /\ OfSchema(forked.items, "stock")
        /\ AllDecode(forked.items) /\ Distinct(forked.items)
    BY <1>1 DEF XueqiuAccepts
  <2>4. XueqiuDecode(request, answer) = answer
    BY <2>2, <2>3, Zenon DEF XueqiuDecode
  <2> DEFINE truncated == \/ forked.truncated
                          \/ request.forced
                          \/ \E i \in DOMAIN forked.items : ~forked.items[i].short
             made == XueqiuOperationResult(request, answer)
  <2>5. made = [items |-> forked.items, truncated |-> truncated]
    BY <2>2, Zenon DEF XueqiuOperationResult
  <2>6. \/ XueqiuAdapted(request, answer) = Failed("permanent")
        \/ XueqiuAdapted(request, answer) =
               Succeeded(made.items, None, made.truncated, "permanent")
    BY <2>2, Zenon DEF XueqiuAdapted
  <2>7. Told(forked, forked.items, None, truncated)
    BY <2>3 DEF Told
  <2> HIDE DEF truncated
  <2>8. made.items = forked.items /\ made.truncated = truncated
    <3> HIDE DEF made
    <3> QED
      BY <2>5
  <2>9. AsRequested(forked.items)
    <3>1. request \in XueqiuAsked
      BY DEF AskedRequests, V2exCalls, BilibiliCalls, YoutubeCalls, ExaCalls,
         OpencliCalls, XueqiuAsked, RssAsked
    <3>2. /\ request.op \notin Targeted /\ request.source # "youtube"
          /\ request.op # "browse.node_topics" /\ request.op # "read.user"
      BY <3>1 DEF XueqiuAsked, Targeted
    <3>3. PICK S : forked.items \in Seq(S)
      BY SuccessFields
    <3>4. DOMAIN forked.items = 1..Len(forked.items)
      BY <3>3
    <3>5. \A i \in 1..Len(forked.items) : forked.items[i].ok /\ Belongs(forked.items[i])
      BY <2>3, <3>2, <3>4, ItemBelongs DEF AllDecode
    <3>6. \A i, j \in 1..Len(forked.items) :
            i # j => forked.items[i].id # forked.items[j].id
      BY <2>3, <3>3, DistinctIdentifiers
    <3> QED
      BY <2>3, <3>3, <3>5, <3>6, OnlyFeedsHaveEntries DEF AsRequested
  <2>10. Answers(Succeeded(forked.items, None, truncated, "permanent"), forked)
    BY <2>7, <2>9, SucceededAnswers DEF FailureClasses
  <2>11. Answers(XueqiuAdapted(request, answer), forked)
    <3>1. CASE XueqiuAdapted(request, answer) = Failed("permanent")
      BY <3>1 DEF Answers, FailureClasses
    <3>2. CASE XueqiuAdapted(request, answer) =
                   Succeeded(made.items, None, made.truncated, "permanent")
      BY <2>8, <2>10, <3>2, Zenon
    <3> QED
      BY <2>6, <3>1, <3>2
  <2> QED
    BY <2>2, <2>4, <2>11
<1>2. CASE ~(forked.fits /\ XueqiuAccepts(request, forked))
  <2>1. answer = Failure("backend_contract_violation")
    BY <1>2 DEF XueqiuWorker
  <2>2. answer.type = "failure" /\ answer.code = "backend_contract_violation"
    BY <2>1 DEF Failure
  <2>3. XueqiuDecode(request, answer) = answer
    BY <2>2 DEF XueqiuDecode, XueqiuErrorCodes, SharedErrorCodes
  <2>4. XueqiuAdapted(request, answer) = Failed("permanent")
    <3>1. ConnectorFailureClass("backend_contract_violation") = "permanent"
      BY DEF ConnectorFailureClass
    <3> QED
      BY <2>2, <3>1, Zenon DEF XueqiuAdapted
  <2> QED
    BY <2>2, <2>3, <2>4 DEF Answers, FailureClasses
<1> QED
  BY <1>1, <1>2

\* The answer of an RSS worker whose fork succeeded: an entry without text is left
\* out, and then the listing is a partial one.
LEMMA RssAnswers ==
    ASSUME request \in AskedRequests, request.source = "rss",
           NEW forked \in Forks, forked.type = "success",
           NEW answer, answer = RssWorker(request, forked)
    PROVE  /\ answer.type \in {"success", "failure"}
           /\ RssDecode(request, answer) = answer
           /\ Answers(RssAdapted(request, answer), forked)
<1>1. CASE RssWorkerAccepts(request, forked)
  <2>1. answer = Success(forked.items, forked.partial, forked.truncated)
    BY <1>1, Zenon DEF RssWorker
  <2>2. /\ answer.type = "success" /\ answer.items = forked.items
        /\ answer.partial = forked.partial /\ answer.truncated = forked.truncated
    BY <2>1 DEF Success
  <2>3. RssDecode(request, answer) = answer
    BY <1>1, <2>2, Zenon DEF RssDecode, RssWorkerAccepts
  <2> DEFINE usable == UsableEntries(forked.items)
             dropped == Len(usable) # Len(forked.items)
             partial == IF answer.partial # None \/ dropped THEN "permanent" ELSE None
  <2>4. \/ RssAdapted(request, answer) = Failed("permanent")
        \/ RssAdapted(request, answer) =
               Succeeded(usable, partial, answer.truncated, "transient")
    BY <2>2 DEF RssAdapted
  <2>5. Told(forked, usable, partial, forked.truncated)
    BY <2>2 DEF Told, None
  <2>6. AsRequested(usable)
    <3>1. request \in RssAsked
      BY DEF AskedRequests, V2exCalls, BilibiliCalls, YoutubeCalls, ExaCalls,
         OpencliCalls, XueqiuAsked, RssAsked
    <3>2. /\ request.op \notin Targeted /\ request.source # "youtube"
          /\ request.op # "browse.node_topics" /\ request.op # "read.user"
          /\ request.source \notin Identified
          /\ "limit" \notin DOMAIN request
      BY <3>1 DEF RssAsked, Targeted, Identified
    <3>3. PICK S : forked.items \in Seq(S)
      BY SuccessFields
    <3>4. usable \in Seq(S) /\ EntriesUpTo(forked.items, Len(forked.items), usable)
      BY <3>3, UsableAreEntries
    <3>5. AllDecode(forked.items) /\ DOMAIN forked.items = 1..Len(forked.items)
      BY <1>1, <3>3 DEF RssWorkerAccepts
    <3> HIDE DEF usable
    <3>6. \A j \in 1..Len(usable) : usable[j].ok
      BY <3>4, <3>5 DEF EntriesUpTo, AllDecode
    <3>7. \A j \in 1..Len(usable) : Belongs(usable[j])
      BY <3>2, ItemBelongs
    <3>8. Len(usable) <= request.entries
      <4>1. /\ Len(usable) \in Nat /\ Len(forked.items) \in Nat
            /\ request.entries \in Nat
        BY <3>1, <3>3, <3>4 DEF RssAsked
      <4>2. Len(usable) <= Len(forked.items) /\ Len(forked.items) <= request.entries
        BY <1>1, <3>4 DEF EntriesUpTo, RssWorkerAccepts
      <4> QED
        BY <4>1, <4>2
    <3> QED
      BY <3>2, <3>4, <3>6, <3>7, <3>8 DEF AsRequested
  <2> HIDE DEF usable, partial
  <2>7. Answers(Succeeded(usable, partial, forked.truncated, "transient"), forked)
    BY <2>5, <2>6, SucceededAnswers DEF FailureClasses
  <2>8. Answers(RssAdapted(request, answer), forked)
    <3>1. CASE RssAdapted(request, answer) = Failed("permanent")
      BY <3>1 DEF Answers, FailureClasses
    <3>2. CASE RssAdapted(request, answer) =
                   Succeeded(usable, partial, answer.truncated, "transient")
      BY <2>2, <2>7, <3>2, Zenon
    <3> QED
      BY <2>4, <3>1, <3>2
  <2> QED
    BY <2>2, <2>3, <2>8
<1>2. CASE ~RssWorkerAccepts(request, forked)
  <2>1. answer = Failure("backend_contract_violation")
    BY <1>2 DEF RssWorker
  <2>2. answer.type = "failure" /\ answer.code = "backend_contract_violation"
    BY <2>1 DEF Failure
  <2>3. RssDecode(request, answer) = answer
    BY <2>2 DEF RssDecode, RssErrorCodes, SharedErrorCodes
  <2>4. RssAdapted(request, answer) = Failed("permanent")
    BY <2>2 DEF RssAdapted, RssFailureClass
  <2> QED
    BY <2>2, <2>3, <2>4 DEF Answers, FailureClasses
<1> QED
  BY <1>1, <1>2

\* What the parent of a social worker accepts is what was asked for.
LEMMA SocialItems ==
    ASSUME request \in OpencliCalls, NEW S, NEW items \in Seq(S),
           AllDecode(items), Len(items) <= OpencliItemLimit(request),
           OpencliSequence(request, items)
    PROVE  AsRequested(items)
<1>1. DOMAIN items = 1..Len(items)
  OBVIOUS
<1>2. /\ request.source # "youtube" /\ request \in AskedRequests
      /\ request.op # "browse.node_topics" /\ request.op # "read.user"
  BY DEF OpencliCalls, AskedRequests
<1>3. /\ "limit" \in DOMAIN request => Len(items) <= request.limit
      /\ "entries" \notin DOMAIN request
  <2>1. Len(items) \in Nat /\ request.source = "opencli"
    BY DEF OpencliCalls
  <2> QED
    BY <1>2, <2>1, SocialLimit, OnlyFeedsHaveEntries
<1>4. CASE Shape(request.op) = "thread"
  <2>1. /\ items # <<>> /\ Belonging(request, items[1])
        /\ OfSchema(Tail(items), "reply")
    BY <1>4 DEF OpencliSequence, ThreadSequence
  <2>2. \A i \in 1..Len(items) : i = 1 \/ items[i].schema = "reply"
    <3> DEFINE tail == Tail(items)
    <3>1. \A i \in 1..Len(items) : i = 1 \/ i \in 2..Len(items)
      OBVIOUS
    <3>2. \A i \in 2..Len(items) : i - 1 \in DOMAIN tail /\ tail[i - 1] = items[i]
      BY <2>1, TailOfList, Zenon
    <3>3. \A k \in DOMAIN tail : tail[k].schema = "reply"
      BY <2>1, Zenon DEF OfSchema
    <3> HIDE DEF tail
    <3> QED
      BY <3>1, <3>2, <3>3
  <2>3. \A i \in 1..Len(items) : Belongs(items[i])
    <3>1. \A i \in 1..Len(items) :
            (request.op \in Targeted /\ items[i].schema # "reply") =>
                Casefold(items[i].of) = Casefold(request.target)
      BY <2>1, <2>2 DEF Belonging
    <3> QED
      BY <1>2, <3>1, ItemBelongs
  <2>4. \A i, j \in 1..Len(items) :
          (i # j /\ items[i].schema = items[j].schema) => items[i].schema = "reply"
    BY <2>2
  <2> QED
    BY <1>1, <1>3, <2>3, <2>4 DEF AsRequested, AllDecode
<1>5. CASE Shape(request.op) # "thread"
  <2>1. /\ \A i \in DOMAIN items : Belonging(request, items[i])
        /\ Distinct(items)
    BY <1>5 DEF OpencliSequence, IdentifiedSequence
  <2>2. \A i \in 1..Len(items) : Belongs(items[i])
    BY <1>1, <1>2, <2>1, ItemBelongs DEF Belonging
  <2>3. \A i, j \in 1..Len(items) : i # j => items[i].id # items[j].id
    BY <2>1, DistinctIdentifiers
  <2> QED
    BY <1>1, <1>3, <2>2, <2>3 DEF AsRequested, AllDecode
<1> QED
  BY <1>4, <1>5

\* The answer of a social worker whose fork succeeded, through the Connector: what
\* fits the budget is a list its parent accepts, but for a text cut behind a space,
\* and what does not is told.
LEMMA OpencliAnswers ==
    ASSUME request \in AskedRequests, request.source = "opencli",
           NEW forked \in Forks, forked.type = "success",
           NEW answer, answer = OpencliWorker(request, forked)
    PROVE  /\ answer.type \in {"success", "failure"}
           /\ \/ OpencliDecode(request, answer) = answer
              \/ /\ answer.type = "success"
                 /\ \E i \in DOMAIN answer.items : ~Tidy(answer.items[i])
           /\ Answers(OpencliAdapted(OpencliDecode(request, answer)), forked)
<1> DEFINE fitted == FitBudget(request, forked.items)
           accepted == /\ forked.identity
                       /\ forked.partial = None
                       /\ Len(forked.items) <= OpencliItemLimit(request)
                       /\ OpencliNative(request, forked.items)
           truncated == forked.truncated \/ fitted.truncated
<1>1. CASE accepted /\ OpencliSequence(request, fitted.items)
  <2>0. request \in OpencliCalls
    BY DEF AskedRequests, V2exCalls, BilibiliCalls, YoutubeCalls, ExaCalls,
       OpencliCalls, XueqiuAsked, RssAsked
  <2>1. answer = Success(fitted.items, None, truncated)
    BY <1>1, Zenon DEF OpencliWorker
  <2>2. forked.items \in Seq(OpencliItems)
    BY SuccessFields, ForkReturnsList
  <2>3. /\ fitted.items \in Seq(OpencliItems)
        /\ Len(fitted.items) <= Len(forked.items)
        /\ TotalCharacters(fitted.items) <= MaxResultCharacters
        /\ ~fitted.truncated => Len(fitted.items) = Len(forked.items)
        /\ AllDecode(forked.items) => AllDecode(fitted.items)
    BY <2>2, BudgetIsKept
  <2>4. AllDecode(forked.items)
    BY <1>1 DEF OpencliNative
  <2>5. OpencliSequence(request, fitted.items) /\ forked.partial = None
    BY <1>1
  <2>6. Len(forked.items) <= OpencliItemLimit(request)
    BY <1>1
  <2>7. Told(forked, fitted.items, None, truncated)
    <3>1. ~truncated => ~forked.truncated /\ ~fitted.truncated
      BY Zenon
    <3> HIDE DEF truncated, fitted
    <3> QED
      BY <2>3, <2>5, <3>1 DEF Told
  <2> HIDE DEF fitted, truncated
  <2>8. /\ answer.type = "success" /\ answer.items = fitted.items
        /\ answer.partial = None /\ answer.truncated = truncated
    BY <2>1 DEF Success
  <2>9. Len(fitted.items) <= OpencliItemLimit(request)
    <3>1. /\ Len(fitted.items) \in Nat /\ Len(forked.items) \in Nat
          /\ OpencliItemLimit(request) \in Nat
      BY <2>0, <2>2, <2>3, SocialLimit
    <3> QED
      BY <2>3, <2>6, <3>1
  <2>10. \/ OpencliDecode(request, answer) = answer
         \/ /\ OpencliDecode(request, answer) = Refused
            /\ \E i \in DOMAIN answer.items : ~Tidy(answer.items[i])
    BY <2>3, <2>5, <2>8, <2>9, Zenon DEF OpencliDecode
  <2>11. \/ OpencliAdapted(answer) = Failed("permanent")
         \/ OpencliAdapted(answer) =
                Succeeded(fitted.items, None, truncated, "permanent")
    BY <2>8, Zenon DEF OpencliAdapted
  <2>12. AsRequested(fitted.items)
    BY <2>0, <2>3, <2>4, <2>5, <2>9, SocialItems
  <2>13. Answers(Succeeded(fitted.items, None, truncated, "permanent"), forked)
    BY <2>7, <2>12, SucceededAnswers DEF FailureClasses
  <2>14. Answers(OpencliAdapted(answer), forked)
    <3>1. CASE OpencliAdapted(answer) = Failed("permanent")
      BY <3>1 DEF Answers, FailureClasses
    <3>2. CASE OpencliAdapted(answer) =
                   Succeeded(fitted.items, None, truncated, "permanent")
      BY <2>13, <3>2, Zenon
    <3> QED
      BY <2>11, <3>1, <3>2
  <2>15. Answers(OpencliAdapted(Refused), forked)
    <3>1. Refused.type = "refused"
      BY DEF Refused
    <3>2. OpencliAdapted(Refused) = Failed("permanent")
      BY <3>1 DEF OpencliAdapted
    <3> QED
      BY <3>2 DEF Answers, FailureClasses
  <2> QED
    BY <2>8, <2>10, <2>14, <2>15, Zenon
<1>2. CASE ~(accepted /\ OpencliSequence(request, fitted.items))
  <2> HIDE DEF fitted
  <2>1. answer = Failure("backend_contract_violation")
    BY <1>2 DEF OpencliWorker, fitted
  <2>2. answer.type = "failure" /\ answer.code = "backend_contract_violation"
    BY <2>1 DEF Failure
  <2>3. OpencliDecode(request, answer) = answer
    BY <2>2 DEF OpencliDecode, OpencliErrorCodes, SharedErrorCodes
  <2>4. OpencliAdapted(answer) = Failed("permanent")
    <3>1. ConnectorFailureClass("backend_contract_violation") = "permanent"
      BY DEF ConnectorFailureClass
    <3> QED
      BY <2>2, <3>1, Zenon DEF OpencliAdapted
  <2> QED
    BY <2>2, <2>3, <2>4 DEF Answers, FailureClasses
<1> QED
  BY <1>1, <1>2

-----------------------------------------------------------------------------
(* What a caller gets.                                                     *)

\* A frame the worker writes of a success is one its parent decodes, and what the
\* adapter makes of it answers the request, whichever source was asked.
LEMMA SuccessIsAnswered ==
    ASSUME request \in AskedRequests,
           NEW forked \in Forks, forked.type = "success", frame = Answer(forked)
    PROVE  /\ frame.type # "broken" => Decoded # Refused \/ ParentAsksMore
           /\ Answers(AdaptedFrom(Decoded), forked)
<1>1. CASE request.source = "v2ex"
  <2>1. frame = V2exWorker(request, forked)
    BY <1>1, Zenon DEF Answer
  <2>2. /\ frame.type \in {"success", "failure"}
        /\ V2exDecode(request, frame) = frame
        /\ Answers(V2exAdapted(frame), forked)
    BY <1>1, <2>1, V2exAnswers
  <2>3. Decoded = frame
    <3>1. ~(frame.type = "broken")
      BY <2>2
    <3> QED
      BY <1>1, <2>2, <3>1, Zenon DEF Decoded
  <2>4. AdaptedFrom(Decoded) = V2exAdapted(frame)
    BY <1>1, <2>3, Zenon DEF AdaptedFrom
  <2> QED
    BY <2>2, <2>3, <2>4 DEF Refused
<1>2. CASE request.source = "rss"
  <2>1. CASE forked.fits
    <3>1. frame = RssWorker(request, forked)
      BY <1>2, <2>1, Zenon DEF Answer
    <3>2. /\ frame.type \in {"success", "failure"}
          /\ RssDecode(request, frame) = frame
          /\ Answers(RssAdapted(request, frame), forked)
      BY <1>2, <3>1, RssAnswers
    <3>3. Decoded = frame
      <4>1. ~(frame.type = "broken")
        BY <3>2
      <4> QED
        BY <1>2, <3>2, <4>1, Zenon DEF Decoded
    <3>4. AdaptedFrom(Decoded) = RssAdapted(request, frame)
      BY <1>2, <3>3, Zenon DEF AdaptedFrom
    <3> QED
      BY <3>2, <3>3, <3>4 DEF Refused
  <2>2. CASE ~forked.fits
    <3>1. frame = Broken("exited")
      BY <1>2, <2>2, Zenon DEF Answer
    <3>2. frame.type = "broken" /\ "exited" \in Breakings
      BY <3>1 DEF Broken, Breakings, Breaks
    <3>3. request.source \in SourceNames
      BY <1>2 DEF SourceNames
    <3>4. \E class \in FailureClasses : AdaptedFrom(Decoded) = Failed(class)
      BY <3>1, <3>2, <3>3, BrokenWorkerIsTold
    <3> QED
      BY <3>2, <3>4 DEF Answers
  <2> QED
    BY <2>1, <2>2
<1>3. CASE request.source = "bilibili"
  <2>1. CASE forked.fits
    <3>1. frame = BilibiliWorker(request, forked)
      BY <1>3, <2>1, Zenon DEF Answer
    <3>2. /\ frame.type \in {"success", "failure"}
          /\ BilibiliDecode(request, frame) = frame
          /\ Answers(BilibiliAdapted(frame), forked)
      BY <1>3, <3>1, BilibiliAnswers
    <3>3. Decoded = frame
      <4>1. ~(frame.type = "broken")
        BY <3>2
      <4> QED
        BY <1>3, <3>2, <4>1, Zenon DEF Decoded
    <3>4. AdaptedFrom(Decoded) = BilibiliAdapted(frame)
      BY <1>3, <3>3, Zenon DEF AdaptedFrom
    <3> QED
      BY <3>2, <3>3, <3>4 DEF Refused
  <2>2. CASE ~forked.fits
    <3>1. frame = Broken("exited")
      BY <1>3, <2>2, Zenon DEF Answer
    <3>2. frame.type = "broken" /\ "exited" \in Breakings
      BY <3>1 DEF Broken, Breakings, Breaks
    <3>3. request.source \in SourceNames
      BY <1>3 DEF SourceNames
    <3>4. \E class \in FailureClasses : AdaptedFrom(Decoded) = Failed(class)
      BY <3>1, <3>2, <3>3, BrokenWorkerIsTold
    <3> QED
      BY <3>2, <3>4 DEF Answers
  <2> QED
    BY <2>1, <2>2
<1>4. CASE request.source = "youtube"
  <2>1. frame = YoutubeWorker(request, forked)
    BY <1>4, Zenon DEF Answer
  <2>2. /\ frame.type \in {"success", "failure"}
        /\ YoutubeDecode(request, frame) = frame \/ ParentAsksMore
        /\ Answers(YoutubeAdapted(request, YoutubeDecode(request, frame)), forked)
    BY <1>4, <2>1, YoutubeAnswers DEF ParentAsksMore
  <2>3. Decoded = YoutubeDecode(request, frame)
    <3>1. ~(frame.type = "broken")
      BY <2>2
    <3> QED
      BY <1>4, <2>2, <3>1, Zenon DEF Decoded
  <2>4. AdaptedFrom(Decoded) = YoutubeAdapted(request, YoutubeDecode(request, frame))
    BY <1>4, <2>3, Zenon DEF AdaptedFrom
  <2> QED
    BY <2>2, <2>3, <2>4 DEF Refused
<1>5. CASE request.source = "exa"
  <2>1. frame = ExaWorker(request, forked)
    BY <1>5, Zenon DEF Answer
  <2>2. /\ frame.type \in {"success", "failure"}
        /\ ExaDecode(request, frame) = frame
        /\ Answers(ExaAdapted(frame), forked)
    BY <1>5, <2>1, ExaAnswers
  <2>3. Decoded = frame
    <3>1. ~(frame.type = "broken")
      BY <2>2
    <3> QED
      BY <1>5, <2>2, <3>1, Zenon DEF Decoded
  <2>4. AdaptedFrom(Decoded) = ExaAdapted(frame)
    BY <1>5, <2>3, Zenon DEF AdaptedFrom
  <2> QED
    BY <2>2, <2>3, <2>4 DEF Refused
<1>6. CASE request.source = "xueqiu"
  <2>1. frame = XueqiuWorker(request, forked)
    BY <1>6, Zenon DEF Answer
  <2>2. /\ frame.type \in {"success", "failure"}
        /\ XueqiuDecode(request, frame) = frame
        /\ Answers(XueqiuAdapted(request, frame), forked)
    BY <1>6, <2>1, XueqiuAnswers
  <2>3. Decoded = frame
    <3>1. ~(frame.type = "broken")
      BY <2>2
    <3> QED
      BY <1>6, <2>2, <3>1, Zenon DEF Decoded
  <2>4. AdaptedFrom(Decoded) = XueqiuAdapted(request, frame)
    BY <1>6, <2>3, Zenon DEF AdaptedFrom
  <2> QED
    BY <2>2, <2>3, <2>4 DEF Refused
<1>7. CASE request.source = "opencli"
  <2>1. frame = OpencliWorker(request, forked)
    BY <1>7, Zenon DEF Answer
  <2>2. /\ frame.type \in {"success", "failure"}
        /\ OpencliDecode(request, frame) = frame \/ ParentAsksMore
        /\ Answers(OpencliAdapted(OpencliDecode(request, frame)), forked)
    BY <1>7, <2>1, OpencliAnswers DEF ParentAsksMore
  <2>3. Decoded = OpencliDecode(request, frame)
    <3>1. ~(frame.type = "broken")
      BY <2>2
    <3> QED
      BY <1>7, <2>2, <3>1, Zenon DEF Decoded
  <2>4. AdaptedFrom(Decoded) = OpencliAdapted(OpencliDecode(request, frame))
    BY <1>7, <2>3, Zenon DEF AdaptedFrom
  <2> QED
    BY <2>2, <2>3, <2>4 DEF Refused
<1>8. request.source \in SourceNames
  BY DEF AskedRequests, V2exCalls, BilibiliCalls, YoutubeCalls, ExaCalls,
     OpencliCalls, XueqiuAsked, RssAsked, SourceNames
<1> QED
  BY <1>1, <1>2, <1>3, <1>4, <1>5, <1>6, <1>7, <1>8 DEF SourceNames

\* A beginning of a list that was asked for is one.
LEMMA BeginningIsRequested ==
    ASSUME request \in AskedRequests, NEW items, AsRequested(items),
           NEW kept \in 0..Len(items)
    PROVE  /\ AsRequested(SubSeq(items, 1, kept))
           /\ Len(SubSeq(items, 1, kept)) = kept
<1> DEFINE some == SubSeq(items, 1, kept)
<1>1. PICK S : items \in Seq(S)
  BY DEF AsRequested
<1>2. /\ some \in Seq(S) /\ Len(some) = kept
      /\ Len(items) \in Nat /\ kept \in Nat /\ kept <= Len(items)
      /\ \A i \in 1..kept : i \in 1..Len(items) /\ some[i] = items[i]
  BY <1>1
<1> HIDE DEF some
<1>3. /\ "limit" \in DOMAIN request => Len(some) <= request.limit
      /\ "entries" \in DOMAIN request => Len(some) <= request.entries
  <2>1. /\ "limit" \in DOMAIN request => request.limit \in Nat
        /\ "entries" \in DOMAIN request => request.entries \in Nat
    BY SourceLimits DEF AskedRequests, V2exCalls, BilibiliCalls, YoutubeCalls, ExaCalls,
       OpencliCalls, XueqiuAsked, RssAsked, Limits
  <2>2. /\ "limit" \in DOMAIN request => Len(items) <= request.limit
        /\ "entries" \in DOMAIN request => Len(items) <= request.entries
    BY DEF AsRequested
  <2> QED
    BY <1>2, <2>1, <2>2
<1>4. \A i \in 1..Len(some) : some[i].ok /\ Belongs(some[i])
  BY <1>2 DEF AsRequested
<1>5. request.source \in Identified =>
        \A i, j \in 1..Len(some) :
            (/\ i # j
             /\ some[i].schema = some[j].schema
             /\ some[i].schema # "reply") => some[i].id # some[j].id
  BY <1>2 DEF AsRequested
<1>6. AsRequested(some)
  BY <1>2, <1>3, <1>4, <1>5 DEF AsRequested
<1> QED
  BY <1>2, <1>6 DEF some

\* What a response must say of what the fork returned.
ResponseSays(reply, forked) ==
    \/ reply.outcome = "error" /\ reply.group.items = <<>>
    \/ /\ Len(reply.group.items) <= MaximumItems
       /\ AsRequested(reply.group.items)
       /\ \/ reply.group.truncated
          \/ reply.outcome = "partial"
          \/ /\ Len(reply.group.items) = Len(forked.items)
             /\ forked.partial = None
             /\ forked.truncated =>
                    request.source = "youtube" /\ request.op = "search.videos"

\* The runner bounds a result that answers to one that does, or tells.
LEMMA BoundAnswers ==
    ASSUME Bound, Answers(result, fork)
    PROVE  ResponseSays(response', fork)
<1>1. /\ response'.group = RunnerGroup(result')
      /\ response'.outcome = ResponseOutcome({RunnerGroup(result').outcome})
  BY DEF Bound, Respond
<1>2. CASE \E class \in FailureClasses : result = Failed(class)
  <2>1. PICK class \in FailureClasses : result = Failed(class)
    BY <1>2
  <2>2. result'.failure = class /\ class # None
    BY <2>1 DEF Bound, Failed, FailureClasses, None
  <2>3. \E truncated : RunnerGroup(result') =
            Group(FailureAvailability(class), <<>>, truncated, ErrorCode(class), "error")
    BY <2>2, Zenon DEF RunnerGroup
  <2>4. RunnerGroup(result').outcome = "error" /\ RunnerGroup(result').items = <<>>
    BY <2>3 DEF Group
  <2>5. response'.outcome = "error" /\ response'.group.items = <<>>
    BY <1>1, <2>4 DEF ResponseOutcome
  <2> QED
    BY <2>5 DEF ResponseSays
<1>3. ASSUME NEW items, NEW partial, NEW truncated,
             result = [items |-> items, failure |-> None, partial |-> partial,
                       truncated |-> truncated],
             request \in AskedRequests, AsRequested(items),
             Told(fork, items, partial, truncated)
      PROVE  ResponseSays(response', fork)
  <2> DEFINE most == Min({Len(items), MaximumItems})
             selected == SubSeq(items, 1, most)
  <2>1. /\ Len(items) \in Nat /\ MaximumItems \in Nat
        /\ result.items = items
    BY <1>3, SourceLimits DEF AsRequested
  <2>2. most \in 0..Len(items) /\ most <= MaximumItems
    BY <2>1, MinOfTwo
  <2>3. PICK kept \in 0..Len(selected), cut \in BOOLEAN :
          result' = [result EXCEPT
                        !.items = SubSeq(selected, 1, kept),
                        !.truncated = @ \/ cut \/ Len(items) > kept]
    BY <2>1 DEF Bound
  <2> HIDE DEF most
  <2>4. AsRequested(selected) /\ Len(selected) = most
    BY <1>3, <2>2, BeginningIsRequested
  <2> HIDE DEF selected
  <2> DEFINE some == SubSeq(selected, 1, kept)
             told == truncated \/ cut \/ Len(items) > kept
  <2>5. AsRequested(some) /\ Len(some) = kept
    BY <1>3, <2>4, BeginningIsRequested
  <2> HIDE DEF some
  <2>6. kept \in Nat /\ kept <= MaximumItems /\ kept <= Len(items)
    BY <2>1, <2>2, <2>3, <2>4
  <2>7. result' = [items |-> some, failure |-> None, partial |-> partial,
                   truncated |-> told]
    BY <1>3, <2>3 DEF some
  <2> HIDE DEF told
  <2>8. /\ result'.items = some /\ result'.failure = None
        /\ result'.partial = partial /\ result'.truncated = told
    BY <2>7
  <2>9. CASE partial # None
    <3>1. RunnerGroup(result') =
            Group("degraded", some, told, "partial_source_result", "partial")
      BY <2>8, <2>9, Zenon DEF RunnerGroup
    <3>2. RunnerGroup(result').items = some /\ RunnerGroup(result').outcome = "partial"
      BY <3>1 DEF Group
    <3>3. ResponseOutcome({"partial"}) = "partial"
      <4>1. "partial" \in {"partial"} \cap {"ok", "partial"} /\ {"partial"} # {"ok"}
        OBVIOUS
      <4> QED
        BY <4>1 DEF ResponseOutcome
    <3>4. response'.group.items = some /\ response'.outcome = "partial"
      BY <1>1, <3>2, <3>3
    <3> QED
      BY <2>5, <2>6, <3>4 DEF ResponseSays
  <2>10. CASE partial = None
    <3>1. RunnerGroup(result') = Group("available", some, told, None, "ok")
      BY <2>8, <2>10, Zenon DEF RunnerGroup
    <3>2. response'.group.items = some /\ response'.group.truncated = told
      BY <1>1, <3>1 DEF Group
    <3>3. CASE told
      BY <2>5, <2>6, <3>2, <3>3 DEF ResponseSays
    <3>4. CASE ~told
      <4>1. ~truncated /\ ~(Len(items) > kept)
        BY <3>4 DEF told
      <4>2. /\ Len(items) = Len(fork.items)
            /\ fork.partial = None
            /\ fork.truncated =>
                   request.source = "youtube" /\ request.op = "search.videos"
        BY <1>3, <2>10, <4>1 DEF Told
      <4>3. Len(some) = Len(fork.items)
        BY <2>1, <2>5, <2>6, <4>1, <4>2
      <4> QED
        BY <2>5, <2>6, <3>2, <4>2, <4>3 DEF ResponseSays
    <3> QED
      BY <3>3, <3>4
  <2> QED
    BY <2>9, <2>10
<1> QED
  BY <1>2, <1>3, Zenon DEF Answers

\* No frame is there before a worker is asked; a request is one the adapters make;
\* a frame is the answer to what the fork returned, and a result answers it.
AnswerInv ==
    /\ stage \in {"called", "fetching"} => frame = Absent
    /\ stage = "fetching" => request \in RssCalls
    /\ stage \in {"asked", "answered"} \/ frame # Absent => request \in AskedRequests
    /\ stage = "answered" /\ fork # Absent => fork \in Forks /\ frame = Answer(fork)
    /\ stage = "adapted" => Answers(result, fork)
    /\ AnswerIsRequested
    /\ LossIsTold

\* A response that says what it must satisfies both properties of what is done.
LEMMA ResponseIsTrue ==
    (/\ ResponseSays(response, fork)
     /\ frame # Absent => request \in AskedRequests)
    => AnswerIsRequested /\ LossIsTold
<1> SUFFICES ASSUME ResponseSays(response, fork),
                    frame # Absent => request \in AskedRequests
             PROVE  AnswerIsRequested /\ LossIsTold
  OBVIOUS
<1> DEFINE items == response.group.items
<1>1. CASE response.outcome = "error" /\ items = <<>>
  <2>1. /\ frame # Absent /\ "limit" \in DOMAIN request => request.limit \in Nat
        /\ frame # Absent /\ "entries" \in DOMAIN request => request.entries \in Nat
    BY SourceLimits DEF AskedRequests, V2exCalls, BilibiliCalls, YoutubeCalls, ExaCalls,
       OpencliCalls, XueqiuAsked, RssAsked, Limits
  <2>2. Len(items) = 0 /\ DOMAIN items = {} /\ MaximumItems \in Nat
    BY <1>1, SourceLimits
  <2> QED
    BY <1>1, <2>1, <2>2 DEF AnswerIsRequested, LossIsTold
<1>2. CASE /\ Len(items) <= MaximumItems
           /\ AsRequested(items)
           /\ \/ response.group.truncated
              \/ response.outcome = "partial"
              \/ /\ Len(items) = Len(fork.items)
                 /\ fork.partial = None
                 /\ fork.truncated =>
                        request.source = "youtube" /\ request.op = "search.videos"
  <2>1. DOMAIN items = 1..Len(items)
    BY <1>2 DEF AsRequested
  <2>2. AnswerIsRequested
    BY <1>2, <2>1 DEF AnswerIsRequested, AsRequested
  <2>3. LossIsTold
    BY <1>2 DEF LossIsTold
  <2> QED
    BY <2>2, <2>3
<1> QED
  BY <1>1, <1>2 DEF ResponseSays

\* The same of the state after a step.
LEMMA ResponseIsTrueThen ==
    (/\ ResponseSays(response, fork)
     /\ frame # Absent => request \in AskedRequests)'
    => (AnswerIsRequested /\ LossIsTold)'
BY ResponseIsTrue, PTL

\* One step keeps the invariant, where what is told of failures holds before and
\* after it.
LEMMA AnswerStep ==
    ASSUME AnswerInv, ToldInv, ToldInv', [Next]_vars
    PROVE  AnswerInv'
<1> USE DEF AnswerInv
<1>1. CASE TurnAway
  <2>1. PICK availability :
          response' = [type |-> "response", outcome |-> ResponseOutcome({"error"}),
                       group |-> UnavailableGroup(availability)]
    BY <1>1 DEF TurnAway, Respond, UnavailableGroup, Group
  <2>2. response'.outcome = "error"
    BY <2>1 DEF ResponseOutcome
  <2>3. stage' = "done" /\ frame' = frame /\ frame = Absent
    BY <1>1 DEF TurnAway
  <2> QED
    BY <2>2, <2>3 DEF AnswerIsRequested, LossIsTold
<1>2. CASE Prepare
  <2>1. /\ stage = "called" /\ request \in AllCalls /\ frame = Absent
        /\ frame' = frame /\ fork' = fork /\ fork = Absent
    BY <1>2 DEF Prepare, ToldInv
  <2>2. CASE request.source # "rss"
    <3>1. stage' = "asked" /\ request' = Prepared(request)
      BY <1>2, <2>2, Zenon DEF Prepare, Ask
    <3>2. request' \in AskedRequests
      BY <2>1, <2>2, <3>1, PreparedIsAsked
    <3> QED
      BY <2>1, <3>1, <3>2 DEF AnswerIsRequested, LossIsTold
  <2>3. CASE request.source = "rss"
    <3>1. \/ stage' = "fetching" /\ request' = request
          \/ stage' = "adapted" /\ request' = request
      BY <1>2, <2>3, Zenon DEF Prepare, Refuse
    <3>2. request \in RssCalls
      BY <2>1, <2>3, FeedCall
    <3>3. stage' = "adapted" => Answers(result, fork)'
      <4>1. stage' = "adapted" => ResultTells'
        BY <2>1 DEF ToldInv, Absent
      <4> QED
        BY <4>1 DEF ResultTells, Answers
    <3> QED
      BY <2>1, <3>1, <3>2, <3>3 DEF AnswerIsRequested, LossIsTold
  <2> QED
    BY <2>2, <2>3
<1>3. CASE FetchHop
  <2>1. /\ stage = "fetching" /\ request \in RssCalls /\ frame = Absent
        /\ frame' = frame /\ fork' = fork /\ fork = Absent
    BY <1>3 DEF FetchHop, ToldInv
  <2>2. PICK lookup \in Lookups(Last(hops).host), exchange \in Exchanges :
          LET failure == FetchFailure(Last(hops), Len(hops) - 1, lookup, exchange)
          IN  \/ Refuse(failure)
              \/ UNCHANGED <<stage, request, attempt, result>>
              \/ \E document \in RssDocuments :
                     LET prepared == RssPrepared(request, document)
                     IN  IF IsResult(prepared)
                         THEN Refuse(prepared.failure) ELSE Ask(prepared)
    BY <1>3, Zenon DEF FetchHop
  <2>3. \/ stage' = "adapted" /\ request' = request
        \/ stage' = "fetching" /\ request' = request
        \/ stage' = "asked" /\ request' = RssRequest(request)
    <3>1. CASE \E failure : Refuse(failure)
      BY <3>1 DEF Refuse
    <3>2. CASE UNCHANGED <<stage, request, attempt, result>>
      BY <2>1, <3>2
    <3>3. CASE \E document \in RssDocuments :
                   LET prepared == RssPrepared(request, document)
                   IN  IF IsResult(prepared)
                       THEN Refuse(prepared.failure) ELSE Ask(prepared)
      <4>1. PICK document \in RssDocuments :
              LET prepared == RssPrepared(request, document)
              IN  IF IsResult(prepared)
                  THEN Refuse(prepared.failure) ELSE Ask(prepared)
        BY <3>3
      <4> DEFINE prepared == RssPrepared(request, document)
      <4>2. \/ prepared = RssRequest(request) \/ prepared = Failed("permanent")
        BY DEF RssPrepared
      <4>3. \/ Refuse(prepared.failure)
            \/ ~IsResult(prepared) /\ Ask(prepared)
        BY <4>1
      <4> HIDE DEF prepared
      <4>4. IsResult(Failed("permanent"))
        BY DEF IsResult, Failed
      <4>5. Ask(prepared) => stage' = "asked" /\ request' = prepared
        BY DEF Ask
      <4>6. Refuse(prepared.failure) => stage' = "adapted" /\ request' = request
        BY DEF Refuse
      <4> QED
        BY <4>2, <4>3, <4>4, <4>5, <4>6
    <3> QED
      BY <2>2, <3>1, <3>2, <3>3
  <2>4. stage' = "asked" => request' \in AskedRequests
    BY <2>1, <2>3, FeedIsAsked
  <2>5. stage' = "adapted" => Answers(result, fork)'
    <3>1. stage' = "adapted" => ResultTells'
      BY <2>1 DEF ToldInv, Absent
    <3> QED
      BY <3>1 DEF ResultTells, Answers
  <2> QED
    BY <2>1, <2>3, <2>4, <2>5 DEF AnswerIsRequested, LossIsTold
<1>4. CASE WorkerAnswers
  <2>1. /\ stage = "asked" /\ stage' = "answered" /\ request' = request
        /\ fork' \in Forks /\ frame' = Answer(fork')
    BY <1>4 DEF WorkerAnswers
  <2>2. Answer(fork') = Answer(fork)'
    BY <2>1 DEF Answer
  <2>3. Forks' = Forks
    BY <2>1 DEF Forks, ForkItemLists
  <2> QED
    BY <2>1, <2>2, <2>3 DEF AnswerIsRequested, LossIsTold
<1>5. CASE WorkerBreaks
  <2>1. /\ stage = "asked" /\ stage' = "answered" /\ request' = request
        /\ fork' = fork /\ fork = Absent
    BY <1>5 DEF WorkerBreaks, ToldInv
  <2> QED
    BY <2>1 DEF AnswerIsRequested, LossIsTold
<1>6. CASE AskAgain
  BY <1>6 DEF AskAgain, AnswerIsRequested, LossIsTold
<1>7. CASE Receive
  <2>1. /\ stage = "answered" /\ stage' = "adapted"
        /\ UNCHANGED <<request, fork, frame>>
        /\ result' = AdaptedFrom(Decoded)
        /\ request \in AskedRequests
    BY <1>7 DEF Receive
  <2>2. CASE fork.type = "success"
    <3>1. fork # Absent
      BY <2>2 DEF Absent
    <3>2. fork \in Forks /\ frame = Answer(fork)
      BY <2>1, <3>1
    <3>3. Answers(AdaptedFrom(Decoded), fork)
      BY <2>1, <2>2, <3>2, SuccessIsAnswered
    <3> DEFINE adapted == AdaptedFrom(Decoded)
    <3>4. result' = adapted /\ Answers(adapted, fork)
      BY <2>1, <3>3
    <3> HIDE DEF adapted
    <3>5. Answers(result, fork)'
      BY <2>1, <3>4 DEF Answers, AsRequested, Told, Belongs
    <3> QED
      BY <2>1, <3>5 DEF AnswerIsRequested, LossIsTold
  <2>3. CASE fork.type # "success"
    <3>1. ResultTells'
      BY <2>1, <2>3 DEF ToldInv
    <3>2. Answers(result, fork)'
      BY <3>1 DEF ResultTells, Answers
    <3> QED
      BY <2>1, <3>2 DEF AnswerIsRequested, LossIsTold
  <2> QED
    BY <2>2, <2>3
<1>8. CASE Bound
  <2>1. /\ stage = "adapted" /\ stage' = "done" /\ UNCHANGED <<request, fork, frame>>
        /\ Answers(result, fork)
    BY <1>8 DEF Bound
  <2>2. ResponseSays(response', fork)
    BY <1>8, <2>1, BoundAnswers
  <2>3. ResponseSays(response, fork)'
    BY <2>1, <2>2 DEF ResponseSays, AsRequested, Belongs
  <2>4. (frame # Absent => request \in AskedRequests)'
    BY <2>1
  <2>5. (AnswerIsRequested /\ LossIsTold)'
    BY <2>3, <2>4, ResponseIsTrueThen
  <2> QED
    BY <2>1, <2>4, <2>5
<1>9. CASE Finished \/ UNCHANGED vars
  <2>1. UNCHANGED vars
    BY <1>9 DEF Finished
  <2>2. UNCHANGED <<stage, request, fork, frame, result, response>>
    BY <2>1 DEF vars
  <2>3. /\ Forks' = Forks
        /\ Answer(fork)' = Answer(fork)
    BY <2>2 DEF Forks, ForkItemLists, Answer
  <2>4. stage = "adapted" => Answers(result, fork)'
    BY <2>2 DEF Answers, AsRequested, Told, Belongs
  <2>5. AnswerIsRequested' /\ LossIsTold'
    BY <2>2 DEF AnswerIsRequested, LossIsTold, Belongs
  <2> QED
    BY <2>2, <2>3, <2>4, <2>5
<1> QED
  BY <1>1, <1>2, <1>3, <1>4, <1>5, <1>6, <1>7, <1>8, <1>9 DEF Next

\* The invariant is inductive beside that of the failures.
LEMMA AnswerInvariance == Spec => []AnswerInv
<1>1. Init => AnswerInv
  BY DEF Init, AnswerInv, AnswerIsRequested, LossIsTold
<1>2. AnswerInv /\ ToldInv /\ ToldInv' /\ [Next]_vars => AnswerInv'
  BY AnswerStep
<1> QED
  BY <1>1, <1>2, ToldInvariance, PTL DEF Spec

\* Whatever a fork returned, a frame its worker wrote is one the parent decodes: the
\* checks of execute_request and of decode_response, written twice for every source,
\* agree, for any lists of items, limits and budget of characters. They differ on the
\* blank title of a video and on a social text cut behind a space, and on nothing
\* else.
THEOREM ParentAccepts == Spec => []ParentAcceptsWorker
<1>1. AnswerInv /\ ToldInv => ParentAcceptsWorker
  <2> SUFFICES ASSUME AnswerInv, ToldInv, stage = "answered", fork # Absent,
                      frame.type # "broken"
               PROVE  Decoded # Refused \/ ParentAsksMore
    BY DEF ParentAcceptsWorker
  <2>1. request \in AskedRequests /\ fork \in Forks /\ frame = Answer(fork)
    BY DEF AnswerInv
  <2>2. CASE fork.type = "success"
    BY <2>1, <2>2, SuccessIsAnswered
  <2>3. CASE fork \in FailedForks
    <3>1. frame.type = "failure" /\ Decoded = frame
      BY <2>1, <2>3, FailedForkIsTold DEF ToldInv
    <3> QED
      BY <3>1 DEF Refused
  <2> QED
    BY <2>1, <2>2, <2>3, ForksSucceedOrFail
<1> QED
  BY <1>1, AnswerInvariance, ToldInvariance, PTL

\* Whatever a fork returned, the items a caller gets are within the catalog's bound
\* and its own limit, decoded, of its target, and no two of one identifier: what
\* worker, parent, adapter and runner let through, for every source.
THEOREM CallerGetsItsAnswer == Spec => []AnswerIsRequested
<1>1. AnswerInv => AnswerIsRequested
  BY DEF AnswerInv
<1> QED
  BY <1>1, AnswerInvariance, PTL

\* Whatever is left out on the way from the fork to the caller, by the budget of
\* characters, the entries without text, the runner's bounds or the fork itself, the
\* response says that it is truncated or partial.
THEOREM LossReachesCaller == Spec => []LossIsTold
<1>1. AnswerInv => LossIsTold
  BY DEF AnswerInv
<1> QED
  BY <1>1, AnswerInvariance, PTL
=============================================================================
