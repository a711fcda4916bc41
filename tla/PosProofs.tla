------------------------------ MODULE PosProofs ------------------------------
(***************************************************************************)
(* Every step of the point of sale keeps the tables' invariant and its own *)
(* local variables well typed.                                             *)
(***************************************************************************)
EXTENDS Pos, StockDbProofs, FoldProofs, FiniteSetTheorems

PosInv == TypeOKPos /\ PosLocalsConsistent

(* What is to be shown of each step.                                       *)
PosStep == DbStep /\ PosInv'

(* The record of a checkout after some of its fields changed.              *)
LEMMA CheckoutAdvances ==
  ASSUME PosInv, NEW r \in Checkouts, UNCHANGED void,
         NEW c \in CheckoutState, checkout' = [checkout EXCEPT ![r] = c],
         c.pc = "prepare" => Len(c.loc) = c.next - 1,
         c.pc = "sell" => Len(c.loc) >= Len(c.lines)
  PROVE  PosInv'
<1>1. TypeOKPos'
  BY DEF PosInv, TypeOKPos
<1>2. PosLocalsConsistent'
  BY DEF PosInv, TypeOKPos, PosLocalsConsistent
<1> QED
  BY <1>1, <1>2 DEF PosInv

(* The same for a void.                                                    *)
LEMMA VoidAdvances ==
  ASSUME PosInv, NEW r \in Voids, UNCHANGED checkout,
         NEW v \in VoidState, void' = [void EXCEPT ![r] = v],
         v.pc = "restore" => Len(v.loc) = Len(v.lines)
  PROVE  PosInv'
<1>1. TypeOKPos'
  BY DEF PosInv, TypeOKPos
<1>2. PosLocalsConsistent'
  BY DEF PosInv, TypeOKPos, PosLocalsConsistent
<1> QED
  BY <1>1, <1>2 DEF PosInv

(* A checkout that ends leaves its local variables empty.                  *)
LEMMA EndCheckoutKeeps ==
  ASSUME PosInv, NEW r \in Checkouts, NEW outcome \in Finished,
         EndCheckout(r, outcome), UNCHANGED void
  PROVE  PosInv'
<1> DEFINE c == [pc |-> outcome, lines |-> <<>>, tendered |-> 0, next |-> 1, loc |-> <<>>]
<1>1. [IdleCheckout EXCEPT !.pc = outcome] = c
  BY DEF IdleCheckout
<1>2. c \in CheckoutState /\ c.pc \notin {"prepare", "sell"}
  BY DEF CheckoutState, Finished
<1>3. checkout' = [checkout EXCEPT ![r] = c]
  BY <1>1 DEF EndCheckout
<1> HIDE DEF c
<1> QED
  BY <1>2, <1>3, CheckoutAdvances

(* And so does a void.                                                     *)
LEMMA EndVoidKeeps ==
  ASSUME PosInv, NEW r \in Voids, NEW outcome \in Finished,
         EndVoid(r, outcome), UNCHANGED checkout
  PROVE  PosInv'
<1> DEFINE v == [pc |-> outcome, lines |-> <<>>, next |-> 1, loc |-> <<>>]
<1>1. [IdleVoid EXCEPT !.pc = outcome] = v
  BY DEF IdleVoid
<1>2. v \in VoidState /\ v.pc # "restore"
  BY DEF VoidState, Finished
<1>3. void' = [void EXCEPT ![r] = v]
  BY <1>1 DEF EndVoid
<1> HIDE DEF v
<1> QED
  BY <1>2, <1>3, VoidAdvances

-----------------------------------------------------------------------------
(* What normalizeCheckoutItems makes of a cart, of any length.             *)

(* Adding an item keeps the lines well typed.                              *)
LEMMA AddItemType ==
  ASSUME NEW lines \in Seq(SaleLine), NEW item \in SaleLine
  PROVE  Cart!AddItem(lines, item) \in Seq(SaleLine)
<1> DEFINE merged == [k \in DOMAIN lines |->
            IF Cart!SameProductLine(lines[k], item)
              THEN [lines[k] EXCEPT !.quantity = @ + item.quantity] ELSE lines[k]]
<1>1. ASSUME NEW k \in DOMAIN lines
      PROVE  [lines[k] EXCEPT !.quantity = @ + item.quantity] \in SaleLine
  <2> DEFINE line == lines[k]
  <2>1. line \in SaleLine
    BY ElementOfSeq
  <2> HIDE DEF line
  <2>2. [line EXCEPT !.quantity = @ + item.quantity]
          = [product |-> line.product, unit |-> line.unit,
             quantity |-> line.quantity + item.quantity]
    BY <2>1 DEF SaleLine
  <2>3. line.quantity + item.quantity \in Nat \ {0}
    BY <2>1 DEF SaleLine
  <2>4. [line EXCEPT !.quantity = @ + item.quantity] \in SaleLine
    BY <2>1, <2>2, <2>3 DEF SaleLine
  <2> QED
    BY <2>4 DEF line
<1>2. merged \in [1 .. Len(lines) -> SaleLine]
  BY <1>1, ElementOfSeq
<1>3. merged \in Seq(SaleLine)
  <2> HIDE DEF merged
  <2> QED BY <1>2 
<1>4. Append(lines, item) \in Seq(SaleLine)
  OBVIOUS
<1> QED
  BY <1>3, <1>4 DEF Cart!AddItem

(* How a loop over the goods goes: acc[k] are the lines after k of them.   *)
Merges(goods, acc) ==
  /\ acc \in [0 .. Len(goods) -> Seq(SaleLine)]
  /\ acc[0] = <<>>
  /\ \A k \in 1 .. Len(goods) : acc[k] = Cart!AddItem(acc[k - 1], goods[k])

LEMMA CartMerges ==
  ASSUME NEW goods \in Seq(SaleLine)
  PROVE  \E acc : Merges(goods, acc) /\ Cart!Normalized(goods) = acc[Len(goods)]
<1> DEFINE D == 1 .. Len(goods)
           V == Seq(SaleLine)
           op == [i \in D |-> [v \in V |-> Cart!AddItem(v, goods[i])]]
           first == [s \in SUBSET D |-> Max(s)]
<1>1. IsFiniteSet(D) /\ D = DOMAIN goods
  BY FS_Interval
<1>2. op \in [D -> [V -> V]]
  BY AddItemType, ElementOfSeq
<1>3. \A s \in SUBSET D : s # {} => Max(s) \in s /\ first[s] \in s
  <2>1. Len(goods) \in Nat
    OBVIOUS
  <2>2. ASSUME NEW s \in SUBSET D, s # {} PROVE Max(s) \in s
    BY <2>1, <2>2, LastIndex
  <2> QED BY <2>2
<1>4. PICK f : FoldsOver(f, D, V, <<>>, op, first)
  <2>1. <<>> \in V
    OBVIOUS
  <2> HIDE DEF op, first, V
  <2> QED BY <1>1, <1>2, <1>3, <2>1, FoldsExist
<1> DEFINE Eq(h) == h = [s \in SUBSET D |->
                           IF s = {} THEN <<>> ELSE Cart!AddItem(h[s \ {Max(s)}], goods[Max(s)])]
<1>a. ASSUME NEW s \in SUBSET D, s # {}
      PROVE  f[s] = Cart!AddItem(f[s \ {Max(s)}], goods[Max(s)])
  <2>1. Max(s) \in D /\ first[s] = Max(s)
    BY <1>a, <1>3
  <2>2. f[s] = op[first[s]][f[s \ {first[s]}]] /\ f[s \ {first[s]}] \in V
    <3> HIDE DEF op, first, V
    <3> QED BY <1>4, <1>a DEF FoldsOver
  <2> QED
    <3> HIDE DEF first
    <3>1. f[s \ {Max(s)}] \in V
      BY <2>1, <2>2
    <3> HIDE DEF V
    <3> QED BY <2>1, <2>2, <3>1
<1>b. f \in [SUBSET D -> V] /\ f[{}] = <<>>
  <2> HIDE DEF op, first, V
  <2> QED BY <1>4 DEF FoldsOver
<1>5. Eq(f)
  <2> HIDE DEF V
  <2> QED BY <1>a, <1>b
<1>6. PICK h : Eq(h) /\ Cart!Normalized(goods) = h[D]
  <2> HIDE DEF V, op, first
  <2>1. Cart!Normalized(goods) = (CHOOSE h : Eq(h))[D]
    BY <1>1 DEF Cart!Normalized, Cart!FoldLeft, Cart!MapThenFoldSet, Cart!Max, Max
  <2> QED BY <2>1, <1>5
<1> DEFINE acc == [k \in 0 .. Len(goods) |-> h[1 .. k]]
<1>7. ASSUME NEW s \in SUBSET D
      PROVE  h[s] = IF s = {} THEN <<>> ELSE Cart!AddItem(h[s \ {Max(s)}], goods[Max(s)])
  BY <1>6
<1>8. ASSUME NEW k \in 1 .. Len(goods)
      PROVE  h[1 .. k] = Cart!AddItem(h[1 .. k - 1], goods[k])
  <2>1. 1 .. k \in SUBSET D /\ 1 .. k # {} /\ Max(1 .. k) = k /\ (1 .. k) \ {k} = 1 .. k - 1
    BY Segment
  <2> QED
    BY <1>7, <2>1
<1>9. h[1 .. 0] = <<>>
  <2>1. 1 .. 0 = {}
    OBVIOUS
  <2> QED BY <1>7, <2>1
<1>10. \A k \in 0 .. Len(goods) : h[1 .. k] \in Seq(SaleLine)
  <2> DEFINE P == {k \in 0 .. Len(goods) : h[1 .. k] \in Seq(SaleLine)}
  <2>1. 0 \in P
    <3>1. h[1 .. 0] \in Seq(SaleLine)
      BY <1>9
    <3> QED BY <3>1
  <2>2. ASSUME NEW k \in P, k < Len(goods) PROVE k + 1 \in P
    <3>0. k + 1 \in 1 .. Len(goods) /\ (k + 1) - 1 = k
      BY <2>2
    <3>1. h[1 .. k + 1] = Cart!AddItem(h[1 .. k], goods[k + 1])
      BY <1>8, <3>0
    <3>2. goods[k + 1] \in SaleLine
      BY <2>2, ElementOfSeq
    <3>3. h[1 .. k] \in Seq(SaleLine) /\ k \in 0 .. Len(goods) /\ k + 1 \in 0 .. Len(goods)
      BY <2>2
    <3>4. Cart!AddItem(h[1 .. k], goods[k + 1]) \in Seq(SaleLine)
      BY <3>2, <3>3, AddItemType
    <3> QED
      BY <3>1, <3>3, <3>4
  <2>3. P = 0 .. Len(goods)
    <3>1. P \subseteq 0 .. Len(goods) /\ Len(goods) \in Nat
      OBVIOUS
    <3> HIDE DEF P
    <3> QED BY <2>1, <2>2, <3>1, IntervalInduction
  <2> QED
    BY <2>3
<1>11. Merges(goods, acc)
  <2>1. \A k \in 1 .. Len(goods) : acc[k] = Cart!AddItem(acc[k - 1], goods[k])
    BY <1>8
  <2>2. acc[0] = <<>>
    BY <1>9
  <2>3. acc \in [0 .. Len(goods) -> Seq(SaleLine)]
    BY <1>10
  <2> HIDE DEF acc
  <2> QED BY <2>1, <2>2, <2>3 DEF Merges
<1>12. acc[Len(goods)] = h[D]
  OBVIOUS
<1> QED
  <2> HIDE DEF acc
  <2> QED BY <1>6, <1>11, <1>12

(* The lines after k goods: one for each product or unit so far, in the    *)
(* order of their first goods, with the quantities of all of them.         *)

ItemsOf(goods, k, line) == {i \in 1 .. k : Cart!SameGoods(goods[i], line)}

Counts(h, goods) ==
  /\ h[{}] = 0
  /\ \A s \in SUBSET (1 .. Len(goods)) :
        h[s] \in Int /\ \A x \in s : h[s] = goods[x].quantity + h[s \ {x}]

KeepsUpTo(goods, h, k, lines) ==
  /\ lines \in Seq(SaleLine)
  /\ \A i, j \in DOMAIN lines : Cart!SameGoods(lines[i], lines[j]) => i = j
  /\ \A i \in 1 .. k : \E j \in DOMAIN lines : Cart!SameGoods(goods[i], lines[j])
  /\ \A j \in DOMAIN lines : \E e \in 1 .. k : Cart!SameGoods(goods[e], lines[j])
  /\ \A i, j \in DOMAIN lines : i < j =>
        \E e \in 1 .. k : /\ Cart!SameGoods(goods[e], lines[i])
                          /\ \A d \in 1 .. k : Cart!SameGoods(goods[d], lines[j]) => e < d
  /\ \A j \in DOMAIN lines : lines[j].quantity = h[ItemsOf(goods, k, lines[j])]

LEMMA ItemMerged ==
  ASSUME NEW goods \in Seq(SaleLine), NEW h, Counts(h, goods),
         NEW k \in Nat, k < Len(goods), NEW lines, KeepsUpTo(goods, h, k, lines),
         goods[k + 1].unit = NoUnit, NEW x \in DOMAIN lines,
         Cart!SameProductLine(lines[x], goods[k + 1])
  PROVE  KeepsUpTo(goods, h, k + 1, Cart!AddItem(lines, goods[k + 1]))
<1> DEFINE item == goods[k + 1]
           grown == [lines[x] EXCEPT !.quantity = @ + item.quantity]
           after == Cart!AddItem(lines, item)
<1>0. item \in SaleLine /\ lines \in Seq(SaleLine) /\ lines[x] \in SaleLine
  BY ElementOfSeq DEF KeepsUpTo
<1>1. after \in Seq(SaleLine)
  BY <1>0, AddItemType
<1>2. DOMAIN after = DOMAIN lines
        /\ \A y \in DOMAIN lines : after[y] = IF Cart!SameProductLine(lines[y], item)
              THEN [lines[y] EXCEPT !.quantity = @ + item.quantity] ELSE lines[y]
  BY DEF Cart!AddItem
<1>3. Cart!SameGoods(item, lines[x])
  BY DEF Cart!SameGoods, Cart!SameProductLine
<1>4. \A y \in DOMAIN lines : Cart!SameProductLine(lines[y], item) => y = x
  <2>1. \A y \in DOMAIN lines : Cart!SameProductLine(lines[y], item)
                                   => Cart!SameGoods(lines[y], lines[x])
    BY DEF Cart!SameProductLine, Cart!SameGoods
  <2> QED BY <2>1 DEF KeepsUpTo
<1>5. after[x] = grown /\ \A y \in DOMAIN lines : y # x => after[y] = lines[y]
  BY <1>2, <1>4
<1>6. grown.product = lines[x].product /\ grown.unit = lines[x].unit
        /\ grown.quantity = lines[x].quantity + item.quantity
  <2> DEFINE line == lines[x]
  <2>1. line \in SaleLine
    BY <1>0
  <2> HIDE DEF line, item
  <2>2. [line EXCEPT !.quantity = @ + item.quantity]
          = [product |-> line.product, unit |-> line.unit,
             quantity |-> line.quantity + item.quantity]
    BY <2>1, SMTT(20) DEF SaleLine
  <2> QED BY <2>2 DEF line
<1> HIDE DEF grown, after, item
<1>7. \A y \in DOMAIN lines : after[y].product = lines[y].product /\ after[y].unit = lines[y].unit
  BY <1>5, <1>6
<1>8. \A z : \A y \in DOMAIN lines : Cart!SameGoods(z, after[y]) <=> Cart!SameGoods(z, lines[y])
  BY <1>7 DEF Cart!SameGoods
<1>9. \A y, z \in DOMAIN lines : Cart!SameGoods(after[y], after[z]) <=> Cart!SameGoods(lines[y], lines[z])
  BY <1>7 DEF Cart!SameGoods
<1>10. k + 1 \in 1 .. k + 1 /\ \A i \in 1 .. k + 1 : i \in 1 .. k \/ i = k + 1
  OBVIOUS
<1>11. \A i, j \in DOMAIN after : Cart!SameGoods(after[i], after[j]) => i = j
  BY <1>2, <1>9 DEF KeepsUpTo
<1>12. \A i \in 1 .. k + 1 : \E j \in DOMAIN after : Cart!SameGoods(goods[i], after[j])
  <2>1. \A i \in 1 .. k : \E j \in DOMAIN lines : Cart!SameGoods(goods[i], lines[j])
    BY DEF KeepsUpTo
  <2>2. Cart!SameGoods(goods[k + 1], lines[x])
    BY <1>3 DEF item
  <2> QED BY <1>2, <1>8, <1>10, <2>1, <2>2
<1>13. \A j \in DOMAIN after : \E e \in 1 .. k + 1 : Cart!SameGoods(goods[e], after[j])
  <2>1. \A j \in DOMAIN lines : \E e \in 1 .. k : Cart!SameGoods(goods[e], lines[j])
    BY DEF KeepsUpTo
  <2>2. \A e \in 1 .. k : e \in 1 .. k + 1
    OBVIOUS
  <2> QED BY <1>2, <1>8, <2>1, <2>2
<1>14. ASSUME NEW i \in DOMAIN after, NEW j \in DOMAIN after, i < j
       PROVE  \E e \in 1 .. k + 1 : /\ Cart!SameGoods(goods[e], after[i])
                                    /\ \A d \in 1 .. k + 1 : Cart!SameGoods(goods[d], after[j]) => e < d
  <2>1. PICK e \in 1 .. k : /\ Cart!SameGoods(goods[e], lines[i])
                            /\ \A d \in 1 .. k : Cart!SameGoods(goods[d], lines[j]) => e < d
    BY <1>2, <1>14 DEF KeepsUpTo
  <2>2. e \in 1 .. k + 1 /\ e < k + 1
    OBVIOUS
  <2>3. \A d \in 1 .. k + 1 : Cart!SameGoods(goods[d], after[j]) => e < d
    BY <2>1, <2>2, <1>10, <1>8, <1>2
  <2> QED BY <2>1, <2>2, <2>3, <1>8, <1>2
<1>15. ASSUME NEW j \in DOMAIN after
       PROVE  after[j].quantity = h[ItemsOf(goods, k + 1, after[j])]
  <2>1. j \in DOMAIN lines /\ lines[j].quantity = h[ItemsOf(goods, k, lines[j])]
    BY <1>2 DEF KeepsUpTo
  <2>2. ItemsOf(goods, k + 1, after[j]) = ItemsOf(goods, k + 1, lines[j])
    BY <1>8, <2>1 DEF ItemsOf
  <2>3. CASE j = x
    <3> DEFINE s == ItemsOf(goods, k + 1, lines[x])
    <3>1. k + 1 \in s
      BY <1>3, <1>10 DEF ItemsOf, item
    <3>2. s \ {k + 1} = ItemsOf(goods, k, lines[x])
      BY <1>10 DEF ItemsOf
    <3>3. s \in SUBSET (1 .. Len(goods)) /\ Len(goods) \in Nat /\ k + 1 \in 1 .. Len(goods)
      BY DEF ItemsOf
    <3> HIDE DEF s
    <3>4. h[s] = goods[k + 1].quantity + h[s \ {k + 1}]
      <4>1. \A t \in SUBSET (1 .. Len(goods)) :
               h[t] \in Int /\ \A y \in t : h[t] = goods[y].quantity + h[t \ {y}]
        BY DEF Counts
      <4> QED BY <3>1, <3>3, <4>1
    <3>5. h[s] = lines[x].quantity + item.quantity
      <4>1. goods[k + 1].quantity \in Nat /\ lines[x].quantity \in Nat
        BY <1>0 DEF item, SaleLine
      <4>2. h[s \ {k + 1}] = lines[x].quantity
        BY <3>2, <2>1, <2>3
      <4> QED BY <3>4, <4>1, <4>2 DEF item
    <3> QED BY <2>2, <2>3, <1>5, <1>6, <3>5 DEF s
  <2>4. CASE j # x
    <3>1. ~ Cart!SameGoods(goods[k + 1], lines[j])
      <4>1. ~ Cart!SameGoods(lines[x], lines[j])
        BY <2>1, <2>4 DEF KeepsUpTo
      <4> QED BY <4>1, <1>3 DEF Cart!SameGoods, item
    <3>2. ItemsOf(goods, k + 1, lines[j]) = ItemsOf(goods, k, lines[j])
      BY <3>1, <1>10 DEF ItemsOf
    <3> QED BY <2>1, <2>2, <2>4, <3>2, <1>5
  <2> QED BY <2>3, <2>4
<1> QED
  BY <1>1, <1>11, <1>12, <1>13, <1>14, <1>15 DEF KeepsUpTo, after, item

LEMMA ItemAppended ==
  ASSUME NEW goods \in Seq(SaleLine), NEW h, Counts(h, goods), ~ Cart!Refuses(goods),
         NEW k \in Nat, k < Len(goods), NEW lines, KeepsUpTo(goods, h, k, lines),
         ~ (/\ goods[k + 1].unit = NoUnit
            /\ \E x \in DOMAIN lines : Cart!SameProductLine(lines[x], goods[k + 1]))
  PROVE  KeepsUpTo(goods, h, k + 1, Cart!AddItem(lines, goods[k + 1]))
<1> DEFINE item == goods[k + 1]
           after == Cart!AddItem(lines, item)
           n == Len(lines) + 1
<1>0. item \in SaleLine /\ lines \in Seq(SaleLine) /\ k + 1 \in 1 .. Len(goods)
  BY ElementOfSeq DEF KeepsUpTo
<1>1. after \in Seq(SaleLine)
  BY <1>0, AddItemType
<1>2. after = Append(lines, item)
  BY DEF Cart!AddItem
<1>3. DOMAIN lines = 1 .. Len(lines) /\ DOMAIN after = 1 .. n /\ after[n] = item /\ n \in 1 .. n
        /\ \A y \in DOMAIN lines : y \in DOMAIN after /\ after[y] = lines[y] /\ y < n
  BY <1>0, <1>2
<1>4. \A y \in DOMAIN after : y \in DOMAIN lines \/ y = n
  BY <1>3
<1>5. k + 1 \in 1 .. k + 1 /\ \A i \in 1 .. k : i \in 1 .. k + 1 /\ i < k + 1
  OBVIOUS
<1>6. \A i \in 1 .. k + 1 : i \in 1 .. k \/ i = k + 1
  OBVIOUS
<1>7. \A i \in 1 .. k : ~ Cart!SameGoods(goods[i], item)
  <2>1. SUFFICES ASSUME NEW i \in 1 .. k, Cart!SameGoods(goods[i], item)
                 PROVE  FALSE
    OBVIOUS
  <2>2. CASE item.unit = NoUnit
    <3>1. PICK j \in DOMAIN lines : Cart!SameGoods(goods[i], lines[j])
      BY DEF KeepsUpTo
    <3>2. Cart!SameProductLine(lines[j], item)
      BY <3>1, <2>1, <2>2 DEF Cart!SameGoods, Cart!SameProductLine
    <3> QED BY <2>2, <3>2
  <2>3. CASE item.unit # NoUnit
    <3>1. i \in 1 .. (k + 1) - 1 /\ k + 1 \in DOMAIN goods
      BY <1>0
    <3>2. goods[i].unit = goods[k + 1].unit
      BY <2>1 DEF Cart!SameGoods
    <3> QED BY <2>3, <3>1, <3>2 DEF Cart!Refuses
  <2> QED BY <2>2, <2>3
<1>8. \A j \in DOMAIN lines : ~ Cart!SameGoods(item, lines[j]) /\ ~ Cart!SameGoods(lines[j], item)
  <2>1. \A j \in DOMAIN lines : \E e \in 1 .. k : Cart!SameGoods(goods[e], lines[j])
    BY DEF KeepsUpTo
  <2> QED BY <1>7, <2>1 DEF Cart!SameGoods
<1>9. \A i, j \in DOMAIN after : Cart!SameGoods(after[i], after[j]) => i = j
  <2>1. \A i, j \in DOMAIN lines : Cart!SameGoods(lines[i], lines[j]) => i = j
    BY DEF KeepsUpTo
  <2> HIDE DEF after, item, n
  <2> QED BY <2>1, <1>3, <1>4, <1>8
<1>10. \A i \in 1 .. k + 1 : \E j \in DOMAIN after : Cart!SameGoods(goods[i], after[j])
  <2>1. \A i \in 1 .. k : \E j \in DOMAIN lines : Cart!SameGoods(goods[i], lines[j])
    BY DEF KeepsUpTo
  <2>2. Cart!SameGoods(goods[k + 1], after[n])
    BY <1>3 DEF Cart!SameGoods
  <2> HIDE DEF after, item, n
  <2> QED BY <2>1, <2>2, <1>3, <1>6
<1>11. \A j \in DOMAIN after : \E e \in 1 .. k + 1 : Cart!SameGoods(goods[e], after[j])
  <2>1. \A j \in DOMAIN lines : \E e \in 1 .. k : Cart!SameGoods(goods[e], lines[j])
    BY DEF KeepsUpTo
  <2>2. Cart!SameGoods(goods[k + 1], after[n])
    BY <1>3 DEF Cart!SameGoods
  <2> HIDE DEF after, item, n
  <2> QED BY <2>1, <2>2, <1>3, <1>4, <1>5
<1>12. ASSUME NEW i \in DOMAIN after, NEW j \in DOMAIN after, i < j
       PROVE  \E e \in 1 .. k + 1 : /\ Cart!SameGoods(goods[e], after[i])
                                    /\ \A d \in 1 .. k + 1 : Cart!SameGoods(goods[d], after[j]) => e < d
  <2>1. i \in DOMAIN lines
    BY <1>3, <1>12
  <2>2. CASE j = n
    <3>1. PICK e \in 1 .. k : Cart!SameGoods(goods[e], lines[i])
      BY <2>1 DEF KeepsUpTo
    <3> HIDE DEF after, item, n
    <3>2. \A d \in 1 .. k + 1 : Cart!SameGoods(goods[d], after[j]) => e < d
      BY <1>3, <1>5, <1>6, <1>7, <2>2
    <3> QED BY <3>1, <3>2, <2>1, <1>3, <1>5
  <2>3. CASE j # n
    <3>1. j \in DOMAIN lines
      BY <1>4, <2>3
    <3>2. PICK e \in 1 .. k : /\ Cart!SameGoods(goods[e], lines[i])
                              /\ \A d \in 1 .. k : Cart!SameGoods(goods[d], lines[j]) => e < d
      BY <1>12, <2>1, <3>1 DEF KeepsUpTo
    <3> HIDE DEF after, item, n
    <3>3. \A d \in 1 .. k + 1 : Cart!SameGoods(goods[d], after[j]) => e < d
      BY <3>1, <3>2, <1>3, <1>5, <1>6
    <3> QED BY <3>1, <3>2, <3>3, <2>1, <1>3, <1>5
  <2> QED BY <2>2, <2>3
<1>13. ASSUME NEW j \in DOMAIN after
       PROVE  after[j].quantity = h[ItemsOf(goods, k + 1, after[j])]
  <2>1. CASE j = n
    <3> DEFINE s == ItemsOf(goods, k + 1, item)
    <3>1. s = {k + 1}
      BY <1>5, <1>6, <1>7 DEF ItemsOf, Cart!SameGoods
    <3>2. \A t \in SUBSET (1 .. Len(goods)) :
             h[t] \in Int /\ \A y \in t : h[t] = goods[y].quantity + h[t \ {y}]
      BY DEF Counts
    <3>3. s \in SUBSET (1 .. Len(goods)) /\ k + 1 \in s /\ s \ {k + 1} = {}
      BY <3>1, <1>0
    <3> HIDE DEF s
    <3>4. h[s] = goods[k + 1].quantity + h[s \ {k + 1}] /\ h[s \ {k + 1}] = 0
      <4>1. h[s] = goods[k + 1].quantity + h[s \ {k + 1}]
        BY <3>2, <3>3
      <4>2. h[{}] = 0
        BY DEF Counts
      <4> QED BY <3>3, <4>1, <4>2
    <3>5. h[s] = item.quantity
      <4>1. goods[k + 1].quantity \in Nat
        BY <1>0 DEF SaleLine
      <4> QED BY <3>4, <4>1
    <3>6. h[ItemsOf(goods, k + 1, item)] = item.quantity
      BY <3>5 DEF s
    <3> QED BY <2>1, <1>3, <3>6
  <2>2. CASE j # n
    <3>1. j \in DOMAIN lines /\ after[j] = lines[j]
      BY <1>3, <1>4, <2>2
    <3>2. ItemsOf(goods, k + 1, lines[j]) = ItemsOf(goods, k, lines[j])
      <4> HIDE DEF after, n
      <4> QED BY <3>1, <1>8, <1>5, <1>6 DEF ItemsOf
    <3> QED BY <3>1, <3>2 DEF KeepsUpTo
  <2> QED BY <2>1, <2>2
<1> QED
  BY <1>1, <1>9, <1>10, <1>11, <1>12, <1>13 DEF KeepsUpTo

(* All of a cart's goods after all of its steps.                           *)
LEMMA CartKept ==
  ASSUME NEW goods \in Seq(SaleLine), ~ Cart!Refuses(goods), NEW h, Counts(h, goods)
  PROVE  KeepsUpTo(goods, h, Len(goods), Cart!Normalized(goods))
<1>1. PICK acc : Merges(goods, acc) /\ Cart!Normalized(goods) = acc[Len(goods)]
  BY CartMerges
<1> DEFINE P == {k \in 0 .. Len(goods) : KeepsUpTo(goods, h, k, acc[k])}
<1>2. 0 \in P
  <2>1. acc[0] = <<>> /\ <<>> \in Seq(SaleLine) /\ DOMAIN <<>> = {} /\ 1 .. 0 = {}
    BY <1>1 DEF Merges
  <2>2. KeepsUpTo(goods, h, 0, acc[0])
    BY <2>1 DEF KeepsUpTo
  <2> QED BY <2>2
<1>3. ASSUME NEW k \in P, k < Len(goods) PROVE k + 1 \in P
  <2>1. k \in Nat /\ k + 1 \in 1 .. Len(goods) /\ k + 1 \in 0 .. Len(goods)
    BY <1>3
  <2>2. acc[k + 1] = Cart!AddItem(acc[k], goods[k + 1])
    <3>1. (k + 1) - 1 = k
      BY <2>1
    <3> QED BY <1>1, <2>1, <3>1 DEF Merges
  <2>3. KeepsUpTo(goods, h, k, acc[k])
    BY <1>3
  <2>4. KeepsUpTo(goods, h, k + 1, acc[k + 1])
    <3>1. CASE /\ goods[k + 1].unit = NoUnit
               /\ \E x \in DOMAIN acc[k] : Cart!SameProductLine(acc[k][x], goods[k + 1])
      <4> HIDE DEF P
      <4> QED BY <3>1, <1>3, <2>1, <2>2, <2>3, ItemMerged
    <3>2. CASE ~ (/\ goods[k + 1].unit = NoUnit
                  /\ \E x \in DOMAIN acc[k] : Cart!SameProductLine(acc[k][x], goods[k + 1]))
      <4> HIDE DEF P
      <4> QED BY <3>2, <1>3, <2>1, <2>2, <2>3, ItemAppended
    <3> QED BY <3>1, <3>2
  <2> QED BY <2>1, <2>4
<1>4. P = 0 .. Len(goods)
  <2>1. P \subseteq 0 .. Len(goods) /\ Len(goods) \in Nat
    OBVIOUS
  <2> HIDE DEF P
  <2> QED BY <1>2, <1>3, <2>1, IntervalInduction
<1> QED
  <2>1. Len(goods) \in P
    BY <1>4
  <2> QED BY <1>1, <2>1

LEMMA CountsExist ==
  ASSUME NEW goods \in Seq(SaleLine)
  PROVE  \E h : Counts(h, goods)
<1> DEFINE S == 1 .. Len(goods)
           g == [i \in S |-> goods[i].quantity]
<1>1. IsFiniteSet(S)
  BY FS_Interval
<1>2. g \in [S -> Int]
  <2>1. \A i \in S : goods[i] \in SaleLine
    BY ElementOfSeq
  <2> QED BY <2>1 DEF SaleLine
<1>3. \A x \in S : g[x] = goods[x].quantity
  OBVIOUS
<1>4. \E h : SumsOver(h, S, g)
  <2> HIDE DEF g, S
  <2> QED BY <1>1, <1>2, SumExists, SumIsSum
<1>5. PICK h : SumsOver(h, S, g)
  BY <1>4
<1>6. Counts(h, goods)
  <2> HIDE DEF g
  <2> QED BY <1>3, <1>5 DEF Counts, SumsOver
<1> QED BY <1>6

(* So the lines of a cart are well typed, and of a cart that is not        *)
(* refused each unit's line is of one.                                     *)
LEMMA NormalizedType ==
  ASSUME NEW goods \in Seq(SaleLine)
  PROVE  Cart!Normalized(goods) \in Seq(SaleLine)
<1>1. PICK acc : Merges(goods, acc) /\ Cart!Normalized(goods) = acc[Len(goods)]
  BY CartMerges
<1>2. Len(goods) \in 0 .. Len(goods)
  OBVIOUS
<1> QED BY <1>1, <1>2 DEF Merges

LEMMA NormalizedUnits ==
  ASSUME NEW goods \in Seq(SaleLine), ~ Cart!Refuses(goods)
  PROVE  OneOfEachUnit(Cart!Normalized(goods))
<1> DEFINE lines == Cart!Normalized(goods)
           n == Len(goods)
<1>0. lines \in Seq(SaleLine) /\ n \in Nat
  BY NormalizedType
<1>1. PICK h : Counts(h, goods)
  BY CountsExist
<1>2. KeepsUpTo(goods, h, n, lines)
  BY <1>1, CartKept
<1> HIDE DEF lines
<1>3. SUFFICES ASSUME NEW i \in 1 .. Len(lines), lines[i].unit # NoUnit
               PROVE  lines[i].quantity = 1
  BY DEF OneOfEachUnit, lines
<1>4. i \in DOMAIN lines
  BY <1>0
<1>5. PICK e \in 1 .. n : Cart!SameGoods(goods[e], lines[i])
  BY <1>2, <1>4 DEF KeepsUpTo
<1>6. \A d \in 1 .. n : Cart!SameGoods(goods[d], lines[i]) => d = e
  <2>1. SUFFICES ASSUME NEW d \in 1 .. n, Cart!SameGoods(goods[d], lines[i]), d # e
                 PROVE  FALSE
    OBVIOUS
  <2>2. goods[d].unit = goods[e].unit /\ goods[d].unit # NoUnit
    BY <1>3, <1>5, <2>1 DEF Cart!SameGoods
  <2>3. d \in DOMAIN goods /\ e \in DOMAIN goods /\ (d \in 1 .. e - 1 \/ e \in 1 .. d - 1)
    BY <2>1
  <2> QED BY <2>2, <2>3 DEF Cart!Refuses
<1>7. ItemsOf(goods, n, lines[i]) = {e}
  BY <1>5, <1>6 DEF ItemsOf
<1>8. h[{e}] = goods[e].quantity
  <2>1. {e} \in SUBSET (1 .. Len(goods)) /\ e \in {e} /\ {e} \ {e} = {}
    OBVIOUS
  <2>2. h[{e}] = goods[e].quantity + h[{e} \ {e}]
    BY <1>1, <2>1 DEF Counts
  <2>3. h[{e} \ {e}] = 0
    BY <1>1, <2>1 DEF Counts
  <2>4. goods[e].quantity \in Nat
    <3>1. goods[e] \in SaleLine
      BY <1>0, ElementOfSeq
    <3> QED BY <3>1 DEF SaleLine
  <2> QED BY <2>2, <2>3, <2>4
<1>9. goods[e].quantity = 1
  <2>1. e \in DOMAIN goods /\ goods[e].unit # NoUnit
    BY <1>3, <1>5 DEF Cart!SameGoods
  <2> QED BY <2>1 DEF Cart!Refuses
<1>10. lines[i].quantity = h[ItemsOf(goods, n, lines[i])]
  BY <1>2, <1>4 DEF KeepsUpTo
<1> QED BY <1>7, <1>8, <1>9, <1>10

-----------------------------------------------------------------------------
LEMMA BeginCheckoutKeeps ==
  ASSUME DbInv, PosInv, NEW r \in Checkouts, BeginCheckout(r)
  PROVE  PosStep
<1>1. DbStep
  BY TablesUnchanged DEF BeginCheckout
<1>2. PICK body \in Payloads :
        IF Cart!Refuses(body.items)
          THEN EndCheckout(r, "failed")
          ELSE checkout' = [checkout EXCEPT
                  ![r] = [pc |-> "prepare", lines |-> Cart!Normalized(body.items),
                          tendered |-> body.tendered, next |-> 1, loc |-> <<>>]]
  BY DEF BeginCheckout
<1>3. CASE EndCheckout(r, "failed")
  BY <1>1, <1>3, EndCheckoutKeeps DEF BeginCheckout, Finished, PosStep
<1>4. CASE checkout' = [checkout EXCEPT
                  ![r] = [pc |-> "prepare", lines |-> Cart!Normalized(body.items),
                          tendered |-> body.tendered, next |-> 1, loc |-> <<>>]]
  <2> DEFINE c == [pc |-> "prepare", lines |-> Cart!Normalized(body.items),
                   tendered |-> body.tendered, next |-> 1, loc |-> <<>>]
  <2>1. c \in CheckoutState
    <3>1. body.items \in Seq(SaleLine) /\ body.tendered \in Nat
      BY PayloadAssumption DEF CheckoutBody
    <3>2. Cart!Normalized(body.items) \in Seq(SaleLine)
      BY <3>1, NormalizedType
    <3> QED BY <3>1, <3>2 DEF CheckoutState
  <2>2. Len(c.loc) = c.next - 1 /\ c.pc # "sell"
    OBVIOUS
  <2>3. checkout' = [checkout EXCEPT ![r] = c]
    BY <1>4
  <2> HIDE DEF c
  <2>4. PosInv'
    BY <2>1, <2>2, <2>3, CheckoutAdvances DEF BeginCheckout
  <2> QED
    BY <1>1, <2>4 DEF PosStep
<1> QED
  BY <1>2, <1>3, <1>4

(* The location of a line is a location or none.                           *)
LEMMA LineLocationType ==
  ASSUME DbInv, NEW r, NEW line \in SaleLine
  PROVE  LineLocation(r, line) \in Location \cup {NoLocation}
<1>1. line.product \in Product /\ line.unit \in Unit \cup {NoUnit}
  BY DEF SaleLine
<1>2. CASE line.unit = NoUnit
  BY <1>1, <1>2, CardType DEF LineLocation
<1>3. CASE line.unit \in Unit
  <2>1. Visible(r, line.unit) \in UnitRow
    BY <1>3, VisibleOK DEF RowOK, Row
  <2> QED
    BY <1>3, <2>1, RowAssumption DEF LineLocation, UnitRow
<1> QED
  BY <1>1, <1>2, <1>3

LEMMA PrepareSaleLineKeeps ==
  ASSUME DbInv, PosInv, NEW r \in Checkouts, PrepareSaleLine(r)
  PROVE  PosStep
<1> DEFINE c == checkout[r]
           line == c.lines[c.next]
           d == [c EXCEPT !.next = c.next + 1, !.loc = Append(c.loc, LineLocation(r, line))]
<1>1. DbStep
  BY TablesUnchanged DEF PrepareSaleLine
<1>2. CASE EndCheckout(r, "failed")
  BY <1>1, <1>2, EndCheckoutKeeps DEF PrepareSaleLine, Finished, PosStep
<1>3. CASE checkout' = [checkout EXCEPT
             ![r] = [c EXCEPT !.next = @ + 1, !.loc = Append(@, LineLocation(r, line))]]
  <2>1. c \in CheckoutState /\ c.pc = "prepare" /\ c.next <= Len(c.lines)
        /\ Len(c.loc) = c.next - 1
    BY DEF PrepareSaleLine, PosInv, TypeOKPos, PosLocalsConsistent
  <2>2. line \in SaleLine
    BY <2>1 DEF CheckoutState
  <2>3. LineLocation(r, line) \in Location \cup {NoLocation}
    BY <2>2, LineLocationType
  <2>4. checkout' = [checkout EXCEPT ![r] = d]
    BY <1>3
  <2>5. d = [pc |-> c.pc, lines |-> c.lines, tendered |-> c.tendered, next |-> c.next + 1,
             loc |-> Append(c.loc, LineLocation(r, line))]
    <3> DEFINE e == [c EXCEPT !.next = c.next + 1]
    <3>1. d = [e EXCEPT !.loc = Append(c.loc, LineLocation(r, line))]
      BY Zenon
    <3>2. e = [pc |-> c.pc, lines |-> c.lines, tendered |-> c.tendered,
               next |-> c.next + 1, loc |-> c.loc]
      BY <2>1 DEF CheckoutState
    <3> HIDE DEF d, e
    <3> QED
      BY <3>1, <3>2
  <2> HIDE DEF d
  <2>6. d \in CheckoutState /\ d.pc # "sell" /\ Len(d.loc) = d.next - 1
    BY <2>1, <2>3, <2>5 DEF CheckoutState
  <2>7. PosInv'
    BY <2>4, <2>6, CheckoutAdvances DEF PrepareSaleLine
  <2> QED
    BY <1>1, <2>7 DEF PosStep
<1> QED
  BY <1>2, <1>3 DEF PrepareSaleLine

LEMMA CreateSaleKeeps ==
  ASSUME DbInv, PosInv, NEW r \in Checkouts, CreateSale(r)
  PROVE  PosStep
<1> DEFINE c == checkout[r]
           d == [c EXCEPT !.pc = "sell", !.next = 1]
           sale == [status |-> "COMPLETED", items |-> c.lines]
<1>1. c \in CheckoutState /\ c.pc = "prepare" /\ c.next > Len(c.lines)
      /\ Len(c.loc) = c.next - 1
  BY DEF CreateSale, PosInv, TypeOKPos, PosLocalsConsistent
<1>2. CASE EndCheckout(r, "failed") /\ UNCHANGED dbVars
  BY <1>2, TablesUnchanged, EndCheckoutKeeps DEF CreateSale, Finished, PosStep
<1>3. CASE /\ Stage(r, Write(SaleOf[r], sale))
           /\ checkout' = [checkout EXCEPT ![r] = d]
  <2>1. d = [pc |-> "sell", lines |-> c.lines, tendered |-> c.tendered, next |-> 1,
             loc |-> c.loc]
    <3> DEFINE e == [c EXCEPT !.pc = "sell"]
    <3>1. d = [e EXCEPT !.next = 1]
      BY Zenon
    <3>2. e = [pc |-> "sell", lines |-> c.lines, tendered |-> c.tendered,
               next |-> c.next, loc |-> c.loc]
      BY <1>1 DEF CheckoutState
    <3> HIDE DEF d, e
    <3> QED
      BY <3>1, <3>2
  <2> HIDE DEF d
  <2>2. d \in CheckoutState /\ d.pc # "prepare" /\ Len(d.loc) >= Len(d.lines)
    BY <1>1, <2>1 DEF CheckoutState
  <2>3. PosInv'
    BY <1>3, <2>2, CheckoutAdvances DEF CreateSale
  <2>4. SaleOf[r] \in Sale /\ r \in Req
    BY PosAssumption
  <2>5. sale \in SaleRow
    BY <1>1 DEF CheckoutState, SaleRow
  <2>6. \A x \in DOMAIN Write(SaleOf[r], sale) :
          x \in Row /\ RowOK(x, Write(SaleOf[r], sale)[x])
    BY <2>4, <2>5, RowAssumption DEF Write, RowOK, Row
  <2>7. \A p \in Product : p \notin DOMAIN Write(SaleOf[r], sale)
    BY <2>4, RowAssumption DEF Write
  <2>8. DbInv' /\ committed' = committed
    BY <1>3, <2>4, <2>6, <2>7, StageKeeps
  <2> QED
    BY <2>3, <2>8, NothingPublished DEF PosStep, DbStep
<1> QED
  BY <1>2, <1>3 DEF CreateSale

LEMMA SellLineKeeps ==
  ASSUME DbInv, PosInv, NEW r \in Checkouts, SellLine(r)
  PROVE  PosStep
<1> DEFINE c == checkout[r]
           line == c.lines[c.next]
           row == SoldRow(r, line, c.loc[c.next], c.next)
           sold == [u \in {line.unit} \ {NoUnit} |-> [status |-> "SOLD", loc |-> NoLocation]]
           d == [c EXCEPT !.next = c.next + 1]
<1>1. c \in CheckoutState /\ c.pc = "sell" /\ c.next <= Len(c.lines)
      /\ Len(c.loc) >= Len(c.lines)
  BY DEF SellLine, PosInv, TypeOKPos, PosLocalsConsistent
<1>2. r \in Req /\ SaleOf[r] \in Sale
  BY PosAssumption
<1>3. CASE Rollback(r) /\ EndCheckout(r, "failed")
  BY <1>2, <1>3, RolledBack, EndCheckoutKeeps DEF SellLine, Finished, PosStep
<1>4. CASE /\ ~ Oversold(row)
           /\ Stage(r, WriteStock(line.product, row, sold))
           /\ checkout' = [checkout EXCEPT ![r].next = @ + 1]
  <2>1. d = [pc |-> c.pc, lines |-> c.lines, tendered |-> c.tendered, next |-> c.next + 1,
             loc |-> c.loc]
    BY <1>1 DEF CheckoutState
  <2>2. checkout' = [checkout EXCEPT ![r] = d]
    BY <1>4 DEF PosInv, TypeOKPos
  <2> HIDE DEF d
  <2>3. d \in CheckoutState /\ d.pc # "prepare" /\ Len(d.loc) >= Len(d.lines)
    BY <1>1, <2>1 DEF CheckoutState
  <2>4. PosInv'
    BY <2>2, <2>3, CheckoutAdvances DEF SellLine
  <2>5. line \in SaleLine /\ c.loc[c.next] \in Location \cup {NoLocation}
        /\ c.next \in Nat
    BY <1>1 DEF CheckoutState
  <2>6. line.product \in Product /\ line.unit \in Unit \cup {NoUnit}
        /\ -line.quantity \in Int
    BY <2>5 DEF SaleLine
  <2>7. UnitRowsOK(sold)
    BY <2>6 DEF UnitRowsOK, UnitRow, ProductUnitStatus, LOCATION_CLEARED_STATUSES
  <2>8. Visible(r, line.product) \in ProductRow
    BY <2>6, VisibleOK DEF RowOK, Row
  <2>9. Visible(r, line.product).quantityOnHand + -line.quantity >= 0
    BY <1>4, <2>6, <2>8, PostedQuantity DEF SoldRow
  <2>10. DbStep
    BY <1>2, <1>4, <2>5, <2>6, <2>7, <2>9, StagePosted DEF SoldRow, SystemKey
  <2> QED
    BY <2>4, <2>10 DEF PosStep
<1> QED
  BY <1>3, <1>4 DEF SellLine

LEMMA CommitCheckoutKeeps ==
  ASSUME DbInv, PosInv, NEW r \in Checkouts, CommitCheckout(r)
  PROVE  PosStep
BY PosAssumption, Committed, EndCheckoutKeeps DEF CommitCheckout, Finished, PosStep

LEMMA AbortCheckoutKeeps ==
  ASSUME DbInv, PosInv, NEW r \in Checkouts, AbortCheckout(r)
  PROVE  PosStep
BY PosAssumption, RolledBack, EndCheckoutKeeps DEF AbortCheckout, Finished, PosStep

-----------------------------------------------------------------------------
(* The place an item goes back to is a location or none.                   *)
LEMMA RestoreLocationType ==
  ASSUME DbInv, NEW s, NEW line \in SaleLine, NEW item
  PROVE  RestoreLocation(s, line, item) \in Location \cup {NoLocation}
<1> DEFINE ledger == committed[line.product].ledger
           original == {i \in DOMAIN ledger : /\ ledger[i].type = "SALE"
                                               /\ ledger[i].sale = s /\ ledger[i].item = item
                                               /\ ledger[i].loc # NoLocation}
<1>1. line.product \in Product
  BY DEF SaleLine
<1>2. ledger \in Seq(StockMovement)
  BY <1>1, LedgerType DEF DbInv, TypeOKDb, DbTypeOK
<1>3. CASE original = {}
  BY <1>1, <1>3, CardType DEF RestoreLocation
<1>4. CASE original # {}
  <2>1. (CHOOSE i \in original : TRUE) \in original
    <3> HIDE DEF original
    <3> QED
      BY <1>4
  <2>2. (CHOOSE i \in original : TRUE) \in DOMAIN ledger
    BY <2>1
  <2>3. RestoreLocation(s, line, item) = ledger[CHOOSE i \in original : TRUE].loc
    BY <1>4 DEF RestoreLocation
  <2> HIDE DEF original
  <2>4. ledger[CHOOSE i \in original : TRUE] \in StockMovement
    BY <1>2, <2>2
  <2> QED
    BY <2>3, <2>4 DEF StockMovement
<1> QED
  BY <1>3, <1>4

LEMMA ReadSaleKeeps ==
  ASSUME DbInv, PosInv, NEW r \in Voids, ReadSale(r)
  PROVE  PosStep
<1> DEFINE s == VoidTarget[r]
           lines == committed[s].items
           loc == [i \in 1 .. Len(lines) |-> RestoreLocation(s, lines[i], i)]
           v == [pc |-> "restore", lines |-> lines, next |-> 1, loc |-> loc]
<1>1. DbStep
  BY TablesUnchanged DEF ReadSale
<1>2. CASE EndVoid(r, "failed")
  BY <1>1, <1>2, EndVoidKeeps DEF ReadSale, Finished, PosStep
<1>3. CASE void' = [void EXCEPT ![r] = v]
  <2>1. lines \in Seq(SaleLine)
    <3>1. s \in Sale
      BY PosAssumption
    <3> QED
      BY <3>1 DEF DbInv, TypeOKDb, DbTypeOK, SaleRow
  <2>2. \A i \in 1 .. Len(lines) :
          RestoreLocation(s, lines[i], i) \in Location \cup {NoLocation}
    BY <2>1, RestoreLocationType
  <2>3. loc \in Seq(Location \cup {NoLocation}) /\ Len(loc) = Len(lines)
    BY <2>1, <2>2
  <2> HIDE DEF lines, loc
  <2>4. v \in VoidState /\ Len(v.loc) = Len(v.lines)
    BY <2>1, <2>3 DEF VoidState
  <2> HIDE DEF v
  <2>5. PosInv'
    BY <1>3, <2>4, VoidAdvances DEF ReadSale
  <2> QED
    BY <1>1, <2>5 DEF PosStep
<1> QED
  BY <1>2, <1>3 DEF ReadSale

LEMMA RestoreLineKeeps ==
  ASSUME DbInv, PosInv, NEW r \in Voids, RestoreLine(r)
  PROVE  PosStep
<1> DEFINE v == void[r]
           line == v.lines[v.next]
           loc == v.loc[v.next]
           row == RestoredRow(r, line, loc, v.next)
           returned == [u \in {line.unit} \ {NoUnit} |-> [status |-> "RETURNED", loc |-> loc]]
           w == [v EXCEPT !.next = v.next + 1]
<1>1. v \in VoidState /\ v.pc = "restore" /\ v.next <= Len(v.lines)
      /\ Len(v.loc) = Len(v.lines)
  BY DEF RestoreLine, PosInv, TypeOKPos, PosLocalsConsistent
<1>2. r \in Req /\ VoidTarget[r] \in Sale
  BY PosAssumption
<1>3. w = [pc |-> v.pc, lines |-> v.lines, next |-> v.next + 1, loc |-> v.loc]
  BY <1>1 DEF VoidState
<1>4. void' = [void EXCEPT ![r] = w]
  BY DEF RestoreLine, PosInv, TypeOKPos
<1> HIDE DEF w
<1>5. w \in VoidState /\ Len(w.loc) = Len(w.lines)
  BY <1>1, <1>3 DEF VoidState
<1>6. PosInv'
  BY <1>4, <1>5, VoidAdvances DEF RestoreLine
<1>7. line \in SaleLine /\ loc \in Location \cup {NoLocation} /\ v.next \in Nat
  BY <1>1 DEF VoidState
<1>8. line.product \in Product /\ line.unit \in Unit \cup {NoUnit} /\ line.quantity \in Nat
  BY <1>7 DEF SaleLine
<1>9. UnitRowsOK(returned)
  BY <1>7, <1>8 DEF UnitRowsOK, UnitRow, ProductUnitStatus, STOCK_COUNTED_STATUSES
<1>10. Visible(r, line.product).quantityOnHand + line.quantity >= 0
  <2>1. Visible(r, line.product).quantityOnHand \in Nat
    BY <1>8, VisibleOK DEF RowOK, Row, ProductRow
  <2> QED
    BY <1>8, <2>1
<1>11. Stage(r, WriteStock(line.product, row, returned))
  BY DEF RestoreLine
<1>12. DbStep
  <2>1. line.quantity \in Int
    BY <1>8
  <2>2. row = Posted(Visible(r, line.product), "RETURN", line.quantity, line.unit, loc,
                     VoidTarget[r], v.next)
    BY DEF RestoredRow
  <2> HIDE DEF line, loc, row, returned, v
  <2>3. "RETURN" \in SystemKey /\ VoidTarget[r] \in Sale \cup {NoSale}
    BY <1>2 DEF SystemKey
  <2> QED
    BY <1>2, <1>7, <1>8, <1>9, <1>10, <1>11, <2>1, <2>2, <2>3, StagePosted
<1> QED
  BY <1>6, <1>12 DEF PosStep

LEMMA MarkVoidedKeeps ==
  ASSUME DbInv, PosInv, NEW r \in Voids, MarkVoided(r)
  PROVE  PosStep
<1> DEFINE s == VoidTarget[r]
           v == void[r]
           sale == [Visible(r, s) EXCEPT !.status = "VOIDED"]
           w == [v EXCEPT !.pc = "commit"]
<1>1. v \in VoidState
  BY DEF PosInv, TypeOKPos
<1>2. s \in Sale /\ r \in Req
  BY PosAssumption
<1>3. w = [pc |-> "commit", lines |-> v.lines, next |-> v.next, loc |-> v.loc]
  BY <1>1 DEF VoidState
<1>4. void' = [void EXCEPT ![r] = w]
  BY DEF MarkVoided, PosInv, TypeOKPos
<1> HIDE DEF w
<1>5. w \in VoidState /\ w.pc # "restore"
  BY <1>1, <1>3 DEF VoidState
<1>6. PosInv'
  BY <1>4, <1>5, VoidAdvances DEF MarkVoided
<1>7. sale \in SaleRow
  <2>1. Visible(r, s) \in SaleRow
    BY <1>2, VisibleOK DEF RowOK, Row
  <2> QED
    BY <2>1 DEF SaleRow
<1>8. Stage(r, Write(s, sale))
  BY DEF MarkVoided
<1> HIDE DEF sale
<1>9. \A x \in DOMAIN Write(s, sale) : x \in Row /\ RowOK(x, Write(s, sale)[x])
  BY <1>2, <1>7, RowAssumption DEF Write, RowOK, Row
<1>10. \A p \in Product : p \notin DOMAIN Write(s, sale)
  BY <1>2, RowAssumption DEF Write
<1>11. DbInv' /\ committed' = committed
  BY <1>2, <1>8, <1>9, <1>10, StageKeeps
<1> QED
  BY <1>6, <1>11, NothingPublished DEF PosStep, DbStep

LEMMA CommitVoidKeeps ==
  ASSUME DbInv, PosInv, NEW r \in Voids, CommitVoid(r)
  PROVE  PosStep
BY PosAssumption, Committed, EndVoidKeeps DEF CommitVoid, Finished, PosStep

LEMMA AbortVoidKeeps ==
  ASSUME DbInv, PosInv, NEW r \in Voids, AbortVoid(r)
  PROVE  PosStep
BY PosAssumption, RolledBack, EndVoidKeeps DEF AbortVoid, Finished, PosStep

-----------------------------------------------------------------------------
(* Every step of a checkout or a void.                                     *)
LEMMA PosNextKeeps ==
  ASSUME DbInv, PosInv, PosNext
  PROVE  PosStep
<1>1. ASSUME NEW r \in Checkouts, BeginCheckout(r) \/ CheckoutStep(r) \/ AbortCheckout(r)
      PROVE  PosStep
  BY <1>1, BeginCheckoutKeeps, PrepareSaleLineKeeps, CreateSaleKeeps, SellLineKeeps,
     CommitCheckoutKeeps, AbortCheckoutKeeps DEF CheckoutStep
<1>2. ASSUME NEW r \in Voids, ReadSale(r) \/ VoidStep(r) \/ AbortVoid(r)
      PROVE  PosStep
  BY <1>2, ReadSaleKeeps, RestoreLineKeeps, MarkVoidedKeeps, CommitVoidKeeps,
     AbortVoidKeeps DEF VoidStep
<1> QED
  BY <1>1, <1>2 DEF PosNext

(* The tables and the handlers start out as the invariant says.            *)
LEMMA InitPosLocalsOK ==
  ASSUME InitPosLocals
  PROVE  PosInv
<1>1. IdleCheckout \in CheckoutState /\ IdleVoid \in VoidState
  BY DEF IdleCheckout, IdleVoid, CheckoutState, VoidState
<1>2. TypeOKPos
  BY <1>1 DEF InitPosLocals, TypeOKPos
<1>3. PosLocalsConsistent
  BY DEF InitPosLocals, PosLocalsConsistent, IdleCheckout, IdleVoid
<1> QED
  BY <1>2, <1>3 DEF PosInv
-----------------------------------------------------------------------------
(* What the movements of sales say, through every step of a checkout or a  *)
(* void: SaleBooked and ReturnedWhereSold with SalesConsistent.            *)

PosReq == Checkouts \cup Voids

SalesInv == SalesConsistent /\ SaleBooked /\ ReturnedWhereSold

LEMMA SalesKeptAside ==
  ASSUME SalesConsistent
  PROVE  KeptAside(PosReq) /\ PosReq \in SUBSET Req
BY PosAssumption DEF SalesConsistent, KeptAside, PosReq

LEMMA LineType ==
  ASSUME NEW lines \in Seq(SaleLine), NEW k \in 1 .. Len(lines)
  PROVE  /\ lines[k] \in SaleLine /\ lines[k].product \in Product
         /\ lines[k].unit \in Unit \cup {NoUnit} /\ lines[k].quantity \in Nat
<1>1. lines[k] \in SaleLine
  OBVIOUS
<1> QED
  BY <1>1 DEF SaleLine

LEMMA CheckoutFields ==
  ASSUME PosInv, NEW r \in Checkouts
  PROVE  /\ checkout[r] \in CheckoutState
         /\ checkout[r].lines \in Seq(SaleLine) /\ Len(checkout[r].lines) \in Nat
         /\ checkout[r].next \in Nat \ {0} /\ SaleOf[r] \in Sale /\ r \in Req
<1>1. checkout[r] \in CheckoutState
  BY DEF PosInv, TypeOKPos
<1> QED
  BY <1>1, PosAssumption DEF CheckoutState

LEMMA VoidFields ==
  ASSUME PosInv, NEW r \in Voids
  PROVE  /\ void[r] \in VoidState
         /\ void[r].lines \in Seq(SaleLine) /\ Len(void[r].lines) \in Nat
         /\ void[r].next \in Nat \ {0} /\ VoidTarget[r] \in Sale /\ r \in Req
<1>1. void[r] \in VoidState
  BY DEF PosInv, TypeOKPos
<1> QED
  BY <1>1, PosAssumption DEF VoidState

(* The entries a request has made stay as they are while others step.      *)
LEMMA EnteredStays ==
  ASSUME NEW old, NEW new, NEW old2, NEW new2, NEW held,
         \A p \in held : old2[p] = old[p] /\ new2[p] = new[p],
         NEW type, NEW s, NEW lines, NEW loc, NEW n,
         EnteredUpTo(old, new, held, type, s, lines, loc, n)
  PROVE  EnteredUpTo(old2, new2, held, type, s, lines, loc, n)
<1>1. \A p \in held : NewEntries(old2, new2, p) = NewEntries(old, new, p)
  BY DEF NewEntries
<1> QED
  BY <1>1 DEF EnteredUpTo

LEMMA HeldStays ==
  ASSUME NEW q, SameFor(q)
  PROVE  /\ Held(q)' = Held(q)
         /\ \A p \in Held(q) : committed'[p] = committed[p] /\ pending'[p] = pending[p]
         /\ HoldsNothing(q) => HoldsNothing(q)'
BY DEF SameFor, Held, HoldsNothing

LEMMA CheckoutStays ==
  ASSUME PosInv, NEW q \in Checkouts, SameFor(q), CheckoutConsistent(q),
         checkout'[q] = checkout[q],
         checkout[q].pc \in {"idle", "prepare", "sell"} => committed'[SaleOf[q]] = committed[SaleOf[q]]
  PROVE  CheckoutConsistent(q)'
<1> DEFINE c == checkout[q]
           s == SaleOf[q]
<1>1. c' = c /\ s \in Sale
  BY CheckoutFields
<1>2. CASE c.pc = "sell"
  <2>1. EnteredUpTo(committed, pending, Held(q), "SALE", s, c.lines, c.loc, c.next - 1)
        /\ holder[s] = q /\ pending[s] = [status |-> "COMPLETED", items |-> c.lines]
        /\ committed[s] = [status |-> "NONE", items |-> <<>>]
    BY <1>2 DEF CheckoutConsistent
  <2>2. EnteredUpTo(committed', pending', Held(q), "SALE", s, c.lines, c.loc, c.next - 1)
    BY <2>1, HeldStays, EnteredStays
  <2>3. holder'[s] = q /\ pending'[s] = pending[s] /\ committed'[s] = committed[s]
    BY <1>1, <2>1 DEF SameFor
  <2> QED
    BY <1>1, <1>2, <2>1, <2>2, <2>3, HeldStays DEF CheckoutConsistent
<1>3. CASE c.pc # "sell"
  BY <1>1, <1>3, HeldStays DEF CheckoutConsistent
<1> QED
  BY <1>2, <1>3

LEMMA VoidStays ==
  ASSUME PosInv, NEW q \in Voids, SameFor(q), VoidConsistent(q), void'[q] = void[q],
         void[q].pc \in {"restore", "commit"} =>
           LET s == VoidTarget[q]
           IN  /\ committed'[s].items = committed[s].items
               /\ committed'[s].status \in {"COMPLETED", "VOIDED"}
               /\ WillGoBack(committed', s, void[q].lines, void[q].loc)
  PROVE  VoidConsistent(q)'
<1> DEFINE v == void[q]
           s == VoidTarget[q]
<1>1. v' = v /\ s \in Sale
  BY VoidFields
<1>2. CASE v.pc \in {"restore", "commit"}
  <2>1. EnteredUpTo(committed, pending, Held(q), "RETURN", s, v.lines, v.loc, v.next - 1)
        /\ committed[s].items = v.lines
    BY <1>2 DEF VoidConsistent
  <2>2. EnteredUpTo(committed', pending', Held(q), "RETURN", s, v.lines, v.loc, v.next - 1)
    BY <2>1, HeldStays, EnteredStays
  <2>3. v.pc = "commit" =>
          /\ v.next > Len(v.lines)
          /\ holder'[s] = q /\ pending'[s] = [status |-> "VOIDED", items |-> v.lines]
    BY <1>1, <1>2 DEF SameFor, VoidConsistent
  <2> QED
    BY <1>1, <1>2, <2>1, <2>2, <2>3, HeldStays DEF VoidConsistent
<1>3. CASE v.pc \notin {"restore", "commit"}
  BY <1>1, <1>3, HeldStays DEF VoidConsistent
<1> QED
  BY <1>2, <1>3

(* A step of r that publishes nothing: only what it says of r itself is to *)
(* be shown.                                                               *)
LEMMA UnpublishedKeeps ==
  ASSUME DbInv, PosInv, SalesInv, NEW r \in PosReq,
         \/ \E rows : Stage(r, rows)
         \/ Rollback(r) \/ UNCHANGED dbVars,
         \A q \in Checkouts \ {r} : checkout'[q] = checkout[q],
         \A q \in Voids \ {r} : void'[q] = void[q],
         r \in Checkouts => CheckoutConsistent(r)',
         r \in Voids => VoidConsistent(r)',
         \A s \in Sale : holder'[s] = r =>
           \/ r \in Checkouts /\ s = SaleOf[r]
           \/ r \in Voids /\ s = VoidTarget[r] /\ void'[r].pc = "commit"
  PROVE  SalesInv'
<1>1. committed' = committed
  BY DEF Stage, Rollback, dbVars
<1>2. \A q \in PosReq \ {r} : SameFor(q)
  BY OthersSeeNothing, SalesKeptAside DEF SalesInv
<1>3. ASSUME NEW q \in Checkouts
      PROVE  CheckoutConsistent(q)'
  <2>1. CheckoutConsistent(q)
    BY DEF SalesInv, SalesConsistent
  <2> QED
    BY <1>1, <1>2, <1>3, <2>1, CheckoutStays DEF PosReq
<1>4. ASSUME NEW q \in Voids
      PROVE  VoidConsistent(q)'
  <2>1. VoidConsistent(q)
    BY DEF SalesInv, SalesConsistent
  <2>2. CASE q # r
    <3>1. void[q].pc \in {"restore", "commit"} =>
           LET s == VoidTarget[q]
           IN  /\ committed'[s].items = committed[s].items
               /\ committed'[s].status \in {"COMPLETED", "VOIDED"}
               /\ WillGoBack(committed', s, void[q].lines, void[q].loc)
      BY <1>1, <2>1 DEF VoidConsistent
    <3> QED
      BY <1>2, <2>1, <2>2, <3>1, VoidStays DEF PosReq
  <2> QED
    BY <2>2
<1>5. ASSUME NEW s \in Sale, holder'[s] # NoReq
      PROVE  \/ holder'[s] \in Checkouts /\ s = SaleOf[holder'[s]]
             \/ holder'[s] \in Voids /\ s = VoidTarget[holder'[s]] /\ void'[holder'[s]].pc = "commit"
  <2>1. CASE holder'[s] = r
    BY <2>1
  <2>2. CASE holder'[s] # r
    <3>1. holder[s] = holder'[s]
      BY <1>5, <2>2 DEF Stage, Rollback, Released, dbVars, Row
    <3>2. \/ holder[s] \in Checkouts /\ s = SaleOf[holder[s]]
          \/ holder[s] \in Voids /\ s = VoidTarget[holder[s]] /\ void[holder[s]].pc = "commit"
      BY <1>5, <3>1 DEF SalesInv, SalesConsistent
    <3> QED
      BY <2>2, <3>1, <3>2
  <2> QED
    BY <2>1, <2>2
<1>6. ASSUME NEW p \in Product, holder'[p] \notin Checkouts \cup Voids
      PROVE  ContinuesAside(committed'[p].ledger, pending'[p].ledger)
  <2>1. Len(committed[p].ledger) \in Nat
    BY LedgersTyped
  <2>2. pending'[p] = committed[p] \/ (pending'[p] = pending[p] /\ holder[p] = holder'[p])
    BY <1>6 DEF Stage, Rollback, Released, dbVars, Row, PosReq
  <2> QED
    BY <1>1, <1>6, <2>1, <2>2, AsideReflexive DEF SalesInv, SalesConsistent
<1>7. SalesConsistent'
  BY <1>3, <1>4, <1>5, <1>6 DEF SalesConsistent
<1>8. SaleBooked' /\ ReturnedWhereSold'
  BY <1>1 DEF SalesInv, SaleBooked, ReturnedWhereSold
<1> QED
  BY <1>7, <1>8 DEF SalesInv

(* A request that has rolled back, or never held a row.                    *)
LEMMA RolledBackHoldsNothing ==
  ASSUME DbInv, NEW r \in Req, Rollback(r) \/ (UNCHANGED dbVars /\ HoldsNothing(r))
  PROVE  HoldsNothing(r)'
<1>1. CASE Rollback(r)
  BY <1>1, RowAssumption DEF Rollback, Released, HoldsNothing, Row
<1>2. CASE UNCHANGED dbVars /\ HoldsNothing(r)
  BY <1>2 DEF dbVars, HoldsNothing
<1> QED
  BY <1>1, <1>2

(* A checkout fails.                                                       *)
LEMMA FailedCheckoutKeeps ==
  ASSUME DbInv, PosInv, SalesInv, NEW r \in Checkouts,
         Rollback(r) \/ (UNCHANGED dbVars /\ HoldsNothing(r)),
         EndCheckout(r, "failed"), UNCHANGED void
  PROVE  SalesInv'
<1>1. r \in PosReq /\ r \in Req /\ r \notin Voids
  BY PosAssumption DEF PosReq
<1>2. HoldsNothing(r)'
  BY <1>1, RolledBackHoldsNothing
<1>3. checkout'[r].pc = "failed" /\ \A q \in Checkouts \ {r} : checkout'[q] = checkout[q]
  BY DEF EndCheckout, IdleCheckout, PosInv, TypeOKPos
<1>4. CheckoutConsistent(r)'
  BY <1>2, <1>3 DEF CheckoutConsistent
<1>5. \A s \in Sale : holder'[s] # r
  BY <1>2 DEF HoldsNothing
<1> QED
  BY <1>1, <1>3, <1>4, <1>5, UnpublishedKeeps

(* A void fails.                                                           *)
LEMMA FailedVoidKeeps ==
  ASSUME DbInv, PosInv, SalesInv, NEW r \in Voids,
         Rollback(r) \/ (UNCHANGED dbVars /\ HoldsNothing(r)),
         EndVoid(r, "failed"), UNCHANGED checkout
  PROVE  SalesInv'
<1>1. r \in PosReq /\ r \in Req /\ r \notin Checkouts
  BY PosAssumption DEF PosReq
<1>2. HoldsNothing(r)'
  BY <1>1, RolledBackHoldsNothing
<1>3. void'[r].pc = "failed" /\ \A q \in Voids \ {r} : void'[q] = void[q]
  BY DEF EndVoid, IdleVoid, PosInv, TypeOKPos
<1>4. VoidConsistent(r)'
  BY <1>2, <1>3 DEF VoidConsistent
<1>5. \A s \in Sale : holder'[s] # r
  BY <1>2 DEF HoldsNothing
<1> QED
  BY <1>1, <1>3, <1>4, <1>5, UnpublishedKeeps

(* One more line is entered.                                               *)
LEMMA EntryAdded ==
  ASSUME NEW old, NEW new, NEW new2, NEW held, NEW p, NEW type, NEW s,
         NEW lines \in Seq(SaleLine), NEW loc, NEW n \in Nat,
         EnteredUpTo(old, new, held, type, s, lines, loc, n),
         n + 1 <= Len(lines), lines[n + 1].product = p,
         \A q \in held \cup {p} : /\ Len(old[q].ledger) \in Nat
                                  /\ new[q].ledger \in Seq(StockMovement)
                                  /\ Len(old[q].ledger) <= Len(new[q].ledger),
         p \notin held => new[p].ledger = old[p].ledger,
         NEW m \in StockMovement, EntersLine(m, type, s, n + 1, lines[n + 1], loc[n + 1]),
         new2[p].ledger = Append(new[p].ledger, m),
         \A q \in held \ {p} : new2[q] = new[q]
  PROVE  EnteredUpTo(old, new2, held \cup {p}, type, s, lines, loc, n + 1)
<1> DEFINE last == Len(new[p].ledger) + 1
<1>1. /\ Len(new[p].ledger) \in Nat /\ Len(old[p].ledger) \in Nat
      /\ Len(old[p].ledger) <= Len(new[p].ledger)
      /\ Len(new2[p].ledger) = last /\ new2[p].ledger[last] = m
      /\ \A e \in 1 .. Len(new[p].ledger) : new2[p].ledger[e] = new[p].ledger[e]
  OBVIOUS
<1>2. NewEntries(old, new2, p) = NewEntries(old, new, p) \cup {last}
      /\ last \notin NewEntries(old, new, p)
      /\ \A e \in NewEntries(old, new, p) : new2[p].ledger[e] = new[p].ledger[e]
  <2> DEFINE a == Len(old[p].ledger)
             b == Len(new[p].ledger)
  <2> HIDE DEF last
  <2>1. a \in Nat /\ b \in Nat /\ a <= b /\ last = b + 1
    BY <1>1 DEF last
  <2>2. NewEntries(old, new2, p) = a + 1 .. last /\ NewEntries(old, new, p) = a + 1 .. b
    BY <1>1 DEF NewEntries
  <2> HIDE DEF a, b
  <2>3. a + 1 .. last = (a + 1 .. b) \cup {last} /\ last \notin a + 1 .. b
    BY <2>1
  <2>4. \A e \in a + 1 .. b : e \in 1 .. b
    BY <2>1
  <2>5. \A e \in 1 .. b : new2[p].ledger[e] = new[p].ledger[e]
    BY <1>1 DEF b
  <2> QED
    BY <2>2, <2>3, <2>4, <2>5
<1>3. p \notin held => NewEntries(old, new, p) = {}
  BY <1>1 DEF NewEntries
<1>4. \A q \in held \ {p} : new2[q] = new[q] /\ NewEntries(old, new2, q) = NewEntries(old, new, q)
  BY DEF NewEntries
<1>5. /\ \A k \in 1 .. n : /\ lines[k].product \in held
                           /\ \E e \in NewEntries(old, new, lines[k].product) :
                                 new[lines[k].product].ledger[e].item = k
      /\ \A q \in held : \A e \in NewEntries(old, new, q) :
           LET k == new[q].ledger[e].item
           IN  /\ k \in 1 .. n /\ lines[k].product = q
               /\ EntersLine(new[q].ledger[e], type, s, k, lines[k], loc[k])
               /\ \A f \in NewEntries(old, new, q) : new[q].ledger[f].item = k => f = e
  BY DEF EnteredUpTo
<1>6. m.item = n + 1
  BY DEF EntersLine
<1> HIDE DEF last
<1>7. ASSUME NEW k \in 1 .. n + 1
      PROVE  /\ lines[k].product \in held \cup {p}
             /\ \E e \in NewEntries(old, new2, lines[k].product) :
                   new2[lines[k].product].ledger[e].item = k
  <2>1. CASE k = n + 1
    BY <1>1, <1>2, <1>6, <2>1
  <2>2. CASE k \in 1 .. n
    <3>1. PICK e \in NewEntries(old, new, lines[k].product) :
            new[lines[k].product].ledger[e].item = k
      BY <1>5, <2>2
    <3>2. lines[k].product \in held
      BY <1>5, <2>2
    <3> QED
      BY <1>2, <1>4, <3>1, <3>2
  <2> QED
    BY <2>1, <2>2
<1>8. ASSUME NEW q \in held \cup {p}, NEW e \in NewEntries(old, new2, q)
      PROVE  LET k == new2[q].ledger[e].item
             IN  /\ k \in 1 .. n + 1 /\ lines[k].product = q
                 /\ EntersLine(new2[q].ledger[e], type, s, k, lines[k], loc[k])
                 /\ \A f \in NewEntries(old, new2, q) : new2[q].ledger[f].item = k => f = e
  <2>1. CASE q # p
    <3>1. q \in held /\ new2[q] = new[q] /\ e \in NewEntries(old, new, q)
          /\ NewEntries(old, new2, q) = NewEntries(old, new, q)
      BY <1>4, <2>1
    <3>2. new[q].ledger[e].item \in 1 .. n + 1
      BY <1>5, <3>1
    <3> QED
      BY <1>5, <3>1, <3>2
  <2>2. CASE q = p /\ e # last
    <3>1. e \in NewEntries(old, new, p) /\ p \in held /\ new2[p].ledger[e] = new[p].ledger[e]
      BY <1>2, <1>3, <2>2
    <3> DEFINE k == new[p].ledger[e].item
    <3>2. /\ k \in 1 .. n /\ lines[k].product = p
          /\ EntersLine(new[p].ledger[e], type, s, k, lines[k], loc[k])
          /\ \A f \in NewEntries(old, new, p) : new[p].ledger[f].item = k => f = e
      BY <1>5, <3>1
    <3>3. k \in 1 .. n + 1 /\ k # n + 1
      BY <3>2, SMTT(20)
    <3>4. \A f \in NewEntries(old, new2, p) : new2[p].ledger[f].item = k => f = e
      BY <1>1, <1>2, <1>6, <3>2, <3>3
    <3> HIDE DEF k
    <3>5. new2[p].ledger[e].item = k
      BY <3>1 DEF k
    <3> QED
      BY <2>2, <3>1, <3>2, <3>3, <3>4, <3>5
  <2>3. CASE q = p /\ e = last
    <3>1. new2[p].ledger[e] = m /\ m.item = n + 1
      BY <1>1, <1>6, <2>3
    <3>2. ASSUME NEW f \in NewEntries(old, new2, p), new2[p].ledger[f].item = n + 1
          PROVE  f = last
      <4>1. CASE f \in NewEntries(old, new, p)
        <5>1. p \in held
          BY <1>3, <4>1
        <5>2. new[p].ledger[f].item \in 1 .. n
          BY <1>5, <4>1, <5>1
        <5>3. new[p].ledger[f].item = n + 1
          BY <1>2, <3>2, <4>1
        <5> QED
          BY <5>2, <5>3
      <4> QED
        BY <1>2, <4>1
    <3>3. n + 1 \in 1 .. n + 1
      OBVIOUS
    <3> QED
      BY <2>3, <3>1, <3>2, <3>3
  <2> QED
    BY <2>1, <2>2, <2>3
<1> QED
  BY <1>7, <1>8 DEF EnteredUpTo

(* The ledger grew by one movement, of these fields.                       *)
Adds(ledger, new, type, change, u, loc, s, k) ==
  \E m \in StockMovement :
     /\ new = Append(ledger, m)
     /\ m.type = type /\ m.sale = s /\ m.item = k /\ m.unit = u /\ m.loc = loc
     /\ m.quantityChange = change

LEMMA PostedAdds ==
  ASSUME NEW row \in ProductRow, NEW type \in {"SALE", "RETURN"}, NEW s \in Sale,
         NEW k \in Nat, NEW loc \in Location \cup {NoLocation},
         NEW u \in Unit \cup {NoUnit}, NEW change \in Int
  PROVE  Adds(row.ledger, Posted(row, type, change, u, loc, s, k).ledger,
              type, change, u, loc, s, k)
<1> DEFINE m == Movement(type, change, row.quantityOnHand + change, u, loc, s, k)
<1>1. type \in SystemKey
  BY DEF SystemKey
<1>2. s \in Sale \cup {NoSale}
  BY Zenon
<1>3. Posted(row, type, change, u, loc, s, k).ledger = Append(row.ledger, m) /\ m \in StockMovement
  BY <1>1, <1>2, PostedLedger, ZenonT(30)
<1>4. /\ m.type = type /\ m.sale = s /\ m.item = k /\ m.unit = u
      /\ m.loc = loc /\ m.quantityChange = change
  BY Zenon DEF Movement
<1> HIDE DEF m
<1> QED
  BY <1>3, <1>4 DEF Adds

(* The statement that writes one more line, and what it leaves alone.      *)
LEMMA StagedEntry ==
  ASSUME DbInv, NEW r \in Req, NEW p \in Product, NEW type \in {"SALE", "RETURN"},
         NEW s \in Sale, NEW lines \in Seq(SaleLine), NEW loc, NEW n \in Nat,
         n + 1 <= Len(lines), lines[n + 1].product = p,
         loc[n + 1] \in Location \cup {NoLocation},
         EnteredUpTo(committed, pending, Held(r), type, s, lines, loc, n),
         NEW change, change = IF type = "SALE" THEN -lines[n + 1].quantity
                                               ELSE lines[n + 1].quantity,
         NEW unitRows, UnitRowsOK(unitRows),
         Stage(r, WriteStock(p, Posted(Visible(r, p), type, change, lines[n + 1].unit,
                                       loc[n + 1], s, n + 1), unitRows))
  PROVE  /\ EnteredUpTo(committed', pending', Held(r)', type, s, lines, loc, n + 1)
         /\ committed' = committed
         /\ \A t \in Sale : holder'[t] = holder[t] /\ pending'[t] = pending[t]
<1> DEFINE line == lines[n + 1]
           row == Posted(Visible(r, p), type, change, line.unit, loc[n + 1], s, n + 1)
           rows == WriteStock(p, row, unitRows)
<1>1. n + 1 \in 1 .. Len(lines) /\ n + 1 \in Nat
  OBVIOUS
<1>2. line.unit \in Unit \cup {NoUnit} /\ line.quantity \in Nat
  BY <1>1, LineType
<1>3. change \in Int
  BY <1>2
<1>4. Visible(r, p) \in ProductRow
  BY VisibleOK DEF RowOK, Row
<1>5. PICK m \in StockMovement :
        /\ row.ledger = Append(Visible(r, p).ledger, m)
        /\ m.type = type /\ m.sale = s /\ m.item = n + 1 /\ m.unit = line.unit
        /\ m.loc = loc[n + 1] /\ m.quantityChange = change
  <2> DEFINE k == n + 1
             l == loc[k]
             u == line.unit
             v == Visible(r, p)
  <2>1. k \in Nat
    OBVIOUS
  <2>2. l \in Location \cup {NoLocation}
    OBVIOUS
  <2>3. u \in Unit \cup {NoUnit}
    BY <1>2
  <2>4. v \in ProductRow
    BY <1>4
  <2>5. row = Posted(v, type, change, u, l, s, k)
    OBVIOUS
  <2> HIDE DEF line, k, l, u, v, row
  <2>6. Adds(v.ledger, Posted(v, type, change, u, l, s, k).ledger, type, change, u, l, s, k)
    BY <1>3, <2>1, <2>2, <2>3, <2>4, PostedAdds
  <2> QED
    BY <2>5, <2>6 DEF Adds, k, l, u, v
<1>6. EntersLine(m, type, s, n + 1, line, loc[n + 1])
  BY <1>5 DEF EntersLine
<1> HIDE DEF row, line
<1>7. Stage(r, rows)
  BY DEF row, line
<1>8. DOMAIN rows = {p} \cup DOMAIN unitRows /\ rows[p] = row
  BY DEF WriteStock
<1>9. \A x \in DOMAIN unitRows : x \in Unit /\ x \notin Product /\ x \notin Sale
  BY RowAssumption DEF UnitRowsOK
<1> HIDE DEF rows
<1>10. Lockable(r, p)
  BY <1>7, <1>8 DEF Stage
<1>11. Visible(r, p) = pending[p]
  BY <1>10, VisibleIsPending DEF Row
<1>12. /\ committed' = committed
       /\ pending'[p] = row /\ holder'[p] = r
       /\ \A q \in Product \ {p} : pending'[q] = pending[q] /\ holder'[q] = holder[q]
       /\ \A t \in Sale : holder'[t] = holder[t] /\ pending'[t] = pending[t]
  BY <1>7, <1>8, <1>9, RowAssumption DEF Stage, Row
<1>13. Held(r)' = Held(r) \cup {p}
  BY <1>12 DEF Held
<1>14. p \notin Held(r) => pending[p].ledger = committed[p].ledger
  BY <1>10 DEF Held, Lockable, DbInv, VersionsConsistent, Row
<1>15. \A q \in Held(r) \cup {p} :
         /\ Len(committed[q].ledger) \in Nat /\ pending[q].ledger \in Seq(StockMovement)
         /\ Len(committed[q].ledger) <= Len(pending[q].ledger)
  <2> TAKE q \in Held(r) \cup {p}
  <2>1. q \in Product
    BY DEF Held
  <2>2. Continues(committed[q].ledger, pending[q].ledger)
    BY <2>1 DEF DbInv, VersionsConsistent
  <2> QED
    BY <2>1, <2>2, LedgersTyped DEF Continues
<1>16. pending'[p].ledger = Append(pending[p].ledger, m)
  BY <1>5, <1>11, <1>12
<1>17. \A q \in Held(r) \ {p} : pending'[q] = pending[q]
  BY <1>12 DEF Held
<1>18. line = lines[n + 1]
  BY DEF line
<1>19. EnteredUpTo(committed, pending', Held(r) \cup {p}, type, s, lines, loc, n + 1)
  BY <1>5, <1>6, <1>14, <1>15, <1>16, <1>17, <1>18, EntryAdded, ZenonT(30)
<1> QED
  BY <1>12, <1>13, <1>19

(* A checkout that is still preparing has written nothing.                 *)
LEMMA PreparingKeeps ==
  ASSUME DbInv, PosInv, SalesInv, NEW r \in Checkouts,
         checkout[r].pc \in {"idle", "prepare"}, UNCHANGED <<dbVars, void>>,
         NEW c, checkout' = [checkout EXCEPT ![r] = c], c.pc = "prepare"
  PROVE  SalesInv'
<1>1. r \in PosReq /\ r \in Req /\ r \notin Voids /\ SaleOf[r] \in Sale
  BY PosAssumption DEF PosReq
<1>2. checkout'[r].pc = "prepare" /\ \A q \in Checkouts \ {r} : checkout'[q] = checkout[q]
  BY DEF PosInv, TypeOKPos
<1>3. HoldsNothing(r) /\ committed[SaleOf[r]] = [status |-> "NONE", items |-> <<>>]
  BY DEF SalesInv, SalesConsistent, CheckoutConsistent
<1>4. HoldsNothing(r)' /\ committed'[SaleOf[r]] = [status |-> "NONE", items |-> <<>>]
  BY <1>3 DEF HoldsNothing, dbVars
<1>5. CheckoutConsistent(r)'
  BY <1>2, <1>4 DEF CheckoutConsistent
<1>6. \A s \in Sale : holder'[s] # r
  BY <1>4 DEF HoldsNothing
<1> QED
  BY <1>1, <1>2, <1>5, <1>6, UnpublishedKeeps

LEMMA BeginCheckoutSales ==
  ASSUME DbInv, PosInv, SalesInv, NEW r \in Checkouts, BeginCheckout(r)
  PROVE  SalesInv'
<1>1. PICK body \in Payloads :
        IF Cart!Refuses(body.items)
          THEN EndCheckout(r, "failed")
          ELSE checkout' = [checkout EXCEPT
                  ![r] = [pc |-> "prepare", lines |-> Cart!Normalized(body.items),
                          tendered |-> body.tendered, next |-> 1, loc |-> <<>>]]
  BY DEF BeginCheckout
<1>2. UNCHANGED dbVars /\ UNCHANGED void /\ checkout[r].pc = "idle"
  BY DEF BeginCheckout
<1>3. HoldsNothing(r)
  BY <1>2 DEF SalesInv, SalesConsistent, CheckoutConsistent
<1>4. CASE EndCheckout(r, "failed")
  BY <1>2, <1>3, <1>4, FailedCheckoutKeeps
<1>5. CASE checkout' = [checkout EXCEPT
                  ![r] = [pc |-> "prepare", lines |-> Cart!Normalized(body.items),
                          tendered |-> body.tendered, next |-> 1, loc |-> <<>>]]
  <2> DEFINE c == [pc |-> "prepare", lines |-> Cart!Normalized(body.items),
                   tendered |-> body.tendered, next |-> 1, loc |-> <<>>]
  <2>1. c.pc = "prepare" /\ checkout' = [checkout EXCEPT ![r] = c]
    BY <1>5
  <2> HIDE DEF c
  <2> QED
    BY <1>2, <2>1, PreparingKeeps
<1> QED
  BY <1>1, <1>4, <1>5

LEMMA PrepareSaleLineSales ==
  ASSUME DbInv, PosInv, SalesInv, NEW r \in Checkouts, PrepareSaleLine(r)
  PROVE  SalesInv'
<1> DEFINE c == checkout[r]
           line == c.lines[c.next]
           d == [c EXCEPT !.next = c.next + 1, !.loc = Append(c.loc, LineLocation(r, line))]
<1>1. UNCHANGED dbVars /\ UNCHANGED void /\ c.pc = "prepare"
  BY DEF PrepareSaleLine
<1>2. HoldsNothing(r)
  BY <1>1 DEF SalesInv, SalesConsistent, CheckoutConsistent
<1>3. CASE EndCheckout(r, "failed")
  BY <1>1, <1>2, <1>3, FailedCheckoutKeeps
<1>4. CASE checkout' = [checkout EXCEPT ![r] = d]
  <2>1. d.pc = "prepare"
    <3> DEFINE e == [c EXCEPT !.next = c.next + 1]
    <3>1. d = [e EXCEPT !.loc = Append(c.loc, LineLocation(r, line))]
      BY Zenon
    <3>2. e = [pc |-> c.pc, lines |-> c.lines, tendered |-> c.tendered,
               next |-> c.next + 1, loc |-> c.loc]
      BY CheckoutFields DEF CheckoutState
    <3> HIDE DEF d, e
    <3> QED
      BY <1>1, <3>1, <3>2
  <2> HIDE DEF d
  <2> QED
    BY <1>1, <1>4, <2>1, PreparingKeeps
<1> QED
  BY <1>3, <1>4 DEF PrepareSaleLine

(* A request that holds nothing has entered nothing.                       *)
LEMMA NothingEntered ==
  ASSUME NEW old, NEW new, NEW type, NEW s, NEW lines, Len(lines) \in Nat, NEW loc
  PROVE  EnteredUpTo(old, new, {}, type, s, lines, loc, 0)
BY DEF EnteredUpTo

LEMMA CreateSaleSales ==
  ASSUME DbInv, PosInv, SalesInv, NEW r \in Checkouts, CreateSale(r)
  PROVE  SalesInv'
<1> DEFINE c == checkout[r]
           d == [c EXCEPT !.pc = "sell", !.next = 1]
           s == SaleOf[r]
           sale == [status |-> "COMPLETED", items |-> c.lines]
<1>1. c \in CheckoutState /\ c.pc = "prepare" /\ s \in Sale /\ r \in Req /\ Len(c.lines) \in Nat
  BY CheckoutFields DEF CreateSale
<1>2. HoldsNothing(r) /\ committed[s] = [status |-> "NONE", items |-> <<>>]
  BY <1>1 DEF SalesInv, SalesConsistent, CheckoutConsistent
<1>3. CASE EndCheckout(r, "failed") /\ UNCHANGED dbVars
  BY <1>2, <1>3, FailedCheckoutKeeps DEF CreateSale
<1>4. CASE /\ Stage(r, Write(s, sale))
           /\ checkout' = [checkout EXCEPT ![r] = d]
  <2>1. d = [pc |-> "sell", lines |-> c.lines, tendered |-> c.tendered, next |-> 1,
             loc |-> c.loc]
    <3> DEFINE e == [c EXCEPT !.pc = "sell"]
    <3>1. d = [e EXCEPT !.next = 1]
      BY Zenon
    <3>2. e = [pc |-> "sell", lines |-> c.lines, tendered |-> c.tendered,
               next |-> c.next, loc |-> c.loc]
      BY <1>1 DEF CheckoutState
    <3> HIDE DEF d, e
    <3> QED
      BY <3>1, <3>2
  <2> HIDE DEF d, sale
  <2>2. checkout'[r] = d /\ \A q \in Checkouts \ {r} : checkout'[q] = checkout[q]
    BY <1>4 DEF PosInv, TypeOKPos
  <2>3. /\ committed' = committed /\ holder'[s] = r /\ pending'[s] = sale
        /\ \A x \in Row \ {s} : holder'[x] = holder[x]
    BY <1>1, <1>4 DEF Stage, Write, Row
  <2>4. Held(r)' = {}
    BY <1>1, <1>2, <2>3, RowAssumption DEF Held, HoldsNothing, Row
  <2>5. \A t \in Sale : holder'[t] = r => t = s
    BY <1>2, <2>3 DEF HoldsNothing, Row
  <2>6. EnteredUpTo(committed', pending', Held(r)', "SALE", s, c.lines, c.loc, 0)
    BY <1>1, <2>4, NothingEntered
  <2>7. CheckoutConsistent(r)'
    <3>1. /\ d.pc = "sell" /\ d.lines = c.lines /\ d.loc = c.loc /\ d.next - 1 = 0
      BY <2>1
    <3>2. sale = [status |-> "COMPLETED", items |-> d.lines]
      BY <3>1 DEF sale
    <3> QED
      BY <1>2, <2>2, <2>3, <2>6, <3>1, <3>2 DEF CheckoutConsistent
  <2>8. r \in PosReq /\ r \notin Voids
    BY PosAssumption DEF PosReq
  <2>9. UNCHANGED void
    BY DEF CreateSale
  <2> QED
    BY <1>4, <2>2, <2>5, <2>7, <2>8, <2>9, UnpublishedKeeps
<1> QED
  BY <1>3, <1>4 DEF CreateSale

LEMMA SellLineSales ==
  ASSUME DbInv, PosInv, SalesInv, NEW r \in Checkouts, SellLine(r)
  PROVE  SalesInv'
<1> DEFINE c == checkout[r]
           s == SaleOf[r]
           line == c.lines[c.next]
           row == SoldRow(r, line, c.loc[c.next], c.next)
           sold == [u \in {line.unit} \ {NoUnit} |-> [status |-> "SOLD", loc |-> NoLocation]]
           d == [c EXCEPT !.next = c.next + 1]
<1>1. /\ c \in CheckoutState /\ c.pc = "sell" /\ c.next <= Len(c.lines)
      /\ Len(c.loc) >= Len(c.lines) /\ s \in Sale /\ r \in Req
      /\ c.lines \in Seq(SaleLine) /\ c.next \in Nat \ {0}
  BY CheckoutFields DEF SellLine, PosInv, PosLocalsConsistent
<1>2. CASE Rollback(r) /\ EndCheckout(r, "failed")
  BY <1>2, FailedCheckoutKeeps DEF SellLine
<1>3. CASE /\ Stage(r, WriteStock(line.product, row, sold))
           /\ checkout' = [checkout EXCEPT ![r].next = @ + 1]
  <2>1. d = [pc |-> c.pc, lines |-> c.lines, tendered |-> c.tendered, next |-> c.next + 1,
             loc |-> c.loc]
    BY <1>1 DEF CheckoutState
  <2>2. checkout'[r] = d /\ \A q \in Checkouts \ {r} : checkout'[q] = checkout[q]
    BY <1>3 DEF PosInv, TypeOKPos
  <2> HIDE DEF d
  <2>3. /\ committed[s] = [status |-> "NONE", items |-> <<>>]
        /\ holder[s] = r /\ pending[s] = [status |-> "COMPLETED", items |-> c.lines]
        /\ EnteredUpTo(committed, pending, Held(r), "SALE", s, c.lines, c.loc, c.next - 1)
    BY <1>1 DEF SalesInv, SalesConsistent, CheckoutConsistent
  <2> DEFINE n == c.next - 1
             change == -line.quantity
  <2>4. n \in Nat /\ n + 1 = c.next /\ n + 1 <= Len(c.lines)
    BY <1>1
  <2>5. /\ line.product \in Product /\ c.loc[c.next] \in Location \cup {NoLocation}
        /\ line.unit \in Unit \cup {NoUnit}
    BY <1>1, LineType DEF CheckoutState
  <2>6. UnitRowsOK(sold)
    BY <2>5 DEF UnitRowsOK, UnitRow, ProductUnitStatus, LOCATION_CLEARED_STATUSES
  <2>7. Stage(r, WriteStock(line.product, Posted(Visible(r, line.product), "SALE", change,
                             c.lines[n + 1].unit, c.loc[n + 1], s, n + 1), sold))
    BY <1>3, <2>4 DEF SoldRow
  <2>8. change = IF "SALE" = "SALE" THEN -c.lines[n + 1].quantity ELSE c.lines[n + 1].quantity
    BY <2>4
  <2>9. c.lines[n + 1].product = line.product /\ c.loc[n + 1] \in Location \cup {NoLocation}
    BY <2>4, <2>5
  <2> HIDE DEF sold, change, n
  <2>10. EnteredUpTo(committed, pending, Held(r), "SALE", s, c.lines, c.loc, n)
    BY <2>3 DEF n
  <2>11. /\ EnteredUpTo(committed', pending', Held(r)', "SALE", s, c.lines, c.loc, n + 1)
         /\ committed' = committed
         /\ \A t \in Sale : holder'[t] = holder[t] /\ pending'[t] = pending[t]
    <3>1. "SALE" \in {"SALE", "RETURN"}
      OBVIOUS
    <3> QED
      BY <1>1, <2>4, <2>5, <2>6, <2>7, <2>8, <2>9, <2>10, <3>1, StagedEntry
  <2>12. CheckoutConsistent(r)'
    <3>1. d.pc = "sell" /\ d.lines = c.lines /\ d.loc = c.loc /\ d.next - 1 = n + 1
      BY <1>1, <2>1, <2>4
    <3> QED
      BY <1>1, <2>2, <2>3, <2>11, <3>1 DEF CheckoutConsistent
  <2>13. ASSUME NEW t \in Sale, holder'[t] = r
         PROVE  t = s
    <3>1. holder[t] = r
      BY <2>11, <2>13
    <3>2. r # NoReq /\ r \notin Voids
      BY PosAssumption, RowAssumption
    <3> QED
      BY <3>1, <3>2 DEF SalesInv, SalesConsistent
  <2>14. r \in PosReq /\ r \notin Voids /\ UNCHANGED void
    BY PosAssumption DEF PosReq, SellLine
  <2>15. \E rows : Stage(r, rows)
    BY <1>3
  <2> QED
    BY <2>2, <2>12, <2>13, <2>14, <2>15, UnpublishedKeeps
<1> QED
  BY <1>2, <1>3 DEF SellLine

LEMMA AbortCheckoutSales ==
  ASSUME DbInv, PosInv, SalesInv, NEW r \in Checkouts, AbortCheckout(r)
  PROVE  SalesInv'
BY FailedCheckoutKeeps DEF AbortCheckout

-----------------------------------------------------------------------------
(* An item has one entry exactly when there is an entry like no other.     *)
HasOne(set) == Cardinality(set) = 1

IsOne(set) == \E e : set = {e}

LEMMA SingleEntry ==
  ASSUME NEW ledger \in Seq(StockMovement), NEW type, NEW s, NEW k
  PROVE  HasOne(Entries(ledger, type, s, k)) <=> IsOne(Entries(ledger, type, s, k))
<1>1. Len(ledger) \in Nat /\ DOMAIN ledger = 1 .. Len(ledger)
  OBVIOUS
<1>2. IsFiniteSet(1 .. Len(ledger))
  BY <1>1, FS_Interval
<1>3. Entries(ledger, type, s, k) \in SUBSET (1 .. Len(ledger))
  BY <1>1 DEF Entries
<1>4. IsFiniteSet(Entries(ledger, type, s, k))
  BY <1>2, <1>3, FS_Subset
<1> QED
  BY <1>4, FS_Singleton DEF HasOne, IsOne

(* voidSale finds the location of the SALE movement, if it names one.      *)
LEMMA RestoreLocationFound ==
  ASSUME DbInv, SaleBooked, NEW s \in Sale, NEW k \in DOMAIN committed[s].items
  PROVE  LET line == committed[s].items[k]
             ledger == committed[line.product].ledger
         IN  \A e \in Entries(ledger, "SALE", s, k) :
                ledger[e].loc \in {NoLocation, RestoreLocation(s, line, k)}
<1> DEFINE line == committed[s].items[k]
           ledger == committed[line.product].ledger
           entries == Entries(ledger, "SALE", s, k)
           original == {i \in DOMAIN ledger : /\ ledger[i].type = "SALE"
                                               /\ ledger[i].sale = s /\ ledger[i].item = k
                                               /\ ledger[i].loc # NoLocation}
<1>1. committed[s].items \in Seq(SaleLine)
  BY DEF DbInv, TypeOKDb, DbTypeOK, SaleRow
<1>2. line.product \in Product
  <2>1. k \in 1 .. Len(committed[s].items)
    BY <1>1
  <2> QED
    BY <1>1, <2>1, LineType
<1>3. ledger \in Seq(StockMovement)
  BY <1>2, LedgersTyped
<1>4. Cardinality(entries) = 1
  BY DEF SaleBooked, SaleEntered
<1>5. PICK e : entries = {e}
  <2>1. HasOne(entries) <=> IsOne(entries)
    <3> HIDE DEF ledger
    <3> QED
      BY <1>3, SingleEntry
  <2> HIDE DEF entries
  <2> QED
    BY <1>4, <2>1 DEF HasOne, IsOne
<1>6. CASE ledger[e].loc = NoLocation
  BY <1>5, <1>6
<1>7. CASE ledger[e].loc # NoLocation
  <2>1. original = {e}
    BY <1>5, <1>7 DEF Entries
  <2> DEFINE x == CHOOSE i \in original : TRUE
  <2>2. x = e
    <3> HIDE DEF original
    <3> QED
      BY <2>1
  <2>3. RestoreLocation(s, line, k) = ledger[x].loc
    BY <2>1 DEF RestoreLocation
  <2> HIDE DEF x, original
  <2> QED
    BY <1>5, <2>2, <2>3
<1> QED
  BY <1>6, <1>7

LEMMA ReadSaleSales ==
  ASSUME DbInv, PosInv, SalesInv, NEW r \in Voids, ReadSale(r)
  PROVE  SalesInv'
<1> DEFINE s == VoidTarget[r]
           lines == committed[s].items
           loc == [i \in 1 .. Len(lines) |-> RestoreLocation(s, lines[i], i)]
           v == [pc |-> "restore", lines |-> lines, next |-> 1, loc |-> loc]
<1>1. s \in Sale /\ r \in Req /\ r \in PosReq /\ r \notin Checkouts
  BY PosAssumption DEF PosReq
<1>2. UNCHANGED dbVars /\ UNCHANGED checkout /\ void[r].pc = "idle"
  BY DEF ReadSale
<1>3. HoldsNothing(r)
  BY <1>2 DEF SalesInv, SalesConsistent, VoidConsistent
<1>4. CASE EndVoid(r, "failed")
  BY <1>2, <1>3, <1>4, FailedVoidKeeps
<1>5. CASE Voidable(s) /\ void' = [void EXCEPT ![r] = v]
  <2>1. lines \in Seq(SaleLine) /\ Len(lines) \in Nat
    BY <1>1 DEF DbInv, TypeOKDb, DbTypeOK, SaleRow
  <2>2. WillGoBack(committed, s, lines, loc)
    <3> SUFFICES ASSUME NEW k \in 1 .. Len(lines)
                 PROVE  LET ledger == committed[lines[k].product].ledger
                        IN  \A e \in Entries(ledger, "SALE", s, k) :
                               ledger[e].loc \in {NoLocation, loc[k]}
      BY DEF WillGoBack
    <3>1. k \in DOMAIN committed[s].items
      BY <2>1
    <3>2. LET ledger == committed[lines[k].product].ledger
          IN  \A e \in Entries(ledger, "SALE", s, k) :
                 ledger[e].loc \in {NoLocation, RestoreLocation(s, lines[k], k)}
      BY <1>1, <3>1, RestoreLocationFound DEF SalesInv
    <3>3. loc[k] = RestoreLocation(s, lines[k], k)
      OBVIOUS
    <3> HIDE DEF lines, loc
    <3> QED
      BY <3>2, <3>3
  <2> HIDE DEF loc
  <2>3. void'[r] = v /\ \A q \in Voids \ {r} : void'[q] = void[q]
    BY <1>5 DEF PosInv, TypeOKPos
  <2>4. HoldsNothing(r)' /\ committed' = committed
    BY <1>2, <1>3 DEF HoldsNothing, dbVars
  <2>5. Held(r)' = {}
    BY <2>4 DEF Held, HoldsNothing
  <2>6. EnteredUpTo(committed', pending', Held(r)', "RETURN", s, lines, loc, 0)
    BY <2>1, <2>5, NothingEntered
  <2>7. committed'[s].status \in {"COMPLETED", "VOIDED"} /\ committed'[s].items = lines
    BY <1>5, <2>4 DEF Voidable
  <2>8. WillGoBack(committed', s, lines, loc)
    BY <2>2, <2>4
  <2> HIDE DEF lines
  <2>9. VoidConsistent(r)'
    <3>1. v.pc = "restore" /\ v.lines = lines /\ v.loc = loc /\ v.next - 1 = 0
      OBVIOUS
    <3> HIDE DEF v
    <3> QED
      BY <2>3, <2>6, <2>7, <2>8, <3>1 DEF VoidConsistent
  <2>10. \A t \in Sale : holder'[t] # r
    BY <2>4 DEF HoldsNothing
  <2> QED
    BY <1>1, <1>2, <2>3, <2>9, <2>10, UnpublishedKeeps
<1> QED
  BY <1>4, <1>5 DEF ReadSale

LEMMA RestoreLineSales ==
  ASSUME DbInv, PosInv, SalesInv, NEW r \in Voids, RestoreLine(r)
  PROVE  SalesInv'
<1> DEFINE v == void[r]
           s == VoidTarget[r]
           line == v.lines[v.next]
           back == [u \in {line.unit} \ {NoUnit} |-> [status |-> "RETURNED", loc |-> v.loc[v.next]]]
           w == [v EXCEPT !.next = v.next + 1]
           n == v.next - 1
           change == line.quantity
<1>1. /\ v \in VoidState /\ v.pc = "restore" /\ v.next <= Len(v.lines)
      /\ Len(v.loc) = Len(v.lines) /\ s \in Sale /\ r \in Req
      /\ v.lines \in Seq(SaleLine) /\ v.next \in Nat \ {0}
  BY VoidFields DEF RestoreLine, PosInv, PosLocalsConsistent
<1>2. w = [pc |-> v.pc, lines |-> v.lines, next |-> v.next + 1, loc |-> v.loc]
  BY <1>1 DEF VoidState
<1>3. void'[r] = w /\ \A q \in Voids \ {r} : void'[q] = void[q]
  BY DEF RestoreLine, PosInv, TypeOKPos
<1> HIDE DEF w
<1>4. /\ committed[s].status \in {"COMPLETED", "VOIDED"} /\ committed[s].items = v.lines
      /\ EnteredUpTo(committed, pending, Held(r), "RETURN", s, v.lines, v.loc, n)
      /\ WillGoBack(committed, s, v.lines, v.loc)
  BY <1>1 DEF SalesInv, SalesConsistent, VoidConsistent
<1>5. n \in Nat /\ n + 1 = v.next /\ n + 1 <= Len(v.lines)
  BY <1>1
<1>6. /\ line.product \in Product /\ v.loc[v.next] \in Location \cup {NoLocation}
      /\ line.unit \in Unit \cup {NoUnit}
  BY <1>1, LineType DEF VoidState
<1>7. UnitRowsOK(back)
  BY <1>6 DEF UnitRowsOK, UnitRow, ProductUnitStatus, STOCK_COUNTED_STATUSES
<1>8. Stage(r, WriteStock(line.product, Posted(Visible(r, line.product), "RETURN", change,
                           v.lines[n + 1].unit, v.loc[n + 1], s, n + 1), back))
  BY <1>5 DEF RestoreLine, RestoredRow
<1>9. change = IF "RETURN" = "SALE" THEN -v.lines[n + 1].quantity ELSE v.lines[n + 1].quantity
  BY <1>5
<1>10. v.lines[n + 1].product = line.product /\ v.loc[n + 1] \in Location \cup {NoLocation}
  BY <1>5, <1>6
<1> HIDE DEF back, change, n
<1>11. /\ EnteredUpTo(committed', pending', Held(r)', "RETURN", s, v.lines, v.loc, n + 1)
       /\ committed' = committed
       /\ \A t \in Sale : holder'[t] = holder[t] /\ pending'[t] = pending[t]
  <2>1. "RETURN" \in {"SALE", "RETURN"}
    OBVIOUS
  <2> QED
    BY <1>1, <1>4, <1>5, <1>6, <1>7, <1>8, <1>9, <1>10, <2>1, StagedEntry
<1>12. VoidConsistent(r)'
  <2>1. w.pc = "restore" /\ w.lines = v.lines /\ w.loc = v.loc /\ w.next - 1 = n + 1
    BY <1>1, <1>2, <1>5
  <2> QED
    BY <1>3, <1>4, <1>11, <2>1 DEF VoidConsistent
<1>13. ASSUME NEW t \in Sale, holder'[t] = r
       PROVE  FALSE
  <2>1. holder[t] = r
    BY <1>11, <1>13
  <2>2. r # NoReq /\ r \notin Checkouts /\ void[r].pc # "commit"
    BY <1>1, PosAssumption, RowAssumption
  <2> QED
    BY <2>1, <2>2 DEF SalesInv, SalesConsistent
<1>14. r \in PosReq /\ r \notin Checkouts /\ UNCHANGED checkout
  BY PosAssumption DEF PosReq, RestoreLine
<1>15. \E rows : Stage(r, rows)
  BY <1>8
<1> QED
  BY <1>3, <1>12, <1>13, <1>14, <1>15, UnpublishedKeeps

LEMMA MarkVoidedSales ==
  ASSUME DbInv, PosInv, SalesInv, NEW r \in Voids, MarkVoided(r)
  PROVE  SalesInv'
<1> DEFINE v == void[r]
           s == VoidTarget[r]
           sale == [Visible(r, s) EXCEPT !.status = "VOIDED"]
           w == [v EXCEPT !.pc = "commit"]
<1>1. /\ v \in VoidState /\ v.pc = "restore" /\ v.next > Len(v.lines) /\ s \in Sale /\ r \in Req
      /\ Len(v.lines) \in Nat /\ v.next \in Nat
  BY VoidFields DEF MarkVoided
<1>2. w = [pc |-> "commit", lines |-> v.lines, next |-> v.next, loc |-> v.loc]
  BY <1>1 DEF VoidState
<1>3. void'[r] = w /\ \A q \in Voids \ {r} : void'[q] = void[q]
  BY DEF MarkVoided, PosInv, TypeOKPos
<1> HIDE DEF w
<1>4. /\ committed[s].status \in {"COMPLETED", "VOIDED"} /\ committed[s].items = v.lines
      /\ EnteredUpTo(committed, pending, Held(r), "RETURN", s, v.lines, v.loc, v.next - 1)
      /\ WillGoBack(committed, s, v.lines, v.loc)
  BY <1>1 DEF SalesInv, SalesConsistent, VoidConsistent
<1>5. r # NoReq /\ r \notin Checkouts
  BY PosAssumption, RowAssumption
<1>6. \A t \in Sale : holder[t] # r
  BY <1>1, <1>5 DEF SalesInv, SalesConsistent
<1>7. Visible(r, s) = committed[s]
  BY <1>1, <1>6 DEF Visible
<1>8. committed[s] \in SaleRow
  BY <1>1 DEF DbInv, TypeOKDb, DbTypeOK
<1>9. sale = [status |-> "VOIDED", items |-> v.lines]
  BY <1>4, <1>7, <1>8 DEF SaleRow
<1>10. Stage(r, Write(s, sale)) /\ UNCHANGED checkout
  BY DEF MarkVoided
<1> HIDE DEF sale
<1>11. /\ committed' = committed /\ holder'[s] = r /\ pending'[s] = sale
       /\ \A x \in Row \ {s} : holder'[x] = holder[x] /\ pending'[x] = pending[x]
  BY <1>1, <1>10 DEF Stage, Write, Row
<1>12. Held(r)' = Held(r) /\ \A p \in Held(r) : pending'[p] = pending[p]
  BY <1>1, <1>11, RowAssumption DEF Held, Row
<1>13. EnteredUpTo(committed', pending', Held(r)', "RETURN", s, v.lines, v.loc, v.next - 1)
  BY <1>4, <1>11, <1>12, EnteredStays
<1>14. VoidConsistent(r)'
  <2>1. w.pc = "commit" /\ w.lines = v.lines /\ w.loc = v.loc /\ w.next = v.next
    BY <1>2
  <2> QED
    BY <1>1, <1>3, <1>4, <1>9, <1>11, <1>13, <2>1 DEF VoidConsistent
<1>15. \A t \in Sale : holder'[t] = r => t = s
  BY <1>6, <1>11 DEF Row
<1>16. r \in PosReq /\ void'[r].pc = "commit"
  BY <1>2, <1>3 DEF PosReq
<1> QED
  BY <1>3, <1>5, <1>10, <1>14, <1>15, <1>16, UnpublishedKeeps

LEMMA AbortVoidSales ==
  ASSUME DbInv, PosInv, SalesInv, NEW r \in Voids, AbortVoid(r)
  PROVE  SalesInv'
BY FailedVoidKeeps DEF AbortVoid

-----------------------------------------------------------------------------
(* What a commit publishes: the entries of one type of the lines of one    *)
(* sale, at the end of the ledgers of the products held.                   *)

LedgersContinue(old, new) ==
  \A p \in Product : /\ old[p].ledger \in Seq(StockMovement)
                     /\ new[p].ledger \in Seq(StockMovement)
                     /\ Continues(old[p].ledger, new[p].ledger)

Publishes(old, new, held, type, s, lines, loc) ==
  /\ LedgersContinue(old, new)
  /\ held \subseteq Product /\ lines \in Seq(SaleLine)
  /\ \A p \in Product \ held : new[p] = old[p]
  /\ \A t \in Sale \ {s} : new[t] = old[t]
  /\ EnteredUpTo(old, new, held, type, s, lines, loc, Len(lines))

(* The entry number e of p is new, and enters its line.                    *)
FitsLine(new, p, e, type, s, lines, loc) ==
  LET m == new[p].ledger[e]
  IN  /\ m.item \in 1 .. Len(lines) /\ lines[m.item].product = p
      /\ EntersLine(m, type, s, m.item, lines[m.item], loc[m.item])

LEMMA OldOrNew ==
  ASSUME NEW old, NEW new, LedgersContinue(old, new), NEW p \in Product,
         NEW e \in DOMAIN new[p].ledger
  PROVE  \/ e \in NewEntries(old, new, p)
         \/ e \in DOMAIN old[p].ledger /\ new[p].ledger[e] = old[p].ledger[e]
<1> DEFINE a == old[p].ledger
           b == new[p].ledger
<1>1. a \in Seq(StockMovement) /\ b \in Seq(StockMovement) /\ Continues(a, b)
  BY DEF LedgersContinue
<1>2. e \in DOMAIN b /\ NewEntries(old, new, p) = Len(a) + 1 .. Len(b)
  BY DEF NewEntries
<1> HIDE DEF a, b
<1>3. e \in Len(a) + 1 .. Len(b) \/ (e \in DOMAIN a /\ b[e] = a[e])
  BY <1>1, <1>2 DEF Continues
<1> QED
  BY <1>2, <1>3 DEF a, b

LEMMA OldKept ==
  ASSUME NEW old, NEW new, LedgersContinue(old, new), NEW p \in Product
  PROVE  /\ NewEntries(old, new, p) \subseteq DOMAIN new[p].ledger
         /\ \A e \in DOMAIN old[p].ledger :
              e \in DOMAIN new[p].ledger /\ new[p].ledger[e] = old[p].ledger[e]
BY DEF LedgersContinue, Continues, NewEntries

LEMMA NewFits ==
  ASSUME NEW old, NEW new, NEW held, NEW type, NEW s, NEW lines, NEW loc,
         Publishes(old, new, held, type, s, lines, loc),
         NEW p \in Product, NEW e \in NewEntries(old, new, p)
  PROVE  /\ FitsLine(new, p, e, type, s, lines, loc)
         /\ \A f \in NewEntries(old, new, p) :
              new[p].ledger[f].item = new[p].ledger[e].item => f = e
<1>1. p \in held
  <2>1. Len(old[p].ledger) \in Nat
    BY DEF Publishes, LedgersContinue
  <2>2. p \notin held => NewEntries(old, new, p) = {}
    BY <2>1 DEF Publishes, NewEntries
  <2> QED
    BY <2>2
<1>2. EnteredUpTo(old, new, held, type, s, lines, loc, Len(lines))
  BY DEF Publishes
<1> QED
  BY <1>1, <1>2 DEF EnteredUpTo, FitsLine

(* The entries of another type, of another sale or of another item are as  *)
(* they were.                                                              *)
SameEntries(old, new, p, type, s, k) ==
  /\ Entries(new[p].ledger, type, s, k) = Entries(old[p].ledger, type, s, k)
  /\ \A e \in Entries(old[p].ledger, type, s, k) : new[p].ledger[e] = old[p].ledger[e]

LEMMA EntriesKept ==
  ASSUME NEW old, NEW new, LedgersContinue(old, new), NEW p \in Product, NEW type, NEW s, NEW k,
         \A e \in NewEntries(old, new, p) :
            LET m == new[p].ledger[e] IN m.type # type \/ m.sale # s \/ m.item # k
  PROVE  SameEntries(old, new, p, type, s, k)
<1>1. \A e \in Entries(new[p].ledger, type, s, k) : e \in Entries(old[p].ledger, type, s, k)
  BY OldOrNew DEF Entries
<1>2. \A e \in Entries(old[p].ledger, type, s, k) :
         e \in Entries(new[p].ledger, type, s, k) /\ new[p].ledger[e] = old[p].ledger[e]
  BY OldKept DEF Entries
<1> QED
  BY <1>1, <1>2 DEF SameEntries

(* A sale of which nothing is entered stays entered as it was.             *)
LEMMA OthersEntered ==
  ASSUME NEW old, NEW new, LedgersContinue(old, new), NEW t, new[t] = old[t],
         old[t].items \in Seq(SaleLine),
         \A p \in Product : \A e \in NewEntries(old, new, p) : new[p].ledger[e].sale # t,
         SaleEntered(old, t)
  PROVE  SaleEntered(new, t)
<1> DEFINE items == new[t].items
<1>1. ASSUME NEW i \in DOMAIN items
      PROVE  LET ledger == new[items[i].product].ledger
             IN  /\ Cardinality(Entries(ledger, "SALE", t, i)) = 1
                 /\ \A e \in Entries(ledger, "SALE", t, i) :
                      /\ ledger[e].quantityChange = -items[i].quantity
                      /\ ledger[e].unit = items[i].unit
                 /\ Entries(ledger, "RETURN", t, i) # {} <=> new[t].status = "VOIDED"
  <2> DEFINE p == items[i].product
  <2>1. p \in Product
    <3>1. i \in 1 .. Len(items)
      OBVIOUS
    <3> QED
      BY <3>1, LineType
  <2>2. /\ Entries(new[p].ledger, "SALE", t, i) = Entries(old[p].ledger, "SALE", t, i)
        /\ Entries(new[p].ledger, "RETURN", t, i) = Entries(old[p].ledger, "RETURN", t, i)
        /\ \A e \in Entries(old[p].ledger, "SALE", t, i) : new[p].ledger[e] = old[p].ledger[e]
    <3> HIDE DEF p
    <3>1. /\ SameEntries(old, new, p, "SALE", t, i)
          /\ SameEntries(old, new, p, "RETURN", t, i)
      BY <2>1, EntriesKept
    <3> QED
      BY <3>1 DEF SameEntries
  <2>3. LET ledger == old[p].ledger
        IN  /\ Cardinality(Entries(ledger, "SALE", t, i)) = 1
            /\ \A e \in Entries(ledger, "SALE", t, i) :
                 /\ ledger[e].quantityChange = -items[i].quantity
                 /\ ledger[e].unit = items[i].unit
            /\ Entries(ledger, "RETURN", t, i) # {} <=> new[t].status = "VOIDED"
    BY ZenonT(30) DEF SaleEntered
  <2> HIDE DEF items
  <2> QED
    BY <2>2, <2>3
<1>2. ASSUME NEW p \in Product, NEW e \in DOMAIN new[p].ledger, new[p].ledger[e].sale = t
      PROVE  new[p].ledger[e].item \in DOMAIN items /\ items[new[p].ledger[e].item].product = p
  <2>1. e \in DOMAIN old[p].ledger /\ new[p].ledger[e] = old[p].ledger[e]
    BY <1>2, OldOrNew
  <2> QED
    BY <1>2, <2>1 DEF SaleEntered
<1> QED
  BY <1>1, <1>2 DEF SaleEntered

(* The line a new entry enters, spelled out.                               *)
LEMMA NewFields ==
  ASSUME NEW old, NEW new, NEW held, NEW type, NEW s, NEW lines, NEW loc,
         Publishes(old, new, held, type, s, lines, loc),
         NEW p \in Product, NEW e \in NewEntries(old, new, p)
  PROVE  LET m == new[p].ledger[e]
         IN  /\ m.item \in 1 .. Len(lines) /\ lines[m.item].product = p
             /\ m.type = type /\ m.sale = s /\ m.loc = loc[m.item]
             /\ m.unit = lines[m.item].unit
             /\ m.quantityChange = IF type = "SALE" THEN -lines[m.item].quantity
                                                    ELSE lines[m.item].quantity
BY NewFits DEF FitsLine, EntersLine

(* Every line has its entry.                                               *)
HasEntry(old, new, p, k) ==
  p \in Product /\ \E e \in NewEntries(old, new, p) : new[p].ledger[e].item = k

LEMMA LineEntered ==
  ASSUME NEW old, NEW new, NEW held, NEW type, NEW s, NEW lines, NEW loc,
         Publishes(old, new, held, type, s, lines, loc), NEW k \in 1 .. Len(lines)
  PROVE  HasEntry(old, new, lines[k].product, k)
BY DEF HasEntry, Publishes, EnteredUpTo

(* A checkout commits: its sale has one entry for each of its lines.       *)
LEMMA CheckoutEntered ==
  ASSUME NEW old, NEW new, NEW held, NEW s, NEW lines, NEW loc,
         Publishes(old, new, held, "SALE", s, lines, loc),
         SaleEntered(old, s), old[s].items = <<>>,
         new[s] = [status |-> "COMPLETED", items |-> lines]
  PROVE  SaleEntered(new, s)
<1>1. new[s].items = lines /\ new[s].status = "COMPLETED" /\ lines \in Seq(SaleLine)
      /\ LedgersContinue(old, new) /\ DOMAIN lines = 1 .. Len(lines)
  BY DEF Publishes
<1>2. ASSUME NEW p \in Product, NEW e \in DOMAIN new[p].ledger, new[p].ledger[e].sale = s
      PROVE  e \in NewEntries(old, new, p)
  <2>1. CASE e \in DOMAIN old[p].ledger /\ new[p].ledger[e] = old[p].ledger[e]
    BY <1>2, <2>1 DEF SaleEntered
  <2> QED
    BY <1>1, <2>1, OldOrNew
<1>3. ASSUME NEW i \in DOMAIN lines
      PROVE  LET ledger == new[lines[i].product].ledger
             IN  /\ Cardinality(Entries(ledger, "SALE", s, i)) = 1
                 /\ \A e \in Entries(ledger, "SALE", s, i) :
                      /\ ledger[e].quantityChange = -lines[i].quantity
                      /\ ledger[e].unit = lines[i].unit
                 /\ Entries(ledger, "RETURN", s, i) # {} <=> new[s].status = "VOIDED"
  <2> DEFINE p == lines[i].product
             ledger == new[p].ledger
             entries == Entries(ledger, "SALE", s, i)
  <2>0. i \in 1 .. Len(lines)
    BY <1>1
  <2>1. p \in Product /\ \E e \in NewEntries(old, new, p) : ledger[e].item = i
    <3>1. HasEntry(old, new, p, i)
      BY <2>0, LineEntered
    <3> QED
      BY <3>1 DEF HasEntry
  <2>2. PICK e \in NewEntries(old, new, p) : ledger[e].item = i
    BY <2>1
  <2>3. e \in DOMAIN ledger /\ ledger \in Seq(StockMovement)
    BY <1>1, <2>1, OldKept DEF LedgersContinue
  <2> HIDE DEF p
  <2>4. /\ ledger[e].type = "SALE" /\ ledger[e].sale = s
        /\ ledger[e].unit = lines[i].unit /\ ledger[e].quantityChange = -lines[i].quantity
    BY <2>1, <2>2, NewFields
  <2>5. ASSUME NEW f \in DOMAIN ledger, ledger[f].sale = s
        PROVE  ledger[f].type = "SALE" /\ (ledger[f].item = i => f = e)
    <3>1. f \in NewEntries(old, new, p)
      BY <1>2, <2>1, <2>5
    <3>2. ledger[f].type = "SALE"
      BY <2>1, <3>1, NewFields
    <3> QED
      BY <2>1, <2>2, <3>1, <3>2, NewFits
  <2>6. entries = {e} /\ Entries(ledger, "RETURN", s, i) = {}
    BY <2>2, <2>3, <2>4, <2>5 DEF Entries
  <2>7. Cardinality(entries) = 1
    BY <2>6, FS_Singleton
  <2> HIDE DEF entries
  <2>8. ledger[e].unit = lines[i].unit /\ ledger[e].quantityChange = -lines[i].quantity
    BY <2>4
  <2> HIDE DEF ledger
  <2>9. /\ Cardinality(entries) = 1
        /\ \A f \in entries : /\ ledger[f].quantityChange = -lines[i].quantity
                              /\ ledger[f].unit = lines[i].unit
        /\ Entries(ledger, "RETURN", s, i) # {} <=> new[s].status = "VOIDED"
    BY <1>1, <2>6, <2>7, <2>8
  <2> QED
    BY <2>9 DEF p, ledger, entries
<1>4. ASSUME NEW p \in Product, NEW e \in DOMAIN new[p].ledger, new[p].ledger[e].sale = s
      PROVE  new[p].ledger[e].item \in DOMAIN lines /\ lines[new[p].ledger[e].item].product = p
  BY <1>1, <1>2, <1>4, NewFields, SMTT(20)
<1> QED
  BY <1>1, <1>3, <1>4 DEF SaleEntered

(* A void commits: the returns are entered and the sales still are.        *)
LEMMA VoidEntered ==
  ASSUME NEW old, NEW new, NEW held, NEW s, NEW lines, NEW loc,
         Publishes(old, new, held, "RETURN", s, lines, loc),
         SaleEntered(old, s), old[s].items = lines,
         new[s] = [status |-> "VOIDED", items |-> lines]
  PROVE  SaleEntered(new, s)
<1>1. new[s].items = lines /\ new[s].status = "VOIDED" /\ lines \in Seq(SaleLine)
      /\ LedgersContinue(old, new) /\ DOMAIN lines = 1 .. Len(lines)
  BY DEF Publishes
<1>2. ASSUME NEW i \in DOMAIN lines
      PROVE  LET ledger == new[lines[i].product].ledger
             IN  /\ Cardinality(Entries(ledger, "SALE", s, i)) = 1
                 /\ \A e \in Entries(ledger, "SALE", s, i) :
                      /\ ledger[e].quantityChange = -lines[i].quantity
                      /\ ledger[e].unit = lines[i].unit
                 /\ Entries(ledger, "RETURN", s, i) # {} <=> new[s].status = "VOIDED"
  <2> DEFINE p == lines[i].product
  <2>0. i \in 1 .. Len(lines)
    BY <1>1
  <2>1. p \in Product /\ \E e \in NewEntries(old, new, p) : new[p].ledger[e].item = i
    <3>1. HasEntry(old, new, p, i)
      BY <2>0, LineEntered
    <3> QED
      BY <3>1 DEF HasEntry
  <2>2. /\ Cardinality(Entries(old[p].ledger, "SALE", s, i)) = 1
        /\ \A e \in Entries(old[p].ledger, "SALE", s, i) :
             /\ old[p].ledger[e].quantityChange = -lines[i].quantity
             /\ old[p].ledger[e].unit = lines[i].unit
    BY DEF SaleEntered
  <2> HIDE DEF p
  <2>3. \A e \in NewEntries(old, new, p) : new[p].ledger[e].type # "SALE"
    BY <2>1, NewFields
  <2>4. SameEntries(old, new, p, "SALE", s, i)
    BY <1>1, <2>1, <2>3, EntriesKept
  <2>5. Entries(new[p].ledger, "RETURN", s, i) # {}
    <3>1. PICK e \in NewEntries(old, new, p) : new[p].ledger[e].item = i
      BY <2>1
    <3>2. new[p].ledger[e].type = "RETURN" /\ new[p].ledger[e].sale = s
      BY <2>1, NewFields
    <3>3. e \in DOMAIN new[p].ledger
      BY <1>1, <2>1, OldKept
    <3> QED
      BY <3>1, <3>2, <3>3 DEF Entries
  <2>6. /\ Cardinality(Entries(new[p].ledger, "SALE", s, i)) = 1
        /\ \A e \in Entries(new[p].ledger, "SALE", s, i) :
             /\ new[p].ledger[e].quantityChange = -lines[i].quantity
             /\ new[p].ledger[e].unit = lines[i].unit
    <3> DEFINE was == old[p].ledger
               is == new[p].ledger
               entries == Entries(is, "SALE", s, i)
    <3>1. entries = Entries(was, "SALE", s, i) /\ \A e \in entries : is[e] = was[e]
      BY <2>4 DEF SameEntries
    <3>2. /\ Cardinality(entries) = 1
          /\ \A e \in entries : /\ was[e].quantityChange = -lines[i].quantity
                                /\ was[e].unit = lines[i].unit
      BY <2>2, <3>1
    <3> HIDE DEF was, is, entries
    <3>3. \A e \in entries : /\ is[e].quantityChange = -lines[i].quantity
                            /\ is[e].unit = lines[i].unit
      BY <3>1, <3>2
    <3> QED
      BY <3>2, <3>3 DEF is, entries
  <2> QED
    BY <1>1, <2>5, <2>6 DEF p
<1>3. ASSUME NEW p \in Product, NEW e \in DOMAIN new[p].ledger, new[p].ledger[e].sale = s
      PROVE  new[p].ledger[e].item \in DOMAIN lines /\ lines[new[p].ledger[e].item].product = p
  <2>1. CASE e \in DOMAIN old[p].ledger /\ new[p].ledger[e] = old[p].ledger[e]
    BY <1>3, <2>1 DEF SaleEntered
  <2>2. CASE e \in NewEntries(old, new, p)
    BY <1>1, <2>2, NewFields
  <2> QED
    BY <1>1, <2>1, <2>2, OldOrNew
<1> QED
  BY <1>1, <1>2, <1>3 DEF SaleEntered

(* Returns stay where the sales were: nothing of a sale is entered, ...    *)
LEMMA AsideReturns ==
  ASSUME NEW old, NEW new, LedgersContinue(old, new), NEW p \in Product,
         \A e \in NewEntries(old, new, p) : new[p].ledger[e].sale = NoSale,
         ReturnsWhereSold(old[p].ledger)
  PROVE  ReturnsWhereSold(new[p].ledger)
<1> SUFFICES ASSUME NEW i \in DOMAIN new[p].ledger, NEW j \in DOMAIN new[p].ledger,
                    new[p].ledger[i].type = "SALE", new[p].ledger[j].type = "RETURN",
                    new[p].ledger[i].sale # NoSale,
                    new[p].ledger[i].sale = new[p].ledger[j].sale,
                    new[p].ledger[i].item = new[p].ledger[j].item,
                    new[p].ledger[i].loc # NoLocation
             PROVE  new[p].ledger[j].loc = new[p].ledger[i].loc
  BY DEF ReturnsWhereSold
<1>1. i \in DOMAIN old[p].ledger /\ new[p].ledger[i] = old[p].ledger[i]
  BY OldOrNew
<1>2. j \in DOMAIN old[p].ledger /\ new[p].ledger[j] = old[p].ledger[j]
  BY OldOrNew
<1> QED
  BY <1>1, <1>2 DEF ReturnsWhereSold

(* ... or a sale that had no entry, ...                                    *)
LEMMA CheckoutReturns ==
  ASSUME NEW old, NEW new, NEW held, NEW s, NEW lines, NEW loc,
         Publishes(old, new, held, "SALE", s, lines, loc),
         SaleEntered(old, s), old[s].items = <<>>, NEW p \in Product,
         ReturnsWhereSold(old[p].ledger)
  PROVE  ReturnsWhereSold(new[p].ledger)
<1>1. LedgersContinue(old, new)
  BY DEF Publishes
<1> SUFFICES ASSUME NEW i \in DOMAIN new[p].ledger, NEW j \in DOMAIN new[p].ledger,
                    new[p].ledger[i].type = "SALE", new[p].ledger[j].type = "RETURN",
                    new[p].ledger[i].sale # NoSale,
                    new[p].ledger[i].sale = new[p].ledger[j].sale,
                    new[p].ledger[i].item = new[p].ledger[j].item,
                    new[p].ledger[i].loc # NoLocation
             PROVE  new[p].ledger[j].loc = new[p].ledger[i].loc
  BY DEF ReturnsWhereSold
<1>2. j \in DOMAIN old[p].ledger /\ new[p].ledger[j] = old[p].ledger[j]
  <2>1. j \notin NewEntries(old, new, p)
    BY NewFields
  <2> QED
    BY <1>1, <2>1, OldOrNew
<1>3. i \in DOMAIN old[p].ledger /\ new[p].ledger[i] = old[p].ledger[i]
  <2>1. CASE i \in NewEntries(old, new, p)
    <3>1. new[p].ledger[i].sale = s
      BY <2>1, NewFields, SMTT(20)
    <3>2. old[p].ledger[j].sale # s
      BY <1>2 DEF SaleEntered
    <3> QED
      BY <1>2, <3>1, <3>2
  <2> QED
    BY <1>1, <2>1, OldOrNew
<1> QED
  BY <1>2, <1>3 DEF ReturnsWhereSold

(* ... or the returns of a sale whose entries say where they are to go.    *)
LEMMA VoidReturns ==
  ASSUME NEW old, NEW new, NEW held, NEW s, NEW lines, NEW loc,
         Publishes(old, new, held, "RETURN", s, lines, loc),
         WillGoBack(old, s, lines, loc), NEW p \in Product,
         ReturnsWhereSold(old[p].ledger)
  PROVE  ReturnsWhereSold(new[p].ledger)
<1>1. LedgersContinue(old, new)
  BY DEF Publishes
<1> SUFFICES ASSUME NEW i \in DOMAIN new[p].ledger, NEW j \in DOMAIN new[p].ledger,
                    new[p].ledger[i].type = "SALE", new[p].ledger[j].type = "RETURN",
                    new[p].ledger[i].sale # NoSale,
                    new[p].ledger[i].sale = new[p].ledger[j].sale,
                    new[p].ledger[i].item = new[p].ledger[j].item,
                    new[p].ledger[i].loc # NoLocation
             PROVE  new[p].ledger[j].loc = new[p].ledger[i].loc
  BY DEF ReturnsWhereSold
<1>2. i \in DOMAIN old[p].ledger /\ new[p].ledger[i] = old[p].ledger[i]
  <2>1. i \notin NewEntries(old, new, p)
    BY NewFields, SMTT(20)
  <2> QED
    BY <1>1, <2>1, OldOrNew
<1>3. CASE j \in DOMAIN old[p].ledger /\ new[p].ledger[j] = old[p].ledger[j]
  BY <1>2, <1>3 DEF ReturnsWhereSold
<1>4. CASE j \in NewEntries(old, new, p)
  <2> DEFINE k == new[p].ledger[j].item
  <2>1. /\ k \in 1 .. Len(lines) /\ lines[k].product = p
        /\ new[p].ledger[j].sale = s /\ new[p].ledger[j].loc = loc[k]
    BY <1>4, NewFields, SMTT(20)
  <2>2. i \in Entries(old[p].ledger, "SALE", s, k)
    BY <1>2, <2>1 DEF Entries
  <2> HIDE DEF k
  <2>3. old[p].ledger[i].loc \in {NoLocation, loc[k]}
    BY <2>1, <2>2 DEF WillGoBack
  <2> QED
    BY <1>2, <2>1, <2>3
<1> QED
  BY <1>1, <1>3, <1>4, OldOrNew

-----------------------------------------------------------------------------
(* What a commit of the point of sale does to the tables.                  *)
LEMMA CommitPublishes ==
  ASSUME DbInv, NEW r \in Req, Commit(r), NEW type, NEW s, NEW lines \in Seq(SaleLine), NEW loc,
         EnteredUpTo(committed, pending, Held(r), type, s, lines, loc, Len(lines)),
         \A t \in Sale : holder[t] = r => t = s
  PROVE  /\ Publishes(committed, committed', Held(r), type, s, lines, loc)
         /\ HoldsNothing(r)'
         /\ \A x \in Row : holder[x] = r => committed'[x] = pending[x]
<1>1. \A x \in Row : /\ holder[x] = r => committed'[x] = pending[x]
                     /\ holder[x] # r => committed'[x] = committed[x]
  BY DEF Commit
<1>2. LedgersContinue(committed, committed')
  <2>1. DbStep
    BY Committed
  <2>2. \A p \in Product : committed'[p].ledger \in Seq(StockMovement)
    BY <1>1, LedgersTyped DEF Row
  <2> QED
    BY <2>1, <2>2, LedgersTyped DEF DbStep, LedgersGrow, LedgersContinue
<1>3. /\ Held(r) \subseteq Product
      /\ \A p \in Held(r) : committed'[p] = pending[p]
      /\ \A p \in Product \ Held(r) : committed'[p] = committed[p]
  BY <1>1 DEF Held, Row
<1>4. EnteredUpTo(committed, committed', Held(r), type, s, lines, loc, Len(lines))
  BY <1>3, EnteredStays
<1>5. \A t \in Sale \ {s} : committed'[t] = committed[t]
  BY <1>1 DEF Row
<1>6. HoldsNothing(r)'
  BY RowAssumption DEF Commit, Released, HoldsNothing, Row
<1> QED
  BY <1>1, <1>2, <1>3, <1>4, <1>5, <1>6 DEF Publishes

(* A commit keeps everything said of the others.                           *)
LEMMA PublishedKeeps ==
  ASSUME DbInv, PosInv, SalesInv, NEW r \in PosReq, Commit(r),
         \A q \in Checkouts \ {r} : checkout'[q] = checkout[q],
         \A q \in Voids \ {r} : void'[q] = void[q],
         r \in Checkouts => CheckoutConsistent(r)',
         r \in Voids => VoidConsistent(r)',
         NEW type, NEW s \in Sale, NEW lines, NEW loc,
         Publishes(committed, committed', Held(r), type, s, lines, loc),
         \A q \in Checkouts \ {r} :
            checkout[q].pc \in {"idle", "prepare", "sell"} => SaleOf[q] # s,
         \A q \in Voids \ {r} : void[q].pc \in {"restore", "commit"} /\ VoidTarget[q] = s =>
            /\ type # "SALE"
            /\ committed'[s].items = committed[s].items
            /\ committed'[s].status \in {"COMPLETED", "VOIDED"},
         SaleEntered(committed', s),
         \A p \in Product : ReturnsWhereSold(committed'[p].ledger)
  PROVE  SalesInv'
<1>1. \A q \in PosReq \ {r} : SameFor(q)
  BY OthersSeeNothing, SalesKeptAside DEF SalesInv
<1>2. LedgersContinue(committed, committed') /\ \A t \in Sale \ {s} : committed'[t] = committed[t]
  BY DEF Publishes
<1>3. ASSUME NEW q \in Checkouts
      PROVE  CheckoutConsistent(q)'
  <2>1. CheckoutConsistent(q)
    BY DEF SalesInv, SalesConsistent
  <2>2. SaleOf[q] \in Sale
    BY CheckoutFields
  <2> QED
    BY <1>1, <1>2, <2>1, <2>2, CheckoutStays DEF PosReq
<1>4. ASSUME NEW q \in Voids
      PROVE  VoidConsistent(q)'
  <2>1. VoidConsistent(q)
    BY DEF SalesInv, SalesConsistent
  <2>2. CASE q # r
    <3>1. CASE void[q].pc \in {"restore", "commit"}
      <4> DEFINE t == VoidTarget[q]
                 v == void[q]
      <4>1. t \in Sale /\ v.lines \in Seq(SaleLine)
        BY VoidFields
      <4>2. /\ committed[t].status \in {"COMPLETED", "VOIDED"} /\ committed[t].items = v.lines
            /\ WillGoBack(committed, t, v.lines, v.loc)
        BY <2>1, <3>1 DEF VoidConsistent
      <4>3. /\ committed'[t].items = committed[t].items
            /\ committed'[t].status \in {"COMPLETED", "VOIDED"}
        BY <1>2, <2>2, <3>1, <4>1, <4>2
      <4>4. t # s \/ type # "SALE"
        BY <2>2, <3>1
      <4> HIDE DEF t, v
      <4>5. WillGoBack(committed', t, v.lines, v.loc)
        <5> SUFFICES ASSUME NEW k \in 1 .. Len(v.lines)
                     PROVE  LET ledger == committed'[v.lines[k].product].ledger
                            IN  \A e \in Entries(ledger, "SALE", t, k) :
                                   ledger[e].loc \in {NoLocation, v.loc[k]}
          BY DEF WillGoBack
        <5> DEFINE p == v.lines[k].product
                   was == committed[p].ledger
                   is == committed'[p].ledger
        <5>1. p \in Product
          BY <4>1, LineType
        <5> HIDE DEF p
        <5>2. \A e \in NewEntries(committed, committed', p) :
                committed'[p].ledger[e].type # "SALE" \/ committed'[p].ledger[e].sale # t
          BY <4>4, <5>1, NewFields
        <5>3. SameEntries(committed, committed', p, "SALE", t, k)
          BY <1>2, <5>1, <5>2, EntriesKept
        <5>4. /\ Entries(is, "SALE", t, k) = Entries(was, "SALE", t, k)
              /\ \A e \in Entries(was, "SALE", t, k) : is[e] = was[e]
          BY <5>3 DEF SameEntries
        <5>5. \A e \in Entries(was, "SALE", t, k) : was[e].loc \in {NoLocation, v.loc[k]}
          BY <4>2 DEF WillGoBack, p
        <5> HIDE DEF was, is
        <5>6. \A e \in Entries(is, "SALE", t, k) : is[e].loc \in {NoLocation, v.loc[k]}
          BY <5>4, <5>5
        <5> QED
          BY <5>6 DEF is, p
      <4> QED
        BY <1>1, <2>1, <2>2, <4>3, <4>5, VoidStays DEF PosReq, t, v
    <3>2. CASE void[q].pc \notin {"restore", "commit"}
      BY <1>1, <2>1, <2>2, <3>2, VoidStays DEF PosReq
    <3> QED
      BY <3>1, <3>2
  <2> QED
    BY <2>2
<1>5. \A x \in Row : /\ holder'[x] # NoReq => holder'[x] = holder[x] /\ holder[x] # r
                     /\ holder[x] = r => committed'[x] = pending[x] /\ holder'[x] = NoReq
                     /\ holder[x] # r => committed'[x] = committed[x] /\ holder'[x] = holder[x]
                     /\ pending'[x] = pending[x]
  BY DEF Commit, Released
<1>6. ASSUME NEW t \in Sale, holder'[t] # NoReq
      PROVE  \/ holder'[t] \in Checkouts /\ t = SaleOf[holder'[t]]
             \/ holder'[t] \in Voids /\ t = VoidTarget[holder'[t]] /\ void'[holder'[t]].pc = "commit"
  <2>1. holder'[t] = holder[t] /\ holder[t] # r /\ holder[t] # NoReq
    BY <1>5, <1>6 DEF Row
  <2>2. \/ holder[t] \in Checkouts /\ t = SaleOf[holder[t]]
        \/ holder[t] \in Voids /\ t = VoidTarget[holder[t]] /\ void[holder[t]].pc = "commit"
    BY <2>1 DEF SalesInv, SalesConsistent
  <2> QED
    BY <2>1, <2>2
<1>7. ASSUME NEW p \in Product, holder'[p] \notin Checkouts \cup Voids
      PROVE  ContinuesAside(committed'[p].ledger, pending'[p].ledger)
  <2>1. p \in Row /\ Len(pending[p].ledger) \in Nat
    BY LedgersTyped DEF Row
  <2>2. CASE holder[p] = r
    BY <1>5, <2>1, <2>2, AsideReflexive
  <2>3. CASE holder[p] # r
    <3>1. ContinuesAside(committed[p].ledger, pending[p].ledger)
      BY <1>5, <1>7, <2>1, <2>3 DEF SalesInv, SalesConsistent
    <3> QED
      BY <1>5, <2>1, <2>3, <3>1
  <2> QED
    BY <2>2, <2>3
<1>8. SalesConsistent'
  BY <1>3, <1>4, <1>6, <1>7 DEF SalesConsistent
<1>9. ASSUME NEW t \in Sale
      PROVE  SaleEntered(committed', t)
  <2>1. CASE t # s
    <3>1. committed'[t] = committed[t] /\ SaleEntered(committed, t)
      BY <1>2, <2>1 DEF SalesInv, SaleBooked
    <3>2. committed[t].items \in Seq(SaleLine)
      BY DEF DbInv, TypeOKDb, DbTypeOK, SaleRow
    <3>3. \A p \in Product : \A e \in NewEntries(committed, committed', p) :
            committed'[p].ledger[e].sale # t
      BY <2>1, NewFields
    <3> QED
      BY <1>2, <3>1, <3>2, <3>3, OthersEntered
  <2> QED
    BY <2>1
<1>10. SaleBooked' /\ ReturnedWhereSold'
  BY <1>9 DEF SaleBooked, ReturnedWhereSold
<1> QED
  BY <1>8, <1>10 DEF SalesInv

LEMMA CommitCheckoutSales ==
  ASSUME DbInv, PosInv, SalesInv, NEW r \in Checkouts, CommitCheckout(r)
  PROVE  SalesInv'
<1> DEFINE c == checkout[r]
           s == SaleOf[r]
           lines == c.lines
           loc == c.loc
<1>1. /\ c.pc = "sell" /\ c.next > Len(lines) /\ Len(lines) \in Nat /\ c.next \in Nat
      /\ lines \in Seq(SaleLine) /\ s \in Sale /\ r \in Req
      /\ Commit(r) /\ EndCheckout(r, "ok") /\ UNCHANGED void
  BY CheckoutFields DEF CommitCheckout
<1>2. /\ committed[s] = [status |-> "NONE", items |-> <<>>]
      /\ holder[s] = r /\ pending[s] = [status |-> "COMPLETED", items |-> lines]
      /\ EnteredUpTo(committed, pending, Held(r), "SALE", s, lines, loc, c.next - 1)
  BY <1>1 DEF SalesInv, SalesConsistent, CheckoutConsistent
<1>3. EnteredUpTo(committed, pending, Held(r), "SALE", s, lines, loc, Len(lines))
  <2>1. c.next - 1 <= Len(lines)
    BY <1>2 DEF EnteredUpTo
  <2>2. c.next - 1 = Len(lines)
    BY <1>1, <2>1
  <2> QED
    BY <1>2, <2>2
<1>4. r \in PosReq /\ r \notin Voids /\ r # NoReq
  BY PosAssumption, RowAssumption DEF PosReq
<1>5. \A t \in Sale : holder[t] = r => t = s
  BY <1>4 DEF SalesInv, SalesConsistent
<1>6. checkout'[r].pc = "ok" /\ \A q \in Checkouts \ {r} : checkout'[q] = checkout[q]
  BY <1>1 DEF EndCheckout, IdleCheckout, PosInv, TypeOKPos
<1> HIDE DEF lines, loc
<1>7. /\ Publishes(committed, committed', Held(r), "SALE", s, lines, loc)
      /\ HoldsNothing(r)' /\ committed'[s] = pending[s]
  <2>1. s \in Row
    BY <1>1 DEF Row
  <2> HIDE DEF s
  <2> QED
    BY <1>1, <1>2, <1>3, <1>5, <2>1, CommitPublishes
<1>8. CheckoutConsistent(r)'
  BY <1>6, <1>7 DEF CheckoutConsistent
<1>9. SaleEntered(committed, s) /\ committed[s].items = <<>> /\ committed[s].status = "NONE"
  BY <1>1, <1>2 DEF SalesInv, SaleBooked
<1>10. SaleEntered(committed', s)
  BY <1>2, <1>7, <1>9, CheckoutEntered
<1>11. \A p \in Product : ReturnsWhereSold(committed'[p].ledger)
  BY <1>7, <1>9, CheckoutReturns DEF SalesInv, ReturnedWhereSold
<1>12. \A q \in Checkouts \ {r} : SaleOf[q] # s
  BY PosAssumption
<1>13. \A q \in Voids : void[q].pc \in {"restore", "commit"} => VoidTarget[q] # s
  BY <1>9 DEF SalesInv, SalesConsistent, VoidConsistent
<1> HIDE DEF s
<1> QED
  BY <1>1, <1>4, <1>6, <1>7, <1>8, <1>10, <1>11, <1>12, <1>13, PublishedKeeps

LEMMA CommitVoidSales ==
  ASSUME DbInv, PosInv, SalesInv, NEW r \in Voids, CommitVoid(r)
  PROVE  SalesInv'
<1> DEFINE v == void[r]
           s == VoidTarget[r]
           lines == v.lines
           loc == v.loc
<1>1. /\ v.pc = "commit" /\ Len(lines) \in Nat /\ v.next \in Nat
      /\ lines \in Seq(SaleLine) /\ s \in Sale /\ r \in Req
      /\ Commit(r) /\ EndVoid(r, "ok") /\ UNCHANGED checkout
  BY VoidFields DEF CommitVoid
<1>2. /\ committed[s].status \in {"COMPLETED", "VOIDED"} /\ committed[s].items = lines
      /\ EnteredUpTo(committed, pending, Held(r), "RETURN", s, lines, loc, v.next - 1)
      /\ WillGoBack(committed, s, lines, loc) /\ v.next > Len(lines)
      /\ holder[s] = r /\ pending[s] = [status |-> "VOIDED", items |-> lines]
  BY <1>1 DEF SalesInv, SalesConsistent, VoidConsistent
<1>3. EnteredUpTo(committed, pending, Held(r), "RETURN", s, lines, loc, Len(lines))
  <2>1. v.next - 1 <= Len(lines)
    BY <1>2 DEF EnteredUpTo
  <2>2. v.next - 1 = Len(lines)
    BY <1>1, <1>2, <2>1
  <2> QED
    BY <1>2, <2>2
<1>4. r \in PosReq /\ r \notin Checkouts /\ r # NoReq
  BY PosAssumption, RowAssumption DEF PosReq
<1>5. \A t \in Sale : holder[t] = r => t = s
  BY <1>4 DEF SalesInv, SalesConsistent
<1>6. void'[r].pc = "ok" /\ \A q \in Voids \ {r} : void'[q] = void[q]
  BY <1>1 DEF EndVoid, IdleVoid, PosInv, TypeOKPos
<1> HIDE DEF lines, loc
<1>7. /\ Publishes(committed, committed', Held(r), "RETURN", s, lines, loc)
      /\ HoldsNothing(r)' /\ committed'[s] = pending[s]
  <2>1. s \in Row
    BY <1>1 DEF Row
  <2> HIDE DEF s
  <2> QED
    BY <1>1, <1>2, <1>3, <1>5, <2>1, CommitPublishes, ZenonT(30)
<1>8. VoidConsistent(r)'
  BY <1>6, <1>7 DEF VoidConsistent
<1>9. SaleEntered(committed, s)
  BY <1>1 DEF SalesInv, SaleBooked
<1>10. SaleEntered(committed', s)
  BY <1>2, <1>7, <1>9, VoidEntered
<1>11. \A p \in Product : ReturnsWhereSold(committed'[p].ledger)
  BY <1>2, <1>7, VoidReturns DEF SalesInv, ReturnedWhereSold
<1>12. ASSUME NEW q \in Checkouts, checkout[q].pc \in {"idle", "prepare", "sell"}
       PROVE  SaleOf[q] # s
  <2>1. CheckoutConsistent(q)
    BY DEF SalesInv, SalesConsistent
  <2>2. committed[SaleOf[q]].status = "NONE"
    BY <1>12, <2>1 DEF CheckoutConsistent
  <2> QED
    BY <1>2, <2>2
<1>13. committed'[s].items = committed[s].items /\ committed'[s].status \in {"COMPLETED", "VOIDED"}
  BY <1>2, <1>7
<1> HIDE DEF s
<1> QED
  BY <1>1, <1>4, <1>6, <1>7, <1>8, <1>10, <1>11, <1>12, <1>13, PublishedKeeps

-----------------------------------------------------------------------------
(* Every step of the point of sale keeps what the movements say of sales.  *)
LEMMA PosNextSales ==
  ASSUME DbInv, PosInv, SalesInv, PosNext
  PROVE  SalesInv'
<1>1. ASSUME NEW r \in Checkouts, BeginCheckout(r) \/ CheckoutStep(r) \/ AbortCheckout(r)
      PROVE  SalesInv'
  BY <1>1, BeginCheckoutSales, PrepareSaleLineSales, CreateSaleSales, SellLineSales,
     CommitCheckoutSales, AbortCheckoutSales DEF CheckoutStep
<1>2. ASSUME NEW r \in Voids, ReadSale(r) \/ VoidStep(r) \/ AbortVoid(r)
      PROVE  SalesInv'
  BY <1>2, ReadSaleSales, RestoreLineSales, MarkVoidedSales, CommitVoidSales,
     AbortVoidSales DEF VoidStep
<1> QED
  BY <1>1, <1>2 DEF PosNext

(* Another handler's step enters no movement of a sale.                    *)
LEMMA ElsewhereEntries ==
  ASSUME DbInv, DbInv', LedgersGrow, Elsewhere(PosReq)
  PROVE  /\ LedgersContinue(committed, committed')
         /\ \A p \in Product : \A e \in NewEntries(committed, committed', p) :
               committed'[p].ledger[e].sale = NoSale
<1>1. LedgersContinue(committed, committed')
  <2>1. \A p \in Product : committed'[p].ledger \in Seq(StockMovement)
    BY LedgerType DEF DbInv, TypeOKDb, DbTypeOK
  <2> QED
    BY <2>1, LedgersTyped DEF LedgersGrow, LedgersContinue
<1>2. ASSUME NEW p \in Product, NEW e \in NewEntries(committed, committed', p)
      PROVE  committed'[p].ledger[e].sale = NoSale
  <2>1. CASE holder'[p] \in PosReq
    <3>1. committed'[p] = committed[p]
      BY <2>1 DEF Elsewhere, SameFor
    <3> QED
      BY <3>1, LedgersTyped DEF NewEntries
  <2>2. CASE holder'[p] \notin PosReq
    BY <2>2 DEF Elsewhere, ContinuesAside, NewEntries
  <2> QED
    BY <2>1, <2>2
<1> QED
  BY <1>1, <1>2

(* So it keeps what the movements say of sales, too.                       *)
LEMMA ElsewhereSales ==
  ASSUME DbInv, DbInv', LedgersGrow, PosInv, SalesInv, Elsewhere(PosReq), UNCHANGED posLocals
  PROVE  SalesInv'
<1>1. /\ \A q \in PosReq : SameFor(q)
      /\ \A s \in Sale : committed'[s] = committed[s] /\ holder'[s] = holder[s]
      /\ \A p \in Product : holder'[p] \notin PosReq =>
           /\ ContinuesAside(committed[p].ledger, committed'[p].ledger)
           /\ ContinuesAside(committed'[p].ledger, pending'[p].ledger)
      /\ UNCHANGED checkout /\ UNCHANGED void
  BY DEF Elsewhere, posLocals
<1>2. LedgersContinue(committed, committed')
  BY ElsewhereEntries
<1>3. ASSUME NEW p \in Product, NEW e \in NewEntries(committed, committed', p)
      PROVE  committed'[p].ledger[e].sale = NoSale
  BY ElsewhereEntries
<1>4. \A t \in Sale : \A p \in Product : \A e \in NewEntries(committed, committed', p) :
         committed'[p].ledger[e].sale # t
  BY <1>3, RowAssumption
<1>5. \A q \in Checkouts : CheckoutConsistent(q)'
  <2> TAKE q \in Checkouts
  <2>1. CheckoutConsistent(q) /\ SaleOf[q] \in Sale
    BY CheckoutFields DEF SalesInv, SalesConsistent
  <2> QED
    BY <1>1, <2>1, CheckoutStays DEF PosReq
<1>6. ASSUME NEW q \in Voids
      PROVE  VoidConsistent(q)'
  <2> DEFINE t == VoidTarget[q]
             v == void[q]
  <2>1. VoidConsistent(q) /\ t \in Sale /\ v.lines \in Seq(SaleLine)
    BY VoidFields DEF SalesInv, SalesConsistent
  <2>2. CASE v.pc \notin {"restore", "commit"}
    BY <1>1, <2>1, <2>2, VoidStays DEF PosReq
  <2>3. CASE v.pc \in {"restore", "commit"}
    <3>1. committed[t].status \in {"COMPLETED", "VOIDED"} /\ committed'[t] = committed[t]
          /\ WillGoBack(committed, t, v.lines, v.loc)
      BY <1>1, <2>1, <2>3 DEF VoidConsistent
    <3> HIDE DEF t, v
    <3>2. WillGoBack(committed', t, v.lines, v.loc)
      <4> SUFFICES ASSUME NEW k \in 1 .. Len(v.lines)
                   PROVE  LET ledger == committed'[v.lines[k].product].ledger
                          IN  \A e \in Entries(ledger, "SALE", t, k) :
                                 ledger[e].loc \in {NoLocation, v.loc[k]}
        BY DEF WillGoBack
      <4> DEFINE p == v.lines[k].product
                 was == committed[p].ledger
                 is == committed'[p].ledger
      <4>1. p \in Product
        BY <2>1, LineType
      <4> HIDE DEF p
      <4>2. SameEntries(committed, committed', p, "SALE", t, k)
        BY <1>2, <1>4, <2>1, <4>1, EntriesKept
      <4>3. /\ Entries(is, "SALE", t, k) = Entries(was, "SALE", t, k)
            /\ \A e \in Entries(was, "SALE", t, k) : is[e] = was[e]
        BY <4>2 DEF SameEntries
      <4>4. \A e \in Entries(was, "SALE", t, k) : was[e].loc \in {NoLocation, v.loc[k]}
        BY <3>1 DEF WillGoBack, p
      <4> HIDE DEF was, is
      <4>5. \A e \in Entries(is, "SALE", t, k) : is[e].loc \in {NoLocation, v.loc[k]}
        BY <4>3, <4>4
      <4> QED
        BY <4>5 DEF is, p
    <3> QED
      BY <1>1, <2>1, <3>1, <3>2, VoidStays DEF PosReq, t, v
  <2> QED
    BY <2>2, <2>3
<1>7. SalesConsistent'
  <2>1. \A s \in Sale : holder'[s] # NoReq =>
          \/ holder'[s] \in Checkouts /\ s = SaleOf[holder'[s]]
          \/ holder'[s] \in Voids /\ s = VoidTarget[holder'[s]] /\ void'[holder'[s]].pc = "commit"
    BY <1>1 DEF SalesInv, SalesConsistent
  <2>2. \A p \in Product : holder'[p] \notin Checkouts \cup Voids =>
          ContinuesAside(committed'[p].ledger, pending'[p].ledger)
    BY <1>1 DEF PosReq
  <2> QED
    BY <1>5, <1>6, <2>1, <2>2 DEF SalesConsistent
<1>8. SaleBooked'
  <2> SUFFICES ASSUME NEW t \in Sale
               PROVE  SaleEntered(committed', t)
    BY DEF SaleBooked
  <2>1. SaleEntered(committed, t) /\ committed'[t] = committed[t]
    BY <1>1 DEF SalesInv, SaleBooked
  <2>2. committed[t].items \in Seq(SaleLine)
    BY DEF DbInv, TypeOKDb, DbTypeOK, SaleRow
  <2> QED
    BY <1>2, <1>4, <2>1, <2>2, OthersEntered
<1>9. ReturnedWhereSold'
  BY <1>2, <1>3, AsideReturns DEF SalesInv, ReturnedWhereSold
<1> QED
  BY <1>7, <1>8, <1>9 DEF SalesInv

(* Nothing is sold when the behaviour starts.                              *)
LEMMA InitSalesOK ==
  ASSUME InitDb, InitPosLocals
  PROVE  SalesInv
<1>1. /\ \A x \in Row : holder[x] = NoReq
      /\ \A s \in Sale : committed[s] = [status |-> "NONE", items |-> <<>>]
      /\ \A p \in Product : committed[p].ledger = <<>> /\ pending[p].ledger = <<>>
  BY RowAssumption DEF InitDb, OpeningRow, Row
<1>2. \A r \in PosReq : r # NoReq
  BY PosAssumption, RowAssumption DEF PosReq
<1>3. \A r \in PosReq : HoldsNothing(r)
  BY <1>1, <1>2 DEF HoldsNothing, Row
<1>4. ASSUME NEW r \in Checkouts
      PROVE  CheckoutConsistent(r)
  <2>1. checkout[r].pc = "idle" /\ SaleOf[r] \in Sale
    BY PosAssumption DEF InitPosLocals, IdleCheckout
  <2> QED
    BY <1>1, <1>3, <2>1 DEF CheckoutConsistent, PosReq
<1>5. ASSUME NEW r \in Voids
      PROVE  VoidConsistent(r)
  <2>1. void[r].pc = "idle"
    BY DEF InitPosLocals, IdleVoid
  <2> QED
    BY <1>3, <2>1 DEF VoidConsistent, PosReq
<1>6. SalesConsistent
  BY <1>1, <1>4, <1>5 DEF SalesConsistent, ContinuesAside, Continues, Row
<1>7. SaleBooked
  BY <1>1, SMTT(20) DEF SaleBooked, SaleEntered
<1>8. ReturnedWhereSold
  BY <1>1 DEF ReturnedWhereSold, ReturnsWhereSold
<1> QED
  BY <1>6, <1>7, <1>8 DEF SalesInv

-----------------------------------------------------------------------------
(* The point of sale by itself.                                            *)
LEMMA PosSpecInvariant == PosSpec => [](DbInv /\ PosInv /\ SalesInv)
<1>1. InitPos => DbInv /\ PosInv /\ SalesInv
  BY InitDbOK, InitPosLocalsOK, InitSalesOK DEF InitPos
<1>2. DbInv /\ PosInv /\ SalesInv /\ [PosNext \/ PosDone]_posVars
        => (DbInv /\ PosInv /\ SalesInv)'
  <2> SUFFICES ASSUME DbInv, PosInv, SalesInv, [PosNext \/ PosDone]_posVars
               PROVE  (DbInv /\ PosInv /\ SalesInv)'
    OBVIOUS
  <2>1. CASE PosNext
    BY <2>1, PosNextKeeps, PosNextSales DEF PosStep, DbStep
  <2>2. CASE UNCHANGED posVars
    <3>1. UNCHANGED dbVars /\ UNCHANGED posLocals
      BY <2>2 DEF posVars, dbVars, posLocals
    <3>2. DbStep
      BY <3>1, TablesUnchanged
    <3>3. SalesInv'
      BY <3>1, <3>2, SalesKeptAside, UnchangedElsewhere, ElsewhereSales DEF DbStep, SalesInv
    <3>4. PosInv'
      BY <3>1 DEF PosInv, TypeOKPos, PosLocalsConsistent, posLocals
    <3> QED
      BY <3>2, <3>3, <3>4 DEF DbStep
  <2> QED
    BY <2>1, <2>2 DEF PosDone
<1> QED
  BY <1>1, <1>2, PTL DEF PosSpec

(* TypeOK of every instance of the point of sale.                          *)
THEOREM PosTypesCorrect == PosSpec => []TypeOK
<1>1. DbInv /\ PosInv => TypeOK
  BY DEF DbInv, PosInv, TypeOK
<1> QED
  BY <1>1, PosSpecInvariant, PTL

-----------------------------------------------------------------------------
(* Which units a request has written, and which the sales that stand have: *)
(* UnitSoldOnce with UnitsConsistent, through every step of a checkout or  *)
(* a void.                                                                 *)

SameUnits(q) ==
  \A u \in Unit : /\ holder[u] = q <=> holder'[u] = q
                  /\ holder[u] = q => committed'[u] = committed[u] /\ pending'[u] = pending[u]

LEMMA OthersKeepUnits ==
  ASSUME NEW r, NEW q \in Req \ {r},
         \/ \E rows : Stage(r, rows)
         \/ Commit(r) \/ Rollback(r) \/ UNCHANGED dbVars
  PROVE  SameUnits(q)
<1>1. CASE UNCHANGED dbVars
  BY <1>1 DEF SameUnits, dbVars
<1>2. ASSUME NEW rows, Stage(r, rows)
      PROVE  SameUnits(q)
  BY <1>2, RowAssumption DEF SameUnits, Stage, Lockable, Row
<1>3. CASE Commit(r)
  BY <1>3, RowAssumption DEF SameUnits, Commit, Released, Row
<1>4. CASE Rollback(r)
  BY <1>4, RowAssumption DEF SameUnits, Rollback, Released, Row
<1> QED
  BY <1>1, <1>2, <1>3, <1>4

LEMMA HeldUnitsStay ==
  ASSUME NEW q, SameUnits(q)
  PROVE  /\ HeldUnits(q)' = HeldUnits(q)
         /\ \A u \in HeldUnits(q) : committed'[u] = committed[u] /\ pending'[u] = pending[u]
BY DEF SameUnits, HeldUnits

LEMMA CheckoutUnitsStay ==
  ASSUME NEW q \in Checkouts, SameUnits(q), checkout'[q] = checkout[q], CheckoutUnits(q)
  PROVE  CheckoutUnits(q)'
<1> DEFINE c == checkout[q]
<1>1. c' = c /\ HeldUnits(q)' = HeldUnits(q)
      /\ \A u \in HeldUnits(q) : committed'[u] = committed[u] /\ pending'[u] = pending[u]
  BY HeldUnitsStay
<1> QED
  BY <1>1 DEF CheckoutUnits

LEMMA VoidUnitsStay ==
  ASSUME NEW q \in Voids, SameUnits(q), void'[q] = void[q], VoidUnits(q)
  PROVE  VoidUnits(q)'
BY HeldUnitsStay DEF VoidUnits

(* What a step of r leaves to show of the units.                           *)
OthersStay(r) ==
  /\ \A q \in Checkouts \ {r} : checkout'[q] = checkout[q]
  /\ \A q \in Voids \ {r} : void'[q] = void[q]

MineFit(r) ==
  /\ r \in Checkouts => CheckoutUnits(r)'
  /\ r \in Voids => VoidUnits(r)'

LEMMA UnitsOfOthers ==
  ASSUME UnitsConsistent, NEW r \in PosReq, OthersStay(r), MineFit(r),
         \/ \E rows : Stage(r, rows)
         \/ Commit(r) \/ Rollback(r) \/ UNCHANGED dbVars,
         \A u \in Unit : holder'[u] = r => holder'[ProductOf[u]] = r
  PROVE  /\ \A q \in Checkouts : CheckoutUnits(q)'
         /\ \A q \in Voids : VoidUnits(q)'
         /\ \A u \in Unit : holder'[u] # NoReq => holder'[ProductOf[u]] = holder'[u]
<1>1. \A q \in PosReq \ {r} : SameUnits(q)
  BY PosAssumption, OthersKeepUnits DEF PosReq
<1>2. ASSUME NEW q \in Checkouts
      PROVE  CheckoutUnits(q)'
  BY <1>1, CheckoutUnitsStay DEF UnitsConsistent, OthersStay, MineFit, PosReq
<1>3. ASSUME NEW q \in Voids
      PROVE  VoidUnits(q)'
  BY <1>1, VoidUnitsStay DEF UnitsConsistent, OthersStay, MineFit, PosReq
<1>4. ASSUME NEW u \in Unit, holder'[u] # NoReq
      PROVE  holder'[ProductOf[u]] = holder'[u]
  <2>1. CASE holder'[u] = r
    BY <2>1
  <2>2. CASE holder'[u] # r
    <3>1. holder[u] = holder'[u] /\ ProductOf[u] \in Row
      BY <1>4, <2>2, OpeningAssumption DEF Stage, Commit, Rollback, Released, dbVars, Row
    <3>2. holder[ProductOf[u]] = holder[u]
      BY <1>4, <3>1 DEF UnitsConsistent
    <3>3. holder'[ProductOf[u]] = holder[ProductOf[u]]
      BY <1>4, <2>2, <3>1, <3>2 DEF Stage, Lockable, Commit, Rollback, Released, dbVars
    <3> QED
      BY <3>1, <3>2, <3>3
  <2> QED
    BY <2>1, <2>2
<1> QED
  BY <1>2, <1>3, <1>4

LEMMA UnitsUnpublished ==
  ASSUME UnitsConsistent, NEW r \in PosReq, OthersStay(r), MineFit(r),
         \/ \E rows : Stage(r, rows)
         \/ Rollback(r) \/ UNCHANGED dbVars,
         \A u \in Unit : holder'[u] = r => holder'[ProductOf[u]] = r
  PROVE  UnitsConsistent'
<1>1. committed' = committed
  BY DEF Stage, Rollback, dbVars
<1>2. VoidedOnce' => VoidedOnce
  BY <1>1 DEF VoidedOnce
<1>3. SoldUnitsStand => SoldUnitsStand'
  BY <1>1 DEF SoldUnitsStand, UnitSoldOnce
<1>4. \A s \in Sale : \A i \in 1 .. Len(committed'[s].items) : FitsProduct(committed'[s].items[i])
  BY <1>1 DEF UnitsConsistent
<1>5. /\ \A q \in Checkouts : CheckoutUnits(q)'
      /\ \A q \in Voids : VoidUnits(q)'
      /\ \A u \in Unit : holder'[u] # NoReq => holder'[ProductOf[u]] = holder'[u]
  BY UnitsOfOthers
<1> QED
  BY <1>2, <1>3, <1>4, <1>5 DEF UnitsConsistent

(* A request that has failed holds no unit.                                *)
LEMMA FailedUnits ==
  ASSUME DbInv, PosInv, UnitsConsistent, NEW r \in PosReq,
         Rollback(r) \/ (UNCHANGED dbVars /\ HeldUnits(r) = {}),
         \/ r \in Checkouts /\ EndCheckout(r, "failed") /\ UNCHANGED void
         \/ r \in Voids /\ EndVoid(r, "failed") /\ UNCHANGED checkout
  PROVE  UnitsConsistent'
<1>1. r \in Req /\ r # NoReq /\ Checkouts \cap Voids = {}
  BY PosAssumption, RowAssumption DEF PosReq
<1>2. HeldUnits(r)' = {}
  BY <1>1 DEF Rollback, Released, HeldUnits, Row, dbVars
<1>3. \A u \in Unit : holder'[u] # r
  BY <1>2 DEF HeldUnits
<1>4. CASE r \in Checkouts /\ EndCheckout(r, "failed") /\ UNCHANGED void
  <2>1. checkout'[r].pc = "failed" /\ OthersStay(r)
    BY <1>4 DEF EndCheckout, IdleCheckout, PosInv, TypeOKPos, OthersStay
  <2>2. CheckoutUnits(r)'
    BY <1>2, <2>1 DEF CheckoutUnits
  <2>3. MineFit(r)
    BY <1>1, <1>4, <2>2 DEF MineFit
  <2> QED
    BY <1>3, <2>1, <2>3, UnitsUnpublished
<1>5. CASE r \in Voids /\ EndVoid(r, "failed") /\ UNCHANGED checkout
  <2>1. void'[r].pc = "failed" /\ OthersStay(r)
    BY <1>5 DEF EndVoid, IdleVoid, PosInv, TypeOKPos, OthersStay
  <2>2. VoidUnits(r)'
    BY <1>2, <2>1 DEF VoidUnits
  <2>3. MineFit(r)
    BY <1>1, <1>5, <2>2 DEF MineFit
  <2> QED
    BY <1>3, <2>1, <2>3, UnitsUnpublished
<1> QED
  BY <1>4, <1>5

(* No line taken yet, or one more.                                         *)
LEMMA UnitsOfNone == \A lines : UnitsOf(lines, 0) = {}
BY DEF UnitsOf

LEMMA UnitsOfMore ==
  ASSUME NEW lines, NEW n \in Nat
  PROVE  UnitsOf(lines, n + 1) = UnitsOf(lines, n) \cup ({lines[n + 1].unit} \ {NoUnit})
<1>1. 1 .. n + 1 = (1 .. n) \cup {n + 1}
  OBVIOUS
<1> QED
  BY <1>1 DEF UnitsOf

LEMMA NotYetThere ==
  ASSUME NEW lines, NEW n \in Nat, NoUnitTwice(lines, n),
         lines[n + 1].unit \notin UnitsOf(lines, n)
  PROVE  NoUnitTwice(lines, n + 1)
<1> SUFFICES ASSUME NEW i \in 1 .. n + 1, NEW j \in 1 .. n + 1,
                    lines[i].unit = lines[j].unit, lines[i].unit # NoUnit
             PROVE  i = j
  BY DEF NoUnitTwice
<1>1. \A k \in 1 .. n : lines[k].unit # NoUnit => lines[k].unit # lines[n + 1].unit
  BY DEF UnitsOf
<1>2. i \in 1 .. n \/ i = n + 1
  OBVIOUS
<1>3. j \in 1 .. n \/ j = n + 1
  OBVIOUS
<1> QED
  BY <1>1, <1>2, <1>3 DEF NoUnitTwice

LEMMA UnitsOfType ==
  ASSUME NEW lines \in Seq(SaleLine), NEW n \in 0 .. Len(lines)
  PROVE  UnitsOf(lines, n) \subseteq Unit
<1>1. \A i \in 1 .. n : lines[i].unit \in Unit \cup {NoUnit}
  BY LineType
<1> QED
  BY <1>1 DEF UnitsOf

(* The update of a product and of the unit of a line.                      *)
WrittenBy(line) == {line.product} \cup ({line.unit} \ {NoUnit})

MovesUnit(r, line, status, change) ==
  /\ committed' = committed /\ \E rows : Stage(r, rows)
  /\ \A x \in WrittenBy(line) : Lockable(r, x) /\ holder'[x] = r
  /\ \A x \in Row \ WrittenBy(line) : holder'[x] = holder[x] /\ pending'[x] = pending[x]
  /\ pending'[line.product].quantityOnHand = pending[line.product].quantityOnHand + change
  /\ line.unit # NoUnit => pending'[line.unit].status = status

LEMMA StagedMove ==
  ASSUME DbInv, NEW r \in Req, NEW line \in SaleLine, NEW row, NEW change,
         row.quantityOnHand = Visible(r, line.product).quantityOnHand + change,
         NEW status, NEW loc,
         Stage(r, WriteStock(line.product, row,
                             [u \in {line.unit} \ {NoUnit} |-> [status |-> status, loc |-> loc]]))
  PROVE  MovesUnit(r, line, status, change)
<1> DEFINE units == [u \in {line.unit} \ {NoUnit} |-> [status |-> status, loc |-> loc]]
           rows == WriteStock(line.product, row, units)
<1>1. line.product \in Product /\ line.unit \in Unit \cup {NoUnit}
  BY DEF SaleLine
<1>2. DOMAIN rows = WrittenBy(line) /\ rows[line.product] = row
  BY DEF WriteStock, WrittenBy
<1>3. line.unit # NoUnit => line.unit \in WrittenBy(line) /\ line.unit \in Unit
                            /\ rows[line.unit].status = status
  BY <1>1, RowAssumption DEF WriteStock, WrittenBy
<1>4. WrittenBy(line) \subseteq Row /\ line.product \in WrittenBy(line)
  BY <1>1 DEF WrittenBy, Row
<1> HIDE DEF rows
<1>5. Stage(r, rows)
  BY DEF rows
<1>6. /\ committed' = committed
      /\ \A x \in WrittenBy(line) : Lockable(r, x) /\ holder'[x] = r /\ pending'[x] = rows[x]
      /\ \A x \in Row \ WrittenBy(line) : holder'[x] = holder[x] /\ pending'[x] = pending[x]
  BY <1>2, <1>4, <1>5 DEF Stage
<1>7. Visible(r, line.product) = pending[line.product]
  BY <1>4, <1>6, VisibleIsPending
<1> QED
  BY <1>2, <1>3, <1>4, <1>6, <1>7 DEF MovesUnit

(* What a movement adds to the balance.                                    *)
LEMMA PostedAmount ==
  ASSUME NEW old \in ProductRow, NEW type, NEW change, NEW u, NEW loc, NEW s, NEW item
  PROVE  Posted(old, type, change, u, loc, s, item).quantityOnHand = old.quantityOnHand + change
<1> DEFINE moved == [old EXCEPT !.quantityOnHand = @ + change]
           m == Movement(type, change, old.quantityOnHand + change, u, loc, s, item)
<1>1. Posted(old, type, change, u, loc, s, item)
        = [moved EXCEPT !.ledger = Append(old.ledger, m)]
  BY Zenon DEF Posted
<1>2. moved = [quantityOnHand |-> old.quantityOnHand + change, ledger |-> old.ledger,
               isArchived |-> old.isArchived, card |-> old.card]
  BY DEF ProductRow
<1> HIDE DEF moved, m
<1> QED
  BY <1>1, <1>2

(* The line sold, or returned.                                             *)
LEMMA LineSold ==
  ASSUME DbInv, PosInv, NEW r \in Checkouts, SellLine(r),
         ~ (Rollback(r) /\ EndCheckout(r, "failed"))
  PROVE  LET c == checkout[r]
             line == c.lines[c.next]
         IN  /\ MovesUnit(r, line, "SOLD", -line.quantity)
             /\ line \in SaleLine
             /\ line.unit # NoUnit => UnitStillSellable(r, line.unit)
             /\ checkout'[r].pc = "sell" /\ checkout'[r].lines = c.lines
             /\ checkout'[r].next = c.next + 1
             /\ OthersStay(r)
<1> DEFINE c == checkout[r]
           line == c.lines[c.next]
           row == SoldRow(r, line, c.loc[c.next], c.next)
           d == [c EXCEPT !.next = c.next + 1]
           sold == [status |-> "SOLD", loc |-> NoLocation]
<1>1. /\ c \in CheckoutState /\ c.pc = "sell" /\ c.next <= Len(c.lines)
      /\ Len(c.loc) >= Len(c.lines) /\ r \in Req /\ SaleOf[r] \in Sale
      /\ c.lines \in Seq(SaleLine) /\ c.next \in Nat \ {0}
  BY CheckoutFields DEF SellLine, PosInv, PosLocalsConsistent
<1>2. /\ Stage(r, WriteStock(line.product, row, [u \in {line.unit} \ {NoUnit} |-> sold]))
      /\ checkout' = [checkout EXCEPT ![r].next = @ + 1]
      /\ line.unit # NoUnit => UnitStillSellable(r, line.unit)
      /\ UNCHANGED void
  BY DEF SellLine
<1>3. d = [pc |-> c.pc, lines |-> c.lines, tendered |-> c.tendered, next |-> c.next + 1,
           loc |-> c.loc]
  BY <1>1 DEF CheckoutState
<1>4. checkout'[r] = d /\ OthersStay(r)
  BY <1>2, PosAssumption DEF PosInv, TypeOKPos, OthersStay
<1> HIDE DEF d
<1>5. /\ line \in SaleLine /\ c.loc[c.next] \in Location \cup {NoLocation}
      /\ line.product \in Product /\ line.unit \in Unit \cup {NoUnit}
      /\ -line.quantity \in Int
  BY <1>1, LineType DEF CheckoutState
<1>6. row.quantityOnHand = Visible(r, line.product).quantityOnHand + -line.quantity
  <2>1. Visible(r, line.product) \in ProductRow
    BY <1>5, VisibleOK DEF RowOK, Row
  <2>2. "SALE" \in SystemKey /\ SaleOf[r] \in Sale \cup {NoSale} /\ c.next \in Nat
    BY <1>1 DEF SystemKey
  <2> QED
    BY <1>5, <2>1, <2>2, PostedLedger DEF SoldRow
<1> HIDE DEF row
<1>7. MovesUnit(r, line, "SOLD", -line.quantity)
  BY <1>1, <1>2, <1>5, <1>6, StagedMove
<1>8. /\ checkout'[r].pc = "sell" /\ checkout'[r].lines = c.lines
      /\ checkout'[r].next = c.next + 1
  BY <1>1, <1>3, <1>4
<1>9. line.unit # NoUnit => UnitStillSellable(r, line.unit)
  BY <1>2
<1> QED
  BY <1>4, <1>5, <1>7, <1>8, <1>9

LEMMA LineRestored ==
  ASSUME DbInv, PosInv, NEW r \in Voids, RestoreLine(r)
  PROVE  LET v == void[r]
             line == v.lines[v.next]
         IN  /\ MovesUnit(r, line, "RETURNED", line.quantity)
             /\ line \in SaleLine
             /\ void'[r].pc = "restore" /\ void'[r].lines = v.lines
             /\ void'[r].next = v.next + 1
             /\ OthersStay(r)
<1> DEFINE v == void[r]
           line == v.lines[v.next]
           loc == v.loc[v.next]
           row == RestoredRow(r, line, loc, v.next)
           w == [v EXCEPT !.next = v.next + 1]
           returned == [status |-> "RETURNED", loc |-> loc]
<1>1. /\ v \in VoidState /\ v.pc = "restore" /\ v.next <= Len(v.lines)
      /\ Len(v.loc) = Len(v.lines) /\ r \in Req /\ VoidTarget[r] \in Sale
      /\ v.lines \in Seq(SaleLine) /\ v.next \in Nat \ {0}
  BY VoidFields DEF RestoreLine, PosInv, PosLocalsConsistent
<1>2. /\ Stage(r, WriteStock(line.product, row, [u \in {line.unit} \ {NoUnit} |-> returned]))
      /\ void' = [void EXCEPT ![r].next = @ + 1]
      /\ UNCHANGED checkout
  BY DEF RestoreLine
<1>3. w = [pc |-> v.pc, lines |-> v.lines, next |-> v.next + 1, loc |-> v.loc]
  BY <1>1 DEF VoidState
<1>4. void'[r] = w /\ OthersStay(r)
  BY <1>2, PosAssumption DEF PosInv, TypeOKPos, OthersStay
<1> HIDE DEF w
<1>5. /\ line \in SaleLine /\ loc \in Location \cup {NoLocation}
      /\ line.product \in Product /\ line.unit \in Unit \cup {NoUnit}
      /\ line.quantity \in Int
  BY <1>1, LineType DEF VoidState
<1>6. row.quantityOnHand = Visible(r, line.product).quantityOnHand + line.quantity
  <2>1. Visible(r, line.product) \in ProductRow
    BY <1>5, VisibleOK DEF RowOK, Row
  <2>2. "RETURN" \in SystemKey /\ VoidTarget[r] \in Sale \cup {NoSale} /\ v.next \in Nat
    BY <1>1 DEF SystemKey
  <2>3. row = Posted(Visible(r, line.product), "RETURN", line.quantity, line.unit, loc,
                     VoidTarget[r], v.next)
    BY DEF RestoredRow
  <2> DEFINE change == line.quantity
             u == line.unit
             s == VoidTarget[r]
             item == v.next
             old == Visible(r, line.product)
  <2>4. /\ change \in Int /\ u \in Unit \cup {NoUnit} /\ s \in Sale \cup {NoSale}
        /\ item \in Nat /\ old \in ProductRow
        /\ row = Posted(old, "RETURN", change, u, loc, s, item)
    BY <1>5, <2>1, <2>2, <2>3
  <2> HIDE DEF change, u, s, item, old, line, loc, row, v
  <2>5. row.quantityOnHand = old.quantityOnHand + change
    BY <2>4, PostedAmount
  <2> QED
    BY <2>5 DEF old, change
<1> HIDE DEF row, loc
<1>7. MovesUnit(r, line, "RETURNED", line.quantity)
  BY <1>1, <1>2, <1>5, <1>6, StagedMove
<1> QED
  BY <1>1, <1>2, <1>3, <1>4, <1>5, <1>7, SMTT(20)

(* A line written adds its unit to those held.                             *)
LEMMA MovedUnits ==
  ASSUME NEW r, NEW line \in SaleLine, NEW status, NEW change, MovesUnit(r, line, status, change),
         line.unit # NoUnit => ProductOf[line.unit] = line.product,
         \A u \in HeldUnits(r) : holder[ProductOf[u]] = r
  PROVE  /\ HeldUnits(r)' = HeldUnits(r) \cup ({line.unit} \ {NoUnit})
         /\ \A u \in HeldUnits(r) \ {line.unit} : pending'[u] = pending[u]
         /\ \A u \in Unit : holder'[u] = r => holder'[ProductOf[u]] = r
<1>1. line.product \in Product /\ line.unit \in Unit \cup {NoUnit} /\ ProductOf \in [Unit -> Product]
  BY OpeningAssumption DEF SaleLine
<1>2. \A u \in Unit : IF u = line.unit THEN holder'[u] = r /\ line.unit # NoUnit
                      ELSE holder'[u] = holder[u] /\ pending'[u] = pending[u]
  BY <1>1, RowAssumption DEF MovesUnit, WrittenBy, Row
<1>3. \A p \in Product : holder[p] = r => holder'[p] = r
  BY DEF MovesUnit, Row
<1>4. holder'[line.product] = r
  BY DEF MovesUnit, WrittenBy
<1>5. HeldUnits(r)' = HeldUnits(r) \cup ({line.unit} \ {NoUnit})
  BY <1>1, <1>2 DEF HeldUnits
<1>6. \A u \in HeldUnits(r) \ {line.unit} : pending'[u] = pending[u]
  BY <1>2 DEF HeldUnits
<1>7. \A u \in Unit : holder'[u] = r => holder'[ProductOf[u]] = r
  BY <1>1, <1>2, <1>3, <1>4 DEF HeldUnits
<1> QED
  BY <1>5, <1>6, <1>7

(* A sale written touches no product and no unit.                          *)
LEMMA SaleStaged ==
  ASSUME NEW r, NEW s \in Sale, NEW sale, Stage(r, Write(s, sale))
  PROVE  /\ committed' = committed
         /\ \A x \in Product \cup Unit : holder'[x] = holder[x] /\ pending'[x] = pending[x]
         /\ HeldUnits(r)' = HeldUnits(r)
<1>1. committed' = committed
      /\ \A x \in Product \cup Unit : holder'[x] = holder[x] /\ pending'[x] = pending[x]
  BY RowAssumption DEF Stage, Write, Row
<1> QED
  BY <1>1 DEF HeldUnits

LEMMA BeginCheckoutUnits ==
  ASSUME DbInv, PosInv, UnitsConsistent, NEW r \in Checkouts, BeginCheckout(r)
  PROVE  UnitsConsistent'
<1>1. PICK body \in Payloads :
        IF Cart!Refuses(body.items)
          THEN EndCheckout(r, "failed")
          ELSE checkout' = [checkout EXCEPT
                  ![r] = [pc |-> "prepare", lines |-> Cart!Normalized(body.items),
                          tendered |-> body.tendered, next |-> 1, loc |-> <<>>]]
  BY DEF BeginCheckout
<1>2. UNCHANGED dbVars /\ UNCHANGED void /\ checkout[r].pc = "idle"
      /\ r \in PosReq /\ r \notin Voids /\ r # NoReq
  BY PosAssumption, RowAssumption DEF BeginCheckout, PosReq
<1>3. HeldUnits(r) = {}
  BY <1>2 DEF UnitsConsistent, CheckoutUnits
<1>4. CASE EndCheckout(r, "failed")
  BY <1>2, <1>3, <1>4, FailedUnits
<1>5. CASE /\ ~ Cart!Refuses(body.items)
           /\ checkout' = [checkout EXCEPT
                  ![r] = [pc |-> "prepare", lines |-> Cart!Normalized(body.items),
                          tendered |-> body.tendered, next |-> 1, loc |-> <<>>]]
  <2> DEFINE lines == Cart!Normalized(body.items)
             c == [pc |-> "prepare", lines |-> lines,
                   tendered |-> body.tendered, next |-> 1, loc |-> <<>>]
  <2>1. lines \in Seq(SaleLine) /\ OneOfEachUnit(lines)
    <3>1. body.items \in Seq(SaleLine)
      BY PayloadAssumption DEF CheckoutBody
    <3> QED BY <1>5, <3>1, NormalizedType, NormalizedUnits
  <2>2. c.pc = "prepare" /\ c.lines = lines /\ c.next = 1
    OBVIOUS
  <2>3. checkout' = [checkout EXCEPT ![r] = c]
    BY <1>5
  <2> HIDE DEF c, lines
  <2>4. checkout'[r] = c /\ OthersStay(r)
    BY <1>2, <2>3 DEF PosInv, TypeOKPos, OthersStay
  <2>5. HeldUnits(r)' = {}
    BY <1>2, <1>3 DEF HeldUnits, dbVars
  <2>6. CheckoutUnits(r)'
    BY <2>1, <2>2, <2>4, <2>5 DEF CheckoutUnits
  <2>7. MineFit(r) /\ \A u \in Unit : holder'[u] # r
    BY <1>2, <2>5, <2>6 DEF MineFit, HeldUnits
  <2> QED
    BY <1>2, <2>4, <2>7, UnitsUnpublished
<1> QED
  BY <1>1, <1>4, <1>5

LEMMA PrepareSaleLineUnits ==
  ASSUME DbInv, PosInv, UnitsConsistent, NEW r \in Checkouts, PrepareSaleLine(r)
  PROVE  UnitsConsistent'
<1> DEFINE c == checkout[r]
           line == c.lines[c.next]
           d == [c EXCEPT !.next = c.next + 1, !.loc = Append(c.loc, LineLocation(r, line))]
<1>1. /\ UNCHANGED dbVars /\ UNCHANGED void /\ c.pc = "prepare" /\ c.next <= Len(c.lines)
      /\ r \in PosReq /\ r \notin Voids /\ r # NoReq
      /\ c.lines \in Seq(SaleLine) /\ c.next \in Nat \ {0} /\ c \in CheckoutState
  BY PosAssumption, RowAssumption, CheckoutFields DEF PrepareSaleLine, PosReq
<1>2. HeldUnits(r) = {} /\ OneOfEachUnit(c.lines)
      /\ \A i \in 1 .. c.next - 1 : FitsProduct(c.lines[i])
  BY <1>1 DEF UnitsConsistent, CheckoutUnits
<1>3. CASE EndCheckout(r, "failed")
  BY <1>1, <1>2, <1>3, FailedUnits
<1>4. CASE Available(r, line) /\ checkout' = [checkout EXCEPT ![r] = d]
  <2>1. d.pc = "prepare" /\ d.lines = c.lines /\ d.next = c.next + 1
    <3> DEFINE e == [c EXCEPT !.next = c.next + 1]
    <3>1. d = [e EXCEPT !.loc = Append(c.loc, LineLocation(r, line))]
      BY Zenon
    <3>2. e = [pc |-> c.pc, lines |-> c.lines, tendered |-> c.tendered,
               next |-> c.next + 1, loc |-> c.loc]
      BY <1>1 DEF CheckoutState
    <3> HIDE DEF d, e
    <3> QED
      BY <1>1, <3>1, <3>2
  <2> HIDE DEF d
  <2>2. checkout'[r] = d /\ OthersStay(r)
    BY <1>1, <1>4 DEF PosInv, TypeOKPos, OthersStay
  <2>3. FitsProduct(line)
    <3>1. line.unit # NoUnit => line.quantity = 1
      BY <1>1, <1>2 DEF OneOfEachUnit
    <3> QED
      BY <1>4, <3>1 DEF Available, FitsProduct
  <2>4. \A i \in 1 .. c.next : FitsProduct(c.lines[i])
    <3>1. \A i \in 1 .. c.next : i \in 1 .. c.next - 1 \/ i = c.next
      BY <1>1
    <3> QED
      BY <1>2, <2>3, <3>1
  <2>5. HeldUnits(r)' = {}
    BY <1>1, <1>2 DEF HeldUnits, dbVars
  <2>6. CheckoutUnits(r)'
    <3>1. d.next <= Len(d.lines) + 1 /\ d.next - 1 = c.next
      BY <1>1, <2>1
    <3> QED
      BY <1>2, <2>1, <2>2, <2>4, <2>5, <3>1 DEF CheckoutUnits
  <2>7. MineFit(r) /\ \A u \in Unit : holder'[u] # r
    BY <1>1, <2>5, <2>6 DEF MineFit, HeldUnits
  <2> QED
    BY <1>1, <2>2, <2>7, UnitsUnpublished
<1> QED
  BY <1>3, <1>4 DEF PrepareSaleLine

LEMMA CreateSaleUnits ==
  ASSUME DbInv, PosInv, UnitsConsistent, NEW r \in Checkouts, CreateSale(r)
  PROVE  UnitsConsistent'
<1> DEFINE c == checkout[r]
           d == [c EXCEPT !.pc = "sell", !.next = 1]
           s == SaleOf[r]
           sale == [status |-> "COMPLETED", items |-> c.lines]
<1>1. /\ UNCHANGED void /\ c.pc = "prepare" /\ c.next > Len(c.lines) /\ s \in Sale
      /\ r \in PosReq /\ r \notin Voids /\ r # NoReq
      /\ c.lines \in Seq(SaleLine) /\ c.next \in Nat \ {0} /\ c \in CheckoutState
  BY PosAssumption, RowAssumption, CheckoutFields DEF CreateSale, PosReq
<1>2. HeldUnits(r) = {} /\ OneOfEachUnit(c.lines) /\ c.next <= Len(c.lines) + 1
      /\ \A i \in 1 .. c.next - 1 : FitsProduct(c.lines[i])
  BY <1>1 DEF UnitsConsistent, CheckoutUnits
<1>3. CASE EndCheckout(r, "failed") /\ UNCHANGED dbVars
  BY <1>1, <1>2, <1>3, FailedUnits
<1>4. CASE /\ Stage(r, Write(s, sale))
           /\ checkout' = [checkout EXCEPT ![r] = d]
  <2>1. d = [pc |-> "sell", lines |-> c.lines, tendered |-> c.tendered, next |-> 1,
             loc |-> c.loc]
    <3> DEFINE e == [c EXCEPT !.pc = "sell"]
    <3>1. d = [e EXCEPT !.next = 1]
      BY Zenon
    <3>2. e = [pc |-> "sell", lines |-> c.lines, tendered |-> c.tendered,
               next |-> c.next, loc |-> c.loc]
      BY <1>1 DEF CheckoutState
    <3> HIDE DEF d, e
    <3> QED
      BY <3>1, <3>2
  <2> HIDE DEF d, sale
  <2>2. d.pc = "sell" /\ d.lines = c.lines /\ d.next - 1 = 0
    BY <2>1
  <2>3. checkout'[r] = d /\ OthersStay(r)
    BY <1>1, <1>4 DEF PosInv, TypeOKPos, OthersStay
  <2>4. HeldUnits(r)' = {}
    BY <1>1, <1>2, <1>4, SaleStaged
  <2>5. UnitsOf(c.lines, 0) = {} /\ NoUnitTwice(c.lines, 0)
    BY UnitsOfNone DEF NoUnitTwice
  <2>6. \A i \in 1 .. Len(c.lines) : FitsProduct(c.lines[i])
    BY <1>1, <1>2
  <2>7. CheckoutUnits(r)'
    BY <1>2, <2>2, <2>3, <2>4, <2>5, <2>6 DEF CheckoutUnits
  <2>8. MineFit(r) /\ \A u \in Unit : holder'[u] # r
    BY <1>1, <2>4, <2>7 DEF MineFit, HeldUnits
  <2> QED
    BY <1>1, <1>4, <2>3, <2>8, UnitsUnpublished
<1> QED
  BY <1>3, <1>4 DEF CreateSale

LEMMA SellLineUnits ==
  ASSUME DbInv, PosInv, UnitsConsistent, NEW r \in Checkouts, SellLine(r)
  PROVE  UnitsConsistent'
<1> DEFINE c == checkout[r]
           line == c.lines[c.next]
           n == c.next - 1
<1>1. /\ UNCHANGED void /\ c.pc = "sell" /\ c.next <= Len(c.lines)
      /\ r \in PosReq /\ r \in Req /\ r \notin Voids /\ r # NoReq
      /\ c.lines \in Seq(SaleLine) /\ c.next \in Nat \ {0}
  BY PosAssumption, RowAssumption, CheckoutFields DEF SellLine, PosReq
<1>2. /\ OneOfEachUnit(c.lines)
      /\ \A i \in 1 .. Len(c.lines) : FitsProduct(c.lines[i])
      /\ HeldUnits(r) = UnitsOf(c.lines, n)
      /\ NoUnitTwice(c.lines, n)
      /\ \A u \in HeldUnits(r) : /\ committed[u].status \in SELLABLE_UNIT_STATUSES
                                 /\ pending[u].status = "SOLD"
  BY <1>1 DEF UnitsConsistent, CheckoutUnits
<1>3. CASE Rollback(r) /\ EndCheckout(r, "failed")
  BY <1>1, <1>3, FailedUnits
<1>4. CASE ~ (Rollback(r) /\ EndCheckout(r, "failed"))
  <2>1. /\ MovesUnit(r, line, "SOLD", -line.quantity)
        /\ line \in SaleLine
        /\ line.unit # NoUnit => UnitStillSellable(r, line.unit)
        /\ checkout'[r].pc = "sell" /\ checkout'[r].lines = c.lines
        /\ checkout'[r].next = c.next + 1
        /\ OthersStay(r)
    BY <1>4, LineSold
  <2>2. n \in Nat /\ n + 1 = c.next /\ (c.next + 1) - 1 = n + 1 /\ FitsProduct(line)
    BY <1>1, <1>2
  <2>3. line.unit # NoUnit => ProductOf[line.unit] = line.product
    BY <2>2 DEF FitsProduct
  <2>4. \A u \in HeldUnits(r) : holder[ProductOf[u]] = r
    BY <1>1 DEF UnitsConsistent, HeldUnits
  <2> HIDE DEF c, n
  <2>5. /\ HeldUnits(r)' = HeldUnits(r) \cup ({line.unit} \ {NoUnit})
        /\ \A u \in HeldUnits(r) \ {line.unit} : pending'[u] = pending[u]
        /\ \A u \in Unit : holder'[u] = r => holder'[ProductOf[u]] = r
    BY <2>1, <2>3, <2>4, MovedUnits
  <2>6. HeldUnits(r)' = UnitsOf(c.lines, n + 1)
    BY <1>2, <2>2, <2>5, UnitsOfMore, ZenonT(30)
  <2>7. line.unit \notin HeldUnits(r)
    <3> SUFFICES ASSUME line.unit \in HeldUnits(r)
                 PROVE  FALSE
      OBVIOUS
    <3>1. line.unit \in Unit /\ holder[line.unit] = r /\ line.unit # NoUnit
      BY RowAssumption DEF HeldUnits
    <3>2. pending[line.unit].status \in SELLABLE_UNIT_STATUSES
      BY <2>1, <3>1 DEF UnitStillSellable, Visible
    <3> QED
      BY <1>2, <3>2 DEF SELLABLE_UNIT_STATUSES
  <2>8. NoUnitTwice(c.lines, n + 1)
    BY <1>2, <2>2, <2>7, NotYetThere
  <2>9. ASSUME NEW u \in HeldUnits(r)'
        PROVE  committed'[u].status \in SELLABLE_UNIT_STATUSES /\ pending'[u].status = "SOLD"
    <3>1. committed' = committed
      BY <2>1 DEF MovesUnit
    <3>2. CASE u \in HeldUnits(r)
      BY <1>2, <2>5, <2>7, <3>1, <3>2
    <3>3. CASE u = line.unit /\ u # NoUnit
      <4>1. pending'[u].status = "SOLD"
        BY <2>1, <3>3 DEF MovesUnit
      <4>2. u \in Unit /\ holder[u] # r
        BY <2>1, <2>7, <3>3 DEF SaleLine, HeldUnits
      <4>3. committed[u].status \in SELLABLE_UNIT_STATUSES
        BY <2>1, <3>3, <4>2 DEF UnitStillSellable, Visible
      <4> QED
        BY <3>1, <4>1, <4>3
    <3> QED
      BY <2>5, <3>2, <3>3
  <2>10. CheckoutUnits(r)'
    BY <1>2, <2>1, <2>2, <2>6, <2>8, <2>9 DEF CheckoutUnits
  <2>11. MineFit(r) /\ \E rows : Stage(r, rows)
    BY <1>1, <2>1, <2>10 DEF MineFit, MovesUnit
  <2> QED
    BY <1>1, <2>1, <2>5, <2>11, UnitsUnpublished
<1> QED
  BY <1>3, <1>4

LEMMA AbortCheckoutUnits ==
  ASSUME DbInv, PosInv, UnitsConsistent, NEW r \in Checkouts, AbortCheckout(r)
  PROVE  UnitsConsistent'
BY FailedUnits DEF AbortCheckout, PosReq

LEMMA ReadSaleUnits ==
  ASSUME DbInv, PosInv, UnitsConsistent, NEW r \in Voids, ReadSale(r)
  PROVE  UnitsConsistent'
<1> DEFINE s == VoidTarget[r]
           lines == committed[s].items
           v == [pc |-> "restore", lines |-> lines, next |-> 1,
                 loc |-> [i \in 1 .. Len(lines) |-> RestoreLocation(s, lines[i], i)]]
<1>1. /\ UNCHANGED dbVars /\ UNCHANGED checkout /\ void[r].pc = "idle"
      /\ r \in PosReq /\ r \notin Checkouts /\ r # NoReq
  BY PosAssumption, RowAssumption DEF ReadSale, PosReq
<1>2. HeldUnits(r) = {}
  BY <1>1 DEF UnitsConsistent, VoidUnits
<1>3. CASE EndVoid(r, "failed")
  BY <1>1, <1>2, <1>3, FailedUnits
<1>4. CASE void' = [void EXCEPT ![r] = v]
  <2>1. v.pc = "restore" /\ v.next - 1 = 0
    OBVIOUS
  <2> HIDE DEF v
  <2>2. void'[r] = v /\ OthersStay(r)
    BY <1>1, <1>4 DEF PosInv, TypeOKPos, OthersStay
  <2>3. HeldUnits(r)' = {}
    BY <1>1, <1>2 DEF HeldUnits, dbVars
  <2>4. VoidUnits(r)'
    BY <2>1, <2>2, <2>3, UnitsOfNone DEF VoidUnits
  <2>5. MineFit(r) /\ \A u \in Unit : holder'[u] # r
    BY <1>1, <2>3, <2>4 DEF MineFit, HeldUnits
  <2> QED
    BY <1>1, <2>2, <2>5, UnitsUnpublished
<1> QED
  BY <1>3, <1>4 DEF ReadSale

(* The lines a void returns are those of its sale.                         *)
LEMMA VoidLinesFit ==
  ASSUME DbInv, PosInv, SalesInv, UnitsConsistent, NEW r \in Voids,
         void[r].pc \in {"restore", "commit"}
  PROVE  /\ committed[VoidTarget[r]].items = void[r].lines
         /\ \A i \in 1 .. Len(void[r].lines) : FitsProduct(void[r].lines[i])
<1>1. VoidTarget[r] \in Sale /\ committed[VoidTarget[r]].items = void[r].lines
  BY VoidFields DEF SalesInv, SalesConsistent, VoidConsistent
<1> QED
  BY <1>1 DEF UnitsConsistent

LEMMA RestoreLineUnits ==
  ASSUME DbInv, PosInv, SalesInv, UnitsConsistent, NEW r \in Voids, RestoreLine(r)
  PROVE  UnitsConsistent'
<1> DEFINE v == void[r]
           line == v.lines[v.next]
           n == v.next - 1
<1>1. /\ UNCHANGED checkout /\ v.pc = "restore" /\ v.next <= Len(v.lines)
      /\ r \in PosReq /\ r \notin Checkouts /\ r # NoReq
      /\ v.lines \in Seq(SaleLine) /\ v.next \in Nat \ {0}
  BY PosAssumption, RowAssumption, VoidFields DEF RestoreLine, PosReq
<1>2. HeldUnits(r) = UnitsOf(v.lines, n)
  BY <1>1 DEF UnitsConsistent, VoidUnits
<1>3. /\ MovesUnit(r, line, "RETURNED", line.quantity)
      /\ line \in SaleLine
      /\ void'[r].pc = "restore" /\ void'[r].lines = v.lines
      /\ void'[r].next = v.next + 1
      /\ OthersStay(r)
  BY LineRestored
<1>4. n \in Nat /\ n + 1 = v.next /\ (v.next + 1) - 1 = n + 1 /\ FitsProduct(line)
  <2>1. \A i \in 1 .. Len(v.lines) : FitsProduct(v.lines[i])
    BY <1>1, VoidLinesFit
  <2> QED
    BY <1>1, <2>1
<1>5. line.unit # NoUnit => ProductOf[line.unit] = line.product
  BY <1>4 DEF FitsProduct
<1>6. \A u \in HeldUnits(r) : holder[ProductOf[u]] = r
  BY <1>1 DEF UnitsConsistent, HeldUnits
<1> HIDE DEF v, n
<1>7. /\ HeldUnits(r)' = HeldUnits(r) \cup ({line.unit} \ {NoUnit})
      /\ \A u \in Unit : holder'[u] = r => holder'[ProductOf[u]] = r
  BY <1>3, <1>5, <1>6, MovedUnits
<1>8. HeldUnits(r)' = UnitsOf(v.lines, n + 1)
  BY <1>2, <1>4, <1>7, UnitsOfMore
<1>9. VoidUnits(r)'
  BY <1>3, <1>4, <1>8 DEF VoidUnits
<1>10. MineFit(r) /\ \E rows : Stage(r, rows)
  BY <1>1, <1>3, <1>9 DEF MineFit, MovesUnit
<1> QED
  BY <1>1, <1>3, <1>7, <1>10, UnitsUnpublished

LEMMA MarkVoidedUnits ==
  ASSUME DbInv, PosInv, UnitsConsistent, NEW r \in Voids, MarkVoided(r)
  PROVE  UnitsConsistent'
<1> DEFINE v == void[r]
           s == VoidTarget[r]
           w == [v EXCEPT !.pc = "commit"]
<1>1. /\ UNCHANGED checkout /\ v.pc = "restore" /\ v \in VoidState /\ s \in Sale
      /\ r \in PosReq /\ r \notin Checkouts /\ r # NoReq
  BY PosAssumption, RowAssumption, VoidFields DEF MarkVoided, PosReq
<1>2. w = [pc |-> "commit", lines |-> v.lines, next |-> v.next, loc |-> v.loc]
  BY <1>1 DEF VoidState
<1>3. void'[r] = w /\ OthersStay(r)
  BY <1>1 DEF MarkVoided, PosInv, TypeOKPos, OthersStay
<1> HIDE DEF w
<1>4. PICK sale : Stage(r, Write(s, sale))
  BY DEF MarkVoided
<1>5. /\ HeldUnits(r)' = HeldUnits(r)
      /\ \A x \in Product \cup Unit : holder'[x] = holder[x]
  BY <1>1, <1>4, SaleStaged
<1>6. HeldUnits(r) = UnitsOf(v.lines, v.next - 1)
  BY <1>1 DEF UnitsConsistent, VoidUnits
<1>7. VoidUnits(r)'
  BY <1>2, <1>3, <1>5, <1>6 DEF VoidUnits
<1>8. \A u \in Unit : holder'[u] = r => holder'[ProductOf[u]] = r
  BY <1>1, <1>5, OpeningAssumption DEF UnitsConsistent
<1>9. MineFit(r)
  BY <1>1, <1>7 DEF MineFit
<1> QED
  BY <1>1, <1>3, <1>4, <1>8, <1>9, UnitsUnpublished

LEMMA AbortVoidUnits ==
  ASSUME DbInv, PosInv, UnitsConsistent, NEW r \in Voids, AbortVoid(r)
  PROVE  UnitsConsistent'
BY FailedUnits DEF AbortVoid, PosReq

-----------------------------------------------------------------------------
(* In these tables no item of a sale has come back twice, and the sales    *)
(* that stand have their units to themselves.                              *)

ReturnedOnce(version) ==
  \A s \in Sale : \A i \in DOMAIN version[s].items :
     LET p == version[s].items[i].product
     IN  Cardinality(Entries(version[p].ledger, "RETURN", s, i)) <= 1

UnitsOfSale(version, s) == UnitsOf(version[s].items, Len(version[s].items))

Stands(version, s) == version[s].status = "COMPLETED"

UnitsStand(version) ==
  /\ \A s, t \in Sale : s # t /\ Stands(version, s) /\ Stands(version, t)
       => UnitsOfSale(version, s) \cap UnitsOfSale(version, t) = {}
  /\ \A s \in Sale : Stands(version, s) =>
       /\ NoUnitTwice(version[s].items, Len(version[s].items))
       /\ \A u \in UnitsOfSale(version, s) : version[u].status = "SOLD"

LEMMA SharedUnits ==
  ASSUME NEW a, NEW b, DOMAIN a = 1 .. Len(a), DOMAIN b = 1 .. Len(b)
  PROVE  (\A i \in DOMAIN a, j \in DOMAIN b : a[i].unit # NoUnit => a[i].unit # b[j].unit)
           <=> UnitsOf(a, Len(a)) \cap UnitsOf(b, Len(b)) = {}
BY DEF UnitsOf

LEMMA StandInTables == DbInv => (SoldUnitsStand <=> UnitsStand(committed))
<1> SUFFICES ASSUME DbInv
             PROVE  SoldUnitsStand <=> UnitsStand(committed)
  OBVIOUS
<1>1. \A s \in Sale : DOMAIN committed[s].items = 1 .. Len(committed[s].items)
  BY DEF DbInv, TypeOKDb, DbTypeOK, SaleRow
<1>2. UnitSoldOnce <=>
        \A s, t \in Sale : s # t /\ Stands(committed, s) /\ Stands(committed, t)
          => UnitsOfSale(committed, s) \cap UnitsOfSale(committed, t) = {}
  BY <1>1, SharedUnits DEF UnitSoldOnce, Stands, UnitsOfSale
<1> QED
  BY <1>2 DEF SoldUnitsStand, UnitsStand, Stands, UnitsOfSale

(* What has come back once now had not come back twice before.             *)
LEMMA OnceBefore ==
  ASSUME NEW old, NEW new, LedgersContinue(old, new),
         \A t \in Sale : /\ old[t].items \in Seq(SaleLine)
                         /\ old[t].items = new[t].items \/ old[t].items = <<>>,
         ReturnedOnce(new)
  PROVE  ReturnedOnce(old)
<1> SUFFICES ASSUME NEW s \in Sale, NEW i \in DOMAIN old[s].items
             PROVE  Cardinality(Entries(old[old[s].items[i].product].ledger, "RETURN", s, i)) <= 1
  BY DEF ReturnedOnce
<1> DEFINE p == old[s].items[i].product
           was == Entries(old[p].ledger, "RETURN", s, i)
           is == Entries(new[p].ledger, "RETURN", s, i)
           ledger == new[p].ledger
<1>1. old[s].items = new[s].items /\ p \in Product
  <2>1. old[s].items \in Seq(SaleLine) /\ i \in 1 .. Len(old[s].items)
    OBVIOUS
  <2> QED
    BY <2>1, LineType
<1>2. Cardinality(is) <= 1
  BY <1>1 DEF ReturnedOnce
<1> HIDE DEF p
<1>3. IsFiniteSet(is) /\ was \in SUBSET is
  <2>1. ledger \in Seq(StockMovement)
    BY <1>1 DEF LedgersContinue
  <2>2. Len(ledger) \in Nat /\ DOMAIN ledger = 1 .. Len(ledger)
    BY <2>1
  <2>3. is \in SUBSET (1 .. Len(ledger)) /\ IsFiniteSet(1 .. Len(ledger))
    BY <2>2, FS_Interval DEF Entries
  <2>4. IsFiniteSet(is)
    BY <2>3, FS_Subset
  <2> QED
    BY <1>1, <2>4, OldKept DEF Entries
<1>4. Cardinality(was) <= Cardinality(is) /\ Cardinality(was) \in Nat /\ Cardinality(is) \in Nat
  BY <1>3, FS_Subset, FS_CardinalityType
<1>5. Cardinality(was) <= 1
  BY <1>2, <1>4
<1> QED
  BY <1>5 DEF p

(* A void of a sale that was voided already returns its items again.       *)
LEMMA ReturnedTwice ==
  ASSUME NEW old, NEW new, NEW held, NEW s \in Sale, NEW lines, NEW loc,
         Publishes(old, new, held, "RETURN", s, lines, loc),
         SaleEntered(old, s), old[s].items = lines, old[s].status = "VOIDED",
         new[s].items = lines, ReturnedOnce(new)
  PROVE  Len(lines) = 0
<1> SUFFICES ASSUME Len(lines) # 0
             PROVE  FALSE
  OBVIOUS
<1> DEFINE p == lines[1].product
           is == Entries(new[p].ledger, "RETURN", s, 1)
           was == Entries(old[p].ledger, "RETURN", s, 1)
<1>1. 1 \in 1 .. Len(lines) /\ 1 \in DOMAIN lines /\ LedgersContinue(old, new)
      /\ Len(lines) \in Nat
  BY DEF Publishes
<1>2. p \in Product /\ \E e \in NewEntries(old, new, p) : new[p].ledger[e].item = 1
  BY <1>1, LineEntered DEF HasEntry
<1>3. was # {}
  BY <1>1 DEF SaleEntered
<1>4. new[p].ledger \in Seq(StockMovement) /\ old[p].ledger \in Seq(StockMovement)
  BY <1>1, <1>2 DEF LedgersContinue
<1>5. Cardinality(is) <= 1
  BY <1>1 DEF ReturnedOnce
<1> HIDE DEF p
<1>6. PICK e \in NewEntries(old, new, p) : new[p].ledger[e].item = 1
  BY <1>2
<1>7. PICK f \in was : TRUE
  BY <1>3
<1>8. e \in is
  <2>1. new[p].ledger[e].type = "RETURN" /\ new[p].ledger[e].sale = s
    BY <1>2, <1>6, NewFields
  <2> QED
    BY <1>1, <1>2, <1>6, <2>1, OldKept DEF Entries
<1>9. f \in is
  BY <1>1, <1>2, <1>7, OldKept DEF Entries
<1>10. e # f
  BY <1>4, <1>6, <1>7 DEF NewEntries, Entries
<1>11. IsFiniteSet(is)
  <2> DEFINE ledger == new[p].ledger
  <2>1. Len(ledger) \in Nat /\ DOMAIN ledger = 1 .. Len(ledger)
    BY <1>4
  <2>2. is \in SUBSET (1 .. Len(ledger)) /\ IsFiniteSet(1 .. Len(ledger))
    BY <2>1, FS_Interval DEF Entries
  <2> QED
    BY <2>2, FS_Subset
<1> HIDE DEF is
<1>12. Cardinality(is) \in Nat
  BY <1>11, FS_CardinalityType
<1>13. Cardinality(is) # 0
  BY <1>8, <1>11, FS_EmptySet
<1>14. Cardinality(is) = 1
  BY <1>5, <1>12, <1>13
<1>15. \E x : is = {x}
  BY <1>11, <1>14, FS_Singleton
<1> QED
  BY <1>8, <1>9, <1>10, <1>15

(* A checkout commits, and its sale stands; ...                            *)
LEMMA CheckoutStands ==
  ASSUME NEW old, NEW new, NEW s \in Sale, NEW held, UnitsStand(old),
         \A t \in Sale : UnitsOfSale(old, t) \subseteq Unit,
         \A t \in Sale \ {s} : new[t] = old[t],
         held = UnitsOfSale(new, s), NoUnitTwice(new[s].items, Len(new[s].items)),
         \A u \in held : old[u].status \in SELLABLE_UNIT_STATUSES /\ new[u].status = "SOLD",
         \A u \in Unit \ held : new[u] = old[u]
  PROVE  UnitsStand(new)
<1>1. \A t \in Sale \ {s} : UnitsOfSale(new, t) = UnitsOfSale(old, t)
                            /\ (Stands(new, t) <=> Stands(old, t))
  BY DEF UnitsOfSale, Stands
<1>2. \A t \in Sale : Stands(old, t) => held \cap UnitsOfSale(old, t) = {}
  BY DEF UnitsStand, SELLABLE_UNIT_STATUSES
<1>3. ASSUME NEW t \in Sale, NEW q \in Sale, t # q, Stands(new, t), Stands(new, q)
      PROVE  UnitsOfSale(new, t) \cap UnitsOfSale(new, q) = {}
  <2>1. CASE t # s /\ q # s
    BY <1>1, <1>3, <2>1 DEF UnitsStand
  <2>2. CASE t = s
    BY <1>1, <1>2, <1>3, <2>2
  <2>3. CASE q = s
    BY <1>1, <1>2, <1>3, <2>3
  <2> QED
    BY <2>1, <2>2, <2>3
<1>4. ASSUME NEW t \in Sale, Stands(new, t)
      PROVE  /\ NoUnitTwice(new[t].items, Len(new[t].items))
             /\ \A u \in UnitsOfSale(new, t) : new[u].status = "SOLD"
  <2>1. CASE t = s
    BY <2>1
  <2>2. CASE t # s
    <3>1. Stands(old, t) /\ UnitsOfSale(new, t) = UnitsOfSale(old, t) /\ new[t] = old[t]
      BY <1>1, <1>4, <2>2
    <3>2. /\ NoUnitTwice(old[t].items, Len(old[t].items))
          /\ \A u \in UnitsOfSale(old, t) : old[u].status = "SOLD" /\ u \in Unit \ held
      BY <1>2, <3>1 DEF UnitsStand
    <3> QED
      BY <3>1, <3>2
  <2> QED
    BY <2>1, <2>2
<1> QED
  BY <1>3, <1>4 DEF UnitsStand

(* ... a void commits, and its sale no longer does.                        *)
LEMMA VoidStands ==
  ASSUME NEW old, NEW new, NEW s \in Sale, NEW held, UnitsStand(old),
         \A t \in Sale : UnitsOfSale(old, t) \subseteq Unit,
         \A t \in Sale \ {s} : new[t] = old[t], ~ Stands(new, s),
         held \subseteq UnitsOfSale(old, s), Stands(old, s) \/ held = {},
         \A u \in Unit \ held : new[u] = old[u]
  PROVE  UnitsStand(new)
<1>1. ASSUME NEW t \in Sale, Stands(new, t)
      PROVE  /\ t # s /\ new[t] = old[t] /\ Stands(old, t)
             /\ UnitsOfSale(new, t) = UnitsOfSale(old, t)
             /\ \A u \in UnitsOfSale(old, t) : u \in Unit \ held
  <2>1. t # s /\ new[t] = old[t]
    BY <1>1
  <2>2. Stands(old, t) /\ UnitsOfSale(new, t) = UnitsOfSale(old, t)
    BY <1>1, <2>1 DEF Stands, UnitsOfSale
  <2>3. held \cap UnitsOfSale(old, t) = {}
    BY <2>1, <2>2 DEF UnitsStand
  <2> QED
    BY <2>1, <2>2, <2>3
<1>2. ASSUME NEW t \in Sale, NEW q \in Sale, t # q, Stands(new, t), Stands(new, q)
      PROVE  UnitsOfSale(new, t) \cap UnitsOfSale(new, q) = {}
  BY <1>1, <1>2 DEF UnitsStand
<1>3. ASSUME NEW t \in Sale, Stands(new, t)
      PROVE  /\ NoUnitTwice(new[t].items, Len(new[t].items))
             /\ \A u \in UnitsOfSale(new, t) : new[u].status = "SOLD"
  BY <1>1, <1>3 DEF UnitsStand
<1> QED
  BY <1>2, <1>3 DEF UnitsStand

-----------------------------------------------------------------------------
(* What the commit of a checkout publishes.                                *)
LEMMA CheckoutPublishes ==
  ASSUME DbInv, PosInv, SalesInv, NEW r \in Checkouts, CommitCheckout(r)
  PROVE  LET c == checkout[r]
             s == SaleOf[r]
         IN  /\ Publishes(committed, committed', Held(r), "SALE", s, c.lines, c.loc)
             /\ committed[s] = [status |-> "NONE", items |-> <<>>]
             /\ committed'[s] = [status |-> "COMPLETED", items |-> c.lines]
             /\ c.next - 1 = Len(c.lines)
<1> DEFINE c == checkout[r]
           s == SaleOf[r]
           lines == c.lines
           loc == c.loc
<1>1. /\ c.pc = "sell" /\ c.next > Len(lines) /\ Len(lines) \in Nat /\ c.next \in Nat
      /\ lines \in Seq(SaleLine) /\ s \in Sale /\ r \in Req /\ Commit(r)
  BY CheckoutFields DEF CommitCheckout
<1>2. /\ committed[s] = [status |-> "NONE", items |-> <<>>]
      /\ holder[s] = r /\ pending[s] = [status |-> "COMPLETED", items |-> lines]
      /\ EnteredUpTo(committed, pending, Held(r), "SALE", s, lines, loc, c.next - 1)
  BY <1>1 DEF SalesInv, SalesConsistent, CheckoutConsistent
<1>3. c.next - 1 = Len(lines)
  <2>1. c.next - 1 <= Len(lines)
    BY <1>2 DEF EnteredUpTo
  <2> QED
    BY <1>1, <2>1
<1>4. \A t \in Sale : holder[t] = r => t = s
  BY PosAssumption, RowAssumption DEF SalesInv, SalesConsistent
<1>5. s \in Row
  BY <1>1 DEF Row
<1> HIDE DEF lines, loc, s
<1>6. EnteredUpTo(committed, pending, Held(r), "SALE", s, lines, loc, Len(lines))
  BY <1>2, <1>3
<1>7. Publishes(committed, committed', Held(r), "SALE", s, lines, loc)
      /\ committed'[s] = pending[s]
  BY <1>1, <1>2, <1>4, <1>5, <1>6, CommitPublishes
<1> QED
  BY <1>2, <1>3, <1>7 DEF lines, loc, s

(* And that of a void.                                                     *)
LEMMA VoidPublishes ==
  ASSUME DbInv, PosInv, SalesInv, NEW r \in Voids, CommitVoid(r)
  PROVE  LET v == void[r]
             s == VoidTarget[r]
         IN  /\ Publishes(committed, committed', Held(r), "RETURN", s, v.lines, v.loc)
             /\ committed[s].status \in {"COMPLETED", "VOIDED"} /\ committed[s].items = v.lines
             /\ committed'[s] = [status |-> "VOIDED", items |-> v.lines]
             /\ v.next - 1 = Len(v.lines)
<1> DEFINE v == void[r]
           s == VoidTarget[r]
           lines == v.lines
           loc == v.loc
<1>1. /\ v.pc = "commit" /\ Len(lines) \in Nat /\ v.next \in Nat
      /\ lines \in Seq(SaleLine) /\ s \in Sale /\ r \in Req /\ Commit(r)
  BY VoidFields DEF CommitVoid
<1>2. /\ committed[s].status \in {"COMPLETED", "VOIDED"} /\ committed[s].items = lines
      /\ EnteredUpTo(committed, pending, Held(r), "RETURN", s, lines, loc, v.next - 1)
      /\ v.next > Len(lines)
      /\ holder[s] = r /\ pending[s] = [status |-> "VOIDED", items |-> lines]
  BY <1>1 DEF SalesInv, SalesConsistent, VoidConsistent
<1>3. v.next - 1 = Len(lines)
  <2>1. v.next - 1 <= Len(lines)
    BY <1>2 DEF EnteredUpTo
  <2> QED
    BY <1>1, <1>2, <2>1
<1>4. \A t \in Sale : holder[t] = r => t = s
  BY PosAssumption, RowAssumption DEF SalesInv, SalesConsistent
<1>5. s \in Row
  BY <1>1 DEF Row
<1> HIDE DEF lines, loc, s
<1>6. EnteredUpTo(committed, pending, Held(r), "RETURN", s, lines, loc, Len(lines))
  BY <1>2, <1>3
<1>7. Publishes(committed, committed', Held(r), "RETURN", s, lines, loc)
      /\ committed'[s] = pending[s]
  BY <1>1, <1>2, <1>4, <1>5, <1>6, CommitPublishes, ZenonT(30)
<1> QED
  BY <1>2, <1>3, <1>7 DEF lines, loc, s

(* Where nothing came back twice, nothing had come back twice before.      *)
LEMMA VoidedOnceBefore ==
  ASSUME DbInv, NEW held, NEW type, NEW s, NEW lines, NEW loc,
         Publishes(committed, committed', held, type, s, lines, loc),
         committed[s].items = committed'[s].items \/ committed[s].items = <<>>,
         VoidedOnce'
  PROVE  VoidedOnce
<1>1. ReturnedOnce(committed')
  BY DEF VoidedOnce, ReturnedOnce
<1>2. \A t \in Sale : committed[t].items \in Seq(SaleLine)
  BY DEF DbInv, TypeOKDb, DbTypeOK, SaleRow
<1>3. LedgersContinue(committed, committed')
      /\ \A t \in Sale : committed[t].items = committed'[t].items \/ committed[t].items = <<>>
  BY DEF Publishes
<1>4. ReturnedOnce(committed)
  BY <1>1, <1>2, <1>3, OnceBefore
<1> QED
  BY <1>4 DEF VoidedOnce, ReturnedOnce

(* What is left to show of the units when r commits.                       *)
LEMMA UnitsPublished ==
  ASSUME DbInv, DbInv', UnitsConsistent, NEW r \in PosReq, OthersStay(r), MineFit(r), Commit(r),
         NEW s \in Sale, \A t \in Sale \ {s} : committed'[t] = committed[t],
         \A i \in 1 .. Len(committed'[s].items) : FitsProduct(committed'[s].items[i]),
         VoidedOnce' => UnitsStand(committed')
  PROVE  UnitsConsistent'
<1>1. \A u \in Unit : holder'[u] # r
  BY RowAssumption, PosAssumption DEF Commit, Released, Row, PosReq
<1>2. /\ \A q \in Checkouts : CheckoutUnits(q)'
      /\ \A q \in Voids : VoidUnits(q)'
      /\ \A u \in Unit : holder'[u] # NoReq => holder'[ProductOf[u]] = holder'[u]
  BY <1>1, UnitsOfOthers
<1>3. \A t \in Sale : \A i \in 1 .. Len(committed'[t].items) : FitsProduct(committed'[t].items[i])
  BY DEF UnitsConsistent
<1>4. (DbInv => (SoldUnitsStand <=> UnitsStand(committed)))'
  BY StandInTables, PTL
<1>5. VoidedOnce' => SoldUnitsStand'
  BY <1>4
<1> QED
  BY <1>2, <1>3, <1>5 DEF UnitsConsistent

(* The units a commit publishes are those the request held.                *)
LEMMA UnitsCommitted ==
  ASSUME NEW r \in PosReq, Commit(r)
  PROVE  /\ \A u \in Unit \ HeldUnits(r) : committed'[u] = committed[u]
         /\ \A u \in HeldUnits(r) : committed'[u] = pending[u]
         /\ HeldUnits(r)' = {}
BY RowAssumption, PosAssumption DEF Commit, Released, Row, PosReq, HeldUnits

LEMMA SaleUnitsType ==
  ASSUME DbInv, NEW t \in Sale
  PROVE  UnitsOfSale(committed, t) \subseteq Unit
<1>1. committed[t].items \in Seq(SaleLine)
  BY DEF DbInv, TypeOKDb, DbTypeOK, SaleRow
<1>2. Len(committed[t].items) \in 0 .. Len(committed[t].items)
  BY <1>1
<1> QED
  BY <1>1, <1>2, UnitsOfType DEF UnitsOfSale

LEMMA CommitCheckoutUnits ==
  ASSUME DbInv, DbInv', PosInv, SalesInv, UnitsConsistent, NEW r \in Checkouts, CommitCheckout(r)
  PROVE  UnitsConsistent'
<1> DEFINE c == checkout[r]
           s == SaleOf[r]
           held == HeldUnits(r)
<1>1. /\ c.pc = "sell" /\ Commit(r) /\ EndCheckout(r, "ok") /\ UNCHANGED void
      /\ r \in PosReq /\ r \notin Voids /\ s \in Sale /\ c.lines \in Seq(SaleLine)
  BY PosAssumption, CheckoutFields DEF CommitCheckout, PosReq
<1>2. /\ Publishes(committed, committed', Held(r), "SALE", s, c.lines, c.loc)
      /\ committed[s] = [status |-> "NONE", items |-> <<>>]
      /\ committed'[s] = [status |-> "COMPLETED", items |-> c.lines]
      /\ c.next - 1 = Len(c.lines)
  BY CheckoutPublishes
<1>3. /\ \A i \in 1 .. Len(c.lines) : FitsProduct(c.lines[i])
      /\ held = UnitsOf(c.lines, Len(c.lines))
      /\ NoUnitTwice(c.lines, Len(c.lines))
      /\ \A u \in held : /\ committed[u].status \in SELLABLE_UNIT_STATUSES
                         /\ pending[u].status = "SOLD"
  BY <1>1, <1>2 DEF UnitsConsistent, CheckoutUnits
<1>4. checkout'[r].pc = "ok" /\ OthersStay(r)
  BY <1>1 DEF EndCheckout, IdleCheckout, PosInv, TypeOKPos, OthersStay
<1>5. /\ \A u \in Unit \ held : committed'[u] = committed[u]
      /\ \A u \in held : committed'[u] = pending[u]
      /\ HeldUnits(r)' = {}
  BY <1>1, UnitsCommitted
<1>6. CheckoutUnits(r)'
  BY <1>4, <1>5 DEF CheckoutUnits
<1>7. MineFit(r)
  BY <1>1, <1>6 DEF MineFit
<1>8. \A t \in Sale \ {s} : committed'[t] = committed[t]
  BY <1>2 DEF Publishes
<1>9. ASSUME VoidedOnce'
      PROVE  UnitsStand(committed')
  <2>1. VoidedOnce
    BY <1>2, <1>9, VoidedOnceBefore
  <2>2. UnitsStand(committed)
    BY <2>1, StandInTables DEF UnitsConsistent
  <2>3. held = UnitsOfSale(committed', s)
        /\ NoUnitTwice(committed'[s].items, Len(committed'[s].items))
    BY <1>2, <1>3 DEF UnitsOfSale
  <2> HIDE DEF held, s, c
  <2>4. \A u \in held : committed[u].status \in SELLABLE_UNIT_STATUSES
                        /\ committed'[u].status = "SOLD"
    BY <1>3, <1>5
  <2> QED
    BY <1>1, <1>5, <1>8, <2>2, <2>3, <2>4, SaleUnitsType, CheckoutStands
<1>10. \A i \in 1 .. Len(committed'[s].items) : FitsProduct(committed'[s].items[i])
  BY <1>2, <1>3
<1> HIDE DEF s
<1> QED
  BY <1>1, <1>4, <1>7, <1>8, <1>9, <1>10, UnitsPublished

(* A void whose sale has been voided meanwhile returns it a second time,   *)
(* or it has nothing to return.                                            *)
LEMMA VoidOfStanding ==
  ASSUME DbInv, PosInv, SalesInv, NEW r \in Voids, CommitVoid(r), VoidedOnce'
  PROVE  /\ VoidedOnce
         /\ Stands(committed, VoidTarget[r]) \/ Len(void[r].lines) = 0
<1> DEFINE v == void[r]
           s == VoidTarget[r]
<1>1. /\ Publishes(committed, committed', Held(r), "RETURN", s, v.lines, v.loc)
      /\ committed[s].status \in {"COMPLETED", "VOIDED"} /\ committed[s].items = v.lines
      /\ committed'[s] = [status |-> "VOIDED", items |-> v.lines]
  BY VoidPublishes
<1>2. s \in Sale /\ SaleEntered(committed, s)
  BY VoidFields DEF SalesInv, SaleBooked
<1>3. VoidedOnce
  BY <1>1, VoidedOnceBefore
<1>4. ReturnedOnce(committed')
  BY DEF VoidedOnce, ReturnedOnce
<1>5. committed'[s].items = v.lines
  BY <1>1
<1> HIDE DEF v, s
<1>6. committed[s].status = "VOIDED" => Len(v.lines) = 0
  BY <1>1, <1>2, <1>4, <1>5, ReturnedTwice
<1> QED
  BY <1>1, <1>3, <1>6 DEF v, s, Stands

LEMMA CommitVoidUnits ==
  ASSUME DbInv, DbInv', PosInv, SalesInv, UnitsConsistent, NEW r \in Voids, CommitVoid(r)
  PROVE  UnitsConsistent'
<1> DEFINE v == void[r]
           s == VoidTarget[r]
           held == HeldUnits(r)
<1>1. /\ v.pc = "commit" /\ Commit(r) /\ EndVoid(r, "ok") /\ UNCHANGED checkout
      /\ r \in PosReq /\ r \notin Checkouts /\ s \in Sale /\ v.lines \in Seq(SaleLine)
  BY PosAssumption, VoidFields DEF CommitVoid, PosReq
<1>2. /\ Publishes(committed, committed', Held(r), "RETURN", s, v.lines, v.loc)
      /\ committed[s].items = v.lines
      /\ committed'[s] = [status |-> "VOIDED", items |-> v.lines]
      /\ v.next - 1 = Len(v.lines)
  BY VoidPublishes
<1>3. held = UnitsOf(v.lines, Len(v.lines))
  BY <1>1, <1>2 DEF UnitsConsistent, VoidUnits
<1>4. void'[r].pc = "ok" /\ OthersStay(r)
  BY <1>1 DEF EndVoid, IdleVoid, PosInv, TypeOKPos, OthersStay
<1>5. /\ \A u \in Unit \ held : committed'[u] = committed[u]
      /\ HeldUnits(r)' = {}
  BY <1>1, UnitsCommitted
<1>6. VoidUnits(r)'
  BY <1>4, <1>5 DEF VoidUnits
<1>7. MineFit(r)
  BY <1>1, <1>6 DEF MineFit
<1>8. \A t \in Sale \ {s} : committed'[t] = committed[t]
  BY <1>2 DEF Publishes
<1>9. ASSUME VoidedOnce'
      PROVE  UnitsStand(committed')
  <2>1. VoidedOnce /\ (Stands(committed, s) \/ Len(v.lines) = 0)
    BY <1>9, VoidOfStanding
  <2>2. UnitsStand(committed)
    BY <2>1, StandInTables DEF UnitsConsistent
  <2>3. held = UnitsOfSale(committed, s) /\ (Stands(committed, s) \/ held = {})
    BY <1>2, <1>3, <2>1, UnitsOfNone DEF UnitsOfSale
  <2>4. ~ Stands(committed', s)
    BY <1>2 DEF Stands
  <2> HIDE DEF held, s, v
  <2> QED
    BY <1>1, <1>5, <1>8, <2>2, <2>3, <2>4, SaleUnitsType, VoidStands
<1>10. \A i \in 1 .. Len(committed'[s].items) : FitsProduct(committed'[s].items[i])
  BY <1>1, <1>2 DEF UnitsConsistent
<1> HIDE DEF s
<1> QED
  BY <1>1, <1>4, <1>7, <1>8, <1>9, <1>10, UnitsPublished

(* Every step of the point of sale keeps the units consistent.             *)
LEMMA PosNextUnits ==
  ASSUME DbInv, DbInv', PosInv, SalesInv, UnitsConsistent, PosNext
  PROVE  UnitsConsistent'
<1>1. ASSUME NEW r \in Checkouts, BeginCheckout(r) \/ CheckoutStep(r) \/ AbortCheckout(r)
      PROVE  UnitsConsistent'
  BY <1>1, BeginCheckoutUnits, PrepareSaleLineUnits, CreateSaleUnits, SellLineUnits,
     CommitCheckoutUnits, AbortCheckoutUnits DEF CheckoutStep
<1>2. ASSUME NEW r \in Voids, ReadSale(r) \/ VoidStep(r) \/ AbortVoid(r)
      PROVE  UnitsConsistent'
  BY <1>2, ReadSaleUnits, RestoreLineUnits, MarkVoidedUnits, CommitVoidUnits,
     AbortVoidUnits DEF VoidStep
<1> QED
  BY <1>1, <1>2 DEF PosNext

LEMMA InitUnitsOK ==
  ASSUME InitDb, InitPosLocals
  PROVE  UnitsConsistent
<1>1. /\ \A x \in Row : holder[x] = NoReq
      /\ \A s \in Sale : committed[s] = [status |-> "NONE", items |-> <<>>]
  BY RowAssumption DEF InitDb, OpeningRow, Row
<1>2. \A r \in PosReq : r # NoReq
  BY PosAssumption, RowAssumption DEF PosReq
<1>3. \A r \in PosReq : HeldUnits(r) = {}
  BY <1>1, <1>2 DEF HeldUnits, Row
<1>4. \A r \in Checkouts : CheckoutUnits(r)
  BY <1>3 DEF CheckoutUnits, InitPosLocals, IdleCheckout, PosReq
<1>5. \A r \in Voids : VoidUnits(r)
  BY <1>3 DEF VoidUnits, InitPosLocals, IdleVoid, PosReq
<1>6. SoldUnitsStand
  BY <1>1 DEF SoldUnitsStand, UnitSoldOnce
<1> QED
  BY <1>1, <1>4, <1>5, <1>6 DEF UnitsConsistent, Row

(* One step of the point of sale by itself, with its stutters.             *)
LEMMA PosUnitsStep ==
  ASSUME DbInv, DbInv', PosInv, SalesInv, UnitsConsistent, [PosNext \/ PosDone]_posVars
  PROVE  UnitsConsistent'
<1>1. CASE PosNext
  BY <1>1, PosNextUnits
<1>2. CASE UNCHANGED posVars
  <2>1. UNCHANGED <<committed, pending, holder, checkout, void>>
    BY <1>2 DEF posVars
  <2>2. /\ \A r \in Checkouts : CheckoutUnits(r)' <=> CheckoutUnits(r)
        /\ \A r \in Voids : VoidUnits(r)' <=> VoidUnits(r)
    BY <2>1 DEF CheckoutUnits, VoidUnits, HeldUnits
  <2>3. (VoidedOnce' <=> VoidedOnce) /\ (SoldUnitsStand' <=> SoldUnitsStand)
    BY <2>1 DEF VoidedOnce, SoldUnitsStand, UnitSoldOnce
  <2> QED
    BY <2>1, <2>2, <2>3 DEF UnitsConsistent
<1> QED
  BY <1>1, <1>2 DEF PosDone

LEMMA PosUnitsInvariant == PosSpec => [](DbInv /\ PosInv /\ SalesInv /\ UnitsConsistent)
<1>1. InitPos => UnitsConsistent
  BY InitUnitsOK DEF InitPos
<1>2. DbInv /\ PosInv /\ SalesInv /\ DbInv' /\ UnitsConsistent /\ [PosNext \/ PosDone]_posVars
        => UnitsConsistent'
  <2> SUFFICES ASSUME DbInv, DbInv', PosInv, SalesInv, UnitsConsistent,
                      [PosNext \/ PosDone]_posVars
               PROVE  UnitsConsistent'
    OBVIOUS
  <2> QED
    BY PosUnitsStep
<1> QED
  BY <1>1, <1>2, PosSpecInvariant, PTL DEF PosSpec

(* UnitSoldOnce of every instance of the point of sale: no unit is on two  *)
(* sales that stand, unless some sale was voided twice.                    *)
THEOREM UnitsSoldOnce == PosSpec => [](VoidedOnce => UnitSoldOnce)
<1>1. UnitsConsistent => (VoidedOnce => UnitSoldOnce)
  BY DEF UnitsConsistent, SoldUnitsStand
<1> QED
  BY <1>1, PosUnitsInvariant, PTL

-----------------------------------------------------------------------------
(* Where each sale is named by one void request, what comes back comes     *)
(* back once.                                                              *)

(* What is published of a sale that has not been voided keeps this true.   *)
LEMMA OnceAfter ==
  ASSUME NEW old, NEW new, NEW held, NEW type, NEW s \in Sale, NEW lines, NEW loc,
         Publishes(old, new, held, type, s, lines, loc), ReturnedOnce(old),
         SaleEntered(old, s), old[s].status # "VOIDED",
         \A t \in Sale : old[t].items \in Seq(SaleLine),
         old[s].items = lines \/ old[s].items = <<>>, new[s].items = lines
  PROVE  ReturnedOnce(new)
<1>1. LedgersContinue(old, new) /\ lines \in Seq(SaleLine)
      /\ \A t \in Sale \ {s} : new[t] = old[t]
  BY DEF Publishes
<1> SUFFICES ASSUME NEW t \in Sale, NEW i \in DOMAIN new[t].items
             PROVE  Cardinality(Entries(new[new[t].items[i].product].ledger, "RETURN", t, i)) <= 1
  BY DEF ReturnedOnce
<1> DEFINE p == new[t].items[i].product
           is == Entries(new[p].ledger, "RETURN", t, i)
           was == Entries(old[p].ledger, "RETURN", t, i)
<1>2. p \in Product
  <2>1. new[t].items \in Seq(SaleLine)
    BY <1>1
  <2>2. i \in 1 .. Len(new[t].items)
    BY <2>1
  <2> QED
    BY <2>1, <2>2, LineType
<1>3. CASE t # s
  <2>1. old[t].items = new[t].items
    BY <1>1, <1>3
  <2>2. Cardinality(was) <= 1
    BY <2>1 DEF ReturnedOnce
  <2> HIDE DEF p
  <2>3. \A e \in NewEntries(old, new, p) : new[p].ledger[e].sale # t
    BY <1>2, <1>3, NewFields
  <2>4. SameEntries(old, new, p, "RETURN", t, i)
    BY <1>1, <1>2, <2>3, EntriesKept
  <2>5. Cardinality(is) <= 1
    BY <2>2, <2>4 DEF SameEntries
  <2> QED
    BY <2>5 DEF p
<1>4. CASE t = s
  <2>1. \A e \in was : FALSE
    <3>1. CASE old[s].items = lines
      BY <1>4, <3>1 DEF SaleEntered
    <3>2. CASE old[s].items = <<>>
      <4>1. \A e \in DOMAIN old[p].ledger : old[p].ledger[e].sale # s
        BY <1>2, <3>2 DEF SaleEntered
      <4> QED
        BY <1>4, <4>1 DEF Entries
    <3> QED
      BY <3>1, <3>2
  <2> HIDE DEF p
  <2>2. \A e \in is : e \in NewEntries(old, new, p)
    BY <1>1, <1>2, <2>1, OldOrNew DEF Entries
  <2>3. \A e, f \in is : e = f
    BY <1>2, <2>2, NewFits DEF Entries
  <2>4. is = {} \/ \E e : is = {e}
    BY <2>3
  <2> HIDE DEF is
  <2>5. Cardinality(is) = 0 \/ Cardinality(is) = 1
    BY <2>4, FS_EmptySet, FS_Singleton
  <2> QED
    BY <2>5 DEF is, p
<1> QED
  BY <1>3, <1>4

LEMMA VoidsStandingKept ==
  ASSUME OneVoidPerSale, DbInv, PosInv, SalesInv, VoidsStanding, VoidedOnce, PosNext
  PROVE  VoidsStanding' /\ VoidedOnce'
<1>1. ASSUME committed' = committed,
             \A q \in Voids : void'[q].pc \in {"restore", "commit"} =>
                \/ void[q].pc \in {"restore", "commit"}
                \/ committed[VoidTarget[q]].status = "COMPLETED"
      PROVE  VoidsStanding' /\ VoidedOnce'
  BY <1>1 DEF VoidsStanding, VoidedOnce
<1>2. ReturnedOnce(committed) /\ \A t \in Sale : committed[t].items \in Seq(SaleLine)
  BY DEF VoidedOnce, ReturnedOnce, DbInv, TypeOKDb, DbTypeOK, SaleRow
<1>3. ASSUME NEW r \in Checkouts,
             BeginCheckout(r) \/ PrepareSaleLine(r) \/ CreateSale(r) \/ SellLine(r) \/ AbortCheckout(r)
      PROVE  VoidsStanding' /\ VoidedOnce'
  <2>1. committed' = committed /\ void' = void
    BY <1>3 DEF BeginCheckout, PrepareSaleLine, CreateSale, SellLine, AbortCheckout,
                Stage, Rollback, dbVars
  <2> QED
    BY <1>1, <2>1
<1>4. ASSUME NEW r \in Checkouts, CommitCheckout(r)
      PROVE  VoidsStanding' /\ VoidedOnce'
  <2> DEFINE s == SaleOf[r]
             lines == checkout[r].lines
  <2>1. /\ Publishes(committed, committed', Held(r), "SALE", s, lines, checkout[r].loc)
        /\ committed[s] = [status |-> "NONE", items |-> <<>>]
        /\ committed'[s] = [status |-> "COMPLETED", items |-> lines]
    BY <1>4, CheckoutPublishes
  <2>2. s \in Sale /\ SaleEntered(committed, s) /\ void' = void
    BY <1>4, CheckoutFields DEF SalesInv, SaleBooked, CommitCheckout
  <2>3. \A t \in Sale \ {s} : committed'[t] = committed[t]
    BY <2>1 DEF Publishes
  <2>4. VoidsStanding'
    BY <2>1, <2>2, <2>3, VoidFields DEF VoidsStanding
  <2>5. committed[s].status # "VOIDED" /\ committed[s].items = <<>> /\ committed'[s].items = lines
    BY <2>1
  <2> HIDE DEF s, lines
  <2>6. ReturnedOnce(committed')
    BY <1>2, <2>1, <2>2, <2>5, OnceAfter
  <2> QED
    BY <2>4, <2>6 DEF VoidedOnce, ReturnedOnce
<1>5. ASSUME NEW r \in Voids, ReadSale(r)
      PROVE  VoidsStanding' /\ VoidedOnce'
  <2>1. committed' = committed /\ \A q \in Voids \ {r} : void'[q] = void[q]
    BY <1>5 DEF ReadSale, EndVoid, dbVars, PosInv, TypeOKPos
  <2>2. void'[r].pc \in {"restore", "commit"} => committed[VoidTarget[r]].status = "COMPLETED"
    BY <1>5 DEF ReadSale, EndVoid, IdleVoid, Voidable, PosInv, TypeOKPos
  <2> QED
    BY <1>1, <2>1, <2>2
<1>6. ASSUME NEW r \in Voids, RestoreLine(r)
      PROVE  VoidsStanding' /\ VoidedOnce'
  <2>1. committed' = committed /\ OthersStay(r) /\ void[r].pc = "restore"
    BY <1>6, LineRestored DEF MovesUnit, RestoreLine
  <2> QED
    BY <1>1, <2>1 DEF OthersStay
<1>7. ASSUME NEW r \in Voids, MarkVoided(r)
      PROVE  VoidsStanding' /\ VoidedOnce'
  <2>1. committed' = committed /\ \A q \in Voids \ {r} : void'[q] = void[q]
    BY <1>7 DEF MarkVoided, Stage, PosInv, TypeOKPos
  <2>2. void[r].pc = "restore"
    BY <1>7 DEF MarkVoided
  <2> QED
    BY <1>1, <2>1, <2>2
<1>8. ASSUME NEW r \in Voids, AbortVoid(r)
      PROVE  VoidsStanding' /\ VoidedOnce'
  <2>1. committed' = committed /\ \A q \in Voids \ {r} : void'[q] = void[q]
    BY <1>8 DEF AbortVoid, EndVoid, Rollback, PosInv, TypeOKPos
  <2>2. void'[r].pc = "failed"
    BY <1>8 DEF AbortVoid, EndVoid, IdleVoid, PosInv, TypeOKPos
  <2> QED
    BY <1>1, <2>1, <2>2
<1>9. ASSUME NEW r \in Voids, CommitVoid(r)
      PROVE  VoidsStanding' /\ VoidedOnce'
  <2> DEFINE s == VoidTarget[r]
             lines == void[r].lines
  <2>1. /\ Publishes(committed, committed', Held(r), "RETURN", s, lines, void[r].loc)
        /\ committed[s].items = lines
        /\ committed'[s] = [status |-> "VOIDED", items |-> lines]
    BY <1>9, VoidPublishes
  <2>2. s \in Sale /\ SaleEntered(committed, s) /\ committed[s].status = "COMPLETED"
    BY <1>9, VoidFields DEF SalesInv, SaleBooked, CommitVoid, VoidsStanding
  <2>3. \A t \in Sale \ {s} : committed'[t] = committed[t]
    BY <2>1 DEF Publishes
  <2>4. void'[r].pc = "ok" /\ \A q \in Voids \ {r} : void'[q] = void[q] /\ VoidTarget[q] # s
    BY <1>9 DEF CommitVoid, EndVoid, IdleVoid, PosInv, TypeOKPos, OneVoidPerSale
  <2>5. VoidsStanding'
    BY <2>3, <2>4, VoidFields DEF VoidsStanding
  <2>6. committed[s].status # "VOIDED" /\ committed'[s].items = lines
    BY <2>1, <2>2
  <2> HIDE DEF s, lines
  <2>7. ReturnedOnce(committed')
    BY <1>2, <2>1, <2>2, <2>6, OnceAfter
  <2> QED
    BY <2>5, <2>7 DEF VoidedOnce, ReturnedOnce
<1> QED
  BY <1>3, <1>4, <1>5, <1>6, <1>7, <1>8, <1>9 DEF PosNext, CheckoutStep, VoidStep

(* Other handlers void nothing.                                            *)
LEMMA ElsewhereVoids ==
  ASSUME DbInv, DbInv', LedgersGrow, Elsewhere(PosReq), UNCHANGED posLocals,
         VoidsStanding, VoidedOnce
  PROVE  VoidsStanding' /\ VoidedOnce'
<1>1. void' = void /\ \A s \in Sale : committed'[s] = committed[s]
  BY DEF Elsewhere, posLocals
<1>2. VoidsStanding'
  <2>1. \A r \in Voids : VoidTarget[r] \in Sale
    BY PosAssumption
  <2> QED
    BY <1>1, <2>1 DEF VoidsStanding
<1>3. ASSUME NEW s \in Sale, NEW i \in DOMAIN committed[s].items
      PROVE  LET ledger == committed'[committed[s].items[i].product].ledger
             IN  Cardinality(Entries(ledger, "RETURN", s, i)) <= 1
  <2> DEFINE p == committed[s].items[i].product
  <2>1. p \in Product
    <3>1. committed[s].items \in Seq(SaleLine) /\ i \in 1 .. Len(committed[s].items)
      BY DEF DbInv, TypeOKDb, DbTypeOK, SaleRow
    <3> QED
      BY <3>1, LineType
  <2>2. Cardinality(Entries(committed[p].ledger, "RETURN", s, i)) <= 1
    BY DEF VoidedOnce
  <2> HIDE DEF p
  <2>3. \A e \in NewEntries(committed, committed', p) : committed'[p].ledger[e].sale # s
    BY <2>1, ElsewhereEntries, RowAssumption
  <2>4. SameEntries(committed, committed', p, "RETURN", s, i)
    BY <2>1, <2>3, ElsewhereEntries, EntriesKept
  <2> QED
    BY <2>2, <2>4 DEF SameEntries, p
<1> QED
  BY <1>1, <1>2, <1>3 DEF VoidedOnce

LEMMA InitVoidsOK ==
  ASSUME InitDb, InitPosLocals
  PROVE  VoidsStanding /\ VoidedOnce
<1>1. \A s \in Sale : committed[s] = [status |-> "NONE", items |-> <<>>]
  BY RowAssumption DEF InitDb, OpeningRow, Row
<1> QED
  BY <1>1 DEF VoidsStanding, VoidedOnce, InitPosLocals, IdleVoid

(* VoidedOnce of every instance whose sales are named by one void request  *)
(* each: the double return that MCPosDoubleVoid shows needs two.           *)
THEOREM OneVoidReturnsOnce == ASSUME OneVoidPerSale PROVE PosSpec => []VoidedOnce
<1>1. InitPos => VoidsStanding /\ VoidedOnce
  BY InitVoidsOK DEF InitPos
<1>2. DbInv /\ PosInv /\ SalesInv /\ VoidsStanding /\ VoidedOnce /\ [PosNext \/ PosDone]_posVars
        => VoidsStanding' /\ VoidedOnce'
  <2> SUFFICES ASSUME DbInv, PosInv, SalesInv, VoidsStanding, VoidedOnce,
                      [PosNext \/ PosDone]_posVars
               PROVE  VoidsStanding' /\ VoidedOnce'
    OBVIOUS
  <2>1. CASE PosNext
    BY <2>1, VoidsStandingKept
  <2>2. CASE UNCHANGED posVars
    BY <2>2 DEF posVars, VoidsStanding, VoidedOnce
  <2> QED
    BY <2>1, <2>2 DEF PosDone
<1> QED
  BY <1>1, <1>2, PosSpecInvariant, PTL DEF PosSpec

(* UnitSoldOnce with no condition, of the instances in which each sale is  *)
(* named by one void request.                                              *)
THEOREM UnitsSoldOnceOnly == ASSUME OneVoidPerSale PROVE PosSpec => []UnitSoldOnce
BY UnitsSoldOnce, OneVoidReturnsOnce, PTL

-----------------------------------------------------------------------------
(* The balance of a serialized product and the number of its units:        *)
(* QuantityCountsUnits and OffersMatchTill with StockInStep, through every *)
(* step of a checkout or a void.                                           *)

CountedIn(version, p) ==
  {u \in Unit : ProductOf[u] = p /\ version[u].status \in STOCK_COUNTED_STATUSES}

(* The product p and its units are the same in both tables, ...            *)
SameStock(old, new, p) ==
  new[p] = old[p] /\ \A u \in Unit : ProductOf[u] = p => new[u] = old[u]

LEMMA SameStockInStep ==
  ASSUME NEW old, NEW new, NEW p, SameStock(old, new, p)
  PROVE  InStep(new, p) <=> InStep(old, p)
<1>1. CountedIn(new, p) = CountedIn(old, p) /\ new[p] = old[p]
  BY DEF SameStock, CountedIn
<1> QED
  BY <1>1 DEF InStep, CountedIn

(* ... or one unit less counts, or one more.                               *)
OtherUnitsSame(old, new, p, u) ==
  \A w \in Unit \ {u} : ProductOf[w] = p => new[w] = old[w]

LEMMA UnitLeaves ==
  ASSUME IsFiniteSet(Unit), NEW old, NEW new, NEW p, NEW u \in Unit, ProductOf[u] = p,
         OtherUnitsSame(old, new, p, u), InStep(old, p),
         old[u].status \in STOCK_COUNTED_STATUSES, new[u].status \notin STOCK_COUNTED_STATUSES,
         new[p].quantityOnHand = old[p].quantityOnHand + -1
  PROVE  InStep(new, p)
<1>1. CountedIn(new, p) = CountedIn(old, p) \ {u} /\ u \in CountedIn(old, p)
  BY DEF CountedIn, OtherUnitsSame
<1>2. CountedIn(old, p) \in SUBSET Unit
  BY DEF CountedIn
<1>3. IsFiniteSet(CountedIn(old, p))
  BY <1>2, FS_Subset
<1>4. Cardinality(CountedIn(new, p)) = Cardinality(CountedIn(old, p)) - 1
      /\ Cardinality(CountedIn(old, p)) \in Nat
  BY <1>1, <1>3, FS_RemoveElement, FS_CardinalityType
<1>5. old[p].quantityOnHand = Cardinality(CountedIn(old, p))
  BY DEF InStep, CountedIn
<1>6. new[p].quantityOnHand = Cardinality(CountedIn(new, p))
  BY <1>4, <1>5
<1> QED
  BY <1>6 DEF InStep, CountedIn

LEMMA UnitArrives ==
  ASSUME IsFiniteSet(Unit), NEW old, NEW new, NEW p, NEW u \in Unit, ProductOf[u] = p,
         OtherUnitsSame(old, new, p, u), InStep(old, p),
         old[u].status \notin STOCK_COUNTED_STATUSES, new[u].status \in STOCK_COUNTED_STATUSES,
         new[p].quantityOnHand = old[p].quantityOnHand + 1
  PROVE  InStep(new, p)
<1>1. CountedIn(new, p) = CountedIn(old, p) \cup {u} /\ u \notin CountedIn(old, p)
  BY DEF CountedIn, OtherUnitsSame
<1>2. CountedIn(old, p) \in SUBSET Unit
  BY DEF CountedIn
<1>3. IsFiniteSet(CountedIn(old, p))
  BY <1>2, FS_Subset
<1>4. Cardinality(CountedIn(new, p)) = Cardinality(CountedIn(old, p)) + 1
  BY <1>1, <1>3, FS_AddElement
<1>5. old[p].quantityOnHand = Cardinality(CountedIn(old, p))
  BY DEF InStep, CountedIn
<1>6. new[p].quantityOnHand = Cardinality(CountedIn(new, p))
  BY <1>4, <1>5
<1> QED
  BY <1>6 DEF InStep, CountedIn

(* ... or some units count no more, and others now do.                     *)
LEMMA UnitsShifted ==
  ASSUME IsFiniteSet(Unit), NEW old, NEW new, NEW p, NEW gained, NEW lost,
         CountedIn(new, p) = (CountedIn(old, p) \ lost) \cup gained,
         lost \subseteq CountedIn(old, p), gained \cap CountedIn(old, p) = {},
         InStep(old, p),
         new[p].quantityOnHand = old[p].quantityOnHand + (Cardinality(gained) - Cardinality(lost))
  PROVE  InStep(new, p)
<1> DEFINE before == CountedIn(old, p)
           kept == before \ lost
<1>1. before \subseteq Unit /\ CountedIn(new, p) \subseteq Unit
  BY DEF CountedIn
<1>2. IsFiniteSet(before) /\ IsFiniteSet(CountedIn(new, p))
  BY <1>1, FS_Subset
<1>3. IsFiniteSet(lost) /\ IsFiniteSet(gained) /\ IsFiniteSet(kept)
  BY <1>2, FS_Subset
<1>4. /\ Cardinality(before) \in Nat /\ Cardinality(lost) \in Nat
      /\ Cardinality(gained) \in Nat /\ Cardinality(kept) \in Nat
  BY <1>2, <1>3, FS_CardinalityType
<1>5. Cardinality(kept) = Cardinality(before) - Cardinality(lost)
  <2>1. before = kept \cup lost /\ kept \cap lost = {}
    OBVIOUS
  <2> HIDE DEF kept, before
  <2>2. Cardinality(kept \cap lost) = 0
    BY <2>1, FS_EmptySet
  <2>3. Cardinality(kept \cup lost)
          = Cardinality(kept) + Cardinality(lost) - Cardinality(kept \cap lost)
    BY <1>3, FS_Union
  <2> QED
    BY <1>4, <2>1, <2>2, <2>3
<1>6. Cardinality(CountedIn(new, p)) = Cardinality(kept) + Cardinality(gained)
  <2>1. CountedIn(new, p) = kept \cup gained /\ kept \cap gained = {}
    OBVIOUS
  <2> HIDE DEF kept
  <2>2. Cardinality(kept \cap gained) = 0
    BY <2>1, FS_EmptySet
  <2>3. Cardinality(kept \cup gained)
          = Cardinality(kept) + Cardinality(gained) - Cardinality(kept \cap gained)
    BY <1>3, FS_Union
  <2>4. Cardinality(CountedIn(new, p)) = Cardinality(kept \cup gained)
    BY <2>1, Zenon
  <2> QED
    BY <1>4, <2>2, <2>3, <2>4
<1>7. old[p].quantityOnHand = Cardinality(before)
  BY DEF InStep, CountedIn
<1> HIDE DEF kept, before
<1>8. new[p].quantityOnHand = Cardinality(CountedIn(new, p))
  BY <1>4, <1>5, <1>6, <1>7
<1> QED
  BY <1>8 DEF InStep, CountedIn

(* The balances are the same in both tables, and which units count.        *)
SameBalance(old, new) ==
  /\ \A p \in Product : new[p].quantityOnHand = old[p].quantityOnHand
  /\ \A u \in Unit :
        new[u].status \in STOCK_COUNTED_STATUSES <=> old[u].status \in STOCK_COUNTED_STATUSES

LEMMA SameBalanceInStep ==
  ASSUME NEW old, NEW new, NEW p \in Product, SameBalance(old, new)
  PROVE  InStep(new, p) <=> InStep(old, p)
<1>1. CountedIn(new, p) = CountedIn(old, p)
  BY DEF SameBalance, CountedIn
<1>2. new[p].quantityOnHand = old[p].quantityOnHand
  BY DEF SameBalance
<1> QED
  BY <1>1, <1>2 DEF InStep, CountedIn

(* A unit is held with its product, or not written by anybody.             *)
LEMMA UnitWithProduct ==
  ASSUME DbInv, UnitsConsistent, NEW u \in Unit
  PROVE  /\ ProductOf[u] \in Product /\ ProductOf[u] \in Row /\ u \in Row
         /\ holder[u] = holder[ProductOf[u]] \/ (holder[u] = NoReq /\ pending[u] = committed[u])
BY OpeningAssumption DEF UnitsConsistent, DbInv, VersionsConsistent, Row

(* A step that publishes nothing.                                          *)
LEMMA StockUnpublished ==
  ASSUME StockInStep, committed' = committed,
         ASSUME VoidedOnce, NEW p \in Serialized, StillStands(holder[p])'
         PROVE  InStep(pending', p)
  PROVE  StockInStep'
<1>1. VoidedOnce' => VoidedOnce
  BY DEF VoidedOnce
<1> SUFFICES ASSUME VoidedOnce', NEW p \in Serialized
             PROVE  InStep(committed', p) /\ (StillStands(holder[p])' => InStep(pending', p))
  BY DEF StockInStep
<1>2. VoidedOnce /\ InStep(committed', p)
  BY <1>1 DEF StockInStep
<1> QED
  BY <1>2

(* A step that writes no product and no unit.                              *)
LEMMA StockAside ==
  ASSUME StockInStep, committed' = committed,
         \A x \in Product \cup Unit : holder'[x] = holder[x] /\ pending'[x] = pending[x],
         \A q \in Voids : (\E p \in Product : holder[p] = q) => void'[q].lines = void[q].lines
  PROVE  StockInStep'
<1>1. ASSUME VoidedOnce, NEW p \in Serialized, StillStands(holder[p])'
      PROVE  InStep(pending', p)
  <2>1. p \in Product /\ holder'[p] = holder[p] /\ SameStock(pending, pending', p)
    BY OpeningAssumption DEF SameStock
  <2>2. StillStands(holder[p])
    BY <1>1, <2>1 DEF StillStands
  <2>3. InStep(pending, p)
    BY <1>1, <2>2 DEF StockInStep
  <2> QED
    BY <2>1, <2>3, SameStockInStep
<1> QED
  BY <1>1, StockUnpublished

(* A request rolls back.                                                   *)
LEMMA StockRolledBack ==
  ASSUME DbInv, UnitsConsistent, StockInStep, NEW r \in Req, Rollback(r),
         \A q \in Voids \ {r} : void'[q] = void[q]
  PROVE  StockInStep'
<1>1. committed' = committed /\ r # NoReq
  BY RowAssumption DEF Rollback
<1>2. \A x \in Row : /\ holder[x] = r => pending'[x] = committed[x] /\ holder'[x] = NoReq
                     /\ holder[x] # r => pending'[x] = pending[x] /\ holder'[x] = holder[x]
  BY DEF Rollback, Released
<1>3. ASSUME VoidedOnce, NEW p \in Serialized, StillStands(holder[p])'
      PROVE  InStep(pending', p)
  <2>1. p \in Product /\ p \in Row
    BY OpeningAssumption DEF Row
  <2>2. CASE holder[p] = r
    <3>1. SameStock(committed, pending', p)
      BY <1>1, <1>2, <2>1, <2>2, UnitWithProduct DEF SameStock
    <3>2. InStep(committed, p)
      BY <1>3 DEF StockInStep
    <3> QED
      BY <3>1, <3>2, SameStockInStep
  <2>3. CASE holder[p] # r
    <3>1. SameStock(pending, pending', p)
      BY <1>1, <1>2, <2>1, <2>3, UnitWithProduct DEF SameStock
    <3>2. holder'[p] = holder[p]
      BY <1>2, <2>1, <2>3
    <3>3. StillStands(holder[p])
      BY <1>1, <1>3, <2>3, <3>2 DEF StillStands
    <3>4. InStep(pending, p)
      BY <1>3, <3>3 DEF StockInStep
    <3> QED
      BY <3>1, <3>4, SameStockInStep
  <2> QED
    BY <2>2, <2>3
<1> QED
  BY <1>1, <1>3, StockUnpublished

(* One line is written: only its product and its unit change.              *)
LEMMA StockMoved ==
  ASSUME DbInv, StockInStep, NEW r \in PosReq, NEW line \in SaleLine,
         NEW status, NEW change, MovesUnit(r, line, status, change),
         \A q \in Voids : void'[q].lines = void[q].lines,
         line.unit # NoUnit => ProductOf[line.unit] = line.product,
         ASSUME VoidedOnce, line.product \in Serialized, StillStands(r), InStep(pending, line.product)
         PROVE  InStep(pending', line.product)
  PROVE  StockInStep'
<1>1. committed' = committed /\ r # NoReq /\ line.product \in Product
      /\ line.unit \in Unit \cup {NoUnit} /\ NoReq \notin Voids
  BY PosAssumption, RowAssumption DEF MovesUnit, PosReq, SaleLine
<1>2. \A x \in Row \ WrittenBy(line) : holder'[x] = holder[x] /\ pending'[x] = pending[x]
  BY DEF MovesUnit
<1>3. holder'[line.product] = r /\ holder[line.product] \in {NoReq, r}
  BY DEF MovesUnit, WrittenBy, Lockable
<1>4. \A q : StillStands(q)' => StillStands(q)
  BY <1>1 DEF StillStands
<1>5. ASSUME VoidedOnce, NEW p \in Serialized, StillStands(holder[p])'
      PROVE  InStep(pending', p)
  <2>1. p \in Product /\ p \in Row
    BY OpeningAssumption DEF Row
  <2>2. CASE p = line.product
    <3>1. StillStands(r)
      BY <1>3, <1>4, <1>5, <2>2
    <3>2. StillStands(holder[p])
      BY <1>1, <1>3, <2>2, <3>1 DEF StillStands
    <3>3. InStep(pending, line.product)
      BY <1>5, <2>2, <3>2 DEF StockInStep
    <3> QED
      BY <1>5, <2>2, <3>1, <3>3
  <2>3. CASE p # line.product
    <3>1. p \notin WrittenBy(line)
      BY <1>1, <2>1, <2>3, RowAssumption DEF WrittenBy
    <3>2. \A u \in Unit : ProductOf[u] = p => u \in Row /\ u \notin WrittenBy(line)
      BY <1>1, <2>3, RowAssumption DEF WrittenBy, Row
    <3>3. SameStock(pending, pending', p) /\ holder'[p] = holder[p]
      BY <1>2, <2>1, <3>1, <3>2 DEF SameStock
    <3>4. StillStands(holder[p])
      BY <1>4, <1>5, <3>3
    <3>5. InStep(pending, p)
      BY <1>5, <3>4 DEF StockInStep
    <3> QED
      BY <3>3, <3>5, SameStockInStep
  <2> QED
    BY <2>2, <2>3
<1> QED
  BY <1>1, <1>5, StockUnpublished

(* The units of a line's product other than its own are left alone.        *)
LEMMA OthersLeft ==
  ASSUME NEW r, NEW line \in SaleLine, NEW status, NEW change, MovesUnit(r, line, status, change)
  PROVE  OtherUnitsSame(pending, pending', line.product, line.unit)
<1>1. line.product \in Product
  BY DEF SaleLine
<1>2. \A w \in Unit \ {line.unit} : w \in Row \ WrittenBy(line)
  BY <1>1, RowAssumption DEF WrittenBy, Row
<1> QED
  BY <1>2 DEF OtherUnitsSame, MovesUnit

LEMMA SellLineStock ==
  ASSUME DbInv, PosInv, UnitsConsistent, StockInStep, IsFiniteSet(Unit),
         NEW r \in Checkouts, SellLine(r)
  PROVE  StockInStep'
<1> DEFINE c == checkout[r]
           line == c.lines[c.next]
<1>1. /\ UNCHANGED void /\ c.pc = "sell" /\ c.next <= Len(c.lines) /\ r \in PosReq
      /\ c.lines \in Seq(SaleLine) /\ c.next \in Nat \ {0}
  BY CheckoutFields DEF SellLine, PosReq
<1>2. FitsProduct(line)
  BY <1>1 DEF UnitsConsistent, CheckoutUnits
<1>3. CASE Rollback(r) /\ EndCheckout(r, "failed")
  BY <1>1, <1>3, StockRolledBack, PosAssumption
<1>4. CASE ~ (Rollback(r) /\ EndCheckout(r, "failed"))
  <2>1. /\ MovesUnit(r, line, "SOLD", -line.quantity)
        /\ line \in SaleLine
        /\ line.unit # NoUnit => UnitStillSellable(r, line.unit)
    BY <1>4, LineSold
  <2> HIDE DEF c
  <2>2. ASSUME line.product \in Serialized, InStep(pending, line.product)
        PROVE  InStep(pending', line.product)
    <3> DEFINE u == line.unit
               p == line.product
    <3>1. u \in Unit /\ u # NoUnit /\ ProductOf[u] = p /\ line.quantity = 1
      BY <1>2, <2>1, <2>2 DEF FitsProduct, SaleLine
    <3>2. Lockable(r, u) /\ u \in Row
      BY <2>1, <3>1 DEF MovesUnit, WrittenBy, Row
    <3>3. pending[u].status \in STOCK_COUNTED_STATUSES
      BY <2>1, <3>1, <3>2, VisibleIsPending
         DEF UnitStillSellable, SELLABLE_UNIT_STATUSES, STOCK_COUNTED_STATUSES
    <3>4. pending'[u].status \notin STOCK_COUNTED_STATUSES
      BY <2>1, <3>1 DEF MovesUnit, STOCK_COUNTED_STATUSES
    <3>5. pending'[p].quantityOnHand = pending[p].quantityOnHand + -1
      BY <2>1, <3>1 DEF MovesUnit
    <3>6. OtherUnitsSame(pending, pending', p, u)
      BY <2>1, OthersLeft
    <3> HIDE DEF p, u
    <3>7. InStep(pending, p)
      BY <2>2 DEF p
    <3>8. InStep(pending', p)
      BY <3>1, <3>3, <3>4, <3>5, <3>6, <3>7, UnitLeaves
    <3> QED
      BY <3>8 DEF p
  <2>3. line.unit # NoUnit => ProductOf[line.unit] = line.product
    BY <1>2 DEF FitsProduct
  <2> HIDE DEF line
  <2> QED
    BY <1>1, <2>1, <2>2, <2>3, StockMoved
<1> QED
  BY <1>3, <1>4

LEMMA RestoreLineStock ==
  ASSUME DbInv, PosInv, SalesInv, UnitsConsistent, StockInStep, IsFiniteSet(Unit),
         NEW r \in Voids, RestoreLine(r)
  PROVE  StockInStep'
<1> DEFINE v == void[r]
           line == v.lines[v.next]
           n == v.next - 1
           s == VoidTarget[r]
<1>1. /\ v.pc = "restore" /\ v.next <= Len(v.lines) /\ r \in PosReq /\ r # NoReq /\ s \in Sale
      /\ v.lines \in Seq(SaleLine) /\ v.next \in Nat \ {0}
  BY PosAssumption, RowAssumption, VoidFields DEF RestoreLine, PosReq
<1>2. committed[s].items = v.lines /\ \A i \in 1 .. Len(v.lines) : FitsProduct(v.lines[i])
  BY <1>1, VoidLinesFit
<1>3. FitsProduct(line) /\ v.lines # <<>>
  BY <1>1, <1>2
<1>4. /\ MovesUnit(r, line, "RETURNED", line.quantity)
      /\ line \in SaleLine
      /\ \A q \in Voids : void'[q].lines = void[q].lines
  BY LineRestored DEF OthersStay
<1>5. HeldUnits(r) = UnitsOf(v.lines, n)
  BY <1>1 DEF UnitsConsistent, VoidUnits
<1>6. StillStands(r) => Stands(committed, s)
  BY <1>3 DEF StillStands, Stands
<1>7. n + 1 = v.next /\ n \in Nat /\ 1 .. n \subseteq 1 .. Len(v.lines)
      /\ v.next \in 1 .. Len(v.lines) /\ v.next \notin 1 .. n
  BY <1>1
<1> HIDE DEF v, n, s
<1>8. ASSUME VoidedOnce, line.product \in Serialized, StillStands(r), InStep(pending, line.product)
      PROVE  InStep(pending', line.product)
  <2> DEFINE u == line.unit
             p == line.product
  <2>1. u \in Unit /\ u # NoUnit /\ ProductOf[u] = p /\ line.quantity = 1
    BY <1>3, <1>4, <1>8 DEF FitsProduct, SaleLine
  <2>2. Lockable(r, u) /\ u \in Row
    BY <1>4, <2>1 DEF MovesUnit, WrittenBy, Row
  <2>3. committed[u].status = "SOLD" /\ NoUnitTwice(v.lines, Len(v.lines))
    <3>1. UnitsStand(committed)
      BY <1>8, StandInTables DEF UnitsConsistent
    <3>2. NoUnitTwice(v.lines, Len(v.lines))
          /\ \A w \in UnitsOf(v.lines, Len(v.lines)) : committed[w].status = "SOLD"
      BY <1>1, <1>2, <1>6, <1>8, <3>1 DEF UnitsStand, UnitsOfSale
    <3>3. u \in UnitsOf(v.lines, Len(v.lines))
      BY <1>7, <2>1 DEF UnitsOf
    <3> QED
      BY <3>2, <3>3
  <2>4. u \notin UnitsOf(v.lines, n)
    BY <1>7, <2>1, <2>3 DEF UnitsOf, NoUnitTwice
  <2>5. holder[u] # r
    BY <1>5, <2>1, <2>4 DEF HeldUnits
  <2>6. pending[u] = committed[u]
    BY <2>2, <2>5, VisibleIsPending DEF Visible
  <2>7. pending[u].status \notin STOCK_COUNTED_STATUSES
    BY <2>3, <2>6 DEF STOCK_COUNTED_STATUSES
  <2>8. pending'[u].status \in STOCK_COUNTED_STATUSES
    BY <1>4, <2>1 DEF MovesUnit, STOCK_COUNTED_STATUSES
  <2>9. pending'[p].quantityOnHand = pending[p].quantityOnHand + 1
    BY <1>4, <2>1 DEF MovesUnit
  <2>10. OtherUnitsSame(pending, pending', p, u)
    BY <1>4, OthersLeft
  <2> HIDE DEF p, u
  <2>11. InStep(pending, p)
    BY <1>8 DEF p
  <2>12. InStep(pending', p)
    BY <2>1, <2>7, <2>8, <2>9, <2>10, <2>11, UnitArrives
  <2> QED
    BY <2>12 DEF p
<1>9. line.unit # NoUnit => ProductOf[line.unit] = line.product
  BY <1>3 DEF FitsProduct
<1> HIDE DEF line
<1> QED
  BY <1>1, <1>4, <1>8, <1>9, StockMoved

(* A commit publishes, of each product held, what is in step.              *)
LEMMA StockPublished ==
  ASSUME DbInv, UnitsConsistent, StockInStep, NEW r \in Req, Commit(r),
         VoidedOnce' => VoidedOnce /\ StillStands(r),
         \A q \in Voids \ {r} : (\E p \in Product : holder[p] = q) =>
            (StillStands(q)' => StillStands(q))
  PROVE  StockInStep'
<1>1. r # NoReq /\ NoReq \notin Voids /\ pending' = pending
  BY PosAssumption, RowAssumption DEF Commit
<1>2. \A x \in Row : /\ holder[x] = r => committed'[x] = pending[x] /\ holder'[x] = NoReq
                     /\ holder[x] # r => committed'[x] = committed[x] /\ holder'[x] = holder[x]
  BY DEF Commit, Released
<1> SUFFICES ASSUME VoidedOnce', NEW p \in Serialized
             PROVE  InStep(committed', p) /\ (StillStands(holder[p])' => InStep(pending', p))
  BY DEF StockInStep
<1>3. p \in Product /\ p \in Row /\ VoidedOnce /\ StillStands(r)
  BY OpeningAssumption DEF Row
<1>4. InStep(committed, p) /\ (StillStands(holder[p]) => InStep(pending, p))
  BY <1>3 DEF StockInStep
<1>5. CASE holder[p] = r
  <2>1. SameStock(pending, committed', p)
    BY <1>1, <1>2, <1>3, <1>5, UnitWithProduct DEF SameStock
  <2>2. InStep(pending, p)
    BY <1>3, <1>4, <1>5
  <2> QED
    BY <1>1, <2>1, <2>2, SameStockInStep
<1>6. CASE holder[p] # r
  <2>1. SameStock(committed, committed', p)
    BY <1>1, <1>2, <1>3, <1>6, UnitWithProduct DEF SameStock
  <2>2. InStep(committed', p)
    BY <1>4, <2>1, SameStockInStep
  <2>3. holder'[p] = holder[p]
    BY <1>2, <1>3, <1>6
  <2>4. StillStands(holder[p])' => StillStands(holder[p])
    BY <1>3, <1>6, <2>3 DEF StillStands
  <2> QED
    BY <1>1, <1>4, <2>2, <2>4
<1> QED
  BY <1>5, <1>6

LEMMA CommitCheckoutStock ==
  ASSUME DbInv, PosInv, SalesInv, UnitsConsistent, StockInStep,
         NEW r \in Checkouts, CommitCheckout(r)
  PROVE  StockInStep'
<1> DEFINE s == SaleOf[r]
           lines == checkout[r].lines
<1>1. /\ Publishes(committed, committed', Held(r), "SALE", s, lines, checkout[r].loc)
      /\ committed[s] = [status |-> "NONE", items |-> <<>>]
  BY CheckoutPublishes
<1>2. r \in Req /\ r \notin Voids /\ Commit(r) /\ void' = void
  BY PosAssumption DEF CommitCheckout
<1>3. VoidedOnce' => VoidedOnce /\ StillStands(r)
  BY <1>1, <1>2, VoidedOnceBefore DEF StillStands
<1>4. ASSUME NEW q \in Voids \ {r}, \E p \in Product : holder[p] = q, StillStands(q)'
      PROVE  StillStands(q)
  <2>1. committed[VoidTarget[q]].status \in {"COMPLETED", "VOIDED"} /\ VoidTarget[q] \in Sale
    BY <1>4, VoidFields DEF SalesInv, SalesConsistent, VoidConsistent, HoldsNothing
  <2>2. VoidTarget[q] # s
    BY <1>1, <2>1
  <2>3. committed'[VoidTarget[q]] = committed[VoidTarget[q]]
    BY <1>1, <2>1, <2>2 DEF Publishes
  <2> QED
    BY <1>2, <1>4, <2>3 DEF StillStands
<1> QED
  BY <1>2, <1>3, <1>4, StockPublished

LEMMA CommitVoidStock ==
  ASSUME DbInv, PosInv, SalesInv, UnitsConsistent, StockInStep,
         NEW r \in Voids, CommitVoid(r)
  PROVE  StockInStep'
<1> DEFINE s == VoidTarget[r]
           lines == void[r].lines
<1>1. /\ Publishes(committed, committed', Held(r), "RETURN", s, lines, void[r].loc)
      /\ committed'[s] = [status |-> "VOIDED", items |-> lines]
  BY VoidPublishes
<1>2. /\ r \in Req /\ Commit(r) /\ lines \in Seq(SaleLine)
      /\ \A q \in Voids \ {r} : void'[q] = void[q]
  BY VoidFields, PosAssumption DEF CommitVoid, EndVoid, PosInv, TypeOKPos
<1>3. VoidedOnce' => VoidedOnce /\ StillStands(r)
  <2>1. Len(lines) = 0 => lines = <<>>
    BY <1>2
  <2> QED
    BY <2>1, VoidOfStanding DEF StillStands, Stands
<1>4. ASSUME NEW q \in Voids \ {r}, StillStands(q)'
      PROVE  StillStands(q)
  <2>1. VoidTarget[q] \in Sale
    BY VoidFields
  <2>2. VoidTarget[q] = s \/ committed'[VoidTarget[q]] = committed[VoidTarget[q]]
    BY <1>1, <2>1 DEF Publishes
  <2> QED
    BY <1>1, <1>2, <1>4, <2>2 DEF StillStands
<1> QED
  BY <1>2, <1>3, <1>4, StockPublished

(* Every step of the point of sale keeps the stock in step.                *)
LEMMA PosNextStock ==
  ASSUME DbInv, PosInv, SalesInv, UnitsConsistent, StockInStep, IsFiniteSet(Unit), PosNext
  PROVE  StockInStep'
<1>1. ASSUME NEW r \in Checkouts, BeginCheckout(r) \/ PrepareSaleLine(r)
      PROVE  StockInStep'
  BY <1>1, StockAside DEF BeginCheckout, PrepareSaleLine, dbVars
<1>2. ASSUME NEW r \in Checkouts, CreateSale(r)
      PROVE  StockInStep'
  <2>1. CASE UNCHANGED dbVars
    BY <1>2, <2>1, StockAside DEF CreateSale, dbVars
  <2>2. CASE \E sale : Stage(r, Write(SaleOf[r], sale))
    <3>1. SaleOf[r] \in Sale
      BY CheckoutFields
    <3>2. committed' = committed
          /\ \A x \in Product \cup Unit : holder'[x] = holder[x] /\ pending'[x] = pending[x]
      BY <2>2, <3>1, SaleStaged
    <3> QED
      BY <1>2, <3>2, StockAside DEF CreateSale
  <2> QED
    BY <1>2, <2>1, <2>2 DEF CreateSale
<1>3. ASSUME NEW r \in Checkouts, AbortCheckout(r)
      PROVE  StockInStep'
  BY <1>3, StockRolledBack, PosAssumption DEF AbortCheckout
<1>4. ASSUME NEW r \in Voids, ReadSale(r)
      PROVE  StockInStep'
  <2>1. \A p \in Product : holder[p] # r
    BY <1>4 DEF ReadSale, SalesInv, SalesConsistent, VoidConsistent, HoldsNothing
  <2>2. \A q \in Voids \ {r} : void'[q] = void[q]
    BY <1>4 DEF ReadSale, EndVoid, PosInv, TypeOKPos
  <2>3. UNCHANGED dbVars
    BY <1>4 DEF ReadSale
  <2> QED
    BY <2>1, <2>2, <2>3, StockAside DEF dbVars
<1>5. ASSUME NEW r \in Voids, MarkVoided(r)
      PROVE  StockInStep'
  <2>1. VoidTarget[r] \in Sale /\ void[r] \in VoidState
    BY VoidFields
  <2>2. PICK sale : Stage(r, Write(VoidTarget[r], sale))
    BY <1>5 DEF MarkVoided
  <2>3. committed' = committed
        /\ \A x \in Product \cup Unit : holder'[x] = holder[x] /\ pending'[x] = pending[x]
    BY <2>1, <2>2, SaleStaged
  <2>4. \A q \in Voids : void'[q].lines = void[q].lines
    BY <1>5, <2>1 DEF MarkVoided, PosInv, TypeOKPos, VoidState
  <2> QED
    BY <2>3, <2>4, StockAside
<1>6. ASSUME NEW r \in Voids, AbortVoid(r)
      PROVE  StockInStep'
  <2>1. \A q \in Voids \ {r} : void'[q] = void[q]
    BY <1>6 DEF AbortVoid, EndVoid, PosInv, TypeOKPos
  <2> QED
    BY <1>6, <2>1, StockRolledBack, PosAssumption DEF AbortVoid
<1> QED
  BY <1>1, <1>2, <1>3, <1>4, <1>5, <1>6, SellLineStock, CommitCheckoutStock, RestoreLineStock,
     CommitVoidStock DEF PosNext, CheckoutStep, VoidStep

LEMMA InitStockOK ==
  ASSUME OpeningInStep, InitDb
  PROVE  StockInStep
BY DEF OpeningInStep, InitDb, StockInStep

LEMMA PosStockInvariant ==
  ASSUME OpeningInStep
  PROVE  PosSpec => [](DbInv /\ PosInv /\ SalesInv /\ UnitsConsistent /\ StockInStep)
<1>1. InitPos => StockInStep
  BY InitStockOK DEF InitPos
<1>2. DbInv /\ PosInv /\ SalesInv /\ UnitsConsistent /\ StockInStep /\ [PosNext \/ PosDone]_posVars
        => StockInStep'
  <2> SUFFICES ASSUME DbInv, PosInv, SalesInv, UnitsConsistent, StockInStep,
                      [PosNext \/ PosDone]_posVars
               PROVE  StockInStep'
    OBVIOUS
  <2>1. CASE PosNext
    BY <2>1, PosNextStock DEF OpeningInStep
  <2>2. CASE UNCHANGED posVars
    <3>1. UNCHANGED <<committed, pending, holder, checkout, void>>
      BY <2>2 DEF posVars
    <3> QED
      BY <3>1, StockAside
  <2> QED
    BY <2>1, <2>2 DEF PosDone
<1> QED
  BY <1>1, <1>2, PosUnitsInvariant, PTL DEF PosSpec

(* QuantityCountsUnits of every instance whose stock is in step when it    *)
(* opens, unless some sale was voided twice: a checkout and a void move    *)
(* the balance of a serialized product and its units together, however     *)
(* they overlap.                                                           *)
THEOREM StockCountsUnits ==
  ASSUME OpeningInStep PROVE PosSpec => [](VoidedOnce => QuantityCountsUnits)
<1>1. StockInStep => (VoidedOnce => QuantityCountsUnits)
  BY DEF StockInStep, InStep, QuantityCountsUnits, CountedUnits
<1> QED
  BY <1>1, PosStockInvariant, PTL

-----------------------------------------------------------------------------
(* What a till is shown is what it can sell.                               *)
LEMMA OffersSold ==
  ASSUME UnitsOfSerialized, IsFiniteSet(Unit), DbInv, SalesInv, UnitsConsistent,
         StockInStep, VoidedOnce
  PROVE  OffersMatchTill
<1> SUFFICES ASSUME NEW r \in Checkouts, checkout[r].pc = "idle"
             PROVE  LET sells(p, u) ==
                          LET line == [product |-> p, unit |-> u, quantity |-> 1]
                          IN  /\ Available(r, line)
                              /\ ~ Oversold(SoldRow(r, line, LineLocation(r, line), 1))
                    IN  /\ \A p \in Product :
                             p \in FoundProducts /\ ProductIsSellable(p) <=> sells(p, NoUnit)
                        /\ \A u \in Unit :
                             u \in FoundUnits /\ UnitIsSellable(u) <=> sells(ProductOf[u], u)
  BY DEF OffersMatchTill
<1>1. \A x \in Product \cup Unit : Visible(r, x) = committed[x]
  <2>1. HoldsNothing(r) /\ HeldUnits(r) = {}
    BY DEF SalesInv, SalesConsistent, CheckoutConsistent, UnitsConsistent, CheckoutUnits
  <2> QED
    BY <2>1 DEF HoldsNothing, HeldUnits, Visible
<1>2. \A p \in Product : committed[p] \in ProductRow /\ committed[p].quantityOnHand \in Nat
  BY LedgerType DEF DbInv, TypeOKDb, DbTypeOK
<1>3. ASSUME NEW p \in Product, NEW u, NEW line, line = [product |-> p, unit |-> u, quantity |-> 1]
      PROVE  Oversold(SoldRow(r, line, LineLocation(r, line), 1))
               <=> committed[p].quantityOnHand = 0
  <2>1. line.product = p /\ -line.quantity = -1
    BY <1>3
  <2>2. SoldRow(r, line, LineLocation(r, line), 1).quantityOnHand
          = committed[p].quantityOnHand + -1
    BY <1>1, <1>2, <2>1, PostedAmount DEF SoldRow
  <2> QED
    BY <1>2, <2>2 DEF Oversold
<1>4. ASSUME NEW p \in Product, NEW line,
             line = [product |-> p, unit |-> NoUnit, quantity |-> 1]
      PROVE  p \in FoundProducts /\ ProductIsSellable(p)
               <=> /\ Available(r, line)
                   /\ ~ Oversold(SoldRow(r, line, LineLocation(r, line), 1))
  <2>1. Oversold(SoldRow(r, line, LineLocation(r, line), 1)) <=> committed[p].quantityOnHand = 0
    BY <1>3, <1>4
  <2>2. Available(r, line) <=> Live(committed[p]) /\ p \notin Serialized
    BY <1>1, <1>4 DEF Available
  <2>3. p \in FoundProducts /\ ProductIsSellable(p)
          <=> Live(committed[p]) /\ p \notin Serialized /\ committed[p].quantityOnHand > 0
    BY DEF FoundProducts, ProductIsSellable
  <2> QED
    BY <1>2, <2>1, <2>2, <2>3
<1>5. ASSUME NEW u \in Unit, NEW line,
             line = [product |-> ProductOf[u], unit |-> u, quantity |-> 1]
      PROVE  u \in FoundUnits /\ UnitIsSellable(u)
               <=> /\ Available(r, line)
                   /\ ~ Oversold(SoldRow(r, line, LineLocation(r, line), 1))
  <2> DEFINE p == ProductOf[u]
  <2>1. p \in Product /\ p \in Serialized /\ u # NoUnit
    BY OpeningAssumption, RowAssumption DEF UnitsOfSerialized
  <2>2. Oversold(SoldRow(r, line, LineLocation(r, line), 1)) <=> committed[p].quantityOnHand = 0
    BY <1>3, <1>5, <2>1
  <2>3. Available(r, line)
          <=> Live(committed[p]) /\ committed[u].status \in SELLABLE_UNIT_STATUSES
    BY <1>1, <1>5, <2>1 DEF Available
  <2>4. u \in FoundUnits /\ UnitIsSellable(u)
          <=> Live(committed[p]) /\ committed[u].status \in SELLABLE_UNIT_STATUSES
    BY DEF FoundUnits, UnitIsSellable
  <2>5. committed[u].status \in SELLABLE_UNIT_STATUSES => committed[p].quantityOnHand # 0
    <3>1. committed[p].quantityOnHand = Cardinality(CountedIn(committed, p))
      BY <2>1 DEF StockInStep, InStep, CountedIn
    <3>2. CountedIn(committed, p) \in SUBSET Unit
      BY DEF CountedIn
    <3>3. Cardinality(CountedIn(committed, p)) = 0 <=> CountedIn(committed, p) = {}
      BY <3>2, FS_Subset, FS_EmptySet
    <3>4. committed[u].status \in SELLABLE_UNIT_STATUSES => u \in CountedIn(committed, p)
      BY DEF CountedIn, SELLABLE_UNIT_STATUSES, STOCK_COUNTED_STATUSES
    <3> HIDE DEF p
    <3> QED
      BY <3>1, <3>3, <3>4
  <2> QED
    BY <2>2, <2>3, <2>4, <2>5
<1> QED
  BY <1>4, <1>5

(* OffersMatchTill of every instance whose stock is in step when it opens  *)
(* and whose units belong to serialized products, unless some sale was     *)
(* voided twice: a unit's answer never looks at the quantity, and need not.*)
THEOREM OffersAlwaysMatch ==
  ASSUME OpeningInStep, UnitsOfSerialized
  PROVE  PosSpec => [](VoidedOnce => OffersMatchTill)
<1>1. DbInv /\ SalesInv /\ UnitsConsistent /\ StockInStep => (VoidedOnce => OffersMatchTill)
  BY OffersSold DEF OpeningInStep
<1> QED
  BY <1>1, PosStockInvariant, PTL

-----------------------------------------------------------------------------
(* The point of sale writes products, units and sales.                     *)
LEMMA PosSpares ==
  ASSUME PosInv, PosNext
  PROVE  \E q \in PosReq : Sparing(q, Claims)
<1>1. ASSUME NEW r \in Checkouts, BeginCheckout(r) \/ CheckoutStep(r) \/ AbortCheckout(r)
      PROVE  Sparing(r, Claims)
  <2> DEFINE c == checkout[r]
  <2>1. CASE BeginCheckout(r) \/ PrepareSaleLine(r) \/ CommitCheckout(r) \/ AbortCheckout(r)
    BY <2>1 DEF BeginCheckout, PrepareSaleLine, CommitCheckout, AbortCheckout, Sparing
  <2>2. CASE CreateSale(r)
    <3>1. SaleOf[r] \notin Claims
      BY PosAssumption, StockNoClaim
    <3>2. CASE UNCHANGED dbVars
      BY <3>2 DEF Sparing
    <3> QED
      BY <2>2, <3>1, <3>2, RowSpares DEF CreateSale
  <2>3. CASE SellLine(r)
    <3> DEFINE line == c.lines[c.next]
               sold == [u \in {line.unit} \ {NoUnit} |-> [status |-> "SOLD", loc |-> NoLocation]]
    <3>1. c \in CheckoutState /\ c.next <= Len(c.lines)
      BY <2>3 DEF SellLine, PosInv, TypeOKPos
    <3>2. line \in SaleLine
      BY <3>1 DEF CheckoutState
    <3>3. line.product \in Product /\ DOMAIN sold \subseteq Unit
      BY <3>2 DEF SaleLine
    <3>4. CASE Rollback(r)
      BY <3>4 DEF Sparing
    <3> QED
      BY <2>3, <3>3, <3>4, StockSpares DEF SellLine
  <2> QED
    BY <1>1, <2>1, <2>2, <2>3 DEF CheckoutStep
<1>2. ASSUME NEW r \in Voids, ReadSale(r) \/ VoidStep(r) \/ AbortVoid(r)
      PROVE  Sparing(r, Claims)
  <2> DEFINE v == void[r]
  <2>1. CASE ReadSale(r) \/ CommitVoid(r) \/ AbortVoid(r)
    BY <2>1 DEF ReadSale, CommitVoid, AbortVoid, Sparing
  <2>2. CASE MarkVoided(r)
    <3>1. VoidTarget[r] \notin Claims
      BY PosAssumption, StockNoClaim
    <3> QED
      BY <2>2, <3>1, RowSpares DEF MarkVoided
  <2>3. CASE RestoreLine(r)
    <3> DEFINE line == v.lines[v.next]
               returned == [u \in {line.unit} \ {NoUnit} |->
                              [status |-> "RETURNED", loc |-> v.loc[v.next]]]
    <3>1. v \in VoidState /\ v.next <= Len(v.lines)
      BY <2>3 DEF RestoreLine, PosInv, TypeOKPos
    <3>2. line \in SaleLine
      BY <3>1 DEF VoidState
    <3>3. line.product \in Product /\ DOMAIN returned \subseteq Unit
      BY <3>2 DEF SaleLine
    <3> QED
      BY <2>3, <3>3, StockSpares DEF RestoreLine
  <2> QED
    BY <1>2, <2>1, <2>2, <2>3 DEF VoidStep
<1> QED
  BY <1>1, <1>2 DEF PosNext, PosReq
=============================================================================
