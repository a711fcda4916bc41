----------------------------- MODULE CartsProofs -----------------------------
(***************************************************************************)
(* A cart of any length keeps what the customer ordered.                   *)
(***************************************************************************)
EXTENDS Carts, PosProofs

(* The quantities of some lines, summed up.                                *)

LEMMA LinesSum ==
  ASSUME NEW lines \in Seq(SaleLine), NEW S \in SUBSET DOMAIN lines
  PROVE  \E h : /\ SumsOver(h, S, [i \in S |-> lines[i].quantity])
                /\ SumOfLines(lines, S) = h[S]
<1> DEFINE g == [i \in S |-> lines[i].quantity]
<1>1. IsFiniteSet(S)
  <2>1. DOMAIN lines = 1 .. Len(lines)
    OBVIOUS
  <2> QED BY <2>1, FS_Interval, FS_Subset
<1>2. g \in [S -> Int]
  <2>1. \A i \in S : lines[i] \in SaleLine
    BY ElementOfSeq
  <2> QED BY <2>1 DEF SaleLine
<1> DEFINE Eq(h) == h = [s \in SUBSET S |->
                           IF s = {} THEN 0
                           ELSE lines[Picked(s)].quantity + h[s \ {Picked(s)}]]
<1>3. \A h : Eq(h) <=> SumEquation(h, S, g)
  <2>1. \A s \in SUBSET S : s # {} => g[Picked(s)] = lines[Picked(s)].quantity
    BY DEF Picked
  <2> HIDE DEF g
  <2>2. \A h : [s \in SUBSET S |-> IF s = {} THEN 0
                                  ELSE lines[Picked(s)].quantity + h[s \ {Picked(s)}]]
               = [s \in SUBSET S |-> IF s = {} THEN 0 ELSE g[Picked(s)] + h[s \ {Picked(s)}]]
    BY <2>1
  <2> QED BY <2>2 DEF SumEquation
<1>4. \E h : Eq(h)
  <2> HIDE DEF g, Eq
  <2> QED BY <1>1, <1>2, <1>3, SumExists
<1>5. SumOfLines(lines, S) = (CHOOSE h : Eq(h))[S]
  BY DEF SumOfLines, MapThenSumSet, MapThenFoldSet, Picked
<1> DEFINE h == CHOOSE h : Eq(h)
<1>6. Eq(h)
  <2> HIDE DEF Eq
  <2> QED BY <1>4
<1>7. SumsOver(h, S, g)
  <2> HIDE DEF g, Eq, h
  <2> QED BY <1>1, <1>2, <1>3, <1>6, SumIsSum
<1> QED
  <2> HIDE DEF Eq
  <2>1. SumOfLines(lines, S) = h[S]
    BY <1>5
  <2> HIDE DEF h
  <2> QED BY <1>7, <2>1

(* What a line costs, and the subtotal as a sum over the lines.            *)
Cost(line) == Price[line.product] * line.quantity

Costs(lines) == [i \in 1 .. Len(lines) |-> Cost(lines[i])]

LEMMA CostType ==
  ASSUME Price \in [Product -> Nat], NEW line \in SaleLine
  PROVE  Cost(line) \in Int
<1>1. Price[line.product] \in Int /\ line.quantity \in Int
  BY DEF SaleLine
<1> DEFINE a == Price[line.product]
           b == line.quantity
<1> HIDE DEF a, b
<1>2. a \in Int /\ b \in Int
  BY <1>1 DEF a, b
<1>3. a * b \in Int
  BY <1>2
<1> QED
  BY <1>3 DEF Cost, a, b

LEMMA SubtotalSum ==
  ASSUME Price \in [Product -> Nat], NEW lines \in Seq(SaleLine)
  PROVE  \E h : /\ SumsOver(h, 1 .. Len(lines), Costs(lines))
                /\ Cart!Subtotal(lines, Price) = h[1 .. Len(lines)]
<1> DEFINE S == 1 .. Len(lines)
           g == Costs(lines)
<1>1. IsFiniteSet(S) /\ S = DOMAIN lines /\ Len(lines) \in Nat
  BY FS_Interval
<1>2. g \in [S -> Int]
  BY CostType, ElementOfSeq DEF Costs
<1>3. PICK k : SumsOver(k, S, g)
  <2> HIDE DEF g, S
  <2>1. PICK k : SumEquation(k, S, g)
    BY <1>1, <1>2, SumExists
  <2> QED BY <2>1, <1>1, <1>2, SumIsSum
<1> DEFINE Eq(h) == h = [s \in SUBSET S |->
                           IF s = {} THEN 0
                           ELSE h[s \ {Max(s)}]
                                  + Price[lines[Max(s)].product] * lines[Max(s)].quantity]
<1>4. \A s \in SUBSET S : s # {} => Max(s) \in s
  BY <1>1, LastIndex
<1>5. \A x \in S : g[x] = Price[lines[x].product] * lines[x].quantity
  BY DEF Costs, Cost
<1>6. Eq(k)
  <2> HIDE DEF g, S
  <2>1. k \in [SUBSET S -> Int] /\ k[{}] = 0
    BY <1>3 DEF SumsOver
  <2>2. ASSUME NEW s \in SUBSET S, s # {}
        PROVE  k[s] = k[s \ {Max(s)}] + Price[lines[Max(s)].product] * lines[Max(s)].quantity
    <3> DEFINE x == Max(s)
    <3>1. x \in s /\ x \in S
      BY <1>4, <2>2
    <3> HIDE DEF x
    <3>2. k[s] = g[x] + k[s \ {x}] /\ k[s \ {x}] \in Int /\ g[x] \in Int
      BY <3>1, <1>3, <1>2 DEF SumsOver
    <3>3. k[s] = k[s \ {x}] + g[x]
      BY <3>2
    <3> QED BY <3>1, <3>3, <1>5 DEF x
  <2> QED BY <2>1, <2>2
<1>7. Cart!Subtotal(lines, Price) = (CHOOSE h : Eq(h))[S]
  BY <1>1 DEF Cart!Subtotal, Cart!FoldLeft, Cart!MapThenFoldSet, Cart!Max, Max
<1>8. PICK h : Eq(h) /\ Cart!Subtotal(lines, Price) = h[S]
  <2> HIDE DEF Eq
  <2> QED BY <1>6, <1>7
<1>9. \A s \in SUBSET S : s # {} =>
         h[s] = h[s \ {Max(s)}] + Price[lines[Max(s)].product] * lines[Max(s)].quantity
  BY <1>8
<1>10. \A s \in SUBSET S : s # {} =>
         k[s] = k[s \ {Max(s)}] + Price[lines[Max(s)].product] * lines[Max(s)].quantity
  BY <1>6
<1>11. h[{}] = 0 /\ k[{}] = 0
  <2>1. {} \in SUBSET S
    OBVIOUS
  <2> QED BY <2>1, <1>8, <1>6
<1> HIDE DEF Eq, g
<1> DEFINE P == {s \in SUBSET S : h[s] = k[s]}
<1>12. ASSUME NEW s \in SUBSET S, \A t \in SUBSET s : t # s => t \in P
       PROVE  s \in P
  <2>1. CASE s = {}
    BY <2>1, <1>11
  <2>2. CASE s # {}
    <3> DEFINE x == Max(s)
    <3>1. x \in s
      BY <2>2, <1>4
    <3>2. s \ {x} \in P
      <4> HIDE DEF x
      <4> QED BY <3>1, <1>12
    <3> QED BY <2>2, <3>2, <1>9, <1>10
  <2> QED BY <2>1, <2>2
<1>13. P = SUBSET S
  <2>1. P \subseteq SUBSET S
    BY DEF P
  <2> HIDE DEF P, S
  <2> QED BY <1>1, <1>12, <2>1, SubsetInduction
<1> QED
  <2>1. h[S] = k[S]
    BY <1>13
  <2> QED BY <1>3, <1>8, <2>1 DEF g

(* Adding an item adds what it costs.                                      *)
LEMMA SubtotalAppended ==
  ASSUME Price \in [Product -> Nat], NEW lines \in Seq(SaleLine), NEW item \in SaleLine
  PROVE  Cart!Subtotal(Append(lines, item), Price) = Cart!Subtotal(lines, Price) + Cost(item)
<1> DEFINE n == Len(lines)
           after == Append(lines, item)
<1>1. after \in Seq(SaleLine) /\ Len(after) = n + 1 /\ n \in Nat /\ after[n + 1] = item
        /\ \A i \in 1 .. n : after[i] = lines[i]
  OBVIOUS
<1> HIDE DEF n, after
<1>2. PICK h : SumsOver(h, 1 .. n, Costs(lines)) /\ Cart!Subtotal(lines, Price) = h[1 .. n]
  BY SubtotalSum DEF n
<1>3. PICK k : SumsOver(k, 1 .. n + 1, Costs(after)) /\ Cart!Subtotal(after, Price) = k[1 .. n + 1]
  BY <1>1, SubtotalSum
<1>4. (1 .. n + 1) \ {n + 1} = 1 .. n /\ n + 1 \in 1 .. n + 1 /\ 1 .. n \in SUBSET (1 .. n + 1)
  BY <1>1
<1>5. \A i \in 1 .. n : Costs(after)[i] = Costs(lines)[i]
  BY <1>1 DEF Costs, n
<1>6. Costs(after)[n + 1] = Cost(item)
  BY <1>1 DEF Costs
<1> DEFINE B == 1 .. n
           D == 1 .. n + 1
<1>7. /\ SumsOver(h, B, Costs(lines)) /\ SumsOver(k, D, Costs(after))
      /\ B \in SUBSET D /\ B \in SUBSET B /\ D \in SUBSET D /\ IsFiniteSet(B)
      /\ n + 1 \in D /\ D \ {n + 1} = B
      /\ \A i \in B : Costs(after)[i] = Costs(lines)[i]
  <2>1. IsFiniteSet(B)
    BY <1>1, FS_Interval
  <2> QED BY <1>2, <1>3, <1>4, <1>5, <2>1
<1>8. h[1 .. n] = h[B] /\ k[1 .. n + 1] = k[D]
  OBVIOUS
<1> HIDE DEF B, D
<1>9. h[B] = k[B]
  BY <1>7, SumsAgree
<1>10. k[D] = Costs(after)[n + 1] + k[B] /\ k[B] \in Int
  <2>1. k[D] = Costs(after)[n + 1] + k[D \ {n + 1}]
    BY <1>7 DEF SumsOver
  <2> QED BY <1>7, <2>1 DEF SumsOver
<1>11. Cost(item) \in Int
  BY CostType
<1> QED
  BY <1>2, <1>3, <1>6, <1>8, <1>9, <1>10, <1>11 DEF after

(* So does growing one of the lines by the item.                           *)
LEMMA SubtotalGrown ==
  ASSUME Price \in [Product -> Nat], NEW lines \in Seq(SaleLine), NEW after \in Seq(SaleLine),
         Len(after) = Len(lines), NEW x \in 1 .. Len(lines), NEW d \in Int,
         \A i \in 1 .. Len(lines) : i # x => after[i] = lines[i],
         Cost(after[x]) = Cost(lines[x]) + d
  PROVE  Cart!Subtotal(after, Price) = Cart!Subtotal(lines, Price) + d
<1> DEFINE D == 1 .. Len(lines)
<1>1. PICK h : SumsOver(h, D, Costs(lines)) /\ Cart!Subtotal(lines, Price) = h[D]
  BY SubtotalSum
<1>2. PICK k : SumsOver(k, D, Costs(after)) /\ Cart!Subtotal(after, Price) = k[D]
  BY SubtotalSum
<1>3. D \ {x} \in SUBSET D /\ IsFiniteSet(D \ {x})
  <2>1. IsFiniteSet(D)
    <3>1. Len(lines) \in Nat
      OBVIOUS
    <3> QED BY <3>1, FS_Interval
  <2> HIDE DEF D
  <2> QED BY <2>1, FS_Subset
<1>4. \A i \in D \ {x} : Costs(after)[i] = Costs(lines)[i]
  BY DEF Costs
<1>5. h[D \ {x}] = k[D \ {x}]
  <2> HIDE DEF D
  <2> QED BY <1>1, <1>2, <1>3, <1>4, SumsAgree
<1>6. Costs(after)[x] = Cost(after[x]) /\ Costs(lines)[x] = Cost(lines[x])
  BY DEF Costs
<1>7. h[D] = Costs(lines)[x] + h[D \ {x}] /\ k[D] = Costs(after)[x] + k[D \ {x}]
  <2>1. D \in SUBSET D /\ x \in D
    OBVIOUS
  <2> HIDE DEF D
  <2> QED BY <1>1, <1>2, <2>1 DEF SumsOver
<1>8. Cost(lines[x]) \in Int /\ h[D \ {x}] \in Int
  <2>1. lines[x] \in SaleLine
    BY ElementOfSeq
  <2> QED BY <2>1, <1>1, <1>3, CostType DEF SumsOver
<1> QED
  <2> HIDE DEF D
  <2> QED BY <1>1, <1>2, <1>5, <1>6, <1>7, <1>8

(* Merging the items does not change what they cost.                       *)
LEMMA SubtotalKept ==
  ASSUME Price \in [Product -> Nat], NEW goods \in Seq(SaleLine), ~ Cart!Refuses(goods)
  PROVE  Cart!Subtotal(Cart!Normalized(goods), Price) = Cart!Subtotal(goods, Price)
<1>1. PICK acc : Merges(goods, acc) /\ Cart!Normalized(goods) = acc[Len(goods)]
  BY CartMerges
<1>2. PICK h : Counts(h, goods)
  BY CountsExist
<1> DEFINE n == Len(goods)
           upTo(k) == [i \in 1 .. k |-> goods[i]]
           P == {k \in 0 .. n : /\ KeepsUpTo(goods, h, k, acc[k])
                                /\ Cart!Subtotal(acc[k], Price) = Cart!Subtotal(upTo(k), Price)}
<1>3. 0 \in P
  <2>1. acc[0] = <<>> /\ <<>> \in Seq(SaleLine) /\ DOMAIN <<>> = {} /\ 1 .. 0 = {}
    BY <1>1 DEF Merges
  <2>2. KeepsUpTo(goods, h, 0, acc[0])
    BY <2>1 DEF KeepsUpTo
  <2>3. upTo(0) = <<>>
    BY <2>1
  <2> QED BY <2>1, <2>2, <2>3
<1>4. ASSUME NEW k \in P, k < n PROVE k + 1 \in P
  <2> DEFINE lines == acc[k]
             item == goods[k + 1]
             after == acc[k + 1]
  <2>1. k \in Nat /\ k + 1 \in 1 .. Len(goods) /\ k + 1 \in 0 .. Len(goods) /\ k < Len(goods)
    BY <1>4
  <2>2. after = Cart!AddItem(lines, item) /\ item \in SaleLine
    <3>1. (k + 1) - 1 = k
      BY <2>1
    <3> QED BY <1>1, <2>1, <3>1, ElementOfSeq DEF Merges
  <2>3. KeepsUpTo(goods, h, k, lines) /\ Cart!Subtotal(lines, Price) = Cart!Subtotal(upTo(k), Price)
    BY <1>4
  <2>4. Cart!Subtotal(upTo(k + 1), Price) = Cart!Subtotal(upTo(k), Price) + Cost(item)
    <3>1. upTo(k) \in Seq(SaleLine) /\ upTo(k + 1) = Append(upTo(k), item)
      <4>1. \A i \in 1 .. k + 1 : goods[i] \in SaleLine
        BY <2>1, ElementOfSeq
      <4>2. upTo(k) \in Seq(SaleLine) /\ upTo(k + 1) \in Seq(SaleLine)
              /\ Len(upTo(k)) = k /\ Len(upTo(k + 1)) = k + 1
        BY <4>1, <2>1
      <4> QED BY <4>2, <2>1
    <3> HIDE DEF upTo, item
    <3> QED BY <3>1, <2>2, SubtotalAppended
  <2>5. KeepsUpTo(goods, h, k + 1, after) /\ Cart!Subtotal(after, Price) = Cart!Subtotal(lines, Price) + Cost(item)
    <3>1. ASSUME item.unit = NoUnit, NEW x \in DOMAIN lines, Cart!SameProductLine(lines[x], item)
          PROVE  /\ KeepsUpTo(goods, h, k + 1, after)
                 /\ Cart!Subtotal(after, Price) = Cart!Subtotal(lines, Price) + Cost(item)
      <4>1. KeepsUpTo(goods, h, k + 1, after)
        <5> HIDE DEF P, lines, after
        <5> QED BY <3>1, <1>2, <2>1, <2>2, <2>3, ItemMerged
      <4>2. lines \in Seq(SaleLine) /\ after \in Seq(SaleLine)
        BY <4>1, <2>3 DEF KeepsUpTo
      <4>3. DOMAIN after = DOMAIN lines
              /\ \A y \in DOMAIN lines : after[y] = IF Cart!SameProductLine(lines[y], item)
                    THEN [lines[y] EXCEPT !.quantity = @ + item.quantity] ELSE lines[y]
        <5> HIDE DEF lines, item, after
        <5> QED BY <2>2, <3>1 DEF Cart!AddItem
      <4> HIDE DEF lines, item, after, P
      <4>4. \A y \in DOMAIN lines : Cart!SameProductLine(lines[y], item) => y = x
        <5>1. \A y \in DOMAIN lines : Cart!SameProductLine(lines[y], item)
                                         => Cart!SameGoods(lines[y], lines[x])
          BY <3>1 DEF Cart!SameProductLine, Cart!SameGoods
        <5> QED BY <5>1, <2>3 DEF KeepsUpTo
      <4>5. Len(after) = Len(lines) /\ x \in 1 .. Len(lines) /\ DOMAIN lines = 1 .. Len(lines)
        BY <4>2, <4>3, <3>1
      <4> DEFINE line == lines[x]
      <4>6. line \in SaleLine
        BY <4>2, <4>5, ElementOfSeq
      <4>7. after[x] = [line EXCEPT !.quantity = @ + item.quantity]
        BY <4>3, <3>1
      <4>8. line.product = item.product
        BY <3>1 DEF Cart!SameProductLine
      <4>9. \A i \in 1 .. Len(lines) : i # x => after[i] = lines[i]
        BY <4>3, <4>4, <4>5
      <4> HIDE DEF line
      <4>10. Cost(after[x]) = Cost(line) + Cost(item)
        <5>1. after[x].product = line.product /\ after[x].quantity = line.quantity + item.quantity
          BY <4>6, <4>7 DEF SaleLine
        <5> DEFINE a == Price[item.product]
                   b == line.quantity
                   c == item.quantity
        <5>2. a \in Nat /\ b \in Nat /\ c \in Nat
          BY <2>2, <4>6 DEF SaleLine
        <5>3. Cost(after[x]) = a * (b + c) /\ Cost(line) = a * b /\ Cost(item) = a * c
          BY <5>1, <4>8 DEF Cost
        <5> HIDE DEF a, b, c
        <5> QED BY <5>2, <5>3
      <4>11. Cost(item) \in Int
        BY <2>2, CostType
      <4> QED BY <4>1, <4>2, <4>5, <4>9, <4>10, <4>11, SubtotalGrown DEF line
    <3>2. ASSUME ~ (item.unit = NoUnit /\ \E x \in DOMAIN lines : Cart!SameProductLine(lines[x], item))
          PROVE  /\ KeepsUpTo(goods, h, k + 1, after)
                 /\ Cart!Subtotal(after, Price) = Cart!Subtotal(lines, Price) + Cost(item)
      <4> HIDE DEF P, lines, after
      <4>1. KeepsUpTo(goods, h, k + 1, after)
        BY <3>2, <1>2, <2>1, <2>2, <2>3, ItemAppended
      <4>2. lines \in Seq(SaleLine)
        BY <2>3 DEF KeepsUpTo
      <4> HIDE DEF item
      <4>3. after = Append(lines, item)
        BY <2>2, <3>2 DEF Cart!AddItem
      <4> QED BY <4>1, <4>2, <4>3, <2>2, SubtotalAppended
    <3> HIDE DEF lines, item, after, P
    <3> QED BY <3>1, <3>2
  <2> HIDE DEF lines, item, upTo
  <2> QED BY <2>1, <2>3, <2>4, <2>5
<1>5. P = 0 .. n
  <2>1. P \subseteq 0 .. n /\ n \in Nat
    OBVIOUS
  <2> HIDE DEF P, n
  <2> QED BY <1>3, <1>4, <2>1, IntervalInduction
<1>6. n \in P
  <2>1. n \in 0 .. n
    OBVIOUS
  <2> QED BY <1>5, <2>1
<1>7. upTo(n) = goods
  OBVIOUS
<1> QED
  BY <1>1, <1>6, <1>7

(* The quantity for one product or unit, from the counts of a cart.        *)
LEMMA QuantityOfItems ==
  ASSUME items \in Seq(SaleLine), NEW h, Counts(h, items), NEW p, NEW u
  PROVE  Quantity(items, p, u) = h[LinesFor(items, p, u)]
<1> DEFINE S == LinesFor(items, p, u)
           D == 1 .. Len(items)
           g == [i \in D |-> items[i].quantity]
           f == [i \in S |-> items[i].quantity]
<1>1. S \in SUBSET DOMAIN items /\ DOMAIN items = D
  BY DEF LinesFor
<1>2. PICK k : SumsOver(k, S, f) /\ SumOfLines(items, S) = k[S]
  <2> HIDE DEF S
  <2> QED BY <1>1, LinesSum
<1>3. PICK a : SumsOver(a, D, g)
  <2>1. D \in SUBSET DOMAIN items
    BY <1>1
  <2> HIDE DEF D
  <2> QED BY <2>1, LinesSum
<1>4. IsFiniteSet(S) /\ IsFiniteSet(D)
  <2>1. IsFiniteSet(D)
    BY FS_Interval
  <2> HIDE DEF D, S
  <2> QED BY <2>1, <1>1, FS_Subset
<1>5. SumsOver([s \in SUBSET D |-> h[s]], D, g)
  <2>1. \A s \in SUBSET D : h[s] \in Int /\ \A x \in s : h[s] = items[x].quantity + h[s \ {x}]
    BY DEF Counts
  <2>2. h[{}] = 0
    BY DEF Counts
  <2>3. \A x \in D : g[x] = items[x].quantity
    OBVIOUS
  <2> HIDE DEF D, g
  <2> QED BY <2>1, <2>2, <2>3 DEF SumsOver
<1> DEFINE b == [s \in SUBSET D |-> h[s]]
<1>6. \A x \in S : f[x] = g[x]
  BY <1>1
<1>7. S \in SUBSET D /\ S \in SUBSET S
  BY <1>1
<1> HIDE DEF S, D, f, g
<1>8. b[S] = h[S]
  BY <1>7
<1> HIDE DEF b
<1>9. b[S] = k[S]
  <2>1. SumsOver(b, D, g)
    BY <1>5 DEF b
  <2> QED BY <2>1, <1>2, <1>4, <1>6, <1>7, SumsAgree
<1> QED
  BY <1>2, <1>8, <1>9 DEF Quantity, S

(* No cart loses or doubles an item when it is merged.                     *)
LEMMA MergedQuantity ==
  ASSUME items \in Seq(SaleLine), NEW h, Counts(h, items),
         NEW lines, KeepsUpTo(items, h, Len(items), lines), NEW p, NEW u
  PROVE  Quantity(lines, p, u) = h[LinesFor(items, p, u)]
<1> DEFINE S == LinesFor(lines, p, u)
<1>1. lines \in Seq(SaleLine) /\ S \in SUBSET DOMAIN lines
  BY DEF KeepsUpTo, LinesFor
<1>2. PICK k : SumsOver(k, S, [i \in S |-> lines[i].quantity]) /\ SumOfLines(lines, S) = k[S]
  <2> HIDE DEF S
  <2> QED BY <1>1, LinesSum
<1>3. DOMAIN items = 1 .. Len(items)
  OBVIOUS
<1>4. CASE S = {}
  <2>1. LinesFor(items, p, u) = {}
    <3>1. \A i \in 1 .. Len(items) : \E j \in DOMAIN lines : Cart!SameGoods(items[i], lines[j])
      BY DEF KeepsUpTo
    <3> QED BY <3>1, <1>3, <1>4 DEF LinesFor, Cart!SameGoods
  <2>2. k[{}] = 0 /\ h[{}] = 0
    BY <1>2 DEF SumsOver, Counts
  <2> QED BY <1>2, <1>4, <2>1, <2>2 DEF Quantity
<1>5. CASE S # {}
  <2>1. PICK j : j \in S
    BY <1>5
  <2>2. j \in DOMAIN lines /\ lines[j].product = p /\ lines[j].unit = u
    BY <2>1 DEF LinesFor
  <2>3. S = {j}
    <3>1. \A i \in S : Cart!SameGoods(lines[i], lines[j]) /\ i \in DOMAIN lines
      BY <2>2 DEF LinesFor, Cart!SameGoods
    <3>2. \A i \in S : i = j
      <4> HIDE DEF S
      <4> QED BY <3>1, <2>2 DEF KeepsUpTo
    <3> QED BY <3>2, <2>1
  <2>4. LinesFor(items, p, u) = ItemsOf(items, Len(items), lines[j])
    BY <2>2, <1>3 DEF LinesFor, ItemsOf, Cart!SameGoods
  <2>5. lines[j].quantity = h[LinesFor(items, p, u)]
    BY <2>2, <2>4 DEF KeepsUpTo
  <2>6. k[S] = lines[j].quantity
    <3> DEFINE f == [i \in S |-> lines[i].quantity]
    <3>1. f[j] = lines[j].quantity
      BY <2>1
    <3>2. lines[j].quantity \in Nat
      <4>1. lines[j] \in SaleLine
        BY <1>1, <2>2, ElementOfSeq
      <4> QED BY <4>1 DEF SaleLine
    <3>3. S \ {j} = {} /\ S \in SUBSET S
      BY <2>3
    <3> HIDE DEF S, f
    <3>4. SumsOver(k, S, f)
      BY <1>2 DEF f
    <3>5. k[S] = f[j] + k[S \ {j}]
      BY <3>4, <3>3, <2>1 DEF SumsOver
    <3>6. k[S \ {j}] = 0
      BY <3>4, <3>3 DEF SumsOver
    <3> QED BY <3>1, <3>2, <3>5, <3>6
  <2> QED BY <1>2, <2>5, <2>6 DEF Quantity
<1> QED
  BY <1>4, <1>5

(* The first item of a product or unit, and that of the next.              *)
LEMMA FirstBefore ==
  ASSUME items \in Seq(SaleLine), NEW a, NEW b, NEW e \in 1 .. Len(items),
         Cart!SameGoods(items[e], a),
         NEW c \in 1 .. Len(items), Cart!SameGoods(items[c], b),
         \A d \in 1 .. Len(items) : Cart!SameGoods(items[d], b) => e < d
  PROVE  FirstOf(a) < FirstOf(b)
<1> DEFINE A == {i \in DOMAIN items : Cart!SameGoods(items[i], a)}
           B == {i \in DOMAIN items : Cart!SameGoods(items[i], b)}
<1>1. Len(items) \in Nat /\ A \in SUBSET (1 .. Len(items)) /\ B \in SUBSET (1 .. Len(items))
        /\ e \in A /\ c \in B /\ \A d \in B : e < d
  OBVIOUS
<1> HIDE DEF A, B
<1>2. Min(A) \in A /\ \A y \in A : Min(A) =< y
  BY <1>1, FirstIndexIn
<1>3. Min(B) \in B
  BY <1>1, FirstIndexIn
<1> DEFINE a1 == Min(A)
           b1 == Min(B)
<1>4. a1 \in 1 .. Len(items) /\ b1 \in 1 .. Len(items) /\ a1 =< e /\ e < b1
  <2> HIDE DEF a1, b1
  <2>1. a1 \in A /\ b1 \in B /\ \A y \in A : a1 =< y
    BY <1>2, <1>3 DEF a1, b1
  <2> QED BY <2>1, <1>1
<1> HIDE DEF a1, b1
<1>5. a1 < b1
  BY <1>1, <1>4
<1> QED
  BY <1>5 DEF FirstOf, A, B, a1, b1

(* Such a cart is merged without a loss.                                   *)
LEMMA CartKeepsOrder ==
  ASSUME items \in Seq(SaleLine) PROVE NormalizedKeepsOrder
<1> SUFFICES ASSUME ~ Cart!Refuses(items) PROVE NormalizedKeepsOrder
  BY DEF NormalizedKeepsOrder
<1> DEFINE lines == Cart!Normalized(items)
<1>1. PICK h : Counts(h, items)
  BY CountsExist
<1>2. KeepsUpTo(items, h, Len(items), lines)
  BY <1>1, CartKept
<1>3. Cart!Subtotal(lines, Price) = Cart!Subtotal(items, Price)
  BY SubtotalKept, CartAssumption
<1> HIDE DEF lines
<1>4. \A p \in Product, u \in Unit \cup {NoUnit} : Quantity(lines, p, u) = Quantity(items, p, u)
  BY <1>1, <1>2, QuantityOfItems, MergedQuantity
<1>5. \A i, j \in DOMAIN lines : Cart!SameGoods(lines[i], lines[j]) => i = j
  BY <1>2 DEF KeepsUpTo
<1>6. ASSUME NEW i \in DOMAIN lines, NEW j \in DOMAIN lines, i < j
      PROVE  FirstOf(lines[i]) < FirstOf(lines[j])
  <2>1. PICK e \in 1 .. Len(items) :
           /\ Cart!SameGoods(items[e], lines[i])
           /\ \A d \in 1 .. Len(items) : Cart!SameGoods(items[d], lines[j]) => e < d
    BY <1>2, <1>6 DEF KeepsUpTo
  <2>2. PICK c \in 1 .. Len(items) : Cart!SameGoods(items[c], lines[j])
    BY <1>2, <1>6 DEF KeepsUpTo
  <2> QED BY <2>1, <2>2, FirstBefore
<1> QED
  BY <1>3, <1>4, <1>5, <1>6 DEF NormalizedKeepsOrder, lines

-----------------------------------------------------------------------------
(* Whatever the client puts into it is an item of the cart.                *)
LEMMA CartTyped == CartSpec => [](items \in Seq(SaleLine))
<1>1. InitCart => items \in Seq(SaleLine)
  BY DEF InitCart
<1>2. items \in Seq(SaleLine) /\ [FillCart]_items => (items \in Seq(SaleLine))'
  BY CartAssumption DEF FillCart
<1> QED
  BY <1>1, <1>2, PTL DEF CartSpec

(* normalizeCheckoutItems keeps quantities, order and total of every cart. *)
THEOREM CartsKeepOrder == CartSpec => []NormalizedKeepsOrder
BY CartTyped, CartKeepsOrder, PTL
===============================================================================
