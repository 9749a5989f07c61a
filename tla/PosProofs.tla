----------------------------- MODULE PosProofs ------------------------------
(***************************************************************************)
(* What is proved of the three views of the point of sale, for any sales,  *)
(* handlers, shifts, movements, carts and bounds. Each view has its own    *)
(* state and its own inductive invariant; the module has one part per      *)
(* view: PosCounter (IInv), PosOffline (OfflineInv) and CashDrawer         *)
(* (DrawerInv).                                                            *)
(***************************************************************************)
EXTENDS PosCounter, PosOffline, CashDrawer, FiniteSetTheorems, TLAPS

-----------------------------------------------------------------------------
(***************************************************************************)
(* The counter: the customer's wallet is never overdrawn, goods and credit *)
(* follow the sale, and only a top-up that overwrites a changed balance    *)
(* loses track of the credit. One inductive invariant carries them: IInv   *)
(* says, for every step of every request, what the sale it works on has    *)
(* taken, given back and drawn so far (Worked), and what a sale nobody     *)
(* works on looks like (Resting).                                          *)
(***************************************************************************)

Row == [st : {"absent", "made", "draft", "CANCELLED"}, credit : BOOLEAN,
        handover : {"none", "PENDING", "DONE"}, taken : Int, back : Nat,
        noted : Nat, drawn : Int]

\* Requests that hold no sale, and those that do.
NoSaleYet == {"idle", "reserve", "invoice", "topup"}
Working == {"debit", "release", "cancel", "restore", "goods", "note", "credit",
            "take", "done"}
Request == [pc : NoSaleYet \cup Working, sale : Sales \cup {None}, credit : BOOLEAN,
            deferred : BOOLEAN, units : Nat, balance : Nat]

TypeOK ==
  /\ req \in [Handlers -> Request] /\ sale \in [Sales -> Row]
  /\ wallet \in Nat /\ topped \in Nat

(***************************************************************************)
(* Sums over finite sets. SumFunctionOnSet is a recursive function over    *)
(* the subsets of its set; what it computes is proved with the             *)
(* well-foundedness of the strict subset order.                            *)
(***************************************************************************)
\* One unfolding of the recursion behind SumFunctionOnSet.
SumBody(f, g, s) ==
  IF s = {} THEN 0 ELSE f[CHOOSE x \in s : TRUE] + g[s \ {CHOOSE x \in s : TRUE}]
IsSum(f, S, g) == g = [s \in SUBSET S |-> SumBody(f, g, s)]

\* What the library's sum unfolds to.
LEMMA SumIs ==
  ASSUME NEW f, NEW S
  PROVE  SumFunctionOnSet(f, S) = (CHOOSE g : IsSum(f, S, g))[S]
BY DEF SumFunctionOnSet, FoldFunctionOnSet, MapThenFoldSet, IsSum, SumBody

\* A family of subsets of a finite set has a smallest member.
LEMMA SmallestSubset ==
  ASSUME NEW S, IsFiniteSet(S), NEW F \in SUBSET SUBSET S, F # {}
  PROVE  \E T \in F : \A U \in F : ~(U \subseteq T /\ U # T)
<1> DEFINE R == StrictSubsetOrdering(S)
<1>1. IsWellFoundedOn(R, SUBSET S)
  BY FS_StrictSubsetOrderingWellFounded, FS_FiniteSubsetsOfFinite
<1>2. \E T \in F : \A U \in F : ~(<<U, T>> \in R)
  <2> HIDE DEF R
  <2> QED BY <1>1, WFMin
<1> QED BY <1>2 DEF StrictSubsetOrdering

\* A sum function of a set is, restricted, one of each of its subsets.
LEMMA SumRestricts ==
  ASSUME NEW f, NEW S, NEW g, IsSum(f, S, g), NEW T \in SUBSET S
  PROVE  IsSum(f, T, [s \in SUBSET T |-> g[s]])
<1> DEFINE h == [s \in SUBSET T |-> g[s]]
<1>1. ASSUME NEW s \in SUBSET T PROVE h[s] = SumBody(f, h, s)
  <2>1. h[s] = g[s] /\ g[s] = SumBody(f, g, s)
    BY DEF IsSum
  <2>2. s # {} => h[s \ {CHOOSE x \in s : TRUE}] = g[s \ {CHOOSE x \in s : TRUE}]
    OBVIOUS
  <2> QED BY <2>1, <2>2 DEF SumBody
<1> QED BY <1>1 DEF IsSum

\* A finite set has one sum function, and it exists.
LEMMA SumUnique ==
  ASSUME NEW f, NEW S, IsFiniteSet(S), NEW g, NEW h, IsSum(f, S, g), IsSum(f, S, h)
  PROVE  g = h
<1> DEFINE F == {s \in SUBSET S : g[s] # h[s]}
<1>1. CASE F = {}
  BY <1>1 DEF IsSum
<1>2. CASE F # {}
  <2>0. F \in SUBSET SUBSET S
    OBVIOUS
  <2>1. PICK s \in F : \A U \in F : ~(U \subseteq s /\ U # s)
    <3> HIDE DEF F
    <3> QED BY <1>2, <2>0, SmallestSubset
  <2>2. g[s] = SumBody(f, g, s) /\ h[s] = SumBody(f, h, s)
    BY DEF IsSum
  <2>3. s # {}
    BY <2>2 DEF SumBody
  <2> DEFINE x == CHOOSE x \in s : TRUE
  <2>4. x \in s
    BY <2>3
  <2>5. s \ {x} \in SUBSET S /\ s \ {x} \notin F
    BY <2>1, <2>4
  <2> QED BY <2>2, <2>3, <2>5 DEF SumBody
<1> QED BY <1>1, <1>2

Iter(f, S) == CHOOSE g : IsSum(f, S, g)

LEMMA SumExists ==
  ASSUME NEW f, NEW S, IsFiniteSet(S)
  PROVE  IsSum(f, S, Iter(f, S))
<1> DEFINE F == {T \in SUBSET S : ~\E g : IsSum(f, T, g)}
<1>1. SUFFICES F = {}
  <2>1. S \notin F
    BY <1>1
  <2> QED BY <2>1 DEF Iter
<1>2. SUFFICES ASSUME F # {} PROVE FALSE
  OBVIOUS
<1>3. PICK T \in F : \A U \in F : ~(U \subseteq T /\ U # T)
  <2>1. F \in SUBSET SUBSET S
    OBVIOUS
  <2> HIDE DEF F
  <2> QED BY <1>2, <2>1, SmallestSubset
<1>4. ASSUME NEW U \in SUBSET T, U # T PROVE IsSum(f, U, Iter(f, U)) /\ IsFiniteSet(U)
  <2>1. U \notin F /\ U \in SUBSET S
    BY <1>3, <1>4
  <2>2. IsFiniteSet(U)
    BY <2>1, FS_Subset
  <2> QED BY <2>1, <2>2 DEF Iter
<1> DEFINE W == [s \in SUBSET T |-> Iter(f, s)[s]]
           V == [s \in SUBSET T |-> IF s = T THEN SumBody(f, W, T) ELSE W[s]]
<1>5. ASSUME NEW U \in SUBSET T, U # T PROVE W[U] = SumBody(f, W, U)
  <2>1. W[U] = Iter(f, U)[U]
    OBVIOUS
  <2>2. Iter(f, U)[U] = SumBody(f, Iter(f, U), U)
    <3> DEFINE g == Iter(f, U)
    <3>1. IsSum(f, U, g)
      BY <1>4, <1>5
    <3> HIDE DEF g
    <3>2. g[U] = SumBody(f, g, U)
      BY <3>1 DEF IsSum
    <3> QED BY <3>2 DEF g
  <2>3. ASSUME U # {} PROVE Iter(f, U)[U \ {CHOOSE x \in U : TRUE}] = W[U \ {CHOOSE x \in U : TRUE}]
    <3> DEFINE x == CHOOSE x \in U : TRUE
               R == U \ {x}
               g == Iter(f, U)
               h == [s \in SUBSET R |-> g[s]]
    <3>1. x \in U /\ R \in SUBSET T /\ R # T /\ R \in SUBSET U
      BY <2>3, <1>5
    <3>2. IsSum(f, R, h)
      BY <1>4, <1>5, <3>1, SumRestricts
    <3>3. IsSum(f, R, Iter(f, R)) /\ IsFiniteSet(R)
      BY <1>4, <3>1
    <3>4. h = Iter(f, R)
      BY <3>2, <3>3, SumUnique
    <3>5. h[R] = g[R] /\ W[R] = Iter(f, R)[R]
      BY <3>1
    <3> QED BY <3>4, <3>5
  <2> QED BY <2>1, <2>2, <2>3 DEF SumBody
<1>6. ASSUME NEW s \in SUBSET T PROVE V[s] = SumBody(f, V, s)
  <2> DEFINE x == CHOOSE x \in s : TRUE
  <2>1. V[s] = SumBody(f, W, s)
    BY <1>5
  <2>2. s # {} => V[s \ {x}] = W[s \ {x}]
    <3>1. s # {} => x \in s
      OBVIOUS
    <3>2. s # {} => s \ {x} # T /\ s \ {x} \in SUBSET T
      BY <3>1
    <3> QED BY <3>2
  <2> HIDE DEF W, V
  <2> QED BY <2>1, <2>2 DEF SumBody
<1>7. IsSum(f, T, V)
  BY <1>6 DEF IsSum
<1> QED BY <1>3, <1>7

\* The sum of a finite set: nothing, or the chosen element's term and the rest.
LEMMA SumRec ==
  ASSUME NEW f, NEW S, IsFiniteSet(S)
  PROVE  /\ S = {} => SumFunctionOnSet(f, S) = 0
         /\ S # {} => \E x \in S : SumFunctionOnSet(f, S) = f[x] + SumFunctionOnSet(f, S \ {x})
<1> DEFINE g == Iter(f, S)
<1>1. IsSum(f, S, g) /\ SumFunctionOnSet(f, S) = g[S]
  BY SumExists, SumIs DEF Iter
<1>2. g[S] = SumBody(f, g, S)
  <2> HIDE DEF g
  <2> QED BY <1>1 DEF IsSum
<1>3. S = {} => SumFunctionOnSet(f, S) = 0
  BY <1>1, <1>2 DEF SumBody
<1>4. ASSUME S # {}
      PROVE  \E x \in S : SumFunctionOnSet(f, S) = f[x] + SumFunctionOnSet(f, S \ {x})
  <2> DEFINE x == CHOOSE x \in S : TRUE
             R == S \ {x}
             h == [s \in SUBSET R |-> g[s]]
  <2>1. x \in S /\ R \in SUBSET S
    BY <1>4
  <2>2. IsFiniteSet(R)
    BY <2>1, FS_Subset
  <2>3. IsSum(f, R, h)
    BY <1>1, <2>1, SumRestricts
  <2>4. IsSum(f, R, Iter(f, R)) /\ SumFunctionOnSet(f, R) = Iter(f, R)[R]
    BY <2>2, SumExists, SumIs DEF Iter
  <2>5. h = Iter(f, R)
    BY <2>2, <2>3, <2>4, SumUnique
  <2>6. g[R] = SumFunctionOnSet(f, R)
    BY <2>4, <2>5
  <2> QED BY <1>1, <1>2, <1>4, <2>1, <2>6 DEF SumBody
<1> QED BY <1>3, <1>4

\* The order does not matter: any element's term may be taken out first.
LEMMA SumRemove ==
  ASSUME NEW S, IsFiniteSet(S), NEW f, \A x \in S : f[x] \in Int
  PROVE  /\ SumFunctionOnSet(f, S) \in Int
         /\ \A y \in S : SumFunctionOnSet(f, S) = f[y] + SumFunctionOnSet(f, S \ {y})
<1> DEFINE Sum(T) == SumFunctionOnSet(f, T)
           Good(T) == Sum(T) \in Int /\ \A y \in T : Sum(T) = f[y] + Sum(T \ {y})
           F == {T \in SUBSET S : ~Good(T)}
<1> HIDE DEF Sum
<1>1. CASE F = {}
  BY <1>1 DEF Sum
<1>2. CASE F # {}
  <2>0. F \in SUBSET SUBSET S
    OBVIOUS
  <2>1. PICK T \in F : \A U \in F : ~(U \subseteq T /\ U # T)
    <3> HIDE DEF F
    <3> QED BY <1>2, <2>0, SmallestSubset
  <2>2. IsFiniteSet(T) /\ T \in SUBSET S
    BY FS_Subset
  <2>3. ASSUME NEW y \in T PROVE Good(T \ {y})
    BY <2>1
  <2>4. CASE T = {}
    BY <2>2, <2>4, SumRec DEF Sum
  <2>5. CASE T # {}
    <3>1. PICK x \in T : Sum(T) = f[x] + Sum(T \ {x})
      BY <2>2, <2>5, SumRec DEF Sum
    <3>2. Sum(T \ {x}) \in Int /\ f[x] \in Int
      BY <2>2, <2>3
    <3>3. ASSUME NEW y \in T, y # x PROVE Sum(T) = f[y] + Sum(T \ {y})
      <4>1. Sum(T \ {x}) = f[y] + Sum((T \ {x}) \ {y})
        BY <2>3, <3>3
      <4>2. Sum(T \ {y}) = f[x] + Sum((T \ {y}) \ {x})
        BY <2>3, <3>3
      <4>3. (T \ {x}) \ {y} = (T \ {y}) \ {x}
        OBVIOUS
      <4>4. Sum((T \ {x}) \ {y}) \in Int
        <5>1. (T \ {x}) \ {y} \notin F
          BY <2>1
        <5> QED BY <2>2, <5>1
      <4>5. f[y] \in Int
        BY <2>2
      <4> DEFINE a == f[x]
                 b == f[y]
                 rest == Sum((T \ {x}) \ {y})
      <4>6. Sum(T) = a + (b + rest) /\ Sum(T \ {y}) = a + rest
        BY <3>1, <4>1, <4>2, <4>3
      <4>7. a \in Int /\ b \in Int /\ rest \in Int
        BY <3>2, <4>4, <4>5
      <4> HIDE DEF a, b, rest
      <4>8. a + (b + rest) = b + (a + rest)
        BY ONLY <4>7
      <4> QED BY <4>6, <4>8 DEF b
    <3>4. Sum(T) \in Int
      BY <3>1, <3>2
    <3>5. Good(T)
      BY <3>1, <3>3, <3>4
    <3> QED BY <3>5
  <2> QED BY <2>4, <2>5
<1> QED BY <1>1, <1>2

\* Equal terms have equal sums.
LEMMA SumSame ==
  ASSUME NEW S, IsFiniteSet(S), NEW f, NEW g, \A x \in S : f[x] \in Int /\ g[x] = f[x]
  PROVE  SumFunctionOnSet(g, S) = SumFunctionOnSet(f, S)
<1> DEFINE F == {T \in SUBSET S : SumFunctionOnSet(g, T) # SumFunctionOnSet(f, T)}
<1>1. CASE F = {}
  BY <1>1
<1>2. CASE F # {}
  <2>0. F \in SUBSET SUBSET S
    OBVIOUS
  <2>1. PICK T \in F : \A U \in F : ~(U \subseteq T /\ U # T)
    <3> HIDE DEF F
    <3> QED BY <1>2, <2>0, SmallestSubset
  <2>2. IsFiniteSet(T) /\ T \in SUBSET S
    BY FS_Subset
  <2>3. CASE T = {}
    BY <2>2, <2>3, SumRec
  <2>4. CASE T # {}
    <3>1. PICK y : y \in T
      BY <2>4
    <3>2. SumFunctionOnSet(f, T) = f[y] + SumFunctionOnSet(f, T \ {y})
      BY <2>2, <3>1, SumRemove
    <3>3. SumFunctionOnSet(g, T) = g[y] + SumFunctionOnSet(g, T \ {y})
      BY <2>2, <3>1, SumRemove
    <3>4. T \ {y} \notin F
      BY <2>1, <3>1
    <3> QED BY <2>2, <3>1, <3>2, <3>3, <3>4
  <2> QED BY <2>3, <2>4
<1> QED BY <1>1, <1>2

-----------------------------------------------------------------------------
\* Handed over in full, and still to be handed over.
Standing(a) == a.st = "made" /\ a.handover # "PENDING" /\ a.taken = Qty
Waiting(a) == a.st = "made" /\ a.handover = "PENDING" /\ a.back = 0 /\ a.noted = 0

\* What the wallet paid for a sale, when `due' is still owed.
Funded(a, due) == IF a.credit THEN due <= a.drawn /\ a.drawn <= Qty ELSE a.drawn <= 0

\* A sale nobody works on, and one that a request has got half-way with.
Resting(a) ==
  \/ a = NoSale
  \/ Standing(a) /\ a.back = a.noted /\ a.noted <= Qty /\ Funded(a, Qty - a.noted)
  \/ Waiting(a) /\ a.taken = 0 /\ Funded(a, Qty)
  \/ a.st = "CANCELLED" /\ a.handover # "PENDING" /\ a.taken = a.back /\ a.drawn <= 0

Worked(a, r) ==
  \/ /\ r.pc = "debit" /\ a.st = "made" /\ a.credit /\ a.drawn = 0
     /\ a.back = 0 /\ a.noted = 0 /\ a.taken = r.units
     /\ r.units = IF a.handover = "PENDING" THEN 0 ELSE Qty
  \/ /\ r.pc \in {"release", "goods"}
     /\ Standing(a) /\ a.back = a.noted /\ a.noted <= Qty /\ Funded(a, Qty - a.noted)
     /\ IF r.pc = "release" THEN r.units = Qty - a.back ELSE r.units <= Qty - a.noted
  \/ r.pc = "cancel" /\ Standing(a) /\ a.back = Qty /\ Funded(a, Qty - a.noted)
  \/ /\ r.pc = "restore" /\ a.st = "CANCELLED" /\ a.handover # "PENDING"
     /\ a.taken = a.back /\ a.credit /\ a.drawn <= Qty
  \/ /\ r.pc = "note" /\ Standing(a) /\ a.back = a.noted + r.units /\ a.back <= Qty
     /\ Funded(a, Qty - a.noted)
  \/ /\ r.pc = "credit" /\ Standing(a) /\ a.back = a.noted /\ a.noted <= Qty
     /\ Funded(a, Qty - a.noted + r.units)
  \/ r.pc = "take" /\ Waiting(a) /\ a.taken = 0 /\ Funded(a, Qty)
  \/ r.pc = "done" /\ Waiting(a) /\ a.taken = Qty /\ Funded(a, Qty)

\* What a request holds before it has a sale.
Carried(r) ==
  /\ r.pc \in NoSaleYet <=> r.sale = None
  /\ r.pc = "reserve" => ~r.deferred /\ r.units = 0
  /\ r.pc = "invoice" => r.units = IF r.deferred THEN 0 ELSE Qty

AloneOn(s) == \A g, h \in Handlers : req[g].sale = s /\ req[h].sale = s => g = h

Requests == \A h \in Handlers : Carried(req[h])
Absent == \A s \in Sales : sale[s].st = "absent" => sale[s] = NoSale /\ ~Busy(s)
Tended ==
  \A s \in Sales \ astray :
    /\ AloneOn(s)
    /\ ~Busy(s) => Resting(sale[s])
    /\ \A h \in Handlers : req[h].sale = s => Worked(sale[s], req[h])

IInv == TypeOK /\ Requests /\ Absent /\ Tended

\* What the wallet gains the sales give back or the customer pays in.
Kept == wallet' - wallet = (topped' - topped) - (Drawn' - Drawn)


-----------------------------------------------------------------------------
\* What the sales have drawn in all moves with the sale that is written.
LEMMA DrawnMoves ==
  ASSUME IInv, NEW s \in Sales, NEW a \in Row, sale' = [sale EXCEPT ![s] = a]
  PROVE  Drawn \in Int /\ Drawn' \in Int /\ Drawn' - Drawn = a.drawn - sale[s].drawn
<1> DEFINE f == [x \in Sales |-> sale[x].drawn]
           g == [x \in Sales |-> sale'[x].drawn]
           R == Sales \ {s}
<1>1. /\ \A x \in Sales : f[x] \in Int /\ g[x] \in Int
      /\ \A x \in R : g[x] = f[x]
      /\ f[s] = sale[s].drawn /\ g[s] = a.drawn
  BY DEF IInv, TypeOK, Row
<1>2. Drawn = SumFunctionOnSet(f, Sales) /\ Drawn' = SumFunctionOnSet(g, Sales)
  BY DEF Drawn
<1> HIDE DEF f, g
<1>3. IsFiniteSet(R)
  BY FinitelyManySales, FS_Subset
<1>4. /\ SumFunctionOnSet(f, Sales) = f[s] + SumFunctionOnSet(f, R)
      /\ SumFunctionOnSet(f, Sales) \in Int /\ SumFunctionOnSet(f, R) \in Int
  BY <1>1, <1>3, FinitelyManySales, SumRemove
<1>5. /\ SumFunctionOnSet(g, Sales) = g[s] + SumFunctionOnSet(g, R)
      /\ SumFunctionOnSet(g, Sales) \in Int
  BY <1>1, FinitelyManySales, SumRemove
<1>6. SumFunctionOnSet(g, R) = SumFunctionOnSet(f, R)
  BY <1>1, <1>3, SumSame
<1> HIDE DEF R
<1> QED BY <1>1, <1>2, <1>4, <1>5, <1>6

LEMMA DrawnInt == ASSUME IInv PROVE Drawn \in Int
<1>1. \A x \in Sales : [y \in Sales |-> sale[y].drawn][x] \in Int
  BY DEF IInv, TypeOK, Row
<1> QED BY <1>1, FinitelyManySales, SumRemove DEF Drawn

LEMMA IdleOK == Idle \in Request /\ Carried(Idle) /\ NoSale \in Row
  BY CounterConstants DEF Idle, Request, Carried, NoSaleYet, NoSale, Row

-----------------------------------------------------------------------------
\* A step of a request that has no sale, before and after it.
LEMMA Aside ==
  ASSUME IInv, NEW h \in Handlers, NEW r \in Request, Carried(r), r.sale = None,
         req[h].sale = None, req' = [req EXCEPT ![h] = r],
         sale' = sale, astray' = astray, wallet' \in Nat, topped' \in Nat
  PROVE  /\ IInv'
         /\ wallet' - wallet = topped' - topped => Kept
<1> USE DEF IInv
<1>0. /\ req'[h] = r /\ \A g \in Handlers \ {h} : req'[g] = req[g]
      /\ \A s \in Sales : s # None
  BY CounterConstants DEF TypeOK
<1>1. TypeOK'
  BY DEF TypeOK
<1>2. Requests'
  BY <1>0 DEF Requests
<1>3. \A s \in Sales, g \in Handlers :
        req'[g].sale = s <=> req[g].sale = s
  BY <1>0
<1>4. \A s \in Sales : Busy(s)' <=> Busy(s)
  BY <1>3 DEF Busy
<1>5. Absent'
  BY <1>4 DEF Absent
<1>6. Tended'
  <2> SUFFICES ASSUME NEW s \in Sales \ astray'
      PROVE  /\ AloneOn(s)' /\ (~Busy(s)' => Resting(sale'[s]))
             /\ \A g \in Handlers : req'[g].sale = s => Worked(sale'[s], req'[g])
    BY DEF Tended
  <2>1. s \in Sales \ astray
    OBVIOUS
  <2>2. AloneOn(s)'
    BY <1>3, <2>1 DEF Tended, AloneOn
  <2>3. ~Busy(s)' => Resting(sale'[s])
    BY <1>4, <2>1 DEF Tended
  <2>4. ASSUME NEW g \in Handlers, req'[g].sale = s PROVE Worked(sale'[s], req'[g])
    <3>1. g # h /\ req[g].sale = s
      BY <1>0, <2>4
    <3> QED BY <1>0, <2>1, <3>1 DEF Tended
  <2> QED BY <2>2, <2>3, <2>4
<1>7. Drawn' = Drawn
  BY DEF Drawn
<1>8. wallet' - wallet = topped' - topped => Kept
  BY <1>7, DrawnInt DEF Kept, TypeOK
<1> QED BY <1>1, <1>2, <1>5, <1>6, <1>8

\* A step that writes sale s, by the request that works on it or takes it up.
LEMMA OnSale ==
  ASSUME IInv, NEW h \in Handlers, NEW s \in Sales, NEW r \in Request, NEW a \in Row,
         req[h].sale \in {s, None}, r.sale \in {s, None}, Carried(r),
         req' = [req EXCEPT ![h] = r], sale' = [sale EXCEPT ![s] = a], a.st # "absent",
         astray \subseteq astray', astray' \subseteq astray \cup {s},
         s \notin astray' => /\ req[h].sale = s \/ ~Busy(s)
                             /\ IF r.sale = s THEN Worked(a, r) ELSE Resting(a),
         wallet' \in Nat, topped' \in Nat
  PROVE  /\ IInv'
         /\ wallet' - wallet = (topped' - topped) - (a.drawn - sale[s].drawn) => Kept
<1> USE DEF IInv
<1>0. /\ req'[h] = r /\ \A g \in Handlers \ {h} : req'[g] = req[g]
      /\ sale'[s] = a /\ \A x \in Sales \ {s} : sale'[x] = sale[x]
      /\ \A x \in Sales : x # None
  BY CounterConstants DEF TypeOK
<1>1. TypeOK'
  BY DEF TypeOK
<1>2. Requests'
  BY <1>0 DEF Requests
<1>3. \A x \in Sales \ {s}, g \in Handlers :
        req'[g].sale = x <=> req[g].sale = x
  BY <1>0
<1>4. \A x \in Sales \ {s} : Busy(x)' <=> Busy(x)
  BY <1>3 DEF Busy
<1>5. Absent'
  <2> SUFFICES ASSUME NEW x \in Sales, sale'[x].st = "absent"
      PROVE  sale'[x] = NoSale /\ ~Busy(x)'
    BY DEF Absent
  <2>1. x # s
    BY <1>0
  <2> QED BY <1>0, <1>4, <2>1 DEF Absent
<1>6. Tended'
  <2> SUFFICES ASSUME NEW x \in Sales \ astray'
      PROVE  /\ AloneOn(x)' /\ (~Busy(x)' => Resting(sale'[x]))
             /\ \A g \in Handlers : req'[g].sale = x => Worked(sale'[x], req'[g])
    BY DEF Tended
  <2>1. x \in Sales \ astray
    OBVIOUS
  <2>2. CASE x # s
    <3>1. AloneOn(x)'
      BY <1>3, <2>1, <2>2 DEF Tended, AloneOn
    <3>2. ~Busy(x)' => Resting(sale'[x])
      BY <1>0, <1>4, <2>1, <2>2 DEF Tended
    <3>3. ASSUME NEW g \in Handlers, req'[g].sale = x PROVE Worked(sale'[x], req'[g])
      <4>1. g # h /\ req[g].sale = x
        BY <1>0, <2>2, <3>3
      <4> QED BY <1>0, <2>1, <2>2, <4>1 DEF Tended
    <3> QED BY <3>1, <3>2, <3>3
  <2>3. CASE x = s
    <3>1. \A g \in Handlers \ {h} : req'[g].sale # s
      BY <1>0, <2>1, <2>3 DEF Tended, AloneOn, Busy
    <3>2. AloneOn(s)'
      BY <3>1 DEF AloneOn
    <3>3. ~Busy(s)' => r.sale # s
      BY <1>0 DEF Busy
    <3>4. ~Busy(s)' => Resting(sale'[s])
      BY <1>0, <2>3, <3>3
    <3>5. ASSUME NEW g \in Handlers, req'[g].sale = s PROVE Worked(sale'[s], req'[g])
      BY <1>0, <2>3, <3>1, <3>5
    <3> QED BY <2>3, <3>2, <3>4, <3>5
  <2> QED BY <2>2, <2>3
<1>7. wallet' - wallet = (topped' - topped) - (a.drawn - sale[s].drawn) => Kept
  BY DrawnMoves DEF Kept
<1> QED BY <1>1, <1>2, <1>5, <1>6, <1>7

\* What is known of the sale a request works on.
LEMMA Holds ==
  ASSUME IInv, NEW h \in Handlers, req[h].pc \in Working
  PROVE  /\ req[h].sale \in Sales /\ sale[req[h].sale] \in Row /\ req[h] \in Request
         /\ sale[req[h].sale].st # "absent"
         /\ req[h].sale \notin astray => Worked(sale[req[h].sale], req[h])
<1>1. req[h] \in Request /\ req[h].sale # None
  BY DEF IInv, TypeOK, Requests, Carried, Working, NoSaleYet
<1>2. req[h].sale \in Sales
  BY <1>1 DEF Request
<1> QED BY <1>1, <1>2 DEF IInv, TypeOK, Absent, Busy, Tended

\* The sale in the request changes its row, the request its step.
LEMMA Works ==
  ASSUME IInv, NEW h \in Handlers, req[h].pc \in Working,
         NEW r \in Request, NEW a \in Row, Carried(r), r.sale \in {req[h].sale, None},
         req' = [req EXCEPT ![h] = r], sale' = [sale EXCEPT ![req[h].sale] = a],
         a.st # "absent",
         astray \subseteq astray', astray' \subseteq astray \cup {req[h].sale},
         req[h].sale \notin astray' /\ Worked(sale[req[h].sale], req[h])
            => IF r.sale = None THEN Resting(a) ELSE Worked(a, r),
         wallet' \in Nat, topped' \in Nat,
         wallet' - wallet = (topped' - topped) - (a.drawn - sale[req[h].sale].drawn)
  PROVE  IInv' /\ Kept
<1> DEFINE s == req[h].sale
<1>1. /\ s \in Sales /\ s # None
      /\ s \notin astray => Worked(sale[s], req[h])
  BY Holds, CounterConstants
<1>2. s \notin astray' => IF r.sale = s THEN Worked(a, r) ELSE Resting(a)
  BY <1>1
<1> HIDE DEF s
<1>3. /\ req[h].sale \in {s, None} /\ req[h].sale = s /\ r.sale \in {s, None}
      /\ sale' = [sale EXCEPT ![s] = a]
      /\ astray' \subseteq astray \cup {s}
      /\ wallet' - wallet = (topped' - topped) - (a.drawn - sale[s].drawn)
  BY DEF s
<1>4. s \notin astray' => /\ req[h].sale = s \/ ~Busy(s)
                          /\ IF r.sale = s THEN Worked(a, r) ELSE Resting(a)
  BY <1>2, <1>3
<1>5. IInv' /\ (wallet' - wallet = (topped' - topped) - (a.drawn - sale[s].drawn) => Kept)
  <2>1. /\ r \in Request /\ a \in Row /\ Carried(r) /\ a.st # "absent"
        /\ req' = [req EXCEPT ![h] = r] /\ astray \subseteq astray'
        /\ wallet' \in Nat /\ topped' \in Nat
    OBVIOUS
  <2>2. req[h].sale \in {s, None}
    BY <1>3
  <2> QED BY ONLY <1>1, <1>3, <1>4, <2>1, <2>2, IInv, h \in Handlers, OnSale
<1> QED BY <1>3, <1>5

-----------------------------------------------------------------------------
\* createSale.
LEMMA LoadSaleKeeps ==
  ASSUME IInv, NEW h \in Handlers, LoadSale(h)
  PROVE  IInv' /\ Kept
<1>1. PICK credit, deferred \in BOOLEAN :
        Serve(h, [Idle EXCEPT !.pc = IF deferred THEN "invoice" ELSE "reserve",
                              !.credit = credit, !.deferred = deferred,
                              !.balance = IF credit THEN wallet ELSE 0])
  BY DEF LoadSale
<1>0. Idle.sale = None /\ req[h].sale = None
  BY <1>1 DEF Idle, Serve, IInv, Requests, Carried, NoSaleYet
<1>2. PICK r : r = [Idle EXCEPT !.pc = IF deferred THEN "invoice" ELSE "reserve",
                              !.credit = credit, !.deferred = deferred,
                              !.balance = IF credit THEN wallet ELSE 0]
  OBVIOUS
<1>3. r \in Request /\ r.sale = None /\ Carried(r)
  <2>1. (IF credit THEN wallet ELSE 0) \in Nat
    BY DEF IInv, TypeOK
  <2>2. Idle \in Request
    BY IdleOK
  <2> QED BY <1>2, <2>1, <2>2, CounterConstants DEF Request, Idle, Carried, NoSaleYet
<1>4. req' = [req EXCEPT ![h] = r]
  BY <1>1, <1>2 DEF Serve
<1>5. /\ wallet' \in Nat /\ topped' \in Nat /\ sale' = sale /\ astray' = astray
      /\ wallet' - wallet = topped' - topped
  BY DEF LoadSale, IInv, TypeOK
<1> QED BY <1>0, <1>3, <1>4, <1>5, Aside

LEMMA ReserveKeeps ==
  ASSUME IInv, NEW h \in Handlers, Reserve(h)
  PROVE  IInv' /\ Kept
<1> USE DEF IInv
<1>1. /\ wallet' \in Nat /\ topped' \in Nat /\ sale' = sale /\ astray' = astray
      /\ wallet' - wallet = topped' - topped /\ req[h].sale = None /\ req[h] \in Request
      /\ ~req[h].deferred
  BY DEF Reserve, TypeOK, Requests, Carried, NoSaleYet
<1>2. CASE Finish(h)
  BY <1>1, <1>2, IdleOK, Aside DEF Finish, Idle
<1>3. CASE ~Finish(h)
  <2>1. PICK r : r = [req[h] EXCEPT !.pc = "invoice", !.units = Qty]
    OBVIOUS
  <2>2. req' = [req EXCEPT ![h] = r]
    BY <1>3, <2>1 DEF Reserve, TypeOK
  <2>3. r \in Request /\ r.sale = None /\ Carried(r)
    BY <1>1, <2>1, CounterConstants DEF Request, Carried, NoSaleYet
  <2> QED BY <1>1, <2>2, <2>3, Aside
<1> QED BY <1>2, <1>3

LEMMA NewRow ==
  ASSUME NEW h \in Handlers, NEW s \in Sales, NEW st \in {"made", "draft"}, NEW taken \in Int,
         NewSale(h, s, st, taken), req[h] \in Request
  PROVE  \E a \in Row :
           /\ sale' = [sale EXCEPT ![s] = a]
           /\ a.st = st /\ a.credit = req[h].credit /\ a.taken = taken
           /\ a.back = 0 /\ a.noted = 0 /\ a.drawn = 0
           /\ a.handover = IF st = "made" /\ req[h].deferred THEN "PENDING" ELSE "none"
<1> DEFINE hand == IF st = "made" /\ req[h].deferred THEN "PENDING" ELSE "none"
           credit == req[h].credit
           a == [NoSale EXCEPT !.st = st, !.credit = credit, !.taken = taken, !.handover = hand]
<1>1. hand \in {"none", "PENDING"} /\ credit \in BOOLEAN
  BY DEF Request
<1>2. sale' = [sale EXCEPT ![s] = a]
  BY DEF NewSale, Amend
<1> HIDE DEF hand, credit
<1>3. a \in Row
  <2>1. NoSale \in Row
    BY IdleOK
  <2>2. st \in {"absent", "made", "draft", "CANCELLED"} /\ hand \in {"none", "PENDING", "DONE"}
    BY <1>1
  <2> QED BY <1>1, <2>1, <2>2 DEF Row
<1>4. a.st = st /\ a.credit = credit /\ a.handover = hand
  BY <1>1 DEF NoSale
<1>5. a.taken = taken /\ a.back = 0 /\ a.noted = 0 /\ a.drawn = 0
  BY <1>1 DEF NoSale
<1> HIDE DEF a
<1> QED BY <1>2, <1>3, <1>4, <1>5 DEF hand, credit

LEMMA CreateInvoiceKeeps ==
  ASSUME IInv, NEW h \in Handlers, CreateInvoice(h)
  PROVE  IInv' /\ Kept
<1> USE DEF IInv
<1>1. PICK s \in Sales :
        /\ NewSale(h, s, "made", req[h].units)
        /\ IF req[h].credit THEN req' = [req EXCEPT ![h].pc = "debit", ![h].sale = s]
           ELSE Finish(h)
  BY DEF CreateInvoice
<1>2. /\ wallet' \in Nat /\ topped' \in Nat /\ astray' = astray /\ req[h] \in Request
      /\ wallet' - wallet = topped' - topped /\ req[h].sale = None
      /\ req[h].units = IF req[h].deferred THEN 0 ELSE Qty
  BY DEF CreateInvoice, TypeOK, Requests, Carried, NoSaleYet
<1>3. req[h].units \in Int
  BY <1>2 DEF Request
<1>4. PICK a \in Row :
        /\ sale' = [sale EXCEPT ![s] = a]
        /\ a.st = "made" /\ a.credit = req[h].credit /\ a.taken = req[h].units
        /\ a.back = 0 /\ a.noted = 0 /\ a.drawn = 0
        /\ a.handover = IF req[h].deferred THEN "PENDING" ELSE "none"
  BY <1>1, <1>2, <1>3, NewRow
<1>5. ~Busy(s) /\ sale[s].drawn = 0
  BY <1>1 DEF NewSale, Absent, NoSale
<1>6. wallet' - wallet = (topped' - topped) - (a.drawn - sale[s].drawn)
  BY <1>2, <1>4, <1>5 DEF TypeOK
<1>7. astray \subseteq astray' /\ astray' \subseteq astray \cup {s}
  BY <1>2
<1>8. CASE req[h].credit
  <2>1. PICK r : r = [req[h] EXCEPT !.pc = "debit", !.sale = s]
    OBVIOUS
  <2>2. req' = [req EXCEPT ![h] = r]
    BY <1>1, <1>8, <2>1 DEF TypeOK
  <2>3. r \in Request /\ r.sale = s /\ Carried(r)
    BY <1>2, <2>1, CounterConstants DEF Request, Carried, NoSaleYet, Working
  <2>4. Worked(a, r)
    BY <1>2, <1>4, <1>8, <2>1 DEF Worked, Request
  <2>5. a.st # "absent" /\ req[h].sale \in {s, None} /\ r.sale \in {s, None}
    BY <1>2, <1>4, <2>3
  <2> HIDE DEF IInv
  <2> QED BY ONLY <1>2, <1>4, <1>5, <1>6, <1>7, <2>2, <2>3, <2>4, <2>5, IInv, OnSale
<1>9. CASE ~req[h].credit
  <2>1. req' = [req EXCEPT ![h] = Idle] /\ Idle.sale = None /\ s # None
    BY <1>1, <1>9, CounterConstants DEF Finish, Idle
  <2>2. Resting(a)
    BY <1>2, <1>4, <1>9, CounterConstants DEF Resting, Standing, Waiting, Funded, Row
  <2>3. a.st # "absent" /\ req[h].sale \in {s, None} /\ Idle.sale \in {s, None}
    BY <1>2, <1>4, <2>1
  <2> HIDE DEF IInv
  <2> QED BY ONLY <1>2, <1>4, <1>5, <1>6, <1>7, <2>1, <2>2, <2>3, IInv, IdleOK, OnSale
<1> QED BY <1>8, <1>9

LEMMA InvoiceRefusedKeeps ==
  ASSUME IInv, NEW h \in Handlers, InvoiceRefused(h)
  PROVE  IInv' /\ Kept
<1> USE DEF IInv
<1>1. /\ wallet' \in Nat /\ topped' \in Nat /\ req[h] \in Request
      /\ wallet' - wallet = topped' - topped /\ req[h].sale = None
      /\ req' = [req EXCEPT ![h] = Idle] /\ Idle.sale = None
  BY DEF InvoiceRefused, TypeOK, Requests, Carried, NoSaleYet, Finish, Idle
<1>2. CASE UNCHANGED <<sale, astray>>
  BY <1>1, <1>2, IdleOK, Aside
<1>3. ASSUME NEW s \in Sales, NewSale(h, s, "draft", 0), Astray(s, TRUE)
      PROVE  IInv' /\ Kept
  <2>1. PICK a \in Row :
        /\ sale' = [sale EXCEPT ![s] = a] /\ a.st = "draft" /\ a.drawn = 0
    BY <1>1, <1>3, NewRow
  <2>2. ~Busy(s) /\ sale[s].drawn = 0
    BY <1>3 DEF NewSale, Absent, NoSale
  <2>3. wallet' - wallet = (topped' - topped) - (a.drawn - sale[s].drawn)
    BY <1>1, <2>1, <2>2 DEF TypeOK
  <2>4. astray' = astray \cup {s}
    BY <1>3 DEF Astray
  <2>5. /\ astray \subseteq astray' /\ astray' \subseteq astray \cup {s} /\ s \in astray'
        /\ a.st # "absent" /\ req[h].sale \in {s, None} /\ Idle.sale \in {s, None}
    BY <1>1, <2>1, <2>4
  <2> HIDE DEF IInv
  <2> QED BY ONLY <1>1, <2>1, <2>3, <2>5, IInv, IdleOK, OnSale
<1> QED BY <1>2, <1>3 DEF InvoiceRefused

LEMMA DebitKeeps ==
  ASSUME IInv, NEW h \in Handlers, Debit(h)
  PROVE  IInv' /\ Kept
<1> DEFINE s == req[h].sale
<1>1. /\ s \in Sales /\ sale[s] \in Row /\ req[h] \in Request /\ sale[s].st # "absent"
      /\ req[h].pc = "debit" /\ req[h].pc \in Working
  BY Holds DEF Debit, Working
<1>2. /\ wallet \in Nat /\ topped' = topped /\ topped \in Nat
      /\ req' = [req EXCEPT ![h] = Idle] /\ Idle.sale = None
  BY DEF Debit, Finish, Idle, IInv, TypeOK
<1>3. CASE wallet >= Qty
  <2>1. PICK a : a = [sale[s] EXCEPT !.drawn = @ + Qty]
    OBVIOUS
  <2>2. sale' = [sale EXCEPT ![s] = a] /\ wallet' = wallet - Qty /\ astray' = astray
    BY <1>3, <2>1 DEF Debit, Amend
  <2>3. a \in Row /\ a.st # "absent" /\ a.drawn - sale[s].drawn = Qty
    BY <1>1, <2>1, CounterConstants DEF Row
  <2>4. Worked(sale[s], req[h]) => Resting(a)
    BY <1>1, <2>1, CounterConstants DEF Worked, Resting, Row, Standing, Waiting, Funded
  <2>5. wallet' \in Nat /\ wallet' - wallet = (topped' - topped) - (a.drawn - sale[s].drawn)
    BY <1>2, <1>3, <2>2, <2>3, CounterConstants
  <2>6. astray \subseteq astray' /\ astray' \subseteq astray \cup {s}
    BY <2>2
  <2> QED BY <1>1, <1>2, <2>2, <2>3, <2>4, <2>5, <2>6, IdleOK, Works
<1>4. CASE ~(wallet >= Qty)
  <2>1. PICK a : a = [sale[s] EXCEPT !.st = "CANCELLED", !.taken = @ - req[h].units]
    OBVIOUS
  <2>2. sale' = [sale EXCEPT ![s] = a] /\ wallet' = wallet /\ Astray(s, Early(s))
    BY <1>4, <2>1 DEF Debit, Amend
  <2>0. sale[s].taken - req[h].units \in Int
    BY <1>1 DEF Row, Request
  <2>3. a \in Row /\ a.st # "absent" /\ a.drawn = sale[s].drawn
    BY <1>1, <2>0, <2>1 DEF Row
  <2>4. Worked(sale[s], req[h]) /\ ~Early(s) => Resting(a)
    BY <1>1, <2>1, CounterConstants DEF Worked, Resting, Row, Early, Request
  <2>5. wallet' \in Nat /\ wallet' - wallet = (topped' - topped) - (a.drawn - sale[s].drawn)
    BY <1>1, <1>2, <2>2, <2>3 DEF Row
  <2>6. astray \subseteq astray' /\ astray' \subseteq astray \cup {s} /\ (Early(s) => s \in astray')
    BY <2>2 DEF Astray
  <2> QED BY <1>1, <1>2, <2>2, <2>3, <2>4, <2>5, <2>6, IdleOK, Works
<1> QED BY <1>3, <1>4

-----------------------------------------------------------------------------
\* Requests that take up a sale: it may be worked on by one of them at a time.
LEMMA TakesUp ==
  ASSUME IInv, NEW h \in Handlers, NEW s \in Sales, NEW r \in Request,
         r.sale = s, Carried(r), sale[s].st # "absent", Serve(h, r),
         NEW wrong, Astray(s, wrong), Busy(s) => wrong,
         s \notin astray /\ Resting(sale[s]) /\ ~wrong => Worked(sale[s], r),
         UNCHANGED <<wallet, topped, sale>>
  PROVE  IInv' /\ Kept
<1> USE DEF IInv
<1>1. /\ sale[s] \in Row /\ sale' = [sale EXCEPT ![s] = sale[s]]
      /\ wallet' \in Nat /\ topped' \in Nat /\ req' = [req EXCEPT ![h] = r]
      /\ r.sale \in {s, None}
  BY DEF TypeOK, Serve
<1>2. req[h].sale \in {s, None}
  BY DEF Serve, Requests, Carried, NoSaleYet
<1>3. /\ astray \subseteq astray' /\ astray' \subseteq astray \cup {s}
      /\ s \notin astray' => s \notin astray /\ ~wrong
  BY DEF Astray
<1>4. s \notin astray' => /\ req[h].sale = s \/ ~Busy(s)
                          /\ IF r.sale = s THEN Worked(sale[s], r) ELSE Resting(sale[s])
  BY <1>3 DEF Tended
<1>5. wallet' - wallet = (topped' - topped) - (sale[s].drawn - sale[s].drawn)
  BY <1>1 DEF TypeOK, Row
<1> HIDE DEF IInv
<1>6. IInv' /\ (wallet' - wallet = (topped' - topped) - (sale[s].drawn - sale[s].drawn) => Kept)
  <2>1. Carried(r) /\ sale[s].st # "absent" /\ r \in Request
    OBVIOUS
  <2> QED BY ONLY <1>1, <1>2, <1>3, <1>4, <2>1, IInv, h \in Handlers, s \in Sales, OnSale
<1> QED BY <1>5, <1>6

LEMMA ReturnKeeps ==
  ASSUME IInv, NEW h \in Handlers, Return(h)
  PROVE  IInv' /\ Kept
<1> USE CounterConstants
<1>1. ASSUME NEW s \in Sales, LoadVoid(h, s) PROVE IInv' /\ Kept
  <2>1. PICK r : r = [Idle EXCEPT !.pc = "release", !.sale = s, !.units = ToGiveBack(s)]
    OBVIOUS
  <2>2. ToGiveBack(s) \in Nat /\ sale[s] \in Row
    BY DEF ToGiveBack, IInv, TypeOK, Row
  <2>3. r \in Request /\ r.sale = s /\ Carried(r) /\ r.pc = "release" /\ r.units = ToGiveBack(s)
    BY <2>1, <2>2, IdleOK DEF Request, Idle, Carried, NoSaleYet, Working
  <2>4. /\ sale[s].st \in {"made", "draft"} /\ Serve(h, r) /\ Astray(s, Busy(s) \/ Early(s))
        /\ UNCHANGED <<wallet, topped, sale>>
    BY <1>1, <2>1 DEF LoadVoid, InForce
  <2>5. Resting(sale[s]) /\ ~Early(s) => Worked(sale[s], r)
    BY <2>2, <2>3, <2>4 DEF Resting, Worked, Early, Standing, Waiting, ToGiveBack, Row, NoSale
  <2>6. sale[s].st # "absent"
    BY <2>4
  <2> QED BY <2>3, <2>4, <2>5, <2>6, TakesUp
<1>2. ASSUME NEW s \in Sales, LoadRefund(h, s) PROVE IInv' /\ Kept
  <2>0. PICK q \in 1..(Qty - sale[s].noted), credit \in BOOLEAN :
          Serve(h, [Idle EXCEPT !.pc = "goods", !.sale = s, !.units = q, !.credit = credit])
    BY <1>2 DEF LoadRefund
  <2>1. PICK r : r = [Idle EXCEPT !.pc = "goods", !.sale = s, !.units = q, !.credit = credit]
    OBVIOUS
  <2>2. q \in Nat /\ sale[s] \in Row /\ q <= Qty - sale[s].noted
    BY DEF IInv, TypeOK, Row
  <2>3. r \in Request /\ r.sale = s /\ Carried(r) /\ r.pc = "goods" /\ r.units = q
    BY <2>1, <2>2, IdleOK DEF Request, Idle, Carried, NoSaleYet, Working
  <2>4. /\ sale[s].st \in {"made", "draft"} /\ Serve(h, r) /\ Astray(s, Busy(s) \/ Early(s))
        /\ UNCHANGED <<wallet, topped, sale>>
    BY <1>2, <2>0, <2>1 DEF LoadRefund, InForce
  <2>5. Resting(sale[s]) /\ ~Early(s) => Worked(sale[s], r)
    BY <2>2, <2>3, <2>4 DEF Resting, Worked, Early, Standing, Waiting, Row, NoSale
  <2>6. sale[s].st # "absent"
    BY <2>4
  <2> QED BY <2>3, <2>4, <2>5, <2>6, TakesUp
<1> QED BY <1>1, <1>2 DEF Return

LEMMA LoadFulfilKeeps ==
  ASSUME IInv, NEW h \in Handlers, NEW s \in Sales, LoadFulfil(h, s)
  PROVE  IInv' /\ Kept
<1> USE CounterConstants
<1>1. PICK r : r = [Idle EXCEPT !.pc = "take", !.sale = s]
  OBVIOUS
<1>2. r \in Request /\ r.sale = s /\ Carried(r) /\ r.pc = "take"
  BY <1>1, IdleOK DEF Request, Idle, Carried, NoSaleYet, Working
<1>3. /\ sale[s].handover = "PENDING" /\ Serve(h, r) /\ Astray(s, Busy(s))
      /\ UNCHANGED <<wallet, topped, sale>>
  BY <1>1 DEF LoadFulfil
<1>4. sale[s].st # "absent"
  BY <1>3 DEF IInv, Absent, NoSale
<1>5. Resting(sale[s]) => Worked(sale[s], r)
  BY <1>2, <1>3, <1>4 DEF Resting, Worked, Standing, NoSale
<1> QED BY <1>2, <1>3, <1>4, <1>5, TakesUp

-----------------------------------------------------------------------------
\* A step in the middle of a request that writes the sale and not the wallet.
LEMMA Middle ==
  ASSUME IInv, NEW h \in Handlers, req[h].pc \in Working,
         NEW r \in Request, NEW a \in Row, Carried(r), r.sale \in {req[h].sale, None},
         req' = [req EXCEPT ![h] = r], sale' = [sale EXCEPT ![req[h].sale] = a],
         a.st # "absent", a.drawn = sale[req[h].sale].drawn,
         UNCHANGED <<wallet, topped, astray>>,
         Worked(sale[req[h].sale], req[h])
            => IF r.sale = None THEN Resting(a) ELSE Worked(a, r)
  PROVE  IInv' /\ Kept
<1>1. /\ wallet' \in Nat /\ topped' \in Nat
      /\ astray \subseteq astray' /\ astray' \subseteq astray \cup {req[h].sale}
  BY DEF IInv, TypeOK
<1>2. wallet' - wallet = (topped' - topped) - (a.drawn - sale[req[h].sale].drawn)
  BY DEF IInv, TypeOK, Row
<1> QED BY <1>1, <1>2, Works

LEMMA GiveBackKeeps ==
  ASSUME IInv, NEW h \in Handlers, ReleaseVoid(h) \/ ReleaseRefund(h)
  PROVE  IInv' /\ Kept
<1> USE CounterConstants
<1> DEFINE s == req[h].sale
           step == IF req[h].pc = "release" THEN "cancel" ELSE "note"
           left == IF req[h].pc = "release" THEN 0 ELSE req[h].units
<1>1. /\ s \in Sales /\ s # None /\ sale[s] \in Row /\ req[h] \in Request /\ sale[s].st # "absent"
      /\ req[h].pc \in {"release", "goods"} /\ req[h].pc \in Working
  BY Holds DEF ReleaseVoid, ReleaseRefund, Working
<1>2. PICK r : r = [req[h] EXCEPT !.pc = step, !.units = left]
  OBVIOUS
<1>3. PICK a : a = [sale[s] EXCEPT !.back = @ + req[h].units]
  OBVIOUS
<1>4. /\ req' = [req EXCEPT ![h] = r] /\ sale' = [sale EXCEPT ![s] = a]
      /\ UNCHANGED <<wallet, topped, astray>>
  <2>1. CASE ReleaseVoid(h)
    BY <1>2, <1>3, <2>1 DEF ReleaseVoid, GiveBack, Amend, IInv, TypeOK
  <2>2. CASE ReleaseRefund(h)
    BY <1>2, <1>3, <2>2 DEF ReleaseRefund, GiveBack, Amend, IInv, TypeOK
  <2> QED BY <2>1, <2>2
<1>5. req[h].units \in Nat /\ left \in Nat
  BY <1>1 DEF Request
<1>6. r \in Request /\ Carried(r) /\ r.sale = s /\ r.pc = step /\ r.units = left
  BY <1>1, <1>2, <1>5 DEF Request, Carried, NoSaleYet, Working
<1>7. a \in Row /\ a.st # "absent" /\ a.drawn = sale[s].drawn
  BY <1>1, <1>3, <1>5 DEF Row
<1>8. Worked(sale[s], req[h]) => Worked(a, r)
  BY <1>1, <1>3, <1>5, <1>6 DEF Worked, Standing, Funded, Row
<1> QED BY <1>1, <1>4, <1>6, <1>7, <1>8, Middle

LEMMA CancelKeeps ==
  ASSUME IInv, NEW h \in Handlers, CancelSale(h)
  PROVE  IInv' /\ Kept
<1> USE CounterConstants
<1> DEFINE s == req[h].sale
<1>1. /\ s \in Sales /\ s # None /\ sale[s] \in Row /\ req[h] \in Request
      /\ req[h].pc = "cancel" /\ req[h].pc \in Working
  BY Holds DEF CancelSale, Working
<1>2. PICK a : a = [sale[s] EXCEPT !.st = "CANCELLED"]
  OBVIOUS
<1>3. sale' = [sale EXCEPT ![s] = a] /\ UNCHANGED <<wallet, topped, astray>>
  BY <1>2 DEF CancelSale, Amend
<1>4. a \in Row /\ a.st = "CANCELLED" /\ a.drawn = sale[s].drawn
  BY <1>1, <1>2 DEF Row
<1>5. CASE sale[s].credit
  <2>1. PICK r : r = [req[h] EXCEPT !.pc = "restore"]
    OBVIOUS
  <2>2. req' = [req EXCEPT ![h] = r]
    BY <1>5, <2>1 DEF CancelSale, Go, IInv, TypeOK
  <2>3. r \in Request /\ Carried(r) /\ r.sale = s /\ r.pc = "restore"
    BY <1>1, <2>1 DEF Request, Carried, NoSaleYet, Working
  <2>4. Worked(sale[s], req[h]) => Worked(a, r)
    BY <1>1, <1>2, <1>5, <2>3 DEF Worked, Standing, Funded, Row
  <2> QED BY <1>1, <1>3, <1>4, <2>2, <2>3, <2>4, Middle
<1>6. CASE ~sale[s].credit
  <2>1. req' = [req EXCEPT ![h] = Idle] /\ Idle.sale = None
    BY <1>6 DEF CancelSale, Finish, Idle
  <2>2. Worked(sale[s], req[h]) => Resting(a)
    BY <1>1, <1>2, <1>6 DEF Worked, Resting, Standing, Funded, Row
  <2> QED BY <1>1, <1>3, <1>4, <2>1, <2>2, IdleOK, Middle
<1> QED BY <1>5, <1>6

LEMMA RestoreKeeps ==
  ASSUME IInv, NEW h \in Handlers, RestoreCredit(h)
  PROVE  IInv' /\ Kept
<1> USE CounterConstants
<1> DEFINE s == req[h].sale
<1>1. /\ s \in Sales /\ s # None /\ sale[s] \in Row /\ req[h] \in Request /\ sale[s].st # "absent"
      /\ req[h].pc = "restore" /\ req[h].pc \in Working
  BY Holds DEF RestoreCredit, Working
<1>2. PICK a : a = [sale[s] EXCEPT !.drawn = @ - Qty]
  OBVIOUS
<1>3. /\ sale' = [sale EXCEPT ![s] = a] /\ wallet' = wallet + Qty /\ astray' = astray
      /\ topped' = topped /\ topped \in Nat /\ wallet \in Nat
      /\ req' = [req EXCEPT ![h] = Idle] /\ Idle.sale = None
  BY <1>2 DEF RestoreCredit, Amend, Finish, Idle, IInv, TypeOK
<1>4. a \in Row /\ a.st # "absent" /\ a.drawn - sale[s].drawn = 0 - Qty
  BY <1>1, <1>2 DEF Row
<1>5. Worked(sale[s], req[h]) => Resting(a)
  BY <1>1, <1>2 DEF Worked, Resting, Row
<1>6. wallet' \in Nat /\ wallet' - wallet = (topped' - topped) - (a.drawn - sale[s].drawn)
  BY <1>3, <1>4
<1>7. astray \subseteq astray' /\ astray' \subseteq astray \cup {s}
  BY <1>3
<1> QED BY <1>1, <1>3, <1>4, <1>5, <1>6, <1>7, IdleOK, Works

LEMMA NoteKeeps ==
  ASSUME IInv, NEW h \in Handlers, CreateNote(h)
  PROVE  IInv' /\ Kept
<1> USE CounterConstants
<1> DEFINE s == req[h].sale
<1>1. /\ s \in Sales /\ s # None /\ sale[s] \in Row /\ req[h] \in Request /\ sale[s].st # "absent"
      /\ req[h].pc = "note" /\ req[h].pc \in Working
  BY Holds DEF CreateNote, Working
<1>2. PICK a : a = [sale[s] EXCEPT !.noted = @ + req[h].units]
  OBVIOUS
<1>3. sale' = [sale EXCEPT ![s] = a] /\ UNCHANGED <<wallet, topped, astray>>
  BY <1>2 DEF CreateNote, Amend
<1>4. req[h].units \in Nat
  BY <1>1 DEF Request
<1>5. a \in Row /\ a.st # "absent" /\ a.drawn = sale[s].drawn
  BY <1>1, <1>2, <1>4 DEF Row
<1>6. CASE req[h].credit
  <2>1. PICK r : r = [req[h] EXCEPT !.pc = "credit"]
    OBVIOUS
  <2>2. req' = [req EXCEPT ![h] = r]
    BY <1>6, <2>1 DEF CreateNote, Go, IInv, TypeOK
  <2>3. r \in Request /\ Carried(r) /\ r.sale = s /\ r.pc = "credit" /\ r.units = req[h].units
    BY <1>1, <2>1 DEF Request, Carried, NoSaleYet, Working
  <2>4. Worked(sale[s], req[h]) => Worked(a, r)
    BY <1>1, <1>2, <1>4, <2>3 DEF Worked, Standing, Funded, Row
  <2> QED BY <1>1, <1>3, <1>5, <2>2, <2>3, <2>4, Middle
<1>7. CASE ~req[h].credit
  <2>1. req' = [req EXCEPT ![h] = Idle] /\ Idle.sale = None
    BY <1>7 DEF CreateNote, Finish, Idle
  <2>2. Worked(sale[s], req[h]) => Resting(a)
    BY <1>1, <1>2, <1>4 DEF Worked, Resting, Standing, Funded, Row
  <2> QED BY <1>1, <1>3, <1>5, <2>1, <2>2, IdleOK, Middle
<1> QED BY <1>6, <1>7

LEMMA CreditKeeps ==
  ASSUME IInv, NEW h \in Handlers, CreditWallet(h)
  PROVE  IInv' /\ Kept
<1> USE CounterConstants
<1> DEFINE s == req[h].sale
<1>1. /\ s \in Sales /\ s # None /\ sale[s] \in Row /\ req[h] \in Request /\ sale[s].st # "absent"
      /\ req[h].pc = "credit" /\ req[h].pc \in Working
  BY Holds DEF CreditWallet, Working
<1>2. /\ topped' = topped /\ topped \in Nat /\ wallet \in Nat /\ req[h].units \in Nat
      /\ req' = [req EXCEPT ![h] = Idle] /\ Idle.sale = None
  BY <1>1 DEF CreditWallet, Finish, Idle, IInv, TypeOK, Request
<1>3. CASE Limit = 0 \/ wallet + req[h].units <= Limit
  <2>1. PICK a : a = [sale[s] EXCEPT !.drawn = @ - req[h].units]
    OBVIOUS
  <2>2. /\ sale' = [sale EXCEPT ![s] = a] /\ wallet' = wallet + req[h].units
        /\ astray' = astray
    BY <1>3, <2>1 DEF CreditWallet, Amend
  <2>3. a \in Row /\ a.st # "absent" /\ a.drawn - sale[s].drawn = 0 - req[h].units
    BY <1>1, <1>2, <2>1 DEF Row
  <2>4. Worked(sale[s], req[h]) => Resting(a)
    BY <1>1, <1>2, <2>1 DEF Worked, Resting, Row, Standing, Funded
  <2>5. wallet' \in Nat /\ wallet' - wallet = (topped' - topped) - (a.drawn - sale[s].drawn)
    BY <1>2, <2>2, <2>3
  <2>6. astray \subseteq astray' /\ astray' \subseteq astray \cup {s}
    BY <2>2
  <2> QED BY <1>1, <1>2, <2>2, <2>3, <2>4, <2>5, <2>6, IdleOK, Works
<1>4. CASE ~(Limit = 0 \/ wallet + req[h].units <= Limit)
  <2>1. sale' = [sale EXCEPT ![s] = sale[s]] /\ wallet' = wallet /\ astray' = astray \cup {s}
    BY <1>4 DEF CreditWallet, Astray, IInv, TypeOK
  <2>2. /\ wallet' \in Nat /\ astray \subseteq astray' /\ astray' \subseteq astray \cup {s}
        /\ s \in astray'
        /\ wallet' - wallet = (topped' - topped) - (sale[s].drawn - sale[s].drawn)
    BY <1>1, <1>2, <2>1 DEF Row
  <2> QED BY <1>1, <1>2, <2>1, <2>2, IdleOK, Works
<1> QED BY <1>3, <1>4

LEMMA FulfilKeeps ==
  ASSUME IInv, NEW h \in Handlers, Take(h) \/ HandOver(h) \/ RollBack(h)
  PROVE  IInv' /\ Kept
<1> USE CounterConstants
<1> DEFINE s == req[h].sale
<1>1. /\ s \in Sales /\ s # None /\ sale[s] \in Row /\ req[h] \in Request /\ sale[s].st # "absent"
      /\ req[h].pc \in {"take", "done"} /\ req[h].pc \in Working
  BY Holds DEF Take, HandOver, RollBack, Working
<1>2. UNCHANGED <<wallet, topped, astray>> /\ Idle.sale = None
  BY DEF Take, HandOver, RollBack, Idle
<1>3. CASE Take(h)
  <2>1. CASE stock >= Qty
    <3>1. PICK a : a = [sale[s] EXCEPT !.taken = @ + Qty]
      OBVIOUS
    <3>2. PICK r : r = [req[h] EXCEPT !.pc = "done"]
      OBVIOUS
    <3>3. sale' = [sale EXCEPT ![s] = a] /\ req' = [req EXCEPT ![h] = r]
      BY <1>3, <2>1, <3>1, <3>2 DEF Take, Amend, Go, IInv, TypeOK
    <3>4. a \in Row /\ a.st # "absent" /\ a.drawn = sale[s].drawn
      BY <1>1, <3>1 DEF Row
    <3>5. r \in Request /\ Carried(r) /\ r.sale = s /\ r.pc = "done"
      BY <1>1, <3>2 DEF Request, Carried, NoSaleYet, Working
    <3>6. req[h].pc = "take"
      BY <1>3 DEF Take
    <3>7. Worked(sale[s], req[h]) => Worked(a, r)
      BY <1>1, <3>1, <3>5, <3>6 DEF Worked, Waiting, Funded, Row
    <3> QED BY <1>1, <1>2, <3>3, <3>4, <3>5, <3>7, Middle
  <2>2. CASE ~(stock >= Qty)
    <3>1. sale' = [sale EXCEPT ![s] = sale[s]] /\ req' = [req EXCEPT ![h] = Idle]
      BY <1>3, <2>2 DEF Take, Finish, IInv, TypeOK
    <3>2. req[h].pc = "take"
      BY <1>3 DEF Take
    <3>3. Worked(sale[s], req[h]) => Resting(sale[s])
      BY <3>2 DEF Worked, Resting
    <3> QED BY <1>1, <1>2, <3>1, <3>3, IdleOK, Middle
  <2> QED BY <2>1, <2>2
<1>4. CASE HandOver(h)
  <2>1. PICK a : a = [sale[s] EXCEPT !.handover = "DONE"]
    OBVIOUS
  <2>2. sale' = [sale EXCEPT ![s] = a] /\ req' = [req EXCEPT ![h] = Idle] /\ req[h].pc = "done"
    BY <1>4, <2>1 DEF HandOver, Amend, Finish
  <2>3. a \in Row /\ a.st # "absent" /\ a.drawn = sale[s].drawn
    BY <1>1, <2>1 DEF Row
  <2>4. Worked(sale[s], req[h]) => Resting(a)
    BY <1>1, <2>1, <2>2 DEF Worked, Resting, Waiting, Standing, Funded, Row
  <2> QED BY <1>1, <1>2, <2>2, <2>3, <2>4, IdleOK, Middle
<1>5. CASE RollBack(h)
  <2>1. PICK a : a = [sale[s] EXCEPT !.taken = @ - Qty]
    OBVIOUS
  <2>2. sale' = [sale EXCEPT ![s] = a] /\ req' = [req EXCEPT ![h] = Idle] /\ req[h].pc = "done"
    BY <1>5, <2>1 DEF RollBack, Amend, Finish
  <2>3. a \in Row /\ a.st # "absent" /\ a.drawn = sale[s].drawn
    BY <1>1, <2>1 DEF Row
  <2>4. Worked(sale[s], req[h]) => Resting(a)
    BY <1>1, <2>1, <2>2 DEF Worked, Resting, Waiting, Funded, Row
  <2> QED BY <1>1, <1>2, <2>2, <2>3, <2>4, IdleOK, Middle
<1> QED BY <1>3, <1>4, <1>5

-----------------------------------------------------------------------------
\* Top-ups, and requests that stop.
LEMMA TopUpKeeps ==
  ASSUME IInv, NEW h \in Handlers, LoadTopUp(h) \/ TopUp(h)
  PROVE  IInv' /\ (Kept \/ (req[h].pc = "topup" /\ req[h].balance # wallet))
<1> USE CounterConstants
<1>1. /\ req[h].sale = None /\ sale' = sale /\ astray' = astray /\ Idle.sale = None
      /\ wallet \in Nat /\ topped \in Nat /\ req[h] \in Request
  BY DEF LoadTopUp, TopUp, Serve, Idle, IInv, TypeOK, Requests, Carried, NoSaleYet
<1>2. CASE LoadTopUp(h)
  <2>1. PICK r : r = [Idle EXCEPT !.pc = "topup", !.balance = wallet]
    OBVIOUS
  <2>2. req' = [req EXCEPT ![h] = r] /\ wallet' = wallet /\ topped' = topped
    BY <1>2, <2>1 DEF LoadTopUp, Serve
  <2>3. r \in Request /\ Carried(r) /\ r.sale = None
    BY <1>1, <2>1, IdleOK DEF Request, Idle, Carried, NoSaleYet
  <2>4. wallet' \in Nat /\ topped' \in Nat /\ wallet' - wallet = topped' - topped
    BY <1>1, <2>2
  <2>5. IInv' /\ Kept
    BY <1>1, <2>2, <2>3, <2>4, Aside
  <2> QED BY <2>5
<1>3. CASE TopUp(h)
  <2>1. /\ req' = [req EXCEPT ![h] = Idle] /\ wallet' = req[h].balance + 1
        /\ topped' = topped + 1 /\ req[h].pc = "topup"
    BY <1>3 DEF TopUp, Finish
  <2>2. /\ wallet' \in Nat /\ topped' \in Nat
        /\ req[h].balance = wallet => wallet' - wallet = topped' - topped
    BY <1>1, <2>1 DEF Request
  <2>3. IInv' /\ (req[h].balance = wallet => Kept)
    <3>1. IInv' /\ (wallet' - wallet = topped' - topped => Kept)
      BY <1>1, <2>1, <2>2, IdleOK, Aside
    <3> QED BY <2>2, <3>1
  <2> QED BY <2>1, <2>3
<1> QED BY <1>2, <1>3

LEMMA FailKeeps ==
  ASSUME IInv, NEW h \in Handlers, Fail(h)
  PROVE  IInv' /\ Kept
<1> USE CounterConstants
<1>1. /\ sale' = sale /\ wallet' = wallet /\ topped' = topped /\ Idle.sale = None
      /\ wallet' \in Nat /\ topped' \in Nat /\ wallet' - wallet = topped' - topped
      /\ req' = [req EXCEPT ![h] = Idle] /\ Astray(req[h].sale, req[h].pc \in HalfWay)
      /\ req[h].pc \in NoSaleYet \cup Working
  BY DEF Fail, Finish, Idle, IInv, TypeOK, Request
<1>2. CASE req[h].pc \in NoSaleYet
  <2>1. req[h].sale = None /\ astray' = astray
    BY <1>1, <1>2 DEF IInv, Requests, Carried, NoSaleYet, HalfWay, Astray
  <2> QED BY <1>1, <2>1, IdleOK, Aside
<1>3. CASE req[h].pc \in Working
  <2> DEFINE s == req[h].sale
  <2>1. s \in Sales /\ sale[s] \in Row /\ req[h] \in Request /\ sale[s].st # "absent"
    BY <1>3, Holds
  <2>2. /\ sale' = [sale EXCEPT ![s] = sale[s]]
        /\ wallet' - wallet = (topped' - topped) - (sale[s].drawn - sale[s].drawn)
    BY <1>1, <2>1 DEF IInv, TypeOK, Row
  <2>3. /\ astray \subseteq astray' /\ astray' \subseteq astray \cup {s}
        /\ s \notin astray' => req[h].pc \in {"release", "goods", "take"}
    BY <1>1, <1>3 DEF Astray, Working, HalfWay
  <2>4. Worked(sale[s], req[h]) /\ req[h].pc \in {"release", "goods", "take"} => Resting(sale[s])
    BY DEF Worked, Resting
  <2> QED BY <1>1, <1>3, <2>1, <2>2, <2>3, <2>4, IdleOK, Works
<1> QED BY <1>1, <1>2, <1>3

-----------------------------------------------------------------------------
LEMMA InitIInv == Init => IInv
<1> SUFFICES ASSUME Init PROVE IInv
  OBVIOUS
<1>1. /\ \A h \in Handlers : req[h] = Idle
      /\ \A s \in Sales : sale[s] = NoSale
      /\ Idle.sale = None /\ \A s \in Sales : s # None
  BY CounterConstants DEF Init, Idle
<1>2. TypeOK
  BY IdleOK, CounterConstants DEF Init, TypeOK
<1>3. Requests
  BY <1>1, IdleOK DEF Requests
<1>4. \A s \in Sales : ~Busy(s)
  BY <1>1 DEF Busy
<1>5. Absent
  BY <1>1, <1>4 DEF Absent
<1>6. Tended
  BY <1>1, <1>4 DEF Tended, Resting, AloneOn, Busy
<1> QED BY <1>2, <1>3, <1>5, <1>6 DEF IInv

LEMMA NextKeeps ==
  IInv /\ [Next]_vars
    => /\ IInv'
       /\ Kept \/ \E h \in Handlers : req[h].pc = "topup" /\ req[h].balance # wallet
<1> SUFFICES ASSUME IInv, [Next]_vars
    PROVE  /\ IInv'
           /\ Kept \/ \E h \in Handlers : req[h].pc = "topup" /\ req[h].balance # wallet
  OBVIOUS
<1>1. ASSUME NEW h \in Handlers, Others(h)
      PROVE  IInv' /\ (Kept \/ (req[h].pc = "topup" /\ req[h].balance # wallet))
  <2>1. CASE LoadSale(h) \/ Reserve(h) \/ CreateInvoice(h) \/ InvoiceRefused(h) \/ Debit(h)
    BY <2>1, LoadSaleKeeps, ReserveKeeps, CreateInvoiceKeeps, InvoiceRefusedKeeps, DebitKeeps
  <2>2. CASE LoadTopUp(h) \/ TopUp(h)
    BY <2>2, TopUpKeeps
  <2>3. CASE \/ \E s \in Sales : LoadFulfil(h, s)
             \/ Take(h) \/ HandOver(h) \/ RollBack(h)
    BY <2>3, LoadFulfilKeeps, FulfilKeeps
  <2>4. CASE ReleaseVoid(h) \/ CancelSale(h) \/ RestoreCredit(h)
    BY <2>4, GiveBackKeeps, CancelKeeps, RestoreKeeps
  <2>5. CASE ReleaseRefund(h) \/ CreateNote(h) \/ CreditWallet(h)
    BY <2>5, GiveBackKeeps, NoteKeeps, CreditKeeps
  <2> QED BY <1>1, <2>1, <2>2, <2>3, <2>4, <2>5 DEF Others
<1>2. CASE UNCHANGED vars
  <2>1. UNCHANGED <<wallet, topped, sale, req, astray>>
    BY <1>2 DEF vars
  <2>2. IInv'
    BY <2>1 DEF IInv, TypeOK, Requests, Absent, Tended, AloneOn, Busy
  <2>3. Drawn' = Drawn
    BY <2>1 DEF Drawn
  <2>4. Kept
    BY <2>1, <2>3, DrawnInt DEF Kept, IInv, TypeOK
  <2> QED BY <2>2, <2>4
<1> QED BY <1>1, <1>2, ReturnKeeps, FailKeeps DEF Next

\* The wallet is never overdrawn: createSale debits by an update conditional
\* on the balance, and nothing else lowers it below what it was.
THEOREM SpecWalletNotOverdrawn == Spec => []WalletNotOverdrawn
<1>1. IInv => WalletNotOverdrawn
  BY DEF IInv, TypeOK, WalletNotOverdrawn
<1> QED BY InitIInv, NextKeeps, <1>1, PTL DEF Spec

\* Goods and credit follow the sale, whatever voids, refunds, late handovers and
\* failures it has been through: only requests that overlapped on one sale or
\* broke off half-way, or a return before the handover, can leave it otherwise.
THEOREM GoodsFollowSale == Spec => []SaleIsWhole
<1>1. IInv => SaleIsWhole
  <2> SUFFICES ASSUME IInv, NEW s \in Sales \ astray, ~Busy(s)
      PROVE  /\ sale[s].taken - sale[s].back =
                  IF sale[s].st = "made" /\ ~Early(s) THEN Qty - sale[s].noted ELSE 0
             /\ sale[s].st = "made" /\ sale[s].credit => sale[s].drawn >= Qty - sale[s].noted
             /\ sale[s].st = "CANCELLED" => sale[s].drawn <= 0
    BY DEF SaleIsWhole
  <2>1. Resting(sale[s]) /\ sale[s] \in Row
    BY DEF IInv, TypeOK, Tended
  <2>2. CASE sale[s] = NoSale
    BY <2>2 DEF NoSale
  <2>3. CASE sale[s] # NoSale
    BY <2>1, <2>3, CounterConstants
       DEF Resting, Standing, Waiting, Funded, Row, Early
  <2> QED BY <2>2, <2>3
<1> QED BY InitIInv, NextKeeps, <1>1, PTL DEF Spec

\* Store credit is lost or made in one way only: a top-up that writes the
\* balance it read plus the amount, after the balance has changed.
THEOREM OnlyStaleTopUpLoses == Spec => OnlyTopUpLosesCredit
<1>1. IInv /\ [Next]_vars
        => [wallet' - wallet # (topped' - topped) - (Drawn' - Drawn) =>
              \E h \in Handlers : req[h].pc = "topup" /\ req[h].balance # wallet]_vars
  BY NextKeeps DEF Kept
<1> QED BY InitIInv, NextKeeps, <1>1, PTL DEF Spec, OnlyTopUpLosesCredit
-----------------------------------------------------------------------------
(***************************************************************************)
(* Sales over a network that fails: no queued sale is lost, and a client   *)
(* id sells once as long as no lookup could miss its sale. OfflineInv ties *)
(* each request to who waits for it (Served, Alone), says what a flush has *)
(* in hand, and that at most one request, with no invoice made yet, is     *)
(* about to make the invoice of a client id (Lookups).                     *)
(***************************************************************************)

CallRecord == [pc : {"idle", "lookup", "make"}, sale : Sales \cup {None}, tag : BOOLEAN,
               client : Sales \cup Flushers \cup {None}]
FlushRecord == [pc : {"idle", "next", "sent", "failed", "remove", "mark"}, rows : SUBSET Sales,
                sale : Sales \cup {None}, attempts : Nat]
QueueRow == [waits : BOOLEAN, attempts : Nat, quarantined : BOOLEAN]

OfflineTypeOK ==
  /\ cart \in [Sales -> {"open", "sent", "queued", "sold"}] /\ queue \in [Sales -> QueueRow]
  /\ flush \in [Flushers -> FlushRecord] /\ call \in [Handlers -> CallRecord]
  /\ online \in [Sales -> Nat] /\ tagged \in [Sales -> Nat]
  /\ findable \in [Sales -> BOOLEAN] /\ blind \subseteq Sales /\ dropped \subseteq Sales

\* A request in service is about a cart, and who waits for its answer sent it.
ServedFor(h) ==
  LET c == call[h].client IN
  /\ call[h].pc = "idle" => c = None
  /\ call[h].pc # "idle" => call[h].sale \in Sales
  /\ c \in Sales => ~call[h].tag /\ call[h].sale = c /\ cart[c] = "sent"
  /\ c \in Flushers => call[h].tag /\ flush[c].pc = "sent" /\ flush[c].sale = call[h].sale
Served == \A h \in Handlers : ServedFor(h)
\* Nobody waits for two answers.
Alone ==
  \A h, g \in Handlers : call[h].client = call[g].client /\ call[h].client # None => h = g

\* A flush has a row in hand; the one it is about to remove has its invoice.
InHand(f) ==
  /\ flush[f].pc \in {"sent", "failed", "remove", "mark"} => flush[f].sale \in Sales
  /\ flush[f].pc = "remove" => tagged[flush[f].sale] > 0
Flushing == \A f \in Flushers : InHand(f)

\* As long as every lookup sees what it should, one request at a time makes the
\* invoice of a client id, and there is none yet.
Making(h, s) == call[h].pc = "make" /\ call[h].tag /\ call[h].sale = s
Seen(s) ==
  /\ tagged[s] <= 1 /\ (tagged[s] > 0 => findable[s])
  /\ \A h, g \in Handlers : Making(h, s) => tagged[s] = 0 /\ (Making(g, s) => h = g)
Lookups ==
  /\ \A s \in Sales : findable[s] => tagged[s] > 0
  /\ \A s \in Sales \ blind : Seen(s)

OfflineInv == OfflineTypeOK /\ Served /\ Alone /\ Flushing /\ Lookups /\ NeverLost

LEMMA OfflineStart == OfflineInit => OfflineInv
BY OfflineConstants DEF OfflineInit, OfflineInv, OfflineTypeOK, Served, ServedFor, Alone, Flushing,
   InHand, Lookups, Seen, Making, NeverLost, NoRow, NoFlush, NoRequest, CallRecord, FlushRecord,
   QueueRow

\* A request that arrives, or is lost on its way: every other one is as it was.
LEMMA NewCall ==
  ASSUME OfflineTypeOK, NEW s \in Sales, NEW tag \in BOOLEAN, NEW c \in Sales \cup Flushers,
         Arrives(s, tag, c) \/ UNCHANGED call
  PROVE  /\ call' \in [Handlers -> CallRecord]
         /\ \A h \in Handlers :
              \/ call'[h] = call[h]
              \/ /\ call[h].pc = "idle" /\ call'[h].pc = "lookup" /\ call'[h].sale = s
                 /\ call'[h].tag = tag /\ call'[h].client = c
         /\ \A h, g \in Handlers : call'[h] # call[h] /\ call'[g] # call[g] => h = g
BY DEF Arrives, OfflineTypeOK, CallRecord

\* Nobody waits any more for what the client sent.
LEMMA CutOff ==
  ASSUME OfflineTypeOK, NEW c \in Sales \cup Flushers, Disconnect(c)
  PROVE  /\ call' \in [Handlers -> CallRecord]
         /\ \A h \in Handlers :
              /\ call'[h].pc = call[h].pc /\ call'[h].sale = call[h].sale
              /\ call'[h].tag = call[h].tag
              /\ call'[h].client = IF call[h].client = c THEN None ELSE call[h].client
BY DEF Disconnect, OfflineTypeOK, CallRecord

\* An answer ends the request and tells the client that waits for it, if any.
LEMMA Answered ==
  ASSUME OfflineTypeOK, Served, NEW h \in Handlers, NEW ok \in BOOLEAN, Answer(h, ok)
  PROVE  /\ call' \in [Handlers -> CallRecord] /\ call'[h] = NoRequest
         /\ \A g \in Handlers \ {h} : call'[g] = call[g]
         /\ cart' \in [Sales -> {"open", "sent", "queued", "sold"}]
         /\ \A s \in Sales : cart'[s] = IF s # call[h].client THEN cart[s]
                                        ELSE IF ok THEN "sold" ELSE "open"
         /\ flush' \in [Flushers -> FlushRecord]
         /\ \A f \in Flushers :
              /\ flush'[f].sale = flush[f].sale
              /\ flush'[f].pc = IF f # call[h].client THEN flush[f].pc
                                ELSE IF ok THEN "remove" ELSE "failed"
<1> DEFINE c == call[h].client
<1>1. call' = [call EXCEPT ![h] = NoRequest] BY DEF Answer
<1>2. NoRequest \in CallRecord BY DEF NoRequest, CallRecord
<1>3. cart' = IF c \notin Sales THEN cart
              ELSE [cart EXCEPT ![c] = IF ok THEN "sold" ELSE "open"]
  BY DEF Answer
<1>4. flush' = IF c \notin Flushers THEN flush
               ELSE [flush EXCEPT ![c].pc = IF ok THEN "remove" ELSE "failed"]
  BY DEF Answer
<1>5. /\ flush' \in [Flushers -> FlushRecord]
      /\ \A f \in Flushers :
              /\ flush'[f].sale = flush[f].sale
              /\ flush'[f].pc = IF f # c THEN flush[f].pc
                                ELSE IF ok THEN "remove" ELSE "failed"
  <2>1. CASE c \in Flushers BY <1>4, <2>1 DEF OfflineTypeOK, FlushRecord
  <2>2. CASE c \notin Flushers BY <1>4, <2>2 DEF OfflineTypeOK
  <2> QED BY <2>1, <2>2
<1>6. /\ cart' \in [Sales -> {"open", "sent", "queued", "sold"}]
      /\ \A s \in Sales : cart'[s] = IF s # c THEN cart[s] ELSE IF ok THEN "sold" ELSE "open"
  BY <1>3 DEF OfflineTypeOK
<1> QED BY <1>1, <1>2, <1>5, <1>6 DEF OfflineTypeOK

\* An answer that says what is so keeps the invariant.
LEMMA AnswerKeeps ==
  ASSUME OfflineInv, NEW h \in Handlers, NEW ok \in BOOLEAN, Answer(h, ok),
         call[h].pc # "idle", UNCHANGED <<queue, dropped>>,
         online' \in [Sales -> Nat], tagged' \in [Sales -> Nat], 
         \A s \in Sales : online'[s] >= online[s] /\ tagged'[s] >= tagged[s],
         ok => IF call[h].tag THEN tagged'[call[h].sale] > 0 ELSE online'[call[h].sale] > 0
  PROVE  /\ call' \in [Handlers -> CallRecord]
         /\ cart' \in [Sales -> {"open", "sent", "queued", "sold"}]
         /\ flush' \in [Flushers -> FlushRecord]
         /\ Served' /\ Alone' /\ Flushing' /\ NeverLost'
         /\ \A g \in Handlers, s \in Sales : Making(g, s)' => g # h /\ Making(g, s)
<1> USE DEF OfflineInv
<1>1. PICK r : r = call[h] OBVIOUS
<1>2. /\ r \in CallRecord /\ ServedFor(h) /\ r.pc # "idle" BY <1>1 DEF OfflineTypeOK, Served
<1>3. /\ call' \in [Handlers -> CallRecord] /\ call'[h] = NoRequest
      /\ \A g \in Handlers \ {h} : call'[g] = call[g]
  BY Answered
<1>9. /\ cart' \in [Sales -> {"open", "sent", "queued", "sold"}]
      /\ \A s \in Sales : cart'[s] = IF s # r.client THEN cart[s]
                                     ELSE IF ok THEN "sold" ELSE "open"
      /\ flush' \in [Flushers -> FlushRecord]
      /\ \A f \in Flushers :
              /\ flush'[f].sale = flush[f].sale
              /\ flush'[f].pc = IF f # r.client THEN flush[f].pc
                                ELSE IF ok THEN "remove" ELSE "failed"
  BY <1>1, Answered
<1>4. Served'
  <2> SUFFICES ASSUME NEW g \in Handlers PROVE ServedFor(g)' BY DEF Served
  <2>1. CASE g = h BY <1>3, <2>1, OfflineConstants DEF ServedFor, NoRequest
  <2>2. CASE g # h
    <3>1. call'[g] = call[g] /\ ServedFor(g) /\ call[g] \in CallRecord
      BY <1>3, <2>2 DEF Served, OfflineTypeOK
    <3>2. call[g].client # None => call[g].client # r.client BY <1>1, <2>2 DEF Alone
    <3> QED BY <3>1, <3>2, <1>3, <1>9, OfflineConstants DEF ServedFor
  <2> QED BY <2>1, <2>2
<1>5. Alone' BY <1>3 DEF Alone, NoRequest
<1>6. Flushing'
  <2> SUFFICES ASSUME NEW f \in Flushers PROVE InHand(f)' BY DEF Flushing
  <2>1. InHand(f) /\ flush[f] \in FlushRecord BY DEF Flushing, OfflineTypeOK
  <2>2. CASE f = r.client
    <3>1. r.tag /\ flush[f].sale = r.sale /\ r.sale \in Sales BY <1>1, <1>2, <2>2 DEF ServedFor
    <3>2. ok => tagged'[r.sale] > 0 BY <3>1, <1>1
    <3> QED BY <3>1, <3>2, <1>9, <2>2 DEF InHand
  <2>3. CASE f # r.client
    <3>1. flush'[f].pc = flush[f].pc /\ flush'[f].sale = flush[f].sale BY <1>9, <2>3
    <3> QED BY <2>1, <3>1 DEF InHand, OfflineTypeOK
  <2> QED BY <2>2, <2>3
<1>7. NeverLost'
  <2> SUFFICES ASSUME NEW s \in Sales
               PROVE  /\ cart'[s] = "queued" => queue'[s].waits \/ tagged'[s] > 0 \/ s \in dropped'
                      /\ cart'[s] = "sold" => online'[s] > 0
    BY DEF NeverLost
  <2>1. tagged'[s] >= tagged[s] /\ online'[s] >= online[s] /\ tagged[s] \in Nat /\ online[s] \in Nat
        /\ tagged'[s] \in Nat /\ online'[s] \in Nat
    BY DEF OfflineTypeOK
  <2>2. CASE s = r.client
    <3>1. ~r.tag /\ r.sale = s BY <1>1, <1>2, <2>2 DEF ServedFor
    <3> QED BY <1>1, <1>3, <1>9, <2>2, <3>1
  <2>3. CASE s # r.client
    <3>1. cart'[s] = cart[s] BY <1>9, <2>3
    <3> QED BY <2>1, <3>1 DEF NeverLost
  <2> QED BY <2>2, <2>3
<1>8. \A g \in Handlers, s \in Sales : Making(g, s)' => g # h /\ Making(g, s)
  BY <1>3 DEF Making, NoRequest
<1> QED BY <1>3, <1>9, <1>4, <1>5, <1>6, <1>7, <1>8

\* What no request, invoice or refund changes about the lookups.
LEMMA LookupsKept ==
  ASSUME Lookups, UNCHANGED <<tagged, findable, blind>>,
         \A g \in Handlers, s \in Sales : Making(g, s)' => Making(g, s)
  PROVE  Lookups'
<1> SUFFICES ASSUME NEW s \in Sales \ blind PROVE Seen(s)'
  BY DEF Lookups
<1>1. Seen(s) BY DEF Lookups
<1> QED BY <1>1 DEF Seen

LEMMA KeptByCharge == ASSUME OfflineInv, NEW s \in Sales, Charge(s) PROVE OfflineInv'
<1> USE DEF OfflineInv
<1>1. /\ call' \in [Handlers -> CallRecord]
      /\ \A h \in Handlers :
           \/ call'[h] = call[h]
           \/ /\ call[h].pc = "idle" /\ call'[h].pc = "lookup" /\ call'[h].sale = s
              /\ call'[h].tag = FALSE /\ call'[h].client = s
      /\ \A h, g \in Handlers : call'[h] # call[h] /\ call'[g] # call[g] => h = g
  BY NewCall DEF Charge
<1>2. /\ cart[s] = "open" /\ cart' = [cart EXCEPT ![s] = "sent"]
      /\ UNCHANGED <<queue, flush, dropped, online, tagged, findable, blind>>
  BY DEF Charge, server
<1>3. OfflineTypeOK' BY <1>1, <1>2 DEF OfflineTypeOK
<1>4. \A h \in Handlers : call[h].client # s BY <1>2 DEF Served, ServedFor
<1>5. Served' BY <1>1, <1>2, <1>4, OfflineConstants DEF Served, ServedFor, OfflineTypeOK
<1>6. Alone' BY <1>1, <1>4 DEF Alone
<1>7. Flushing' BY <1>2 DEF Flushing, InHand
<1>8. Lookups' BY <1>1, <1>2, LookupsKept DEF Making
<1>9. NeverLost' BY <1>2 DEF NeverLost, OfflineTypeOK
<1> QED BY <1>3, <1>5, <1>6, <1>7, <1>8, <1>9

LEMMA KeptByChargeOffline == ASSUME OfflineInv, NEW s \in Sales, ChargeOffline(s) PROVE OfflineInv'
<1> USE DEF OfflineInv
<1>1. /\ cart[s] = "open" /\ cart' = [cart EXCEPT ![s] = "queued"]
      /\ queue' = [queue EXCEPT ![s] = [NoRow EXCEPT !.waits = TRUE]]
      /\ UNCHANGED <<flush, call, dropped, online, tagged, findable, blind>>
  BY DEF ChargeOffline, Enqueue, server
<1>2. [NoRow EXCEPT !.waits = TRUE] \in QueueRow /\ [NoRow EXCEPT !.waits = TRUE].waits
  BY DEF NoRow, QueueRow
<1>3. OfflineTypeOK' BY <1>1, <1>2 DEF OfflineTypeOK
<1>4. \A h \in Handlers : call[h].client # s BY <1>1 DEF Served, ServedFor
<1>5. Served' BY <1>1, <1>4 DEF Served, ServedFor, OfflineTypeOK
<1>6. Alone' /\ Flushing' BY <1>1 DEF Alone, Flushing, InHand
<1>7. Lookups' BY <1>1, LookupsKept DEF Making
<1>8. NeverLost' BY <1>1, <1>2 DEF NeverLost, OfflineTypeOK
<1> QED BY <1>3, <1>5, <1>6, <1>7, <1>8

LEMMA KeptByChargeUnanswered ==
  ASSUME OfflineInv, NEW s \in Sales, ChargeUnanswered(s) PROVE OfflineInv'
<1> USE DEF OfflineInv
<1>1. /\ cart[s] = "sent" /\ cart' = [cart EXCEPT ![s] = "queued"]
      /\ queue' = [queue EXCEPT ![s] = [NoRow EXCEPT !.waits = TRUE]]
      /\ UNCHANGED <<flush, dropped, online, tagged, findable, blind>>
  BY DEF ChargeUnanswered, Enqueue, server
<1>2. [NoRow EXCEPT !.waits = TRUE] \in QueueRow /\ [NoRow EXCEPT !.waits = TRUE].waits
  BY DEF NoRow, QueueRow
<1>3. /\ call' \in [Handlers -> CallRecord]
      /\ \A h \in Handlers :
           /\ call'[h].pc = call[h].pc /\ call'[h].sale = call[h].sale
           /\ call'[h].tag = call[h].tag
           /\ call'[h].client = IF call[h].client = s THEN None ELSE call[h].client
  BY CutOff DEF ChargeUnanswered
<1>4. OfflineTypeOK' BY <1>1, <1>2, <1>3 DEF OfflineTypeOK
<1>5. Served' BY <1>1, <1>3, OfflineConstants DEF Served, ServedFor, OfflineTypeOK
<1>6. Alone' /\ Flushing' BY <1>1, <1>3 DEF Alone, Flushing, InHand
<1>7. Lookups' BY <1>1, <1>3, LookupsKept DEF Making
<1>8. NeverLost' BY <1>1, <1>2 DEF NeverLost, OfflineTypeOK
<1> QED BY <1>4, <1>5, <1>6, <1>7, <1>8

LEMMA KeptByStartFlush == ASSUME OfflineInv, NEW f \in Flushers, StartFlush(f) PROVE OfflineInv'
<1> USE DEF OfflineInv
<1> DEFINE r == [NoFlush EXCEPT !.pc = "next", !.rows = {s \in Sales : Pending(s)}]
<1>1. /\ flush[f].pc = "idle" /\ flush' = [flush EXCEPT ![f] = r]
      /\ UNCHANGED <<cart, queue, call, dropped, online, tagged, findable, blind>>
  BY DEF StartFlush, server
<1>2. r \in FlushRecord /\ r.pc = "next" BY DEF NoFlush, FlushRecord
<1> HIDE DEF r
<1>3. OfflineTypeOK' BY <1>1, <1>2 DEF OfflineTypeOK
<1>4. \A h \in Handlers : call[h].client # f BY <1>1 DEF Served, ServedFor
<1>5. Served' BY <1>1, <1>4 DEF Served, ServedFor, OfflineTypeOK
<1>6. Flushing' BY <1>1, <1>2 DEF Flushing, InHand, OfflineTypeOK
<1>7. Alone' /\ NeverLost' BY <1>1 DEF Alone, NeverLost
<1>8. Lookups' BY <1>1, LookupsKept DEF Making
<1> QED BY <1>3, <1>5, <1>6, <1>7, <1>8

LEMMA KeptBySendRow == ASSUME OfflineInv, NEW f \in Flushers, SendRow(f) PROVE OfflineInv'
<1> USE DEF OfflineInv
<1>1. /\ flush[f].pc = "next"
      /\ UNCHANGED <<cart, queue, dropped, online, tagged, findable, blind>>
  BY DEF SendRow, server
<1>2. \A h \in Handlers : call[h].client # f BY <1>1 DEF Served, ServedFor
<1>3. NeverLost' BY <1>1 DEF NeverLost
<1>4. CASE flush[f].rows = {} /\ flush' = [flush EXCEPT ![f] = NoFlush] /\ UNCHANGED call
  <2>1. NoFlush \in FlushRecord /\ NoFlush.pc = "idle" BY DEF NoFlush, FlushRecord
  <2>2. OfflineTypeOK' BY <1>1, <1>4, <2>1 DEF OfflineTypeOK
  <2>3. Served' BY <1>1, <1>4, <1>2 DEF Served, ServedFor, OfflineTypeOK
  <2>4. Flushing' BY <1>1, <1>4, <2>1 DEF Flushing, InHand, OfflineTypeOK
  <2>5. Alone' BY <1>4 DEF Alone
  <2>6. Lookups' BY <1>1, <1>4, LookupsKept DEF Making
  <2> QED BY <1>3, <2>2, <2>3, <2>4, <2>5, <2>6
<1>5. ASSUME NEW s \in flush[f].rows,
             flush' = [flush EXCEPT ![f].pc = "sent", ![f].sale = s, ![f].rows = @ \ {s}],
             Arrives(s, TRUE, f) \/ UNCHANGED call
      PROVE  OfflineInv'
  <2>1. s \in Sales BY DEF OfflineTypeOK, FlushRecord
  <2>2. /\ call' \in [Handlers -> CallRecord]
        /\ \A h \in Handlers :
             \/ call'[h] = call[h]
             \/ /\ call[h].pc = "idle" /\ call'[h].pc = "lookup" /\ call'[h].sale = s
                /\ call'[h].tag = TRUE /\ call'[h].client = f
        /\ \A h, g \in Handlers : call'[h] # call[h] /\ call'[g] # call[g] => h = g
    BY <1>5, <2>1, NewCall
  <2>3. /\ flush' \in [Flushers -> FlushRecord]
        /\ flush'[f].pc = "sent" /\ flush'[f].sale = s
        /\ \A e \in Flushers \ {f} : flush'[e] = flush[e]
    BY <1>5, <2>1 DEF OfflineTypeOK, FlushRecord
  <2>4. OfflineTypeOK' BY <1>1, <2>2, <2>3 DEF OfflineTypeOK
  <2>5. Served' BY <1>1, <1>2, <2>1, <2>2, <2>3, OfflineConstants DEF Served, ServedFor
  <2>6. Alone' BY <1>2, <2>2 DEF Alone
  <2>7. Flushing' BY <1>1, <2>1, <2>3 DEF Flushing, InHand
  <2>8. Lookups' BY <1>1, <2>2, LookupsKept DEF Making
  <2> QED BY <1>3, <2>4, <2>5, <2>6, <2>7, <2>8
<1> QED BY <1>4, <1>5 DEF SendRow

LEMMA KeptByRowUnanswered ==
  ASSUME OfflineInv, NEW f \in Flushers, RowUnanswered(f) PROVE OfflineInv'
<1> USE DEF OfflineInv
<1>1. /\ flush[f].pc = "sent" /\ flush' = [flush EXCEPT ![f].pc = "failed"]
      /\ UNCHANGED <<cart, queue, dropped, online, tagged, findable, blind>>
  BY DEF RowUnanswered, server
<1>2. /\ call' \in [Handlers -> CallRecord]
      /\ \A h \in Handlers :
           /\ call'[h].pc = call[h].pc /\ call'[h].sale = call[h].sale
           /\ call'[h].tag = call[h].tag
           /\ call'[h].client = IF call[h].client = f THEN None ELSE call[h].client
  BY CutOff DEF RowUnanswered
<1>3. /\ flush' \in [Flushers -> FlushRecord]
      /\ flush'[f].pc = "failed" /\ flush'[f].sale = flush[f].sale
      /\ \A e \in Flushers \ {f} : flush'[e] = flush[e]
  BY <1>1 DEF OfflineTypeOK, FlushRecord
<1>4. OfflineTypeOK' BY <1>1, <1>2, <1>3 DEF OfflineTypeOK
<1>5. Served' BY <1>1, <1>2, <1>3, OfflineConstants DEF Served, ServedFor
<1>6. Alone' BY <1>2 DEF Alone
<1>7. Flushing' BY <1>1, <1>3 DEF Flushing, InHand
<1>8. Lookups' BY <1>1, <1>2, LookupsKept DEF Making
<1>9. NeverLost' BY <1>1 DEF NeverLost
<1> QED BY <1>4, <1>5, <1>6, <1>7, <1>8, <1>9

\* The steps of a flush that change the queue, or its own record, and nothing else.
LEMMA FlushGoesOn ==
  ASSUME OfflineInv, NEW f \in Flushers, flush[f].pc \in {"remove", "failed", "mark"},
         flush' \in [Flushers -> FlushRecord], flush'[f].pc \in {"next", "mark"},
         flush'[f].pc = "mark" => flush'[f].sale = flush[f].sale,
         \A e \in Flushers \ {f} : flush'[e] = flush[e],
         queue' \in [Sales -> QueueRow],
         \A s \in Sales : queue[s].waits => queue'[s].waits \/ tagged[s] > 0,
         UNCHANGED <<cart, call, dropped, online, tagged, findable, blind>>
  PROVE  OfflineInv'
<1> USE DEF OfflineInv
<1>1. OfflineTypeOK' BY DEF OfflineTypeOK
<1>2. \A h \in Handlers : call[h].client # f BY DEF Served, ServedFor
<1>3. Served' BY <1>2 DEF Served, ServedFor
<1>4. Alone' BY DEF Alone
<1>5. Flushing' BY DEF Flushing, InHand
<1>6. Lookups' BY LookupsKept DEF Making
<1>7. NeverLost' BY DEF NeverLost
<1> QED BY <1>1, <1>3, <1>4, <1>5, <1>6, <1>7

LEMMA KeptByRemovePendingSale ==
  ASSUME OfflineInv, NEW f \in Flushers, RemovePendingSale(f) PROVE OfflineInv'
<1> USE DEF OfflineInv
<1>1. PICK s \in Sales : s = flush[f].sale /\ tagged[s] > 0
  BY DEF RemovePendingSale, Flushing, InHand
<1>2. /\ flush[f].pc = "remove" /\ queue' = [queue EXCEPT ![s] = NoRow]
      /\ flush' = [flush EXCEPT ![f] = [@ EXCEPT !.pc = "next", !.sale = None]]
      /\ UNCHANGED <<cart, call, dropped, online, tagged, findable, blind>>
  BY <1>1 DEF RemovePendingSale, server
<1>3. /\ flush' \in [Flushers -> FlushRecord] /\ flush'[f].pc = "next"
      /\ \A e \in Flushers \ {f} : flush'[e] = flush[e]
  BY <1>2 DEF OfflineTypeOK, FlushRecord
<1>4. /\ queue' \in [Sales -> QueueRow]
      /\ \A x \in Sales : queue[x].waits => queue'[x].waits \/ tagged[x] > 0
  BY <1>1, <1>2 DEF OfflineTypeOK, NoRow, QueueRow
<1> QED BY <1>2, <1>3, <1>4, FlushGoesOn

LEMMA KeptByReadAttempts ==
  ASSUME OfflineInv, NEW f \in Flushers, ReadAttempts(f) PROVE OfflineInv'
<1> USE DEF OfflineInv
<1>1. PICK s \in Sales : s = flush[f].sale BY DEF ReadAttempts, Flushing, InHand
<1>2. /\ flush[f].pc = "failed"
      /\ flush' = [flush EXCEPT ![f] =
           IF queue[s].waits THEN [@ EXCEPT !.pc = "mark", !.attempts = queue[s].attempts + 1]
           ELSE [@ EXCEPT !.pc = "next", !.sale = None]]
      /\ UNCHANGED <<cart, queue, call, dropped, online, tagged, findable, blind>>
  BY <1>1 DEF ReadAttempts, server
<1>3. /\ flush' \in [Flushers -> FlushRecord] /\ flush'[f].pc \in {"next", "mark"}
      /\ flush'[f].pc = "mark" => flush'[f].sale = flush[f].sale
      /\ \A e \in Flushers \ {f} : flush'[e] = flush[e]
  <2>1. queue[s].attempts + 1 \in Nat BY DEF OfflineTypeOK, QueueRow
  <2>2. CASE queue[s].waits BY <1>2, <2>1, <2>2 DEF OfflineTypeOK, FlushRecord
  <2>3. CASE ~queue[s].waits BY <1>2, <2>3 DEF OfflineTypeOK, FlushRecord
  <2> QED BY <2>2, <2>3
<1>4. queue' \in [Sales -> QueueRow] BY <1>2 DEF OfflineTypeOK
<1> QED BY <1>2, <1>3, <1>4, FlushGoesOn

LEMMA KeptByMarkSaleAttempt ==
  ASSUME OfflineInv, NEW f \in Flushers, MarkSaleAttempt(f) PROVE OfflineInv'
<1> USE DEF OfflineInv
<1>1. PICK s \in Sales : s = flush[f].sale BY DEF MarkSaleAttempt, Flushing, InHand
<1>2. PICK row : row = [waits |-> TRUE, attempts |-> flush[f].attempts,
                        quarantined |-> flush[f].attempts >= MaxAttempts]
  OBVIOUS
<1>3. /\ flush[f].pc = "mark" /\ queue' = [queue EXCEPT ![s] = row]
      /\ flush' = [flush EXCEPT ![f] = [@ EXCEPT !.pc = "next", !.sale = None, !.attempts = 0]]
      /\ UNCHANGED <<cart, call, dropped, online, tagged, findable, blind>>
  BY <1>1, <1>2 DEF MarkSaleAttempt, server
<1>4. row \in QueueRow /\ row.waits
  BY <1>2, OfflineConstants DEF OfflineTypeOK, FlushRecord, QueueRow
<1>5. /\ flush' \in [Flushers -> FlushRecord] /\ flush'[f].pc = "next"
      /\ \A e \in Flushers \ {f} : flush'[e] = flush[e]
  BY <1>3 DEF OfflineTypeOK, FlushRecord
<1>6. queue' \in [Sales -> QueueRow] /\ \A x \in Sales : queue[x].waits => queue'[x].waits
  BY <1>3, <1>4 DEF OfflineTypeOK
<1> QED BY <1>3, <1>5, <1>6, FlushGoesOn

LEMMA KeptByDiscard == ASSUME OfflineInv, NEW s \in Sales, Discard(s) PROVE OfflineInv'
<1> USE DEF OfflineInv
<1>1. /\ queue' = [queue EXCEPT ![s] = NoRow] /\ dropped' = dropped \cup {s}
      /\ UNCHANGED <<cart, flush, call, online, tagged, findable, blind>>
  BY DEF Discard, server
<1>2. NoRow \in QueueRow BY DEF NoRow, QueueRow
<1>3. OfflineTypeOK' BY <1>1, <1>2 DEF OfflineTypeOK
<1>4. Served' /\ Alone' /\ Flushing' BY <1>1 DEF Served, ServedFor, Alone, Flushing, InHand
<1>5. Lookups' BY <1>1, LookupsKept DEF Making
<1>6. NeverLost' BY <1>1 DEF NeverLost, OfflineTypeOK
<1> QED BY <1>3, <1>4, <1>5, <1>6

LEMMA KeptByReload == ASSUME OfflineInv, Reload PROVE OfflineInv'
<1> USE DEF OfflineInv
<1>1. /\ flush' = [f \in Flushers |-> NoFlush]
      /\ cart' = [s \in Sales |-> IF cart[s] = "sent" THEN "open" ELSE cart[s]]
      /\ UNCHANGED <<queue, dropped, online, tagged, findable, blind>>
  BY DEF Reload, server
<1>2. /\ call' \in [Handlers -> CallRecord]
      /\ \A h \in Handlers :
           /\ call'[h].pc = call[h].pc /\ call'[h].sale = call[h].sale
           /\ call'[h].tag = call[h].tag /\ call'[h].client = None
  BY DEF Reload, OfflineTypeOK, CallRecord
<1>3. NoFlush \in FlushRecord /\ NoFlush.pc = "idle" BY DEF NoFlush, FlushRecord
<1>4. OfflineTypeOK' BY <1>1, <1>2, <1>3 DEF OfflineTypeOK
<1>5. Served' BY <1>2, OfflineConstants DEF Served, ServedFor
<1>6. Alone' BY <1>2 DEF Alone
<1>7. Flushing' BY <1>1, <1>3 DEF Flushing, InHand
<1>8. Lookups' BY <1>1, <1>2, LookupsKept DEF Making
<1>9. NeverLost' BY <1>1 DEF NeverLost
<1> QED BY <1>4, <1>5, <1>6, <1>7, <1>8, <1>9

LEMMA KeptByLookUp == ASSUME OfflineInv, NEW h \in Handlers, LookUpClientSale(h) PROVE OfflineInv'
<1> USE DEF OfflineInv
<1>1. PICK s \in Sales : s = call[h].sale BY DEF LookUpClientSale, Served, ServedFor
<1>2. /\ call[h].pc = "lookup" /\ UNCHANGED <<queue, dropped, online, tagged, findable>>
  BY DEF LookUpClientSale
<1>3. CASE call[h].tag /\ findable[s]
  <2>1. Answer(h, TRUE) /\ UNCHANGED blind BY <1>1, <1>3 DEF LookUpClientSale
  <2>2. tagged[s] > 0 BY <1>3 DEF Lookups
  <2>3. /\ online' \in [Sales -> Nat] /\ tagged' \in [Sales -> Nat]
        /\ \A x \in Sales : online'[x] >= online[x] /\ tagged'[x] >= tagged[x]
    BY <1>2 DEF OfflineTypeOK
  <2>4. /\ call' \in [Handlers -> CallRecord]
        /\ cart' \in [Sales -> {"open", "sent", "queued", "sold"}]
        /\ flush' \in [Flushers -> FlushRecord]
        /\ Served' /\ Alone' /\ Flushing' /\ NeverLost'
        /\ \A g \in Handlers, x \in Sales : Making(g, x)' => g # h /\ Making(g, x)
    BY <1>1, <1>2, <1>3, <2>1, <2>2, <2>3, AnswerKeeps
  <2>5. Lookups' BY <1>2, <2>1, <2>4, LookupsKept
  <2>6. OfflineTypeOK' BY <1>2, <2>1, <2>4 DEF OfflineTypeOK
  <2> QED BY <2>4, <2>5, <2>6
<1>4. CASE ~(call[h].tag /\ findable[s])
  <2>1. /\ call' = [call EXCEPT ![h].pc = "make"] /\ UNCHANGED <<cart, flush>>
        /\ blind' = IF call[h].tag /\ \E g \in Handlers \ {h} :
                           call[g].pc = "make" /\ call[g].tag /\ call[g].sale = s
                    THEN blind \cup {s} ELSE blind
    BY <1>1, <1>4 DEF LookUpClientSale
  <2>2. /\ call' \in [Handlers -> CallRecord] /\ call'[h].pc = "make"
        /\ call'[h].sale = s /\ call'[h].tag = call[h].tag /\ call'[h].client = call[h].client
        /\ \A g \in Handlers \ {h} : call'[g] = call[g]
    BY <1>1, <2>1 DEF OfflineTypeOK, CallRecord
  <2>3. OfflineTypeOK' BY <1>2, <2>1, <2>2 DEF OfflineTypeOK
  <2>4. Served' BY <1>1, <1>2, <2>1, <2>2 DEF Served, ServedFor
  <2>5. Alone' BY <2>2 DEF Alone
  <2>6. Flushing' /\ NeverLost' BY <1>2, <2>1 DEF Flushing, InHand, NeverLost
  <2>7. Lookups'
    <3> SUFFICES ASSUME NEW x \in Sales, x \notin blind' PROVE Seen(x)'
      BY <1>2 DEF Lookups
    <3>1. x \notin blind /\ Seen(x) BY <2>1 DEF Lookups
    <3>2. CASE x # s \/ ~call[h].tag
      <4>1. \A g \in Handlers : Making(g, x)' => Making(g, x) BY <2>2, <3>2 DEF Making
      <4> QED BY <1>2, <3>1, <4>1 DEF Seen
    <3>3. CASE x = s /\ call[h].tag
      <4>1. \A g \in Handlers \ {h} : ~Making(g, s)
        BY <2>1, <3>3, <3>1 DEF Making
      <4>2. \A g \in Handlers : Making(g, s)' => g = h BY <2>2, <4>1 DEF Making
      <4>3. tagged[s] = 0 BY <1>4, <3>1, <3>3 DEF Seen, OfflineTypeOK
      <4> QED BY <1>2, <3>1, <3>3, <4>2, <4>3 DEF Seen
    <3> QED BY <3>2, <3>3
  <2> QED BY <2>3, <2>4, <2>5, <2>6, <2>7
<1> QED BY <1>3, <1>4

LEMMA KeptByMakeInvoice == ASSUME OfflineInv, NEW h \in Handlers, MakeInvoice(h) PROVE OfflineInv'
<1> USE DEF OfflineInv
<1>1. PICK s \in Sales : s = call[h].sale BY DEF MakeInvoice, Served, ServedFor
<1>2. PICK ok \in BOOLEAN : Answer(h, ok) BY DEF MakeInvoice
<1>3. call[h].pc = "make" /\ UNCHANGED <<queue, dropped, blind>> BY DEF MakeInvoice
<1>4. CASE call[h].tag
  <2>1. /\ tagged' = [tagged EXCEPT ![s] = @ + 1]
        /\ findable' = [findable EXCEPT ![s] = TRUE] /\ UNCHANGED online
    BY <1>1, <1>4 DEF MakeInvoice
  <2>2. /\ online' \in [Sales -> Nat] /\ tagged' \in [Sales -> Nat]
        /\ tagged'[s] = tagged[s] + 1 /\ findable' \in [Sales -> BOOLEAN] /\ findable'[s]
        /\ \A x \in Sales \ {s} : tagged'[x] = tagged[x] /\ findable'[x] = findable[x]
        /\ \A x \in Sales : online'[x] >= online[x] /\ tagged'[x] >= tagged[x]
    BY <2>1 DEF OfflineTypeOK
  <2>3. tagged'[s] > 0 BY <2>2 DEF OfflineTypeOK
  <2>4. /\ call' \in [Handlers -> CallRecord]
        /\ cart' \in [Sales -> {"open", "sent", "queued", "sold"}]
        /\ flush' \in [Flushers -> FlushRecord]
        /\ Served' /\ Alone' /\ Flushing' /\ NeverLost'
        /\ \A g \in Handlers, x \in Sales : Making(g, x)' => g # h /\ Making(g, x)
    BY <1>1, <1>2, <1>3, <1>4, <2>2, <2>3, AnswerKeeps
  <2>5. OfflineTypeOK' BY <1>3, <2>2, <2>4 DEF OfflineTypeOK
  <2>6. Lookups'
    <3>1. \A x \in Sales : findable'[x] => tagged'[x] > 0
      BY <2>2, <2>3 DEF Lookups
    <3>2. ASSUME NEW x \in Sales \ blind PROVE Seen(x)'
      <4>1. Seen(x) BY DEF Lookups
      <4>2. CASE x = s
        <5>1. Making(h, s) BY <1>1, <1>3, <1>4 DEF Making
        <5>2. tagged[s] = 0 /\ \A g \in Handlers : Making(g, s) => g = h
          BY <4>1, <4>2, <5>1 DEF Seen
        <5> QED BY <2>2, <2>4, <4>2, <5>2 DEF Seen
      <4>3. CASE x # s BY <2>2, <2>4, <4>1, <4>3 DEF Seen
      <4> QED BY <4>2, <4>3
    <3> QED BY <1>3, <3>1, <3>2 DEF Lookups
  <2> QED BY <2>4, <2>5, <2>6
<1>5. CASE ~call[h].tag
  <2>1. online' = [online EXCEPT ![s] = @ + 1] /\ UNCHANGED <<tagged, findable>>
    BY <1>1, <1>5 DEF MakeInvoice
  <2>2. /\ online' \in [Sales -> Nat] /\ tagged' \in [Sales -> Nat] /\ online'[s] > 0
        /\ \A x \in Sales : online'[x] >= online[x] /\ tagged'[x] >= tagged[x]
    BY <2>1 DEF OfflineTypeOK
  <2>3. /\ call' \in [Handlers -> CallRecord]
        /\ cart' \in [Sales -> {"open", "sent", "queued", "sold"}]
        /\ flush' \in [Flushers -> FlushRecord]
        /\ Served' /\ Alone' /\ Flushing' /\ NeverLost'
        /\ \A g \in Handlers, x \in Sales : Making(g, x)' => g # h /\ Making(g, x)
    BY <1>1, <1>2, <1>3, <1>5, <2>2, AnswerKeeps
  <2>4. Lookups' BY <1>3, <2>1, <2>3, LookupsKept
  <2>5. OfflineTypeOK' BY <1>3, <2>1, <2>2, <2>3 DEF OfflineTypeOK
  <2> QED BY <2>3, <2>4, <2>5
<1> QED BY <1>4, <1>5

LEMMA KeptByRefuseSale == ASSUME OfflineInv, NEW h \in Handlers, RefuseSale(h) PROVE OfflineInv'
<1> USE DEF OfflineInv
<1>1. /\ call[h].pc = "make" /\ Answer(h, FALSE)
      /\ UNCHANGED <<queue, dropped, online, tagged, findable, blind>>
  BY DEF RefuseSale, server
<1>2. /\ online' \in [Sales -> Nat] /\ tagged' \in [Sales -> Nat]
      /\ \A x \in Sales : online'[x] >= online[x] /\ tagged'[x] >= tagged[x]
  BY <1>1 DEF OfflineTypeOK
<1>3. /\ call' \in [Handlers -> CallRecord]
      /\ cart' \in [Sales -> {"open", "sent", "queued", "sold"}]
      /\ flush' \in [Flushers -> FlushRecord]
      /\ Served' /\ Alone' /\ Flushing' /\ NeverLost'
      /\ \A g \in Handlers, x \in Sales : Making(g, x)' => g # h /\ Making(g, x)
  BY <1>1, <1>2, AnswerKeeps
<1>4. Lookups' BY <1>1, <1>3, LookupsKept
<1>5. OfflineTypeOK' BY <1>1, <1>3 DEF OfflineTypeOK
<1> QED BY <1>3, <1>4, <1>5

LEMMA KeptByRefundSale == ASSUME OfflineInv, NEW s \in Sales, RefundSale(s) PROVE OfflineInv'
<1> USE DEF OfflineInv
<1>1. /\ findable' = [findable EXCEPT ![s] = FALSE] /\ blind' = blind \cup {s}
      /\ UNCHANGED <<cart, queue, flush, call, dropped, online, tagged>>
  BY DEF RefundSale, terminal
<1>2. OfflineTypeOK' BY <1>1 DEF OfflineTypeOK
<1>3. Served' /\ Alone' /\ Flushing' /\ NeverLost'
  BY <1>1 DEF Served, ServedFor, Alone, Flushing, InHand, NeverLost
<1>4. Lookups'
  <2>1. \A x \in Sales : findable'[x] => tagged'[x] > 0 BY <1>1 DEF Lookups, OfflineTypeOK
  <2>2. ASSUME NEW x \in Sales, x \notin blind' PROVE Seen(x)'
    <3>1. x # s /\ Seen(x) BY <1>1, <2>2 DEF Lookups
    <3> QED BY <1>1, <3>1 DEF Seen, Making, OfflineTypeOK
  <2> QED BY <2>1, <2>2 DEF Lookups
<1> QED BY <1>2, <1>3, <1>4

LEMMA OfflineStep == OfflineInv /\ [OfflineNext]_offlineVars => OfflineInv'
<1> SUFFICES ASSUME OfflineInv, [OfflineNext]_offlineVars PROVE OfflineInv'
  OBVIOUS
<1>1. ASSUME NEW s \in Sales, Checkout(s) \/ Discard(s) \/ RefundSale(s) PROVE OfflineInv'
  BY <1>1, KeptByCharge, KeptByChargeOffline, KeptByChargeUnanswered, KeptByDiscard,
     KeptByRefundSale DEF Checkout
<1>2. ASSUME NEW f \in Flushers, StartFlush(f) \/ Flush(f) PROVE OfflineInv'
  BY <1>2, KeptByStartFlush, KeptBySendRow, KeptByRowUnanswered, KeptByRemovePendingSale,
     KeptByReadAttempts, KeptByMarkSaleAttempt DEF Flush
<1>3. ASSUME NEW h \in Handlers, ServeSale(h) PROVE OfflineInv'
  BY <1>3, KeptByLookUp, KeptByMakeInvoice, KeptByRefuseSale DEF ServeSale
<1>4. ASSUME UNCHANGED offlineVars PROVE OfflineInv'
  <2>1. UNCHANGED <<cart, queue, flush, call, online, tagged, findable, blind, dropped>>
    BY <1>4 DEF offlineVars
  <2> QED BY <2>1 DEF OfflineInv, OfflineTypeOK, Served, ServedFor, Alone, Flushing, InHand,
        Lookups, Seen, Making, NeverLost
<1> QED BY <1>1, <1>2, <1>3, <1>4, KeptByReload DEF OfflineNext

\* No sale is lost, whatever becomes of answers, reloads and overlapping
\* flushes: what the cashier was told is queued waits, has its invoice or was
\* discarded by hand, and what he was told is sold has its invoice.
THEOREM QueuedSalesAreNeverLost == OfflineSpec => []NeverLost
<1>1. OfflineInv => NeverLost BY DEF OfflineInv
<1> QED BY <1>1, OfflineStart, OfflineStep, PTL DEF OfflineSpec

\* The client id makes repetition harmless: a queued sale gets a second invoice
\* only if two requests with its id looked for it at the same time, or the first
\* invoice was refunded while the row still waited.
THEOREM ClientIdSellsOnce == OfflineSpec => []SoldOnce
<1>1. OfflineInv => SoldOnce BY DEF OfflineInv, OfflineTypeOK, Lookups, Seen, SoldOnce
<1> QED BY <1>1, OfflineStart, OfflineStep, PTL DEF OfflineSpec
-----------------------------------------------------------------------------
(***************************************************************************)
(* The cash drawer: the Z report finds the cash, and the journals follow   *)
(* the movements and the carts. DrawerInv has a part for each: Counting    *)
(* (the report of every open shift equals its cash, whatever sale still    *)
(* lacks its shift), MoveBooks and DraftHolds (what the handler of a       *)
(* movement or a cart did so far), with what a request has in hand         *)
(* (Equipments).                                                           *)
(***************************************************************************)

ShiftRow == [st : {"none", "OPEN", "CLOSED"}, cash : Int]
Document == [st : {"none", "PAID", "CANCELLED"}, shift : Shifts \cup {None}, when : SUBSET Shifts]
Movement == [st : {"none", "live", "gone"}, sign : {1, -1}, shift : Shifts \cup {None},
             journal : BOOLEAN, booked : Int, reversed : BOOLEAN]
Draft == [st : {"none", "held", "gone"}, outs : Nat]

\* Steps of a request that books a movement, undoes one, ends what it did for a cart.
Booking == {"book", "store"}
Reversing == {"look", "unbook", "delete"}
Ending == {"park", "drop"}
Task == [pc : {"idle", "open", "close", "sell", "attach", "noted", "move", "book", "store",
               "look", "unbook", "delete", "park", "drop"},
         shift : Shifts \cup {None}, doc : Sales \cup Moves \cup {None}, amount : Int,
         draft : Drafts \cup {None}, then : {"none", "park", "drop"}]

DrawerTypeOK ==
  /\ shift \in [Shifts -> ShiftRow] /\ cashSale \in [Sales -> Document]
  /\ note \in [Sales -> Document] /\ move \in [Moves -> Movement]
  /\ draft \in [Drafts -> Draft] /\ odd \subseteq Shifts /\ task \in [Handlers -> Task]

\* What a request must have in hand to take its next step. Every shift it
\* names was opened, but for the one it opens.
Equipped(t) ==
  /\ t.pc \in {"open", "close", "sell", "attach", "move"} => t.shift \in Shifts
  /\ t.pc \in {"attach", "noted"} => t.doc \in Sales
  /\ t.pc \in Booking \cup Reversing => t.doc \in Moves
  /\ t.pc \in {"move"} \cup Booking => t.amount \in {1, -1}
  /\ t.pc \in Booking \cup {"move"} => (t.draft = None <=> t.then = "none")
  /\ t.pc \in Ending => t.draft \in Drafts
  /\ t.pc \notin Booking \cup Ending \cup {"move"} => t.draft = None
  /\ t.pc = "park" => t.then = "park"
  /\ t.pc # "open" /\ t.shift # None => shift[t.shift].st # "none"
Equipments == \A h \in Handlers : Equipped(task[h])

\* A movement no request tore has one handler at most, and its journals stand
\* where that handler is.
Handles(t, m) == t.doc = m /\ t.pc \in Booking \cup Reversing \cup Ending
Booked(t, v) ==
  /\ t.pc = "book" => v.booked = 0 /\ t.amount = v.sign /\ ~v.reversed
  /\ t.pc \in {"store", "look", "unbook"} \cup Ending => v.booked = v.sign /\ ~v.reversed
  /\ t.pc = "delete" => v.booked = 0
  /\ t.pc \in Ending => v.journal
Books(m) ==
  LET v == move[m] IN
  /\ \A h, g \in Handlers : Handles(task[h], m) /\ Handles(task[g], m) => h = g
  /\ v.st # "live" => v.booked = 0 /\ \A h \in Handlers : ~Handles(task[h], m)
  /\ v.st = "live" =>
       \/ v.journal /\ v.booked = v.sign /\ ~v.reversed
       \/ \E h \in Handlers : Handles(task[h], m)
  /\ v.st = "live" => \A h \in Handlers : Handles(task[h], m) => Booked(task[h], v)
MoveBooks == \A m \in Moves \ torn : Books(m)

\* A cart no request tore has one handler at most, and the cash held for it was
\* paid out if that handler came past the payment, or is done.
Paid(t, v) ==
  /\ t.then = IF v.st = "none" THEN "park" ELSE "drop"
  /\ v.outs = IF t.then = "drop" /\ t.pc # "move" THEN 1 ELSE 0
Hold(d) ==
  /\ \A h, g \in Handlers : task[h].draft = d /\ task[g].draft = d => h = g
  /\ draft[d].st = "gone" => draft[d].outs = 1 /\ \A h \in Handlers : task[h].draft # d
  /\ draft[d].st # "gone" =>
       draft[d].outs = 0 \/ \E h \in Handlers : task[h].draft = d
  /\ \A h \in Handlers : task[h].draft = d => Paid(task[h], draft[d])
DraftHolds == \A d \in Drafts \ torn : Hold(d)

\* A shift that was never opened has neither cash nor documents.
Unopened(k) ==
  shift[k].st = "none" =>
    /\ shift[k].cash = 0
    /\ \A s \in Sales : cashSale[s].shift # k /\ k \notin cashSale[s].when
    /\ \A m \in Moves : move[m].shift # k
Opener(h) ==
  task[h].pc = "open" =>
    /\ shift[task[h].shift].st = "none"
    /\ \A g \in Handlers : task[g].pc = "open" /\ task[g].shift = task[h].shift => g = h

\* Until its shift is written, a sale counts for the shift it is made for.
Attacher(h) ==
  LET s == task[h].doc
      k == task[h].shift IN
  task[h].pc = "attach" =>
    /\ cashSale[s].st # "none" /\ cashSale[s].shift = None
    /\ k \in cashSale[s].when \/ shift[k].st = "CLOSED"
    /\ cashSale[s].when \ {k} \subseteq odd
    /\ \A g \in Handlers : task[g].pc = "attach" /\ task[g].doc = s => g = h

\* The report of a shift finds the cash, whenever it is drawn up.
NoNotes == \A s \in Sales : note[s].st = "none"
Reported(k) ==
  /\ shift[k].st = "OPEN" => shift[k].cash = ExpectedCash(k)
  /\ shift[k].st = "CLOSED" => shift[k].cash = 0
  /\ \A h \in Handlers : task[h].pc = "close" /\ task[h].shift = k => task[h].amount = 0
Reports == NoNotes => \A k \in Shifts \ odd : Reported(k)

\* Rows that exist: finitely many, credit notes only of sales.
MadeSales == {s \in Sales : cashSale[s].st # "none"}
MadeMoves == {m \in Moves : move[m].st # "none"}

Counting ==
  /\ IsFiniteSet(MadeSales) /\ IsFiniteSet(MadeMoves)
  /\ \A s \in Sales : note[s].st # "none" => s \in MadeSales
  /\ \A k \in Shifts : Unopened(k)
  /\ \A h \in Handlers : Opener(h) /\ Attacher(h)
  /\ Reports

DrawerInv == DrawerTypeOK /\ Equipments /\ MoveBooks /\ DraftHolds /\ Counting

LEMMA DrawerStart == DrawerInit => DrawerInv
<1> SUFFICES ASSUME DrawerInit PROVE DrawerInv OBVIOUS
<1>1. DrawerTypeOK
  BY DEF DrawerInit, DrawerTypeOK, ShiftRow, Document, Movement, Draft, Task, NoShift, NoDoc,
     NoMove, NoDraft, NoTask
<1>2. Equipments BY DEF DrawerInit, Equipments, Equipped, NoTask, Booking, Reversing, Ending
<1>3. MoveBooks
  BY DEF DrawerInit, MoveBooks, Books, Handles, NoMove, NoTask, Booking, Reversing, Ending
<1>4. DraftHolds BY DrawerConstants DEF DrawerInit, DraftHolds, Hold, NoDraft, NoTask
<1>5. Counting
  <2>1. MadeSales = {} /\ MadeMoves = {}
    BY DEF DrawerInit, MadeSales, MadeMoves, NoDoc, NoMove
  <2>2. \A k \in Shifts : Unopened(k)
    BY DrawerConstants DEF DrawerInit, Unopened, NoShift, NoDoc, NoMove
  <2>3. \A h \in Handlers : Opener(h) /\ Attacher(h)
    BY DEF DrawerInit, Opener, Attacher, NoTask
  <2>4. Reports BY DEF DrawerInit, Reports, Reported, NoShift, NoTask
  <2>5. \A s \in Sales : note[s].st = "none" BY DEF DrawerInit, NoDoc
  <2> QED BY <2>1, <2>2, <2>3, <2>4, <2>5, FS_EmptySet DEF Counting
<1> QED BY <1>1, <1>2, <1>3, <1>4, <1>5 DEF DrawerInv

\* A step that leaves a request with r.
LEMMA StepTyped ==
  ASSUME DrawerTypeOK, Equipments, NEW h \in Handlers, NEW r \in Task, Equipped(r)',
         task' = [task EXCEPT ![h] = r],
         \A k \in Shifts : shift[k].st # "none" => shift'[k].st # "none"
  PROVE  task' \in [Handlers -> Task] /\ Equipments'
<1>1. task' \in [Handlers -> Task] BY DEF DrawerTypeOK
<1>2. ASSUME NEW g \in Handlers PROVE Equipped(task[g])'
  <2>1. CASE g = h
    <3>1. task'[g] = r BY <2>1 DEF DrawerTypeOK
    <3> QED BY <3>1 DEF Equipped
  <2>2. CASE g # h
    <3>1. task'[g] = task[g] /\ Equipped(task[g]) /\ task[g] \in Task
      BY <2>2 DEF DrawerTypeOK, Equipments
    <3>2. task[g].shift \in Shifts \/ task[g].shift = None BY <3>1 DEF Task
    <3> QED BY <3>1, <3>2 DEF Equipped
  <2> QED BY <2>1, <2>2
<1> QED BY <1>1, <1>2 DEF Equipments

\* A movement that neither the step nor what the request does next is about.
LEMMA BooksElsewhere ==
  ASSUME DrawerTypeOK, NEW m \in Moves, Books(m), NEW h \in Handlers, NEW r,
         task' = [task EXCEPT ![h] = r], move'[m] = move[m],
         ~Handles(task[h], m), ~Handles(r, m)
  PROVE  Books(m)'
<1>1. \A g \in Handlers : task'[g] = IF g = h THEN r ELSE task[g] BY DEF DrawerTypeOK
<1>2. \A g \in Handlers : Handles(task[g], m)' => g # h /\ Handles(task[g], m)
  BY <1>1 DEF Handles
<1>3. \A g \in Handlers : Handles(task[g], m) => g # h /\ Handles(task[g], m)'
  BY <1>1 DEF Handles
<1> QED BY <1>1, <1>2, <1>3 DEF Books, Booked

LEMMA HoldElsewhere ==
  ASSUME DrawerTypeOK, NEW d \in Drafts, Hold(d), NEW h \in Handlers, NEW r,
         task' = [task EXCEPT ![h] = r], draft'[d] = draft[d],
         task[h].draft # d, r.draft # d
  PROVE  Hold(d)'
<1>1. \A g \in Handlers : task'[g] = IF g = h THEN r ELSE task[g] BY DEF DrawerTypeOK
<1> QED BY <1>1 DEF Hold, Paid

\* A step of a request between two payments for its cart, if it has one.
LEMMA HoldKept ==
  ASSUME DrawerTypeOK, NEW d \in Drafts, Hold(d), NEW h \in Handlers, NEW r,
         task' = [task EXCEPT ![h] = r], draft'[d] = draft[d],
         r.draft = task[h].draft, r.then = task[h].then, (r.pc = "move") = (task[h].pc = "move")
  PROVE  Hold(d)'
<1>1. \A g \in Handlers : task'[g] = IF g = h THEN r ELSE task[g] BY DEF DrawerTypeOK
<1> QED BY <1>1 DEF Hold, Paid

\* What the report of a shift counts depends on sales, credit notes, and the
\* state, shift and direction of the movements.
LEMMA SameExpected ==
  ASSUME NEW k, UNCHANGED <<cashSale, note>>,
         \A m \in Moves : /\ move'[m].st = move[m].st /\ move'[m].shift = move[m].shift
                          /\ move'[m].sign = move[m].sign
  PROVE  ExpectedCash(k)' = ExpectedCash(k)
<1>1. SalesOf(k)' = SalesOf(k) /\ NotesOf(k)' = NotesOf(k)
  BY DEF SalesOf, NotesOf, InTime
<1>2. CashSales(k)' = CashSales(k) BY <1>1 DEF CashSales
<1>3. MovesOf(k, 1)' = MovesOf(k, 1) /\ MovesOf(k, -1)' = MovesOf(k, -1)
  BY DEF MovesOf
<1> QED BY <1>1, <1>2, <1>3 DEF ExpectedCash

\* A step that moves no cash and changes nothing a report counts.
LEMMA CountingKept ==
  ASSUME DrawerTypeOK, Equipments, Counting, NEW h \in Handlers, NEW r,
         task' = [task EXCEPT ![h] = r], UNCHANGED <<shift, cashSale, note, odd>>,
         \A m \in Moves : /\ move'[m].st = move[m].st /\ move'[m].shift = move[m].shift
                          /\ move'[m].sign = move[m].sign,
         r.pc = "open" => /\ shift[r.shift].st = "none"
                          /\ \A g \in Handlers : ~(task[g].pc = "open" /\ task[g].shift = r.shift),
         r.pc # "attach",
         r.pc = "close" => (NoNotes /\ r.shift \in Shifts \ odd => r.amount = 0)
  PROVE  Counting'
<1>1. \A g \in Handlers : task'[g] = IF g = h THEN r ELSE task[g] BY DEF DrawerTypeOK
<1>2. MadeSales' = MadeSales /\ MadeMoves' = MadeMoves BY DEF MadeSales, MadeMoves
<1>3. \A k \in Shifts : Unopened(k)' BY DEF Unopened, Counting
<1>4. ASSUME NEW g \in Handlers PROVE Opener(g)' /\ Attacher(g)'
  <2>1. Opener(g) /\ Attacher(g) BY DEF Counting
  <2> QED BY <1>1, <2>1 DEF Opener, Attacher
<1>5. Reports'
  <2> SUFFICES ASSUME NoNotes, NEW k \in Shifts \ odd PROVE Reported(k)'
    BY DEF Reports, NoNotes
  <2>1. Reported(k) BY DEF Counting, Reports
  <2>2. ExpectedCash(k)' = ExpectedCash(k) BY SameExpected
  <2>3. \A g \in Handlers : task'[g].pc = "close" /\ task'[g].shift = k => task'[g].amount = 0
    BY <1>1, <2>1 DEF Reported
  <2> QED BY <2>1, <2>2, <2>3 DEF Reported
<1> QED BY <1>2, <1>3, <1>4, <1>5 DEF Counting

\* The expected cash is a number.
LEMMA ExpectedIsInt ==
  ASSUME DrawerTypeOK, Counting, NEW k \in Shifts
  PROVE  /\ IsFiniteSet(SalesOf(k)) /\ IsFiniteSet(MovesOf(k, 1)) /\ IsFiniteSet(MovesOf(k, -1))
         /\ Cardinality(SalesOf(k)) \in Nat
         /\ Cardinality(MovesOf(k, 1)) \in Nat /\ Cardinality(MovesOf(k, -1)) \in Nat
         /\ ExpectedCash(k) \in Int
<1>1. SalesOf(k) \subseteq MadeSales /\ NotesOf(k) \subseteq MadeSales
  BY DEF SalesOf, NotesOf, MadeSales, Counting
<1>2. MovesOf(k, 1) \subseteq MadeMoves /\ MovesOf(k, -1) \subseteq MadeMoves
  BY DEF MovesOf, MadeMoves
<1>3. {s \in NotesOf(k) : note[s].shift = k} \subseteq MadeSales BY <1>1
<1>4. /\ IsFiniteSet(SalesOf(k)) /\ IsFiniteSet(NotesOf(k))
      /\ IsFiniteSet({s \in NotesOf(k) : note[s].shift = k})
      /\ IsFiniteSet(MovesOf(k, 1)) /\ IsFiniteSet(MovesOf(k, -1))
  BY <1>1, <1>2, <1>3, FS_Subset DEF Counting
<1>5. /\ Cardinality(SalesOf(k)) \in Nat /\ Cardinality(NotesOf(k)) \in Nat
      /\ Cardinality({s \in NotesOf(k) : note[s].shift = k}) \in Nat
      /\ Cardinality(MovesOf(k, 1)) \in Nat /\ Cardinality(MovesOf(k, -1)) \in Nat
  BY <1>4, FS_CardinalityType
<1> QED BY <1>4, <1>5 DEF ExpectedCash, CashSales

\* As long as nothing is refunded, only sales and movements count.
LEMMA ExpectedWithoutNotes ==
  ASSUME DrawerTypeOK, Counting, NoNotes, NEW k \in Shifts
  PROVE  /\ ExpectedCash(k) = Cardinality(SalesOf(k)) + Cardinality(MovesOf(k, 1))
                                - Cardinality(MovesOf(k, -1))
         /\ Cardinality(SalesOf(k)) \in Nat
         /\ Cardinality(MovesOf(k, 1)) \in Nat /\ Cardinality(MovesOf(k, -1)) \in Nat
<1>1. NotesOf(k) = {} BY DEF NotesOf, NoNotes
<1>2. {s \in NotesOf(k) : note[s].shift = k} = {} BY <1>1
<1>3. /\ Cardinality(SalesOf(k)) \in Nat 
      /\ Cardinality(MovesOf(k, 1)) \in Nat
      /\ Cardinality(MovesOf(k, -1)) \in Nat
  <2>1. Cardinality(SalesOf(k)) \in Nat
    BY ExpectedIsInt
  <2>2. Cardinality(MovesOf(k, 1)) \in Nat
    BY ExpectedIsInt
  <2>3. Cardinality(MovesOf(k, -1)) \in Nat
    BY ExpectedIsInt
  <2> QED BY <2>1, <2>2, <2>3
<1>4. CashSales(k) = Cardinality(SalesOf(k))
  <2>1. CashSales(k) = Cardinality(SalesOf(k)) + Cardinality({}) BY <1>2 DEF CashSales
  <2> QED BY <1>3, <2>1, FS_EmptySet
<1>5. ExpectedCash(k) = CashSales(k) - Cardinality({}) + Cardinality(MovesOf(k, 1))
                          - Cardinality(MovesOf(k, -1))
  BY <1>1 DEF ExpectedCash
<1>6. ExpectedCash(k) = CashSales(k) + Cardinality(MovesOf(k, 1)) - Cardinality(MovesOf(k, -1))
  BY <1>3, <1>4, <1>5, FS_EmptySet
<1> QED BY <1>3, <1>4, <1>6

\* A request that arrives, with what it reads.
LEMMA Begun ==
  ASSUME DrawerInv, NEW h \in Handlers, NEW r \in Task, Begin(h, r), Equipped(r),
         UNCHANGED rows, UNCHANGED odd, torn \subseteq torn',
         \A m \in Moves : m \notin torn' /\ Handles(r, m) =>
           /\ move[m].st = "live" /\ Booked(r, move[m])
           /\ \A g \in Handlers : ~Handles(task[g], m),
         \A d \in Drafts : d \notin torn' /\ r.draft = d =>
           /\ draft[d].st # "gone" /\ Paid(r, draft[d])
           /\ \A g \in Handlers : task[g].draft # d,
         r.pc = "open" => /\ shift[r.shift].st = "none"
                          /\ \A g \in Handlers : ~(task[g].pc = "open" /\ task[g].shift = r.shift),
         r.pc # "attach",
         r.pc = "close" => (NoNotes /\ r.shift \in Shifts \ odd => r.amount = 0)
  PROVE  DrawerInv'
<1> USE DEF DrawerInv
<1>1. /\ task[h].pc = "idle" /\ task' = [task EXCEPT ![h] = r]
      /\ UNCHANGED <<shift, cashSale, note, move, draft, odd>>
  BY DEF Begin, rows
<1>2. Equipped(r)' BY <1>1 DEF Equipped
<1>3. task' \in [Handlers -> Task] /\ Equipments' BY <1>1, <1>2, StepTyped
<1>4. DrawerTypeOK' BY <1>1, <1>3 DEF DrawerTypeOK
<1>5. \A g \in Handlers : task'[g] = IF g = h THEN r ELSE task[g] BY <1>1 DEF DrawerTypeOK
<1>6. task[h].draft = None /\ \A m \in Moves : ~Handles(task[h], m)
  BY <1>1 DEF Equipments, Equipped, Handles, Booking, Reversing, Ending
<1>7. MoveBooks'
  <2> SUFFICES ASSUME NEW m \in Moves, m \notin torn' PROVE Books(m)'
    BY DEF MoveBooks
  <2>1. Books(m) BY DEF MoveBooks
  <2>2. CASE ~Handles(r, m) BY <1>1, <1>6, <2>1, <2>2, BooksElsewhere
  <2>3. CASE Handles(r, m)
    <3>1. \A g \in Handlers : Handles(task[g], m)' => g = h BY <1>5, <2>3 DEF Handles
    <3>2. move[m].st = "live" /\ Booked(r, move[m]) BY <2>3
    <3>3. Handles(task[h], m)' BY <1>5, <2>3 DEF Handles
    <3>4. Booked(task[h], move[m])' BY <1>1, <1>5, <3>2 DEF Booked
    <3> QED BY <1>1, <3>1, <3>2, <3>3, <3>4 DEF Books
  <2> QED BY <2>2, <2>3
<1>8. DraftHolds'
  <2> SUFFICES ASSUME NEW d \in Drafts, d \notin torn' PROVE Hold(d)'
    BY DEF DraftHolds
  <2>1. Hold(d) BY DEF DraftHolds
  <2>2. CASE r.draft # d BY <1>1, <1>6, <2>1, <2>2, HoldElsewhere, DrawerConstants
  <2>3. CASE r.draft = d
    <3>1. draft[d].st # "gone" /\ Paid(r, draft[d]) /\ \A g \in Handlers : task[g].draft # d
      BY <2>3
    <3> QED BY <1>1, <1>5, <2>3, <3>1 DEF Hold, Paid
  <2> QED BY <2>2, <2>3
<1>9. Counting' BY <1>1, CountingKept
<1> QED BY <1>3, <1>4, <1>7, <1>8, <1>9

LEMMA NoTaskOK == NoTask \in Task
BY DEF NoTask, Task

LEMMA KeptByLoadOpen ==
  ASSUME DrawerInv, NEW h \in Handlers, NEW k \in Shifts, LoadOpen(h, k) PROVE DrawerInv'
<1> USE DEF DrawerInv
<1>1. PICK r : r = [NoTask EXCEPT !.pc = "open", !.shift = k] OBVIOUS
<1>2. r \in Task BY <1>1, NoTaskOK DEF Task
<1>3. r.pc = "open" /\ r.shift = k /\ r.draft = None /\ r.then = "none" BY <1>1 DEF NoTask
<1>4. /\ Begin(h, r) /\ UNCHANGED rows /\ UNCHANGED odd /\ torn' = torn
      /\ shift[k].st = "none" /\ k \notin BeingOpened
  BY <1>1 DEF LoadOpen
<1>5. \A g \in Handlers : ~(task[g].pc = "open" /\ task[g].shift = k)
  BY <1>4 DEF BeingOpened
<1>6. Equipped(r) BY <1>3 DEF Equipped, Booking, Reversing, Ending
<1>7. \A m \in Moves : ~Handles(r, m) BY <1>3 DEF Handles, Booking, Reversing, Ending
<1> QED BY <1>2, <1>3, <1>4, <1>5, <1>6, <1>7, Begun, DrawerConstants

LEMMA KeptByLoadClose ==
  ASSUME DrawerInv, NEW h \in Handlers, NEW k \in Shifts, LoadClose(h, k) PROVE DrawerInv'
<1> USE DEF DrawerInv
<1>1. PICK a : a = shift[k].cash - ExpectedCash(k) OBVIOUS
<1>2. shift[k].st = "OPEN" /\ shift[k].cash \in Int
  BY DEF LoadClose, OpenShifts, DrawerTypeOK, ShiftRow
<1>3. a \in Int BY <1>1, <1>2, ExpectedIsInt
<1>4. NoNotes /\ k \in Shifts \ odd => a = 0
  BY <1>1, <1>2, <1>3, ExpectedIsInt DEF Counting, Reports, Reported
<1>5. PICK r : r = [NoTask EXCEPT !.pc = "close", !.shift = k, !.amount = a] OBVIOUS
<1>6. r \in Task BY <1>3, <1>5, NoTaskOK DEF Task
<1>7. r.pc = "close" /\ r.shift = k /\ r.amount = a /\ r.draft = None /\ r.then = "none"
  BY <1>5 DEF NoTask
<1>8. Begin(h, r) /\ UNCHANGED rows /\ UNCHANGED odd /\ torn' = torn
  BY <1>1, <1>5 DEF LoadClose
<1>9. Equipped(r) BY <1>2, <1>7 DEF Equipped, Booking, Reversing, Ending
<1>10. \A m \in Moves : ~Handles(r, m) BY <1>7 DEF Handles, Booking, Reversing, Ending
<1> QED BY <1>4, <1>6, <1>7, <1>8, <1>9, <1>10, Begun, DrawerConstants

LEMMA KeptByLoadCashSale ==
  ASSUME DrawerInv, NEW h \in Handlers, NEW k \in Shifts, LoadCashSale(h, k) PROVE DrawerInv'
<1> USE DEF DrawerInv
<1>1. PICK r : r = [NoTask EXCEPT !.pc = "sell", !.shift = k] OBVIOUS
<1>2. r \in Task BY <1>1, NoTaskOK DEF Task
<1>3. r.pc = "sell" /\ r.shift = k /\ r.draft = None /\ r.then = "none" BY <1>1 DEF NoTask
<1>4. /\ Begin(h, r) /\ UNCHANGED rows /\ UNCHANGED odd /\ torn' = torn /\ shift[k].st = "OPEN"
  BY <1>1 DEF LoadCashSale, OpenShifts
<1>5. Equipped(r) BY <1>3, <1>4 DEF Equipped, Booking, Reversing, Ending
<1>6. \A m \in Moves : ~Handles(r, m) BY <1>3 DEF Handles, Booking, Reversing, Ending
<1> QED BY <1>2, <1>3, <1>4, <1>5, <1>6, Begun, DrawerConstants

LEMMA KeptByLoadMove ==
  ASSUME DrawerInv, NEW h \in Handlers, NEW k \in Shifts, LoadMove(h, k) PROVE DrawerInv'
<1> USE DEF DrawerInv
<1>1. PICK sign \in {1, -1} :
        Begin(h, [NoTask EXCEPT !.pc = "move", !.shift = k, !.amount = sign])
  BY DEF LoadMove
<1>2. PICK r : r = [NoTask EXCEPT !.pc = "move", !.shift = k, !.amount = sign] OBVIOUS
<1>8. sign \in Int OBVIOUS
<1>3. r \in Task BY <1>2, <1>8, NoTaskOK DEF Task
<1>4. r.pc = "move" /\ r.shift = k /\ r.amount = sign /\ r.draft = None /\ r.then = "none"
  BY <1>2 DEF NoTask
<1>5. /\ Begin(h, r) /\ UNCHANGED rows /\ UNCHANGED odd /\ torn' = torn /\ shift[k].st = "OPEN"
  BY <1>1, <1>2 DEF LoadMove, OpenShifts
<1>6. Equipped(r) BY <1>4, <1>5 DEF Equipped, Booking, Reversing, Ending
<1>7. \A m \in Moves : ~Handles(r, m) BY <1>4 DEF Handles, Booking, Reversing, Ending
<1> QED BY <1>3, <1>4, <1>5, <1>6, <1>7, Begun, DrawerConstants

LEMMA KeptByLoadReverse ==
  ASSUME DrawerInv, NEW h \in Handlers, NEW m \in Moves, LoadReverse(h, m) PROVE DrawerInv'
<1> USE DEF DrawerInv
<1>1. PICK pc \in {"look", "delete"} :
        /\ pc = IF move[m].journal THEN "look" ELSE "delete"
        /\ Begin(h, [NoTask EXCEPT !.pc = pc, !.doc = m])
  BY DEF LoadReverse
<1>2. PICK r : r = [NoTask EXCEPT !.pc = pc, !.doc = m] OBVIOUS
<1>3. r \in Task BY <1>2, NoTaskOK DEF Task
<1>4. r.pc = pc /\ r.shift = None /\ r.doc = m /\ r.draft = None /\ r.then = "none"
  BY <1>2 DEF NoTask
<1>5. /\ Begin(h, r) /\ UNCHANGED rows /\ UNCHANGED odd /\ move[m].st = "live"
      /\ torn' = IF Moved(m) THEN torn \cup {m} ELSE torn
  BY <1>1, <1>2 DEF LoadReverse
<1>6. Equipped(r) BY <1>4 DEF Equipped, Booking, Reversing, Ending
<1>7. ASSUME m \notin torn' PROVE Booked(r, move[m]) /\ \A g \in Handlers : ~Handles(task[g], m)
  <2>1. m \notin torn /\ \A g \in Handlers : ~Handles(task[g], m)
    BY <1>5, <1>7 DEF Moved, Handles
  <2>2. Books(m) BY <2>1 DEF MoveBooks
  <2>3. move[m].journal /\ move[m].booked = move[m].sign /\ ~move[m].reversed
    BY <1>5, <2>1, <2>2 DEF Books
  <2>4. r.pc = "look" BY <1>1, <1>4, <2>3
  <2> QED BY <2>1, <2>3, <2>4 DEF Booked, Ending
<1>8. \A x \in Moves : Handles(r, x) => x = m BY <1>4 DEF Handles
<1> QED BY <1>3, <1>4, <1>5, <1>6, <1>7, <1>8, Begun, DrawerConstants

LEMMA KeptByLoadPark ==
  ASSUME DrawerInv, NEW h \in Handlers, NEW k \in Shifts, NEW d \in Drafts, LoadPark(h, k, d)
  PROVE  DrawerInv'
<1> USE DEF DrawerInv
<1>0. PICK a \in Int : a = 1 OBVIOUS
<1>1. PICK r : r = [NoTask EXCEPT !.pc = "move", !.shift = k, !.amount = a, !.draft = d,
                                  !.then = "park"]
  OBVIOUS
<1>2. r \in Task BY <1>1, NoTaskOK DEF Task
<1>3. r.pc = "move" /\ r.shift = k /\ r.amount = a /\ r.draft = d /\ r.then = "park"
  BY <1>1 DEF NoTask
<1>4. /\ Begin(h, r) /\ UNCHANGED rows /\ UNCHANGED odd /\ torn' = torn /\ shift[k].st = "OPEN"
      /\ draft[d].st = "none" /\ ~Moved(d)
  BY <1>0, <1>1 DEF LoadPark, OpenShifts
<1>5. Equipped(r) BY <1>0, <1>3, <1>4, DrawerConstants DEF Equipped, Booking, Reversing, Ending
<1>6. \A m \in Moves : ~Handles(r, m) BY <1>3 DEF Handles, Booking, Reversing, Ending
<1>7. \A g \in Handlers : task[g].draft # d BY <1>4 DEF Moved
<1>8. d \notin torn => Paid(r, draft[d])
  BY <1>3, <1>4, <1>7 DEF DraftHolds, Hold, Paid
<1> QED BY <1>2, <1>3, <1>4, <1>5, <1>6, <1>7, <1>8, Begun

LEMMA KeptByLoadRelease ==
  ASSUME DrawerInv, NEW h \in Handlers, NEW k \in Shifts, NEW d \in Drafts, LoadRelease(h, k, d)
  PROVE  DrawerInv'
<1> USE DEF DrawerInv
<1>0. PICK a \in Int : a = -1 OBVIOUS
<1>1. PICK r : r = [NoTask EXCEPT !.pc = "move", !.shift = k, !.amount = a, !.draft = d,
                                  !.then = "drop"]
  OBVIOUS
<1>2. r \in Task BY <1>1, NoTaskOK DEF Task
<1>3. r.pc = "move" /\ r.shift = k /\ r.amount = a /\ r.draft = d /\ r.then = "drop"
  BY <1>1 DEF NoTask
<1>4. /\ Begin(h, r) /\ UNCHANGED rows /\ UNCHANGED odd /\ shift[k].st = "OPEN"
      /\ draft[d].st = "held" /\ torn' = IF Moved(d) THEN torn \cup {d} ELSE torn
  BY <1>0, <1>1 DEF LoadRelease, OpenShifts
<1>5. Equipped(r) BY <1>0, <1>3, <1>4, DrawerConstants DEF Equipped, Booking, Reversing, Ending
<1>6. \A m \in Moves : ~Handles(r, m) BY <1>3 DEF Handles, Booking, Reversing, Ending
<1>7. ASSUME d \notin torn' PROVE Paid(r, draft[d]) /\ \A g \in Handlers : task[g].draft # d
  <2>1. d \notin torn /\ \A g \in Handlers : task[g].draft # d BY <1>4, <1>7 DEF Moved
  <2> QED BY <1>3, <1>4, <2>1 DEF DraftHolds, Hold, Paid
<1> QED BY <1>2, <1>3, <1>4, <1>5, <1>6, <1>7, Begun

LEMMA KeptBySellUnshifted ==
  ASSUME DrawerInv, NEW h \in Handlers, NEW d \in Drafts, SellUnshifted(h, d) PROVE DrawerInv'
<1> USE DEF DrawerInv
<1>1. PICK r : r = [NoTask EXCEPT !.pc = "drop", !.draft = d] OBVIOUS
<1>2. r \in Task BY <1>1, NoTaskOK DEF Task
<1>3. r.pc = "drop" /\ r.shift = None /\ r.doc = None /\ r.draft = d BY <1>1 DEF NoTask
<1>4. Begin(h, r) /\ UNCHANGED rows /\ UNCHANGED odd /\ torn' = torn \cup {d}
  BY <1>1 DEF SellUnshifted
<1>5. Equipped(r) BY <1>3 DEF Equipped, Booking, Reversing, Ending
<1>6. \A m \in Moves : ~Handles(r, m) BY <1>3, DrawerConstants DEF Handles
<1> QED BY <1>2, <1>3, <1>4, <1>5, <1>6, Begun

\* Cash that moves goes into the open shifts; it is of another shift's business
\* for each that is not in own.
LEMMA Paying ==
  ASSUME DrawerTypeOK, Equipments, NEW a \in Int, NEW own, Pay(a, own)
  PROVE  /\ shift' \in [Shifts -> ShiftRow] /\ odd' \subseteq Shifts /\ odd \subseteq odd'
         /\ \A k \in Shifts : /\ shift'[k].st = shift[k].st
                              /\ shift'[k].cash = IF shift[k].st = "OPEN" THEN shift[k].cash + a
                                                  ELSE shift[k].cash
         /\ OpenShifts \ own \subseteq odd'
<1>1. BeingOpened \subseteq Shifts BY DEF BeingOpened, Equipments, Equipped
<1>2. odd' \subseteq Shifts /\ odd \subseteq odd' /\ OpenShifts \ own \subseteq odd'
  BY <1>1 DEF Pay, OpenShifts, DrawerTypeOK
<1>3. ASSUME NEW k \in Shifts
      PROVE  /\ shift'[k] \in ShiftRow /\ shift'[k].st = shift[k].st
             /\ shift'[k].cash = IF shift[k].st = "OPEN" THEN shift[k].cash + a
                                 ELSE shift[k].cash
  <2>1. shift[k] \in ShiftRow BY DEF DrawerTypeOK
  <2>2. shift'[k] = IF shift[k].st = "OPEN" THEN [shift[k] EXCEPT !.cash = shift[k].cash + a]
                    ELSE shift[k]
    BY DEF Pay, OpenShifts
  <2> QED BY <2>1, <2>2 DEF ShiftRow
<1>4. shift' \in [Shifts -> ShiftRow] BY <1>3 DEF Pay
<1> QED BY <1>2, <1>3, <1>4

LEMMA ExpectedThen ==
  ASSUME NoNotes', NEW k \in Shifts, NEW n \in Nat, NEW i \in Nat, NEW o \in Nat,
         Cardinality(SalesOf(k)') = n, Cardinality(MovesOf(k, 1)') = i,
         Cardinality(MovesOf(k, -1)') = o
  PROVE  ExpectedCash(k)' = n + i - o
<1>1. NotesOf(k)' = {} BY DEF NotesOf, NoNotes
<1>2. {s \in NotesOf(k) : note[s].shift = k}' = {} BY <1>1
<1>3. CashSales(k)' = n + 0 BY <1>2, FS_EmptySet DEF CashSales
<1>4. Cardinality(NotesOf(k)') = 0 BY <1>1, FS_EmptySet
<1> QED BY <1>3, <1>4 DEF ExpectedCash

\* A step that moves the amount a, 0 if no cash, and changes what the reports
\* of the open shifts count by as much.
LEMMA CountingMoved ==
  ASSUME DrawerInv, NEW a \in Int, odd \subseteq odd',
         \A k \in Shifts : /\ shift'[k].st = shift[k].st
                           /\ shift'[k].cash = IF shift[k].st = "OPEN" THEN shift[k].cash + a
                                               ELSE shift[k].cash,
         \A g \in Handlers : task'[g].pc \in {"open", "close"} => task'[g] = task[g],
         \A g \in Handlers : Attacher(g)',
         IsFiniteSet(MadeSales'), IsFiniteSet(MadeMoves'),
         \A s \in Sales : note'[s].st # "none" => s \in MadeSales',
         \A k \in Shifts : shift[k].st = "none" =>
           /\ \A s \in Sales : cashSale'[s].shift # k /\ k \notin cashSale'[s].when
           /\ \A m \in Moves : move'[m].shift # k,
         NoNotes' => NoNotes,
         \A k \in Shifts \ odd' : NoNotes' /\ shift[k].st = "OPEN" =>
           ExpectedCash(k)' = ExpectedCash(k) + a
  PROVE  Counting'
<1> USE DEF DrawerInv
<1>1. \A k \in Shifts : Unopened(k)' BY DEF Unopened, Counting
<1>2. \A g \in Handlers : Opener(g)'
  BY DEF Counting, Opener, Equipments, Equipped
<1>3. Reports'
  <2> SUFFICES ASSUME NoNotes', NEW k \in Shifts \ odd' PROVE Reported(k)'
    BY DEF Reports
  <2>1. k \notin odd /\ Reported(k) BY DEF Counting, Reports
  <2>2. shift[k].st = "OPEN" => shift'[k].cash = ExpectedCash(k)'
    BY <2>1 DEF Reported
  <2>3. \A g \in Handlers : task'[g].pc = "close" /\ task'[g].shift = k => task'[g].amount = 0
    BY <2>1 DEF Reported
  <2> QED BY <2>1, <2>2, <2>3 DEF Reported
<1> QED BY <1>1, <1>2, <1>3 DEF Counting

\* A request at the counter has no movement and no cart.
LEMMA CounterKeeps ==
  ASSUME DrawerInv, NEW h \in Handlers, NEW r \in Task, Equipped(r)',
         task' = [task EXCEPT ![h] = r], UNCHANGED <<move, draft, torn>>,
         {task[h].pc, r.pc} \cap (Booking \cup Reversing \cup Ending \cup {"move"}) = {},
         shift' \in [Shifts -> ShiftRow], cashSale' \in [Sales -> Document],
         note' \in [Sales -> Document], odd' \subseteq Shifts,
         \A k \in Shifts : shift[k].st # "none" => shift'[k].st # "none",
         Counting'
  PROVE  DrawerInv'
<1> USE DEF DrawerInv
<1>1. task' \in [Handlers -> Task] /\ Equipments' BY StepTyped
<1>2. DrawerTypeOK' BY <1>1 DEF DrawerTypeOK
<1>3. task[h].draft = None /\ r.draft = None
  BY DEF Equipments, Equipped
<1>4. ASSUME NEW m \in Moves, m \notin torn PROVE Books(m)'
  <2>1. Books(m) BY <1>4 DEF MoveBooks
  <2>2. ~Handles(task[h], m) /\ ~Handles(r, m) BY DEF Handles
  <2> QED BY <2>1, <2>2, BooksElsewhere
<1>5. ASSUME NEW d \in Drafts, d \notin torn PROVE Hold(d)'
  <2>1. Hold(d) BY <1>5 DEF DraftHolds
  <2> QED BY <1>3, <2>1, HoldElsewhere, DrawerConstants
<1> QED BY <1>1, <1>2, <1>4, <1>5 DEF MoveBooks, DraftHolds

\* A request that ends.
LEMMA AtRest ==
  /\ NoTask \in Task /\ NoTask.pc = "idle" /\ NoTask.draft = None /\ NoTask.doc = None
  /\ Equipped(NoTask) /\ Equipped(NoTask)' /\ \A m \in Moves : ~Handles(NoTask, m)
BY NoTaskOK DEF NoTask, Equipped, Handles, Booking, Reversing, Ending

LEMMA KeptByOpenShift ==
  ASSUME DrawerInv, NEW h \in Handlers, OpenShift(h) PROVE DrawerInv'
<1> USE DEF DrawerInv
<1>1. PICK k \in Shifts : k = task[h].shift BY DEF OpenShift, Equipments, Equipped
<1>2. /\ task[h].pc = "open" /\ task' = [task EXCEPT ![h] = NoTask]
      /\ shift' = [shift EXCEPT ![k].st = "OPEN"]
      /\ UNCHANGED <<cashSale, note, move, draft, odd, torn>>
  BY <1>1 DEF OpenShift, Done
<1>3. shift' \in [Shifts -> ShiftRow] BY <1>2 DEF DrawerTypeOK, ShiftRow
<1>4. \A i \in Shifts : /\ shift'[i].st = IF i = k THEN "OPEN" ELSE shift[i].st
                        /\ shift'[i].cash = shift[i].cash
  BY <1>2 DEF DrawerTypeOK, ShiftRow
<1>5. shift[k].st = "none" /\ \A g \in Handlers : task[g].pc = "open" /\ task[g].shift = k => g = h
  BY <1>1, <1>2 DEF Counting, Opener
<1>6. \A g \in Handlers : task'[g] = IF g = h THEN NoTask ELSE task[g]
  BY <1>2 DEF DrawerTypeOK
<1>7. Counting'
  <2>1. MadeSales' = MadeSales /\ MadeMoves' = MadeMoves BY <1>2 DEF MadeSales, MadeMoves
  <2>2. \A i \in Shifts : Unopened(i)' BY <1>2, <1>4 DEF Counting, Unopened
  <2>3. ASSUME NEW g \in Handlers PROVE Opener(g)' /\ Attacher(g)'
    <3>1. CASE g = h BY <1>6, <3>1, AtRest DEF Opener, Attacher
    <3>2. CASE g # h
      <4>1. Opener(g) /\ Attacher(g) /\ task'[g] = task[g] /\ Equipped(task[g])
        BY <1>6, <3>2 DEF Counting, Equipments
      <4>2. \A f \in Handlers : task'[f].pc \in {"open", "attach"} => task'[f] = task[f]
        BY <1>6, AtRest
      <4>3. Opener(g)' BY <1>4, <1>5, <3>2, <4>1, <4>2 DEF Opener, Equipped
      <4>4. Attacher(g)' BY <1>2, <1>4, <1>5, <4>1, <4>2 DEF Attacher, Equipped
      <4> QED BY <4>3, <4>4
    <3> QED BY <3>1, <3>2
  <2>4. Reports'
    <3> SUFFICES ASSUME NoNotes, NEW i \in Shifts \ odd PROVE Reported(i)'
      BY <1>2 DEF Reports, NoNotes
    <3>1. Reported(i) BY DEF Counting, Reports
    <3>2. ExpectedCash(i)' = ExpectedCash(i) BY <1>2, SameExpected
    <3>3. i = k => ExpectedCash(i) = 0 /\ shift[i].cash = 0
      <4> SUFFICES ASSUME i = k PROVE ExpectedCash(k) = 0 /\ shift[k].cash = 0 OBVIOUS
      <4>1. Unopened(k) BY DEF Counting
      <4>2. SalesOf(k) = {} /\ MovesOf(k, 1) = {} /\ MovesOf(k, -1) = {}
        BY <1>5, <4>1 DEF Unopened, SalesOf, MovesOf, InTime
      <4>3. ExpectedCash(k) = Cardinality({}) + Cardinality({}) - Cardinality({})
        BY <4>2, ExpectedWithoutNotes
      <4> QED BY <1>5, <4>1, <4>3, FS_EmptySet DEF Unopened
    <3>4. \A g \in Handlers : task'[g].pc = "close" /\ task'[g].shift = i => task'[g].amount = 0
      BY <1>6, <3>1, AtRest DEF Reported
    <3> QED BY <1>4, <3>1, <3>2, <3>3, <3>4 DEF Reported
  <2> QED BY <1>2, <2>1, <2>2, <2>3, <2>4 DEF Counting
<1>8. {task[h].pc, NoTask.pc} \cap (Booking \cup Reversing \cup Ending \cup {"move"}) = {}
  BY <1>2, AtRest DEF Booking, Reversing, Ending
<1>9. /\ cashSale' \in [Sales -> Document] /\ note' \in [Sales -> Document] /\ odd' \subseteq Shifts
      /\ \A i \in Shifts : shift[i].st # "none" => shift'[i].st # "none"
  BY <1>2, <1>4 DEF DrawerTypeOK
<1> QED BY <1>2, <1>3, <1>7, <1>8, <1>9, AtRest, CounterKeeps

LEMMA KeptByCloseShift ==
  ASSUME DrawerInv, NEW h \in Handlers, CloseShift(h) PROVE DrawerInv'
<1> USE DEF DrawerInv
<1>1. PICK k \in Shifts : k = task[h].shift BY DEF CloseShift, Equipments, Equipped
<1>2. PICK a \in Int : a = task[h].amount BY DEF DrawerTypeOK, Task
<1>3. /\ task[h].pc = "close" /\ task' = [task EXCEPT ![h] = NoTask]
      /\ shift' = [shift EXCEPT ![k] = [st |-> "CLOSED", cash |-> a]]
      /\ UNCHANGED <<cashSale, note, move, draft, odd, torn>>
  BY <1>1, <1>2 DEF CloseShift, Done
<1>4. shift' \in [Shifts -> ShiftRow] BY <1>3 DEF DrawerTypeOK, ShiftRow
<1>5. \A i \in Shifts : shift'[i] = IF i = k THEN [st |-> "CLOSED", cash |-> a] ELSE shift[i]
  BY <1>3 DEF DrawerTypeOK
<1>6. shift[k].st # "none" BY <1>1, <1>3, DrawerConstants DEF Equipments, Equipped
<1>7. \A g \in Handlers : task'[g] = IF g = h THEN NoTask ELSE task[g]
  BY <1>3 DEF DrawerTypeOK
<1>8. Counting'
  <2>1. MadeSales' = MadeSales /\ MadeMoves' = MadeMoves BY <1>3 DEF MadeSales, MadeMoves
  <2>2. \A i \in Shifts : Unopened(i)' BY <1>3, <1>5 DEF Counting, Unopened
  <2>3. ASSUME NEW g \in Handlers PROVE Opener(g)' /\ Attacher(g)'
    <3>1. CASE g = h BY <1>7, <3>1, AtRest DEF Opener, Attacher
    <3>2. CASE g # h
      <4>1. Opener(g) /\ Attacher(g) /\ task'[g] = task[g] /\ Equipped(task[g])
        BY <1>7, <3>2 DEF Counting, Equipments
      <4>2. \A f \in Handlers : task'[f].pc \in {"open", "attach"} => task'[f] = task[f]
        BY <1>7, AtRest
      <4>3. Opener(g)' BY <1>5, <1>6, <4>1, <4>2 DEF Opener, Equipped
      <4>4. Attacher(g)' BY <1>3, <1>5, <4>1, <4>2 DEF Attacher, Equipped
      <4> QED BY <4>3, <4>4
    <3> QED BY <3>1, <3>2
  <2>4. Reports'
    <3> SUFFICES ASSUME NoNotes, NEW i \in Shifts \ odd PROVE Reported(i)'
      BY <1>3 DEF Reports, NoNotes
    <3>1. Reported(i) BY DEF Counting, Reports
    <3>2. ExpectedCash(i)' = ExpectedCash(i) BY <1>3, SameExpected
    <3>3. i = k => a = 0 BY <1>1, <1>2, <1>3, <3>1 DEF Reported
    <3>4. \A g \in Handlers : task'[g].pc = "close" /\ task'[g].shift = i => task'[g].amount = 0
      BY <1>7, <3>1, AtRest DEF Reported
    <3> QED BY <1>5, <3>1, <3>2, <3>3, <3>4 DEF Reported
  <2> QED BY <1>3, <2>1, <2>2, <2>3, <2>4 DEF Counting
<1>9. {task[h].pc, NoTask.pc} \cap (Booking \cup Reversing \cup Ending \cup {"move"}) = {}
  BY <1>3, AtRest DEF Booking, Reversing, Ending
<1>10. /\ cashSale' \in [Sales -> Document] /\ note' \in [Sales -> Document]
       /\ odd' \subseteq Shifts
       /\ \A i \in Shifts : shift[i].st # "none" => shift'[i].st # "none"
  BY <1>3, <1>5 DEF DrawerTypeOK
<1> QED BY <1>3, <1>4, <1>8, <1>9, <1>10, AtRest, CounterKeeps

LEMMA KeptByCreateSale ==
  ASSUME DrawerInv, NEW h \in Handlers, CreateSale(h) PROVE DrawerInv'
<1> USE DEF DrawerInv
<1>0. PICK a \in Int : a = 1 OBVIOUS
<1>1. PICK k \in Shifts : k = task[h].shift BY DEF CreateSale, Equipments, Equipped
<1>2. PICK s \in Sales :
        /\ cashSale[s].st = "none"
        /\ cashSale' = [cashSale EXCEPT ![s] = [st |-> "PAID", shift |-> None, when |-> OpenShifts]]
        /\ task' = [task EXCEPT ![h].pc = "attach", ![h].doc = s]
  BY DEF CreateSale
<1>3. task[h].pc = "sell" /\ Pay(a, {k}) /\ UNCHANGED <<note, move, draft, torn>>
  BY <1>0, <1>1 DEF CreateSale
<1>4. /\ shift' \in [Shifts -> ShiftRow] /\ odd' \subseteq Shifts /\ odd \subseteq odd'
      /\ \A i \in Shifts : /\ shift'[i].st = shift[i].st
                           /\ shift'[i].cash = IF shift[i].st = "OPEN" THEN shift[i].cash + a
                                               ELSE shift[i].cash
      /\ OpenShifts \ {k} \subseteq odd'
  BY <1>3, Paying
<1>5. shift[k].st # "none" /\ shift[k].st \in {"none", "OPEN", "CLOSED"}
  BY <1>1, <1>3, DrawerConstants DEF Equipments, Equipped, DrawerTypeOK, ShiftRow
<1>6. PICK r : r = [task[h] EXCEPT !.pc = "attach", !.doc = s] OBVIOUS
<1>7. task[h] \in Task /\ Equipped(task[h]) BY DEF DrawerTypeOK, Equipments
<1>8. r \in Task BY <1>6, <1>7 DEF Task
<1>9. /\ r.pc = "attach" /\ r.doc = s /\ r.shift = k /\ r.draft = task[h].draft
      /\ r.then = task[h].then
  BY <1>1, <1>6, <1>7 DEF Task
<1>10. task' = [task EXCEPT ![h] = r] BY <1>2, <1>6
<1>11. Equipped(r)'
  BY <1>3, <1>4, <1>5, <1>7, <1>9 DEF Equipped, Booking, Reversing, Ending
<1>12. \A g \in Handlers : task'[g] = IF g = h THEN r ELSE task[g] BY <1>10 DEF DrawerTypeOK
<1>13. \A x \in Sales :
         cashSale'[x] = IF x = s THEN [st |-> "PAID", shift |-> None, when |-> OpenShifts]
                        ELSE cashSale[x]
  BY <1>2 DEF DrawerTypeOK
<1>14. cashSale' \in [Sales -> Document] BY <1>2 DEF DrawerTypeOK, Document, OpenShifts
<1>15. ASSUME NEW g \in Handlers PROVE Attacher(g)'
  <2>1. Attacher(g) /\ Equipped(task[g]) BY DEF Counting, Equipments
  <2>2. CASE g = h
    <3>1. task'[g] = r BY <1>12, <2>2
    <3>2. \A f \in Handlers : task'[f].pc = "attach" /\ task'[f].doc = s => f = h
      BY <1>2, <1>12 DEF Counting, Attacher
    <3>3. k \in OpenShifts \/ shift'[k].st = "CLOSED" BY <1>4, <1>5 DEF OpenShifts
    <3> QED BY <1>4, <1>9, <1>13, <2>2, <3>1, <3>2, <3>3 DEF Attacher
  <2>3. CASE g # h
    <3>1. task'[g] = task[g] BY <1>12, <2>3
    <3> SUFFICES ASSUME task[g].pc = "attach" PROVE Attacher(g)' BY <3>1 DEF Attacher
    <3>2. task[g].doc \in Sales /\ task[g].doc # s /\ task[g].shift \in Shifts
      BY <1>2, <2>1 DEF Attacher, Equipped
    <3>3. cashSale'[task[g].doc] = cashSale[task[g].doc] BY <1>13, <3>2
    <3>4. \A f \in Handlers : task'[f].pc = "attach" /\ task'[f].doc = task[g].doc => f = g
      BY <1>9, <1>12, <2>1, <3>2 DEF Attacher
    <3> QED BY <1>4, <2>1, <3>1, <3>2, <3>3, <3>4 DEF Attacher
  <2> QED BY <2>2, <2>3
<1>16. Counting'
  <2>1. \A g \in Handlers : task'[g].pc \in {"open", "close"} => task'[g] = task[g]
    BY <1>9, <1>12
  <2>2. MadeSales' = MadeSales \cup {s} /\ MadeMoves' = MadeMoves
    BY <1>3, <1>13 DEF MadeSales, MadeMoves
  <2>3. IsFiniteSet(MadeSales') /\ IsFiniteSet(MadeMoves') BY <2>2, FS_AddElement DEF Counting
  <2>4. \A x \in Sales : note'[x].st # "none" => x \in MadeSales'
    BY <1>3, <2>2 DEF Counting
  <2>5. ASSUME NEW i \in Shifts, shift[i].st = "none"
        PROVE  /\ \A x \in Sales : cashSale'[x].shift # i /\ i \notin cashSale'[x].when
               /\ \A m \in Moves : move'[m].shift # i
    <3>1. Unopened(i) /\ i \notin OpenShifts /\ i # None
      BY <2>5, DrawerConstants DEF Counting, OpenShifts
    <3> QED BY <1>3, <1>13, <2>5, <3>1 DEF Unopened
  <2>6. ASSUME NEW i \in Shifts \ odd', NoNotes, shift[i].st = "OPEN"
        PROVE  ExpectedCash(i)' = ExpectedCash(i) + a
    <3>1. i = k /\ i \in OpenShifts BY <1>4, <2>6 DEF OpenShifts
    <3>2. SalesOf(i)' = SalesOf(i) \cup {s} /\ s \notin SalesOf(i)
      BY <1>2, <1>13, <3>1 DEF SalesOf, InTime
    <3>3. MovesOf(i, 1)' = MovesOf(i, 1) /\ MovesOf(i, -1)' = MovesOf(i, -1)
      BY <1>3 DEF MovesOf
    <3>4. NoNotes' BY <1>3, <2>6 DEF NoNotes
    <3>5. IsFiniteSet(SalesOf(i)) BY ExpectedIsInt
    <3>6. Cardinality(SalesOf(i)') = Cardinality(SalesOf(i)) + 1 BY <3>2, <3>5, FS_AddElement
    <3>7. PICK n \in Nat, p \in Nat, q \in Nat :
            /\ n = Cardinality(SalesOf(i)) /\ p = Cardinality(MovesOf(i, 1))
            /\ q = Cardinality(MovesOf(i, -1))
      BY <2>6, ExpectedWithoutNotes
    <3>8. ExpectedCash(i) = n + p - q BY <2>6, <3>7, ExpectedWithoutNotes
    <3>9. ExpectedCash(i)' = (n + 1) + p - q BY <3>3, <3>4, <3>6, <3>7, ExpectedThen
    <3> QED BY <1>0, <3>8, <3>9
  <2>7. NoNotes' => NoNotes BY <1>3 DEF NoNotes
  <2> QED BY <1>4, <1>15, <2>1, <2>3, <2>4, <2>5, <2>6, <2>7, CountingMoved
<1>17. {task[h].pc, r.pc} \cap (Booking \cup Reversing \cup Ending \cup {"move"}) = {}
  BY <1>3, <1>9 DEF Booking, Reversing, Ending
<1>18. note' \in [Sales -> Document] BY <1>3 DEF DrawerTypeOK
<1> QED BY <1>3, <1>4, <1>8, <1>10, <1>11, <1>14, <1>16, <1>17, <1>18, CounterKeeps

LEMMA KeptByAttachSale ==
  ASSUME DrawerInv, NEW h \in Handlers, AttachSale(h) PROVE DrawerInv'
<1> USE DEF DrawerInv
<1>0. PICK a \in Int : a = 0 OBVIOUS
<1>1. PICK k \in Shifts, s \in Sales : k = task[h].shift /\ s = task[h].doc
  BY DEF AttachSale, Equipments, Equipped
<1>2. /\ task[h].pc = "attach" /\ task' = [task EXCEPT ![h] = NoTask]
      /\ UNCHANGED <<shift, note, move, draft, odd, torn>>
  BY DEF AttachSale, Done
<1>3. cashSale' = [cashSale EXCEPT ![s] = [@ EXCEPT !.shift = k, !.when = {}]]
  BY <1>1 DEF AttachSale, DrawerTypeOK, Document
<1>4. /\ shift[k].st # "none" /\ Attacher(h) /\ cashSale[s].st # "none" /\ cashSale[s].shift = None
      /\ k \in cashSale[s].when \/ shift[k].st = "CLOSED"
      /\ cashSale[s].when \ {k} \subseteq odd
      /\ \A g \in Handlers : task[g].pc = "attach" /\ task[g].doc = s => g = h
  BY <1>1, <1>2, DrawerConstants DEF Equipments, Equipped, Counting, Attacher
<1>5. \A x \in Sales : /\ cashSale'[x].st = cashSale[x].st
                       /\ cashSale'[x].shift = IF x = s THEN k ELSE cashSale[x].shift
                       /\ cashSale'[x].when = IF x = s THEN {} ELSE cashSale[x].when
  BY <1>3 DEF DrawerTypeOK, Document
<1>6. cashSale' \in [Sales -> Document] BY <1>3 DEF DrawerTypeOK, Document
<1>7. \A g \in Handlers : task'[g] = IF g = h THEN NoTask ELSE task[g]
  BY <1>2 DEF DrawerTypeOK
<1>8. Counting'
  <2>1. ASSUME NEW g \in Handlers PROVE Attacher(g)'
    <3> SUFFICES ASSUME task'[g].pc = "attach" PROVE Attacher(g)' BY DEF Attacher
    <3>1. g # h /\ task'[g] = task[g] BY <1>7, AtRest
    <3>2. Attacher(g) /\ task[g].doc \in Sales /\ task[g].doc # s
      BY <1>4, <3>1 DEF Counting, Equipments, Equipped
    <3>3. \A f \in Handlers : task'[f].pc = "attach" => task'[f] = task[f] BY <1>7, AtRest
    <3> QED BY <1>2, <1>5, <3>1, <3>2, <3>3 DEF Attacher
  <2>2. \A g \in Handlers : task'[g].pc \in {"open", "close"} => task'[g] = task[g]
    BY <1>7, AtRest
  <2>3. MadeSales' = MadeSales /\ MadeMoves' = MadeMoves BY <1>2, <1>5 DEF MadeSales, MadeMoves
  <2>4. ASSUME NEW i \in Shifts, shift[i].st = "none"
        PROVE  /\ \A x \in Sales : cashSale'[x].shift # i /\ i \notin cashSale'[x].when
               /\ \A m \in Moves : move'[m].shift # i
    <3>1. Unopened(i) BY DEF Counting
    <3> QED BY <1>2, <1>4, <1>5, <2>4, <3>1 DEF Unopened
  <2>5. ASSUME NEW i \in Shifts \ odd, NoNotes, shift[i].st = "OPEN"
        PROVE  ExpectedCash(i)' = ExpectedCash(i) + a
    <3>1. \A x \in Sales : x # s =>
            ((cashSale'[x].shift = i \/ InTime(cashSale[x], i)') <=>
             (cashSale[x].shift = i \/ InTime(cashSale[x], i)))
      BY <1>5 DEF InTime
    <3>2. (cashSale'[s].shift = i \/ InTime(cashSale[s], i)') <=> i = k
      BY <1>5, DrawerConstants DEF InTime
    <3>3. (cashSale[s].shift = i \/ InTime(cashSale[s], i)) <=> i = k
      BY <1>4, <2>5, DrawerConstants DEF InTime
    <3>4. SalesOf(i)' = SalesOf(i) BY <1>5, <3>1, <3>2, <3>3 DEF SalesOf
    <3>5. MovesOf(i, 1)' = MovesOf(i, 1) /\ MovesOf(i, -1)' = MovesOf(i, -1)
      BY <1>2 DEF MovesOf
    <3>6. NoNotes' BY <1>2, <2>5 DEF NoNotes
    <3>7. PICK n \in Nat, p \in Nat, q \in Nat :
            /\ n = Cardinality(SalesOf(i)) /\ p = Cardinality(MovesOf(i, 1))
            /\ q = Cardinality(MovesOf(i, -1))
      BY <2>5, ExpectedWithoutNotes
    <3>8. ExpectedCash(i) = n + p - q BY <2>5, <3>7, ExpectedWithoutNotes
    <3>9. ExpectedCash(i)' = n + p - q BY <3>4, <3>5, <3>6, <3>7, ExpectedThen
    <3> QED BY <1>0, <3>8, <3>9
  <2>6. \A i \in Shifts : /\ shift'[i].st = shift[i].st
                          /\ shift'[i].cash = IF shift[i].st = "OPEN" THEN shift[i].cash + a
                                              ELSE shift[i].cash
    BY <1>0, <1>2 DEF DrawerTypeOK, ShiftRow
  <2>7. NoNotes' => NoNotes BY <1>2 DEF NoNotes
  <2>8. \A x \in Sales : note'[x].st # "none" => x \in MadeSales' BY <1>2, <2>3 DEF Counting
  <2>9. IsFiniteSet(MadeSales') /\ IsFiniteSet(MadeMoves') BY <2>3 DEF Counting
  <2> QED BY <1>2, <2>1, <2>2, <2>4, <2>5, <2>6, <2>7, <2>8, <2>9, CountingMoved
<1>9. {task[h].pc, NoTask.pc} \cap (Booking \cup Reversing \cup Ending \cup {"move"}) = {}
  BY <1>2, AtRest DEF Booking, Reversing, Ending
<1>10. /\ shift' \in [Shifts -> ShiftRow] /\ note' \in [Sales -> Document] /\ odd' \subseteq Shifts
       /\ \A i \in Shifts : shift[i].st # "none" => shift'[i].st # "none"
  BY <1>2 DEF DrawerTypeOK
<1> QED BY <1>2, <1>6, <1>8, <1>9, <1>10, AtRest, CounterKeeps

LEMMA KeptByVoidSale ==
  ASSUME DrawerInv, NEW s \in Sales, VoidSale(s) PROVE DrawerInv'
<1> USE DEF DrawerInv
<1>0. PICK a \in Int : a = -1 OBVIOUS
<1>1. PICK own : own = IF cashSale[s].shift = None THEN cashSale[s].when ELSE {cashSale[s].shift}
  OBVIOUS
<1>2. /\ cashSale[s].st = "PAID" /\ cashSale' = [cashSale EXCEPT ![s].st = "CANCELLED"]
      /\ Pay(a, own) /\ UNCHANGED <<note, move, draft, torn, task>>
  BY <1>0, <1>1 DEF VoidSale
<1>3. /\ shift' \in [Shifts -> ShiftRow] /\ odd' \subseteq Shifts /\ odd \subseteq odd'
      /\ \A i \in Shifts : /\ shift'[i].st = shift[i].st
                           /\ shift'[i].cash = IF shift[i].st = "OPEN" THEN shift[i].cash + a
                                               ELSE shift[i].cash
      /\ OpenShifts \ own \subseteq odd'
  BY <1>2, Paying
<1>4. \A x \in Sales : /\ cashSale'[x].st = IF x = s THEN "CANCELLED" ELSE cashSale[x].st
                       /\ cashSale'[x].shift = cashSale[x].shift
                       /\ cashSale'[x].when = cashSale[x].when
  BY <1>2 DEF DrawerTypeOK, Document
<1>5. cashSale' \in [Sales -> Document] BY <1>2 DEF DrawerTypeOK, Document
<1>6. DrawerTypeOK' BY <1>2, <1>3, <1>5 DEF DrawerTypeOK
<1>7. Equipments'
  <2> SUFFICES ASSUME NEW h \in Handlers PROVE Equipped(task[h])' BY DEF Equipments
  <2>1. Equipped(task[h]) /\ task'[h] = task[h] /\ task[h].shift \in Shifts \cup {None}
    BY <1>2 DEF Equipments, DrawerTypeOK, Task
  <2> QED BY <1>3, <2>1 DEF Equipped
<1>8. MoveBooks' /\ DraftHolds'
  BY <1>2 DEF MoveBooks, Books, Handles, Booked, DraftHolds, Hold, Paid
<1>9. Counting'
  <2>1. ASSUME NEW g \in Handlers PROVE Attacher(g)'
    <3>1. Attacher(g) /\ Equipped(task[g]) BY DEF Counting, Equipments
    <3> QED BY <1>2, <1>3, <1>4, <3>1 DEF Attacher, Equipped
  <2>2. MadeSales' = MadeSales /\ MadeMoves' = MadeMoves
    BY <1>2, <1>4 DEF MadeSales, MadeMoves
  <2>3. ASSUME NEW i \in Shifts, shift[i].st = "none"
        PROVE  /\ \A x \in Sales : cashSale'[x].shift # i /\ i \notin cashSale'[x].when
               /\ \A m \in Moves : move'[m].shift # i
    <3>1. Unopened(i) BY DEF Counting
    <3> QED BY <1>2, <1>4, <2>3, <3>1 DEF Unopened
  <2>4. ASSUME NEW i \in Shifts \ odd', NoNotes, shift[i].st = "OPEN"
        PROVE  ExpectedCash(i)' = ExpectedCash(i) + a
    <3>1. i \in own BY <1>3, <2>4 DEF OpenShifts
    <3>2. s \in SalesOf(i) BY <1>1, <1>2, <3>1 DEF SalesOf, InTime
    <3>3. SalesOf(i)' = SalesOf(i) \ {s} BY <1>4 DEF SalesOf, InTime
    <3>4. MovesOf(i, 1)' = MovesOf(i, 1) /\ MovesOf(i, -1)' = MovesOf(i, -1)
      BY <1>2 DEF MovesOf
    <3>5. NoNotes' BY <1>2, <2>4 DEF NoNotes
    <3>6. PICK n \in Nat, p \in Nat, q \in Nat :
            /\ n = Cardinality(SalesOf(i)) /\ p = Cardinality(MovesOf(i, 1))
            /\ q = Cardinality(MovesOf(i, -1))
      BY <2>4, ExpectedWithoutNotes
    <3>7. IsFiniteSet(SalesOf(i)) BY ExpectedIsInt
    <3>12. n # 0 BY <3>2, <3>6, <3>7, FS_EmptySet
    <3>13. Cardinality(SalesOf(i) \ {s}) = n - 1 BY <3>2, <3>6, <3>7, FS_RemoveElement
    <3>8. Cardinality(SalesOf(i)') = n - 1 /\ n # 0 BY <3>3, <3>12, <3>13
    <3>9. ExpectedCash(i) = n + p - q BY <2>4, <3>6, ExpectedWithoutNotes
    <3>10. n - 1 \in Nat BY <3>8
    <3>11. ExpectedCash(i)' = (n - 1) + p - q BY <3>4, <3>5, <3>6, <3>8, <3>10, ExpectedThen
    <3> QED BY <1>0, <3>9, <3>11
  <2>5. NoNotes' => NoNotes BY <1>2 DEF NoNotes
  <2>6. \A x \in Sales : note'[x].st # "none" => x \in MadeSales' BY <1>2, <2>2 DEF Counting
  <2>7. IsFiniteSet(MadeSales') /\ IsFiniteSet(MadeMoves') BY <2>2 DEF Counting
  <2>8. \A g \in Handlers : task'[g] = task[g] BY <1>2
  <2> QED BY <1>3, <2>1, <2>3, <2>4, <2>5, <2>6, <2>7, <2>8, CountingMoved
<1> QED BY <1>6, <1>7, <1>8, <1>9

LEMMA KeptByRefundCashSale ==
  ASSUME DrawerInv, NEW h \in Handlers, NEW s \in Sales, RefundCashSale(h, s) PROVE DrawerInv'
<1> USE DEF DrawerInv
<1>0. PICK a \in Int : a = -1 OBVIOUS
<1>1. PICK r : r = [NoTask EXCEPT !.pc = "noted", !.doc = s] OBVIOUS
<1>2. r \in Task BY <1>1, NoTaskOK DEF Task
<1>3. r.pc = "noted" /\ r.doc = s /\ r.shift = None /\ r.draft = None BY <1>1 DEF NoTask
<1>4. /\ cashSale[s].st = "PAID" /\ task[h].pc = "idle" /\ task' = [task EXCEPT ![h] = r]
      /\ note' = [note EXCEPT ![s] = [st |-> "PAID", shift |-> None, when |-> OpenShifts]]
      /\ Pay(a, OpenShifts) /\ UNCHANGED <<cashSale, move, draft, torn>>
  BY <1>0, <1>1 DEF RefundCashSale, Begin
<1>5. /\ shift' \in [Shifts -> ShiftRow] /\ odd' \subseteq Shifts /\ odd \subseteq odd'
      /\ \A i \in Shifts : /\ shift'[i].st = shift[i].st
                           /\ shift'[i].cash = IF shift[i].st = "OPEN" THEN shift[i].cash + a
                                               ELSE shift[i].cash
  BY <1>4, Paying
<1>6. note' \in [Sales -> Document] BY <1>4 DEF DrawerTypeOK, Document, OpenShifts
<1>7. \A x \in Sales : note'[x].st = IF x = s THEN "PAID" ELSE note[x].st
  BY <1>4 DEF DrawerTypeOK
<1>8. \A g \in Handlers : task'[g] = IF g = h THEN r ELSE task[g] BY <1>4 DEF DrawerTypeOK
<1>9. Equipped(r)' BY <1>3 DEF Equipped, Booking, Reversing, Ending
<1>10. Counting'
  <2>1. ASSUME NEW g \in Handlers PROVE Attacher(g)'
    <3> SUFFICES ASSUME task'[g].pc = "attach" PROVE Attacher(g)' BY DEF Attacher
    <3>1. g # h /\ task'[g] = task[g] BY <1>3, <1>8
    <3>2. Attacher(g) /\ Equipped(task[g]) BY DEF Counting, Equipments
    <3>3. \A f \in Handlers : task'[f].pc = "attach" => task'[f] = task[f] BY <1>3, <1>8
    <3> QED BY <1>4, <1>5, <3>1, <3>2, <3>3 DEF Attacher, Equipped
  <2>2. MadeSales' = MadeSales /\ MadeMoves' = MadeMoves BY <1>4 DEF MadeSales, MadeMoves
  <2>3. \A i \in Shifts : shift[i].st = "none" =>
          /\ \A x \in Sales : cashSale'[x].shift # i /\ i \notin cashSale'[x].when
          /\ \A m \in Moves : move'[m].shift # i
    BY <1>4 DEF Counting, Unopened
  <2>4. ~NoNotes' BY <1>7 DEF NoNotes
  <2>5. \A x \in Sales : note'[x].st # "none" => x \in MadeSales'
    BY <1>4, <1>7, <2>2 DEF Counting, MadeSales
  <2>6. IsFiniteSet(MadeSales') /\ IsFiniteSet(MadeMoves') BY <2>2 DEF Counting
  <2>7. \A g \in Handlers : task'[g].pc \in {"open", "close"} => task'[g] = task[g]
    BY <1>3, <1>8
  <2> QED BY <1>5, <2>1, <2>3, <2>4, <2>5, <2>6, <2>7, CountingMoved
<1>11. {task[h].pc, r.pc} \cap (Booking \cup Reversing \cup Ending \cup {"move"}) = {}
  BY <1>3, <1>4 DEF Booking, Reversing, Ending
<1>12. cashSale' \in [Sales -> Document] BY <1>4 DEF DrawerTypeOK
<1> QED BY <1>2, <1>4, <1>5, <1>6, <1>9, <1>10, <1>11, <1>12, CounterKeeps

LEMMA KeptByAttachNote ==
  ASSUME DrawerInv, NEW h \in Handlers, AttachNote(h) PROVE DrawerInv'
<1> USE DEF DrawerInv
<1>0. PICK a \in Int : a = 0 OBVIOUS
<1>1. PICK s \in Sales : s = task[h].doc BY DEF AttachNote, Equipments, Equipped
<1>2. PICK k \in IF OpenShifts = {} THEN {cashSale[s].shift} ELSE OpenShifts :
        note' = [note EXCEPT ![s].shift = k]
  BY <1>1 DEF AttachNote
<1>3. /\ task[h].pc = "noted" /\ task' = [task EXCEPT ![h] = NoTask]
      /\ UNCHANGED <<shift, cashSale, move, draft, odd, torn>>
  BY DEF AttachNote, Done
<1>4. k \in Shifts \cup {None} BY <1>2 DEF OpenShifts, DrawerTypeOK, Document
<1>5. note' \in [Sales -> Document] BY <1>2, <1>4 DEF DrawerTypeOK, Document
<1>6. \A x \in Sales : note'[x].st = note[x].st BY <1>2 DEF DrawerTypeOK, Document
<1>7. \A g \in Handlers : task'[g] = IF g = h THEN NoTask ELSE task[g]
  BY <1>3 DEF DrawerTypeOK
<1>8. Counting'
  <2>1. \A g \in Handlers : task'[g].pc \in {"open", "close", "attach"} => task'[g] = task[g]
    BY <1>7, AtRest
  <2>2. ASSUME NEW g \in Handlers PROVE Attacher(g)'
    <3>1. Attacher(g) BY DEF Counting
    <3> QED BY <1>3, <2>1, <3>1 DEF Attacher
  <2>3. MadeSales' = MadeSales /\ MadeMoves' = MadeMoves BY <1>3 DEF MadeSales, MadeMoves
  <2>4. \A i \in Shifts : shift[i].st = "none" =>
          /\ \A x \in Sales : cashSale'[x].shift # i /\ i \notin cashSale'[x].when
          /\ \A m \in Moves : move'[m].shift # i
    BY <1>3 DEF Counting, Unopened
  <2>5. NoNotes' => NoNotes BY <1>6 DEF NoNotes
  <2>6. ASSUME NEW i \in Shifts \ odd, NoNotes, shift[i].st = "OPEN"
        PROVE  ExpectedCash(i)' = ExpectedCash(i) + a
    <3>1. SalesOf(i)' = SalesOf(i) /\ MovesOf(i, 1)' = MovesOf(i, 1)
          /\ MovesOf(i, -1)' = MovesOf(i, -1)
      BY <1>3 DEF SalesOf, InTime, MovesOf
    <3>2. NoNotes' BY <1>6, <2>6 DEF NoNotes
    <3>3. PICK n \in Nat, p \in Nat, q \in Nat :
            /\ n = Cardinality(SalesOf(i)) /\ p = Cardinality(MovesOf(i, 1))
            /\ q = Cardinality(MovesOf(i, -1))
      BY <2>6, ExpectedWithoutNotes
    <3>4. ExpectedCash(i) = n + p - q BY <2>6, <3>3, ExpectedWithoutNotes
    <3>5. ExpectedCash(i)' = n + p - q BY <3>1, <3>2, <3>3, ExpectedThen
    <3> QED BY <1>0, <3>4, <3>5
  <2>7. \A i \in Shifts : /\ shift'[i].st = shift[i].st
                          /\ shift'[i].cash = IF shift[i].st = "OPEN" THEN shift[i].cash + a
                                              ELSE shift[i].cash
    BY <1>0, <1>3 DEF DrawerTypeOK, ShiftRow
  <2>8. \A x \in Sales : note'[x].st # "none" => x \in MadeSales'
    BY <1>6, <2>3 DEF Counting
  <2>9. IsFiniteSet(MadeSales') /\ IsFiniteSet(MadeMoves') BY <2>3 DEF Counting
  <2> QED BY <1>3, <2>1, <2>2, <2>4, <2>5, <2>6, <2>7, <2>8, <2>9, CountingMoved
<1>9. {task[h].pc, NoTask.pc} \cap (Booking \cup Reversing \cup Ending \cup {"move"}) = {}
  BY <1>3, AtRest DEF Booking, Reversing, Ending
<1>10. /\ shift' \in [Shifts -> ShiftRow] /\ cashSale' \in [Sales -> Document]
       /\ odd' \subseteq Shifts
       /\ \A i \in Shifts : shift[i].st # "none" => shift'[i].st # "none"
  BY <1>3 DEF DrawerTypeOK
<1> QED BY <1>3, <1>5, <1>8, <1>9, <1>10, AtRest, CounterKeeps

\* A step of a request with the movement it handles.
LEMMA BooksHere ==
  ASSUME DrawerTypeOK, NEW m \in Moves, Books(m), NEW h \in Handlers, NEW r,
         task' = [task EXCEPT ![h] = r], Handles(task[h], m),
         move'[m].st = "live" =>
           \/ Handles(r, m) /\ Booked(r, move'[m])
           \/ /\ ~Handles(r, m) /\ move'[m].journal /\ move'[m].booked = move'[m].sign
              /\ ~move'[m].reversed,
         move'[m].st # "live" => move'[m].booked = 0 /\ ~Handles(r, m)
  PROVE  Books(m)'
<1>1. \A g \in Handlers : task'[g] = IF g = h THEN r ELSE task[g] BY DEF DrawerTypeOK
<1>2. \A g \in Handlers : g # h => ~Handles(task[g], m) BY DEF Books
<1>3. \A g \in Handlers : Handles(task[g], m)' => g = h /\ Handles(r, m)
  BY <1>1, <1>2 DEF Handles
<1>4. Handles(task[h], m)' <=> Handles(r, m) BY <1>1 DEF Handles
<1>5. Booked(task[h], move[m])' <=> Booked(r, move'[m]) BY <1>1 DEF Booked
<1> QED BY <1>3, <1>4, <1>5 DEF Books

\* A request at the drawer, about one movement and one cart.
LEMMA DrawerKeeps ==
  ASSUME DrawerInv, NEW h \in Handlers, NEW r \in Task, Equipped(r)',
         task' = [task EXCEPT ![h] = r], UNCHANGED <<cashSale, note>>, torn \subseteq torn',
         shift' \in [Shifts -> ShiftRow], move' \in [Moves -> Movement],
         draft' \in [Drafts -> Draft], odd' \subseteq Shifts,
         \A k \in Shifts : shift[k].st # "none" => shift'[k].st # "none",
         \A m \in Moves \ torn' : \/ move'[m] = move[m] /\ ~Handles(task[h], m) /\ ~Handles(r, m)
                                  \/ Books(m)',
         \A d \in Drafts \ torn' : Hold(d)',
         Counting'
  PROVE  DrawerInv'
<1> USE DEF DrawerInv
<1>1. task' \in [Handlers -> Task] /\ Equipments' BY StepTyped
<1>2. DrawerTypeOK' BY <1>1 DEF DrawerTypeOK
<1>3. ASSUME NEW m \in Moves, m \notin torn' PROVE Books(m)'
  <2>1. Books(m) BY <1>3 DEF MoveBooks
  <2> QED BY <1>3, <2>1, BooksElsewhere
<1> QED BY <1>1, <1>2, <1>3 DEF MoveBooks, DraftHolds

LEMMA KeptByCreateMove ==
  ASSUME DrawerInv, NEW h \in Handlers, CreateMove(h) PROVE DrawerInv'
<1> USE DEF DrawerInv
<1>1. PICK k \in Shifts, a \in {1, -1} : k = task[h].shift /\ a = task[h].amount
  BY DEF CreateMove, Equipments, Equipped
<1>2. a \in Int OBVIOUS
<1>3. PICK m \in Moves :
        /\ move[m].st = "none"
        /\ move' = [move EXCEPT ![m] = [NoMove EXCEPT !.st = "live", !.sign = a, !.shift = k]]
        /\ task' = [task EXCEPT ![h].pc = "book", ![h].doc = m]
  BY <1>1 DEF CreateMove
<1>4. /\ task[h].pc = "move" /\ Pay(a, {k}) /\ UNCHANGED <<cashSale, note, torn>>
      /\ draft' = IF task[h].then # "drop" THEN draft
                  ELSE [draft EXCEPT ![task[h].draft].outs = @ + 1]
  BY <1>1 DEF CreateMove
<1>5. /\ shift' \in [Shifts -> ShiftRow] /\ odd' \subseteq Shifts /\ odd \subseteq odd'
      /\ \A i \in Shifts : /\ shift'[i].st = shift[i].st
                           /\ shift'[i].cash = IF shift[i].st = "OPEN" THEN shift[i].cash + a
                                               ELSE shift[i].cash
      /\ OpenShifts \ {k} \subseteq odd'
  BY <1>2, <1>4, Paying
<1>6. shift[k].st # "none" BY <1>1, <1>4, DrawerConstants DEF Equipments, Equipped
<1>7. PICK r : r = [task[h] EXCEPT !.pc = "book", !.doc = m] OBVIOUS
<1>8. task[h] \in Task /\ Equipped(task[h]) BY DEF DrawerTypeOK, Equipments
<1>9. r \in Task BY <1>7, <1>8 DEF Task
<1>10. /\ r.pc = "book" /\ r.doc = m /\ r.shift = k /\ r.amount = a
       /\ r.draft = task[h].draft /\ r.then = task[h].then
  BY <1>1, <1>7, <1>8 DEF Task
<1>11. task' = [task EXCEPT ![h] = r] BY <1>3, <1>7
<1>12. Equipped(r)'
  BY <1>4, <1>5, <1>6, <1>8, <1>10 DEF Equipped, Booking, Reversing, Ending
<1>13. \A g \in Handlers : task'[g] = IF g = h THEN r ELSE task[g] BY <1>11 DEF DrawerTypeOK
<1>14. PICK new : new = [NoMove EXCEPT !.st = "live", !.sign = a, !.shift = k] OBVIOUS
<1>15. /\ new \in Movement /\ new.st = "live" /\ new.sign = a /\ new.shift = k
       /\ new.booked = 0 /\ ~new.reversed
  <2>1. new = [st |-> "live", sign |-> a, shift |-> k, journal |-> FALSE, booked |-> 0,
               reversed |-> FALSE]
    BY <1>14 DEF NoMove
  <2>2. new \in Movement BY <2>1 DEF Movement
  <2> QED BY <2>1, <2>2
<1>16. \A x \in Moves : move'[x] = IF x = m THEN new ELSE move[x]
  BY <1>3, <1>14 DEF DrawerTypeOK
<1>17. move' \in [Moves -> Movement] BY <1>3, <1>14, <1>15 DEF DrawerTypeOK
<1>18. task[h].draft # None => task[h].draft \in Drafts /\ task[h].then # "none"
  BY <1>4, <1>8 DEF Task, Equipped
<1>19. task[h].then = "drop" => task[h].draft \in Drafts BY <1>4, <1>8 DEF Task, Equipped
<1>20. ASSUME NEW d \in Drafts
       PROVE  /\ draft'[d] \in Draft /\ draft'[d].st = draft[d].st
              /\ d # task[h].draft => draft'[d] = draft[d]
              /\ d = task[h].draft =>
                   draft'[d].outs = IF task[h].then = "drop" THEN draft[d].outs + 1
                                    ELSE draft[d].outs
  <2>1. draft[d] \in Draft BY DEF DrawerTypeOK
  <2>2. CASE task[h].then # "drop" BY <1>4, <2>1, <2>2
  <2>3. CASE task[h].then = "drop"
    <3>1. draft' = [draft EXCEPT ![task[h].draft].outs = draft[task[h].draft].outs + 1]
      BY <1>4, <2>3
    <3>2. CASE d # task[h].draft BY <2>1, <3>1, <3>2 DEF DrawerTypeOK
    <3>3. CASE d = task[h].draft
      <4>1. draft'[d] = [draft[d] EXCEPT !.outs = draft[d].outs + 1]
        BY <3>1, <3>3 DEF DrawerTypeOK
      <4> QED BY <2>1, <2>3, <3>3, <4>1 DEF Draft
    <3> QED BY <3>2, <3>3
  <2> QED BY <2>2, <2>3
<1>21. draft' \in [Drafts -> Draft]
  <2>1. draft' = [d \in Drafts |-> draft'[d]] BY <1>4 DEF DrawerTypeOK
  <2> QED BY <1>20, <2>1
<1>22. ASSUME NEW x \in Moves, x \notin torn
       PROVE  \/ move'[x] = move[x] /\ ~Handles(task[h], x) /\ ~Handles(r, x)
              \/ Books(x)'
  <2>1. CASE x # m
    BY <1>4, <1>10, <1>16, <2>1 DEF Handles, Booking, Reversing, Ending
  <2>2. CASE x = m
    <3>1. \A g \in Handlers : ~Handles(task[g], m) BY <1>3, <1>22, <2>2 DEF MoveBooks, Books
    <3>2. \A g \in Handlers : Handles(task[g], m)' => g = h BY <1>13, <3>1 DEF Handles
    <3>3. Handles(task[h], m)' BY <1>10, <1>13 DEF Handles, Booking
    <3>4. move'[m] = new /\ task'[h] = r BY <1>13, <1>16
    <3>5. Booked(r, new) BY <1>10, <1>15 DEF Booked, Ending
    <3>6. Booked(task[h], move[m])' BY <3>4, <3>5 DEF Booked
    <3>7. move'[m].st = "live" BY <1>15, <3>4
    <3> QED BY <2>2, <3>2, <3>3, <3>6, <3>7 DEF Books
  <2> QED BY <2>1, <2>2
<1>23. ASSUME NEW d \in Drafts, d \notin torn PROVE Hold(d)'
  <2>1. Hold(d) BY <1>23 DEF DraftHolds
  <2>2. CASE d # task[h].draft
    BY <1>10, <1>11, <1>20, <2>1, <2>2, HoldElsewhere
  <2>3. CASE d = task[h].draft
    <3>0. draft[d].st # "gone" /\ Paid(task[h], draft[d]) BY <2>1, <2>3 DEF Hold
    <3>1. draft[d].st # "gone" /\ Paid(task[h], draft[d]) /\ draft[d].outs = 0
      BY <1>4, <3>0 DEF Paid
    <3>2. draft'[d].st = draft[d].st BY <1>20
    <3>3. draft'[d].outs = IF r.then = "drop" THEN 1 ELSE 0
      BY <1>10, <1>20, <2>3, <3>1
    <3>4. Paid(r, draft'[d]) BY <1>10, <3>1, <3>2, <3>3 DEF Paid
    <3>5. task'[h] = r /\ r.draft = d BY <1>10, <1>13, <2>3
    <3>6. Paid(task[h], draft[d])' BY <3>4, <3>5 DEF Paid
    <3>7. \A g \in Handlers : task'[g].draft = d => g = h BY <1>13, <2>1, <2>3 DEF Hold
    <3> QED BY <3>1, <3>2, <3>5, <3>6, <3>7 DEF Hold
  <2> QED BY <2>2, <2>3
<1>24. Counting'
  <2>1. \A g \in Handlers : task'[g].pc \in {"open", "close", "attach"} => task'[g] = task[g]
    BY <1>10, <1>13
  <2>2. ASSUME NEW g \in Handlers PROVE Attacher(g)'
    <3>1. Attacher(g) /\ Equipped(task[g]) BY DEF Counting, Equipments
    <3> QED BY <1>4, <1>5, <2>1, <3>1 DEF Attacher, Equipped
  <2>3. MadeSales' = MadeSales /\ MadeMoves' = MadeMoves \cup {m}
    BY <1>4, <1>15, <1>16 DEF MadeSales, MadeMoves
  <2>4. IsFiniteSet(MadeSales') /\ IsFiniteSet(MadeMoves') BY <2>3, FS_AddElement DEF Counting
  <2>5. \A x \in Sales : note'[x].st # "none" => x \in MadeSales' BY <1>4, <2>3 DEF Counting
  <2>6. ASSUME NEW i \in Shifts, shift[i].st = "none"
        PROVE  /\ \A x \in Sales : cashSale'[x].shift # i /\ i \notin cashSale'[x].when
               /\ \A x \in Moves : move'[x].shift # i
    <3>1. Unopened(i) /\ i # k BY <1>6, <2>6 DEF Counting
    <3> QED BY <1>4, <1>15, <1>16, <2>6, <3>1 DEF Unopened
  <2>7. NoNotes' => NoNotes BY <1>4 DEF NoNotes
  <2>8. ASSUME NEW i \in Shifts \ odd', NoNotes, shift[i].st = "OPEN"
        PROVE  ExpectedCash(i)' = ExpectedCash(i) + a
    <3>1. i = k BY <1>5, <2>8 DEF OpenShifts
    <3>2. SalesOf(i)' = SalesOf(i) BY <1>4 DEF SalesOf, InTime
    <3>3. /\ MovesOf(i, a)' = MovesOf(i, a) \cup {m} /\ m \notin MovesOf(i, a)
          /\ MovesOf(i, -a)' = MovesOf(i, -a)
      BY <1>3, <1>15, <1>16, <3>1 DEF MovesOf
    <3>4. NoNotes' BY <1>4, <2>8 DEF NoNotes
    <3>5. PICK n \in Nat, p \in Nat, q \in Nat :
            /\ n = Cardinality(SalesOf(i)) /\ p = Cardinality(MovesOf(i, 1))
            /\ q = Cardinality(MovesOf(i, -1))
      BY <2>8, ExpectedWithoutNotes
    <3>6. IsFiniteSet(MovesOf(i, 1)) /\ IsFiniteSet(MovesOf(i, -1)) BY ExpectedIsInt
    <3>7. ExpectedCash(i) = n + p - q BY <2>8, <3>5, ExpectedWithoutNotes
    <3>8. CASE a = 1
      <4>1. Cardinality(MovesOf(i, 1)') = p + 1 /\ MovesOf(i, -1)' = MovesOf(i, -1)
        BY <3>3, <3>5, <3>6, <3>8, FS_AddElement
      <4>2. ExpectedCash(i)' = n + (p + 1) - q BY <3>2, <3>4, <3>5, <4>1, ExpectedThen
      <4> QED BY <3>7, <3>8, <4>2
    <3>9. CASE a = -1
      <4>1. MovesOf(i, 1)' = MovesOf(i, 1) BY <3>3, <3>9
      <4>2. Cardinality(MovesOf(i, -1)') = q + 1 BY <3>3, <3>5, <3>6, <3>9, FS_AddElement
      <4>3. ExpectedCash(i)' = n + p - (q + 1) BY <3>2, <3>4, <3>5, <4>1, <4>2, ExpectedThen
      <4> QED BY <3>7, <3>9, <4>3
    <3> QED BY <3>8, <3>9
  <2> QED BY <1>2, <1>5, <2>1, <2>2, <2>4, <2>5, <2>6, <2>7, <2>8, CountingMoved
<1> QED BY <1>4, <1>5, <1>9, <1>11, <1>12, <1>17, <1>21, <1>22, <1>23, <1>24, DrawerKeeps

LEMMA KeptByBookMove ==
  ASSUME DrawerInv, NEW h \in Handlers, BookMove(h) PROVE DrawerInv'
<1> USE DEF DrawerInv
<1>1. PICK m \in Moves, a \in {1, -1} : m = task[h].doc /\ a = task[h].amount
  BY DEF BookMove, Equipments, Equipped, Booking
<1>2. task[h].pc = "book" /\ UNCHANGED <<shift, cashSale, note, draft, odd, torn>>
  BY DEF BookMove
<1>3. move' = [move EXCEPT ![m].booked = move[m].booked + a] BY <1>1 DEF BookMove
<1>4. PICK r : r = [task[h] EXCEPT !.pc = "store"] OBVIOUS
<1>5. task[h] \in Task /\ Equipped(task[h]) BY DEF DrawerTypeOK, Equipments
<1>6. r \in Task BY <1>4, <1>5 DEF Task
<1>7. /\ r.pc = "store" /\ r.doc = m /\ r.shift = task[h].shift /\ r.amount = a
      /\ r.draft = task[h].draft /\ r.then = task[h].then
  BY <1>1, <1>4, <1>5 DEF Task
<1>8. task' = [task EXCEPT ![h] = r] BY <1>4 DEF BookMove, GoOn
<1>9. Equipped(r)'
  BY <1>2, <1>5, <1>7 DEF Equipped, Booking, Reversing, Ending, Task
<1>10. move[m] \in Movement /\ a \in Int BY DEF DrawerTypeOK
<1>11. \A x \in Moves : x # m => move'[x] = move[x] BY <1>3 DEF DrawerTypeOK
<1>12. move'[m] = [move[m] EXCEPT !.booked = move[m].booked + a] BY <1>3 DEF DrawerTypeOK
<1>13. /\ move'[m] \in Movement /\ move'[m].st = move[m].st /\ move'[m].sign = move[m].sign
       /\ move'[m].shift = move[m].shift /\ move'[m].reversed = move[m].reversed
       /\ move'[m].booked = move[m].booked + a
  BY <1>10, <1>12 DEF Movement
<1>14. move' \in [Moves -> Movement] BY <1>3, <1>10 DEF DrawerTypeOK, Movement
<1>15. ASSUME NEW x \in Moves, x \notin torn
       PROVE  \/ move'[x] = move[x] /\ ~Handles(task[h], x) /\ ~Handles(r, x)
              \/ Books(x)'
  <2>1. CASE x # m BY <1>1, <1>7, <1>11, <2>1 DEF Handles
  <2>2. CASE x = m
    <3>1. Books(m) BY <1>15, <2>2 DEF MoveBooks
    <3>2. Handles(task[h], m) /\ Handles(r, m) BY <1>1, <1>2, <1>7 DEF Handles, Booking
    <3>3. move[m].st = "live" /\ Booked(task[h], move[m]) BY <3>1, <3>2 DEF Books
    <3>4. move[m].booked = 0 /\ a = move[m].sign /\ ~move[m].reversed
      BY <1>1, <1>2, <3>3 DEF Booked
    <3>5. Booked(r, move'[m]) BY <1>7, <1>10, <1>13, <3>4 DEF Booked, Ending
    <3> QED BY <1>8, <1>13, <2>2, <3>1, <3>2, <3>3, <3>5, BooksHere
  <2> QED BY <2>1, <2>2
<1>16. ASSUME NEW d \in Drafts, d \notin torn PROVE Hold(d)'
  BY <1>2, <1>7, <1>8, <1>16, HoldKept DEF DraftHolds
<1>17. Counting' BY <1>2, <1>7, <1>8, <1>11, <1>13, CountingKept
<1>18. draft' \in [Drafts -> Draft] /\ shift' \in [Shifts -> ShiftRow] /\ odd' \subseteq Shifts
  BY <1>2 DEF DrawerTypeOK
<1> QED BY <1>2, <1>6, <1>8, <1>9, <1>14, <1>15, <1>16, <1>17, <1>18, DrawerKeeps

LEMMA KeptByStoreJournal ==
  ASSUME DrawerInv, NEW h \in Handlers, StoreJournal(h) PROVE DrawerInv'
<1> USE DEF DrawerInv
<1>1. PICK m \in Moves : m = task[h].doc BY DEF StoreJournal, Equipments, Equipped, Booking
<1>2. /\ task[h].pc = "store" /\ move[m].st = "live"
      /\ UNCHANGED <<shift, cashSale, note, draft, odd, torn>>
      /\ move' = [move EXCEPT ![m].journal = TRUE]
  BY <1>1 DEF StoreJournal
<1>3. task[h] \in Task /\ Equipped(task[h]) BY DEF DrawerTypeOK, Equipments
<1>4. PICK r : r = IF task[h].then = "none" THEN NoTask ELSE [task[h] EXCEPT !.pc = task[h].then]
  OBVIOUS
<1>5. r \in Task BY <1>3, <1>4, AtRest DEF Task
<1>6. task' = [task EXCEPT ![h] = r] BY <1>4 DEF StoreJournal, Done, GoOn
<1>7. task[h].then = "none" => r = NoTask /\ task[h].draft = None
  BY <1>2, <1>3, <1>4 DEF Equipped, Booking
<1>8. task[h].then # "none" =>
        /\ r.pc = task[h].then /\ r.doc = m /\ r.shift = task[h].shift
        /\ r.draft = task[h].draft /\ r.then = task[h].then
  BY <1>1, <1>3, <1>4 DEF Task
<1>9. task[h].then # "none" => task[h].then \in Ending /\ task[h].draft \in Drafts
  BY <1>2, <1>3 DEF Equipped, Booking, Ending, Task
<1>10. r.pc \in {"idle", "park", "drop"} BY <1>7, <1>8, <1>9, AtRest DEF Ending
<1>11. Equipped(r)'
  <2>1. CASE task[h].then = "none" BY <1>7, <2>1, AtRest
  <2>2. CASE task[h].then # "none"
    BY <1>2, <1>3, <1>8, <1>9, <2>2 DEF Equipped, Booking, Reversing, Ending
  <2> QED BY <2>1, <2>2
<1>12. \A x \in Moves : x # m => move'[x] = move[x] BY <1>2 DEF DrawerTypeOK
<1>13. move[m] \in Movement BY DEF DrawerTypeOK
<1>14. move'[m] = [move[m] EXCEPT !.journal = TRUE] BY <1>2 DEF DrawerTypeOK
<1>15. /\ move'[m].st = move[m].st /\ move'[m].sign = move[m].sign
       /\ move'[m].shift = move[m].shift /\ move'[m].reversed = move[m].reversed
       /\ move'[m].booked = move[m].booked /\ move'[m].journal
  BY <1>13, <1>14 DEF Movement
<1>16. move' \in [Moves -> Movement] BY <1>2 DEF DrawerTypeOK, Movement
<1>17. ASSUME NEW x \in Moves, x \notin torn
       PROVE  \/ move'[x] = move[x] /\ ~Handles(task[h], x) /\ ~Handles(r, x)
              \/ Books(x)'
  <2>1. CASE x # m BY <1>1, <1>7, <1>8, <1>12, <2>1, AtRest DEF Handles
  <2>2. CASE x = m
    <3>1. Books(m) BY <1>17, <2>2 DEF MoveBooks
    <3>2. Handles(task[h], m) BY <1>1, <1>2 DEF Handles, Booking
    <3>3. Booked(task[h], move[m]) BY <1>2, <3>1, <3>2 DEF Books
    <3>4. move[m].booked = move[m].sign /\ ~move[m].reversed
      BY <1>2, <3>3 DEF Booked
    <3>5. Booked(r, move'[m]) BY <1>10, <1>15, <3>4 DEF Booked
    <3> QED BY <1>2, <1>6, <1>15, <2>2, <3>1, <3>2, <3>4, <3>5, BooksHere
  <2> QED BY <2>1, <2>2
<1>18. ASSUME NEW d \in Drafts, d \notin torn PROVE Hold(d)'
  <2>1. Hold(d) BY <1>18 DEF DraftHolds
  <2>2. CASE task[h].then = "none"
    BY <1>2, <1>6, <1>7, <2>1, <2>2, AtRest, HoldElsewhere, DrawerConstants
  <2>3. CASE task[h].then # "none" BY <1>2, <1>6, <1>8, <1>10, <2>1, <2>3, HoldKept
  <2> QED BY <2>2, <2>3
<1>19. Counting' BY <1>2, <1>6, <1>10, <1>12, <1>15, CountingKept
<1>20. draft' \in [Drafts -> Draft] /\ shift' \in [Shifts -> ShiftRow] /\ odd' \subseteq Shifts
  BY <1>2 DEF DrawerTypeOK
<1> QED BY <1>2, <1>5, <1>6, <1>11, <1>16, <1>17, <1>18, <1>19, <1>20, DrawerKeeps

LEMMA KeptByLookForReversal ==
  ASSUME DrawerInv, NEW h \in Handlers, LookForReversal(h) PROVE DrawerInv'
<1> USE DEF DrawerInv
<1>1. PICK m \in Moves : m = task[h].doc BY DEF LookForReversal, Equipments, Equipped, Reversing
<1>2. task[h].pc = "look" /\ UNCHANGED <<shift, cashSale, note, draft, odd, torn>>
  BY DEF LookForReversal
<1>3. PICK pc \in {"unbook", "delete"} :
        /\ GoOn(h, pc)
        /\ IF move[m].reversed THEN pc = "delete" /\ move' = [move EXCEPT ![m].journal = FALSE]
           ELSE pc = "unbook" /\ UNCHANGED move
  BY <1>1 DEF LookForReversal
<1>4. PICK r : r = [task[h] EXCEPT !.pc = pc] OBVIOUS
<1>5. task[h] \in Task /\ Equipped(task[h]) BY DEF DrawerTypeOK, Equipments
<1>6. r \in Task BY <1>4, <1>5 DEF Task
<1>7. /\ r.pc = pc /\ r.doc = m /\ r.shift = task[h].shift
      /\ r.draft = task[h].draft /\ r.then = task[h].then
  BY <1>1, <1>4, <1>5 DEF Task
<1>8. task' = [task EXCEPT ![h] = r] BY <1>3, <1>4 DEF GoOn
<1>9. Equipped(r)'
  BY <1>2, <1>5, <1>7 DEF Equipped, Booking, Reversing, Ending, Task
<1>10. move' \in [Moves -> Movement]
  <2>1. CASE move[m].reversed
    <3>1. move' = [move EXCEPT ![m].journal = FALSE] BY <1>3, <2>1
    <3> QED BY <3>1 DEF DrawerTypeOK, Movement
  <2>2. CASE ~move[m].reversed BY <1>3, <2>2 DEF DrawerTypeOK
  <2> QED BY <2>1, <2>2
<1>11. \A x \in Moves : /\ x # m => move'[x] = move[x]
                        /\ move'[x].st = move[x].st /\ move'[x].shift = move[x].shift
                        /\ move'[x].sign = move[x].sign
  BY <1>3 DEF DrawerTypeOK, Movement
<1>12. ASSUME NEW x \in Moves, x \notin torn
       PROVE  \/ move'[x] = move[x] /\ ~Handles(task[h], x) /\ ~Handles(r, x)
              \/ Books(x)'
  <2>1. CASE x # m BY <1>1, <1>7, <1>11, <2>1 DEF Handles
  <2>2. CASE x = m
    <3>1. Books(m) BY <1>12, <2>2 DEF MoveBooks
    <3>2. Handles(task[h], m) /\ Handles(r, m) BY <1>1, <1>2, <1>7 DEF Handles, Reversing
    <3>3. move[m].st = "live" /\ Booked(task[h], move[m]) BY <3>1, <3>2 DEF Books
    <3>4. move[m].booked = move[m].sign /\ ~move[m].reversed BY <1>2, <3>3 DEF Booked
    <3>5. r.pc = "unbook" /\ move'[m] = move[m] BY <1>3, <1>7, <3>4
    <3>6. Booked(r, move'[m]) BY <3>4, <3>5 DEF Booked, Ending
    <3> QED BY <1>8, <2>2, <3>1, <3>2, <3>3, <3>5, <3>6, BooksHere
  <2> QED BY <2>1, <2>2
<1>13. ASSUME NEW d \in Drafts, d \notin torn PROVE Hold(d)'
  <2>1. Hold(d) BY <1>13 DEF DraftHolds
  <2> QED BY <1>2, <1>7, <1>8, <2>1, HoldKept
<1>14. Counting' BY <1>2, <1>7, <1>8, <1>11, CountingKept
<1>15. draft' \in [Drafts -> Draft] /\ shift' \in [Shifts -> ShiftRow] /\ odd' \subseteq Shifts
  BY <1>2 DEF DrawerTypeOK
<1> QED BY <1>2, <1>6, <1>8, <1>9, <1>10, <1>12, <1>13, <1>14, <1>15, DrawerKeeps

LEMMA KeptByUnbook ==
  ASSUME DrawerInv, NEW h \in Handlers, Unbook(h) PROVE DrawerInv'
<1> USE DEF DrawerInv
<1>1. PICK m \in Moves : m = task[h].doc BY DEF Unbook, Equipments, Equipped, Reversing
<1>2. task[h].pc = "unbook" /\ UNCHANGED <<shift, cashSale, note, draft, odd, torn>>
  BY DEF Unbook
<1>3. move[m] \in Movement BY DEF DrawerTypeOK
<1>4. PICK b \in Int : b = move[m].booked - move[m].sign BY <1>3 DEF Movement
<1>5. move' = [move EXCEPT ![m] = [@ EXCEPT !.booked = b, !.reversed = TRUE, !.journal = FALSE]]
  BY <1>1, <1>4 DEF Unbook, DrawerTypeOK, Movement
<1>6. PICK r : r = [task[h] EXCEPT !.pc = "delete"] OBVIOUS
<1>7. task[h] \in Task /\ Equipped(task[h]) BY DEF DrawerTypeOK, Equipments
<1>8. r \in Task BY <1>6, <1>7 DEF Task
<1>9. /\ r.pc = "delete" /\ r.doc = m /\ r.shift = task[h].shift
      /\ r.draft = task[h].draft /\ r.then = task[h].then
  BY <1>1, <1>6, <1>7 DEF Task
<1>10. task' = [task EXCEPT ![h] = r] BY <1>6 DEF Unbook, GoOn
<1>11. Equipped(r)'
  BY <1>2, <1>7, <1>9 DEF Equipped, Booking, Reversing, Ending, Task
<1>12. \A x \in Moves : x # m => move'[x] = move[x] BY <1>5 DEF DrawerTypeOK
<1>13. move'[m] = [move[m] EXCEPT !.booked = b, !.reversed = TRUE, !.journal = FALSE]
  BY <1>5 DEF DrawerTypeOK
<1>14. /\ move'[m] \in Movement /\ move'[m].st = move[m].st /\ move'[m].sign = move[m].sign
       /\ move'[m].shift = move[m].shift /\ move'[m].booked = b
  BY <1>3, <1>13 DEF Movement
<1>15. move' \in [Moves -> Movement] BY <1>5, <1>12, <1>14 DEF DrawerTypeOK
<1>16. ASSUME NEW x \in Moves, x \notin torn
       PROVE  \/ move'[x] = move[x] /\ ~Handles(task[h], x) /\ ~Handles(r, x)
              \/ Books(x)'
  <2>1. CASE x # m BY <1>1, <1>9, <1>12, <2>1 DEF Handles
  <2>2. CASE x = m
    <3>1. Books(m) BY <1>16, <2>2 DEF MoveBooks
    <3>2. Handles(task[h], m) /\ Handles(r, m) BY <1>1, <1>2, <1>9 DEF Handles, Reversing
    <3>3. move[m].st = "live" /\ Booked(task[h], move[m]) BY <3>1, <3>2 DEF Books
    <3>4. move[m].booked = move[m].sign BY <1>2, <3>3 DEF Booked
    <3>5. b = 0 BY <1>3, <1>4, <3>4 DEF Movement
    <3>6. Booked(r, move'[m]) BY <1>9, <1>14, <3>5 DEF Booked, Ending
    <3> QED BY <1>10, <1>14, <2>2, <3>1, <3>2, <3>3, <3>6, BooksHere
  <2> QED BY <2>1, <2>2
<1>17. ASSUME NEW d \in Drafts, d \notin torn PROVE Hold(d)'
  <2>1. Hold(d) BY <1>17 DEF DraftHolds
  <2> QED BY <1>2, <1>9, <1>10, <2>1, HoldKept
<1>18. Counting' BY <1>2, <1>9, <1>10, <1>12, <1>14, CountingKept
<1>19. draft' \in [Drafts -> Draft] /\ shift' \in [Shifts -> ShiftRow] /\ odd' \subseteq Shifts
  BY <1>2 DEF DrawerTypeOK
<1> QED BY <1>2, <1>8, <1>10, <1>11, <1>15, <1>16, <1>17, <1>18, <1>19, DrawerKeeps

LEMMA KeptByDeleteMove ==
  ASSUME DrawerInv, NEW h \in Handlers, DeleteMove(h) PROVE DrawerInv'
<1> USE DEF DrawerInv
<1>1. PICK m \in Moves : m = task[h].doc BY DEF DeleteMove, Equipments, Equipped, Reversing
<1>2. move[m] \in Movement BY DEF DrawerTypeOK
<1>3. PICK sign \in {1, -1} : sign = move[m].sign BY <1>2 DEF Movement
<1>4. PICK a \in Int : a = -sign OBVIOUS
<1>5. PICK own : own = {move[m].shift} OBVIOUS
<1>6. /\ task[h].pc = "delete" /\ move[m].st = "live" /\ task' = [task EXCEPT ![h] = NoTask]
      /\ Pay(a, own) /\ UNCHANGED <<cashSale, note, draft, torn>>
  BY <1>1, <1>3, <1>4, <1>5 DEF DeleteMove, Done
<1>7. move' = [move EXCEPT ![m] = [@ EXCEPT !.st = "gone", !.journal = FALSE]]
  BY <1>1 DEF DeleteMove, DrawerTypeOK, Movement
<1>8. /\ shift' \in [Shifts -> ShiftRow] /\ odd' \subseteq Shifts /\ odd \subseteq odd'
      /\ \A i \in Shifts : /\ shift'[i].st = shift[i].st
                           /\ shift'[i].cash = IF shift[i].st = "OPEN" THEN shift[i].cash + a
                                               ELSE shift[i].cash
      /\ OpenShifts \ own \subseteq odd'
  BY <1>6, Paying
<1>9. \A x \in Moves : x # m => move'[x] = move[x] BY <1>7 DEF DrawerTypeOK
<1>10. move'[m] = [move[m] EXCEPT !.st = "gone", !.journal = FALSE] BY <1>7 DEF DrawerTypeOK
<1>11. /\ move'[m] \in Movement /\ move'[m].st = "gone" /\ move'[m].shift = move[m].shift
       /\ move'[m].booked = move[m].booked
  BY <1>2, <1>10 DEF Movement
<1>12. move' \in [Moves -> Movement] BY <1>7, <1>9, <1>11 DEF DrawerTypeOK
<1>13. task[h].draft = None BY <1>6 DEF Equipments, Equipped, Booking, Ending
<1>14. \A g \in Handlers : task'[g] = IF g = h THEN NoTask ELSE task[g]
  BY <1>6 DEF DrawerTypeOK
<1>15. ASSUME NEW x \in Moves, x \notin torn
       PROVE  \/ move'[x] = move[x] /\ ~Handles(task[h], x) /\ ~Handles(NoTask, x)
              \/ Books(x)'
  <2>1. CASE x # m BY <1>1, <1>9, <2>1, AtRest DEF Handles
  <2>2. CASE x = m
    <3>1. Books(m) BY <1>15, <2>2 DEF MoveBooks
    <3>2. Handles(task[h], m) BY <1>1, <1>6 DEF Handles, Reversing
    <3>3. Booked(task[h], move[m]) BY <1>6, <3>1, <3>2 DEF Books
    <3>4. move[m].booked = 0 BY <1>6, <3>3 DEF Booked
    <3> QED BY <1>6, <1>11, <2>2, <3>1, <3>2, <3>4, AtRest, BooksHere
  <2> QED BY <2>1, <2>2
<1>16. ASSUME NEW d \in Drafts, d \notin torn PROVE Hold(d)'
  <2>1. Hold(d) BY <1>16 DEF DraftHolds
  <2> QED BY <1>6, <1>13, <2>1, AtRest, HoldElsewhere, DrawerConstants
<1>17. Counting'
  <2>1. \A g \in Handlers : task'[g].pc \in {"open", "close", "attach"} => task'[g] = task[g]
    BY <1>14, AtRest
  <2>2. ASSUME NEW g \in Handlers PROVE Attacher(g)'
    <3>1. Attacher(g) /\ Equipped(task[g]) BY DEF Counting, Equipments
    <3> QED BY <1>6, <1>8, <2>1, <3>1 DEF Attacher, Equipped
  <2>3. MadeSales' = MadeSales /\ MadeMoves' = MadeMoves
    BY <1>6, <1>9, <1>11 DEF MadeSales, MadeMoves
  <2>4. IsFiniteSet(MadeSales') /\ IsFiniteSet(MadeMoves') BY <2>3 DEF Counting
  <2>5. \A x \in Sales : note'[x].st # "none" => x \in MadeSales' BY <1>6, <2>3 DEF Counting
  <2>6. ASSUME NEW i \in Shifts, shift[i].st = "none"
        PROVE  /\ \A x \in Sales : cashSale'[x].shift # i /\ i \notin cashSale'[x].when
               /\ \A y \in Moves : move'[y].shift # i
    <3>1. Unopened(i) BY DEF Counting
    <3> QED BY <1>6, <1>9, <1>11, <2>6, <3>1 DEF Unopened
  <2>7. NoNotes' => NoNotes BY <1>6 DEF NoNotes
  <2>8. ASSUME NEW i \in Shifts \ odd', NoNotes, shift[i].st = "OPEN"
        PROVE  ExpectedCash(i)' = ExpectedCash(i) + a
    <3>1. i = move[m].shift BY <1>5, <1>8, <2>8 DEF OpenShifts
    <3>2. SalesOf(i)' = SalesOf(i) BY <1>6 DEF SalesOf, InTime
    <3>3. MovesOf(i, sign)' = MovesOf(i, sign) \ {m} /\ m \in MovesOf(i, sign)
      BY <1>3, <1>6, <1>9, <1>11, <3>1 DEF MovesOf
    <3>4. MovesOf(i, -sign)' = MovesOf(i, -sign) BY <1>3, <1>9, <1>11 DEF MovesOf
    <3>5. NoNotes' BY <1>6, <2>8 DEF NoNotes
    <3>6. PICK n \in Nat, p \in Nat, q \in Nat :
            /\ n = Cardinality(SalesOf(i)) /\ p = Cardinality(MovesOf(i, 1))
            /\ q = Cardinality(MovesOf(i, -1))
      BY <2>8, ExpectedWithoutNotes
    <3>7. IsFiniteSet(MovesOf(i, 1)) /\ IsFiniteSet(MovesOf(i, -1)) BY ExpectedIsInt
    <3>8. ExpectedCash(i) = n + p - q BY <2>8, <3>6, ExpectedWithoutNotes
    <3>9. CASE sign = 1
      <4>1. Cardinality(MovesOf(i, 1)') = p - 1 BY <3>3, <3>6, <3>7, <3>9, FS_RemoveElement
      <4>2. p # 0 BY <3>3, <3>6, <3>7, <3>9, FS_EmptySet
      <4>3. p - 1 \in Nat BY <4>2
      <4>4. MovesOf(i, -1)' = MovesOf(i, -1) BY <3>4, <3>9
      <4>5. ExpectedCash(i)' = n + (p - 1) - q
        BY <3>2, <3>5, <3>6, <4>1, <4>3, <4>4, ExpectedThen
      <4> QED BY <1>4, <3>8, <3>9, <4>5
    <3>10. CASE sign = -1
      <4>1. Cardinality(MovesOf(i, -1)') = q - 1 BY <3>3, <3>6, <3>7, <3>10, FS_RemoveElement
      <4>2. q # 0 BY <3>3, <3>6, <3>7, <3>10, FS_EmptySet
      <4>3. q - 1 \in Nat BY <4>2
      <4>4. MovesOf(i, 1)' = MovesOf(i, 1) BY <3>4, <3>10
      <4>5. ExpectedCash(i)' = n + p - (q - 1)
        BY <3>2, <3>5, <3>6, <4>1, <4>3, <4>4, ExpectedThen
      <4> QED BY <1>4, <3>8, <3>10, <4>5
    <3> QED BY <3>9, <3>10
  <2> QED BY <1>8, <2>1, <2>2, <2>4, <2>5, <2>6, <2>7, <2>8, CountingMoved
<1>18. draft' \in [Drafts -> Draft] BY <1>6 DEF DrawerTypeOK
<1> QED BY <1>6, <1>8, <1>12, <1>15, <1>16, <1>17, <1>18, AtRest, DrawerKeeps

LEMMA KeptByParkCart ==
  ASSUME DrawerInv, NEW h \in Handlers, ParkCart(h) PROVE DrawerInv'
<1> USE DEF DrawerInv
<1>1. PICK d \in Drafts : d = task[h].draft BY DEF ParkCart, Equipments, Equipped, Ending
<1>2. /\ task[h].pc = "park" /\ task' = [task EXCEPT ![h] = NoTask]
      /\ UNCHANGED <<shift, cashSale, note, move, odd, torn>>
      /\ draft' = [draft EXCEPT ![d].st = "held"]
  BY <1>1 DEF ParkCart, Done
<1>3. task[h].then = "park" BY <1>2 DEF Equipments, Equipped
<1>4. /\ draft' \in [Drafts -> Draft] /\ draft'[d].st = "held" /\ draft'[d].outs = draft[d].outs
      /\ \A x \in Drafts : x # d => draft'[x] = draft[x]
  BY <1>2 DEF DrawerTypeOK, Draft
<1>5. ASSUME NEW x \in Moves, x \notin torn
      PROVE  \/ move'[x] = move[x] /\ ~Handles(task[h], x) /\ ~Handles(NoTask, x)
             \/ Books(x)'
  <2>1. CASE ~Handles(task[h], x) BY <1>2, <2>1, AtRest
  <2>2. CASE Handles(task[h], x)
    <3>1. Books(x) BY <1>5 DEF MoveBooks
    <3>2. move[x].st = "live" /\ Booked(task[h], move[x]) BY <2>2, <3>1 DEF Books
    <3>3. move[x].journal /\ move[x].booked = move[x].sign /\ ~move[x].reversed
      BY <1>2, <3>2 DEF Booked, Ending
    <3> QED BY <1>2, <2>2, <3>1, <3>2, <3>3, AtRest, BooksHere
  <2> QED BY <2>1, <2>2
<1>6. \A g \in Handlers : task'[g] = IF g = h THEN NoTask ELSE task[g]
  BY <1>2 DEF DrawerTypeOK
<1>7. ASSUME NEW x \in Drafts, x \notin torn PROVE Hold(x)'
  <2>1. Hold(x) BY <1>7 DEF DraftHolds
  <2>2. CASE x # d
    BY <1>1, <1>2, <1>4, <2>1, <2>2, AtRest, HoldElsewhere, DrawerConstants
  <2>3. CASE x = d
    <3>1. Paid(task[h], draft[d]) BY <1>1, <2>1, <2>3 DEF Hold
    <3>2. draft[d].outs = 0 BY <1>3, <3>1 DEF Paid
    <3>3. \A g \in Handlers : task'[g].draft # d
      BY <1>1, <1>6, <2>1, <2>3, AtRest, DrawerConstants DEF Hold
    <3> QED BY <1>4, <2>3, <3>2, <3>3 DEF Hold
  <2> QED BY <2>2, <2>3
<1>8. Counting' BY <1>2, AtRest, CountingKept
<1>9. move' \in [Moves -> Movement] /\ shift' \in [Shifts -> ShiftRow] /\ odd' \subseteq Shifts
  BY <1>2 DEF DrawerTypeOK
<1> QED BY <1>2, <1>4, <1>5, <1>7, <1>8, <1>9, AtRest, DrawerKeeps

LEMMA KeptByDropCart ==
  ASSUME DrawerInv, NEW h \in Handlers, DropCart(h) PROVE DrawerInv'
<1> USE DEF DrawerInv
<1>1. PICK d \in Drafts : d = task[h].draft BY DEF DropCart, Equipments, Equipped, Ending
<1>2. /\ task[h].pc = "drop" /\ task' = [task EXCEPT ![h] = NoTask] /\ draft[d].st = "held"
      /\ UNCHANGED <<shift, cashSale, note, move, odd, torn>>
      /\ draft' = [draft EXCEPT ![d].st = "gone"]
  BY <1>1 DEF DropCart, Done
<1>3. /\ draft' \in [Drafts -> Draft] /\ draft'[d].st = "gone" /\ draft'[d].outs = draft[d].outs
      /\ \A x \in Drafts : x # d => draft'[x] = draft[x]
  BY <1>2 DEF DrawerTypeOK, Draft
<1>4. ASSUME NEW x \in Moves, x \notin torn
      PROVE  \/ move'[x] = move[x] /\ ~Handles(task[h], x) /\ ~Handles(NoTask, x)
             \/ Books(x)'
  <2>1. CASE ~Handles(task[h], x) BY <1>2, <2>1, AtRest
  <2>2. CASE Handles(task[h], x)
    <3>1. Books(x) BY <1>4 DEF MoveBooks
    <3>2. move[x].st = "live" /\ Booked(task[h], move[x]) BY <2>2, <3>1 DEF Books
    <3>3. move[x].journal /\ move[x].booked = move[x].sign /\ ~move[x].reversed
      BY <1>2, <3>2 DEF Booked, Ending
    <3> QED BY <1>2, <2>2, <3>1, <3>2, <3>3, AtRest, BooksHere
  <2> QED BY <2>1, <2>2
<1>5. \A g \in Handlers : task'[g] = IF g = h THEN NoTask ELSE task[g]
  BY <1>2 DEF DrawerTypeOK
<1>6. ASSUME NEW x \in Drafts, x \notin torn PROVE Hold(x)'
  <2>1. Hold(x) BY <1>6 DEF DraftHolds
  <2>2. CASE x # d
    BY <1>1, <1>2, <1>3, <2>1, <2>2, AtRest, HoldElsewhere, DrawerConstants
  <2>3. CASE x = d
    <3>1. Paid(task[h], draft[d]) BY <1>1, <2>1, <2>3 DEF Hold
    <3>2. draft[d].outs = 1 BY <1>2, <3>1 DEF Paid
    <3>3. \A g \in Handlers : task'[g].draft # d
      BY <1>1, <1>5, <2>1, <2>3, AtRest, DrawerConstants DEF Hold
    <3> QED BY <1>3, <2>3, <3>2, <3>3 DEF Hold
  <2> QED BY <2>2, <2>3
<1>7. Counting' BY <1>2, AtRest, CountingKept
<1>8. move' \in [Moves -> Movement] /\ shift' \in [Shifts -> ShiftRow] /\ odd' \subseteq Shifts
  BY <1>2 DEF DrawerTypeOK
<1> QED BY <1>2, <1>3, <1>4, <1>6, <1>7, <1>8, AtRest, DrawerKeeps

LEMMA KeptByFailTask ==
  ASSUME DrawerInv, NEW h \in Handlers, FailTask(h) PROVE DrawerInv'
<1> USE DEF DrawerInv
<1>1. /\ task' = [task EXCEPT ![h] = NoTask] /\ torn \subseteq torn'
      /\ {task[h].doc, task[h].draft} \cap (Moves \cup Drafts) \subseteq torn'
      /\ UNCHANGED <<shift, cashSale, note, move, draft, odd>>
  BY DEF FailTask, Done, rows
<1>2. \A m \in Moves \ torn' : ~Handles(task[h], m) BY <1>1 DEF Handles
<1>3. ASSUME NEW d \in Drafts, d \notin torn' PROVE Hold(d)'
  <2>1. Hold(d) /\ task[h].draft # d BY <1>1, <1>3 DEF DraftHolds
  <2> QED BY <1>1, <2>1, AtRest, HoldElsewhere, DrawerConstants
<1>4. Counting' BY <1>1, AtRest, CountingKept
<1>5. DrawerTypeOK BY DEF DrawerInv
<1> QED BY <1>1, <1>2, <1>3, <1>4, <1>5, AtRest, DrawerKeeps DEF DrawerTypeOK

LEMMA DrawerKept ==
  ASSUME DrawerInv, [DrawerNext]_drawerVars PROVE DrawerInv'
<1>1. ASSUME NEW h \in Handlers, Counter(h) PROVE DrawerInv'
  BY <1>1, KeptByLoadOpen, KeptByLoadClose, KeptByLoadCashSale, KeptByRefundCashSale,
     KeptByOpenShift, KeptByCloseShift, KeptByCreateSale, KeptByAttachSale, KeptByAttachNote
     DEF Counter
<1>2. ASSUME NEW h \in Handlers, Drawer(h) PROVE DrawerInv'
  BY <1>2, KeptByLoadMove, KeptByLoadPark, KeptByLoadRelease, KeptBySellUnshifted,
     KeptByLoadReverse, KeptByCreateMove, KeptByBookMove, KeptByStoreJournal,
     KeptByLookForReversal, KeptByUnbook, KeptByDeleteMove, KeptByParkCart, KeptByDropCart
     DEF Drawer
<1>3. CASE UNCHANGED drawerVars
  <2>1. UNCHANGED <<shift, cashSale, note, move, draft, odd, torn, task>>
    BY <1>3 DEF drawerVars, rows
  <2>2. DrawerTypeOK' /\ Equipments' BY <2>1 DEF DrawerInv, DrawerTypeOK, Equipments, Equipped
  <2>3. MoveBooks' /\ DraftHolds'
    BY <2>1 DEF DrawerInv, MoveBooks, Books, Handles, Booked, DraftHolds, Hold, Paid
  <2>4. MadeSales' = MadeSales /\ MadeMoves' = MadeMoves BY <2>1 DEF MadeSales, MadeMoves
  <2>5. \A k \in Shifts : ExpectedCash(k)' = ExpectedCash(k) BY <2>1, SameExpected
  <2>6. Reports'
    BY <2>1, <2>5 DEF DrawerInv, Counting, Reports, NoNotes, Reported
  <2>7. Counting'
    BY <2>1, <2>4, <2>6 DEF DrawerInv, Counting, Unopened, Opener, Attacher
  <2> QED BY <2>2, <2>3, <2>7 DEF DrawerInv
<1> QED BY <1>1, <1>2, <1>3, KeptByFailTask, KeptByVoidSale DEF DrawerNext

\* The Z report finds the cash that came into the drawer in the time of its
\* shift, sales without their shift and movements under way included, while
\* nothing was refunded and no cash moved for another shift.
THEOREM ZReportsFindTheCash == DrawerSpec => []ZFindsTheCash
<1>1. DrawerInv => ZFindsTheCash
  BY DEF DrawerInv, Counting, Reports, Reported, NoNotes, ZFindsTheCash, Counted
<1> QED BY <1>1, DrawerStart, DrawerKept, PTL DEF DrawerSpec

\* The journals of a movement, and the payments for a parked cart, are those
\* of what happened to it, unless a request stopped with it or two had it.
THEOREM JournalsFollowTheDrawer == DrawerSpec => []BooksFollowDrawer
<1>1. ASSUME DrawerInv PROVE BooksFollowDrawer
  <2>1. ASSUME NEW m \in Moves \ torn, ~Moved(m) \/ move[m].st = "gone"
        PROVE  move[m].booked = IF move[m].st = "live" THEN move[m].sign ELSE 0
    <3>1. Books(m) BY <1>1 DEF DrawerInv, MoveBooks
    <3>2. CASE move[m].st # "live" BY <3>1, <3>2 DEF Books
    <3>3. CASE move[m].st = "live"
      <4>1. \A h \in Handlers : ~Handles(task[h], m) BY <2>1, <3>3 DEF Moved, Handles
      <4> QED BY <3>1, <3>3, <4>1 DEF Books
    <3> QED BY <3>2, <3>3
  <2>2. ASSUME NEW d \in Drafts \ torn
        PROVE  draft[d].outs <= 1 /\ (draft[d].st = "gone" => draft[d].outs = 1)
    BY <1>1 DEF DrawerInv, DraftHolds, Hold, Paid
  <2> QED BY <2>1, <2>2 DEF BooksFollowDrawer
<1> QED BY <1>1, DrawerStart, DrawerKept, PTL DEF DrawerSpec
=============================================================================
